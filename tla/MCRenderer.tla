----------------------------- MODULE MCRenderer -----------------------------
(* Instances of Renderer for TLC.  A character of these texts stands for a  *)
(* stretch of a real one, so that a few of them fill a line; the sizes of   *)
(* the other bitmaps are those the bundled fonts give, for short texts and  *)
(* for texts of the greatest length the schema allows.                      *)
EXTENDS Renderer, TLC

Bitmap(w, h) == [w |-> w, h |-> h]
Short  == Bitmap(90, 24)
Wide   == Bitmap(2200, 24)       \* 200 characters of body text
Endless == Bitmap(21600, 24)     \* 2000 characters of body text
Glyphs == Bitmap(60, 26)         \* the fallback font is taller
Boxes  == Bitmap(60, 28)         \* box-drawing characters of the mono face

Structure ==
    [type : {"header"}, style : {"inverse_band", "ornamental", "minimal"}, align : Aligns,
     title : {Bitmap(200, 42), Bitmap(480, 42), Bitmap(900, 42)}, sub : {None, Short, Wide}]
      \cup [type : {"section_title"}, style : {"underline", "inverse", "rule_above"},
            align : Aligns, title : {Bitmap(160, 29), Bitmap(1500, 29)}]
      \cup [type : {"large_text"}, align : Aligns, title : {Bitmap(120, 96), Bitmap(9000, 96)}]
      \cup [type : {"pull_quote"}, title : {Short, Endless}, sub : {None, Wide}]
      \cup [type : {"code"}, size : {"sm", "md", "lg"}, imgs : {<<Short, Wide>>}]
      \cup {[type |-> "code", size |-> s, imgs |-> <<Bitmap(60, h), Bitmap(60, h)>>] :
               <<s, h>> \in {<<"sm", 21>>, <<"md", 24>>, <<"lg", 28>>}}

Run(img, it, ul) == [img |-> img, italic |-> it, underline |-> ul]
Runs == {Run(Bitmap(200, 24), FALSE, FALSE), Run(Bitmap(300, 24), TRUE, TRUE),
         Run(Endless, TRUE, FALSE)}
RichTexts == [type : {"rich_text"}, align : {"left", "right"},
              runs : {<<p, q, r>> : p, q, r \in Runs}]

Frame ==
    [type : {"byline", "dateline", "salutation"}, title : {Short, Wide}]
      \cup [type : {"signature"}, title : {Short, Wide}, sub : {None, Wide}]
      \cup [type : {"address"}, imgs : {<<Short, Wide>>, <<Glyphs, Glyphs>>}]

Cells == {Bitmap(11, 24), Short, Wide}
OddCells == {Bitmap(1, 24), Boxes, Wide}    \* a zero-width character
Tables == [type : {"table_compact"}, headers : {None} \cup {<<p, q>> : p, q \in Cells},
           rows : {<<<<p, q>>, <<Short, Short>>>> : p, q \in Cells}]
            \cup [type : {"table_compact"}, headers : {None},
                  rows : {<<<<p, q, r>>>> : p, q, r \in Cells} \cup {<<<<p, q>>>> : p, q \in OddCells}]

Visual ==
    [type : {"ornament"}, title : {Short, Wide}]
      \cup [type : {"progress_bar", "tear_here"}, sub : {None, Short, Wide}]
      \cup [type : {"sparkline"}, sub : {None, Wide},
            series : {<<3, 3>>, <<0, 5, 9>>, [i \in 1 .. 200 |-> i % 2]},
            content : {"ok", "not_finite"}]
      \cup [type : {"qr"}, size : {"sm", "md", "lg"}, sub : {None, Wide},
            content : {"ok", "too_long"}]
      \cup [type : {"rule", "gradient_band"}]
      \cup [type : {"ascii_art"}, font : {"default", "small"}, imgs : {<<Short, Short>>}]
      \cup [type : {"barcode"}, img : {Bitmap(100, 60), Bitmap(900, 1)},
            content : {"ok", "invalid"}]

Images ==
    [type : {"image"}, img : {Bitmap(400, 300), Bitmap(576, 20), Bitmap(700, 1), Bitmap(49, 49)},
     width : {1, 300, LIVE}, bleed : {FALSE}, align : Aligns, sub : {None, Wide}, content : {"ok"}]
      \cup [type : {"image"}, img : {Bitmap(400, 300)}, width : {LIVE}, bleed : {TRUE},
            align : {"left"}, sub : {None, Short},
            content : {"ok", "not_base64", "not_an_image", "too_many_pixels", "unhandled"}]

\* The first text of a list is the wrapped one; b.rest are the others.
Worded ==
    [type : {"paragraph"}, align : Aligns]
      \cup [type : {"footer", "colophon"}]
      \cup [type : {"drop_cap"}, title : {Bitmap(50, 70), Bitmap(240, 70)}]
      \cup [type : {"epigraph"}, sub : {None, Wide}]
      \cup [type : {"checklist"}, rest : {<<>>, <<<<Short, Wide>>, <<Short>>>>}]
      \cup [type : {"bullets"}, title : {Bitmap(10, 24), Bitmap(30, 24)}, rest : {<<<<Wide>>>>}]
      \cup [type : {"numbered"}, imgs : {<<Bitmap(16, 24), Bitmap(20, 24)>>}, rest : {<<<<Wide>>>>}]
      \cup [type : {"kv"}, rest : {<<<<Short, Short>>>>},
            pairs : {<<<<Wide>>, <<Short>>>>, <<<<Boxes>>, <<Short>>>>, <<<<Short, Short, Short>>, <<Short>>>>}]

Flows == {[type |-> "cut"], [type |-> "spacer", lines |-> 1]}

\* Blocks that validation must keep away from the renderers.
Faulty == {[type |-> "table_compact", headers |-> None, rows |-> <<r>>] :
             r \in {<<Short>>, <<Wide, Wide, Wide, Bitmap(11, 24)>>}}
            \cup {[type |-> "table_compact", headers |-> <<Short>>, rows |-> <<<<Short, Short>>>>],
                  [type |-> "spacer", lines |-> 0], 
                  [type |-> "sparkline", sub |-> None, series |-> <<1>>, content |-> "ok"]}
            \cup [type : {"image"}, img : {Short}, width : {LIVE}, bleed : {TRUE}, align : {"right"},
                  sub : {None}, content : {"ok"}]

FirstBlocks == Faulty \cup Structure \cup RichTexts \cup Frame \cup Tables \cup Visual \cup Images
                 \cup Worded \cup Flows \cup {[type |-> "feed", lines |-> 20]}

\* A character of a word is 180 wide, one of the fallback font 190, a space 80:
\* two fill a line, and exactly fill a colophon's.
Advance(c) == CASE c = "word" -> 180 [] c = "glyph" -> 190 [] c = "space" -> 80
Extend(t, c) == [text |-> Append(t.text, c),
                 ink |-> t.ink @@ (Len(t.text) + 1 :> t.ink[Len(t.text)] + Advance(c))]
Longer(ts) == {Extend(t, c) : t \in ts, c \in Classes}
Text1 == Longer({[text |-> <<>>, ink |-> 0 :> 0]})
Text2 == Longer(Text1)
Text3 == Longer(Text2)
Text4 == Longer(Text3)
AllTexts == Text1 \cup Text2 \cup Text3 \cup Text4
              \cup {Extend(Extend(Extend(t, "word"), c), "word") : t \in Text3, c \in {"word", "space"}}

\* The only one of the scalings above that Python's floats bring down.
BroughtDown == {<<49, 1, 49>>}

PageLengths == {None, 20}
=============================================================================
