------------------------------ MODULE MCSenders ------------------------------
(* Instances of Senders for TLC: which tools run, and with what.            *)
EXTENDS Senders

CONSTANTS
    cmd, rerun,         \* the CLI, twice with one design; the first waits
    other,              \* the CLI with the second's key and another design
    watch, dry,         \* `status --wait`, and a dry run
    image, doc, doc2,   \* print_image, and print_document twice with one key
    view,               \* preview_document
    list1, list2

ToolOf == [s \in Senders |->
    CASE s \in {cmd, dry} -> "print" [] s \in {rerun, other} -> "send"
      [] s = watch -> "status" [] s = image -> "print_image"
      [] s = view -> "preview_document" [] OTHER -> "print_document"]
PayloadOf == [s \in Senders |->
    CASE s \in {cmd, rerun} -> "design" [] s \in {doc, doc2} -> "text" [] OTHER -> s]
GivenOf == [s \in Senders |->
    CASE s = other -> <<"sha256", "design">> [] s \in {doc, doc2, image} -> "key"
      [] OTHER -> None]
HostOf == [s \in Senders |-> IF s = rerun THEN "public" ELSE "tailnet"]
=============================================================================
