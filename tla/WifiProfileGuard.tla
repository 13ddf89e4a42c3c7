-------------------------- MODULE WifiProfileGuard --------------------------
(***************************************************************************)
(* deploy/wifi-profile-guard.sh, one command after the other, and the      *)
(* netplan profile it restores at boot, before the network starts.         *)
(*                                                                         *)
(* `survives` is what a reset may leave in the place of the profile: what  *)
(* was there when the directory was last on the card, and what has been    *)
(* renamed or written since.  The files of /etc/netplan are taken as one.  *)
(***************************************************************************)
EXTENDS Naturals, FiniteSets

Contents == {"absent", "empty", "whole"}

VARIABLES
    target,         \* the profile as the running system reads it
    survives,       \* what a reset may leave of it
    guard,          \* the next command of the script, or "done"
    staged,         \* the temporary file: "none", "written" or "synced"
    loaded,         \* the network was configured from a whole profile
    usable          \* the boot partition's network-config defines Wi-Fi

guardVars == <<target, survives, guard, staged, loaded, usable>>

GuardTypeOK ==
    /\ target \in Contents /\ survives \in SUBSET Contents /\ target \in survives
    /\ guard \in {"check", "stage", "sync", "rename", "sync_dir", "generate", "done"}
    /\ staged \in {"none", "written", "synced"}
    /\ loaded \in BOOLEAN /\ usable \in BOOLEAN

GuardInit ==
    /\ target \in Contents /\ survives = {target} /\ guard = "check"
    /\ staged = "none" /\ loaded = (target = "whole") /\ usable \in BOOLEAN

\* The system generator has read the profile before the script looks at it.
Boot ==
    /\ target' \in survives /\ survives' = {target'}
    /\ guard' = "check" /\ staged' = "none" /\ loaded' = (target' = "whole")
    /\ UNCHANGED usable

-----------------------------------------------------------------------------
Check ==
    /\ guard = "check"
    /\ guard' = IF target # "whole" /\ usable THEN "stage" ELSE "done"
    /\ UNCHANGED <<target, survives, staged, loaded, usable>>

Stage ==
    /\ guard = "stage" /\ guard' = "sync" /\ staged' = "written"
    /\ UNCHANGED <<target, survives, loaded, usable>>

SyncTmpNever ==                                                       \* mutant
    /\ guard = "sync" /\ guard' = "rename"
    /\ UNCHANGED <<target, survives, staged, loaded, usable>>
SyncTmp ==
    /\ guard = "sync" /\ guard' = "rename" /\ staged' = "synced"
    /\ UNCHANGED <<target, survives, loaded, usable>>

\* A file that was not synced may be renamed before its blocks are written.
Rename ==
    /\ guard = "rename" /\ guard' = "sync_dir" /\ staged' = "none"
    /\ target' = "whole"
    /\ survives' = survives \cup (IF staged = "synced" THEN {"whole"} ELSE {"whole", "empty"})
    /\ UNCHANGED <<loaded, usable>>

SyncDir ==
    /\ guard = "sync_dir" /\ guard' = "generate" /\ survives' = {target}
    /\ UNCHANGED <<target, staged, loaded, usable>>

Generate ==
    /\ guard = "generate" /\ guard' = "done" /\ loaded' = TRUE
    /\ UNCHANGED <<target, survives, staged, usable>>

\* The sync of the directory is not checked: when it fails, the rename may
\* still be lost by a reset, and the script goes on.
SyncDirFails ==
    /\ guard = "sync_dir" /\ guard' = "generate"
    /\ UNCHANGED <<target, survives, staged, loaded, usable>>

\* Any other command fails: the temporary file is removed and the boot goes on.
GuardFails ==
    /\ guard \in {"stage", "sync", "rename", "generate"}
    /\ guard' = "done" /\ staged' = "none"
    /\ UNCHANGED <<target, survives, loaded, usable>>

GuardStep == Check \/ Stage \/ SyncTmp \/ Rename \/ SyncDir \/ Generate

-----------------------------------------------------------------------------
\* NetworkManager rewrites the profile in place, and the kernel writes it back.
Truncate ==
    /\ guard = "done" /\ target = "whole"
    /\ target' = "empty" /\ survives' = survives \cup {"empty"}
    /\ UNCHANGED <<guard, staged, loaded, usable>>

Rewritten ==
    /\ guard = "done" /\ target = "empty" /\ loaded
    /\ target' = "whole" /\ survives' = survives \cup {"whole"}
    /\ UNCHANGED <<guard, staged, loaded, usable>>

Flush ==
    /\ guard = "done" /\ target = "whole" /\ survives # {target} /\ survives' = {target}
    /\ UNCHANGED <<target, guard, staged, loaded, usable>>
=============================================================================
