---------------------------- MODULE PiHostProofs ----------------------------
(* Proofs about PiHost and the scripts it composes, for any limits and any  *)
(* number of faults.                                                        *)
EXTENDS PiHost, TLAPS

-----------------------------------------------------------------------------
(* The guard, by itself: its commands, the resets and the writers of the    *)
(* profile.                                                                 *)

\* What is renamed had been synced, so that the whole profile is in place from
\* then on.
GuardInv ==
    /\ GuardTypeOK
    /\ guard = "rename" => staged = "synced"
    /\ guard \in {"sync_dir", "generate"} => target = "whole"

NoneAtRisk ==
    guard # "done" => /\ survives' \subseteq survives \cup {"whole"}
                      /\ guard' = "generate" => target' = "whole"
OnTheCard ==
    guard = "sync_dir" /\ guard' = "generate" =>
        survives' = {"whole"} \/ faults' = faults + 1

GuardMoves == GuardStep \/ GuardFails \/ SyncDirFails \/ Truncate \/ Rewritten \/ Flush

LEMMA GuardStarts == GuardInit => GuardInv
  BY DEF GuardInit, GuardInv, GuardTypeOK, Contents

LEMMA BootGuard ==
    ASSUME GuardInv, Boot
    PROVE  GuardInv' /\ survives' \subseteq survives /\ guard' = "check"
  BY DEF Boot, GuardInv, GuardTypeOK, Contents

\* One command of the script, or one of its failures, keeps the invariant and
\* puts nothing at risk.
LEMMA GuardMovesSafely ==
    ASSUME GuardInv, GuardMoves
    PROVE  GuardInv' /\ NoneAtRisk
  <1> USE DEF GuardInv, GuardTypeOK, NoneAtRisk, Contents
  <1>1. CASE Check
    BY <1>1 DEF Check
  <1>2. CASE Stage
    BY <1>2 DEF Stage
  <1>3. CASE SyncTmp
    BY <1>3 DEF SyncTmp
  <1>4. CASE Rename
    BY <1>4 DEF Rename
  <1>5. CASE SyncDir
    BY <1>5 DEF SyncDir
  <1>6. CASE Generate
    BY <1>6 DEF Generate
  <1>7. CASE GuardFails \/ SyncDirFails
    BY <1>7 DEF GuardFails, SyncDirFails
  <1>8. CASE Truncate \/ Rewritten \/ Flush
    BY <1>8 DEF Truncate, Rewritten, Flush
  <1>9. QED
    BY <1>1, <1>2, <1>3, <1>4, <1>5, <1>6, <1>7, <1>8 DEF GuardMoves, GuardStep

\* Of the guard's variables, a step of the box is a boot, a move or nothing.
LEMMA HostMovesGuard ==
    ASSUME [Next]_vars
    PROVE  Boot \/ GuardMoves \/ UNCHANGED guardVars
  <1>1. CASE HardwareReset \/ SysrqReset \/ PowerCut
    BY <1>1 DEF HardwareReset, SysrqReset, PowerCut, ResetBy
  <1>2. CASE Booting \/ CommandFails \/ Rewrite
    BY <1>2 DEF Booting, CommandFails, Rewrite, GuardMoves
  <1>3. CASE WrittenBack
    BY <1>3 DEF WrittenBack, GuardMoves
  <1>4. CASE Launch \/ Relaunch \/ Loop \/ ProbesAnswer \/ Revive \/ Time
    BY <1>4 DEF Launch, Relaunch, Loop, ProbesAnswer, Revive, Time
  <1>5. CASE Stall \/ Unstall \/ Wedge \/ ScriptStops
    BY <1>5 DEF Stall, Unstall, Wedge, ScriptStops
  <1>6. CASE UNCHANGED vars
    BY <1>6 DEF vars
  <1>7. QED
    BY <1>1, <1>2, <1>3, <1>4, <1>5, <1>6 DEF Next

LEMMA GuardStays ==
    ASSUME GuardInv, [Next]_vars
    PROVE  GuardInv' /\ NoneAtRisk
  <1>1. CASE Boot
    BY <1>1, BootGuard DEF NoneAtRisk
  <1>2. CASE GuardMoves
    BY <1>2, GuardMovesSafely
  <1>3. CASE UNCHANGED guardVars
    BY <1>3 DEF guardVars, GuardInv, GuardTypeOK, NoneAtRisk
  <1>4. QED
    BY <1>1, <1>2, <1>3, HostMovesGuard

\* From the rename on, only the sync of the directory, or its failure, leads on
\* to the network's configuration.
LEMMA DirectoryIsSynced ==
    ASSUME GuardInv, [Next]_vars
    PROVE  OnTheCard
  <1> SUFFICES ASSUME guard = "sync_dir", guard' = "generate"
               PROVE  survives' = {"whole"} \/ faults' = faults + 1
    BY DEF OnTheCard
  <1>1. CASE Booting
    <2>1. SyncDir
      BY <1>1 DEF Booting, GuardStep, Check, Stage, SyncTmp, Rename, Generate
    <2>2. QED
      BY <2>1 DEF SyncDir, GuardInv
  <1>2. CASE CommandFails
    BY <1>2 DEF CommandFails, Fault
  <1>3. CASE HardwareReset \/ SysrqReset \/ PowerCut
    BY <1>3 DEF HardwareReset, SysrqReset, PowerCut, ResetBy, Boot
  <1>4. CASE Rewrite \/ WrittenBack
    BY <1>4 DEF Rewrite, WrittenBack, Truncate, Rewritten, Flush
  <1>5. CASE Launch \/ Relaunch \/ Loop \/ ProbesAnswer \/ Revive \/ Time
    BY <1>5 DEF Launch, Relaunch, Loop, ProbesAnswer, Revive, Time, guardVars
  <1>6. CASE Stall \/ Unstall \/ Wedge \/ ScriptStops \/ UNCHANGED vars
    BY <1>6 DEF Stall, Unstall, Wedge, ScriptStops, guardVars, vars
  <1>7. QED
    BY <1>1, <1>2, <1>3, <1>4, <1>5, <1>6 DEF Next

\* What the guard keeps true, wherever it is in its script and whatever resets
\* the box: a synced copy before the rename, the profile in place after it.
THEOREM GuardInvariant == Spec => []GuardInv
  <1>1. Init => GuardInv
    BY GuardStarts DEF Init
  <1>2. QED
    BY <1>1, GuardStays, PTL DEF Spec

\* A reset at any point of the guard's work, after any failure of its commands,
\* leaves what it found or a whole profile, and the network is configured from a
\* whole one: on the card, unless the sync of the directory failed.
THEOREM GuardNeverLosesProfile == Spec => GuardIsCrashSafe
  <1>1. GuardInv /\ [Next]_vars => [NoneAtRisk /\ OnTheCard]_vars
    BY GuardStays, DirectoryIsSynced
  <1>2. [NoneAtRisk /\ OnTheCard]_vars <=>
          [guard # "done" =>
             /\ survives' \subseteq survives \cup {"whole"}
             /\ guard' = "generate" => target' = "whole"
             /\ guard = "sync_dir" /\ guard' = "generate" =>
                  survives' = {"whole"} \/ faults' = faults + 1]_vars
    BY DEF NoneAtRisk, OnTheCard
  <1>3. QED
    BY <1>1, <1>2, GuardInvariant, PTL DEF Spec, GuardIsCrashSafe

-----------------------------------------------------------------------------
(* Types of the watchdog and of the box.                                   *)

Ages ==
    /\ up \in 0 .. Grace /\ diskAge \in 0 .. DiskLimit /\ netAge \in 0 .. NetLimit
    /\ sinceProbe \in 0 .. ProbeEvery /\ sinceBounce \in 0 .. BounceEvery
    /\ sincePet \in 0 .. Hardware /\ step \in Steps
Flags ==
    /\ script \in {"off", "probe", "read", "asleep", "hung", "dead"} /\ held \in BOOLEAN
    /\ diskProbe \in BOOLEAN /\ netProbe \in BOOLEAN /\ recovery \in BOOLEAN
HostOK ==
    /\ wedge \in 0 .. 4 /\ faults \in 0 .. MaxFaults
    /\ diskUp \in 0 .. Steady /\ netUp \in 0 .. Steady
    /\ reset \in {"none", "hardware", "sysrq", "power"}

LEMMA TypeParts == TypeOK <=> Ages /\ Flags /\ GuardTypeOK /\ HostOK /\ stalled \in BOOLEAN
  BY DEF TypeOK, WatchdogTypeOK, Ages, Flags, HostOK

LEMMA Limits ==
    /\ Grace \in Nat \ {0} /\ ProbeEvery \in Nat \ {0} /\ DiskLimit \in Nat \ {0}
    /\ NetLimit \in Nat \ {0} /\ BounceAfter \in Nat \ {0} /\ BounceEvery \in Nat \ {0}
    /\ Hardware \in Nat \ {0} /\ MaxFaults \in Nat /\ Steady \in Nat
  BY LimitsAssumption, HostAssumption

\* An age grows up to its limit.
LEMMA OlderType ==
    ASSUME NEW limit \in Nat, NEW age \in 0 .. limit
    PROVE  Older(age, limit) \in 0 .. limit
  BY DEF Older

LEMMA StartedType ==
    ASSUME Flags, NEW u \in 0 .. Grace, Started(u)
    PROVE  Ages' /\ Flags'
  <1>1. Ages'
    BY Limits DEF Started, Ages, Steps
  <1>2. Flags'
    BY DEF Started, Flags
  <1>3. QED
    BY <1>1, <1>2

\* The loop, its children and the passing of time.
LEMMA LoopType ==
    ASSUME Ages, Flags, GraceTurn \/ LaunchProbes \/ Turn
    PROVE  Ages' /\ Flags'
  <1>1. Ages'
    <2>1. CASE GraceTurn
      BY <2>1, Limits DEF GraceTurn, Ages
    <2>2. CASE LaunchProbes
      BY <2>2, Limits DEF LaunchProbes, Ages
    <2>3. CASE Turn
      <3>1. step' \in Steps
        BY <2>3 DEF Turn, Ages, NextStep, Steps
      <3>2. QED
        BY <2>3, <3>1, Limits DEF Turn, Ages
    <2>4. QED
      BY <2>1, <2>2, <2>3
  <1>2. Flags'
    <2>1. CASE GraceTurn
      BY <2>1 DEF GraceTurn, children, Flags
    <2>2. CASE LaunchProbes
      BY <2>2 DEF LaunchProbes, Flags
    <2>3. CASE Turn
      <3>1. Bounces \in BOOLEAN
        BY DEF Bounces
      <3>2. recovery' \in BOOLEAN
        BY <2>3, <3>1 DEF Turn, Flags
      <3>3. QED
        BY <2>3, <3>2 DEF Turn, Flags
    <2>4. QED
      BY <2>1, <2>2, <2>3
  <1>3. QED
    BY <1>1, <1>2

LEMMA ChildrenType ==
    ASSUME Ages, Flags, DiskAnswers \/ (\E b : NetAnswers(b)) \/ RecoveryEnds
    PROVE  Ages' /\ Flags'
  <1>1. Ages'
    BY Limits DEF DiskAnswers, NetAnswers, RecoveryEnds, ages, Ages
  <1>2. Flags'
    BY DEF DiskAnswers, NetAnswers, RecoveryEnds, Flags
  <1>3. QED
    BY <1>1, <1>2

LEMMA PassesType ==
    ASSUME Ages, Flags, Passes
    PROVE  Ages' /\ Flags'
  <1>1. Ages'
    BY Limits, OlderType DEF Passes, Ages
  <1>2. Flags'
    BY DEF Passes, children, Flags
  <1>3. QED
    BY <1>1, <1>2

LEMMA ResetType ==
    ASSUME TypeOK, NEW who \in {"hardware", "sysrq", "power"}, ResetBy(who),
           faults' \in 0 .. MaxFaults
    PROVE  Ages' /\ Flags' /\ HostOK'
  <1>1. Ages'
    BY Limits DEF ResetBy, Ages, Steps
  <1>2. Flags'
    <2>1. Flags
      BY TypeParts
    <2>2. QED
      BY <2>1 DEF ResetBy, Flags
  <1>3. HostOK'
    <2>1. HostOK
      BY TypeParts
    <2>2. QED
      BY <2>1 DEF ResetBy, HostOK
  <1>4. QED
    BY <1>1, <1>2, <1>3

LEMMA FaultType ==
    ASSUME HostOK, Fault
    PROVE  faults' \in 0 .. MaxFaults
  BY Limits DEF HostOK, Fault

LEMMA StalledType ==
    ASSUME stalled \in BOOLEAN, [Next]_vars
    PROVE  stalled' \in BOOLEAN
  BY DEF Next, HardwareReset, SysrqReset, PowerCut, ResetBy, Booting, WrittenBack, Launch,
     Relaunch, Loop, ProbesAnswer, Revive, Time, Stall, Unstall, Wedge, ScriptStops,
     CommandFails, Rewrite, hostVars, vars

LEMMA HostStep ==
    ASSUME TypeOK, [Next]_vars
    PROVE  Ages' /\ Flags' /\ HostOK'
  <1>1. Ages /\ Flags /\ HostOK
    BY TypeParts
  <1>2. UNCHANGED watchdogVars => Ages' /\ Flags'
    BY <1>1 DEF watchdogVars, Ages, Flags
  <1>3. UNCHANGED hostVars => HostOK'
    BY <1>1 DEF hostVars, HostOK
  <1>4. CASE HardwareReset \/ SysrqReset \/ PowerCut
    <2>1. faults' \in 0 .. MaxFaults
      BY <1>1, <1>4, FaultType DEF HardwareReset, SysrqReset, PowerCut, HostOK
    <2>2. \E who \in {"hardware", "sysrq", "power"} : ResetBy(who)
      BY <1>4 DEF HardwareReset, SysrqReset, PowerCut
    <2>3. QED
      BY <2>1, <2>2, ResetType
  <1>5. CASE Booting \/ WrittenBack
    BY <1>2, <1>3, <1>5 DEF Booting, WrittenBack
  <1>6. CASE Launch
    <2>1. Ages' /\ Flags'
      BY <1>1, <1>6, StartedType, HostAssumption DEF Launch
    <2>2. HostOK'
      BY <1>1, <1>6, Limits DEF Launch, HostOK
    <2>3. QED
      BY <2>1, <2>2
  <1>7. CASE Relaunch
    <2>1. Started(up) /\ up \in 0 .. Grace /\ UNCHANGED hostVars
      BY <1>1, <1>7 DEF Relaunch, Restarts, Ages
    <2>2. QED
      BY <1>1, <1>3, <2>1, StartedType
  <1>8. CASE Loop
    BY <1>1, <1>3, <1>8, LoopType DEF Loop
  <1>9. CASE ProbesAnswer
    BY <1>1, <1>3, <1>9, ChildrenType DEF ProbesAnswer
  <1>10. CASE Revive
    <2>1. Ages' /\ Flags'
      BY <1>1, <1>10, ChildrenType DEF Revive
    <2>2. HostOK'
      BY <1>1, <1>10 DEF Revive, HostOK
    <2>3. QED
      BY <2>1, <2>2
  <1>11. CASE Time
    <2>1. Ages' /\ Flags'
      BY <1>1, <1>11, PassesType DEF Time
    <2>2. diskUp' \in 0 .. Steady /\ netUp' \in 0 .. Steady
      BY <1>1, <1>11, Limits, OlderType DEF Time, HostOK
    <2>3. HostOK'
      BY <1>1, <1>11, <2>2 DEF Time, HostOK
    <2>4. QED
      BY <2>1, <2>3
  <1>12. CASE Stall \/ Wedge \/ CommandFails \/ Rewrite
    <2>1. UNCHANGED watchdogVars /\ faults' \in 0 .. MaxFaults
      BY <1>1, <1>12, FaultType DEF Stall, Wedge, CommandFails, Rewrite
    <2>2. wedge' \in 0 .. 4 /\ UNCHANGED <<diskUp, netUp, reset>>
      <3>1. CASE Wedge
        BY <3>1 DEF Wedge
      <3>2. CASE Stall \/ CommandFails \/ Rewrite
        BY <1>1, <3>2 DEF Stall, CommandFails, Rewrite, HostOK
      <3>3. QED
        BY <1>12, <3>1, <3>2
    <2>3. HostOK'
      BY <1>1, <2>1, <2>2 DEF HostOK
    <2>4. QED
      BY <1>2, <2>1, <2>3
  <1>13. CASE Unstall
    <2>1. UNCHANGED watchdogVars /\ HostOK'
      BY <1>1, <1>13 DEF Unstall, HostOK
    <2>2. QED
      BY <1>2, <2>1
  <1>14. CASE ScriptStops
    <2>1. faults' \in 0 .. MaxFaults
      BY <1>1, <1>14, FaultType DEF ScriptStops
    <2>2. HostOK'
      BY <1>1, <1>14, <2>1 DEF ScriptStops, HostOK
    <2>3. Ages'
      BY <1>1, <1>14 DEF ScriptStops, Stops, ages, Ages
    <2>4. Flags'
      BY <1>1, <1>14 DEF ScriptStops, Stops, children, Flags
    <2>5. QED
      BY <2>2, <2>3, <2>4
  <1>15. CASE UNCHANGED vars
    BY <1>2, <1>3, <1>15 DEF vars
  <1>16. QED
    BY <1>4, <1>5, <1>6, <1>7, <1>8, <1>9, <1>10, <1>11, <1>12, <1>13, <1>14, <1>15
    DEF Next

\* No age outgrows the limit it is compared with, whatever stalls or resets.
THEOREM HostTyped == Spec => []TypeOK
  <1>1. Init => TypeOK
    <2>1. ASSUME Init PROVE Ages
      BY <2>1, Limits DEF Init, Ages, Steps
    <2>2. ASSUME Init PROVE Flags /\ stalled \in BOOLEAN
      BY <2>2 DEF Init, Flags
    <2>3. ASSUME Init PROVE HostOK
      BY <2>3, Limits DEF Init, HostOK
    <2>4. Init => GuardTypeOK
      BY GuardStarts DEF Init, GuardInv
    <2>5. QED
      BY <2>1, <2>2, <2>3, <2>4, TypeParts
  <1>2. TypeOK /\ GuardInv' /\ [Next]_vars => TypeOK'
    <2>1. ASSUME TypeOK, GuardInv', [Next]_vars
          PROVE  (Ages /\ Flags /\ GuardTypeOK /\ HostOK /\ stalled \in BOOLEAN)'
      BY <2>1, HostStep, StalledType, TypeParts DEF GuardInv
    <2>2. QED
      BY <2>1, TypeParts DEF TypeOK, WatchdogTypeOK, Ages, Flags, HostOK
  <1>3. QED
    BY <1>1, <1>2, GuardInvariant, PTL DEF Spec

=============================================================================
