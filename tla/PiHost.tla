------------------------------- MODULE PiHost -------------------------------
(***************************************************************************)
(* The Raspberry Pi: a card that may stall, a Wi-Fi driver that may wedge, *)
(* the profile the network needs, and the resets by which the watchdog and *)
(* the guard bring the box back.                                           *)
(***************************************************************************)
EXTENDS IoStallWatchdog, WifiProfileGuard

CONSTANTS
    Starts,         \* uptimes at which the watchdog script may start
    MaxFaults,      \* bound on the faults
    Steady          \* a surface is steady when it has answered this long

ASSUME HostAssumption == Starts \subseteq 0 .. Grace /\ MaxFaults \in Nat /\ Steady \in Nat

VARIABLES
    stalled,        \* the card does not answer
    wedge,          \* the least recovery step that revives the driver; 0: none needed
    faults,
    diskUp, netUp,  \* how long each surface has answered, up to Steady
    reset           \* who reset the box last: "none", "hardware", "sysrq", "power"

hostVars == <<stalled, wedge, faults, diskUp, netUp, reset>>
vars == <<watchdogVars, guardVars, hostVars>>

Running   == guard = "done"
Reachable == Running /\ loaded /\ wedge = 0 /\ ~recovery

Init ==
    /\ GuardInit /\ script = "off" /\ held \in BOOLEAN
    /\ up = 0 /\ diskProbe = FALSE /\ netProbe = FALSE /\ recovery = FALSE
    /\ diskAge = 0 /\ netAge = 0 /\ sinceProbe = 0 /\ sinceBounce = 0 /\ sincePet = 0 /\ step = 0
    /\ stalled = FALSE /\ wedge = 0 /\ faults = 0 /\ diskUp = 0 /\ netUp = 0 /\ reset = "none"

-----------------------------------------------------------------------------
\* A reset loses everything but the card; the hardware counter is off.
ResetBy(who) ==
    /\ Boot /\ reset' = who
    /\ script' = "off" /\ up' = 0 /\ sincePet' = 0 /\ step' = 0
    /\ diskProbe' = FALSE /\ netProbe' = FALSE /\ recovery' = FALSE
    /\ diskAge' = 0 /\ netAge' = 0 /\ sinceProbe' = 0 /\ sinceBounce' = 0
    /\ stalled' = FALSE /\ wedge' = 0
    /\ UNCHANGED <<held, diskUp, netUp>>

HardwareReset == Running /\ Withheld /\ ResetBy("hardware") /\ UNCHANGED faults
SysrqReset    == Running /\ Sysrq /\ ResetBy("sysrq") /\ UNCHANGED faults

Booting == ~Running /\ GuardStep /\ UNCHANGED <<watchdogVars, hostVars>>

\* The first start of the script after a boot, and its restarts.
Launch ==
    /\ Running /\ script = "off" /\ \E s \in Starts : Started(s)
    /\ diskUp' = 0 /\ netUp' = 0
    /\ UNCHANGED <<guardVars, stalled, wedge, faults, reset>>
Relaunch == Running /\ ~stalled /\ Restarts /\ UNCHANGED <<guardVars, hostVars>>

Loop ==
    /\ Running
    /\ GraceTurn \/ LaunchProbes \/ Turn
    /\ UNCHANGED <<guardVars, hostVars>>

ProbesAnswer ==
    /\ Running
    /\ (~stalled /\ DiskAnswers) \/ NetAnswers(Reachable)
    /\ UNCHANGED <<guardVars, hostVars>>

\* A step revives a driver that needs no more than it.
Revive ==
    /\ Running /\ RecoveryEnds
    /\ wedge' = IF wedge <= step THEN 0 ELSE wedge
    /\ UNCHANGED <<guardVars, stalled, faults, diskUp, netUp, reset>>

\* A turn of the loop takes longer than a probe or a step that nothing blocks.
Time ==
    /\ Running /\ Passes
    /\ ~stalled => ~diskProbe /\ ~netProbe /\ (~recovery \/ wedge = 4)
    /\ diskUp' = IF stalled THEN 0 ELSE Older(diskUp, Steady)
    /\ netUp' = IF Reachable THEN Older(netUp, Steady) ELSE 0
    /\ UNCHANGED <<guardVars, stalled, wedge, faults, reset>>

-----------------------------------------------------------------------------
(* Faults. *)
Fault == faults < MaxFaults /\ faults' = faults + 1

Stall   == Fault /\ Running /\ script # "off" /\ ~stalled /\ stalled' = TRUE
             /\ UNCHANGED <<watchdogVars, guardVars, wedge, diskUp, netUp, reset>>
Unstall == stalled /\ stalled' = FALSE
             /\ UNCHANGED <<watchdogVars, guardVars, wedge, faults, diskUp, netUp, reset>>
Wedge   == Fault /\ Running /\ wedge = 0 /\ wedge' \in 1 .. 4
             /\ UNCHANGED <<watchdogVars, guardVars, stalled, diskUp, netUp, reset>>
ScriptStops == Fault /\ Running /\ script \in {"probe", "read", "asleep"}
             /\ (Stops("hung") \/ Stops("dead"))
             /\ UNCHANGED <<guardVars, stalled, wedge, diskUp, netUp, reset>>
PowerCut == Fault /\ ResetBy("power")
CommandFails == Fault /\ (GuardFails \/ SyncDirFails)
             /\ UNCHANGED <<watchdogVars, stalled, wedge, diskUp, netUp, reset>>
Rewrite == Fault /\ ~stalled /\ Truncate
             /\ UNCHANGED <<watchdogVars, stalled, wedge, diskUp, netUp, reset>>
WrittenBack == ~stalled /\ (Rewritten \/ Flush) /\ UNCHANGED <<watchdogVars, hostVars>>

Next ==
    \/ HardwareReset \/ SysrqReset \/ Booting \/ Launch \/ Relaunch
    \/ Loop \/ ProbesAnswer \/ Revive \/ Time
    \/ Stall \/ Unstall \/ Wedge \/ ScriptStops \/ PowerCut \/ CommandFails
    \/ Rewrite \/ WrittenBack

Spec == Init /\ [][Next]_vars

\* Time passes, the kernel schedules what can run, and systemd restarts the script.
FairSpec ==
    /\ Spec
    /\ WF_vars(HardwareReset) /\ WF_vars(SysrqReset) /\ WF_vars(Booting)
    /\ WF_vars(Launch) /\ WF_vars(Relaunch) /\ WF_vars(Loop)
    /\ WF_vars(ProbesAnswer) /\ WF_vars(Revive) /\ WF_vars(Time) /\ WF_vars(WrittenBack)

-----------------------------------------------------------------------------
(* Properties.                                                             *)

TypeOK ==
    /\ WatchdogTypeOK /\ GuardTypeOK
    /\ stalled \in BOOLEAN /\ wedge \in 0 .. 4 /\ faults \in 0 .. MaxFaults
    /\ diskUp \in 0 .. Steady /\ netUp \in 0 .. Steady
    /\ reset \in {"none", "hardware", "sysrq", "power"}

\* A box whose two surfaces have been answering for a while is not reset by a
\* watchdog whose script runs: the stamps, old as they may be, never say that a
\* healthy box is not.
Answering == diskUp = Steady /\ netUp = Steady
NoNeedlessReset == [][HardwareReset => ~Answering \/ script \in {"hung", "dead"}]_vars

\* The same of the reset the script forces when it does not hold the device.
NoNeedlessSysrq == [][SysrqReset => ~Answering]_vars

\* The guard never puts at risk what is on the card: whatever reset comes while
\* it works, and whichever command fails, the reset leaves what the guard found
\* or a whole profile, never the 0-byte file of a rename before its blocks.  It
\* configures the network from a whole profile, which no reset can lose any more
\* unless the sync of the directory failed.
GuardIsCrashSafe ==
    [][guard # "done" =>
         /\ survives' \subseteq survives \cup {"whole"}
         /\ guard' = "generate" => target' = "whole"
         /\ guard = "sync_dir" /\ guard' = "generate" =>
              survives' = {"whole"} \/ faults' = faults + 1]_vars

\* Whatever stalls, wedges, hangs or is cut off, the box comes back for good, if
\* the script holds the device and there is a profile to restore.
Serving  == Running /\ ~stalled /\ Reachable
Recovers == held /\ usable => <>[]Serving
=============================================================================
