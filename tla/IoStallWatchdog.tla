--------------------------- MODULE IoStallWatchdog ---------------------------
(***************************************************************************)
(* deploy/io-stall-watchdog.sh: the loop that pets the hardware watchdog   *)
(* only while the disk and the network answer, its detached probes, and    *)
(* the recovery ladder.                                                    *)
(*                                                                         *)
(* Time is counted in turns of the loop.  The stamps and the times of the  *)
(* last probe, step and pet are kept as their ages, each up to the limit   *)
(* it is compared with.                                                    *)
(***************************************************************************)
EXTENDS Integers

CONSTANTS
    Grace,          \* IOWDT_GRACE
    ProbeEvery,     \* PROBE_INTERVAL
    DiskLimit, NetLimit,
    BounceAfter,    \* NET_BOUNCE_AFTER
    BounceEvery,    \* NET_BOUNCE_INTERVAL
    Hardware        \* the watchdog's own timeout

ASSUME LimitsAssumption ==
    /\ {Grace, ProbeEvery, DiskLimit, NetLimit, BounceAfter, BounceEvery, Hardware}
         \subseteq Nat \ {0}
    /\ BounceAfter < NetLimit

VARIABLES
    script,         \* "off", "probe", "read", "asleep"; "hung" or "dead"
    held,           \* HAVE_WD
    up,             \* uptime
    diskProbe, netProbe, recovery,      \* a child of the loop is alive
    diskAge, netAge,                    \* ages of the stamps in /run
    sinceProbe, sinceBounce, sincePet,
    step            \* bounce_step

watchdogVars == <<script, held, up, diskProbe, netProbe, recovery, diskAge, netAge,
                  sinceProbe, sinceBounce, sincePet, step>>
ages     == <<up, diskAge, netAge, sinceProbe, sinceBounce, sincePet>>
children == <<diskProbe, netProbe, recovery>>

Steps == 0 .. 3

WatchdogTypeOK ==
    /\ script \in {"off", "probe", "read", "asleep", "hung", "dead"} /\ held \in BOOLEAN
    /\ {diskProbe, netProbe, recovery} \subseteq BOOLEAN /\ step \in Steps
    /\ up \in 0 .. Grace /\ diskAge \in 0 .. DiskLimit /\ netAge \in 0 .. NetLimit
    /\ sinceProbe \in 0 .. ProbeEvery /\ sinceBounce \in 0 .. BounceEvery
    /\ sincePet \in 0 .. Hardware

\* The script starts: both stamps fresh, no probe and no step yet; opening the
\* device pets it.
Started(uptime) ==
    /\ script' = "probe" /\ up' = uptime /\ sincePet' = 0 /\ UNCHANGED held
    /\ diskProbe' = FALSE /\ netProbe' = FALSE /\ recovery' = FALSE
    /\ diskAge' = 0 /\ netAge' = 0 /\ sinceProbe' = ProbeEvery /\ sinceBounce' = BounceEvery
    /\ step' = 0

-----------------------------------------------------------------------------
InGrace == up < Grace

\* A turn in the grace period only pets.
GraceTurn ==
    /\ script = "probe" /\ InGrace
    /\ script' = "asleep" /\ sincePet' = 0
    /\ UNCHANGED <<held, up, children, diskAge, netAge, sinceProbe, sinceBounce, step>>

\* Probes are started unless the last one of the surface is still stuck.
LaunchProbes ==
    /\ script = "probe" /\ ~InGrace
    /\ script' = "read"
    /\ IF sinceProbe >= ProbeEvery
         THEN sinceProbe' = 0 /\ diskProbe' = TRUE /\ netProbe' = TRUE
         ELSE UNCHANGED <<sinceProbe, diskProbe, netProbe>>
    /\ UNCHANGED <<held, up, recovery, diskAge, netAge, sinceBounce, sincePet, step>>

\* The probes answer by a stamp; a failed ping leaves none.
DiskAnswers ==
    /\ diskProbe /\ diskProbe' = FALSE /\ diskAge' = 0
    /\ UNCHANGED <<script, held, up, netProbe, recovery, netAge, sinceProbe, sinceBounce,
                   sincePet, step>>

NetAnswers(reachable) ==
    /\ netProbe /\ netProbe' = FALSE
    /\ netAge' = IF reachable THEN 0 ELSE netAge
    /\ UNCHANGED <<script, held, up, diskProbe, recovery, diskAge, sinceProbe, sinceBounce,
                   sincePet, step>>

Healthy == diskAge < DiskLimit /\ netAge < NetLimit
PetsAlways     == TRUE                                                \* mutant
PetsAfterProbe == Healthy /\ sinceProbe = 0                           \* mutant
Pets == Healthy
Bounces == netAge >= BounceAfter /\ sinceBounce >= BounceEvery /\ ~recovery
NextStep == IF step < 3 THEN step + 1 ELSE 3

\* The loop reads the stamps, may start a recovery step, and pets if healthy.
Turn ==
    /\ script = "read" /\ (Healthy \/ held) /\ script' = "asleep"
    /\ recovery' = (recovery \/ Bounces)
    /\ sinceBounce' = IF Bounces THEN 0 ELSE sinceBounce
    /\ step' = IF Healthy /\ netAge < BounceAfter THEN 0 ELSE IF Bounces THEN NextStep ELSE step
    /\ sincePet' = IF Pets THEN 0 ELSE sincePet
    /\ UNCHANGED <<held, up, diskProbe, netProbe, diskAge, netAge, sinceProbe>>

RecoveryEnds ==
    /\ recovery /\ recovery' = FALSE
    /\ UNCHANGED <<script, held, ages, diskProbe, netProbe, step>>

\* Without the device, the turn that finds the box unhealthy resets it.
Sysrq == script = "read" /\ ~Healthy /\ ~held
Withheld == held /\ sincePet = Hardware

-----------------------------------------------------------------------------
Stops(how) == script' = how /\ UNCHANGED <<held, ages, children, step>>

\* systemd restarts a script that died; meanwhile the device has kept counting.
Restarts == script = "dead" /\ Started(up)

OlderUncapped(age, limit) == age + 1                                  \* mutant
Older(age, limit) == IF age < limit THEN age + 1 ELSE limit

\* The loop sleeps, or no longer runs.
Passes ==
    /\ script \in {"asleep", "hung", "dead"} /\ ~Withheld
    /\ script' = IF script = "asleep" THEN "probe" ELSE script
    /\ up' = Older(up, Grace)
    /\ diskAge' = Older(diskAge, DiskLimit) /\ netAge' = Older(netAge, NetLimit)
    /\ sinceProbe' = Older(sinceProbe, ProbeEvery)
    /\ sinceBounce' = Older(sinceBounce, BounceEvery)
    /\ sincePet' = Older(sincePet, Hardware)
    /\ UNCHANGED <<held, children, step>>
=============================================================================
