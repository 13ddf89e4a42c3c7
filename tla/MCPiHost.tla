------------------------------ MODULE MCPiHost ------------------------------
(* An instance of PiHost for TLC: the relations between the limits are the  *)
(* defaults', their sizes are not.                                          *)
EXTENDS PiHost

ASSUME Hardware < ProbeEvery /\ ProbeEvery < BounceEvery /\ BounceEvery < DiskLimit
ASSUME DiskLimit <= BounceAfter /\ BounceAfter < Grace /\ Grace < NetLimit
=============================================================================
