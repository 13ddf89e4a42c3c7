------------------------------- MODULE MCJobLog -------------------------------
(* Instances of JobLog: two jobs that differ in nothing but their names.   *)
EXTENDS JobLog, TLC

Interchangeable == Permutations(Jobs)
=============================================================================
