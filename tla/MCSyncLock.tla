---------------------------- MODULE MCSyncLock ----------------------------
(***************************************************************************)
(* Instances of SyncLock for TLC.  A hosted run is stopped after one tick, *)
(* and the lease is longer than that and the clocks' skew together, as     *)
(* five minutes exceed sixty seconds: two ticks on clocks that agree,      *)
(* three on clocks that differ by one.  The clock runs to four or five     *)
(* ticks, so that a run can be killed, its lease lapse and a later run     *)
(* take over, work and finish.                                             *)
(***************************************************************************)
EXTENDS SyncLock, TLC, FiniteSets

Interchangeable == Permutations(Hosted)
=============================================================================
