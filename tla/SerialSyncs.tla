---------------------------- MODULE SerialSyncs ----------------------------
(***************************************************************************)
(* What runSync promises its callers, without saying how: one sync at a    *)
(* time.  A run enters when none is inside and leaves when it ends, fails  *)
(* or is killed.  SyncLock, the compare-and-set on the Setting row         *)
(* 'sync.running', is shown to implement this.                             *)
(***************************************************************************)
CONSTANTS Runs, Nobody

VARIABLE inside     \* the run whose pipeline is executing, or Nobody

Init == inside = Nobody

Enter(r) == inside = Nobody /\ inside' = r

Leave(r) == inside = r /\ inside' = Nobody

Next == \E r \in Runs : Enter(r) \/ Leave(r)

Spec == Init /\ [][Next]_inside
=============================================================================
