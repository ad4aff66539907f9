--------------------------- MODULE SyncLockProofs ---------------------------
(***************************************************************************)
(* Proofs about SyncLock for every set of runs and every lease.  The       *)
(* argument: a run that works still finds its own claim in the row until   *)
(* its lease has lapsed on some clock (LeaseHeld), because the only step   *)
(* that replaces a claim is a swap from a value that had lapsed on the     *)
(* swapper's clock, and claims of different runs differ.  Two runs with a  *)
(* live lease would then share one row; and a hosted run is stopped while  *)
(* its lease is live.                                                      *)
(***************************************************************************)
EXTENDS SyncLock, TLAPS

\* What a run that is about to swap has read: a claim lapsed on its clock.
SwapFromLapsed ==
    \A r \in Runs :
        pc[r] = "swapping" => held[r] \in Claims /\ held[r].expires <= clock[r]

\* A called run's clock was read at its call, ahead by at most Skew.
ClocksInStep ==
    \A r \in Runs :
        pc[r] # "idle" =>
            born[r] <= now /\ born[r] <= clock[r] /\ clock[r] <= now + Skew

IInv == TypeOK /\ SwapFromLapsed /\ ClocksInStep /\ LeaseHeld

\* The host stops its functions in time.
HostLimit == \A r \in Hosted : Alive(r) => now <= born[r] + MaxDuration

-----------------------------------------------------------------------------
\* Claims of two runs differ: the uuid is the caller's own.
LEMMA ClaimsDiffer == \A r, q \in Runs : claim(r) = claim(q) => r = q
  BY DEF claim

\* A run's claim is a claim, and is never the absent row.
LEMMA ClaimTyped ==
  ASSUME TypeOK, NEW r \in Runs
  PROVE  claim(r) \in Claims /\ claim(r) # NoRow /\ claim(r).expires = clock[r] + TTL
  BY NoRowAssumption, TimeAssumption DEF TypeOK, claim, Claims

LEMMA InitIInv == Init => IInv
  <1> SUFFICES ASSUME Init PROVE IInv
    OBVIOUS
  <1>1. TypeOK
    <2>1. row \in {NoRow} \union Claims
      BY TimeAssumption DEF Init, Claims
    <2> QED
      BY <2>1, TimeAssumption DEF Init, TypeOK, States
  <1>2. \A r \in Runs : pc[r] = "idle"
    BY DEF Init
  <1> QED
    BY <1>1, <1>2 DEF IInv, SwapFromLapsed, ClocksInStep, LeaseHeld, Working

\* Types are kept by every step.
LEMMA TypeStep == TypeOK /\ [Next]_vars => TypeOK'
  <1> SUFFICES ASSUME TypeOK, [Next]_vars PROVE TypeOK'
    OBVIOUS
  <1> USE TimeAssumption
  <1>1. CASE UNCHANGED vars
    BY <1>1 DEF TypeOK, vars
  <1>2. CASE Tick
    BY <1>2 DEF Tick, TypeOK
  <1>3. ASSUME NEW r \in Runs, Call(r) PROVE TypeOK'
    BY <1>3 DEF Call, TypeOK, States
  <1>4. ASSUME NEW r \in Runs, Read(r) PROVE TypeOK'
    BY <1>4 DEF Read, TypeOK, States
  <1>5. ASSUME NEW r \in Runs, Create(r) PROVE TypeOK'
    BY <1>5, ClaimTyped DEF Create, TypeOK, States
  <1>6. ASSUME NEW r \in Runs, CreateError(r) PROVE TypeOK'
    <2>1. row' \in {NoRow} \union Claims
      BY <1>6, ClaimTyped DEF CreateError, TypeOK
    <2> QED
      BY <1>6, <2>1 DEF CreateError, TypeOK, States
  <1>7. ASSUME NEW r \in Runs, Swap(r) PROVE TypeOK'
    BY <1>7, ClaimTyped DEF Swap, TypeOK, States
  <1>8. ASSUME NEW r \in Runs, Finish(r) PROVE TypeOK'
    BY <1>8 DEF Finish, TypeOK, States
  <1>9. ASSUME NEW r \in Runs, Release(r) PROVE TypeOK'
    BY <1>9 DEF Release, TypeOK, States
  <1>10. ASSUME NEW r \in Runs, Kill(r) PROVE TypeOK'
    BY <1>10 DEF Kill, TypeOK, States
  <1> QED
    BY <1>1, <1>2, <1>3, <1>4, <1>5, <1>6, <1>7, <1>8, <1>9, <1>10 DEF Next, Step

\* The two bookkeeping invariants are kept by every step.
LEMMA BookkeepingStep ==
  IInv /\ [Next]_vars => SwapFromLapsed' /\ ClocksInStep'
  <1> SUFFICES ASSUME IInv, [Next]_vars PROVE SwapFromLapsed' /\ ClocksInStep'
    OBVIOUS
  <1> USE TimeAssumption DEF IInv, SwapFromLapsed, ClocksInStep, TypeOK
  <1>1. CASE UNCHANGED vars
    BY <1>1 DEF vars
  <1>2. CASE Tick
    BY <1>2 DEF Tick
  <1>3. ASSUME NEW r \in Runs, Call(r) PROVE SwapFromLapsed' /\ ClocksInStep'
    BY <1>3 DEF Call
  <1>4. ASSUME NEW r \in Runs, Read(r) PROVE SwapFromLapsed' /\ ClocksInStep'
    <2>1. row # NoRow => row.expires \in Nat
      BY DEF Claims
    <2> QED
      BY <1>4, <2>1 DEF Read, live
  <1>5. ASSUME NEW r \in Runs,
               Create(r) \/ CreateError(r) \/ Swap(r) \/ Finish(r) \/ Release(r) \/ Kill(r)
        PROVE  SwapFromLapsed' /\ ClocksInStep'
    <2>1. /\ UNCHANGED <<now, born, clock, held>>
          /\ \E s \in States \ {"idle", "swapping"} : pc' = [pc EXCEPT ![r] = s]
          /\ pc[r] # "idle"
      BY <1>5 DEF Create, CreateError, Swap, Finish, Release, Kill, Alive, Ended, States
    <2> QED
      BY <2>1
  <1> QED
    BY <1>1, <1>2, <1>3, <1>4, <1>5 DEF Next, Step

\* A step leaves a working run's live claim in the row.
LEMMA LeaseStep == IInv /\ [Next]_vars => LeaseHeld'
  <1> SUFFICES ASSUME IInv, [Next]_vars,
                      NEW p \in Runs, Working(p)', (now + Skew < clock[p] + TTL)'
               PROVE  (row = claim(p))'
    BY DEF LeaseHeld
  <1> USE TimeAssumption DEF IInv
  <1>1. CASE UNCHANGED vars
    BY <1>1 DEF vars, LeaseHeld, Working, claim
  <1>2. CASE Tick
    <2>1. Working(p) /\ now + Skew < clock[p] + TTL
      BY <1>2 DEF Tick, Working, TypeOK
    <2> QED
      BY <1>2, <2>1 DEF Tick, LeaseHeld, claim
  <1>3. ASSUME NEW r \in Runs, Call(r) PROVE (row = claim(p))'
    <2>1. p # r
      BY <1>3 DEF Call, Working, TypeOK
    <2> QED
      BY <1>3, <2>1 DEF Call, LeaseHeld, Working, claim, TypeOK
  <1>4. ASSUME NEW r \in Runs, Read(r) PROVE (row = claim(p))'
    <2>1. p # r
      BY <1>4 DEF Read, Working, TypeOK
    <2> QED
      BY <1>4, <2>1 DEF Read, LeaseHeld, Working, claim, TypeOK
  <1>5. ASSUME NEW r \in Runs, Create(r) PROVE (row = claim(p))'
    <2>1. CASE p = r
      BY <1>5, <2>1 DEF Create, Working, claim, TypeOK
    <2>2. CASE p # r
      <3>1. Working(p) /\ now + Skew < clock[p] + TTL
        BY <1>5, <2>2 DEF Create, Working, TypeOK
      <3>2. row = claim(p) /\ row # NoRow
        BY <3>1, ClaimTyped DEF LeaseHeld
      <3> QED
        BY <1>5, <3>2 DEF Create, claim
    <2> QED
      BY <2>1, <2>2
  <1>6. ASSUME NEW r \in Runs, CreateError(r) PROVE (row = claim(p))'
    <2>1. p # r
      BY <1>6 DEF CreateError, Working, TypeOK
    <2>2. Working(p) /\ now + Skew < clock[p] + TTL
      BY <1>6, <2>1 DEF CreateError, Working, TypeOK
    <2>3. row = claim(p) /\ row # NoRow
      BY <2>2, ClaimTyped DEF LeaseHeld
    <2> QED
      BY <1>6, <2>3 DEF CreateError, claim
  <1>7. ASSUME NEW r \in Runs, Swap(r) PROVE (row = claim(p))'
    <2>1. CASE p = r
      BY <1>7, <2>1 DEF Swap, swaps, Working, claim, TypeOK
    <2>2. CASE p # r
      <3>1. Working(p) /\ now + Skew < clock[p] + TTL
        BY <1>7, <2>2 DEF Swap, swaps, Working, TypeOK
      <3>2. row = claim(p) /\ row.expires = clock[p] + TTL
        BY <3>1, ClaimTyped DEF LeaseHeld
      <3>3. held[r].expires <= now + Skew
        <4>1. /\ held[r] \in Claims /\ held[r].expires <= clock[r]
              /\ clock[r] <= now + Skew
          BY <1>7 DEF Swap, SwapFromLapsed, ClocksInStep
        <4>2. held[r].expires \in Nat /\ clock[r] \in Nat /\ now + Skew \in Nat
          BY <4>1 DEF Claims, TypeOK
        <4> QED
          BY <4>1, <4>2
      <3>4. row # held[r]
        BY <3>1, <3>2, <3>3 DEF TypeOK
      <3> QED
        BY <1>7, <3>2, <3>4 DEF Swap, swaps, claim
    <2> QED
      BY <2>1, <2>2
  <1>8. ASSUME NEW r \in Runs, Finish(r) PROVE (row = claim(p))'
    BY <1>8 DEF Finish, LeaseHeld, Working, claim, TypeOK
  <1>9. ASSUME NEW r \in Runs, Release(r) PROVE (row = claim(p))'
    <2>1. p # r
      BY <1>9 DEF Release, releases, Working, TypeOK
    <2>2. row = claim(p)
      BY <1>9, <2>1 DEF Release, releases, Working, LeaseHeld, TypeOK
    <2>3. row # claim(r)
      BY <2>1, <2>2, ClaimsDiffer
    <2> QED
      BY <1>9, <2>2, <2>3 DEF Release, releases, claim
  <1>10. ASSUME NEW r \in Runs, Kill(r) PROVE (row = claim(p))'
    <2>1. p # r
      BY <1>10 DEF Kill, Working, TypeOK
    <2> QED
      BY <1>10, <2>1 DEF Kill, LeaseHeld, Working, claim, TypeOK
  <1> QED
    BY <1>1, <1>2, <1>3, <1>4, <1>5, <1>6, <1>7, <1>8, <1>9, <1>10 DEF Next, Step

LEMMA StepIInv == IInv /\ [Next]_vars => IInv'
  BY TypeStep, BookkeepingStep, LeaseStep DEF IInv

\* The inductive invariant holds in every reachable state.
THEOREM Invariance == Spec => []IInv
  BY InitIInv, StepIInv, PTL DEF Spec

\* The lock's variables keep their types, for every set of runs.
THEOREM TypeCorrectness == Spec => []TypeOK
  <1>1. IInv => TypeOK
    BY DEF IInv
  <1> QED
    BY <1>1, Invariance, PTL

\* A working run's claim stays in the row until its lease lapses on some
\* clock: no other run creates over it, swaps it or deletes it.
THEOREM LeaseSafety == Spec => []LeaseHeld
  <1>1. IInv => LeaseHeld
    BY DEF IInv
  <1> QED
    BY <1>1, Invariance, PTL

\* Two runs of runSync work at once only if one of them outlived its lease,
\* whatever the runs are and however long a local import takes.
THEOREM OverlapSafety == Spec => []OverlapOnlyPastLease
  <1>1. IInv => OverlapOnlyPastLease
    <2> SUFFICES ASSUME IInv, NEW r \in Runs, NEW q \in Runs,
                        Working(r), Working(q), r # q,
                        now + Skew < clock[r] + TTL, now + Skew < clock[q] + TTL
                 PROVE  FALSE
      BY TimeAssumption DEF OverlapOnlyPastLease, IInv, TypeOK
    <2>1. row = claim(r) /\ row = claim(q)
      BY DEF IInv, LeaseHeld
    <2> QED
      BY <2>1, ClaimsDiffer
  <1> QED
    BY <1>1, Invariance, PTL

-----------------------------------------------------------------------------
\* The host's limit is what the Tick guard enforces.
LEMMA HostLimitStep == IInv /\ HostLimit /\ [Next]_vars => HostLimit'
  <1> SUFFICES ASSUME IInv, HostLimit, [Next]_vars,
                      NEW p \in Hosted, Alive(p)'
               PROVE  (now <= born[p] + MaxDuration)'
    BY DEF HostLimit
  <1> USE TimeAssumption, RunsAssumption DEF IInv, TypeOK, HostLimit, Alive, Ended
  <1>1. CASE UNCHANGED vars
    BY <1>1 DEF vars
  <1>2. CASE Tick
    BY <1>2 DEF Tick
  <1>3. ASSUME NEW r \in Runs, Call(r) PROVE (now <= born[p] + MaxDuration)'
    BY <1>3 DEF Call
  <1>4. ASSUME NEW r \in Runs, Step(r) \/ Kill(r) PROVE (now <= born[p] + MaxDuration)'
    <2>1. UNCHANGED <<now, born>> /\ Alive(p)
      BY <1>4 DEF Step, Read, Create, CreateError, Swap, Finish, Release, Kill
    <2> QED
      BY <2>1
  <1> QED
    BY <1>1, <1>2, <1>3, <1>4 DEF Next

\* Every run is a hosted one, and the host stops it before its lease can
\* lapse on any clock (60 s against 5 min in the code).
LeaseOutlastsRuns == Hosted = Runs /\ MaxDuration + Skew < TTL

LEMMA ExclusionFromLimit ==
  ASSUME LeaseOutlastsRuns
  PROVE  IInv /\ HostLimit => MutualExclusion
  <1> SUFFICES ASSUME IInv, HostLimit, NEW r \in Runs, NEW q \in Runs,
                      Working(r), Working(q)
               PROVE  r = q
    BY DEF MutualExclusion
  <1>1. ASSUME NEW p \in Runs, Working(p) PROVE row = claim(p)
    <2>1. now <= born[p] + MaxDuration
      BY <1>1, LeaseOutlastsRuns DEF HostLimit, LeaseOutlastsRuns, Alive, Ended, Working
    <2>2. born[p] <= clock[p]
      BY <1>1 DEF IInv, ClocksInStep, Working
    <2>3. born[p] \in Nat /\ clock[p] \in Nat /\ now \in Nat
      BY DEF IInv, TypeOK
    <2>4. now + Skew < clock[p] + TTL
      BY <2>1, <2>2, <2>3, LeaseOutlastsRuns, TimeAssumption DEF LeaseOutlastsRuns
    <2> QED
      BY <1>1, <2>4 DEF IInv, LeaseHeld
  <1> QED
    BY <1>1, ClaimsDiffer

\* One sync at a time across every server instance: hosted runs whose limit
\* is below the lease never work at once.
THEOREM Exclusion ==
  ASSUME LeaseOutlastsRuns
  PROVE  Spec => []MutualExclusion
  <1>1. Init => HostLimit
    BY RunsAssumption DEF Init, HostLimit, Alive, Ended
  <1>2. Spec => []HostLimit
    BY <1>1, HostLimitStep, Invariance, PTL DEF Spec
  <1>3. IInv /\ HostLimit => MutualExclusion
    BY ExclusionFromLimit
  <1> QED
    BY <1>2, <1>3, Invariance, PTL

-----------------------------------------------------------------------------
\* Under mutual exclusion the abstract view is the one working run, if any.
LEMMA InsideIsWorking ==
  ASSUME MutualExclusion, NEW r \in Runs, Working(r)
  PROVE  insideRun = r
  BY DEF insideRun, MutualExclusion

LEMMA InsideIsNobody ==
  ASSUME \A r \in Runs : ~Working(r)
  PROVE  insideRun = NoRow
  BY DEF insideRun

\* A step that leaves every run's Working as it was leaves the view alone.
LEMMA InsideKept ==
  ASSUME \A r \in Runs : Working(r)' <=> Working(r),
         MutualExclusion, MutualExclusion'
  PROVE  insideRun' = insideRun
  <1>1. CASE \E r \in Runs : Working(r)
    <2>1. PICK r \in Runs : Working(r)
      BY <1>1
    <2>2. insideRun = r
      BY <2>1, InsideIsWorking
    <2>3. insideRun' = r
      BY <2>1 DEF insideRun, MutualExclusion
    <2> QED
      BY <2>2, <2>3
  <1>2. CASE \A r \in Runs : ~Working(r)
    BY <1>2 DEF insideRun
  <1> QED
    BY <1>1, <1>2

\* Each step of the lock is a step of SerialSyncs or changes nothing it sees.
LEMMA SerialStep ==
  TypeOK /\ MutualExclusion /\ MutualExclusion' /\ [Next]_vars
    => [Serial!Next]_insideRun
  <1> SUFFICES ASSUME TypeOK, MutualExclusion, MutualExclusion', [Next]_vars
               PROVE  Serial!Next \/ insideRun' = insideRun
    OBVIOUS
  <1>1. ASSUME UNCHANGED pc PROVE insideRun' = insideRun
    BY <1>1, InsideKept DEF Working
  <1>2. ASSUME NEW r \in Runs, ~Working(r), Working(r)',
               \A p \in Runs \ {r} : Working(p)' <=> Working(p)
        PROVE  Serial!Next
    <2>1. \A p \in Runs : ~Working(p)
      BY <1>2 DEF MutualExclusion
    <2>2. insideRun = NoRow
      BY <2>1, InsideIsNobody
    <2>3. insideRun' = r
      BY <1>2 DEF insideRun, MutualExclusion
    <2> QED
      BY <2>2, <2>3 DEF Serial!Next, Serial!Enter
  <1>3. ASSUME NEW r \in Runs, Working(r), ~Working(r)',
               \A p \in Runs \ {r} : Working(p)' <=> Working(p)
        PROVE  Serial!Next
    <2>1. \A p \in Runs : ~Working(p)'
      BY <1>3 DEF MutualExclusion
    <2>2. insideRun = r
      BY <1>3, InsideIsWorking
    <2>3. insideRun' = NoRow
      BY <2>1 DEF insideRun
    <2> QED
      BY <2>2, <2>3 DEF Serial!Next, Serial!Leave
  <1>4. ASSUME NEW r \in Runs, \E s \in States : pc' = [pc EXCEPT ![r] = s]
        PROVE  Serial!Next \/ insideRun' = insideRun
    <2>1. \A p \in Runs \ {r} : Working(p)' <=> Working(p)
      BY <1>4 DEF TypeOK, Working
    <2>2. CASE Working(r)' <=> Working(r)
      BY <2>1, <2>2, InsideKept
    <2>3. CASE Working(r)' /\ ~Working(r)
      BY <1>2, <2>1, <2>3
    <2>4. CASE ~Working(r)' /\ Working(r)
      BY <1>3, <2>1, <2>4
    <2> QED
      BY <2>2, <2>3, <2>4
  <1>5. ASSUME NEW r \in Runs, Call(r) \/ Step(r) \/ Kill(r)
        PROVE  \E s \in States : pc' = [pc EXCEPT ![r] = s]
    BY <1>5 DEF Call, Step, Read, Create, CreateError, Swap, Finish, Release, Kill, States
  <1> QED
    BY <1>1, <1>4, <1>5 DEF Next, Tick, vars

\* The lock implements SerialSyncs, so a model of the pipeline may treat
\* hosted syncs as one process at a time.
THEOREM Refinement ==
  ASSUME LeaseOutlastsRuns
  PROVE  Spec => ImplementsSerialSyncs
  <1>1. Init => Serial!Init
    BY InsideIsNobody DEF Init, Serial!Init, Working
  <1>2. TypeOK /\ MutualExclusion /\ MutualExclusion' /\ [Next]_vars
          => [Serial!Next]_insideRun
    BY SerialStep
  <1> QED
    BY <1>1, <1>2, TypeCorrectness, Exclusion, PTL
       DEF Spec, ImplementsSerialSyncs, Serial!Spec

-----------------------------------------------------------------------------
\* A claim leaves the row only by its owner's release or by a takeover after
\* it lapsed.
THEOREM ClaimsLeaveProperly == Spec => ClaimLeavesOnlyByOwnerOrLapse
  <1> DEFINE Proper ==
        row # NoRow /\ row' # row =>
          \/ row.by \in Runs /\ pc[row.by] = "releasing" /\ pc'[row.by] = "done"
          \/ row' # NoRow /\ row.expires <= now + Skew
  <1>1. IInv /\ [Next]_vars => [Proper]_vars
    <2> SUFFICES ASSUME IInv, [Next]_vars, row # NoRow, row' # row
                 PROVE  \/ row.by \in Runs /\ pc[row.by] = "releasing" /\ pc'[row.by] = "done"
                        \/ row' # NoRow /\ row.expires <= now + Skew
      OBVIOUS
    <2>1. ASSUME NEW r \in Runs, Swap(r)
          PROVE  row' # NoRow /\ row.expires <= now + Skew
      <3>1. row = held[r] /\ row' = claim(r) /\ pc[r] = "swapping"
        BY <2>1 DEF Swap, swaps
      <3>2. row.expires <= clock[r] /\ clock[r] <= now + Skew /\ row \in Claims
        BY <3>1 DEF IInv, SwapFromLapsed, ClocksInStep
      <3>3. row.expires \in Nat /\ clock[r] \in Nat /\ now + Skew \in Nat
        BY <3>2, TimeAssumption DEF Claims, IInv, TypeOK
      <3> QED
        BY <3>1, <3>2, <3>3, ClaimTyped DEF IInv
    <2>2. ASSUME NEW r \in Runs, Release(r)
          PROVE  row.by \in Runs /\ pc[row.by] = "releasing" /\ pc'[row.by] = "done"
      <3>1. row = claim(r)
        BY <2>2 DEF Release, releases
      <3>2. row.by = r
        BY <3>1 DEF claim
      <3> QED
        BY <2>2, <3>2 DEF Release, IInv, TypeOK
    <2>3. ASSUME NEW r \in Runs, Create(r) \/ CreateError(r) PROVE FALSE
      BY <2>3 DEF Create, CreateError
    <2> QED
      BY <2>1, <2>2, <2>3 DEF Next, Step, vars, Tick, Call, Read, Finish, Kill
  <1> QED
    BY <1>1, Invariance, PTL DEF Spec, ClaimLeavesOnlyByOwnerOrLapse
=============================================================================
