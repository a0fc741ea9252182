---------------------- MODULE ResourceCoordinatorProofs ----------------------
(***************************************************************************)
(* Theorems about ResourceCoordinator, for every set of calls, owners and  *)
(* resources.                                                              *)
(***************************************************************************)
EXTENDS ResourceCoordinator, TLAPS

(* A call that works on something has a lease, only such calls have one,   *)
(* and the registered callbacks are those of the waiting calls.            *)
LeasesMatch ==
    /\ \A c \in Calls : pc[c] = "working" /\ Wants[c] # {} => c \in leases
    /\ \A c \in leases : pc[c] = "working"
    /\ \A c \in Calls : c \in waiters <=> pc[c] = "waiting"

CoordinatorInv == TypeOK /\ LeasesMatch /\ Exclusion /\ WaitsForAnother

(* Overlap does not depend on the order of its arguments.                  *)
LEMMA OverlapSymmetric == \A c, d : Overlap(c, d) <=> Overlap(d, c)
<1>1. \A l, r : resourcesOverlap(l, r) <=> resourcesOverlap(r, l)
  BY Zenon DEF resourcesOverlap
<1> QED BY <1>1 DEF Overlap

LEMMA InitCoordinator == Init => CoordinatorInv
BY DEF Init, CoordinatorInv, TypeOK, LeasesMatch, Exclusion, WaitsForAnother

(* One turn of acquire's loop keeps the invariant, whoever takes it.       *)
LEMMA AcquireStep ==
    ASSUME CoordinatorInv, NEW c \in Calls, pc[c] \in {"idle", "woken"},
           Wants[c] # {}, Acquire(c), aborted' = aborted
    PROVE  CoordinatorInv'
<1> USE DEF CoordinatorInv
<1>0. c \notin leases /\ c \notin waiters
  BY DEF LeasesMatch
<1>1. CASE /\ ~conflicts(c)
           /\ pc' = [pc EXCEPT ![c] = "working"]
           /\ leases' = leases \union {c}
           /\ UNCHANGED waiters
  <2>1. TypeOK' /\ LeasesMatch'
    BY <1>0, <1>1 DEF TypeOK, LeasesMatch
  <2>2. \A d \in Calls : pc[d] = "working" /\ Owner[d] # Owner[c] => ~Overlap(d, c)
    <3> SUFFICES ASSUME NEW d \in Calls, pc[d] = "working", Owner[d] # Owner[c],
                        Overlap(d, c)
                 PROVE  FALSE
      OBVIOUS
    <3>1. Wants[d] # {}
      BY DEF Overlap
    <3>2. d \in leases
      BY <3>1 DEF LeasesMatch
    <3> QED BY <1>1, <3>2 DEF conflicts
  <2>3. Exclusion'
    <3> SUFFICES ASSUME NEW d \in Calls, NEW e \in Calls,
                        pc'[d] = "working", pc'[e] = "working",
                        Owner[d] # Owner[e]
                 PROVE  ~Overlap(d, e)
      BY DEF Exclusion, Overlap
    <3>1. CASE d = c
      BY <1>1, <2>2, <3>1, OverlapSymmetric DEF TypeOK
    <3>2. CASE e = c
      BY <1>1, <2>2, <3>2 DEF TypeOK
    <3>3. CASE d # c /\ e # c
      BY <1>1, <3>3 DEF TypeOK, Exclusion
    <3> QED BY <3>1, <3>2, <3>3
  <2>4. WaitsForAnother'
    BY <1>1 DEF TypeOK, WaitsForAnother, conflicts, Overlap
  <2> QED BY <2>1, <2>3, <2>4
<1>2. CASE /\ conflicts(c) /\ c \in aborted
           /\ pc' = [pc EXCEPT ![c] = "rejected"]
           /\ UNCHANGED <<leases, waiters>>
  <2>1. TypeOK' /\ LeasesMatch'
    BY <1>0, <1>2 DEF TypeOK, LeasesMatch
  <2>2. Exclusion' /\ WaitsForAnother'
    BY <1>2 DEF TypeOK, Exclusion, WaitsForAnother, conflicts, Overlap
  <2> QED BY <2>1, <2>2
<1>3. CASE /\ conflicts(c) /\ c \notin aborted
           /\ pc' = [pc EXCEPT ![c] = "waiting"]
           /\ waiters' = waiters \union {c}
           /\ UNCHANGED leases
  <2>1. TypeOK' /\ LeasesMatch'
    BY <1>0, <1>3 DEF TypeOK, LeasesMatch
  <2>2. Exclusion' /\ WaitsForAnother'
    BY <1>3 DEF TypeOK, Exclusion, WaitsForAnother, conflicts, Overlap
  <2> QED BY <2>1, <2>2
<1> QED BY <1>1, <1>2, <1>3 DEF Acquire

LEMMA BeginStep ==
    ASSUME CoordinatorInv, NEW c \in Calls, Begin(c)
    PROVE  CoordinatorInv'
<1>1. CASE Wants[c] = {}
  <2>1. /\ pc' = [pc EXCEPT ![c] = "working"]
        /\ UNCHANGED <<leases, waiters, aborted>>
    BY <1>1 DEF Begin
  <2>2. TypeOK' /\ LeasesMatch'
    BY <1>1, <2>1 DEF CoordinatorInv, TypeOK, LeasesMatch, Begin
  <2>3. \A d \in Calls : ~Overlap(c, d) /\ ~Overlap(d, c)
    BY <1>1 DEF Overlap
  <2>4. Exclusion' /\ WaitsForAnother'
    BY <2>1, <2>3
    DEF CoordinatorInv, TypeOK, Exclusion, WaitsForAnother, conflicts, Overlap
  <2> QED BY <2>2, <2>4 DEF CoordinatorInv
<1>2. CASE Wants[c] # {}
  BY <1>2, AcquireStep DEF Begin
<1> QED BY <1>1, <1>2

(* A waiting call wants something, so it may look at the leases again.     *)
LEMMA RecheckStep ==
    ASSUME CoordinatorInv, NEW c \in Calls, Recheck(c)
    PROVE  CoordinatorInv'
<1>1. CASE Wants[c] # {}
  BY <1>1, AcquireStep DEF Recheck
<1>2. CASE Wants[c] = {}
  <2>1. ~conflicts(c)
    BY <1>2 DEF conflicts, Overlap
  <2>2. /\ pc' = [pc EXCEPT ![c] = "working"]
        /\ leases' = leases \union {c}
        /\ UNCHANGED <<waiters, aborted>>
    BY <2>1 DEF Recheck, Acquire
  <2>3. TypeOK' /\ LeasesMatch'
    BY <2>2 DEF CoordinatorInv, TypeOK, LeasesMatch, Recheck
  <2>4. \A d \in Calls : ~Overlap(c, d) /\ ~Overlap(d, c)
    BY <1>2 DEF Overlap
  <2>5. Exclusion' /\ WaitsForAnother'
    BY <2>2, <2>4
    DEF CoordinatorInv, TypeOK, Exclusion, WaitsForAnother, conflicts, Overlap
  <2> QED BY <2>3, <2>5 DEF CoordinatorInv
<1> QED BY <1>1, <1>2

(* A release wakes every waiter: nobody is left waiting for what is free.  *)
LEMMA FinishStep ==
    ASSUME CoordinatorInv, NEW c \in Calls, Finish(c)
    PROVE  CoordinatorInv'
<1> USE DEF CoordinatorInv
<1>1. CASE c \in leases
  <2>1. /\ leases' = leases \ {c}
        /\ pc' = [d \in Calls |-> IF d = c THEN "done"
                                  ELSE IF d \in waiters THEN "woken" ELSE pc[d]]
        /\ waiters' = {} /\ aborted' = aborted
    BY <1>1 DEF Finish, release
  <2>2. TypeOK'
    BY <2>1 DEF TypeOK
  <2>3. LeasesMatch' /\ WaitsForAnother'
    BY <2>1 DEF TypeOK, LeasesMatch, WaitsForAnother
  <2>4. Exclusion'
    BY <2>1 DEF TypeOK, Exclusion, Overlap
  <2> QED BY <2>2, <2>3, <2>4
<1>2. CASE c \notin leases
  <2>1. pc' = [pc EXCEPT ![c] = "done"] /\ UNCHANGED <<leases, waiters, aborted>>
    BY <1>2 DEF Finish
  <2>2. TypeOK' /\ LeasesMatch'
    BY <1>2, <2>1 DEF TypeOK, LeasesMatch, Finish
  <2>3. Exclusion' /\ WaitsForAnother'
    BY <2>1 DEF TypeOK, Exclusion, WaitsForAnother, conflicts, Overlap
  <2> QED BY <2>2, <2>3
<1> QED BY <1>1, <1>2

LEMMA AbortStep ==
    ASSUME CoordinatorInv, NEW S \in SUBSET Calls, AbortAll(S)
    PROVE  CoordinatorInv'
<1>1. TypeOK' /\ LeasesMatch'
  BY DEF CoordinatorInv, AbortAll, TypeOK, LeasesMatch
<1>2. Exclusion' /\ WaitsForAnother'
  BY DEF CoordinatorInv, AbortAll, TypeOK, Exclusion, WaitsForAnother, conflicts, Overlap
<1> QED BY <1>1, <1>2 DEF CoordinatorInv

LEMMA CoordinatorStep == CoordinatorInv /\ [Next]_vars => CoordinatorInv'
<1> SUFFICES ASSUME CoordinatorInv, [Next]_vars PROVE CoordinatorInv'
  OBVIOUS
<1>1. ASSUME NEW c \in Calls, Begin(c) PROVE CoordinatorInv'
  BY <1>1, BeginStep
<1>2. ASSUME NEW c \in Calls, Recheck(c) PROVE CoordinatorInv'
  BY <1>2, RecheckStep
<1>3. ASSUME NEW c \in Calls, Finish(c) PROVE CoordinatorInv'
  BY <1>3, FinishStep
<1>4. ASSUME NEW c \in Calls, Abort(c) PROVE CoordinatorInv'
  <2> DEFINE S == {c} \union {d \in Calls : Outer[d] = c /\ Active(d)}
  <2>1. AbortAll(S)
    BY <1>4 DEF Abort
  <2>2. S \in SUBSET Calls
    OBVIOUS
  <2> HIDE DEF S
  <2> QED BY <2>1, <2>2, AbortStep
<1>5. ASSUME NEW c \in Calls, Deadline(c) PROVE CoordinatorInv'
  BY <1>5, AbortStep DEF Deadline
<1>6. CASE UNCHANGED vars
  BY <1>6 DEF vars, CoordinatorInv, TypeOK, LeasesMatch, Exclusion,
              WaitsForAnother, conflicts, Overlap
<1> QED BY <1>1, <1>2, <1>3, <1>4, <1>5, <1>6 DEF Next

THEOREM CoordinatorHolds == Spec => []CoordinatorInv
BY InitCoordinator, CoordinatorStep, PTL DEF Spec

(* Type correctness of the coordinator.                                    *)
THEOREM CoordinatorTypes == Spec => []TypeOK
<1>1. CoordinatorInv => TypeOK
  BY DEF CoordinatorInv
<1> QED BY <1>1, CoordinatorHolds, PTL

(* Two owners never work on overlapping resources (acquire, release).      *)
THEOREM OwnersExclude == Spec => []Exclusion
<1>1. CoordinatorInv => Exclusion
  BY DEF CoordinatorInv
<1> QED BY <1>1, CoordinatorHolds, PTL

(* Nobody waits for what is free, nor for itself (release, conflicts).     *)
THEOREM NoMissedWake == Spec => []WaitsForAnother
<1>1. CoordinatorInv => WaitsForAnother
  BY DEF CoordinatorInv
<1> QED BY <1>1, CoordinatorHolds, PTL
=============================================================================
