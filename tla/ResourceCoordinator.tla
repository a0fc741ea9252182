------------------------- MODULE ResourceCoordinator -------------------------
(***************************************************************************)
(* Leases on paths and named keys.  Every withResources call asks for all  *)
(* its resources at once on behalf of an owner, waits while a lease of     *)
(* another owner overlaps them, and gives its lease back when its work     *)
(* ends.  A workflow step holds its lease while the tool it runs makes     *)
(* calls of its own under the same owner: such a call is nested.           *)
(*                                                                         *)
(* A call is one execution of withResources; each happens at most once.    *)
(* An action runs from one await of the code to the next.                  *)
(***************************************************************************)
EXTENDS Sequences, FiniteSets, SequencesExt

CONSTANTS
    Calls,
    Owner,     \* the owner token of a call
    Wants,     \* the normalized resources of a call
    Outer,     \* the call whose work makes a nested call, or NoCall
    NoCall

(* A named resource, or a file or directory by the names on its path.      *)
Key(name) == [kind |-> "key", name |-> name]
Path(names) == [kind |-> "path", names |-> names]

(* The root ends in the separator already, so no path starts with the root *)
(* and one separator more.                                                 *)
Inside(inner, outer) ==
    outer.names # <<>> /\ IsStrictPrefix(outer.names, inner.names)

resourcesOverlap(left, right) ==
    IF left.kind = "key" \/ right.kind = "key"
    THEN left = right
    ELSE left = right \/ Inside(left, right) \/ Inside(right, left)

ASSUME CoordinatorAssumption ==
    /\ NoCall \notin Calls
    /\ Outer \in [Calls -> Calls \union {NoCall}]
    /\ \A c \in Calls : Outer[c] # NoCall =>
          Owner[Outer[c]] = Owner[c] /\ Outer[Outer[c]] = NoCall

VARIABLES
    pc,       \* where each call is
    leases,   \* the calls whose lease is in the list
    waiters,  \* the calls whose wake callback is registered
    aborted   \* the calls whose signal is aborted

vars == <<pc, leases, waiters, aborted>>

TypeOK ==
    /\ pc \in [Calls -> {"idle", "waiting", "woken", "working", "done", "rejected"}]
    /\ leases \subseteq Calls
    /\ waiters \subseteq Calls
    /\ aborted \subseteq Calls

Init ==
    /\ pc = [c \in Calls |-> "idle"]
    /\ leases = {}
    /\ waiters = {}
    /\ aborted = {}

Overlap(c, d) == \E l \in Wants[c], r \in Wants[d] : resourcesOverlap(l, r)

conflicts(c) == \E l \in leases : Owner[l] # Owner[c] /\ Overlap(l, c)

Active(c) == pc[c] \in {"waiting", "woken", "working"}

-----------------------------------------------------------------------------
WokenTakesMutant(c) ==
    \/ /\ ~conflicts(c) \/ pc[c] = "woken"
       /\ pc' = [pc EXCEPT ![c] = "working"]
       /\ leases' = leases \union {c}
       /\ UNCHANGED waiters
    \/ /\ conflicts(c) /\ pc[c] = "idle"
       /\ pc' = [pc EXCEPT ![c] = "waiting"]
       /\ waiters' = waiters \union {c}
       /\ UNCHANGED leases

(* One turn of the loop in acquire: the signal is looked at only when the  *)
(* call would have to wait.                                                *)
Acquire(c) ==
    \/ /\ ~conflicts(c)
       /\ pc' = [pc EXCEPT ![c] = "working"]
       /\ leases' = leases \union {c}
       /\ UNCHANGED waiters
    \/ /\ conflicts(c) /\ c \in aborted
       /\ pc' = [pc EXCEPT ![c] = "rejected"]
       /\ UNCHANGED <<leases, waiters>>
    \/ /\ conflicts(c) /\ c \notin aborted
       /\ pc' = [pc EXCEPT ![c] = "waiting"]
       /\ waiters' = waiters \union {c}
       /\ UNCHANGED leases

(* A call for nothing does its work without a lease.                       *)
Begin(c) ==
    /\ pc[c] = "idle"
    /\ Outer[c] # NoCall => pc[Outer[c]] = "working"
    /\ IF Wants[c] = {}
       THEN pc' = [pc EXCEPT ![c] = "working"] /\ UNCHANGED <<leases, waiters>>
       ELSE Acquire(c)
    /\ UNCHANGED aborted

Recheck(c) ==
    /\ pc[c] = "woken"
    /\ Acquire(c)
    /\ UNCHANGED aborted

WakeOneMutant(c) ==
    LET woken == IF waiters = {} THEN {} ELSE {CHOOSE w \in waiters : TRUE} IN
    /\ leases' = leases \ {c}
    /\ pc' = [d \in Calls |-> IF d = c THEN "done"
                              ELSE IF d \in woken THEN "woken" ELSE pc[d]]
    /\ waiters' = waiters \ woken

(* The work of a step ends after the calls of its tool.  The lease goes    *)
(* first, then every waiter is woken.                                      *)
release(c) ==
    /\ leases' = leases \ {c}
    /\ pc' = [d \in Calls |-> IF d = c THEN "done"
                              ELSE IF d \in waiters THEN "woken" ELSE pc[d]]
    /\ waiters' = {}

Finish(c) ==
    /\ pc[c] = "working"
    /\ \A d \in Calls : Outer[d] = c => ~Active(d)
    /\ IF c \in leases THEN release(c)
       ELSE pc' = [pc EXCEPT ![c] = "done"] /\ UNCHANGED <<leases, waiters>>
    /\ UNCHANGED aborted

DeafMutant(S) ==
    /\ aborted' = aborted \union S
    /\ UNCHANGED <<pc, leases, waiters>>

(* The listeners of these signals run: a waiter is rejected and forgotten. *)
AbortAll(S) ==
    /\ aborted' = aborted \union S
    /\ pc' = [c \in Calls |-> IF c \in S \intersect waiters THEN "rejected" ELSE pc[c]]
    /\ waiters' = waiters \ S
    /\ UNCHANGED leases

(* Canceling a call cancels the nested calls that run; one that starts     *)
(* later gets a fresh signal.                                              *)
Abort(c) ==
    /\ Active(c) /\ c \notin aborted
    /\ AbortAll({c} \union {d \in Calls : Outer[d] = c /\ Active(d)})

(* The deadline of the step's tool.                                        *)
Deadline(c) ==
    /\ Outer[c] # NoCall
    /\ Active(c) /\ c \notin aborted
    /\ AbortAll({c})

Next == \E c \in Calls :
    Begin(c) \/ Recheck(c) \/ Finish(c) \/ Abort(c) \/ Deadline(c)

Fairness == \A c \in Calls :
    WF_vars(Recheck(c)) /\ WF_vars(Finish(c)) /\ WF_vars(Deadline(c))

Spec == Init /\ [][Next]_vars /\ Fairness

-----------------------------------------------------------------------------
(* Two owners never work on overlapping resources, whatever the order in   *)
(* which woken waiters look again (acquire's loop).                        *)
Exclusion ==
    \A c, d \in Calls :
        /\ pc[c] = "working" /\ pc[d] = "working"
        /\ Owner[c] # Owner[d]
        => ~Overlap(c, d)

(* A waiter waits for somebody: its resources overlap a lease of another   *)
(* owner, so a release to come wakes it, and no step waits for itself.     *)
WaitsForAnother == \A c \in Calls : pc[c] = "waiting" => conflicts(c)

(* No call waits for ever: two steps that hold what the other's tool asks  *)
(* for are set free by the deadline of a tool.                             *)
WaitsEnd == \A c \in Calls :
    pc[c] = "waiting" ~> pc[c] \in {"working", "done", "rejected"}
=============================================================================
