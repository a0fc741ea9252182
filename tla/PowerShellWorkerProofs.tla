----------------------- MODULE PowerShellWorkerProofs -----------------------
(***************************************************************************)
(* Theorems about PowerShellWorker, for any number of commands and any     *)
(* size of the pool.                                                       *)
(***************************************************************************)
EXTENDS PowerShellWorker, TLAPS

(* What waits in a queue was given to its worker.                          *)
Queues ==
    \A w \in Workers : \A i \in 1 .. Len(queue[w]) :
        at[queue[w][i]] = w /\ run[queue[w][i]] # "new"

(* The pending request is the first of the queue; the shell it was written *)
(* to is the shell of its worker, unless that was given up.                *)
Pendings ==
    \A w \in Workers : pending[w] # None =>
        /\ run[pending[w]] = "executing"
        /\ at[pending[w]] = w
        /\ Len(queue[w]) > 0 /\ Head(queue[w]) = pending[w]
        /\ child[w] \in {on[pending[w]], None}
        /\ write[pending[w]] = "called" => dispatched[pending[w]]

(* A command reaches a shell through its write only.                       *)
Writes ==
    \A q \in Runs :
        /\ dispatched[q] => write[q] = "called"
        /\ run[q] # "new" => at[q] \in Workers
        /\ write[q] = "none" <=> on[q] = None
        /\ write[q] = "none" => run[q] \in {"new", "queued", "stopped"}
        /\ run[q] \in {"new", "queued"} => write[q] = "none"
        /\ write[q] \in {"none", "writing", "failed"} <=> work[q] = "none"

(* A shell belongs to one worker.                                          *)
Belongs ==
    /\ \A w \in Workers : child[w] # None => shell[child[w]] # "none"
    /\ \A v, w \in Workers : child[v] # None /\ child[v] = child[w] => v = w
    /\ \A q \in Runs : on[q] # None => shell[on[q]] # "none"
    /\ \A q \in Runs, w \in Workers : on[q] # None /\ on[q] = child[w] => at[q] = w

(* A command ran as often as a shell read it or the fallback took it.      *)
Counts ==
    \A q \in Runs :
        ran[q] = (IF work[q] \in {"running", "finished", "read"} THEN 1 ELSE 0)
                 + (IF run[q] = "oneshot" THEN 1 ELSE 0)

PoolInv ==
    TypeOK /\ Queues /\ Pendings /\ Writes /\ Belongs /\ Counts
    /\ OutcomeIsTrue /\ NobodyWaitsBehind

LEMMA InitPool == Init => PoolInv
<1> SUFFICES ASSUME Init PROVE PoolInv
  OBVIOUS
<1>1. TypeOK
  BY WorkerAssumption DEF Init, TypeOK
<1>2. Queues /\ Pendings /\ Belongs
  BY DEF Init, Queues, Pendings, Belongs
<1>3. Writes /\ Counts /\ OutcomeIsTrue /\ NobodyWaitsBehind
  BY DEF Init, Writes, Counts, OutcomeIsTrue, NobodyWaitsBehind, Settled
<1> QED BY <1>1, <1>2, <1>3 DEF PoolInv

(* None is neither a command nor a worker nor a shell.                     *)
LEMMA NoneIsNobody == None \notin Runs /\ None \notin Workers /\ None \notin Shells
BY WorkerAssumption DEF Runs, Workers, Shells

LEMMA TailElements ==
    ASSUME NEW s \in Seq(Runs), Len(s) > 0
    PROVE  /\ Tail(s) \in Seq(Runs) /\ Len(Tail(s)) = Len(s) - 1
           /\ \A i \in 1 .. Len(Tail(s)) : i + 1 \in 1 .. Len(s) /\ Tail(s)[i] = s[i + 1]
OBVIOUS

(* A command that leaves its queue leaves the others where they were.      *)
LEMMA LeaveQueue ==
    ASSUME TypeOK, Queues, NEW w \in Workers, Len(queue[w]) > 0,
           queue' = [queue EXCEPT ![w] = Tail(@)], at' = at,
           \A q \in Runs : run[q] # "new" => run'[q] # "new"
    PROVE  Queues'
<1> SUFFICES ASSUME NEW v \in Workers, NEW i \in 1 .. Len(queue'[v])
             PROVE  at[queue'[v][i]] = v /\ run'[queue'[v][i]] # "new"
  BY DEF Queues
<1>1. CASE v = w
  <2>1. queue[w] \in Seq(Runs) /\ queue'[w] = Tail(queue[w])
    BY DEF TypeOK
  <2>2. i + 1 \in 1 .. Len(queue[w]) /\ queue'[w][i] = queue[w][i + 1]
    BY <1>1, <2>1, TailElements
  <2>3. queue[w][i + 1] \in Runs
    BY <2>1, <2>2
  <2> QED BY <1>1, <2>2, <2>3 DEF Queues
<1>2. CASE v # w
  <2>a. queue \in [Workers -> Seq(Runs)]
    BY DEF TypeOK
  <2>b. queue'[v] = queue[v] /\ queue[v] \in Seq(Runs)
    BY <1>2, <2>a
  <2>c. i \in 1 .. Len(queue[v])
    BY <2>b
  <2>1. queue'[v] = queue[v] /\ queue[v][i] \in Runs
    BY <2>b, <2>c
  <2>2. at[queue[v][i]] = v /\ run[queue[v][i]] # "new"
    BY <2>c DEF Queues
  <2> QED BY <2>1, <2>2
<1> QED BY <1>1, <1>2

LEMMA RunStep ==
    ASSUME PoolInv, NEW q \in Runs, Run(q)
    PROVE  PoolInv'
<1> USE NoneIsNobody DEF PoolInv
<1>a. write[q] = "none" /\ on[q] = None /\ run[q] = "new"
  BY DEF Run, Writes
<1>1. TypeOK'
  BY <1>a DEF Run, TypeOK, Settled
<1>2. Queues'
  BY <1>a DEF Run, TypeOK, Queues
<1>3. Pendings'
  BY <1>a DEF Run, TypeOK, Pendings
<1>4. Writes'
  BY <1>a DEF Run, TypeOK, Writes
<1>5. Belongs'
  BY <1>a DEF Run, TypeOK, Belongs
<1>6. Counts'
  BY <1>a DEF Run, TypeOK, Counts
<1>7. OutcomeIsTrue'
  BY <1>a DEF Run, TypeOK, OutcomeIsTrue
<1>8. NobodyWaitsBehind'
  BY <1>a DEF Run, TypeOK, NobodyWaitsBehind
<1> QED BY <1>1, <1>2, <1>3, <1>4, <1>5, <1>6, <1>7, <1>8

LEMMA ExecuteStep ==
    ASSUME PoolInv, NEW w \in Workers, Execute(w)
    PROVE  PoolInv'
<1> USE NoneIsNobody DEF PoolInv
<1> DEFINE q == Head(queue[w])
<1>a. q \in Runs /\ at[q] = w /\ run[q] = "queued"
  BY DEF Execute, Waiting, TypeOK, Queues
<1>b. pending[w] = None
  BY <1>a DEF Pendings
<1>c. write[q] = "none" /\ on[q] = None /\ work[q] = "none" /\ ~dispatched[q]
  BY <1>a DEF Writes
<1>d. PICK s \in Shells : ensureChild(w, s) /\ on' = [on EXCEPT ![q] = s]
  BY DEF Execute
<1>g. /\ run' = [run EXCEPT ![q] = "executing"] /\ write' = [write EXCEPT ![q] = "writing"]
      /\ pending' = [pending EXCEPT ![w] = q] /\ Len(queue[w]) > 0 /\ queue[w] \in Seq(Runs)
      /\ UNCHANGED <<at, work, ran, dispatched, pool, queue, stopped>>
  BY DEF Execute, Waiting, TypeOK
<1>e. /\ child' = [child EXCEPT ![w] = s] /\ shell'[s] \in {"alive", "dead"}
      /\ \A t \in Shells : t # s => shell'[t] = shell[t]
      /\ shell' \in [Shells -> {"none", "alive", "dead", "exited", "closed"}]
      /\ shell[s] # "none" => child[w] = s /\ shell' = shell
  <2>1. CASE child[w] = s /\ shell[s] \in {"alive", "dead"} /\ UNCHANGED <<child, shell>>
    <3>1. child' = [child EXCEPT ![w] = s]
      BY <2>1 DEF TypeOK
    <3> QED BY <2>1, <3>1 DEF TypeOK
  <2>2. CASE /\ shell[s] = "none" /\ child' = [child EXCEPT ![w] = s]
             /\ shell' = [shell EXCEPT ![s] = "alive"]
    BY <2>2 DEF TypeOK
  <2> QED BY <1>d, <2>1, <2>2 DEF ensureChild
<1>f. \A p \in Runs : on[p] = s => work[p] \in {"none", "read"} /\ write[p] # "writing"
  BY <1>b, <1>e DEF NobodyWaitsBehind, Belongs
<1>i. Head(queue[w]) = q
  OBVIOUS
<1> HIDE DEF q
<1>1. TypeOK'
  BY <1>a, <1>b, <1>c, <1>d, <1>e, <1>f, <1>g, <1>i DEF TypeOK, Settled
<1>2. Queues'
  BY <1>a, <1>b, <1>c, <1>d, <1>e, <1>f, <1>g, <1>i DEF TypeOK, Queues
<1>3. Pendings'
  BY <1>a, <1>b, <1>c, <1>d, <1>e, <1>f, <1>g, <1>i DEF TypeOK, Pendings
<1>4. Writes'
  BY <1>a, <1>b, <1>c, <1>d, <1>e, <1>f, <1>g, <1>i DEF TypeOK, Writes
<1>5. Belongs'
  BY <1>a, <1>b, <1>c, <1>d, <1>e, <1>f, <1>g, <1>i DEF TypeOK, Belongs
<1>6. Counts'
  BY <1>a, <1>b, <1>c, <1>d, <1>e, <1>f, <1>g, <1>i DEF TypeOK, Counts
<1>j. /\ \A p \in Runs : p # q => /\ run'[p] = run[p] /\ on'[p] = on[p] /\ write'[p] = write[p]
      /\ on'[q] = s /\ write'[q] = "writing" /\ run'[q] = "executing" /\ work' = work
      /\ child'[w] = s /\ pending'[w] = q
      /\ \A v \in Workers : v # w => child'[v] = child[v] /\ pending'[v] = pending[v]
  BY <1>a, <1>d, <1>g, <1>e DEF TypeOK
<1>7. OutcomeIsTrue'
  <2> SUFFICES ASSUME NEW p \in Runs
               PROVE  /\ run'[p] = "answer" => work'[p] = "read"
                      /\ run'[p] = "unknown" => write'[p] = "called"
                      /\ run'[p] \in {"not_started", "oneshot"} =>
                            work'[p] = "none" /\ (write'[p] = "writing" => shell'[on'[p]] # "alive")
    BY DEF OutcomeIsTrue
  <2>1. CASE p = q
    BY <2>1, <1>j
  <2>2. CASE p # q
    <3>1. write[p] = "writing" => on[p] \in Shells /\ shell[on[p]] # "none"
      BY DEF TypeOK, Writes, Belongs
    <3>2. write[p] = "writing" => shell'[on[p]] = shell[on[p]]
      BY <3>1, <1>e
    <3> QED BY <2>2, <3>1, <3>2, <1>j DEF OutcomeIsTrue
  <2> QED BY <2>1, <2>2
<1>8. NobodyWaitsBehind'
  <2> SUFFICES ASSUME NEW v \in Workers, child'[v] # None,
                      NEW p \in Runs, on'[p] = child'[v], pending'[v] # p
               PROVE  work'[p] \in {"none", "read"} /\ write'[p] # "writing"
    BY DEF NobodyWaitsBehind
  <2>1. CASE v = w
    BY <2>1, <1>j, <1>f
  <2>2. CASE v # w
    <3>1. child[v] # None /\ child'[v] = child[v] /\ pending'[v] = pending[v]
      BY <2>2, <1>j
    <3>2. child[v] # s
      BY <3>1, <2>2, <1>e DEF Belongs
    <3>3. p # q
      BY <3>1, <3>2, <1>j
    <3> QED BY <3>1, <3>3, <1>j DEF NobodyWaitsBehind
  <2> QED BY <2>1, <2>2
<1> QED BY <1>1, <1>2, <1>3, <1>4, <1>5, <1>6, <1>7, <1>8

LEMMA TurnStoppedStep ==
    ASSUME PoolInv, NEW w \in Workers, TurnStopped(w)
    PROVE  PoolInv'
<1> USE NoneIsNobody DEF PoolInv
<1>a. Len(queue[w]) > 0 /\ Head(queue[w]) \in Runs /\ at[Head(queue[w])] = w
      /\ run[Head(queue[w])] = "queued"
  BY DEF TurnStopped, Waiting, TypeOK, Queues
<1>b. pending[w] = None
  BY <1>a DEF Pendings
<1>c. write[Head(queue[w])] = "none"
  BY <1>a DEF Writes
<1>1. TypeOK'
  BY <1>a, <1>b, <1>c DEF TurnStopped, Settle, command, TypeOK, Settled
<1>2. Queues'
  BY <1>a, LeaveQueue DEF TurnStopped, Settle, command, TypeOK
<1>3. Pendings'
  BY <1>a, <1>b, <1>c DEF TurnStopped, Settle, command, TypeOK, Pendings
<1>4. Writes'
  BY <1>a, <1>b, <1>c DEF TurnStopped, Settle, command, TypeOK, Writes
<1>5. Belongs'
  BY <1>a, <1>b, <1>c DEF TurnStopped, Settle, command, TypeOK, Belongs
<1>6. Counts'
  BY <1>a, <1>b, <1>c DEF TurnStopped, Settle, command, TypeOK, Counts, Writes
<1>7. OutcomeIsTrue'
  BY <1>a, <1>b, <1>c DEF TurnStopped, Settle, command, TypeOK, OutcomeIsTrue
<1>8. NobodyWaitsBehind'
  BY <1>a, <1>b, <1>c DEF TurnStopped, Settle, command, TypeOK, NobodyWaitsBehind
<1> QED BY <1>1, <1>2, <1>3, <1>4, <1>5, <1>6, <1>7, <1>8

LEMMA TimeoutStep ==
    ASSUME PoolInv, NEW w \in Workers, Timeout(w)
    PROVE  PoolInv'
<1> USE NoneIsNobody DEF PoolInv
<1>a. /\ w \in Workers /\ pending[w] \in Runs /\ Len(queue[w]) > 0
      /\ Head(queue[w]) = pending[w] /\ at[pending[w]] = w
      /\ run[pending[w]] = "executing"
      /\ child[w] \in {on[pending[w]], None}
      /\ write[pending[w]] = "called" => dispatched[pending[w]]
  BY DEF Timeout, TypeOK, Pendings
<1>1. TypeOK'
  BY <1>a DEF Timeout, Settle, command, TypeOK, Settled
<1>2. Queues'
  BY <1>a, LeaveQueue DEF Timeout, Settle, command, TypeOK
<1>3. Pendings'
  BY <1>a DEF Timeout, Settle, command, TypeOK, Pendings
<1>4. Writes'
  BY <1>a DEF Timeout, Settle, command, TypeOK, Writes
<1>5. Belongs'
  BY <1>a DEF Timeout, Settle, command, TypeOK, Belongs
<1>6. Counts'
  BY <1>a DEF Timeout, Settle, command, TypeOK, Counts
<1>7. OutcomeIsTrue'
  BY <1>a DEF Timeout, Settle, command, TypeOK, OutcomeIsTrue
<1>8. NobodyWaitsBehind'
  BY <1>a DEF Timeout, Settle, command, TypeOK, NobodyWaitsBehind
<1> QED BY <1>1, <1>2, <1>3, <1>4, <1>5, <1>6, <1>7, <1>8

LEMMA WrittenStep ==
    ASSUME PoolInv, NEW q \in Runs, Written(q)
    PROVE  PoolInv'
<1> USE NoneIsNobody DEF PoolInv
<1>1. TypeOK'
  BY DEF Written, workers, TypeOK, Settled
<1>2. Queues'
  BY DEF Written, workers, TypeOK, Queues
<1>3. Pendings'
  BY DEF Written, workers, TypeOK, Pendings
<1>4. Writes'
  BY DEF Written, workers, TypeOK, Writes
<1>5. Belongs'
  BY DEF Written, workers, TypeOK, Belongs
<1>6. Counts'
  BY DEF Written, workers, TypeOK, Counts
<1>7. OutcomeIsTrue'
  BY DEF Written, workers, TypeOK, OutcomeIsTrue
<1>8. NobodyWaitsBehind'
  BY DEF Written, workers, TypeOK, NobodyWaitsBehind
<1> QED BY <1>1, <1>2, <1>3, <1>4, <1>5, <1>6, <1>7, <1>8

LEMMA WriteFailedStep ==
    ASSUME PoolInv, NEW q \in Runs, WriteFailed(q)
    PROVE  PoolInv'
<1> USE NoneIsNobody DEF PoolInv
<1>a. work[q] = "none" /\ on[q] \in Shells /\ ~dispatched[q]
      /\ run[q] \notin {"new", "queued"}
  BY DEF WriteFailed, TypeOK, Writes
<1>b. at[q] \in Workers /\ queue[at[q]] \in Seq(Runs)
  BY <1>a DEF TypeOK, Writes
<1>1. CASE pending[at[q]] = q
  <2>a. /\ at[q] \in Workers /\ Len(queue[at[q]]) > 0
        /\ Head(queue[at[q]]) = q /\ run[q] = "executing"
    BY <1>1, <1>b DEF TypeOK, Pendings
  <2>b. Tail(queue[at[q]]) \in Seq(Runs)
    BY <1>b, <2>a, TailElements
  <2>c. /\ run' = [run EXCEPT ![q] = "not_started"]
        /\ queue' = [queue EXCEPT ![at[q]] = Tail(queue[at[q]])]
        /\ pending' = [pending EXCEPT ![at[q]] = None]
        /\ write' = [write EXCEPT ![q] = "failed"] /\ child' = [child EXCEPT ![at[q]] = None]
        /\ UNCHANGED <<at, on, work, ran, dispatched, pool, stopped, shell>>
    BY <1>1, <2>a DEF WriteFailed, Settle
  <2>1. TypeOK'
    BY <1>a, <1>b, <1>1, <2>a, <2>b, <2>c DEF TypeOK, Settled
  <2>2. Queues'
    BY <1>1, <2>a, LeaveQueue DEF WriteFailed, Settle, TypeOK
  <2>3. Pendings'
    BY <1>a, <1>b, <1>1, <2>a, <2>b, <2>c DEF TypeOK, Pendings
  <2>4. Writes'
    BY <1>a, <1>b, <1>1, <2>a, <2>b, <2>c DEF TypeOK, Writes
  <2>5. Belongs'
    BY <1>a, <1>b, <1>1, <2>a, <2>b, <2>c DEF TypeOK, Belongs
  <2>6. Counts'
    BY <1>a, <1>b, <1>1, <2>a, <2>b, <2>c DEF TypeOK, Counts
  <2>7. OutcomeIsTrue'
    BY <1>a, <1>b, <1>1, <2>a, <2>b, <2>c DEF TypeOK, OutcomeIsTrue
  <2>8. NobodyWaitsBehind'
    BY <1>a, <1>b, <1>1, <2>a, <2>b, <2>c DEF TypeOK, NobodyWaitsBehind
  <2> QED BY <2>1, <2>2, <2>3, <2>4, <2>5, <2>6, <2>7, <2>8
<1>2. CASE ~(pending[at[q]] = q)
  <2>1. TypeOK'
    BY <1>a, <1>b, <1>2 DEF WriteFailed, TypeOK
  <2>2. Queues'
    BY <1>a, <1>b, <1>2 DEF WriteFailed, TypeOK, Queues
  <2>3. Pendings'
    BY <1>a, <1>b, <1>2 DEF WriteFailed, TypeOK, Pendings
  <2>4. Writes'
    BY <1>a, <1>b, <1>2 DEF WriteFailed, TypeOK, Writes
  <2>5. Belongs'
    BY <1>a, <1>b, <1>2 DEF WriteFailed, TypeOK, Belongs
  <2>6. Counts'
    BY <1>a, <1>b, <1>2 DEF WriteFailed, TypeOK, Counts
  <2>7. OutcomeIsTrue'
    BY <1>a, <1>b, <1>2 DEF WriteFailed, TypeOK, OutcomeIsTrue
  <2>8. NobodyWaitsBehind'
    BY <1>a, <1>b, <1>2 DEF WriteFailed, TypeOK, NobodyWaitsBehind
  <2> QED BY <2>1, <2>2, <2>3, <2>4, <2>5, <2>6, <2>7, <2>8
<1> QED BY <1>1, <1>2

LEMMA AnswerStep ==
    ASSUME PoolInv, NEW q \in Runs, Answer(q)
    PROVE  PoolInv'
<1> USE NoneIsNobody DEF PoolInv
<1>a. write[q] = "called" /\ run[q] \notin {"new", "queued", "oneshot", "not_started"}
  BY DEF Answer, TypeOK, Writes, OutcomeIsTrue
<1>b. at[q] \in Workers /\ queue[at[q]] \in Seq(Runs)
  BY <1>a DEF TypeOK, Writes
<1>1. CASE child[at[q]] = on[q] /\ pending[at[q]] = q
  <2>a. /\ at[q] \in Workers /\ Len(queue[at[q]]) > 0
        /\ Head(queue[at[q]]) = q /\ run[q] = "executing"
    BY <1>1, <1>b DEF TypeOK, Pendings
  <2>b. Tail(queue[at[q]]) \in Seq(Runs)
    BY <1>b, <2>a, TailElements
  <2>c. /\ run' = [run EXCEPT ![q] = "answer"]
        /\ queue' = [queue EXCEPT ![at[q]] = Tail(queue[at[q]])]
        /\ pending' = [pending EXCEPT ![at[q]] = None]
        /\ work' = [work EXCEPT ![q] = "read"]
        /\ UNCHANGED <<at, on, write, ran, dispatched, pool, child, stopped, shell>>
    BY <1>1, <2>a DEF Answer, Settle
  <2>1. TypeOK'
    BY <1>a, <1>b, <1>1, <2>a, <2>b, <2>c DEF TypeOK, Settled
  <2>2. Queues'
    BY <1>1, <2>a, LeaveQueue DEF Answer, Settle, TypeOK
  <2>3. Pendings'
    BY <1>a, <1>b, <1>1, <2>a, <2>b, <2>c DEF TypeOK, Pendings
  <2>4. Writes'
    BY <1>a, <1>b, <1>1, <2>a, <2>b, <2>c DEF TypeOK, Writes
  <2>5. Belongs'
    BY <1>a, <1>b, <1>1, <2>a, <2>b, <2>c DEF TypeOK, Belongs
  <2>6. Counts'
    <3> SUFFICES ASSUME NEW p \in Runs
                 PROVE  ran'[p] = (IF work'[p] \in {"running", "finished", "read"} THEN 1 ELSE 0)
                                  + (IF run'[p] = "oneshot" THEN 1 ELSE 0)
      BY DEF Counts
    <3>1. ran'[p] = ran[p] /\ (run'[p] = "oneshot" <=> run[p] = "oneshot")
      BY <2>a, <2>c DEF TypeOK
    <3>2. work'[p] \in {"running", "finished", "read"} <=> work[p] \in {"running", "finished", "read"}
      BY <2>c DEF Answer, TypeOK
    <3> QED BY <3>1, <3>2 DEF Counts
  <2>7. OutcomeIsTrue'
    BY <1>a, <1>b, <1>1, <2>a, <2>b, <2>c DEF TypeOK, OutcomeIsTrue
  <2>8. NobodyWaitsBehind'
    BY <1>a, <1>b, <1>1, <2>a, <2>b, <2>c DEF TypeOK, NobodyWaitsBehind
  <2> QED BY <2>1, <2>2, <2>3, <2>4, <2>5, <2>6, <2>7, <2>8
<1>2. CASE ~(child[at[q]] = on[q] /\ pending[at[q]] = q)
  <2>1. TypeOK'
    BY <1>a, <1>b, <1>2 DEF Answer, TypeOK
  <2>2. Queues'
    BY <1>a, <1>b, <1>2 DEF Answer, TypeOK, Queues
  <2>3. Pendings'
    BY <1>a, <1>b, <1>2 DEF Answer, TypeOK, Pendings
  <2>4. Writes'
    BY <1>a, <1>b, <1>2 DEF Answer, TypeOK, Writes
  <2>5. Belongs'
    BY <1>a, <1>b, <1>2 DEF Answer, TypeOK, Belongs
  <2>6. Counts'
    BY <1>a, <1>b, <1>2 DEF Answer, TypeOK, Counts
  <2>7. OutcomeIsTrue'
    BY <1>a, <1>b, <1>2 DEF Answer, TypeOK, OutcomeIsTrue
  <2>8. NobodyWaitsBehind'
    BY <1>a, <1>b, <1>2 DEF Answer, TypeOK, NobodyWaitsBehind
  <2> QED BY <2>1, <2>2, <2>3, <2>4, <2>5, <2>6, <2>7, <2>8
<1> QED BY <1>1, <1>2

LEMMA ExitStep ==
    ASSUME PoolInv, NEW s \in Shells, Exit(s)
    PROVE  PoolInv'
<1> USE NoneIsNobody DEF PoolInv
<1>1. TypeOK'
  BY DEF Exit, command, workers, TypeOK, Settled
<1>2. Queues'
  BY DEF Exit, command, workers, TypeOK, Queues
<1>3. Pendings'
  BY DEF Exit, command, workers, TypeOK, Pendings
<1>4. Writes'
  BY DEF Exit, command, workers, TypeOK, Writes
<1>5. Belongs'
  BY DEF Exit, command, workers, TypeOK, Belongs
<1>6. Counts'
  BY DEF Exit, command, workers, TypeOK, Counts
<1>7. OutcomeIsTrue'
  BY DEF Exit, command, workers, TypeOK, OutcomeIsTrue
<1>8. NobodyWaitsBehind'
  BY DEF Exit, command, workers, TypeOK, NobodyWaitsBehind
<1> QED BY <1>1, <1>2, <1>3, <1>4, <1>5, <1>6, <1>7, <1>8

LEMMA CloseStep ==
    ASSUME PoolInv, NEW s \in Shells, Close(s)
    PROVE  PoolInv'
<1> USE NoneIsNobody DEF PoolInv
<1>1. CASE UNCHANGED <<run, queue, pending, child>>
  <2>1. TypeOK'
    BY <1>1 DEF Close, command, TypeOK
  <2>2. Queues'
    BY <1>1 DEF Close, command, TypeOK, Queues
  <2>3. Pendings'
    BY <1>1 DEF Close, command, TypeOK, Pendings
  <2>4. Writes'
    BY <1>1 DEF Close, command, TypeOK, Writes
  <2>5. Belongs'
    BY <1>1 DEF Close, command, TypeOK, Belongs
  <2>6. Counts'
    BY <1>1 DEF Close, command, TypeOK, Counts
  <2>7. OutcomeIsTrue'
    BY <1>1 DEF Close, command, TypeOK, OutcomeIsTrue
  <2>8. NobodyWaitsBehind'
    BY <1>1 DEF Close, command, TypeOK, NobodyWaitsBehind
  <2> QED BY <2>1, <2>2, <2>3, <2>4, <2>5, <2>6, <2>7, <2>8
<1>2. CASE \E w \in Workers :
              /\ child[w] = s /\ pending[w] # None
              /\ child' = [child EXCEPT ![w] = None]
              /\ pending' = [pending EXCEPT ![w] = None]
              /\ Settle(w, failPending(pending[w]))
  <2> PICK w \in Workers :
              /\ child[w] = s /\ pending[w] # None
              /\ child' = [child EXCEPT ![w] = None]
              /\ pending' = [pending EXCEPT ![w] = None]
              /\ Settle(w, failPending(pending[w]))
    BY <1>2
  <2> DEFINE q == pending[w]
             outcome == failPending(q)
  <2>a. /\ q \in Runs /\ Len(queue[w]) > 0 /\ Head(queue[w]) = q
        /\ at[q] = w /\ run[q] = "executing" /\ on[q] = s
        /\ write[q] = "called" => dispatched[q]
    BY DEF TypeOK, Pendings
  <2>b. /\ write[q] # "taken" /\ shell'[s] = "closed"
        /\ shell' = [shell EXCEPT ![s] = "closed"] /\ UNCHANGED <<command, pool, stopped>>
        /\ shell[s] = "exited"
    BY <2>a DEF Close, TypeOK
  <2>c. /\ outcome \in {"unknown", "not_started"}
        /\ outcome = "unknown" => write[q] = "called"
        /\ outcome = "not_started" => work[q] = "none"
    BY <2>a, <2>b DEF failPending, Writes, TypeOK
  <2>d. run' = [run EXCEPT ![q] = outcome] /\ queue' = [queue EXCEPT ![w] = Tail(@)]
    BY <2>a DEF Settle
  <2>e. write[q] # "none"
    BY <2>a DEF Writes
  <2> HIDE DEF q, outcome
  <2>1. TypeOK'
    BY <2>a, <2>b, <2>c, <2>d, <2>e DEF command, TypeOK, Settled
  <2>2. Queues'
    BY <2>a, <2>b, <2>c, <2>d, LeaveQueue DEF command, TypeOK
  <2>3. Pendings'
    BY <2>a, <2>b, <2>c, <2>d, <2>e DEF command, TypeOK, Pendings
  <2>4. Writes'
    BY <2>a, <2>b, <2>c, <2>d, <2>e DEF command, TypeOK, Writes
  <2>5. Belongs'
    BY <2>a, <2>b, <2>c, <2>d, <2>e DEF command, TypeOK, Belongs
  <2>6. Counts'
    BY <2>a, <2>b, <2>c, <2>d, <2>e DEF command, TypeOK, Counts
  <2>7. OutcomeIsTrue'
    BY <2>a, <2>b, <2>c, <2>d, <2>e DEF command, TypeOK, OutcomeIsTrue
  <2>8. NobodyWaitsBehind'
    BY <2>a, <2>b, <2>c, <2>d, <2>e DEF command, TypeOK, NobodyWaitsBehind
  <2> QED BY <2>1, <2>2, <2>3, <2>4, <2>5, <2>6, <2>7, <2>8
<1>3. CASE \E w \in Workers :
              /\ child[w] = s /\ pending[w] = None
              /\ child' = [child EXCEPT ![w] = None]
              /\ pending' = [pending EXCEPT ![w] = None]
              /\ UNCHANGED <<run, queue>>
  <2>1. TypeOK'
    BY <1>3 DEF Close, command, TypeOK
  <2>2. Queues'
    BY <1>3 DEF Close, command, TypeOK, Queues
  <2>3. Pendings'
    BY <1>3 DEF Close, command, TypeOK, Pendings
  <2>4. Writes'
    BY <1>3 DEF Close, command, TypeOK, Writes
  <2>5. Belongs'
    BY <1>3 DEF Close, command, TypeOK, Belongs
  <2>6. Counts'
    BY <1>3 DEF Close, command, TypeOK, Counts
  <2>7. OutcomeIsTrue'
    BY <1>3 DEF Close, command, TypeOK, OutcomeIsTrue
  <2>8. NobodyWaitsBehind'
    BY <1>3 DEF Close, command, TypeOK, NobodyWaitsBehind
  <2> QED BY <2>1, <2>2, <2>3, <2>4, <2>5, <2>6, <2>7, <2>8
<1> QED BY <1>1, <1>2, <1>3 DEF Close

LEMMA ShutdownStep ==
    ASSUME PoolInv, shutdownPowerShellWorkers
    PROVE  PoolInv'
<1> USE NoneIsNobody DEF PoolInv
<1>a. \A w \in Workers : pending[w] # None =>
          /\ pending[w] \in Runs /\ at[pending[w]] = w /\ Len(queue[w]) > 0
          /\ run[pending[w]] = "executing"
  BY DEF TypeOK, Pendings
<1>b. \A q \in Runs : run'[q] = run[q] \/ (run[q] = "executing" /\ run'[q] = "stopped")
  <2> SUFFICES ASSUME NEW q \in Runs
               PROVE  run'[q] = run[q] \/ (run[q] = "executing" /\ run'[q] = "stopped")
    OBVIOUS
  <2>1. run'[q] = IF \E w \in pool : pending[w] = q THEN "stopped" ELSE run[q]
    BY DEF shutdownPowerShellWorkers
  <2>2. ASSUME NEW w \in pool, pending[w] = q PROVE run[q] = "executing"
    <3>1. w \in Workers /\ pending[w] # None
      BY <2>2 DEF TypeOK
    <3> QED BY <1>a, <2>2, <3>1
  <2> QED BY <2>1, <2>2
<1>1. TypeOK'
  BY <1>a, <1>b DEF shutdownPowerShellWorkers, command, TypeOK, Settled
<1>2. Queues'
  BY <1>a, <1>b DEF shutdownPowerShellWorkers, command, TypeOK, Queues
<1>3. Pendings'
  BY <1>a, <1>b DEF shutdownPowerShellWorkers, command, TypeOK, Pendings
<1>4. Writes'
  BY <1>a, <1>b DEF shutdownPowerShellWorkers, command, TypeOK, Writes
<1>5. Belongs'
  BY <1>a, <1>b DEF shutdownPowerShellWorkers, command, TypeOK, Belongs
<1>6. Counts'
  BY <1>a, <1>b DEF shutdownPowerShellWorkers, command, TypeOK, Counts
<1>7. OutcomeIsTrue'
  BY <1>a, <1>b DEF shutdownPowerShellWorkers, command, TypeOK, OutcomeIsTrue
<1>8. NobodyWaitsBehind'
  BY <1>a, <1>b DEF shutdownPowerShellWorkers, command, TypeOK, NobodyWaitsBehind
<1> QED BY <1>1, <1>2, <1>3, <1>4, <1>5, <1>6, <1>7, <1>8

LEMMA OneShotStep ==
    ASSUME PoolInv, NEW q \in Runs, OneShot(q)
    PROVE  PoolInv'
<1> USE NoneIsNobody DEF PoolInv
<1>1. TypeOK'
  BY DEF OneShot, workers, TypeOK, Settled
<1>2. Queues'
  BY DEF OneShot, workers, TypeOK, Queues
<1>3. Pendings'
  BY DEF OneShot, workers, TypeOK, Pendings
<1>4. Writes'
  BY DEF OneShot, workers, TypeOK, Writes
<1>5. Belongs'
  BY DEF OneShot, workers, TypeOK, Belongs
<1>6. Counts'
  BY DEF OneShot, workers, TypeOK, Counts
<1>7. OutcomeIsTrue'
  BY DEF OneShot, workers, TypeOK, OutcomeIsTrue
<1>8. NobodyWaitsBehind'
  BY DEF OneShot, workers, TypeOK, NobodyWaitsBehind
<1> QED BY <1>1, <1>2, <1>3, <1>4, <1>5, <1>6, <1>7, <1>8

LEMMA TakesStep ==
    ASSUME PoolInv, NEW q \in Runs, Takes(q)
    PROVE  PoolInv'
<1> USE NoneIsNobody DEF PoolInv
<1>a. on[q] \in Shells /\ work[q] = "none" /\ ~dispatched[q]
  BY DEF Takes, TypeOK, Writes
<1>1. TypeOK'
  BY <1>a DEF Takes, workers, TypeOK, Settled
<1>2. Queues'
  BY <1>a DEF Takes, workers, TypeOK, Queues
<1>3. Pendings'
  BY <1>a DEF Takes, workers, TypeOK, Pendings
<1>4. Writes'
  BY <1>a DEF Takes, workers, TypeOK, Writes
<1>5. Belongs'
  BY <1>a DEF Takes, workers, TypeOK, Belongs
<1>6. Counts'
  BY <1>a DEF Takes, workers, TypeOK, Counts
<1>7. OutcomeIsTrue'
  BY <1>a DEF Takes, workers, TypeOK, OutcomeIsTrue
<1>8. NobodyWaitsBehind'
  BY <1>a DEF Takes, workers, TypeOK, NobodyWaitsBehind
<1> QED BY <1>1, <1>2, <1>3, <1>4, <1>5, <1>6, <1>7, <1>8

LEMMA ReadLineStep ==
    ASSUME PoolInv, NEW q \in Runs, ReadLine(q)
    PROVE  PoolInv'
<1> USE NoneIsNobody DEF PoolInv
<1>a. write[q] \notin {"none", "writing", "failed"} /\ run[q] # "oneshot"
  BY DEF ReadLine, Writes, OutcomeIsTrue
<1>1. TypeOK'
  BY <1>a DEF ReadLine, workers, TypeOK, Settled
<1>2. Queues'
  BY <1>a DEF ReadLine, workers, TypeOK, Queues
<1>3. Pendings'
  BY <1>a DEF ReadLine, workers, TypeOK, Pendings
<1>4. Writes'
  BY <1>a DEF ReadLine, workers, TypeOK, Writes
<1>5. Belongs'
  BY <1>a DEF ReadLine, workers, TypeOK, Belongs
<1>6. Counts'
  BY <1>a DEF ReadLine, workers, TypeOK, Counts
<1>7. OutcomeIsTrue'
  BY <1>a DEF ReadLine, workers, TypeOK, OutcomeIsTrue
<1>8. NobodyWaitsBehind'
  BY <1>a DEF ReadLine, workers, TypeOK, NobodyWaitsBehind
<1> QED BY <1>1, <1>2, <1>3, <1>4, <1>5, <1>6, <1>7, <1>8

LEMMA WriteLineStep ==
    ASSUME PoolInv, NEW q \in Runs, WriteLine(q)
    PROVE  PoolInv'
<1> USE NoneIsNobody DEF PoolInv
<1>a. write[q] \notin {"none", "writing", "failed"} /\ run[q] # "oneshot"
  BY DEF WriteLine, Writes, OutcomeIsTrue
<1>1. TypeOK'
  BY <1>a DEF WriteLine, workers, TypeOK, Settled
<1>2. Queues'
  BY <1>a DEF WriteLine, workers, TypeOK, Queues
<1>3. Pendings'
  BY <1>a DEF WriteLine, workers, TypeOK, Pendings
<1>4. Writes'
  BY <1>a DEF WriteLine, workers, TypeOK, Writes
<1>5. Belongs'
  BY <1>a DEF WriteLine, workers, TypeOK, Belongs
<1>6. Counts'
  BY <1>a DEF WriteLine, workers, TypeOK, Counts
<1>7. OutcomeIsTrue'
  BY <1>a DEF WriteLine, workers, TypeOK, OutcomeIsTrue
<1>8. NobodyWaitsBehind'
  BY <1>a DEF WriteLine, workers, TypeOK, NobodyWaitsBehind
<1> QED BY <1>1, <1>2, <1>3, <1>4, <1>5, <1>6, <1>7, <1>8

LEMMA DieStep ==
    ASSUME PoolInv, NEW s \in Shells, Die(s)
    PROVE  PoolInv'
<1> USE NoneIsNobody DEF PoolInv
<1>1. TypeOK'
  BY DEF Die, command, workers, TypeOK, Settled
<1>2. Queues'
  BY DEF Die, command, workers, TypeOK, Queues
<1>3. Pendings'
  BY DEF Die, command, workers, TypeOK, Pendings
<1>4. Writes'
  BY DEF Die, command, workers, TypeOK, Writes
<1>5. Belongs'
  BY DEF Die, command, workers, TypeOK, Belongs
<1>6. Counts'
  BY DEF Die, command, workers, TypeOK, Counts
<1>7. OutcomeIsTrue'
  BY DEF Die, command, workers, TypeOK, OutcomeIsTrue
<1>8. NobodyWaitsBehind'
  BY DEF Die, command, workers, TypeOK, NobodyWaitsBehind
<1> QED BY <1>1, <1>2, <1>3, <1>4, <1>5, <1>6, <1>7, <1>8

LEMMA StepPool == PoolInv /\ [Next]_vars => PoolInv'
<1> SUFFICES ASSUME PoolInv, [Next]_vars PROVE PoolInv'
  OBVIOUS
<1>1. CASE UNCHANGED vars
  BY <1>1 DEF PoolInv, vars, command, workers, TypeOK, Queues, Pendings, Writes, Belongs,
     Counts, OutcomeIsTrue, NobodyWaitsBehind
<1>2. ASSUME NEW q \in Runs,
             Run(q) \/ Written(q) \/ WriteFailed(q) \/ Answer(q) \/ OneShot(q)
             \/ Takes(q) \/ ReadLine(q) \/ WriteLine(q)
      PROVE  PoolInv'
  BY <1>2, RunStep, WrittenStep, WriteFailedStep, AnswerStep, OneShotStep, TakesStep,
     ReadLineStep, WriteLineStep
<1>3. ASSUME NEW w \in Workers, Execute(w) \/ TurnStopped(w) \/ Timeout(w)
      PROVE  PoolInv'
  BY <1>3, ExecuteStep, TurnStoppedStep, TimeoutStep
<1>4. ASSUME NEW s \in Shells, Exit(s) \/ Close(s) \/ Die(s)
      PROVE  PoolInv'
  BY <1>4, ExitStep, CloseStep, DieStep
<1>5. CASE shutdownPowerShellWorkers
  BY <1>5, ShutdownStep
<1> QED BY <1>1, <1>2, <1>3, <1>4, <1>5 DEF Next

(* The pool, its queues, the writes and the shells fit together.           *)
THEOREM PoolHolds == Spec => []PoolInv
<1>1. Init => PoolInv
  BY InitPool
<1>2. PoolInv /\ [Next]_vars => PoolInv'
  BY StepPool
<1> QED BY <1>1, <1>2, PTL DEF Spec

(* Types, for every number of commands and workers.                        *)
THEOREM PoolTypes == Spec => []TypeOK
<1>1. PoolInv => TypeOK
  BY DEF PoolInv
<1> QED BY <1>1, PoolHolds, PTL

(* No command of ProcessManager.run runs twice, in shells or by itself.    *)
THEOREM RunsOnce == Spec => []NeverReplayed
<1>1. PoolInv => NeverReplayed
  BY DEF PoolInv, Counts, OutcomeIsTrue, NeverReplayed
<1> QED BY <1>1, PoolHolds, PTL

(* What a caller is told of its command is true.                           *)
THEOREM OutcomesTrue == Spec => []OutcomeIsTrue
<1>1. PoolInv => OutcomeIsTrue
  BY DEF PoolInv
<1> QED BY <1>1, PoolHolds, PTL

(* The shell of a worker serves the pending request and nothing else.      *)
THEOREM ShellIsFree == Spec => []NobodyWaitsBehind
<1>1. PoolInv => NobodyWaitsBehind
  BY DEF PoolInv
<1> QED BY <1>1, PoolHolds, PTL
=============================================================================
