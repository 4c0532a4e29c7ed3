------------------------ MODULE IngestionTasksProofs ------------------------
(***************************************************************************)
(* What IngestionTasks guarantees for every number of tasks, workers,      *)
(* Celery ids, operators, retries and faults.                              *)
(***************************************************************************)
EXTENDS IngestionTasks, TLAPS

\* A process that is not idle works for a message somebody published.
Busy == \A w \in Workers : worker[w].pc # "idle" => worker[w].token \in Tokens

\* Only attempts below the last one schedule a retry.
Retriable ==
    \A w \in Workers : worker[w].pc \in {"retry", "republish"}
                       => worker[w].retries < MAX_INGESTION_RETRIES

Shape == TypeOK /\ Busy /\ Retriable

LEMMA ShapeInit == Init => Shape
<1> SUFFICES ASSUME Init PROVE Shape
  OBVIOUS
<1> USE ConstantsOK DEF Init
<1>1. NewRow \in Row
  BY DEF NewRow, Row, TaskState, NoTime
<1>2. Idle \in Worker
  BY DEF Idle, Worker, Pc
<1>3. TypeOK
  BY <1>1, <1>2 DEF TypeOK
<1>4. Busy /\ Retriable
  BY DEF Busy, Retriable, Idle
<1> QED
  BY <1>3, <1>4 DEF Shape

\* Moving a process to another point of the program.
LEMMA GotoShape ==
  ASSUME Shape, NEW w \in Workers, NEW pc \in Pc, Goto(w, pc),
         worker[w].pc # "idle",
         pc \in {"retry", "republish"} => worker[w].retries < MAX_INGESTION_RETRIES
  PROVE  worker' \in [Workers -> Worker] /\ Busy' /\ Retriable'
<1>1. worker' \in [Workers -> Worker]
  BY ZenonT(30) DEF Shape, TypeOK, Goto, Worker
<1>2. \A v \in Workers : /\ v # w => worker'[v] = worker[v]
                         /\ worker'[w].pc = pc
                         /\ worker'[w].token = worker[w].token
                         /\ worker'[w].retries = worker[w].retries
  BY DEF Shape, TypeOK, Goto, Worker
<1>3. Busy' /\ Retriable'
  BY <1>2 DEF Shape, Busy, Retriable
<1> QED
  BY <1>1, <1>3

\* A process whose message is acknowledged or lost starts afresh.
LEMMA IdleShape ==
  ASSUME Shape, NEW w \in Workers, worker' = [worker EXCEPT ![w] = Idle]
  PROVE  worker' \in [Workers -> Worker] /\ Busy' /\ Retriable'
<1>1. Idle \in Worker
  BY ConstantsOK DEF Idle, Worker, Pc
<1> QED
  BY <1>1 DEF Shape, TypeOK, Busy, Retriable, Idle

\* The columns a claim, a takeover and the end of an attempt write keep their
\* types.
LEMMA ClaimedRow ==
  ASSUME NEW r \in Row, NEW k \in Tokens, NEW n \in Nat,
         NEW l \in Leases \cup {NoLease}, NEW e \in Nat
  PROVE  [r EXCEPT !.state = "running", !.token = k, !.attempt = n, !.lease = l,
                   !.expires = e] \in Row
BY DEF Row, TaskState

LEMMA TakenRow ==
  ASSUME NEW r \in Row, NEW n \in Nat, NEW l \in Leases \cup {NoLease}, NEW e \in Nat
  PROVE  [r EXCEPT !.attempt = n, !.lease = l, !.expires = e] \in Row
BY DEF Row

LEMMA FinishedRow ==
  ASSUME NEW r \in Row, NEW s \in TaskState, NEW n \in Nat, NEW e \in Nat \cup {NoTime}
  PROVE  [r EXCEPT !.state = s, !.retry = Larger(r.retry, n), !.expires = e] \in Row
<1>1. Larger(r.retry, n) \in Nat
  BY DEF Row, Larger
<1> QED
  BY <1>1 DEF Row

LEMMA AuditShape ==
  ASSUME TypeOK, NEW t \in Tasks, NEW a \in Actions, Audit(t, a)
  PROVE  audit' \in [Tasks -> [Actions -> Nat]]
BY DEF TypeOK, Audit

LEMMA ShapeStep == Shape /\ [Next]_vars => Shape'
<1> SUFFICES ASSUME Shape, [Next]_vars PROVE Shape'
  OBVIOUS
<1> USE ConstantsOK
<1>1. ASSUME NEW k \in Tokens, Publish(k) PROVE Shape'
  BY <1>1 DEF Publish, Shape, TypeOK, Busy, Retriable, Message
<1>2. ASSUME NEW w \in Workers, NEW m \in broker, Deliver(w, m) PROVE Shape'
  <2>1. PICK l \in FreshLeases :
          worker' = [worker EXCEPT ![w] =
              [pc |-> "claim", token |-> m.token, retries |-> m.retries, lease |-> l,
               now |-> clock, deadline |-> clock + WORKER_LEASE_DURATION]]
    BY <1>2 DEF Deliver
  <2>2. m \in Message /\ l \in Leases
    BY DEF Shape, TypeOK, FreshLeases
  <2>3. [pc |-> "claim", token |-> m.token, retries |-> m.retries, lease |-> l,
         now |-> clock, deadline |-> clock + WORKER_LEASE_DURATION] \in Worker
    BY <2>2 DEF Worker, Message, Pc, Claiming, Shape, TypeOK
  <2>4. worker' \in [Workers -> Worker]
    BY <2>1, <2>3 DEF Shape, TypeOK
  <2>5. Busy' /\ Retriable'
    BY <2>1, <2>2 DEF Shape, TypeOK, Busy, Retriable, Message
  <2> QED
    BY <1>2, <2>4, <2>5 DEF Deliver, Shape, TypeOK
<1>3. ASSUME NEW w \in Workers, Claim(w) PROVE Shape'
  <2>1. TaskOfWorker(w) \in Tasks /\ worker[w] \in Worker /\ worker[w].token \in Tokens
    BY <1>3 DEF Claim, ClaimQueued, ClaimMisses, SelectClaimed, AdvanceAttempt,
         AdvanceMisses, RecoverAttempt, RecoverMisses, Shape, TypeOK, Busy, TaskOfWorker
  <2>a. /\ worker[w].retries \in Nat /\ worker[w].deadline \in Nat
        /\ worker[w].lease \in Leases \cup {NoLease}
    BY <2>1 DEF Worker
  <2>2. {"select", "advance", "recover", "ingest", "ack"} \subseteq Pc
    BY DEF Pc, Claiming, Executing, Handling
  <2>3. CASE ClaimQueued(w)
    <3>1. row' \in [Tasks -> Row]
      BY <2>1, <2>a, <2>3, ClaimedRow DEF ClaimQueued, Shape, TypeOK
    <3>2. audit' \in [Tasks -> [Actions -> Nat]]
      BY <2>1, <2>3, AuditShape DEF ClaimQueued, Shape, Actions
    <3> QED
      BY <2>2, <2>3, <3>1, <3>2, GotoShape DEF ClaimQueued, Shape, TypeOK
  <2>4. CASE AdvanceAttempt(w) \/ RecoverAttempt(w)
    <3>1. row' \in [Tasks -> Row]
      <4>1. TakeLease(w) /\ row \in [Tasks -> Row]
        BY <2>4 DEF AdvanceAttempt, RecoverAttempt, Shape, TypeOK
      <4> QED
        BY <2>1, <2>a, <4>1, TakenRow DEF TakeLease
    <3> QED
      BY <2>2, <2>4, <3>1, GotoShape
         DEF AdvanceAttempt, RecoverAttempt, TakeLease, Shape, TypeOK
  <2>5. CASE ClaimMisses(w) \/ SelectClaimed(w) \/ AdvanceMisses(w) \/ RecoverMisses(w)
    BY <2>2, <2>5, GotoShape
       DEF ClaimMisses, SelectClaimed, AdvanceMisses, RecoverMisses, Shape, TypeOK
  <2> QED
    BY <1>3, <2>3, <2>4, <2>5 DEF Claim
<1>4. ASSUME NEW w \in Workers, Handle(w) PROVE Shape'
  <2>1. TaskOfWorker(w) \in Tasks
    BY <1>4 DEF Handle, Upsert, HandlerReturns, HandlerTimesOut, HandlerFails, Handling,
         Shape, Busy, TaskOfWorker
  <2>2. {"upserted", "succeed", "retry", "fail"} \subseteq Pc
    BY DEF Pc, Executing, Handling, Finishing
  <2> QED
    BY <1>4, <2>1, <2>2, GotoShape
       DEF Handle, Upsert, HandlerReturns, HandlerTimesOut, HandlerFails, Handling,
           Shape, TypeOK
<1>5. ASSUME NEW w \in Workers, End(w) PROVE Shape'
  <2>1. worker[w].pc # "idle" /\ TaskOfWorker(w) \in Tasks /\ worker[w] \in Worker
    BY <1>5 DEF End, FinishSucceeded, FinishFailed, FinishRetry, ClaimLost, Republish,
         InvalidateCache, Ack, Finishing, Shape, TypeOK, Busy, TaskOfWorker
  <2>2. {"republish", "invalidate", "ack"} \subseteq Pc
    BY DEF Pc
  <2>3. CASE FinishSucceeded(w) \/ FinishFailed(w) \/ FinishRetry(w)
    <3>b. /\ worker[w].retries \in Nat /\ worker[w].retries + 1 \in Nat
          /\ clock \in Nat /\ {"running", "succeeded", "failed"} \subseteq TaskState
      BY <2>1 DEF Shape, TypeOK, Worker, TaskState
    <3>1. row' \in [Tasks -> Row]
      <4>1. PICK s \in TaskState, a \in Actions, n \in Nat, e \in Nat \cup {NoTime} :
              Finish(w, s, a, n, e)
        BY <2>3, <3>b DEF FinishSucceeded, FinishFailed, FinishRetry, Actions
      <4>2. row \in [Tasks -> Row] /\ row[TaskOfWorker(w)] \in Row
        BY <2>1 DEF Shape, TypeOK
      <4>3. [row[TaskOfWorker(w)] EXCEPT !.state = s, 
                                         !.retry = Larger(row[TaskOfWorker(w)].retry, n),
                                         !.expires = e] \in Row
        BY <4>2, FinishedRow
      <4> QED
        BY <2>1, <4>1, <4>2, <4>3 DEF Finish
    <3>2. audit' \in [Tasks -> [Actions -> Nat]]
      BY <2>1, <2>3, AuditShape
         DEF FinishSucceeded, FinishFailed, FinishRetry, Finish, Shape, Actions
    <3> QED
      BY <2>1, <2>2, <2>3, <3>1, <3>2, GotoShape
         DEF FinishSucceeded, FinishFailed, FinishRetry, Finish, Shape, TypeOK, Retriable
  <2>4. CASE Republish(w)
    <3>1. worker[w].retries < MAX_INGESTION_RETRIES
          => [token |-> worker[w].token, retries |-> worker[w].retries + 1,
              visible |-> clock] \in Message
      BY <2>1, <2>4 DEF Republish, Shape, TypeOK, Busy, Message, Worker
    <3>2. broker' \subseteq Message
      BY <2>4, <3>1 DEF Republish, Shape, TypeOK
    <3> QED
      BY <2>1, <2>2, <2>4, <3>2, GotoShape DEF Republish, Shape, TypeOK
  <2>5. CASE ClaimLost(w) \/ InvalidateCache(w)
    BY <2>1, <2>2, <2>5, GotoShape DEF ClaimLost, InvalidateCache, Shape, TypeOK
  <2>6. CASE Ack(w)
    BY <2>6, IdleShape DEF Ack, Shape, TypeOK
  <2> QED
    BY <1>5, <2>3, <2>4, <2>5, <2>6 DEF End
<1>6. ASSUME NEW w \in Workers, FaultStep(w) PROVE Shape'
  <2>1. worker[w].pc # "idle" /\ worker[w] \in Worker /\ worker[w].token \in Tokens
    BY <1>6 DEF FaultStep, ChildLost, WorkerLost, Duplicate, DatabaseFails, RepublishFails,
         InvalidationFails, Claiming, Finishing, Shape, TypeOK, Busy
  <2>2. \A v \in Nat : Unacked(w, v) \in Message
    BY <2>1 DEF Unacked, Message, Worker
  <2>3. faults' \in Nat
    BY <1>6 DEF FaultStep, ChildLost, WorkerLost, Duplicate, DatabaseFails, RepublishFails,
         InvalidationFails, Fault, Shape, TypeOK
  <2>4. CASE ChildLost(w) \/ WorkerLost(w)
    BY <2>2, <2>3, <2>4, IdleShape DEF ChildLost, WorkerLost, Shape, TypeOK
  <2>5. CASE Duplicate(w)
    BY <2>2, <2>3, <2>5 DEF Duplicate, Shape, TypeOK, Busy, Retriable
  <2>6. CASE DatabaseFails(w) \/ RepublishFails(w) \/ InvalidationFails(w)
    BY <2>1, <2>3, <2>6, GotoShape
       DEF DatabaseFails, RepublishFails, InvalidationFails, Shape, TypeOK, Pc
  <2> QED
    BY <1>6, <2>4, <2>5, <2>6 DEF FaultStep
<1>7. ASSUME NEW o \in Operators, OperatorStep(o) PROVE Shape'
  <2>1. CASE \E t \in Tasks, target \in TaskState : OperatorReads(o, t, target)
    BY <2>1 DEF OperatorReads, Request, Shape, TypeOK, Row, Busy, Retriable
  <2>2. CASE OperatorWrites(o)
    <3>1. operator[o] \in Request
      BY <2>2 DEF OperatorWrites, Shape, TypeOK
    <3>2. row' \in [Tasks -> Row]
      BY ZenonT(60), <2>2, <3>1 DEF OperatorWrites, Shape, TypeOK, Row, Request
    <3>3. audit' \in [Tasks -> [Actions -> Nat]]
      BY <2>2, <3>1, AuditShape DEF OperatorWrites, Shape, Request, Actions
    <3> QED
      BY <2>2, <3>2, <3>3 DEF OperatorWrites, Shape, TypeOK, Busy, Retriable
  <2>3. CASE OperatorConflicts(o)
    BY <2>3 DEF OperatorConflicts, Shape, TypeOK, Busy, Retriable
  <2> QED
    BY <1>7, <2>1, <2>2, <2>3 DEF OperatorStep
<1>8. CASE Tick
  BY <1>8 DEF Tick, Shape, TypeOK, Busy, Retriable
<1>9. CASE UNCHANGED vars
  BY <1>9 DEF vars, Shape, TypeOK, Busy, Retriable
<1> QED
  BY <1>1, <1>2, <1>3, <1>4, <1>5, <1>6, <1>7, <1>8, <1>9
     DEF Next, DeliverSome, WorkerStep

\* Every column, message, process and counter keeps its type.
THEOREM TypeCorrect == Spec => []TypeOK
<1>1. Shape => TypeOK
  BY DEF Shape
<1> QED
  BY <1>1, ShapeInit, ShapeStep, PTL DEF Spec

-----------------------------------------------------------------------------
(* What one step does to the row and the audit trail of one task *)

Untouched(t) == row'[t] = row[t] /\ audit'[t] = audit[t]

Logged(t, a) == audit'[t] = [audit[t] EXCEPT ![a] = @ + 1]

Opened(w, t) ==
    /\ worker[w].pc = "claim"
    /\ row[t].state = "queued"
    /\ row'[t].state = "running"
    /\ row'[t].token = worker[w].token
    /\ row'[t].attempt = worker[w].retries
    /\ row'[t].lease = worker[w].lease
    /\ row'[t].expires = worker[w].deadline
    /\ row'[t].retry = row[t].retry
    /\ Logged(t, "task.started")
    /\ worker'[w].pc = "ingest"

TakenOver(w, t) ==
    /\ (worker[w].pc = "advance" /\ MayAdvance(w)) \/ (worker[w].pc = "recover" /\ MayRecover(w))
    /\ row[t].state = "running"
    /\ row'[t].state = "running"
    /\ row'[t].token = row[t].token
    /\ row'[t].attempt = worker[w].retries
    /\ row'[t].lease = worker[w].lease
    /\ row'[t].expires = worker[w].deadline
    /\ row'[t].retry = row[t].retry
    /\ audit'[t] = audit[t]
    /\ worker'[w].pc = "ingest"

Ended(w, t, pc, s, a, n, e) ==
    /\ worker[w].pc = pc
    /\ OwnsAttempt(w)
    /\ row[t].state = "running"
    /\ row'[t].state = s
    /\ row'[t].token = row[t].token
    /\ row'[t].attempt = row[t].attempt
    /\ row'[t].lease = row[t].lease
    /\ row'[t].expires = e
    /\ row'[t].retry = Larger(row[t].retry, n)
    /\ Logged(t, a)
    /\ worker'[w].pc \notin Executing

Concluded(w, t) ==
    \/ Ended(w, t, "succeed", "succeeded", "task.succeeded", worker[w].retries, NoTime)
    \/ Ended(w, t, "fail", "failed", "task.failed", worker[w].retries, NoTime)

Rescheduled(w, t) ==
    /\ Ended(w, t, "retry", "running", "task.retry_scheduled", worker[w].retries + 1, clock)
    /\ worker'[w].pc = "republish"

Moved(o, t) ==
    /\ operator[o] \in Request
    /\ operator[o].task = t
    /\ operator[o].current = row[t].state
    /\ row'[t].state = operator[o].target
    /\ row'[t].token = row[t].token
    /\ row'[t].attempt = row[t].attempt
    /\ row'[t].lease = row[t].lease
    /\ row'[t].expires = row[t].expires
    /\ row'[t].retry = row[t].retry
    /\ Logged(t, "task.transitioned")

WorkerWrites(w, t) == Opened(w, t) \/ TakenOver(w, t) \/ Concluded(w, t) \/ Rescheduled(w, t)

RowChange(t) ==
    \/ Untouched(t)
    \/ \E w \in Workers : /\ worker[w].pc # "idle"
                          /\ TaskOfWorker(w) = t
                          /\ WorkerWrites(w, t)
    \/ \E o \in Operators : Moved(o, t)

LEMMA RowStep ==
  ASSUME Shape, [Next]_vars, NEW t \in Tasks
  PROVE  RowChange(t)
<1> USE DEF Shape, TypeOK
<1>1. CASE UNCHANGED <<row, audit>>
  BY <1>1 DEF RowChange, Untouched
<1>2. ASSUME NEW w \in Workers, ClaimQueued(w) PROVE RowChange(t)
  <2>1. TaskOfWorker(w) \in Tasks
    BY <1>2, ConstantsOK DEF ClaimQueued, Busy, TaskOfWorker
  <2>2. CASE TaskOfWorker(w) = t
    <3>a. worker'[w].pc = "ingest"
      BY <1>2 DEF ClaimQueued, Goto, Worker
    <3>1. Opened(w, t)
      BY <1>2, <2>1, <2>2, <3>a DEF ClaimQueued, Opened, Logged, Audit, Row
    <3> QED
      BY <1>2, <2>2, <3>1 DEF ClaimQueued, RowChange, WorkerWrites
  <2>3. CASE TaskOfWorker(w) # t
    BY <1>2, <2>1, <2>3 DEF ClaimQueued, Audit, RowChange, Untouched
  <2> QED
    BY <2>2, <2>3
<1>3. ASSUME NEW w \in Workers, AdvanceAttempt(w) \/ RecoverAttempt(w) PROVE RowChange(t)
  <2>1. TaskOfWorker(w) \in Tasks /\ TakeLease(w) /\ UNCHANGED audit
    BY <1>3, ConstantsOK DEF AdvanceAttempt, RecoverAttempt, Busy, TaskOfWorker
  <2>2. CASE TaskOfWorker(w) = t
    <3>a. worker'[w].pc = "ingest"
      BY <2>1 DEF TakeLease, Goto, Worker
    <3>1. TakenOver(w, t)
      BY <1>3, <2>1, <2>2, <3>a DEF AdvanceAttempt, RecoverAttempt, TakeLease, TakenOver, MayAdvance,
           MayRecover, StillClaimed, Row
    <3> QED
      BY <1>3, <2>2, <3>1 DEF AdvanceAttempt, RecoverAttempt, RowChange, WorkerWrites
  <2>3. CASE TaskOfWorker(w) # t
    BY <2>1, <2>3 DEF TakeLease, RowChange, Untouched
  <2> QED
    BY <2>2, <2>3
<1>4. ASSUME NEW w \in Workers, FinishSucceeded(w) \/ FinishFailed(w) \/ FinishRetry(w)
      PROVE RowChange(t)
  <2>1. TaskOfWorker(w) \in Tasks /\ worker[w].pc # "idle"
    BY <1>4, ConstantsOK DEF FinishSucceeded, FinishFailed, FinishRetry, Busy, TaskOfWorker
  <2>2. CASE TaskOfWorker(w) = t
    <3>a. worker'[w].pc \notin Executing
      BY <1>4 DEF FinishSucceeded, FinishFailed, FinishRetry, Goto, Executing, Handling, Finishing,
         Worker
    <3>1. ASSUME NEW s, NEW a, NEW n, NEW e, NEW pc, Finish(w, s, a, n, e), worker[w].pc = pc
          PROVE  Ended(w, t, pc, s, a, n, e)
      BY <2>1, <2>2, <3>a, <3>1 DEF Finish, Ended, OwnsAttempt, Logged, Audit, Row
    <3>b. FinishRetry(w) => worker'[w].pc = "republish"
      BY DEF FinishRetry, Goto, Worker
    <3>2. Concluded(w, t) \/ Rescheduled(w, t)
      BY <1>4, <3>1, <3>b DEF FinishSucceeded, FinishFailed, FinishRetry, Concluded, Rescheduled
    <3> QED
      BY <2>1, <2>2, <3>2 DEF RowChange, WorkerWrites
  <2>3. CASE TaskOfWorker(w) # t
    BY <1>4, <2>1, <2>3 DEF FinishSucceeded, FinishFailed, FinishRetry, Finish, Audit,
         RowChange, Untouched
  <2> QED
    BY <2>2, <2>3
<1>5. ASSUME NEW o \in Operators, OperatorWrites(o) PROVE RowChange(t)
  <2>1. operator[o] \in Request
    BY <1>5 DEF OperatorWrites
  <2>2. CASE operator[o].task = t
    BY <1>5, <2>1, <2>2 DEF OperatorWrites, RowChange, Moved, Logged, Audit, Row
  <2>3. CASE operator[o].task # t
    BY <1>5, <2>1, <2>3 DEF OperatorWrites, Audit, RowChange, Untouched
  <2> QED
    BY <2>2, <2>3
<1> QED
  BY <1>1, <1>2, <1>3, <1>4, <1>5
     DEF Next, vars, Publish, DeliverSome, Deliver, WorkerStep, Claim, ClaimMisses,
         SelectClaimed, AdvanceMisses, RecoverMisses, Handle, Upsert, HandlerReturns,
         HandlerTimesOut, HandlerFails, End, ClaimLost, Republish, InvalidateCache, Ack,
         FaultStep, ChildLost, WorkerLost, Duplicate, DatabaseFails, RepublishFails,
         InvalidationFails, OperatorStep, OperatorReads, OperatorConflicts, Tick

-----------------------------------------------------------------------------
(* Terminal rows *)

\* A request between its SELECT and its UPDATE asks for an allowed transition.
Requests ==
    \A o \in Operators : operator[o] \in Request
                         => operator[o].target \in ALLOWED_TRANSITIONS[operator[o].current]

LEMMA RequestsInit == Init => Requests
<1> SUFFICES ASSUME Init, NEW o \in Operators, operator[o] \in Request PROVE FALSE
  BY DEF Requests
<1> QED
  BY ConstantsOK DEF Init, Request, TaskState

LEMMA RequestsStep == Shape /\ Requests /\ [Next]_vars => Requests'
<1> SUFFICES ASSUME Shape, Requests, [Next]_vars PROVE Requests'
  OBVIOUS
<1> USE DEF Shape, TypeOK, Requests
<1>1. CASE UNCHANGED operator
  BY <1>1
<1>2. ASSUME NEW o \in Operators, NEW t \in Tasks, NEW target \in TaskState,
             OperatorReads(o, t, target)
      PROVE Requests'
  BY <1>2 DEF OperatorReads
<1>3. ASSUME NEW o \in Operators, OperatorWrites(o) \/ OperatorConflicts(o)
      PROVE Requests'
  <2>1. NoRequest \notin Request
    BY ConstantsOK DEF Request, TaskState
  <2> QED
    BY <1>3, <2>1 DEF OperatorWrites, OperatorConflicts
<1> QED
  BY <1>1, <1>2, <1>3
     DEF Next, vars, Publish, DeliverSome, Deliver, WorkerStep, Claim, ClaimQueued, ClaimMisses,
         SelectClaimed, AdvanceAttempt, AdvanceMisses, RecoverAttempt, RecoverMisses, Handle,
         Upsert, HandlerReturns, HandlerTimesOut, HandlerFails, End, FinishSucceeded,
         FinishFailed, FinishRetry, ClaimLost, Republish, InvalidateCache, Ack,
         FaultStep, ChildLost, WorkerLost, Duplicate, DatabaseFails, RepublishFails,
         InvalidationFails, OperatorStep, Tick

\* A row that has ended is changed by no step.
LEMMA TerminalStep ==
  ASSUME Shape, Requests, [Next]_vars, NEW t \in Tasks, row[t].state \in Terminal
  PROVE  Untouched(t)
<1>1. ASSUME NEW w \in Workers, WorkerWrites(w, t) PROVE FALSE
  BY <1>1 DEF WorkerWrites, Opened, TakenOver, Concluded, Rescheduled, Ended, Terminal
<1>2. ASSUME NEW o \in Operators, Moved(o, t) PROVE FALSE
  BY <1>2 DEF Moved, Requests, Terminal, ALLOWED_TRANSITIONS, TaskState
<1> QED
  BY <1>1, <1>2, RowStep DEF RowChange

\* Once succeeded or failed, a row keeps every column, for ever.
THEOREM TerminalRowsAreFinal == Spec => TerminalIsFinal
<1>1. Shape /\ Requests /\ [Next]_vars
      => [\A t \in Tasks : row[t].state \in Terminal => row'[t] = row[t]]_vars
  BY TerminalStep DEF Untouched
<1> QED
  BY <1>1, ShapeInit, ShapeStep, RequestsInit, RequestsStep, PTL DEF Spec, TerminalIsFinal

-----------------------------------------------------------------------------
(* What one step does to one process *)

Received(w) ==
    /\ worker[w].pc = "idle"
    /\ \E m \in broker : \E l \in FreshLeases :
          worker'[w] = [pc |-> "claim", token |-> m.token, retries |-> m.retries, lease |-> l,
                        now |-> clock, deadline |-> clock + WORKER_LEASE_DURATION]
    /\ \A v \in Workers : v # w => worker'[v] = worker[v]

SameMessage(w) ==
    /\ worker[w].pc # "idle"
    /\ worker'[w].token = worker[w].token
    /\ worker'[w].retries = worker[w].retries
    /\ worker'[w].lease = worker[w].lease
    /\ worker'[w].now = worker[w].now
    /\ worker'[w].deadline = worker[w].deadline
    /\ \A v \in Workers : v # w => worker'[v] = worker[v]

Moves(w) ==
    \/ worker'[w].pc \in {"select", "advance", "recover", "invalidate", "ack"}
    \/ worker'[w].pc = "ingest" /\ (ClaimQueued(w) \/ AdvanceAttempt(w) \/ RecoverAttempt(w))
    \/ worker'[w].pc = "upserted" /\ Upsert(w)
    \/ worker'[w].pc = "succeed" /\ HandlerReturns(w)
    \/ worker'[w].pc \in {"retry", "fail"} /\ (HandlerTimesOut(w) \/ HandlerFails(w))
    \/ worker'[w].pc = "republish" /\ FinishRetry(w)

WorkerChange(w) ==
    \/ worker'[w] = worker[w]
    \/ worker'[w] = Idle
    \/ Received(w)
    \/ SameMessage(w) /\ Moves(w)

LEMMA GotoChange ==
  ASSUME Shape, NEW w \in Workers, NEW pc, worker[w].pc # "idle", Goto(w, pc)
  PROVE  SameMessage(w) /\ worker'[w].pc = pc
BY DEF Shape, TypeOK, Worker, Goto, SameMessage

LEMMA ProcessStep ==
  ASSUME Shape, [Next]_vars, NEW v \in Workers
  PROVE  WorkerChange(v)
<1> USE DEF Shape, TypeOK
<1>1. CASE UNCHANGED worker
  BY <1>1 DEF WorkerChange
<1>2. ASSUME NEW w \in Workers, NEW m \in broker, Deliver(w, m) PROVE WorkerChange(v)
  BY <1>2 DEF Deliver, WorkerChange, Received
<1>3. ASSUME NEW w \in Workers, Claim(w) PROVE WorkerChange(v)
  <2>1. ASSUME SameMessage(w), Moves(w) PROVE WorkerChange(v)
    BY <2>1 DEF WorkerChange, SameMessage
  <2>2. SameMessage(w) /\ Moves(w)
    BY <1>3, GotoChange DEF Claim, ClaimQueued, ClaimMisses, SelectClaimed, AdvanceAttempt,
         AdvanceMisses, RecoverAttempt, RecoverMisses, TakeLease, Moves
  <2> QED
    BY <2>1, <2>2
<1>4. ASSUME NEW w \in Workers, Handle(w) PROVE WorkerChange(v)
  <2>1. ASSUME SameMessage(w), Moves(w) PROVE WorkerChange(v)
    BY <2>1 DEF WorkerChange, SameMessage
  <2>2. SameMessage(w) /\ Moves(w)
    BY <1>4, GotoChange DEF Handle, Upsert, HandlerReturns, HandlerTimesOut, HandlerFails,
         Handling, Moves
  <2> QED
    BY <2>1, <2>2
<1>5. ASSUME NEW w \in Workers, End(w) PROVE WorkerChange(v)
  <2>1. ASSUME SameMessage(w), Moves(w) PROVE WorkerChange(v)
    BY <2>1 DEF WorkerChange, SameMessage
  <2>2. CASE Ack(w)
    BY <2>2 DEF Ack, WorkerChange
  <2>3. CASE ~Ack(w)
    <3>1. SameMessage(w) /\ Moves(w)
      BY <1>5, <2>3, GotoChange DEF End, FinishSucceeded, FinishFailed, FinishRetry, ClaimLost,
           Republish, InvalidateCache, Finishing, Moves
    <3> QED
      BY <2>1, <3>1
  <2> QED
    BY <2>2, <2>3
<1>6. ASSUME NEW w \in Workers, FaultStep(w) PROVE WorkerChange(v)
  <2>1. CASE ChildLost(w) \/ WorkerLost(w) \/ Duplicate(w)
    BY <2>1 DEF ChildLost, WorkerLost, Duplicate, WorkerChange
  <2>2. CASE DatabaseFails(w) \/ RepublishFails(w) \/ InvalidationFails(w)
    <3>1. SameMessage(w) /\ Moves(w)
      BY <2>2, GotoChange DEF DatabaseFails, RepublishFails, InvalidationFails, Claiming,
           Finishing, Moves
    <3> QED
      BY <3>1 DEF WorkerChange, SameMessage
  <2> QED
    BY <1>6, <2>1, <2>2 DEF FaultStep
<1> QED
  BY <1>1, <1>2, <1>3, <1>4, <1>5, <1>6
     DEF Next, vars, Publish, DeliverSome, WorkerStep, OperatorStep, OperatorReads,
         OperatorWrites, OperatorConflicts, Tick

-----------------------------------------------------------------------------
(* The retry budget *)

\* An attempt beyond the first is in a message or a process only after the row
\* counted it.
Scheduled ==
    /\ \A m \in broker : m.retries <= row[TaskOf[m.token]].retry
    /\ \A w \in Workers : worker[w].pc # "idle"
                          => worker[w].retries <= row[TaskOfWorker(w)].retry
    /\ \A w \in Workers : worker[w].pc = "republish"
                          => worker[w].retries + 1 <= row[TaskOfWorker(w)].retry

\* Nothing has been written to a queued row.
Untried ==
    \A t \in Tasks : row[t].state = "queued"
                     => row[t].retry = 0 /\ row[t].attempt = -1 /\ row[t].token = NoToken

Budget == Scheduled /\ Untried /\ RetryBudget

LEMMA RetryGrows ==
  ASSUME Shape, [Next]_vars, NEW t \in Tasks
  PROVE  row[t].retry <= row'[t].retry
<1>1. row[t].retry \in Nat /\ \A w \in Workers : worker[w].retries \in Nat
  BY DEF Shape, TypeOK, Row, Worker
<1> QED
  BY <1>1, RowStep DEF RowChange, Untouched, WorkerWrites, Opened, TakenOver, Concluded,
     Rescheduled, Ended, Moved, Larger

LEMMA BudgetInit == Init => Budget
BY ConstantsOK DEF Init, Budget, Scheduled, Untried, RetryBudget, NewRow, Idle

LEMMA ScheduledStep ==
  ASSUME Shape, Shape', Budget, [Next]_vars
  PROVE  Scheduled'
<1> USE ConstantsOK
<1>a. \A t \in Tasks : /\ row[t].retry <= row'[t].retry
                       /\ row[t].retry \in Nat /\ row'[t].retry \in Nat
  BY RetryGrows DEF Shape, TypeOK, Row
<1>b. /\ \A w \in Workers : worker[w].retries \in Nat /\ worker'[w].retries \in Nat
      /\ \A m \in broker : m.retries \in Nat /\ m.token \in Tokens /\ TaskOf[m.token] \in Tasks
      /\ \A m \in broker' : m.retries \in Nat /\ m.token \in Tokens /\ TaskOf[m.token] \in Tasks
  BY DEF Shape, TypeOK, Worker, Message
<1>c. \A w \in Workers : worker[w].pc # "idle" => TaskOfWorker(w) \in Tasks
  BY DEF Shape, Busy, TaskOfWorker
<1>1. ASSUME NEW w \in Workers, worker'[w].pc # "idle"
      PROVE  worker'[w].retries <= row'[TaskOfWorker(w)'].retry
  <2>1. CASE worker'[w] = worker[w]
    BY <1>1, <1>a, <1>b, <1>c, <2>1 DEF Budget, Scheduled, TaskOfWorker
  <2>2. CASE SameMessage(w)
    BY <1>1, <1>a, <1>b, <1>c, <2>2 DEF Budget, Scheduled, TaskOfWorker, SameMessage
  <2>3. CASE Received(w)
    <3>1. PICK m \in broker : worker'[w].token = m.token /\ worker'[w].retries = m.retries
      BY <2>3 DEF Received
    <3> QED
      BY <1>a, <1>b, <3>1 DEF Budget, Scheduled, TaskOfWorker
  <2> QED
    BY <1>1, <2>1, <2>2, <2>3, ProcessStep DEF WorkerChange, Idle
<1>2. ASSUME NEW w \in Workers, worker'[w].pc = "republish"
      PROVE  worker'[w].retries + 1 <= row'[TaskOfWorker(w)'].retry
  <2>1. CASE worker'[w] = worker[w]
    BY <1>2, <1>a, <1>b, <1>c, <2>1 DEF Budget, Scheduled, TaskOfWorker
  <2>2. CASE SameMessage(w) /\ FinishRetry(w)
    <3>1. TaskOfWorker(w)' = TaskOfWorker(w) /\ TaskOfWorker(w) \in Tasks
      BY <1>c, <2>2 DEF SameMessage, TaskOfWorker
    <3>2. row'[TaskOfWorker(w)].retry
            = Larger(row[TaskOfWorker(w)].retry, worker[w].retries + 1)
      BY <2>2, <3>1 DEF FinishRetry, Finish, Shape, TypeOK, Row
    <3> QED
      BY <1>a, <1>b, <2>2, <3>1, <3>2 DEF SameMessage, Larger
  <2>3. \/ worker'[w] = worker[w]
        \/ SameMessage(w) /\ FinishRetry(w)
    <3>1. WorkerChange(w)
      BY ProcessStep
    <3>3. worker'[w] # Idle
      BY <1>2 DEF Idle
    <3>4. ASSUME Received(w) PROVE FALSE
      BY <1>2, <3>4 DEF Received
    <3>2. ASSUME SameMessage(w), Moves(w) PROVE FinishRetry(w)
      BY <1>2, <3>2 DEF Moves
    <3> QED
      BY <3>1, <3>2, <3>3, <3>4 DEF WorkerChange
  <2> QED
    BY <2>1, <2>2, <2>3
<1>3. ASSUME NEW m \in broker' PROVE m.retries <= row'[TaskOf[m.token]].retry
  <2>1. CASE m \in broker
    BY <1>a, <1>b, <2>1 DEF Budget, Scheduled
  <2>2. CASE \E k \in Tokens : Publish(k)
    BY <1>a, <1>b, <1>3, <2>1, <2>2 DEF Publish
  <2>3. CASE \E w \in Workers : ChildLost(w) \/ WorkerLost(w) \/ Duplicate(w)
    BY <1>a, <1>b, <1>c, <1>3, <2>1, <2>3
       DEF ChildLost, WorkerLost, Duplicate, Unacked, Budget, Scheduled, TaskOfWorker
  <2>4. CASE \E w \in Workers : Republish(w)
    BY <1>a, <1>b, <1>c, <1>3, <2>1, <2>4 DEF Republish, Budget, Scheduled, TaskOfWorker
  <2> QED
    BY <1>3, <2>1, <2>2, <2>3, <2>4
       DEF Next, vars, DeliverSome, Deliver, WorkerStep, Claim, ClaimQueued, ClaimMisses,
         SelectClaimed, AdvanceAttempt, AdvanceMisses, RecoverAttempt, RecoverMisses, Handle,
         Upsert, HandlerReturns, HandlerTimesOut, HandlerFails, End, FinishSucceeded,
         FinishFailed, FinishRetry, ClaimLost, InvalidateCache, Ack,
         FaultStep, DatabaseFails, RepublishFails, InvalidationFails, OperatorStep,
         OperatorReads, OperatorWrites, OperatorConflicts, Tick
<1> QED
  BY <1>1, <1>2, <1>3 DEF Scheduled

\* A row and its retry counter, after any step.
LEMMA BudgetStep ==
  ASSUME Shape, Shape', Requests, Budget, [Next]_vars
  PROVE  Budget'
<1> USE DEF Budget
<1>1. ASSUME NEW t \in Tasks
      PROVE  /\ row'[t].state = "queued"
                => row'[t].retry = 0 /\ row'[t].attempt = -1 /\ row'[t].token = NoToken
             /\ row'[t].attempt <= row'[t].retry
             /\ row'[t].retry <= row'[t].attempt + 1
             /\ row'[t].retry <= MAX_INGESTION_RETRIES
  <2> DEFINE Good ==
               /\ row'[t].state = "queued"
                  => row'[t].retry = 0 /\ row'[t].attempt = -1 /\ row'[t].token = NoToken
               /\ row'[t].attempt <= row'[t].retry
               /\ row'[t].retry <= row'[t].attempt + 1
               /\ row'[t].retry <= MAX_INGESTION_RETRIES
  <2>1. /\ row[t].retry \in Nat /\ row[t].attempt \in Nat \cup {-1}
        /\ row[t].attempt <= row[t].retry
        /\ row[t].retry <= row[t].attempt + 1
        /\ row[t].retry <= MAX_INGESTION_RETRIES
        /\ row[t].state = "queued" => row[t].retry = 0 /\ row[t].attempt = -1 /\ row[t].token = NoToken
    BY DEF Shape, TypeOK, Row, Untried, RetryBudget
  <2>2. CASE Untouched(t)
    BY <2>1, <2>2 DEF Untouched
  <2>3. ASSUME NEW w \in Workers, worker[w].pc # "idle", TaskOfWorker(w) = t, WorkerWrites(w, t)
        PROVE  Good
    <3>1. /\ worker[w].retries \in Nat /\ MAX_INGESTION_RETRIES \in Nat
          /\ worker[w].retries <= row[t].retry
          /\ worker[w].pc = "retry" => worker[w].retries < MAX_INGESTION_RETRIES
      BY <2>3, ConstantsOK DEF WorkerWrites, Shape, TypeOK, Worker, Retriable, Scheduled
    <3>2. CASE Opened(w, t)
      BY <2>1, <3>1, <3>2 DEF Opened
    <3>3. CASE TakenOver(w, t)
      BY <2>1, <2>3, <3>1, <3>3 DEF TakenOver, MayAdvance, MayRecover
    <3>4. CASE Concluded(w, t)
      BY <2>1, <2>3, <3>1, <3>4 DEF Concluded, Ended, OwnsAttempt, Larger
    <3>5. CASE Rescheduled(w, t)
      BY <2>1, <2>3, <3>1, <3>5 DEF Rescheduled, Ended, OwnsAttempt, Larger
    <3> QED
      BY <2>3, <3>2, <3>3, <3>4, <3>5 DEF WorkerWrites
  <2>4. ASSUME NEW o \in Operators, Moved(o, t) PROVE Good
    <3>1. row[t].state \in TaskState /\ row'[t].state \in ALLOWED_TRANSITIONS[row[t].state]
      BY <2>4 DEF Moved, Requests, Shape, TypeOK, Row
    <3>2. row'[t].state # "queued"
      BY <3>1 DEF ALLOWED_TRANSITIONS, TaskState
    <3> QED
      BY <2>1, <2>4, <3>2 DEF Moved
  <2> QED
    BY <2>2, <2>3, <2>4, RowStep DEF RowChange
<1>2. Untried' /\ RetryBudget'
  BY <1>1 DEF Untried, RetryBudget
<1> QED
  BY <1>2, ScheduledStep

\* No attempt beyond the retry budget is ever scheduled or run.
THEOREM RetryBudgetHolds == Spec => []RetryBudget
<1>1. Budget => RetryBudget
  BY DEF Budget
<1> QED
  BY <1>1, ShapeInit, ShapeStep, RequestsInit, RequestsStep, BudgetInit, BudgetStep, PTL DEF Spec

-----------------------------------------------------------------------------
(* Exclusion by leases *)

\* A process names its own lease, measured from the one clock reading it took.
Dated ==
    \A w \in Workers : worker[w].pc # "idle"
                       => /\ worker[w].lease \in Leases
                          /\ worker[w].now <= clock
                          /\ worker[w].deadline = worker[w].now + WORKER_LEASE_DURATION

Distinct ==
    \A v, w \in Workers :
        v # w /\ worker[v].pc # "idle" /\ worker[w].pc # "idle"
        => worker[v].lease # worker[w].lease

\* The row still names the lease of a process that executes, or somebody
\* could take it over only because that lease had run out.
Holds(w) ==
    LET r == row[TaskOfWorker(w)] IN
    /\ r.state # "queued"
    /\ \/ worker[w].deadline <= clock
       \/ r.lease = worker[w].lease /\ (r.state = "running" => r.expires = worker[w].deadline)

Leased == Dated /\ Distinct /\ \A w \in Workers : worker[w].pc \in Executing => Holds(w)

LEMMA ClockGrows ==
  ASSUME Shape, [Next]_vars
  PROVE  clock <= clock' /\ clock \in Nat /\ clock' \in Nat
<1>1. clock' = clock \/ Tick
  BY DEF Next, vars, Publish, DeliverSome, Deliver, WorkerStep, Claim, ClaimQueued,
    ClaimMisses, SelectClaimed, AdvanceAttempt, AdvanceMisses, RecoverAttempt, RecoverMisses,
    Handle, Upsert, HandlerReturns, HandlerTimesOut, HandlerFails, End, FinishSucceeded,
    FinishFailed, FinishRetry, ClaimLost, Republish, InvalidateCache, Ack, FaultStep, ChildLost,
    WorkerLost, Duplicate, DatabaseFails, RepublishFails, InvalidationFails, OperatorStep,
    OperatorReads, OperatorWrites, OperatorConflicts
<1> QED
  BY <1>1 DEF Tick, Shape, TypeOK

LEMMA LeasedInit == Init => Leased
BY DEF Init, Leased, Dated, Distinct, Idle, Executing, Handling, Finishing

LEMMA DatedStep == ASSUME Shape, Dated, [Next]_vars PROVE Dated'
<1> SUFFICES ASSUME NEW w \in Workers, worker'[w].pc # "idle"
             PROVE  /\ worker'[w].lease \in Leases
                    /\ worker'[w].now <= clock'
                    /\ worker'[w].deadline = worker'[w].now + WORKER_LEASE_DURATION
  BY DEF Dated
<1>1. clock \in Nat /\ clock' \in Nat /\ clock <= clock' /\ worker[w].now \in Nat
  BY ClockGrows DEF Shape, TypeOK, Worker
<1>2. CASE worker'[w] = worker[w]
  BY <1>1, <1>2 DEF Dated
<1>3. CASE SameMessage(w)
  BY <1>1, <1>3 DEF Dated, SameMessage
<1>4. CASE Received(w)
  BY <1>1, <1>4 DEF Received, FreshLeases
<1> QED
  BY <1>2, <1>3, <1>4, ProcessStep DEF WorkerChange, Idle

LEMMA DistinctStep == ASSUME Shape, Distinct, [Next]_vars PROVE Distinct'
<1> SUFFICES ASSUME NEW v \in Workers, NEW w \in Workers, v # w,
                    worker'[v].pc # "idle", worker'[w].pc # "idle"
             PROVE  worker'[v].lease # worker'[w].lease
  BY DEF Distinct
<1>1. ASSUME NEW u \in Workers, NEW x \in Workers, u # x, Received(u)
      PROVE  worker'[u].lease # worker'[x].lease
  BY <1>1 DEF Received, FreshLeases
<1>2. ASSUME NEW u \in Workers, worker'[u].pc # "idle", ~Received(u)
      PROVE  worker[u].pc # "idle" /\ worker'[u].lease = worker[u].lease
  BY <1>2, ProcessStep DEF WorkerChange, SameMessage, Idle
<1> QED
  BY <1>1, <1>2 DEF Distinct

\* A step of anybody else leaves the holder its row, or finds its lease over.
LEMMA HoldsOn ==
  ASSUME Shape, Requests, Leased, [Next]_vars, NEW w \in Workers, worker[w].pc \in Executing,
         worker'[w] = worker[w]
  PROVE  Holds(w)'
<1> DEFINE t == TaskOfWorker(w)
<1>1. /\ worker[w].pc # "idle" /\ t \in Tasks /\ TaskOfWorker(w)' = t
      /\ row[t] \in Row
  BY ConstantsOK DEF Executing, Handling, Finishing, Shape, TypeOK, Busy, TaskOfWorker
<1>2. Holds(w) /\ worker'[w].deadline = worker[w].deadline /\ worker'[w].lease = worker[w].lease
  BY DEF Leased
<1>3. clock \in Nat /\ clock' \in Nat /\ clock <= clock' /\ worker[w].deadline \in Nat
  BY ClockGrows DEF Shape, TypeOK, Worker
<1>4. SUFFICES /\ row'[t].state # "queued"
               /\ \/ worker[w].deadline <= clock
                  \/ /\ row'[t].lease = worker[w].lease
                     /\ row'[t].state = "running" => row'[t].expires = worker[w].deadline
  BY <1>1, <1>2, <1>3 DEF Holds
<1>5. CASE Untouched(t)
  BY <1>2, <1>5 DEF Holds, Untouched
<1>6. ASSUME NEW v \in Workers, worker[v].pc # "idle", TaskOfWorker(v) = t, TakenOver(v, t)
      PROVE  worker[w].deadline <= clock /\ row'[t].state # "queued"
  <2>1. row[t].state = "running" /\ row[t].expires <= worker[v].now /\ worker[v].now <= clock
    <3>1. row[t].expires \in Int /\ worker[v].now \in Nat
      BY <1>1 DEF Shape, TypeOK, Row, Worker, NoTime
    <3> QED
      BY <1>6, <3>1 DEF TakenOver, MayAdvance, MayRecover, Leased, Dated
  <2>2. row[t].expires \in Int /\ worker[v].now \in Nat
    BY <1>1 DEF Shape, TypeOK, Row, Worker, NoTime
  <2> QED
    BY <1>2, <1>3, <1>6, <2>1, <2>2 DEF Holds, TakenOver
<1>7. ASSUME NEW v \in Workers, worker[v].pc # "idle", TaskOfWorker(v) = t,
             NEW pc, NEW s \in {"running", "succeeded", "failed"}, NEW a, NEW n, NEW e,
             Ended(v, t, pc, s, a, n, e)
      PROVE  worker[w].deadline <= clock /\ row'[t].state # "queued"
  <2>1. v # w
    BY <1>7 DEF Ended
  <2>2. row[t].lease # worker[w].lease
    BY <1>1, <1>7, <2>1 DEF Ended, OwnsAttempt, Leased, Distinct
  <2> QED
    BY <1>2, <1>7, <2>2 DEF Holds, Ended
<1>8. ASSUME NEW o \in Operators, Moved(o, t) PROVE row'[t].state \in Terminal /\ row'[t].lease = row[t].lease
  <2>1. row[t].state \in TaskState \ {"queued"} /\ row'[t].state \in ALLOWED_TRANSITIONS[row[t].state]
    BY <1>1, <1>2, <1>8 DEF Holds, Moved, Requests, Row
  <2> QED
    BY <1>8, <2>1 DEF ALLOWED_TRANSITIONS, TaskState, Terminal, Moved
<1>9. ASSUME NEW v \in Workers, Opened(v, t) PROVE FALSE
  BY <1>2, <1>9 DEF Holds, Opened
<1>10. ASSUME NEW v \in Workers, worker[v].pc # "idle", TaskOfWorker(v) = t, WorkerWrites(v, t)
       PROVE  worker[w].deadline <= clock /\ row'[t].state # "queued"
  <2>1. CASE Concluded(v, t)
    BY <1>7, <1>10, <2>1 DEF Concluded
  <2>2. CASE Rescheduled(v, t)
    BY <1>7, <1>10, <2>2 DEF Rescheduled
  <2> QED
    BY <1>6, <1>9, <1>10, <2>1, <2>2 DEF WorkerWrites
<1>11. ASSUME NEW o \in Operators, Moved(o, t)
       PROVE  /\ row'[t].state \notin {"queued", "running"}
              /\ worker[w].deadline <= clock \/ row'[t].lease = worker[w].lease
  BY <1>2, <1>8, <1>11 DEF Holds, Terminal
<1>12. RowChange(t)
  BY <1>1, RowStep
<1> HIDE DEF t
<1> QED
  BY <1>5, <1>10, <1>11, <1>12 DEF RowChange

LEMMA LeasedStep == ASSUME Shape, Requests, Leased, [Next]_vars PROVE Leased'
<1>1. Dated' /\ Distinct'
  BY DatedStep, DistinctStep DEF Leased
<1>2. ASSUME NEW w \in Workers, worker'[w].pc \in Executing PROVE Holds(w)'
  <2>1. CASE worker'[w] = worker[w]
    BY <1>2, <2>1, HoldsOn
  <2>2. CASE SameMessage(w) /\ (ClaimQueued(w) \/ AdvanceAttempt(w) \/ RecoverAttempt(w))
    <3>1. /\ TaskOfWorker(w) \in Tasks /\ TaskOfWorker(w)' = TaskOfWorker(w)
          /\ worker[w].pc # "idle"
      BY <2>2, ConstantsOK DEF SameMessage, Shape, Busy, TaskOfWorker
    <3>2. /\ row'[TaskOfWorker(w)].state = "running"
          /\ row'[TaskOfWorker(w)].lease = worker[w].lease
          /\ row'[TaskOfWorker(w)].expires = worker[w].deadline
      <4>1. row \in [Tasks -> Row]
        BY DEF Shape, TypeOK
      <4>2. CASE ClaimQueued(w)
        BY <3>1, <4>1, <4>2 DEF ClaimQueued, Row
      <4>3. CASE AdvanceAttempt(w) \/ RecoverAttempt(w)
        <5>1. TakeLease(w) /\ row[TaskOfWorker(w)].state = "running"
          BY <4>3 DEF AdvanceAttempt, RecoverAttempt, MayAdvance, MayRecover, StillClaimed
        <5> QED
          BY <3>1, <4>1, <5>1 DEF TakeLease, Row
      <4> QED
        BY <2>2, <4>2, <4>3
    <3> QED
      BY <2>2, <3>1, <3>2 DEF SameMessage, Holds
  <2>3. CASE SameMessage(w) /\ Handle(w)
    <3>1. /\ worker[w].pc \in Executing /\ UNCHANGED <<row, clock>>
          /\ TaskOfWorker(w)' = TaskOfWorker(w)
      BY <2>3 DEF SameMessage, Handle, Upsert, HandlerReturns, HandlerTimesOut, HandlerFails,
         Executing, Handling, TaskOfWorker
    <3> QED
      BY <2>3, <3>1 DEF SameMessage, Leased, Holds
  <2>4. CASE Received(w)
    BY <1>2, <2>4 DEF Received, Executing, Handling, Finishing
  <2>5. SameMessage(w) /\ Moves(w)
        => Handle(w) \/ ClaimQueued(w) \/ AdvanceAttempt(w) \/ RecoverAttempt(w)
    BY <1>2 DEF Moves, Handle, Executing, Handling, Finishing
  <2> QED
    BY <1>2, <2>1, <2>2, <2>3, <2>4, <2>5, ProcessStep
       DEF WorkerChange, Idle, Executing, Handling, Finishing
<1> QED
  BY <1>1, <1>2 DEF Leased

\* Two processes execute one task only if the lease of one of them has run out.
THEOREM LeasesExclude == Spec => []LeaseExclusion
<1>1. Shape /\ Leased => LeaseExclusion
  BY DEF Leased, Holds, Distinct, LeaseExclusion, Executing, Handling, Finishing
<1> QED
  BY <1>1, ShapeInit, ShapeStep, RequestsInit, RequestsStep, LeasedInit, LeasedStep, PTL DEF Spec

-----------------------------------------------------------------------------
(* The audit trail *)

Told(t) ==
    LET n == audit[t]
        opened == n["task.started"]
        ended == n["task.succeeded"] + n["task.failed"]
        moved == n["task.transitioned"]
    IN  /\ row[t].state = "queued" => opened + ended + moved = 0
        /\ row[t].state = "running" => opened + moved = 1 /\ ended = 0
        /\ row[t].state \in Terminal => opened + ended + moved \in {1, 2}
        /\ n["task.succeeded"] > 0 => row[t].state = "succeeded" /\ opened = 1
        /\ n["task.failed"] > 0 => row[t].state = "failed" /\ opened = 1
        /\ row[t].retry <= n["task.retry_scheduled"]
        /\ n["task.retry_scheduled"] > 0 => opened = 1
        /\ row[t].token # NoToken => opened = 1

\* Only a recorded start gives a row its Celery id, so whoever ends an attempt
\* finds its start recorded.
Trail == \A t \in Tasks : Told(t)

LEMMA TrailInit == Init => Trail
<1> SUFFICES ASSUME Init, NEW t \in Tasks PROVE Told(t)
  BY DEF Trail
<1>1. /\ row[t].state = "queued" /\ row[t].retry = 0 /\ row[t].token = NoToken
      /\ audit[t]["task.started"] = 0 /\ audit[t]["task.succeeded"] = 0
      /\ audit[t]["task.failed"] = 0 /\ audit[t]["task.transitioned"] = 0
      /\ audit[t]["task.retry_scheduled"] = 0
  BY DEF Init, NewRow, Actions
<1> QED
  BY <1>1 DEF Told, Terminal

LEMMA TrailStep ==
  ASSUME Shape, Requests, Budget, Trail, [Next]_vars
  PROVE  Trail'
<1> SUFFICES ASSUME NEW t \in Tasks PROVE Told(t)'
  BY DEF Trail
<1>1. Told(t) /\ row[t].state \in TaskState
  BY DEF Trail, Shape, TypeOK, Row
<1>2. /\ row[t].retry \in Nat
      /\ audit[t] \in [Actions -> Nat]
      /\ audit[t]["task.started"] \in Nat /\ audit[t]["task.succeeded"] \in Nat
      /\ audit[t]["task.failed"] \in Nat /\ audit[t]["task.transitioned"] \in Nat
      /\ audit[t]["task.retry_scheduled"] \in Nat
  BY DEF Shape, TypeOK, Row, Actions
<1>b. ASSUME row[t].state = "queued"
      PROVE  /\ audit[t]["task.started"] = 0 /\ audit[t]["task.succeeded"] = 0
             /\ audit[t]["task.failed"] = 0 /\ audit[t]["task.transitioned"] = 0
             /\ audit[t]["task.retry_scheduled"] = 0
  <2> DEFINE a == audit[t]["task.started"]
             b == audit[t]["task.succeeded"]
             c == audit[t]["task.failed"]
             d == audit[t]["task.transitioned"]
             e == audit[t]["task.retry_scheduled"]
  <2>1. a + (b + c) + d = 0
    BY <1>1, <1>b DEF Told
  <2>2. e > 0 => a = 1
    BY <1>1 DEF Told
  <2>3. a \in Nat /\ b \in Nat /\ c \in Nat /\ d \in Nat /\ e \in Nat
    BY <1>2
  <2> HIDE DEF a, b, c, d, e
  <2>4. a = 0 /\ b = 0 /\ c = 0 /\ d = 0 /\ e = 0
    BY <2>1, <2>2, <2>3
  <2> QED
    BY <2>4 DEF a, b, c, d, e
<1>3. CASE Untouched(t)
  BY <1>1, <1>3 DEF Untouched, Told
<1>4. ASSUME NEW a \in Actions, Logged(t, a)
      PROVE  \A b \in Actions : audit'[t][b] = IF b = a THEN audit[t][b] + 1 ELSE audit[t][b]
  BY <1>2, <1>4 DEF Logged
<1>5. ASSUME NEW w \in Workers, worker[w].pc # "idle", TaskOfWorker(w) = t, WorkerWrites(w, t)
      PROVE  Told(t)'
  <2>1. /\ worker[w].retries \in Nat /\ worker[w].retries <= row[t].retry
        /\ worker[w].token # NoToken
        /\ row[t].state = "queued" => row[t].token = NoToken
    BY <1>5, ConstantsOK DEF Shape, TypeOK, Worker, Busy, Budget, Scheduled, Untried
  <2>2. CASE Opened(w, t)
    <3>1. /\ audit[t]["task.started"] = 0 /\ audit[t]["task.succeeded"] = 0
          /\ audit[t]["task.failed"] = 0 /\ audit[t]["task.transitioned"] = 0
          /\ audit[t]["task.retry_scheduled"] = 0
      BY <1>b, <2>2 DEF Opened
    <3>2. /\ audit'[t]["task.started"] = 1 /\ audit'[t]["task.succeeded"] = 0
          /\ audit'[t]["task.failed"] = 0 /\ audit'[t]["task.transitioned"] = 0
          /\ audit'[t]["task.retry_scheduled"] = 0
      BY <1>2, <2>2, <3>1 DEF Opened, Logged, Actions
    <3> QED
      BY <1>1, <2>2, <3>1, <3>2 DEF Opened, Told, Terminal
  <2>3. CASE TakenOver(w, t)
    BY <1>1, <1>2, <2>3 DEF TakenOver, Told, Terminal
  <2>4. ASSUME NEW pc, NEW s \in {"running", "succeeded", "failed"}, NEW a, NEW n, NEW e,
               Ended(w, t, pc, s, a, n, e)
        PROVE  /\ audit[t]["task.started"] = 1 /\ audit[t]["task.transitioned"] = 0
               /\ audit[t]["task.succeeded"] = 0 /\ audit[t]["task.failed"] = 0
    <3>1. row[t].state = "running" /\ row[t].token # NoToken
      BY <1>5, <2>1, <2>4 DEF Ended, OwnsAttempt
    <3> QED
      BY SMTT(20), <1>1, <1>2, <3>1 DEF Told
  <2>5. CASE Concluded(w, t)
    <3>1. /\ audit[t]["task.started"] = 1 /\ audit[t]["task.transitioned"] = 0
          /\ audit[t]["task.succeeded"] = 0 /\ audit[t]["task.failed"] = 0
      BY <2>4, <2>5 DEF Concluded
    <3>2. row'[t].retry = row[t].retry
      BY <1>2, <2>1, <2>5 DEF Concluded, Ended, Larger
    <3> QED
      BY <1>1, <1>2, <1>4, <2>5, <3>1, <3>2 DEF Concluded, Ended, Told, Actions, Terminal
  <2>6. CASE Rescheduled(w, t)
    <3>1. /\ audit[t]["task.started"] = 1 /\ audit[t]["task.transitioned"] = 0
          /\ audit[t]["task.succeeded"] = 0 /\ audit[t]["task.failed"] = 0
      BY <2>4, <2>6 DEF Rescheduled
    <3>2. row'[t].retry <= row[t].retry + 1
      BY <1>2, <2>1, <2>6 DEF Rescheduled, Ended, Larger
    <3>3. row'[t].retry \in Nat
      BY <1>2, <2>1, <2>6 DEF Rescheduled, Ended, Larger
    <3> QED
      BY <1>1, <1>2, <1>4, <2>6, <3>1, <3>2, <3>3 DEF Rescheduled, Ended, Told, Actions, Terminal
  <2> QED
    BY <1>5, <2>2, <2>3, <2>5, <2>6 DEF WorkerWrites
<1>6. ASSUME NEW o \in Operators, Moved(o, t) PROVE Told(t)'
  <2>1. row'[t].state \in ALLOWED_TRANSITIONS[row[t].state]
    BY <1>6 DEF Moved, Requests
  <2>2. \/ row[t].state = "queued" /\ row'[t].state \in {"running", "failed"}
        \/ row[t].state = "running" /\ row'[t].state \in {"succeeded", "failed"}
    BY <1>1, <2>1 DEF ALLOWED_TRANSITIONS, TaskState
  <2>3. /\ audit'[t]["task.started"] = audit[t]["task.started"]
        /\ audit'[t]["task.succeeded"] = audit[t]["task.succeeded"]
        /\ audit'[t]["task.failed"] = audit[t]["task.failed"]
        /\ audit'[t]["task.transitioned"] = audit[t]["task.transitioned"] + 1
        /\ audit'[t]["task.retry_scheduled"] = audit[t]["task.retry_scheduled"]
    BY <1>2, <1>6 DEF Moved, Logged, Actions
  <2>4. row'[t].token = row[t].token /\ row'[t].retry = row[t].retry
    BY <1>6 DEF Moved
  <2>5. audit[t]["task.succeeded"] = 0 /\ audit[t]["task.failed"] = 0
    BY <1>1, <1>2, <1>b, <2>2 DEF Told
  <2>6. CASE row[t].state = "queued"
    BY <1>1, <1>2, <1>b, <2>2, <2>3, <2>4, <2>5, <2>6 DEF Told, Terminal
  <2>7. CASE row[t].state = "running"
    BY <1>1, <1>2, <2>2, <2>3, <2>4, <2>5, <2>7 DEF Told, Terminal
  <2> QED
    BY <2>2, <2>6, <2>7
<1> QED
  BY <1>3, <1>5, <1>6, RowStep DEF RowChange

\* The audit events of a task tell its state.
THEOREM AuditTrailHolds == Spec => []AuditTrail
<1>1. Trail => AuditTrail
  BY DEF Trail, Told, AuditTrail
<1> QED
  BY <1>1, ShapeInit, ShapeStep, RequestsInit, RequestsStep, BudgetInit, BudgetStep,
     TrailInit, TrailStep, PTL DEF Spec

-----------------------------------------------------------------------------
(* Success means indexed *)

Upserted ==
    /\ \A w \in Workers : worker[w].pc \in {"upserted", "succeed"}
                          => TaskOfWorker(w) \in indexed
    /\ SuccessIsIndexed

LEMMA UpsertedInit == Init => Upserted
BY DEF Init, Upserted, SuccessIsIndexed, Idle, Actions

LEMMA IndexGrows == ASSUME [Next]_vars PROVE indexed \subseteq indexed'
BY DEF Next, vars, Publish, DeliverSome, Deliver, WorkerStep, Claim, ClaimQueued,
    ClaimMisses, SelectClaimed, AdvanceAttempt, AdvanceMisses, RecoverAttempt, RecoverMisses,
    Handle, Upsert, HandlerReturns, HandlerTimesOut, HandlerFails, End, FinishSucceeded,
    FinishFailed, FinishRetry, ClaimLost, Republish, InvalidateCache, Ack, FaultStep, ChildLost,
    WorkerLost, Duplicate, DatabaseFails, RepublishFails, InvalidationFails, OperatorStep,
    OperatorReads, OperatorWrites, OperatorConflicts, Tick

LEMMA UpsertedStep == ASSUME Shape, Upserted, [Next]_vars PROVE Upserted'
<1>1. ASSUME NEW w \in Workers, worker'[w].pc \in {"upserted", "succeed"}
      PROVE  TaskOfWorker(w)' \in indexed'
  <2>1. CASE worker'[w] = worker[w]
    BY <1>1, <2>1, IndexGrows DEF Upserted, TaskOfWorker
  <2>2. CASE SameMessage(w) /\ (Upsert(w) \/ HandlerReturns(w))
    BY <2>2, IndexGrows DEF SameMessage, Upsert, HandlerReturns, Upserted, TaskOfWorker
  <2>3. SameMessage(w) /\ Moves(w) => Upsert(w) \/ HandlerReturns(w)
    <3>1. CASE worker'[w].pc = "upserted"
      BY <3>1 DEF Moves
    <3>2. CASE worker'[w].pc = "succeed"
      BY <3>2 DEF Moves
    <3> QED
      BY <1>1, <3>1, <3>2
  <2>4. ASSUME Received(w) PROVE FALSE
    BY <1>1, <2>4 DEF Received
  <2>5. worker'[w] # Idle
    BY <1>1 DEF Idle
  <2> QED
    BY <2>1, <2>2, <2>3, <2>4, <2>5, ProcessStep DEF WorkerChange
<1>2. ASSUME NEW t \in Tasks, audit'[t]["task.succeeded"] > 0 PROVE t \in indexed'
  <2>1. audit[t] \in [Actions -> Nat]
    BY DEF Shape, TypeOK
  <2>2. CASE audit[t]["task.succeeded"] > 0
    BY <2>2, IndexGrows DEF Upserted, SuccessIsIndexed
  <2>3. CASE \E w \in Workers : TaskOfWorker(w) = t /\ worker[w].pc = "succeed"
    BY <2>3, IndexGrows DEF Upserted
  <2>4. audit'[t]["task.succeeded"] = audit[t]["task.succeeded"]
        \/ \E w \in Workers : TaskOfWorker(w) = t /\ worker[w].pc = "succeed"
    <3> DEFINE succeeded == "task.succeeded"
               Same == audit'[t][succeeded] = audit[t][succeeded]
    <3>1. ASSUME NEW a, a # succeeded, Logged(t, a) PROVE Same
      BY <2>1, <3>1 DEF Logged, Actions
    <3>2. ASSUME NEW w \in Workers, WorkerWrites(w, t)
          PROVE  Same \/ worker[w].pc = "succeed"
      <4>1. CASE Opened(w, t)
        BY <3>1, <4>1 DEF Opened
      <4>2. CASE TakenOver(w, t)
        BY <4>2 DEF TakenOver
      <4>3. CASE Concluded(w, t)
        BY <3>1, <4>3 DEF Concluded, Ended
      <4>4. CASE Rescheduled(w, t)
        BY <3>1, <4>4 DEF Rescheduled, Ended
      <4> QED
        BY <3>2, <4>1, <4>2, <4>3, <4>4 DEF WorkerWrites
    <3>3. ASSUME NEW o \in Operators, Moved(o, t) PROVE Same
      BY <3>1, <3>3 DEF Moved
    <3>4. CASE Untouched(t)
      BY <3>4 DEF Untouched
    <3>5. RowChange(t)
      BY RowStep
    <3> HIDE DEF Same
    <3>6. CASE \E w \in Workers : TaskOfWorker(w) = t /\ WorkerWrites(w, t)
      <4>1. PICK w \in Workers : TaskOfWorker(w) = t /\ WorkerWrites(w, t)
        BY <3>6
      <4> QED
        BY <3>2, <4>1 DEF Same
    <3>7. CASE \E o \in Operators : Moved(o, t)
      BY <3>3, <3>7 DEF Same
    <3> QED
      BY <3>4, <3>5, <3>6, <3>7 DEF RowChange, Same
  <2> QED
    BY <1>2, <2>2, <2>3, <2>4
<1> QED
  BY <1>1, <1>2 DEF Upserted, SuccessIsIndexed

\* A worker records success only for a task whose source is in the index.
THEOREM SuccessesAreIndexed == Spec => []SuccessIsIndexed
<1>1. Upserted => SuccessIsIndexed
  BY DEF Upserted
<1> QED
  BY <1>1, ShapeInit, ShapeStep, UpsertedInit, UpsertedStep, PTL DEF Spec

-----------------------------------------------------------------------------
(* No published task is forgotten *)

\* The columns r let the attempt n of Celery id k take the row over at time now.
Open(r, k, n, now) ==
    /\ r.token = k
    /\ r.expires # NoTime
    /\ \/ r.attempt = n /\ r.expires < now
       \/ r.attempt < n /\ r.retry = n /\ r.expires <= now

\* Who can carry a running task t: a message that will find the row open
\* whenever it is delivered, a process that runs the attempt of the row, one
\* that scheduled the next attempt and has yet to publish it, and one that is
\* on its way to the re-claiming UPDATE that admits it.
Waits(m, t) == TaskOf[m.token] = t /\ Open(row[t], m.token, m.retries, Larger(m.visible, clock))

Runs(w, t) ==
    /\ worker[w].pc \in Executing
    /\ TaskOfWorker(w) = t
    /\ OwnsAttempt(w)
    /\ row[t].expires = worker[w].deadline

Reschedules(w, t) ==
    /\ worker[w].pc = "republish"
    /\ TaskOfWorker(w) = t
    /\ row[t].token = worker[w].token
    /\ row[t].attempt = worker[w].retries
    /\ row[t].retry = worker[w].retries + 1
    /\ row[t].expires # NoTime
    /\ row[t].expires <= clock

Claims(w, t) ==
    /\ worker[w].pc \in Claiming
    /\ TaskOfWorker(w) = t
    /\ Open(row[t], worker[w].token, worker[w].retries, worker[w].now)
    /\ worker[w].pc = "recover" => row[t].attempt = worker[w].retries

Carries(w, t) == Runs(w, t) \/ Reschedules(w, t) \/ Claims(w, t)

Driven(t) == (\E m \in broker : Waits(m, t)) \/ (\E w \in Workers : Carries(w, t))

\* A queued task has a message, or a process about to claim it; a running one
\* that a worker claimed is driven; only an operator starts one otherwise.
Announced(t) ==
    \/ \E m \in broker : TaskOf[m.token] = t
    \/ \E w \in Workers : worker[w].pc = "claim" /\ TaskOfWorker(w) = t

Kept(t) ==
    /\ row[t].state = "queued" /\ (\E k \in published : TaskOf[k] = t) => Announced(t)
    /\ row[t].state = "running" /\ row[t].token # NoToken => Driven(t)
    /\ row[t].state = "running" /\ row[t].token = NoToken => audit[t]["task.transitioned"] > 0

AllKept == \A t \in Tasks : Kept(t)

LEMMA KeptInit == Init => AllKept
<1> SUFFICES ASSUME Init, NEW t \in Tasks PROVE Kept(t)
  BY DEF AllKept
<1>1. row[t].state = "queued" /\ published = {}
  BY DEF Init, NewRow
<1> QED
  BY <1>1 DEF Kept

\* A message stays with the broker until a process receives it.
LEMMA MessageStep ==
  ASSUME [Next]_vars, NEW m \in broker
  PROVE  m \in broker' \/ \E w \in Workers : Deliver(w, m)
BY DEF Next, vars, Publish, DeliverSome, Deliver, WorkerStep, Claim, ClaimQueued, ClaimMisses,
    SelectClaimed, AdvanceAttempt, AdvanceMisses, RecoverAttempt, RecoverMisses, Handle,
    Upsert, HandlerReturns, HandlerTimesOut, HandlerFails, End, FinishSucceeded, FinishFailed,
    FinishRetry, ClaimLost, Republish, InvalidateCache, Ack, FaultStep, ChildLost, WorkerLost,
    Duplicate, DatabaseFails, RepublishFails, InvalidationFails, OperatorStep, OperatorReads,
    OperatorWrites, OperatorConflicts, Tick

\* What a reliable deployment lets happen to a busy process.
LEMMA BusyStep ==
  ASSUME Shape, Reliable, [Next]_vars, NEW w \in Workers, worker[w].pc # "idle"
  PROVE  worker'[w] = worker[w] \/ WorkerStep(w) \/ WorkerLost(w) \/ InvalidationFails(w)
<1> USE DEF Shape, TypeOK
<1>1. CASE UNCHANGED worker
  BY <1>1
<1>2. ASSUME NEW v \in Workers, NEW m \in broker, Deliver(v, m) PROVE worker'[w] = worker[w]
  BY <1>2 DEF Deliver
<1>3. ASSUME NEW v \in Workers, v # w, WorkerStep(v) PROVE worker'[w] = worker[w]
  BY <1>3 DEF WorkerStep, Claim, ClaimQueued, ClaimMisses, SelectClaimed, AdvanceAttempt,
     AdvanceMisses, RecoverAttempt, RecoverMisses, TakeLease, Handle, Upsert, HandlerReturns,
     HandlerTimesOut, HandlerFails, End, FinishSucceeded, FinishFailed, FinishRetry, ClaimLost,
     Republish, InvalidateCache, Ack, Goto
<1>4. ASSUME NEW v \in Workers, v # w, FaultStep(v) PROVE worker'[w] = worker[w]
  BY <1>4 DEF FaultStep, ChildLost, WorkerLost, Duplicate, DatabaseFails, RepublishFails,
     InvalidationFails, Goto
<1>5. ASSUME FaultStep(w)
      PROVE  worker'[w] = worker[w] \/ WorkerLost(w) \/ InvalidationFails(w)
  BY <1>5 DEF FaultStep, ChildLost, Duplicate, DatabaseFails, RepublishFails, Reliable, Fault
<1> QED
  BY <1>1, <1>2, <1>3, <1>4, <1>5
     DEF Next, vars, Publish, DeliverSome, OperatorStep, OperatorReads, OperatorWrites,
         OperatorConflicts, Tick

\* Time only opens a row further.
LEMMA OpenLater ==
  ASSUME NEW r \in Row, NEW k, NEW n \in Nat, NEW now \in Nat, NEW later \in Nat, now <= later,
         Open(r, k, n, now)
  PROVE  Open(r, k, n, later)
BY DEF Open, Row, NoTime

\* A message taken by a process goes on in that process.
LEMMA DeliveredStep ==
  ASSUME Shape, NEW w \in Workers, NEW m \in broker, Deliver(w, m)
  PROVE  /\ worker'[w].pc = "claim" /\ worker'[w].token = m.token
         /\ worker'[w].retries = m.retries /\ worker'[w].now = clock
         /\ TaskOfWorker(w)' = TaskOf[m.token]
         /\ m.visible <= clock /\ row' = row
BY DEF Deliver, Shape, TypeOK, TaskOfWorker

\* The message of a process lost with its container returns after the lease.
LEMMA LostStep ==
  ASSUME NEW w \in Workers, WorkerLost(w)
  PROVE  /\ Unacked(w, clock + VISIBILITY_TIMEOUT) \in broker'
         /\ row' = row /\ clock' = clock
BY DEF WorkerLost

\* A queued row stays queued only if the step does not touch it.
LEMMA QueuedStep ==
  ASSUME Shape, Requests, [Next]_vars, NEW t \in Tasks, row'[t].state = "queued"
  PROVE  Untouched(t)
<1>1. ASSUME NEW o \in Operators, Moved(o, t) PROVE FALSE
  <2>1. row[t].state \in TaskState /\ row'[t].state \in ALLOWED_TRANSITIONS[row[t].state]
    BY <1>1 DEF Moved, Requests, Shape, TypeOK, Row
  <2> QED
    BY <2>1 DEF ALLOWED_TRANSITIONS, TaskState
<1>2. ASSUME NEW w \in Workers, WorkerWrites(w, t) PROVE FALSE
  BY <1>2 DEF WorkerWrites, Opened, TakenOver, Concluded, Rescheduled, Ended
<1> QED
  BY <1>1, <1>2, RowStep DEF RowChange

\* Messages announce a queued task until one is received and claims the row.
LEMMA AnnouncedStep ==
  ASSUME Shape, Requests, Reliable, [Next]_vars, NEW t \in Tasks,
         row'[t].state = "queued", Announced(t)
  PROVE  Announced(t)'
<1>1. row[t].state = "queued"
  BY QueuedStep DEF Untouched
<1>2. ASSUME NEW m \in broker, TaskOf[m.token] = t PROVE Announced(t)'
  <2>1. CASE m \in broker'
    BY <1>2, <2>1 DEF Announced
  <2>2. ASSUME NEW w \in Workers, Deliver(w, m) PROVE Announced(t)'
    BY <1>2, <2>2, DeliveredStep DEF Announced
  <2> QED
    BY <2>1, <2>2, MessageStep
<1>3. ASSUME NEW w \in Workers, worker[w].pc = "claim", TaskOfWorker(w) = t
      PROVE  Announced(t)'
  <2>1. CASE worker'[w] = worker[w]
    BY <1>3, <2>1 DEF Announced, TaskOfWorker
  <2>2. CASE WorkerLost(w)
    BY <1>3, <2>2, LostStep DEF Announced, Unacked, TaskOfWorker
  <2>3. ASSUME WorkerStep(w) PROVE FALSE
    <3>1. ClaimQueued(w)
      BY <1>1, <1>3, <2>3 DEF WorkerStep, Claim, ClaimMisses, SelectClaimed, AdvanceAttempt,
         AdvanceMisses, RecoverAttempt, RecoverMisses, Handle, Upsert, HandlerReturns,
         HandlerTimesOut, HandlerFails, Handling, End, FinishSucceeded, FinishFailed,
         FinishRetry, ClaimLost, Finishing, Republish, InvalidateCache, Ack
    <3>2. row'[t].state = "running"
      BY <1>3, <3>1 DEF ClaimQueued, Shape, TypeOK, Row
    <3> QED
      BY <3>2
  <2>4. ~InvalidationFails(w)
    BY <1>3 DEF InvalidationFails
  <2> QED
    BY <1>3, <2>1, <2>2, <2>3, <2>4, BusyStep
<1> QED
  BY <1>2, <1>3 DEF Announced

\* Re-claiming UPDATEs: a process that the row admits goes on to one that
\* finds the row, which it then runs.
LEMMA ClaimingStep ==
  ASSUME Shape, NEW w \in Workers, NEW t \in Tasks, row[t].state = "running",
         Claims(w, t), Claim(w)
  PROVE  Carries(w, t)'
<1>1. /\ worker[w].pc # "idle" /\ TaskOfWorker(w) = t /\ row[t] \in Row
      /\ worker[w].retries \in Nat /\ row[t].attempt \in Int /\ row[t].expires \in Int
      /\ worker[w].now \in Nat /\ worker[w].deadline \in Nat
  BY DEF Claims, Claiming, Shape, TypeOK, Row, Worker, NoTime
<1>2. CASE ClaimMisses(w) \/ SelectClaimed(w) \/ AdvanceMisses(w)
  <2>1. row' = row /\ SameMessage(w)
    BY <1>1, <1>2, GotoChange DEF ClaimMisses, SelectClaimed, AdvanceMisses
  <2>2. CASE ClaimMisses(w)
    <3>1. worker'[w].pc = "select"
      BY <1>1, <2>2, GotoChange DEF ClaimMisses
    <3> QED
      BY <1>1, <2>1, <3>1 DEF Carries, Claims, Claiming, SameMessage, TaskOfWorker
  <2>3. CASE SelectClaimed(w)
    <3>1. worker'[w].pc = "advance"
      BY <1>1, <2>3, GotoChange DEF SelectClaimed, Claims, Open
    <3> QED
      BY <1>1, <2>1, <3>1 DEF Carries, Claims, Claiming, SameMessage, TaskOfWorker
  <2>4. CASE AdvanceMisses(w)
    <3>1. worker'[w].pc = "recover"
      BY <1>1, <2>4, GotoChange DEF AdvanceMisses
    <3>2. row[t].attempt = worker[w].retries
      BY <1>1, <2>4 DEF AdvanceMisses, MayAdvance, StillClaimed, Claims, Open
    <3> QED
      BY <1>1, <2>1, <3>1, <3>2 DEF Carries, Claims, Claiming, SameMessage, TaskOfWorker
  <2> QED
    BY <1>2, <2>2, <2>3, <2>4
<1>3. CASE AdvanceAttempt(w) \/ RecoverAttempt(w)
  <2>1. TakeLease(w) /\ worker[w].token = row[t].token
    BY <1>1, <1>3 DEF AdvanceAttempt, RecoverAttempt, MayAdvance, MayRecover, StillClaimed
  <2>2. SameMessage(w) /\ worker'[w].pc = "ingest"
    BY <1>1, <2>1, GotoChange DEF TakeLease
  <2>3. /\ row'[t].state = "running" /\ row'[t].token = row[t].token
        /\ row'[t].attempt = worker[w].retries /\ row'[t].lease = worker[w].lease
        /\ row'[t].expires = worker[w].deadline
    BY <1>1, <2>1 DEF TakeLease, Shape, TypeOK, Row
  <2>4. Runs(w, t)'
    BY <1>1, <2>1, <2>2, <2>3 DEF Runs, OwnsAttempt, SameMessage, TaskOfWorker, Executing, Handling
  <2> QED
    BY <2>4 DEF Carries
<1>4. ~RecoverMisses(w)
  BY <1>1 DEF RecoverMisses, MayRecover, StillClaimed, Claims, Open
<1>5. ~ClaimQueued(w)
  BY <1>1 DEF ClaimQueued
<1> QED
  BY <1>2, <1>3, <1>4, <1>5 DEF Claim

\* A message for a row waits on, or reaches a process that claims.
LEMMA WaitingStep ==
  ASSUME Shape, Shape', [Next]_vars, NEW t \in Tasks, NEW m \in broker, Waits(m, t),
         row'[t] = row[t]
  PROVE  Driven(t)'
<1>1. /\ m \in Message /\ m.visible \in Nat /\ m.retries \in Nat /\ row[t] \in Row
      /\ clock \in Nat /\ clock' \in Nat /\ clock <= clock'
  BY ClockGrows DEF Shape, TypeOK, Message
<1>2. CASE m \in broker'
  <2>1. Open(row[t], m.token, m.retries, Larger(m.visible, clock'))
    BY <1>1, OpenLater DEF Waits, Larger
  <2> QED
    BY <1>2, <2>1 DEF Driven, Waits
<1>3. ASSUME NEW w \in Workers, Deliver(w, m) PROVE Driven(t)'
  <2>1. Larger(m.visible, clock) = clock
    BY <1>1, <1>3, DeliveredStep DEF Larger
  <2>2. Claims(w, t)'
    BY <1>3, <2>1, DeliveredStep DEF Waits, Claims, Claiming
  <2> QED
    BY <2>2 DEF Driven, Carries
<1> QED
  BY <1>2, <1>3, MessageStep

\* A process keeps what it carries as long as it does not move.
LEMMA CarryingOn ==
  ASSUME Shape, Shape', [Next]_vars, NEW w \in Workers, NEW t \in Tasks, Carries(w, t),
         worker'[w] = worker[w], row'[t] = row[t]
  PROVE  Carries(w, t)'
<1>1. clock \in Nat /\ clock' \in Nat /\ clock <= clock' /\ row[t].expires \in Int
  BY ClockGrows DEF Shape, TypeOK, Row, NoTime
<1>2. TaskOfWorker(w)' = TaskOfWorker(w)
  BY DEF TaskOfWorker
<1> QED
  BY <1>1, <1>2 DEF Carries, Runs, OwnsAttempt, Reschedules, Claims

\* What a lost process carried waits, from then on, with the broker.
LEMMA LostCarrier ==
  ASSUME Shape, Leased, Reliable, NEW w \in Workers, NEW t \in Tasks, Carries(w, t),
         WorkerLost(w)
  PROVE  Driven(t)'
<1> DEFINE m == Unacked(w, clock + VISIBILITY_TIMEOUT)
<1>1. /\ worker[w].pc # "idle" /\ TaskOfWorker(w) = t /\ row[t] \in Row
      /\ worker[w].retries \in Nat /\ row[t].expires \in Int /\ row[t].attempt \in Int
      /\ worker[w].now \in Nat /\ worker[w].now <= clock /\ clock \in Nat
      /\ worker[w].deadline = worker[w].now + WORKER_LEASE_DURATION
  BY DEF Carries, Runs, Executing, Handling, Finishing, Reschedules, Claims, Claiming,
     Shape, TypeOK, Row, Worker, NoTime, Leased, Dated
<1>2. /\ WORKER_LEASE_DURATION \in Nat \ {0} /\ VISIBILITY_TIMEOUT \in Nat
      /\ VISIBILITY_TIMEOUT > WORKER_LEASE_DURATION
  BY ConstantsOK DEF Reliable
<1>3. m \in broker' /\ row' = row /\ clock' = clock
  BY LostStep
<1>4. /\ m.token = worker[w].token /\ m.retries = worker[w].retries
      /\ m.visible = clock + VISIBILITY_TIMEOUT /\ TaskOf[m.token] = t
  BY <1>1 DEF Unacked, TaskOfWorker
<1>5. Open(row[t], worker[w].token, worker[w].retries, clock + VISIBILITY_TIMEOUT)
  <2>1. CASE Runs(w, t)
    BY <1>1, <1>2, <2>1 DEF Runs, OwnsAttempt, Open, NoTime
  <2>2. CASE Reschedules(w, t)
    BY <1>1, <1>2, <2>2 DEF Reschedules, Open
  <2>3. CASE Claims(w, t)
    BY <1>1, <1>2, <2>3, OpenLater DEF Claims
  <2> QED
    BY <2>1, <2>2, <2>3 DEF Carries
<1>6. Larger(clock + VISIBILITY_TIMEOUT, clock) = clock + VISIBILITY_TIMEOUT
  BY <1>1, <1>2 DEF Larger
<1> HIDE DEF m
<1> QED
  BY <1>3, <1>4, <1>5, <1>6 DEF Driven, Waits

\* The process itself moves on: it reaches the UPDATE that admits it, runs the
\* handler, or publishes what it scheduled.
LEMMA CarrierStep ==
  ASSUME Shape, NEW w \in Workers, NEW t \in Tasks, row[t].state = "running",
         Carries(w, t), WorkerStep(w), Untouched(t)
  PROVE  Driven(t)'
<1>1. /\ worker[w].pc # "idle" /\ TaskOfWorker(w) = t /\ row[t] \in Row
      /\ worker[w].retries \in Nat /\ row[t].expires \in Int /\ row[t].attempt \in Int
      /\ clock \in Nat
  BY DEF Carries, Runs, Executing, Handling, Finishing, Reschedules, Claims, Claiming,
     Shape, TypeOK, Row, Worker, NoTime
<1>2. CASE Claims(w, t)
  <2>1. Claim(w)
    BY <1>2 DEF WorkerStep, Handle, Upsert, HandlerReturns, HandlerTimesOut, HandlerFails,
       Handling, End, FinishSucceeded, FinishFailed, FinishRetry, ClaimLost, Finishing,
       Republish, InvalidateCache, Ack, Claims, Claiming
  <2> QED
    BY <1>2, <2>1, ClaimingStep DEF Driven
<1>3. CASE Runs(w, t) /\ Handle(w)
  <2>1. row' = row /\ SameMessage(w) /\ worker'[w].pc \in Executing
    BY <1>1, <1>3, GotoChange DEF Handle, Upsert, HandlerReturns, HandlerTimesOut, HandlerFails,
       Executing, Handling, Finishing
  <2>2. Runs(w, t)'
    BY <1>3, <2>1 DEF Runs, OwnsAttempt, SameMessage, TaskOfWorker
  <2> QED
    BY <2>2 DEF Driven, Carries
<1>4. CASE Runs(w, t) /\ ~Handle(w)
  <2>1. FinishSucceeded(w) \/ FinishFailed(w) \/ FinishRetry(w)
    BY <1>4 DEF WorkerStep, Claim, ClaimQueued, ClaimMisses, SelectClaimed, AdvanceAttempt,
       AdvanceMisses, RecoverAttempt, RecoverMisses, End, ClaimLost, Republish,
       InvalidateCache, Ack, Runs, Executing, Handling, Finishing
  <2>2. ASSUME NEW a \in Actions, Audit(t, a) PROVE FALSE
    <3>1. audit'[t][a] = audit[t][a] + 1 /\ audit[t][a] \in Nat
      BY <2>2 DEF Audit, Shape, TypeOK
    <3> QED
      BY <3>1 DEF Untouched
  <2> QED
    BY <1>1, <2>1, <2>2 DEF FinishSucceeded, FinishFailed, FinishRetry, Finish, Actions
<1>5. CASE Reschedules(w, t)
  <2> DEFINE m == [token |-> worker[w].token, retries |-> worker[w].retries + 1,
                   visible |-> clock]
  <2>1. Republish(w)
    BY <1>5 DEF WorkerStep, Claim, ClaimQueued, ClaimMisses, SelectClaimed, AdvanceAttempt,
       AdvanceMisses, RecoverAttempt, RecoverMisses, Handle, Upsert, HandlerReturns,
       HandlerTimesOut, HandlerFails, Handling, End, FinishSucceeded, FinishFailed,
       FinishRetry, ClaimLost, Finishing, InvalidateCache, Ack, Reschedules
  <2>2. m \in broker' /\ row' = row /\ clock' = clock
    BY <1>1, <2>1 DEF Republish, Shape, Retriable
  <2>3. /\ m.token = worker[w].token /\ m.retries = worker[w].retries + 1
        /\ Larger(m.visible, clock) = clock /\ TaskOf[m.token] = t
    BY <1>1 DEF Larger, TaskOfWorker
  <2> HIDE DEF m
  <2>4. Open(row[t], m.token, m.retries, Larger(m.visible, clock))
    BY <1>1, <1>5, <2>3 DEF Reschedules, Open
  <2> QED
    BY <2>2, <2>3, <2>4 DEF Driven, Waits
<1> QED
  BY <1>2, <1>3, <1>4, <1>5 DEF Carries

\* A driven row that nobody writes stays driven.
LEMMA DrivenStep ==
  ASSUME Shape, Shape', Leased, Reliable, [Next]_vars, NEW t \in Tasks,
         row[t].state = "running", Driven(t), Untouched(t)
  PROVE  Driven(t)'
<1>1. ASSUME NEW m \in broker, Waits(m, t) PROVE Driven(t)'
  BY <1>1, WaitingStep DEF Untouched
<1>2. ASSUME NEW w \in Workers, Carries(w, t) PROVE Driven(t)'
  <2>1. worker[w].pc # "idle" /\ ~InvalidationFails(w)
    BY <1>2 DEF Carries, Runs, Executing, Handling, Finishing, Reschedules, Claims, Claiming,
       InvalidationFails
  <2>2. CASE worker'[w] = worker[w]
    BY <1>2, <2>2, CarryingOn DEF Untouched, Driven
  <2> QED
    BY <1>2, <2>1, <2>2, BusyStep, CarrierStep, LostCarrier
<1> QED
  BY <1>1, <1>2 DEF Driven

\* A worker that writes the row and leaves it running drives it.
LEMMA WriterDrives ==
  ASSUME Shape, Shape', Budget, Leased, [Next]_vars, NEW t \in Tasks, NEW w \in Workers,
         worker[w].pc # "idle", TaskOfWorker(w) = t, WorkerWrites(w, t),
         row'[t].state = "running"
  PROVE  Driven(t)' /\ row'[t].token # NoToken
<1>1. /\ worker[w].token # NoToken /\ row[t] \in Row /\ worker[w].retries \in Nat
      /\ row[t].retry \in Nat /\ row[t].attempt \in Int /\ row[t].retry <= row[t].attempt + 1
  BY ConstantsOK DEF Shape, TypeOK, Busy, Row, Worker, Budget, RetryBudget
<1>2. ASSUME worker'[w].pc \in {"ingest", "republish"}, worker[w].pc \notin {"ingest", "republish"}
      PROVE  SameMessage(w) /\ TaskOfWorker(w)' = t
  <2>1. SameMessage(w)
    BY <1>2, ProcessStep DEF WorkerChange, Idle, Received
  <2> QED
    BY <2>1 DEF SameMessage, TaskOfWorker
<1>3. CASE Opened(w, t) \/ TakenOver(w, t)
  <2>1. SameMessage(w) /\ TaskOfWorker(w)' = t
    BY <1>2, <1>3 DEF Opened, TakenOver
  <2>2. row'[t].token = worker[w].token
    BY <1>3 DEF Opened, TakenOver, MayAdvance, MayRecover, StillClaimed
  <2>3. Runs(w, t)'
    BY <1>3, <2>1, <2>2 DEF Opened, TakenOver, Runs, OwnsAttempt, SameMessage, Executing, Handling
  <2> QED
    BY <1>1, <2>2, <2>3 DEF Driven, Carries
<1>4. CASE Rescheduled(w, t)
  <2>1. SameMessage(w) /\ TaskOfWorker(w)' = t
    BY <1>2, <1>4 DEF Rescheduled, Ended
  <2>2. /\ row'[t].token = worker[w].token /\ row'[t].attempt = worker[w].retries
        /\ row'[t].expires = clock /\ row'[t].retry = Larger(row[t].retry, worker[w].retries + 1)
        /\ row[t].attempt = worker[w].retries
    BY <1>4 DEF Rescheduled, Ended, OwnsAttempt
  <2>3. row'[t].retry = worker[w].retries + 1
    BY <1>1, <2>2 DEF Larger
  <2>4. clock <= clock' /\ clock # NoTime
    BY ClockGrows DEF NoTime
  <2>5. Reschedules(w, t)'
    BY <1>4, <2>1, <2>2, <2>3, <2>4 DEF Rescheduled, Reschedules, SameMessage
  <2> QED
    BY <1>1, <2>2, <2>5 DEF Driven, Carries
<1>5. ~Concluded(w, t)
  BY DEF Concluded, Ended
<1> QED
  BY <1>3, <1>4, <1>5 DEF WorkerWrites

LEMMA KeptStep ==
  ASSUME Shape, Shape', Requests, Budget, Leased, Reliable, AllKept, [Next]_vars
  PROVE  AllKept'
<1> SUFFICES ASSUME NEW t \in Tasks PROVE Kept(t)'
  BY DEF AllKept
<1>1. Kept(t) /\ audit[t]["task.transitioned"] \in Nat
  BY DEF AllKept, Shape, TypeOK, Actions
<1>2. ASSUME row'[t].state = "queued", NEW k \in published', TaskOf[k] = t
      PROVE  Announced(t)'
  <2>1. row[t].state = "queued"
    BY <1>2, QueuedStep DEF Untouched
  <2>2. CASE k \in published
    BY <1>1, <1>2, <2>1, <2>2, AnnouncedStep DEF Kept
  <2>3. CASE k \notin published
    <3>1. PICK j \in Tokens : Publish(j)
      BY <1>2, <2>3 DEF Next, vars, DeliverSome, Deliver, WorkerStep, Claim, ClaimQueued,
         ClaimMisses, SelectClaimed, AdvanceAttempt, AdvanceMisses, RecoverAttempt,
         RecoverMisses, Handle, Upsert, HandlerReturns, HandlerTimesOut, HandlerFails, End,
         FinishSucceeded, FinishFailed, FinishRetry, ClaimLost, Republish, InvalidateCache,
         Ack, FaultStep, ChildLost, WorkerLost, Duplicate, DatabaseFails, RepublishFails,
         InvalidationFails, OperatorStep, OperatorReads, OperatorWrites, OperatorConflicts, Tick
    <3>2. [token |-> k, retries |-> 0, visible |-> clock] \in broker'
      BY <1>2, <2>3, <3>1 DEF Publish
    <3> QED
      BY <1>2, <3>2 DEF Announced
  <2> QED
    BY <2>2, <2>3
<1>3. ASSUME row'[t].state = "running", row'[t].token # NoToken PROVE Driven(t)'
  <2>1. CASE Untouched(t)
    BY <1>1, <1>3, <2>1, DrivenStep DEF Kept, Untouched
  <2>2. ASSUME NEW w \in Workers, worker[w].pc # "idle", TaskOfWorker(w) = t, WorkerWrites(w, t)
        PROVE  Driven(t)'
    BY <1>3, <2>2, WriterDrives
  <2>3. ASSUME NEW o \in Operators, Moved(o, t) PROVE FALSE
    <3>1. row[t].state \in TaskState /\ row'[t].state \in ALLOWED_TRANSITIONS[row[t].state]
      BY <2>3 DEF Moved, Requests, Shape, TypeOK, Row
    <3>2. row[t].state = "queued"
      BY <1>3, <3>1 DEF ALLOWED_TRANSITIONS, TaskState
    <3> QED
      BY <1>3, <2>3, <3>2 DEF Moved, Budget, Untried
  <2> QED
    BY <2>1, <2>2, <2>3, RowStep DEF RowChange
<1>4. ASSUME row'[t].state = "running", row'[t].token = NoToken
      PROVE  audit'[t]["task.transitioned"] > 0
  <2>1. CASE Untouched(t)
    BY <1>1, <1>4, <2>1 DEF Kept, Untouched
  <2>2. ASSUME NEW w \in Workers, worker[w].pc # "idle", TaskOfWorker(w) = t, WorkerWrites(w, t)
        PROVE  FALSE
    BY <1>4, <2>2, WriterDrives
  <2>3. ASSUME NEW o \in Operators, Moved(o, t) PROVE audit'[t]["task.transitioned"] > 0
    <3>1. audit'[t]["task.transitioned"] = audit[t]["task.transitioned"] + 1
      BY <2>3 DEF Moved, Logged, Actions, Shape, TypeOK
    <3> QED
      BY <1>1, <3>1
  <2> QED
    BY <2>1, <2>2, <2>3, RowStep DEF RowChange
<1> QED
  BY <1>2, <1>3, <1>4 DEF Kept

\* In a reliable deployment every published task has ended, was moved by an
\* operator, or has a message or a process that can still end it.
THEOREM NoTaskIsForgotten == Spec => []NothingIsForgotten
<1>1. CASE Reliable
  <2>1. Shape /\ AllKept => NothingIsForgotten
    <3> SUFFICES ASSUME Shape, AllKept, NEW k \in published,
                        row[TaskOf[k]].state \notin Terminal,
                        ~(audit[TaskOf[k]]["task.transitioned"] > 0)
                 PROVE  Carried(TaskOf[k])
      BY DEF NothingIsForgotten
    <3> DEFINE t == TaskOf[k]
    <3>1. t \in Tasks /\ row[t].state \in TaskState
      BY ConstantsOK DEF Shape, TypeOK, Row
    <3>2. Kept(t)
      BY <3>1 DEF AllKept
    <3>3. CASE row[t].state = "queued"
      BY <3>2, <3>3 DEF Kept, Announced, Carried, Claiming
    <3>4. CASE row[t].state = "running"
      <4>1. Driven(t)
        BY <3>1, <3>2, <3>4 DEF Kept, Shape, TypeOK, Actions
      <4> QED
        BY <4>1 DEF Driven, Waits, Carries, Runs, Reschedules, Claims, Open, Carried, Claiming,
           Executing, Handling, Finishing
    <3> QED
      BY <3>1, <3>3, <3>4 DEF Terminal, TaskState
  <2> QED
    BY <1>1, <2>1, ShapeInit, ShapeStep, RequestsInit, RequestsStep, BudgetInit, BudgetStep,
       LeasedInit, LeasedStep, KeptInit, KeptStep, PTL DEF Spec
<1>2. CASE ~Reliable
  <2>1. NothingIsForgotten
    BY <1>2 DEF NothingIsForgotten
  <2> QED
    BY <2>1, PTL
<1> QED
  BY <1>1, <1>2

-----------------------------------------------------------------------------
(* Refinement of TaskLifecycle *)

States == [t \in Tasks |-> row[t].state]

Events == [t \in Tasks |-> audit[t]["task.started"] + audit[t]["task.succeeded"]
                            + audit[t]["task.failed"] + audit[t]["task.transitioned"]]

LEMMA MapsInit == Init => Lifecycle!Init
BY DEF Init, Lifecycle!Init, NewRow, Actions

\* Writing the state of one row with one lifecycle event is an abstract transition.
LEMMA MapsTransition ==
  ASSUME Shape, NEW t \in Tasks, NEW s \in TaskState,
         s \in ALLOWED_TRANSITIONS[row[t].state],
         NEW a \in Actions \ {"task.retry_scheduled"}, Audit(t, a),
         \A u \in Tasks : row'[u].state = IF u = t THEN s ELSE row[u].state
  PROVE  Lifecycle!Next
<1>1. s \in Lifecycle!ALLOWED_TRANSITIONS[States[t]] /\ s \in Lifecycle!TaskState
  BY DEF States, ALLOWED_TRANSITIONS, Lifecycle!ALLOWED_TRANSITIONS, TaskState,
     Lifecycle!TaskState
<1>2. States' = [States EXCEPT ![t] = s]
  BY DEF States
<1>3. \A u \in Tasks : Events'[u] = IF u = t THEN Events[u] + 1 ELSE Events[u]
  <2>1. \A u \in Tasks : \A b \in Actions :
           audit'[u][b] = IF u = t /\ b = a THEN audit[u][b] + 1 ELSE audit[u][b]
    BY DEF Audit, Shape, TypeOK
  <2>2. \A u \in Tasks : \A b \in Actions : audit[u][b] \in Nat
    BY DEF Shape, TypeOK
  <2> QED
    BY <2>1, <2>2 DEF Events, Actions
<1>4. Events' = [Events EXCEPT ![t] = @ + 1]
  BY <1>3 DEF Events
<1>5. Lifecycle!Transition(t, s)
  BY <1>1, <1>2, <1>4 DEF Lifecycle!Transition, States, Events
<1> QED
  BY <1>1, <1>5 DEF Lifecycle!Next

\* Any other step leaves the abstract state alone.
LEMMA MapsStutter ==
  ASSUME Shape, \A u \in Tasks : row'[u].state = row[u].state,
         \A u \in Tasks : \A b \in Actions \ {"task.retry_scheduled"} :
            audit'[u][b] = audit[u][b]
  PROVE  UNCHANGED Lifecycle!vars
BY DEF Lifecycle!vars, Actions

LEMMA MapsStep ==
  ASSUME Shape, Requests, [Next]_vars
  PROVE  [Lifecycle!Next]_(Lifecycle!vars)
<1> USE DEF Shape, TypeOK
<1>1. CASE UNCHANGED <<row, audit>>
  BY <1>1, MapsStutter
<1>2. ASSUME NEW w \in Workers, ClaimQueued(w) PROVE Lifecycle!Next
  <2>1. TaskOfWorker(w) \in Tasks
    BY <1>2, ConstantsOK DEF ClaimQueued, Busy, TaskOfWorker
  <2>2. "running" \in ALLOWED_TRANSITIONS[row[TaskOfWorker(w)].state]
    BY <1>2 DEF ClaimQueued, ALLOWED_TRANSITIONS, TaskState
  <2>3. \A u \in Tasks : row'[u].state = IF u = TaskOfWorker(w) THEN "running" ELSE row[u].state
    BY <1>2, <2>1 DEF ClaimQueued, Row
  <2>4. Audit(TaskOfWorker(w), "task.started")
    BY <1>2 DEF ClaimQueued
  <2> QED
    BY <2>1, <2>2, <2>3, <2>4, MapsTransition DEF Actions, TaskState
<1>3. ASSUME NEW w \in Workers, AdvanceAttempt(w) \/ RecoverAttempt(w)
      PROVE  UNCHANGED Lifecycle!vars
  <2>1. TaskOfWorker(w) \in Tasks /\ TakeLease(w) /\ UNCHANGED audit
    BY <1>3, ConstantsOK DEF AdvanceAttempt, RecoverAttempt, Busy, TaskOfWorker
  <2>2. \A u \in Tasks : row'[u].state = row[u].state
    BY <2>1 DEF TakeLease, Row
  <2> QED
    BY <2>1, <2>2, MapsStutter
<1>4. ASSUME NEW w \in Workers, NEW s \in TaskState, NEW a \in Actions, NEW n, NEW e,
             Finish(w, s, a, n, e), worker[w].pc # "idle"
      PROVE  /\ TaskOfWorker(w) \in Tasks
             /\ row[TaskOfWorker(w)].state = "running"
             /\ \A u \in Tasks : row'[u].state = IF u = TaskOfWorker(w) THEN s ELSE row[u].state
             /\ Audit(TaskOfWorker(w), a)
  <2>1. TaskOfWorker(w) \in Tasks
    BY <1>4, ConstantsOK DEF Busy, TaskOfWorker
  <2> QED
    BY <1>4, <2>1 DEF Finish, OwnsAttempt, Row
<1>5. ASSUME NEW w \in Workers, FinishSucceeded(w) PROVE Lifecycle!Next
  <2>1. Finish(w, "succeeded", "task.succeeded", worker[w].retries, NoTime) /\ worker[w].pc # "idle"
    BY <1>5 DEF FinishSucceeded
  <2>2. "succeeded" \in ALLOWED_TRANSITIONS["running"] /\ "succeeded" \in TaskState
        /\ "task.succeeded" \in Actions \ {"task.retry_scheduled"}
    BY DEF ALLOWED_TRANSITIONS, TaskState, Actions
  <2> QED
    BY <1>4, <2>1, <2>2, MapsTransition
<1>6. ASSUME NEW w \in Workers, FinishFailed(w) PROVE Lifecycle!Next
  <2>1. Finish(w, "failed", "task.failed", worker[w].retries, NoTime) /\ worker[w].pc # "idle"
    BY <1>6 DEF FinishFailed
  <2>2. "failed" \in ALLOWED_TRANSITIONS["running"] /\ "failed" \in TaskState
        /\ "task.failed" \in Actions \ {"task.retry_scheduled"}
    BY DEF ALLOWED_TRANSITIONS, TaskState, Actions
  <2> QED
    BY <1>4, <2>1, <2>2, MapsTransition
<1>7. ASSUME NEW w \in Workers, FinishRetry(w) PROVE UNCHANGED Lifecycle!vars
  <2>1. Finish(w, "running", "task.retry_scheduled", worker[w].retries + 1, clock)
        /\ worker[w].pc # "idle"
    BY <1>7 DEF FinishRetry
  <2>2. "running" \in TaskState /\ "task.retry_scheduled" \in Actions
    BY DEF TaskState, Actions
  <2>3. /\ \A u \in Tasks : row'[u].state = row[u].state
        /\ Audit(TaskOfWorker(w), "task.retry_scheduled")
    BY <1>4, <2>1, <2>2
  <2>4. \A u \in Tasks : \A b \in Actions \ {"task.retry_scheduled"} : audit'[u][b] = audit[u][b]
    BY <2>3 DEF Audit
  <2> QED
    BY <2>3, <2>4, MapsStutter
<1>8. ASSUME NEW o \in Operators, OperatorWrites(o) PROVE Lifecycle!Next
  <2>1. /\ operator[o] \in Request
        /\ operator[o].target \in ALLOWED_TRANSITIONS[row[operator[o].task].state]
    BY <1>8 DEF OperatorWrites, Requests
  <2>2. operator[o].task \in Tasks /\ operator[o].target \in TaskState
    BY <2>1 DEF Request
  <2>3. \A u \in Tasks : row'[u].state = IF u = operator[o].task THEN operator[o].target
                                                                ELSE row[u].state
    BY <1>8, <2>2 DEF OperatorWrites, Row
  <2>4. Audit(operator[o].task, "task.transitioned")
    BY <1>8 DEF OperatorWrites
  <2> QED
    BY <2>1, <2>2, <2>3, <2>4, MapsTransition DEF Actions
<1> QED
  BY <1>1, <1>2, <1>3, <1>5, <1>6, <1>7, <1>8
     DEF Next, vars, Publish, DeliverSome, Deliver, WorkerStep, Claim, ClaimMisses,
         SelectClaimed, AdvanceMisses, RecoverMisses, Handle, Upsert, HandlerReturns,
         HandlerTimesOut, HandlerFails, End, ClaimLost, Republish, InvalidateCache, Ack,
         FaultStep, ChildLost, WorkerLost, Duplicate, DatabaseFails, RepublishFails,
         InvalidationFails, OperatorStep, OperatorReads, OperatorConflicts, Tick

\* Whoever writes the tasks table, its rows move along ALLOWED_TRANSITIONS and
\* every move is audited once: the protocol implements TaskLifecycle.
THEOREM TasksImplementLifecycle == Spec => ImplementsLifecycle
<1> QED
  BY MapsInit, MapsStep, ShapeInit, ShapeStep, RequestsInit, RequestsStep, PTL
     DEF Spec, ImplementsLifecycle, Lifecycle!Spec
=============================================================================
