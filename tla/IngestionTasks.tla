--------------------------- MODULE IngestionTasks ---------------------------
(***************************************************************************)
(* Durable ingestion tasks: the Celery task of tasks/jobs.py, the rows of  *)
(* the tasks and audit_events tables it shares with the transition route   *)
(* of the API (domain/services.py), and the broker between producer and    *)
(* workers.  Every UPDATE that finds its row commits together with its     *)
(* audit event, and is one step; an UPDATE that finds none leaves the      *)
(* transaction open under READ COMMITTED, so the statements that follow it *)
(* are steps of their own and see what others committed meanwhile.         *)
(***************************************************************************)
EXTENDS Integers

CONSTANTS
    Tasks,                   \* rows of the tasks table, committed before publication
    Workers,                 \* Celery worker processes
    Operators,               \* API requests in flight on the transition route
    Tokens,                  \* Celery task ids, the worker_token of a claim
    TaskOf,                  \* the task_id argument published under a Celery id
    Leases,                  \* lease tokens (uuid4)
    NoToken, NoLease,        \* NULL
    NoRequest,               \* an API worker that holds no transition request
    MAX_INGESTION_RETRIES,
    WORKER_LEASE_DURATION,   \* in ticks of the clock
    VISIBILITY_TIMEOUT,      \* broker: after this long an unacknowledged message returns
    FaultKinds,              \* which faults the environment may inject
    MaxFaults,               \* bound on injected faults
    MaxTime                  \* bound on the clock

NoTime == -1                 \* NULL in worker_lease_expires_at

ASSUME ConstantsOK ==
    /\ MAX_INGESTION_RETRIES \in Nat
    /\ WORKER_LEASE_DURATION \in Nat \ {0}
    /\ VISIBILITY_TIMEOUT \in Nat
    /\ MaxFaults \in Nat
    /\ MaxTime \in Nat
    /\ TaskOf \in [Tokens -> Tasks]
    /\ NoToken \notin Tokens
    /\ NoLease \notin Leases
    /\ \A t \in Tasks : \A s1, s2 \in {"queued", "running", "succeeded", "failed"} :
          NoRequest # [task |-> t, current |-> s1, target |-> s2]

VARIABLES
    row,        \* row[t]: the columns of tasks the protocol reads and writes
    audit,      \* audit[t][a]: number of audit events with action a about t
    broker,     \* messages a worker may receive
    worker,     \* worker[w]: where the process is, and its local variables
    operator,   \* operator[o]: a transition request between its SELECT and its UPDATE
    published,  \* Celery ids the producer has used
    indexed,    \* tasks whose source is in the Qdrant collection
    cleared,    \* tasks whose success was followed by a cache invalidation
    clock,      \* datetime.now(UTC), shared by the processes
    faults      \* faults injected so far

vars == <<row, audit, broker, worker, operator, published, indexed, cleared,
          clock, faults>>

-----------------------------------------------------------------------------
(* Data *)

TaskState == {"queued", "running", "succeeded", "failed"}
Terminal == {"succeeded", "failed"}

ALLOWED_TRANSITIONS ==
    [s \in TaskState |->
        CASE s = "queued"  -> {"running", "failed"}
          [] s = "running" -> {"succeeded", "failed"}
          [] OTHER         -> {}]

Actions == {"task.started", "task.retry_scheduled", "task.succeeded",
            "task.failed", "task.transitioned"}

Row == [state    : TaskState,
        token    : Tokens \cup {NoToken},
        attempt  : Nat \cup {-1},
        lease    : Leases \cup {NoLease},
        expires  : Nat \cup {NoTime},
        retry    : Nat]

NewRow == [state |-> "queued", token |-> NoToken, attempt |-> -1,
           lease |-> NoLease, expires |-> NoTime, retry |-> 0]

Message == [token : Tokens, retries : 0 .. MAX_INGESTION_RETRIES, visible : Nat]

Claiming == {"claim", "select", "advance", "recover"}
Handling == {"ingest", "upserted"}
Finishing == {"succeed", "fail", "retry"}
Executing == Handling \cup Finishing
Pc == {"idle", "republish", "invalidate", "ack"} \cup Claiming \cup Executing

Worker == [pc       : Pc,
           token    : Tokens \cup {NoToken},
           retries  : 0 .. MAX_INGESTION_RETRIES,
           lease    : Leases \cup {NoLease},
           now      : Nat,
           deadline : Nat]

Idle == [pc |-> "idle", token |-> NoToken, retries |-> 0, lease |-> NoLease,
         now |-> 0, deadline |-> 0]

Request == [task : Tasks, current : TaskState, target : TaskState]

TaskOfWorker(w) == TaskOf[worker[w].token]

\* uuid4 returns a name that no row and no process holds.
FreshLeases ==
    { l \in Leases : /\ \A t \in Tasks : row[t].lease # l
                     /\ \A w \in Workers : worker[w].lease # l }

Larger(a, b) == IF a > b THEN a ELSE b

Goto(w, pc) == worker' = [worker EXCEPT ![w].pc = pc]

Audit(t, action) == audit' = [audit EXCEPT ![t][action] = @ + 1]

Fault(kind) ==
    /\ kind \in FaultKinds
    /\ faults < MaxFaults
    /\ faults' = faults + 1

-----------------------------------------------------------------------------
(* Messages *)

\* The producer queues task TaskOf[k] under the Celery id k.
Publish(k) ==
    /\ k \notin published
    /\ published' = published \cup {k}
    /\ broker' = broker \cup {[token |-> k, retries |-> 0, visible |-> clock]}
    /\ UNCHANGED <<row, audit, worker, operator, indexed, cleared, clock, faults>>

\* A process receives a message, draws its lease token and reads the clock
\* once, before the first statement of _claim_task.
Deliver(w, m) ==
    /\ worker[w].pc = "idle"
    /\ m \in broker
    /\ m.visible <= clock
    /\ broker' = broker \ {m}
    /\ \E l \in FreshLeases :
          worker' = [worker EXCEPT ![w] =
              [pc |-> "claim", token |-> m.token, retries |-> m.retries, lease |-> l,
               now |-> clock, deadline |-> clock + WORKER_LEASE_DURATION]]
    /\ UNCHANGED <<row, audit, operator, published, indexed, cleared, clock, faults>>

\* task_acks_late: the message is acknowledged when the task returns or raises.
Ack(w) ==
    /\ worker[w].pc = "ack"
    /\ worker' = [worker EXCEPT ![w] = Idle]
    /\ UNCHANGED <<row, audit, broker, operator, published, indexed, cleared,
                   clock, faults>>

-----------------------------------------------------------------------------
(* _claim_task *)

\* Broken variant: the claim forgets its audit event.
ClaimUnaudited(w) ==
    LET t == TaskOfWorker(w) IN
    /\ worker[w].pc = "claim"
    /\ row[t].state = "queued"
    /\ row' = [row EXCEPT ![t] = [@ EXCEPT !.state = "running",
                                           !.token = worker[w].token,
                                           !.attempt = worker[w].retries,
                                           !.lease = worker[w].lease,
                                           !.expires = worker[w].deadline]]
    /\ Goto(w, "ingest")
    /\ UNCHANGED <<audit, broker, operator, published, indexed, cleared, clock, faults>>

\* UPDATE ... WHERE state = 'queued' takes the row and records task.started.
ClaimQueued(w) ==
    LET t == TaskOfWorker(w) IN
    /\ worker[w].pc = "claim"
    /\ row[t].state = "queued"
    /\ row' = [row EXCEPT ![t] = [@ EXCEPT !.state = "running",
                                           !.token = worker[w].token,
                                           !.attempt = worker[w].retries,
                                           !.lease = worker[w].lease,
                                           !.expires = worker[w].deadline]]
    /\ Audit(t, "task.started")
    /\ Goto(w, "ingest")
    /\ UNCHANGED <<broker, operator, published, indexed, cleared, clock, faults>>

ClaimMisses(w) ==
    /\ worker[w].pc = "claim"
    /\ row[TaskOfWorker(w)].state # "queued"
    /\ Goto(w, "select")
    /\ UNCHANGED <<row, audit, broker, operator, published, indexed, cleared,
                   clock, faults>>

\* The SELECT that tells a retry or a redelivery of the claimant's own message
\* from a task somebody else claimed or that has ended ("task already claimed").
SelectClaimed(w) ==
    LET r == row[TaskOfWorker(w)] IN
    /\ worker[w].pc = "select"
    /\ Goto(w, IF r.state = "running" /\ r.token = worker[w].token
               THEN "advance" ELSE "ack")
    /\ UNCHANGED <<row, audit, broker, operator, published, indexed, cleared,
                   clock, faults>>

\* The WHERE clause common to the two re-claiming UPDATEs.
StillClaimed(w) ==
    LET r == row[TaskOfWorker(w)] IN
    /\ r.state = "running"
    /\ r.token = worker[w].token
    /\ r.expires # NoTime

\* A scheduled retry takes over the attempt that scheduled it.
MayAdvance(w) ==
    LET r == row[TaskOfWorker(w)] IN
    /\ StillClaimed(w)
    /\ r.attempt < worker[w].retries
    /\ r.retry = worker[w].retries
    /\ r.expires <= worker[w].now

\* Broken variants of MayRecover: the lease is not looked at; the comparison
\* is turned round.
MayRecoverAlways(w) ==
    /\ StillClaimed(w)
    /\ row[TaskOfWorker(w)].attempt = worker[w].retries

MayRecoverEarly(w) ==
    /\ MayRecoverAlways(w)
    /\ row[TaskOfWorker(w)].expires > worker[w].now

\* A redelivered attempt takes over from a holder whose lease has run out.
MayRecover(w) ==
    LET r == row[TaskOfWorker(w)] IN
    /\ StillClaimed(w)
    /\ r.attempt = worker[w].retries
    /\ r.expires < worker[w].now

TakeLease(w) ==
    /\ row' = [row EXCEPT ![TaskOfWorker(w)] = [@ EXCEPT !.attempt = worker[w].retries,
                                                         !.lease = worker[w].lease,
                                                         !.expires = worker[w].deadline]]
    /\ Goto(w, "ingest")

AdvanceAttempt(w) ==
    /\ worker[w].pc = "advance"
    /\ MayAdvance(w)
    /\ TakeLease(w)
    /\ UNCHANGED <<audit, broker, operator, published, indexed, cleared, clock, faults>>

AdvanceMisses(w) ==
    /\ worker[w].pc = "advance"
    /\ ~MayAdvance(w)
    /\ Goto(w, "recover")
    /\ UNCHANGED <<row, audit, broker, operator, published, indexed, cleared,
                   clock, faults>>

RecoverAttempt(w) ==
    /\ worker[w].pc = "recover"
    /\ MayRecover(w)
    /\ TakeLease(w)
    /\ UNCHANGED <<audit, broker, operator, published, indexed, cleared, clock, faults>>

\* "task attempt already processed": the message is acknowledged.
RecoverMisses(w) ==
    /\ worker[w].pc = "recover"
    /\ ~MayRecover(w)
    /\ Goto(w, "ack")
    /\ UNCHANGED <<row, audit, broker, operator, published, indexed, cleared,
                   clock, faults>>

-----------------------------------------------------------------------------
(* The ingestion handler *)

\* The chunks reach the collection before the handler returns.
Upsert(w) ==
    /\ worker[w].pc = "ingest"
    /\ indexed' = indexed \cup {TaskOfWorker(w)}
    /\ Goto(w, "upserted")
    /\ UNCHANGED <<row, audit, broker, operator, published, cleared, clock, faults>>

\* Broken variant: the handler reports success before the write is durable.
HandlerReturnsEarly(w) ==
    /\ worker[w].pc \in Handling
    /\ Goto(w, "succeed")
    /\ UNCHANGED <<row, audit, broker, operator, published, indexed, cleared,
                   clock, faults>>

HandlerReturns(w) ==
    /\ worker[w].pc = "upserted"
    /\ Goto(w, "succeed")
    /\ UNCHANGED <<row, audit, broker, operator, published, indexed, cleared,
                   clock, faults>>

\* Broken variant: off by one in the test for the final attempt.
HandlerTimesOutLate(w) ==
    /\ worker[w].pc \in Handling
    /\ Goto(w, IF worker[w].retries <= MAX_INGESTION_RETRIES THEN "retry" ELSE "fail")
    /\ UNCHANGED <<row, audit, broker, operator, published, indexed, cleared,
                   clock, faults>>

\* TimeoutError is retryable unless this is the final attempt.
HandlerTimesOut(w) ==
    /\ worker[w].pc \in Handling
    /\ Goto(w, IF worker[w].retries < MAX_INGESTION_RETRIES THEN "retry" ELSE "fail")
    /\ UNCHANGED <<row, audit, broker, operator, published, indexed, cleared,
                   clock, faults>>

HandlerFails(w) ==
    /\ worker[w].pc \in Handling
    /\ Goto(w, "fail")
    /\ UNCHANGED <<row, audit, broker, operator, published, indexed, cleared,
                   clock, faults>>

-----------------------------------------------------------------------------
(* _finish_attempt *)

\* The WHERE clause of the UPDATE that ends an attempt.
OwnsAttempt(w) ==
    LET r == row[TaskOfWorker(w)] IN
    /\ r.state = "running"
    /\ r.token = worker[w].token
    /\ r.attempt = worker[w].retries
    /\ r.lease = worker[w].lease

Finish(w, target, action, retries, expires) ==
    LET t == TaskOfWorker(w) IN
    /\ OwnsAttempt(w)
    /\ row' = [row EXCEPT ![t] = [@ EXCEPT !.state = target,
                                           !.retry = Larger(row[t].retry, retries),
                                           !.expires = expires]]
    /\ Audit(t, action)

FinishSucceeded(w) ==
    /\ worker[w].pc = "succeed"
    /\ Finish(w, "succeeded", "task.succeeded", worker[w].retries, NoTime)
    /\ Goto(w, "invalidate")
    /\ UNCHANGED <<broker, operator, published, indexed, cleared, clock, faults>>

FinishFailed(w) ==
    /\ worker[w].pc = "fail"
    /\ Finish(w, "failed", "task.failed", worker[w].retries, NoTime)
    /\ Goto(w, "ack")
    /\ UNCHANGED <<broker, operator, published, indexed, cleared, clock, faults>>

\* Broken variant: the lease runs on, and turns the next attempt away.
FinishRetryLeased(w) ==
    /\ worker[w].pc = "retry"
    /\ Finish(w, "running", "task.retry_scheduled", worker[w].retries + 1, worker[w].deadline)
    /\ Goto(w, "republish")
    /\ UNCHANGED <<broker, operator, published, indexed, cleared, clock, faults>>

\* The row stays running and its lease ends at once, for the next attempt.
FinishRetry(w) ==
    /\ worker[w].pc = "retry"
    /\ Finish(w, "running", "task.retry_scheduled", worker[w].retries + 1, clock)
    /\ Goto(w, "republish")
    /\ UNCHANGED <<broker, operator, published, indexed, cleared, clock, faults>>

\* "task claim lost": another holder or an operator has the row.
ClaimLost(w) ==
    /\ worker[w].pc \in Finishing
    /\ ~OwnsAttempt(w)
    /\ Goto(w, "ack")
    /\ UNCHANGED <<row, audit, broker, operator, published, indexed, cleared,
                   clock, faults>>

\* Broken variant: the last attempt is scheduled and never published.
RepublishDropsLast(w) ==
    /\ worker[w].pc = "republish"
    /\ broker' = IF worker[w].retries + 1 < MAX_INGESTION_RETRIES
                 THEN broker \cup {[token |-> worker[w].token,
                                    retries |-> worker[w].retries + 1, visible |-> clock]}
                 ELSE broker
    /\ Goto(w, "ack")
    /\ UNCHANGED <<row, audit, operator, published, indexed, cleared, clock, faults>>

\* The TimeoutError of a scheduled retry reaches the task, which decides for
\* itself whether attempts remain; self.retry publishes the next one under the
\* same Celery id.  Its countdown, at most four seconds, is below one tick of
\* the clock.
Republish(w) ==
    /\ worker[w].pc = "republish"
    /\ broker' = IF worker[w].retries < MAX_INGESTION_RETRIES
                 THEN broker \cup {[token |-> worker[w].token,
                                    retries |-> worker[w].retries + 1, visible |-> clock]}
                 ELSE broker
    /\ Goto(w, "ack")
    /\ UNCHANGED <<row, audit, operator, published, indexed, cleared, clock, faults>>

\* Broken variant: the invalidation is skipped.
InvalidationForgotten(w) ==
    /\ worker[w].pc = "invalidate"
    /\ Goto(w, "ack")
    /\ UNCHANGED <<row, audit, broker, operator, published, indexed, cleared,
                   clock, faults>>

InvalidateCache(w) ==
    /\ worker[w].pc = "invalidate"
    /\ cleared' = cleared \cup {TaskOfWorker(w)}
    /\ Goto(w, "ack")
    /\ UNCHANGED <<row, audit, broker, operator, published, indexed, clock, faults>>

-----------------------------------------------------------------------------
(* Faults *)

Unacked(w, visible) ==
    [token |-> worker[w].token, retries |-> worker[w].retries, visible |-> visible]

\* The child process dies and its parent requeues the message at once
\* (task_reject_on_worker_lost).
ChildLost(w) ==
    /\ worker[w].pc # "idle"
    /\ Fault("child_lost")
    /\ broker' = broker \cup {Unacked(w, clock)}
    /\ worker' = [worker EXCEPT ![w] = Idle]
    /\ UNCHANGED <<row, audit, operator, published, indexed, cleared, clock>>

\* The container dies; the broker restores the message when it has been
\* unacknowledged for VISIBILITY_TIMEOUT.
WorkerLost(w) ==
    /\ worker[w].pc # "idle"
    /\ clock + VISIBILITY_TIMEOUT <= MaxTime
    /\ Fault("worker_lost")
    /\ broker' = broker \cup {Unacked(w, clock + VISIBILITY_TIMEOUT)}
    /\ worker' = [worker EXCEPT ![w] = Idle]
    /\ UNCHANGED <<row, audit, operator, published, indexed, cleared, clock>>

\* The broker delivers a message again while its first receiver still runs.
Duplicate(w) ==
    /\ worker[w].pc # "idle"
    /\ Fault("duplicate")
    /\ broker' = broker \cup {Unacked(w, clock)}
    /\ UNCHANGED <<row, audit, worker, operator, published, indexed, cleared, clock>>

\* A statement or its commit raises: the transaction rolls back, the task raises
\* PublicIngestionTaskError and the message is acknowledged.
DatabaseFails(w) ==
    /\ worker[w].pc \in Claiming \cup Finishing
    /\ Fault("database")
    /\ Goto(w, "ack")
    /\ UNCHANGED <<row, audit, broker, operator, published, indexed, cleared, clock>>

\* self.retry cannot reach the broker: the message is rejected, not requeued.
RepublishFails(w) ==
    /\ worker[w].pc = "republish"
    /\ worker[w].retries < MAX_INGESTION_RETRIES
    /\ Fault("broker")
    /\ Goto(w, "ack")
    /\ UNCHANGED <<row, audit, broker, operator, published, indexed, cleared, clock>>

\* run_public_ingestion swallows the error: the task still succeeds.
InvalidationFails(w) ==
    /\ worker[w].pc = "invalidate"
    /\ Fault("cache")
    /\ Goto(w, "ack")
    /\ UNCHANGED <<row, audit, broker, operator, published, indexed, cleared, clock>>

-----------------------------------------------------------------------------
(* transition_persisted_task, and the clock *)

\* SELECT and transition_task: a target that ALLOWED_TRANSITIONS refuses ends
\* the request with 409 and changes nothing.
OperatorReads(o, t, target) ==
    /\ operator[o] = NoRequest
    /\ target \in ALLOWED_TRANSITIONS[row[t].state]
    /\ operator' = [operator EXCEPT ![o] =
          [task |-> t, current |-> row[t].state, target |-> target]]
    /\ UNCHANGED <<row, audit, broker, worker, published, indexed, cleared,
                   clock, faults>>

\* Broken variant: the UPDATE trusts the SELECT.
OperatorOverwrites(o) ==
    LET q == operator[o] IN
    /\ q # NoRequest
    /\ row' = [row EXCEPT ![q.task].state = q.target]
    /\ Audit(q.task, "task.transitioned")
    /\ operator' = [operator EXCEPT ![o] = NoRequest]
    /\ UNCHANGED <<broker, worker, published, indexed, cleared, clock, faults>>

\* UPDATE ... WHERE state = current, with its audit event.
OperatorWrites(o) ==
    LET q == operator[o] IN
    /\ q # NoRequest
    /\ row[q.task].state = q.current
    /\ row' = [row EXCEPT ![q.task].state = q.target]
    /\ Audit(q.task, "task.transitioned")
    /\ operator' = [operator EXCEPT ![o] = NoRequest]
    /\ UNCHANGED <<broker, worker, published, indexed, cleared, clock, faults>>

\* rowcount 0: "concurrent task transition", 409.
OperatorConflicts(o) ==
    LET q == operator[o] IN
    /\ q # NoRequest
    /\ row[q.task].state # q.current
    /\ operator' = [operator EXCEPT ![o] = NoRequest]
    /\ UNCHANGED <<row, audit, broker, worker, published, indexed, cleared,
                   clock, faults>>

Tick ==
    /\ clock < MaxTime
    /\ clock' = clock + 1
    /\ UNCHANGED <<row, audit, broker, worker, operator, published, indexed,
                   cleared, faults>>

-----------------------------------------------------------------------------
Init ==
    /\ row = [t \in Tasks |-> NewRow]
    /\ audit = [t \in Tasks |-> [a \in Actions |-> 0]]
    /\ broker = {}
    /\ worker = [w \in Workers |-> Idle]
    /\ operator = [o \in Operators |-> NoRequest]
    /\ published = {}
    /\ indexed = {}
    /\ cleared = {}
    /\ clock = 0
    /\ faults = 0

Claim(w) ==
    \/ ClaimQueued(w) \/ ClaimMisses(w) \/ SelectClaimed(w)
    \/ AdvanceAttempt(w) \/ AdvanceMisses(w)
    \/ RecoverAttempt(w) \/ RecoverMisses(w)

Handle(w) ==
    Upsert(w) \/ HandlerReturns(w) \/ HandlerTimesOut(w) \/ HandlerFails(w)

End(w) ==
    \/ FinishSucceeded(w) \/ FinishFailed(w) \/ FinishRetry(w) \/ ClaimLost(w)
    \/ Republish(w) \/ InvalidateCache(w) \/ Ack(w)

WorkerStep(w) == Claim(w) \/ Handle(w) \/ End(w)

FaultStep(w) ==
    \/ ChildLost(w) \/ WorkerLost(w) \/ Duplicate(w)
    \/ DatabaseFails(w) \/ RepublishFails(w) \/ InvalidationFails(w)

OperatorStep(o) ==
    \/ \E t \in Tasks, target \in TaskState : OperatorReads(o, t, target)
    \/ OperatorWrites(o) \/ OperatorConflicts(o)

DeliverSome == \E w \in Workers : \E m \in broker : Deliver(w, m)

Next ==
    \/ \E k \in Tokens : Publish(k)
    \/ DeliverSome
    \/ \E w \in Workers : WorkerStep(w) \/ FaultStep(w)
    \/ \E o \in Operators : OperatorStep(o)
    \/ Tick

Spec == Init /\ [][Next]_vars

\* A started process runs on, the broker delivers while a worker is idle, and
\* time passes.  Nothing obliges the producer, an operator or a fault.
Fairness ==
    /\ \A w \in Workers : WF_vars(WorkerStep(w))
    /\ WF_vars(DeliverSome)
    /\ WF_vars(Tick)

FairSpec == Spec /\ Fairness

-----------------------------------------------------------------------------
(* Properties *)

TypeOK ==
    /\ row \in [Tasks -> Row]
    /\ audit \in [Tasks -> [Actions -> Nat]]
    /\ broker \subseteq Message
    /\ worker \in [Workers -> Worker]
    /\ operator \in [Operators -> Request \cup {NoRequest}]
    /\ published \subseteq Tokens
    /\ indexed \subseteq Tasks
    /\ cleared \subseteq Tasks
    /\ clock \in Nat
    /\ faults \in Nat

\* The audit trail of a task tells its state: nothing is recorded before the
\* row leaves queued, one opening event while it runs, and one terminal event,
\* by a worker or by an operator, once it has ended; a retry is scheduled only
\* by a worker that started the task, and never more often counted than audited.
AuditTrail ==
    \A t \in Tasks :
        LET n == audit[t]
            opened == n["task.started"]
            ended == n["task.succeeded"] + n["task.failed"]
            moved == n["task.transitioned"]
        IN  /\ row[t].state = "queued" => opened + ended + moved = 0
            /\ row[t].state = "running" => opened + moved = 1 /\ ended = 0
            /\ row[t].state \in Terminal => opened + ended + moved \in {1, 2}
            /\ n["task.succeeded"] > 0 => row[t].state = "succeeded" /\ opened = 1
            /\ n["task.failed"] > 0 => row[t].state = "failed" /\ opened = 1
            /\ row[t].retry <= n["task.retry_scheduled"]
            /\ n["task.retry_scheduled"] > 0 => opened = 1

\* A row that has ended is never written again: neither a worker that held a
\* lease when an operator ended the task, nor a redelivered message, nor a
\* second transition request touches any column.
TerminalIsFinal ==
    [][\A t \in Tasks : row[t].state \in Terminal => row'[t] = row[t]]_vars

\* Two processes run the handler of one task only when the lease of one of them
\* has run out, whatever was redelivered, retried or stale when it claimed.
LeaseExclusion ==
    \A w1, w2 \in Workers :
        /\ w1 # w2
        /\ worker[w1].pc \in Executing
        /\ worker[w2].pc \in Executing
        /\ TaskOfWorker(w1) = TaskOfWorker(w2)
        => worker[w1].deadline <= clock \/ worker[w2].deadline <= clock

\* The retry budget: no attempt runs that was not scheduled, the row counts at
\* most one attempt ahead of the one it holds, and never more than
\* MAX_INGESTION_RETRIES.
RetryBudget ==
    \A t \in Tasks : /\ row[t].attempt <= row[t].retry
                     /\ row[t].retry <= row[t].attempt + 1
                     /\ row[t].retry <= MAX_INGESTION_RETRIES

\* task.succeeded is recorded only for a task whose chunks are in the index,
\* however often the attempt was taken over.
SuccessIsIndexed ==
    \A t \in Tasks : audit[t]["task.succeeded"] > 0 => t \in indexed

\* A message or a process that can still take task t to its end: one that runs
\* the attempt the row holds, one that will publish the attempt it scheduled, or
\* one that the row's columns let take the attempt over when its turn comes.
Carried(t) ==
    LET r == row[t]
        admits(k, retries, now) ==
            \/ r.state = "queued"
            \/ /\ r.token = k
               /\ \/ r.attempt = retries /\ r.expires < now
                  \/ r.attempt < retries /\ r.retry = retries /\ r.expires <= now
    IN  \/ \E m \in broker :
              TaskOf[m.token] = t /\ admits(m.token, m.retries, Larger(m.visible, clock))
        \/ \E w \in Workers : worker[w].pc # "idle" /\ TaskOfWorker(w) = t /\
              \/ worker[w].pc \in Executing /\ OwnsAttempt(w)
              \/ worker[w].pc = "republish" /\ r.retry = worker[w].retries + 1
              \/ worker[w].pc \in Claiming /\ admits(worker[w].token, worker[w].retries,
                                                      worker[w].now)

\* What the deployment must provide for that: statements, the broker's intake
\* and child processes do not fail, and a lost message returns only when the
\* lease of the process that held it has run out.
Reliable ==
    /\ FaultKinds \cap {"database", "broker", "child_lost"} = {}
    /\ VISIBILITY_TIMEOUT > WORKER_LEASE_DURATION

\* No published task is forgotten: something can still end every task that has
\* not ended, whatever was redelivered, duplicated, retried or lost with a
\* container, unless an operator moved the row by hand.  Without Reliable a
\* fault can strand a row in the state running.
NothingIsForgotten ==
    Reliable =>
        \A k \in published : LET t == TaskOf[k] IN
            \/ row[t].state \in Terminal
            \/ audit[t]["task.transitioned"] > 0
            \/ Carried(t)

\* The tasks table keeps the promise of TaskLifecycle.
Lifecycle == INSTANCE TaskLifecycle WITH
    state  <- [t \in Tasks |-> row[t].state],
    events <- [t \in Tasks |-> audit[t]["task.started"] + audit[t]["task.succeeded"]
                               + audit[t]["task.failed"] + audit[t]["task.transitioned"]]

ImplementsLifecycle == Lifecycle!Spec

\* Every task whose message was published reaches a terminal state.
EveryTaskEnds ==
    \A k \in Tokens : k \in published ~> row[TaskOf[k]].state \in Terminal

\* A success that a worker recorded is followed by a cache invalidation as
\* long as no process, statement or Redis call fails in between.
SuccessClearsCache ==
    \A t \in Tasks : audit[t]["task.succeeded"] > 0 /\ faults = 0
                     ~> t \in cleared \/ faults > 0

\* A row that says running although no process executes its attempt.
Abandoned(t) ==
    /\ row[t].state = "running"
    /\ row[t].token # NoToken
    /\ \A w \in Workers : worker[w].pc \in Executing => worker[w].lease # row[t].lease

\* What the tests of lease recovery say of a crashed attempt: a redelivery
\* takes the task over, so no row stays abandoned for ever.
CrashedAttemptRecovers == \A t \in Tasks : Abandoned(t) ~> ~Abandoned(t)
=============================================================================
