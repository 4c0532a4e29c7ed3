------------------------------ MODULE AgentRuns ------------------------------
(***************************************************************************)
(* POST /v1/agent/runs: the operations graph (agent/graph.py) run by       *)
(* several API threads, each against a tool budget session of its own, and *)
(* the bounded store of completed runs they share (agent/state.py).  The   *)
(* sessions are those of ToolSessions; the graph is their only client.     *)
(***************************************************************************)
EXTENDS Integers, Sequences, FiniteSets

CONSTANTS
    Requests,       \* POST requests, each handled by a thread
    Questions,      \* Questions[r]: what the request asks
    RunIds,         \* uuid4 values
    Nonces, References,
    MAX_TOTAL_TOOL_CALLS, MAX_CALLS, MAX_BATCH,
    MAX_ENTRIES,    \* capacity of InMemoryAgentRunStore
    MaxCollisions,  \* bound on draws of a run id that was drawn before
    None

Kinds == {"research", "unrecognized", "history", "anomaly", "retrieval",
          "retrieval_malformed"}

ASSUME RunsOK ==
    /\ Questions \in [Requests -> Kinds]
    /\ MAX_ENTRIES \in Nat \ {0}
    /\ MaxCollisions \in Nat
    /\ MAX_TOTAL_TOOL_CALLS \in Nat \ {0}
    /\ MAX_CALLS \in Nat \ {0}
    /\ MAX_BATCH \in Nat \ {0}
    /\ None \notin {"tool_completed", "tool_result_unavailable"}

\* Every attempt of a request creates its own session.
Sessions == Requests \X (0 .. MaxCollisions)

VARIABLES
    budget, grants, consumed, redeemed, receipts, batches,  \* of ToolSessions
    retriever,   \* whether the graph was built with a retriever
    run,         \* run[r]: the thread that handles r, and its AgentState
    drawn,       \* run ids drawn so far
    collisions,  \* draws of an id that was drawn before
    store,       \* _results: run ids in insertion order
    results,     \* results[id]: the AgentRunCompleted stored under id
    saved        \* history: every id in the order its save returned True

policy == <<budget, grants, consumed, redeemed, receipts, batches>>
vars == <<policy, retriever, run, drawn, collisions, store, results, saved>>

Policy == INSTANCE ToolSessions

-----------------------------------------------------------------------------
(* Data *)

Dimensions == {"A", "B", "C"}
_TOOL_ALLOWED_DIMENSIONS ==
    [t \in Policy!PUBLIC_TOOL_REGISTRY |->
        CASE t = "retrieve_public_water_knowledge" -> "C"
          [] t = "aggregate_public_history"        -> "A"
          [] t = "screen_public_anomaly"           -> "B"]

\* _diagnostic_tool_request: the tool a question asks for.
ToolOf(kind) ==
    CASE kind = "history"  -> "aggregate_public_history"
      [] kind = "anomaly"  -> "screen_public_anomaly"
      [] kind \in {"retrieval", "retrieval_malformed"} -> "retrieve_public_water_knowledge"
      [] OTHER -> None

available == IF retriever THEN Policy!PUBLIC_TOOL_REGISTRY ELSE Policy!WithoutRetriever

Decision(r) ==
    Policy!authorize_public_tool_call(ToolOf(Questions[r]),
        Questions[r] # "retrieval_malformed", available, budget[run[r].session])

\* coverage_gate: evidence of another dimension's tool raises (Admissible); a
\* dimension without evidence, or without a displayable conclusion, is missing.
Admissible(evidence) ==
    \A d \in Dimensions : \A b \in evidence[d] :
        _TOOL_ALLOWED_DIMENSIONS[b.receipt.tool] = d

coverage_gate(evidence, conclusions) ==
    [d \in Dimensions |-> IF evidence[d] = {} THEN "public_evidence_missing"
                          ELSE IF d \notin conclusions THEN "conclusion_missing"
                          ELSE "concluded"]

Nothing == [d \in Dimensions |-> {}]
Refused == [evidence |-> {}, coverage |-> coverage_gate(Nothing, {})]

\* The AgentState a run starts from, and the AgentState fields the graph sets.
Fresh(r, attempt, id) ==
    [pc |-> "begin", attempt |-> attempt, session |-> <<r, attempt>>, run_id |-> id,
     grant |-> None, receipt |-> None, tool_budget |-> Policy!initial,
     trace |-> None, result |-> Refused]

\* _safe_refusal: what was gathered so far is not in the answer.
Refuse(r, trace) ==
    run' = [run EXCEPT ![r] =
               [@ EXCEPT !.pc = "save", !.trace = trace, !.result = Refused]]

-----------------------------------------------------------------------------
(* submit_run and the graph *)

\* uuid4: an id drawn before is a collision.
Draw(r, attempt, id) ==
    /\ collisions' = collisions + IF id \in drawn THEN 1 ELSE 0
    /\ collisions' <= MaxCollisions
    /\ drawn' = drawn \cup {id}
    /\ run' = [run EXCEPT ![r] = Fresh(r, attempt, id)]

Submit(r, id) ==
    /\ run[r].pc = "idle"
    /\ Draw(r, 0, id)
    /\ UNCHANGED <<policy, retriever, store, results, saved>>

\* The research graph, and the operations graph on a question it does not
\* recognize, refuse without a session being asked for anything.
RefuseAtOnce(r) ==
    /\ run[r].pc = "begin"
    /\ ToolOf(Questions[r]) = None
    /\ Refuse(r, None)
    /\ UNCHANGED <<policy, retriever, drawn, collisions, store, results, saved>>

Authorize(r) ==
    /\ run[r].pc = "begin"
    /\ ToolOf(Questions[r]) # None
    /\ Policy!Issue(run[r].session, ToolOf(Questions[r]),
                    Questions[r] # "retrieval_malformed", available)
    /\ \E g \in grants' \ grants :
          run' = [run EXCEPT ![r] = [@ EXCEPT !.pc = "granted", !.grant = g]]
    /\ UNCHANGED <<retriever, drawn, collisions, store, results, saved>>

Unauthorized(r) ==
    /\ run[r].pc = "begin"
    /\ ToolOf(Questions[r]) # None
    /\ Decision(r) # "tool_allowed"
    /\ Refuse(r, Decision(r))
    /\ UNCHANGED <<policy, retriever, drawn, collisions, store, results, saved>>

\* Broken variant: the state keeps showing the budget the run began with.
ConsumeUnseen(r) ==
    /\ run[r].pc = "granted"
    /\ Policy!Consume(run[r].grant, ToolOf(Questions[r]), run[r].session)
    /\ \E c \in receipts' \ receipts :
          run' = [run EXCEPT ![r] = [@ EXCEPT !.pc = "charged", !.receipt = c]]
    /\ UNCHANGED <<retriever, drawn, collisions, store, results, saved>>

\* The budget the state shows is the one the consumption returned.
ConsumeGrant(r) ==
    /\ run[r].pc = "granted"
    /\ Policy!Consume(run[r].grant, ToolOf(Questions[r]), run[r].session)
    /\ \E c \in receipts' \ receipts :
          run' = [run EXCEPT ![r] =
                     [@ EXCEPT !.pc = "charged", !.receipt = c,
                               !.tool_budget = budget'[run[r].session]]]
    /\ UNCHANGED <<retriever, drawn, collisions, store, results, saved>>

\* The tool raises, is not ok, or its result or its evidence does not validate.
ToolFails(r) ==
    /\ run[r].pc = "charged"
    /\ Refuse(r, "tool_result_unavailable")
    /\ UNCHANGED <<policy, retriever, drawn, collisions, store, results, saved>>

\* The dimension of the tool that ran gets its evidence.  The conclusions of A
\* and B are fixed texts; the snippet shown under C may not be displayable.
CoverageOf(tool, b, safe) ==
    LET d == _TOOL_ALLOWED_DIMENSIONS[tool] IN
    [evidence |-> [Nothing EXCEPT ![d] = {b}],
     conclusions |-> IF d = "C" /\ ~safe THEN {} ELSE {d}]

Complete(r, references, coverage) ==
    run' = [run EXCEPT ![r] =
               [@ EXCEPT !.pc = "save", !.trace = "tool_completed",
                         !.result = [evidence |-> references, coverage |-> coverage]]]

\* Broken variant: the tool's evidence is cited without being minted.
AnswerUnminted(r, references, safe) ==
    /\ run[r].pc = "charged"
    /\ Complete(r, references, coverage_gate(Nothing, {}))
    /\ UNCHANGED <<policy, retriever, drawn, collisions, store, results, saved>>

\* The tool answers, its evidence is minted and the coverage gate passed; a
\* diagnostic cites one reference, a retrieval one to MAX_BATCH.
Answer(r, references, safe) ==
    LET receipt == run[r].receipt
        b == [receipt |-> receipt, references |-> references]
        c == CoverageOf(receipt.tool, b, safe)
    IN  /\ run[r].pc = "charged"
        /\ receipt.tool # "retrieve_public_water_knowledge" => Cardinality(references) = 1
        /\ Policy!Mint(receipt, references)
        /\ IF Admissible(c.evidence)
           THEN Complete(r, references, coverage_gate(c.evidence, c.conclusions))
           ELSE Refuse(r, "tool_result_unavailable")
        /\ UNCHANGED <<retriever, drawn, collisions, store, results, saved>>

-----------------------------------------------------------------------------
(* InMemoryAgentRunStore *)

\* Broken variants: the newest results go; one result too many is kept.
EvictNewest(q) == IF Len(q) > MAX_ENTRIES THEN SubSeq(q, 1, MAX_ENTRIES) ELSE q

\* while len(_results) > _max_entries: popitem(last=False).
Evict(q) == IF Len(q) > MAX_ENTRIES THEN SubSeq(q, Len(q) - MAX_ENTRIES + 1, Len(q)) ELSE q

Stored == { store[i] : i \in 1 .. Len(store) }

Completed(r) == [request |-> r, result |-> run[r].result]

\* Broken variant: a result is stored over another one.
SaveOver(r) ==
    LET id == run[r].run_id IN
    /\ run[r].pc = "save"
    /\ store' = Evict(Append(store, id))
    /\ results' = [results EXCEPT ![id] = Completed(r)]
    /\ saved' = Append(saved, id)
    /\ run' = [run EXCEPT ![r] = [@ EXCEPT !.pc = "done"]]
    /\ UNCHANGED <<policy, retriever, drawn, collisions>>

Save(r) ==
    LET id == run[r].run_id IN
    /\ run[r].pc = "save"
    /\ id \notin Stored
    /\ store' = Evict(Append(store, id))
    /\ results' = [results EXCEPT ![id] = Completed(r)]
    /\ saved' = Append(saved, id)
    /\ run' = [run EXCEPT ![r] = [@ EXCEPT !.pc = "done"]]
    /\ UNCHANGED <<policy, retriever, drawn, collisions>>

\* Broken variant: the same id is tried again.
SaveRefusedAgain(r, id) ==
    /\ run[r].pc = "save"
    /\ run[r].run_id \in Stored
    /\ id = run[r].run_id
    /\ run' = [run EXCEPT ![r] = Fresh(r, run[r].attempt, id)]
    /\ UNCHANGED <<policy, retriever, drawn, collisions, store, results, saved>>

\* save returns False: submit_run draws another id and runs the graph again.
SaveRefused(r, id) ==
    /\ run[r].pc = "save"
    /\ run[r].run_id \in Stored
    /\ run[r].attempt < MaxCollisions
    /\ Draw(r, run[r].attempt + 1, id)
    /\ UNCHANGED <<policy, retriever, store, results, saved>>

-----------------------------------------------------------------------------
Init ==
    /\ Policy!Init
    /\ retriever \in BOOLEAN
    /\ run = [r \in Requests |-> [Fresh(r, 0, None) EXCEPT !.pc = "idle"]]
    /\ drawn = {}
    /\ collisions = 0
    /\ store = <<>>
    /\ results = [id \in RunIds |-> None]
    /\ saved = <<>>

Step(r) ==
    \/ RefuseAtOnce(r) \/ Authorize(r) \/ Unauthorized(r) \/ ConsumeGrant(r)
    \/ ToolFails(r)
    \/ \E references \in SUBSET References, safe \in BOOLEAN : Answer(r, references, safe)
    \/ Save(r)
    \/ \E id \in RunIds : SaveRefused(r, id)

Next == \E r \in Requests : Step(r) \/ \E id \in RunIds : Submit(r, id)

Spec == Init /\ [][Next]_vars

\* A thread that accepted a request goes on with it.
FairSpec == Spec /\ \A r \in Requests : WF_vars(Step(r))

-----------------------------------------------------------------------------
(* Properties *)

Pc == {"idle", "begin", "granted", "charged", "save", "done"}
Result == [evidence : SUBSET References,
           coverage : [Dimensions -> {"public_evidence_missing", "conclusion_missing",
                                      "concluded"}]]

Traces == {"tool_not_allowlisted", "tool_unavailable", "invalid_tool_request",
           "invalid_tool_budget", "tool_budget_exhausted", "tool_call_limit_reached",
           "tool_completed", "tool_result_unavailable"}

AgentState ==
    [pc : Pc, attempt : 0 .. MaxCollisions, session : Sessions,
     run_id : RunIds \cup {None}, grant : Policy!Capability \cup {None},
     receipt : Policy!Capability \cup {None}, tool_budget : Policy!ToolBudget,
     trace : Traces \cup {None}, result : Result]

TypeOK ==
    /\ Policy!TypeOK
    /\ retriever \in BOOLEAN
    /\ run \in [Requests -> AgentState]
    /\ drawn \subseteq RunIds
    /\ collisions \in 0 .. MaxCollisions
    /\ store \in Seq(RunIds) /\ saved \in Seq(RunIds)
    /\ results \in [RunIds -> [request : Requests, result : Result] \cup {None}]

\* What a completed run cites was shown by an execution of the question's own
\* tool in the run's own session, and only that tool's dimension is covered; a
\* refusal cites nothing and covers nothing, whatever happened before it.
AnswersAreBacked ==
    \A r \in Requests :
        LET answer == run[r].result
            tool == ToolOf(Questions[r])
            covered == { d \in Dimensions : answer.coverage[d] # "public_evidence_missing" }
        IN  run[r].pc \in {"save", "done"} =>
                IF answer.evidence = {} THEN covered = {}
                ELSE /\ covered = {_TOOL_ALLOWED_DIMENSIONS[tool]}
                     /\ \E b \in batches : /\ b.receipt.session = run[r].session
                                           /\ b.receipt.tool = tool
                                           /\ b.references = answer.evidence

\* A run that is over charged its session at most once, exactly when its trace
\* says that the tool ran, and shows the budget its session really has.
ChargesAreTraced ==
    \A r \in Requests : run[r].pc \in {"save", "done"} =>
        /\ run[r].tool_budget = budget[run[r].session]
        /\ Cardinality(consumed[run[r].session]) =
              IF run[r].trace \in {"tool_completed", "tool_result_unavailable"}
              THEN 1 ELSE 0

\* The store is the most recent MAX_ENTRIES saves, oldest first, whatever order
\* the threads save in and however often an id is drawn twice.
StoreKeepsLatest ==
    LET n == Len(saved)
        m == IF n > MAX_ENTRIES THEN MAX_ENTRIES ELSE n
    IN  store = SubSeq(saved, n - m + 1, n)

\* While a result is stored, nobody else's run takes its place under its id.
ResultsStayPut ==
    [][\A id \in RunIds : (id \in Stored /\ id \in Stored') => results'[id] = results[id]]_vars

\* A submitted run is answered, although a thread whose id was taken runs the
\* graph again, as long as uuid4 repeats itself only finitely often.
EverySubmissionCompletes ==
    \A r \in Requests : run[r].pc = "begin" ~> run[r].pc = "done"
=============================================================================
