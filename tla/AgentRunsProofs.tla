-------------------------- MODULE AgentRunsProofs --------------------------
(***************************************************************************)
(* Theorems about AgentRuns, for any number of requests, run ids and       *)
(* collisions, any limits and any capacity of the store.                   *)
(***************************************************************************)
EXTENDS AgentRuns, FiniteSetTheorems, SequenceTheorems, TLAPS

Unused(s) == consumed[s] = {} /\ budget[s] = Policy!initial
ChargedOnce(s) == \E n \in Nonces : consumed[s] = {n}

\* What a run carries is its own: its session is that of its attempt, and its
\* grant or receipt is of this session and of the tool its question asks for.
CarriesItsOwn(r) ==
    /\ run[r].session = <<r, run[r].attempt>>
    /\ IF run[r].pc = "idle" THEN run[r].attempt = 0 ELSE run[r].run_id \in RunIds
    /\ run[r].pc = "granted" => /\ run[r].grant \in grants
                                /\ run[r].grant.session = run[r].session
                                /\ run[r].grant.tool = ToolOf(Questions[r])
                                /\ ToolOf(Questions[r]) \in Policy!PUBLIC_TOOL_REGISTRY
    /\ run[r].pc = "charged" => /\ run[r].receipt \in receipts
                                /\ run[r].receipt.session = run[r].session
                                /\ run[r].receipt.tool = ToolOf(Questions[r])
                                /\ ToolOf(Questions[r]) \in Policy!PUBLIC_TOOL_REGISTRY

\* What the place of a run implies of the charges of its session; the sessions
\* of later attempts are untouched.
Charges(r) ==
    /\ \A a \in 0 .. MaxCollisions : a > run[r].attempt => Unused(<<r, a>>)
    /\ run[r].pc \in {"idle", "begin", "granted"} => Unused(run[r].session)
    /\ run[r].pc = "charged" => ChargedOnce(run[r].session)
    /\ run[r].pc \in {"save", "done"} =>
          IF run[r].trace \in {"tool_completed", "tool_result_unavailable"}
          THEN ChargedOnce(run[r].session)
          ELSE consumed[run[r].session] = {}
    /\ run[r].tool_budget = budget[run[r].session]

\* AnswersAreBacked, for one request.
Backed(r) ==
    LET answer == run[r].result
        tool == ToolOf(Questions[r])
        covered == { d \in Dimensions : answer.coverage[d] # "public_evidence_missing" }
    IN  run[r].pc \in {"save", "done"} =>
            IF answer.evidence = {} THEN covered = {}
            ELSE /\ covered = {_TOOL_ALLOWED_DIMENSIONS[tool]}
                 /\ \E b \in batches : /\ b.receipt.session = run[r].session
                                       /\ b.receipt.tool = tool
                                       /\ b.references = answer.evidence

Good(r) == CarriesItsOwn(r) /\ Charges(r) /\ Backed(r)

IInv == TypeOK /\ (\A r \in Requests : Good(r)) /\ StoreKeepsLatest

\* Broken down by what a step touches: every action changes one run and, of
\* the sessions, only those of its own request.
Touches(r) ==
    /\ \A q \in Requests \ {r} : run'[q] = run[q]
    /\ \A q \in Requests \ {r}, a \in 0 .. MaxCollisions :
          budget'[<<q, a>>] = budget[<<q, a>>] /\ consumed'[<<q, a>>] = consumed[<<q, a>>]
    /\ grants \subseteq grants' /\ receipts \subseteq receipts' /\ batches \subseteq batches'

-----------------------------------------------------------------------------
(* Data *)

\* The values of the data the types are built from.
LEMMA Values ==
    /\ Refused \in Result
    /\ \A d \in Dimensions : Refused.coverage[d] = "public_evidence_missing"
    /\ Refused.evidence = {}
    /\ \A e, c : coverage_gate(e, c) \in
          [Dimensions -> {"public_evidence_missing", "conclusion_missing", "concluded"}]
    /\ Policy!initial \in Policy!ToolBudget
    /\ \A k : ToolOf(k) # None => ToolOf(k) \in Policy!PUBLIC_TOOL_REGISTRY
    /\ available \in {Policy!PUBLIC_TOOL_REGISTRY, Policy!WithoutRetriever}
<1>1. \A e, c : coverage_gate(e, c) \in
          [Dimensions -> {"public_evidence_missing", "conclusion_missing", "concluded"}]
  BY DEF coverage_gate
<1>2. /\ Refused.evidence = {}
      /\ Refused.coverage = coverage_gate(Nothing, {})
      /\ Refused = [evidence |-> {}, coverage |-> coverage_gate(Nothing, {})]
  BY DEF Refused
<1>3. Refused \in Result
  BY <1>1, <1>2 DEF Result
<1>4. \A d \in Dimensions : Refused.coverage[d] = "public_evidence_missing"
  BY <1>2 DEF coverage_gate, Nothing
<1>5. Policy!initial \in Policy!ToolBudget
  BY RunsOK DEF Policy!initial, Policy!ToolBudget
<1>6. \A k : ToolOf(k) # None => ToolOf(k) \in Policy!PUBLIC_TOOL_REGISTRY
  BY DEF ToolOf, Policy!PUBLIC_TOOL_REGISTRY
<1>7. available \in {Policy!PUBLIC_TOOL_REGISTRY, Policy!WithoutRetriever}
  BY DEF available
<1> QED BY <1>1, <1>2, <1>3, <1>4, <1>5, <1>6, <1>7

\* A decision is a trace unless it allows the call.
LEMMA Decisions ==
    ASSUME NEW n, NEW v, NEW o, NEW b
    PROVE  Policy!authorize_public_tool_call(n, v, o, b) \in
              {"tool_not_allowlisted", "tool_unavailable", "invalid_tool_request",
               "invalid_tool_budget", "tool_budget_exhausted", "tool_call_limit_reached",
               "tool_allowed"}
  BY DEF Policy!authorize_public_tool_call

\* A budget that may be charged is a budget when it was.
LEMMA ChargeFits ==
    ASSUME NEW b \in Policy!ToolBudget, NEW t \in Policy!PUBLIC_TOOL_REGISTRY,
           Policy!may_consume(b, t)
    PROVE  Policy!consume(b, t) \in Policy!ToolBudget
<1>1. /\ b.remaining_total \in 0 .. MAX_TOTAL_TOOL_CALLS
      /\ b.used_by_tool \in [Policy!PUBLIC_TOOL_REGISTRY -> 0 .. MAX_CALLS]
      /\ b.remaining_total >= 1
      /\ b.used_by_tool[t] < MAX_CALLS
  BY DEF Policy!ToolBudget, Policy!may_consume
<1>2. /\ b.remaining_total - 1 \in 0 .. MAX_TOTAL_TOOL_CALLS
      /\ [b.used_by_tool EXCEPT ![t] = @ + 1] \in [Policy!PUBLIC_TOOL_REGISTRY -> 0 .. MAX_CALLS]
  BY <1>1, RunsOK
<1> QED BY <1>2 DEF Policy!consume, Policy!ToolBudget

\* The instance counts as this module does.
LEMMA SameCount == \A S : Policy!Cardinality(S) = Cardinality(S)
  BY DEF Policy!Cardinality, Cardinality

\* A fresh AgentState.
LEMMA FreshState ==
    ASSUME NEW r \in Requests, NEW a \in 0 .. MaxCollisions, NEW id \in RunIds \cup {None}
    PROVE  /\ Fresh(r, a, id) \in AgentState
           /\ Fresh(r, a, id).pc = "begin"
           /\ Fresh(r, a, id).attempt = a
           /\ Fresh(r, a, id).session = <<r, a>>
           /\ Fresh(r, a, id).run_id = id
           /\ Fresh(r, a, id).tool_budget = Policy!initial
  BY Values DEF Fresh, AgentState, Pc, Sessions

\* Whoever a step does not touch stays as it is.
LEMMA OthersStay ==
    ASSUME TypeOK, NEW r \in Requests, NEW q \in Requests \ {r}, Good(q), Touches(r)
    PROVE  Good(q)'
<1>1. run'[q] = run[q] /\ run[q] \in AgentState /\ run[q].session = <<q, run[q].attempt>>
  BY DEF Touches, TypeOK, Good, CarriesItsOwn
<1>2. run[q].attempt \in 0 .. MaxCollisions
  BY <1>1 DEF AgentState
<1>3. \A a \in 0 .. MaxCollisions : budget'[<<q, a>>] = budget[<<q, a>>]
                                     /\ consumed'[<<q, a>>] = consumed[<<q, a>>]
  BY DEF Touches
<1>4. CarriesItsOwn(q)'
  BY <1>1 DEF Good, CarriesItsOwn, Touches
<1>5. Charges(q)'
  BY <1>1, <1>2, <1>3 DEF Good, Charges, Unused, ChargedOnce
<1>6. Backed(q)'
  BY <1>1 DEF Good, Backed, Touches
<1> QED BY <1>4, <1>5, <1>6 DEF Good

-----------------------------------------------------------------------------
(* One lemma per action: types, what it touches, and the run it changes *)

Kept(r) == TypeOK' /\ Touches(r) /\ Good(r)'

\* A request that starts an attempt finds that attempt's session untouched.
LEMMA DrawKeeps ==
    ASSUME TypeOK, NEW r \in Requests, NEW a \in 0 .. MaxCollisions, NEW id \in RunIds,
           \A x \in 0 .. MaxCollisions : x >= a => Unused(<<r, x>>),
           Draw(r, a, id), UNCHANGED <<policy, retriever, store, results, saved>>
    PROVE  Kept(r)
<1>1. /\ run' = [run EXCEPT ![r] = Fresh(r, a, id)]
      /\ drawn' = drawn \cup {id}
      /\ collisions' = collisions + (IF id \in drawn THEN 1 ELSE 0)
      /\ collisions' <= MaxCollisions
  BY DEF Draw
<1>2. run'[r] = Fresh(r, a, id) /\ run' \in [Requests -> AgentState]
  BY <1>1, FreshState DEF TypeOK
<1>3. UNCHANGED <<budget, grants, consumed, redeemed, receipts, batches>>
  BY DEF policy
<1>4. Policy!TypeOK'
  BY <1>3 DEF TypeOK, Policy!TypeOK
<1>5. collisions' \in 0 .. MaxCollisions
  BY <1>1, RunsOK DEF TypeOK
<1>6. TypeOK'
  BY <1>1, <1>2, <1>4, <1>5 DEF TypeOK
<1>7. Touches(r)
  BY <1>1, <1>3 DEF Touches, TypeOK
<1>8. CarriesItsOwn(r)'
  BY <1>2, FreshState DEF CarriesItsOwn
<1>9. Charges(r)'
  <2>1. /\ run'[r].pc = "begin" /\ run'[r].attempt = a /\ run'[r].session = <<r, a>>
        /\ run'[r].tool_budget = Policy!initial
    BY <1>2, FreshState
  <2>2. \A x \in 0 .. MaxCollisions : x >= a => Unused(<<r, x>>)'
    BY <1>3 DEF Unused
  <2>3. Unused(<<r, a>>)'
    BY <2>2
  <2>4. \A x \in 0 .. MaxCollisions : x > a => Unused(<<r, x>>)'
    BY <2>2
  <2>5. (run[r].session)' = <<r, a>>
    BY <2>1
  <2>6. Unused(run[r].session)'
    BY <2>1, <2>3 DEF Unused
  <2>7. budget'[<<r, a>>] = Policy!initial
    BY <2>3 DEF Unused
  <2> QED BY <2>1, <2>4, <2>6, <2>7 DEF Charges
<1>10. Backed(r)'
  BY <1>2, FreshState DEF Backed
<1> QED BY <1>6, <1>7, <1>8, <1>9, <1>10 DEF Kept, Good

LEMMA SubmitKeeps ==
    ASSUME TypeOK, NEW r \in Requests, Good(r), NEW id \in RunIds, Submit(r, id)
    PROVE  Kept(r)
<1>1. Draw(r, 0, id) /\ UNCHANGED <<policy, retriever, store, results, saved>>
  BY DEF Submit
<1>2. run[r].attempt = 0 /\ run[r].session = <<r, 0>> /\ Unused(run[r].session)
  BY DEF Submit, Good, CarriesItsOwn, Charges
<1>3. \A x \in 0 .. MaxCollisions : x >= 0 => Unused(<<r, x>>)
  <2>1. TAKE x \in 0 .. MaxCollisions
  <2>2. CASE x = 0
    BY <2>2, <1>2
  <2>3. CASE x > 0
    BY <2>3, <1>2 DEF Good, Charges
  <2> QED BY <2>2, <2>3
<1> QED BY <1>1, <1>3, RunsOK, DrawKeeps

LEMMA SaveRefusedKeeps ==
    ASSUME TypeOK, NEW r \in Requests, Good(r), NEW id \in RunIds, SaveRefused(r, id)
    PROVE  Kept(r)
<1>1. /\ run[r].attempt < MaxCollisions
      /\ Draw(r, run[r].attempt + 1, id)
      /\ UNCHANGED <<policy, retriever, store, results, saved>>
  BY DEF SaveRefused, Draw
<1>2. run[r].attempt + 1 \in 0 .. MaxCollisions
  BY <1>1, RunsOK DEF TypeOK, AgentState
<1>3. \A x \in 0 .. MaxCollisions : x >= run[r].attempt + 1 => Unused(<<r, x>>)
  BY <1>2, RunsOK DEF Good, Charges, TypeOK, AgentState
<1> QED BY <1>1, <1>2, <1>3, DrawKeeps

\* A refusal: the run answers nothing and its session stays as it is.
LEMMA RefuseKeeps ==
    ASSUME TypeOK, NEW r \in Requests, Good(r), NEW trace \in Traces \cup {None},
           run[r].pc \in {"begin", "charged"}, Refuse(r, trace),
           run[r].pc = "begin" => trace \notin {"tool_completed", "tool_result_unavailable"},
           run[r].pc = "charged" => trace = "tool_result_unavailable",
           UNCHANGED <<policy, retriever, drawn, collisions, store, results, saved>>
    PROVE  Kept(r)
<1> DEFINE y == [run[r] EXCEPT !.pc = "save", !.trace = trace, !.result = Refused]
<1>1. run' = [run EXCEPT ![r] = y] /\ run[r] \in AgentState
  BY DEF Refuse, TypeOK
<1>2. /\ y \in AgentState /\ y.pc = "save" /\ y.trace = trace /\ y.result = Refused
      /\ y.attempt = run[r].attempt /\ y.session = run[r].session
      /\ y.run_id = run[r].run_id /\ y.tool_budget = run[r].tool_budget
  BY <1>1, Values DEF AgentState, Pc
<1> HIDE DEF y
<1>3. run'[r] = y /\ run' \in [Requests -> AgentState]
  BY <1>1, <1>2 DEF TypeOK
<1>4. UNCHANGED <<budget, grants, consumed, redeemed, receipts, batches>>
  BY DEF policy
<1>5. Policy!TypeOK'
  BY <1>4 DEF TypeOK, Policy!TypeOK
<1>6. TypeOK'
  BY <1>3, <1>5 DEF TypeOK
<1>7. Touches(r)
  BY <1>1, <1>4 DEF Touches, TypeOK
<1>8. CarriesItsOwn(r)'
  BY <1>2, <1>3 DEF CarriesItsOwn, Good
<1>9. Charges(r)'
  BY <1>2, <1>3, <1>4 DEF Charges, Unused, ChargedOnce, Good
<1>10. Backed(r)'
  BY <1>2, <1>3, Values DEF Backed
<1> QED BY <1>6, <1>7, <1>8, <1>9, <1>10 DEF Kept, Good

LEMMA RefusalsKeep ==
    ASSUME TypeOK, NEW r \in Requests, Good(r),
           RefuseAtOnce(r) \/ Unauthorized(r) \/ ToolFails(r)
    PROVE  Kept(r)
<1>1. CASE RefuseAtOnce(r)
  <2>1. None \notin {"tool_completed", "tool_result_unavailable"}
    BY RunsOK
  <2> QED BY <1>1, <2>1, RefuseKeeps DEF RefuseAtOnce
<1>2. CASE Unauthorized(r)
  <2>1. /\ Decision(r) \in Traces
        /\ Decision(r) \notin {"tool_completed", "tool_result_unavailable"}
    BY <1>2, Decisions DEF Decision, Traces, Unauthorized
  <2> QED BY <1>2, <2>1, RefuseKeeps DEF Unauthorized
<1>3. CASE ToolFails(r)
  BY <1>3, RefuseKeeps DEF ToolFails, Traces
<1> QED BY <1>1, <1>2, <1>3

\* A grant is issued to the run's own session, for its question's own tool.
LEMMA AuthorizeKeeps ==
    ASSUME TypeOK, NEW r \in Requests, Good(r), Authorize(r)
    PROVE  Kept(r)
<1> DEFINE t == ToolOf(Questions[r])
           s == run[r].session
<1>1. /\ run[r].pc = "begin"
      /\ t \in Policy!PUBLIC_TOOL_REGISTRY
      /\ run[r] \in AgentState
      /\ s \in Sessions
  BY Values DEF Authorize, TypeOK, AgentState
<1>2. PICK n \in Policy!FreshNonces :
          grants' = grants \cup {[session |-> s, tool |-> t, nonce |-> n]}
  BY DEF Authorize, Policy!Issue
<1>3. UNCHANGED <<budget, consumed, redeemed, receipts, batches>>
  BY DEF Authorize, Policy!Issue
<1> DEFINE g == [session |-> s, tool |-> t, nonce |-> n]
           y == [run[r] EXCEPT !.pc = "granted", !.grant = g]
<1>4. g \in Policy!Capability
  BY <1>1 DEF Policy!Capability, Policy!FreshNonces
<1>5. g.session = s /\ g.tool = t
  OBVIOUS
<1>6. run' = [run EXCEPT ![r] = y]
  <2>1. PICK h \in grants' \ grants :
            run' = [run EXCEPT ![r] = [@ EXCEPT !.pc = "granted", !.grant = h]]
    BY DEF Authorize
  <2>2. h = g
    BY <1>2, <2>1
  <2> QED BY <1>1, <2>1, <2>2 DEF TypeOK
<1> HIDE DEF g
<1>7. /\ y \in AgentState /\ y.pc = "granted" /\ y.grant = g
      /\ y.attempt = run[r].attempt /\ y.session = s
      /\ y.run_id = run[r].run_id /\ y.tool_budget = run[r].tool_budget
  BY <1>1, <1>4 DEF AgentState, Pc
<1> HIDE DEF y
<1>8. run'[r] = y /\ run' \in [Requests -> AgentState]
  BY <1>6, <1>7 DEF TypeOK
<1>9. grants' = grants \cup {g}
  BY <1>2 DEF g
<1>10. Policy!TypeOK'
  BY <1>3, <1>4, <1>9 DEF TypeOK, Policy!TypeOK
<1>11. TypeOK'
  BY <1>8, <1>10 DEF TypeOK, Authorize
<1>12. Touches(r)
  BY <1>3, <1>6, <1>9 DEF Touches, TypeOK
<1>13. CarriesItsOwn(r)'
  BY <1>1, <1>5, <1>7, <1>8, <1>9 DEF CarriesItsOwn, Good
<1>14. Charges(r)'
  BY <1>1, <1>3, <1>7, <1>8 DEF Charges, Unused, ChargedOnce, Good
<1>15. Backed(r)'
  BY <1>7, <1>8 DEF Backed
<1> QED BY <1>11, <1>12, <1>13, <1>14, <1>15 DEF Kept, Good

\* A consumption charges the run's own session, which nobody else charges.
LEMMA ConsumeKeeps ==
    ASSUME TypeOK, NEW r \in Requests, Good(r), ConsumeGrant(r)
    PROVE  Kept(r)
<1> DEFINE t == ToolOf(Questions[r])
           s == run[r].session
           n == run[r].grant.nonce
           c == [session |-> s, tool |-> t, nonce |-> n]
           b == Policy!consume(budget[s], t)
           y == [run[r] EXCEPT !.pc = "charged", !.receipt = c, !.tool_budget = b]
<1>1. /\ run[r].pc = "granted"
      /\ t \in Policy!PUBLIC_TOOL_REGISTRY
      /\ run[r] \in AgentState
      /\ s \in Sessions
      /\ s = <<r, run[r].attempt>>
      /\ run[r].attempt \in 0 .. MaxCollisions
      /\ run[r].grant \in grants
      /\ n \in Nonces
      /\ consumed[s] = {}
  BY DEF ConsumeGrant, TypeOK, AgentState, Good, CarriesItsOwn, Charges, Unused,
         Policy!TypeOK, Policy!Capability
<1>2. /\ Policy!may_consume(budget[s], t)
      /\ budget' = [budget EXCEPT ![s] = b]
      /\ consumed' = [consumed EXCEPT ![s] = @ \cup {n}]
      /\ receipts' = receipts \cup {c}
      /\ UNCHANGED <<grants, redeemed, batches>>
  <2>1. Policy!Consume(run[r].grant, t, s)
    BY DEF ConsumeGrant
  <2>2. s \in Sessions /\ budget \in [Sessions -> Policy!ToolBudget]
    BY <1>1 DEF TypeOK, Policy!TypeOK
  <2> QED BY <2>1, <2>2 DEF Policy!Consume, Policy!Charge
<1>3. /\ budget[s] \in Policy!ToolBudget
      /\ DOMAIN budget = Sessions /\ DOMAIN consumed = Sessions
  BY <1>1 DEF TypeOK, Policy!TypeOK
<1>4. b \in Policy!ToolBudget /\ c \in Policy!Capability
  <2>1. b \in Policy!ToolBudget
    BY <1>1, <1>2, <1>3, ChargeFits
  <2>2. c \in Policy!Capability
    BY <1>1 DEF Policy!Capability
  <2> QED BY <2>1, <2>2
<1>5. c.session = s /\ c.tool = t
  OBVIOUS
<1> HIDE DEF b, c
<1>6. run' = [run EXCEPT ![r] = y]
  <2>1. PICK h \in receipts' \ receipts :
            run' = [run EXCEPT ![r] = [@ EXCEPT !.pc = "charged", !.receipt = h,
                                                !.tool_budget = budget'[run[r].session]]]
    BY DEF ConsumeGrant
  <2>2. h = c /\ budget'[s] = b
    BY <1>1, <1>2, <1>3, <2>1
  <2> QED BY <1>1, <2>1, <2>2 DEF TypeOK
<1>7. /\ y \in AgentState /\ y.pc = "charged" /\ y.receipt = c
      /\ y.attempt = run[r].attempt /\ y.session = s
      /\ y.run_id = run[r].run_id /\ y.tool_budget = b
  BY <1>1, <1>4 DEF AgentState, Pc
<1> HIDE DEF y
<1>8. run'[r] = y /\ run' \in [Requests -> AgentState]
  BY <1>6, <1>7 DEF TypeOK
<1>9. /\ budget'[s] = b /\ consumed'[s] = {n}
      /\ \A x \in Sessions \ {s} : budget'[x] = budget[x] /\ consumed'[x] = consumed[x]
  BY <1>1, <1>2, <1>3
<1>10. Policy!TypeOK'
  BY <1>1, <1>2, <1>3, <1>4 DEF TypeOK, Policy!TypeOK
<1>11. TypeOK'
  BY <1>8, <1>10 DEF TypeOK, ConsumeGrant
<1>12. Touches(r)
  <2>1. \A q \in Requests \ {r}, a \in 0 .. MaxCollisions : <<q, a>> \in Sessions \ {s}
    BY <1>1 DEF Sessions
  <2> QED BY <1>2, <1>6, <1>9, <2>1 DEF Touches, TypeOK
<1>13. CarriesItsOwn(r)'
  BY <1>1, <1>2, <1>5, <1>7, <1>8 DEF CarriesItsOwn, Good
<1>14. Charges(r)'
  <2>1. \A a \in 0 .. MaxCollisions : a > run[r].attempt => Unused(<<r, a>>)'
    <3>1. TAKE a \in 0 .. MaxCollisions
    <3>2. HAVE a > run[r].attempt
    <3>3. a # run[r].attempt
      BY <1>1, <3>2
    <3>4. <<r, a>> \in Sessions \ {s}
      BY <1>1, <3>3 DEF Sessions
    <3>5. Unused(<<r, a>>)
      BY <3>2 DEF Good, Charges
    <3> QED BY <1>9, <3>4, <3>5 DEF Unused
  <2>2. ChargedOnce(run[r].session)'
    BY <1>1, <1>7, <1>8, <1>9 DEF ChargedOnce
  <2>3. (run[r].tool_budget = budget[run[r].session])'
    BY <1>7, <1>8, <1>9
  <2> QED BY <1>7, <1>8, <2>1, <2>2, <2>3 DEF Charges
<1>15. Backed(r)'
  BY <1>7, <1>8 DEF Backed
<1> QED BY <1>11, <1>12, <1>13, <1>14, <1>15 DEF Kept, Good

\* Evidence of one tool covers that tool's dimension and no other.
LEMMA OneDimension ==
    ASSUME NEW t \in Policy!PUBLIC_TOOL_REGISTRY, NEW b, NEW safe \in BOOLEAN
    PROVE  LET c == CoverageOf(t, b, safe) IN
           { d \in Dimensions :
                coverage_gate(c.evidence, c.conclusions)[d] # "public_evidence_missing" }
              = {_TOOL_ALLOWED_DIMENSIONS[t]}
<1> DEFINE d0 == _TOOL_ALLOWED_DIMENSIONS[t]
           c == CoverageOf(t, b, safe)
<1>1. d0 \in Dimensions
  BY DEF _TOOL_ALLOWED_DIMENSIONS, Dimensions, Policy!PUBLIC_TOOL_REGISTRY
<1>2. c.evidence = [Nothing EXCEPT ![d0] = {b}]
  BY DEF CoverageOf
<1> HIDE DEF d0, c
<1>3. c.evidence[d0] = {b} /\ \A d \in Dimensions \ {d0} : c.evidence[d] = {}
  BY <1>1, <1>2 DEF Nothing
<1>4. ASSUME NEW d \in Dimensions
      PROVE  coverage_gate(c.evidence, c.conclusions)[d] # "public_evidence_missing" <=> d = d0
  BY <1>3, <1>4 DEF coverage_gate
<1>5. { d \in Dimensions :
          coverage_gate(c.evidence, c.conclusions)[d] # "public_evidence_missing" } = {d0}
  BY <1>1, <1>4
<1> QED BY <1>5 DEF c, d0

\* What is answered has just been minted from the run's own receipt.
LEMMA AnswerKeeps ==
    ASSUME TypeOK, NEW r \in Requests, Good(r), NEW references \in SUBSET References,
           NEW safe \in BOOLEAN, Answer(r, references, safe)
    PROVE  Kept(r)
<1> DEFINE receipt == run[r].receipt
           b == [receipt |-> receipt, references |-> references]
           c == CoverageOf(receipt.tool, b, safe)
           gate == coverage_gate(c.evidence, c.conclusions)
           t == ToolOf(Questions[r])
<1>1. /\ run[r].pc = "charged"
      /\ run[r] \in AgentState
      /\ receipt \in receipts /\ receipt.session = run[r].session /\ receipt.tool = t
      /\ t \in Policy!PUBLIC_TOOL_REGISTRY
      /\ receipt \in Policy!Capability
      /\ receipt.session \in Sessions /\ receipt.nonce \in Nonces
  BY DEF Answer, TypeOK, Good, CarriesItsOwn, Policy!TypeOK, Policy!Capability
<1>2. /\ Policy!WellFormed(references)
      /\ redeemed' = [redeemed EXCEPT ![receipt.session] = @ \cup {receipt.nonce}]
      /\ batches' = batches \cup {b}
      /\ UNCHANGED <<budget, grants, consumed, receipts>>
  BY DEF Answer, Policy!Mint
<1>3. references # {}
  <2>1. Cardinality(references) \in 1 .. MAX_BATCH
    BY <1>2, SameCount DEF Policy!WellFormed
  <2>2. Cardinality(references) # 0
    BY <2>1, RunsOK
  <2> QED BY <2>2, FS_EmptySet
<1>4. Policy!TypeOK'
  BY <1>1, <1>2 DEF TypeOK, Policy!TypeOK, Policy!Batch
<1>5. UNCHANGED <<retriever, drawn, collisions, store, results, saved>>
  BY DEF Answer
<1>6. { d \in Dimensions : gate[d] # "public_evidence_missing" } = {_TOOL_ALLOWED_DIMENSIONS[t]}
  BY <1>1, OneDimension
<1>7. CASE Admissible(c.evidence)
  <2> DEFINE z == [evidence |-> references, coverage |-> gate]
             y == [run[r] EXCEPT !.pc = "save", !.trace = "tool_completed", !.result = z]
  <2>1. run' = [run EXCEPT ![r] = y]
    BY <1>1, <1>7 DEF Answer, Complete, TypeOK
  <2>2. z \in Result /\ z.evidence = references /\ z.coverage = gate
    BY Values DEF Result
  <2> HIDE DEF z
  <2>3. /\ y \in AgentState /\ y.pc = "save" /\ y.trace = "tool_completed" /\ y.result = z
        /\ y.attempt = run[r].attempt /\ y.session = run[r].session
        /\ y.run_id = run[r].run_id /\ y.tool_budget = run[r].tool_budget
    BY <1>1, <2>2 DEF AgentState, Pc, Traces
  <2> HIDE DEF y
  <2>4. run'[r] = y /\ run' \in [Requests -> AgentState]
    BY <2>1, <2>3 DEF TypeOK
  <2>5. TypeOK'
    BY <1>4, <1>5, <2>4 DEF TypeOK
  <2>6. Touches(r)
    BY <1>2, <2>1 DEF Touches, TypeOK
  <2>7. CarriesItsOwn(r)'
    BY <1>1, <2>3, <2>4 DEF CarriesItsOwn, Good
  <2>8. Charges(r)'
    BY <1>1, <1>2, <2>3, <2>4 DEF Charges, Unused, ChargedOnce, Good
  <2>9. Backed(r)'
    <3>1. /\ b \in batches' /\ b.receipt = receipt /\ b.references = references
          /\ run'[r].result.evidence = references /\ run'[r].result.coverage = gate
          /\ run'[r].session = run[r].session
      BY <1>2, <2>2, <2>3, <2>4
    <3> HIDE DEF b, gate
    <3> QED BY <1>1, <1>3, <1>6, <3>1 DEF Backed
  <2> QED BY <2>5, <2>6, <2>7, <2>8, <2>9 DEF Kept, Good
<1>8. CASE ~Admissible(c.evidence)
  <2> DEFINE y == [run[r] EXCEPT !.pc = "save", !.trace = "tool_result_unavailable",
                                 !.result = Refused]
  <2>1. run' = [run EXCEPT ![r] = y]
    BY <1>1, <1>8 DEF Answer, Refuse, TypeOK
  <2>2. /\ y \in AgentState /\ y.pc = "save" /\ y.trace = "tool_result_unavailable"
        /\ y.result = Refused
        /\ y.attempt = run[r].attempt /\ y.session = run[r].session
        /\ y.run_id = run[r].run_id /\ y.tool_budget = run[r].tool_budget
    BY <1>1, Values DEF AgentState, Pc, Traces
  <2> HIDE DEF y
  <2>3. run'[r] = y /\ run' \in [Requests -> AgentState]
    BY <2>1, <2>2 DEF TypeOK
  <2>4. TypeOK'
    BY <1>4, <1>5, <2>3 DEF TypeOK
  <2>5. Touches(r)
    BY <1>2, <2>1 DEF Touches, TypeOK
  <2>6. CarriesItsOwn(r)'
    BY <1>1, <2>2, <2>3 DEF CarriesItsOwn, Good
  <2>7. Charges(r)'
    BY <1>1, <1>2, <2>2, <2>3 DEF Charges, Unused, ChargedOnce, Good
  <2>8. Backed(r)'
    BY <2>2, <2>3, Values DEF Backed
  <2> QED BY <2>4, <2>5, <2>6, <2>7, <2>8 DEF Kept, Good
<1> QED BY <1>7, <1>8

\* A save changes the place of the run, and nothing it carries.
LEMMA SaveKeeps ==
    ASSUME TypeOK, NEW r \in Requests, Good(r), Save(r)
    PROVE  /\ Kept(r)
           /\ run[r].run_id \in RunIds
           /\ Completed(r) \in [request : Requests, result : Result]
<1> DEFINE y == [run[r] EXCEPT !.pc = "done"]
           id == run[r].run_id
<1>1. /\ run[r].pc = "save" /\ run[r] \in AgentState
      /\ id \in RunIds
      /\ run' = [run EXCEPT ![r] = y]
  BY DEF Save, TypeOK, Good, CarriesItsOwn
<1>2. /\ y \in AgentState /\ y.pc = "done" /\ y.trace = run[r].trace
      /\ y.result = run[r].result
      /\ y.attempt = run[r].attempt /\ y.session = run[r].session
      /\ y.run_id = run[r].run_id /\ y.tool_budget = run[r].tool_budget
  BY <1>1 DEF AgentState, Pc
<1> HIDE DEF y
<1>3. run'[r] = y /\ run' \in [Requests -> AgentState]
  BY <1>1, <1>2 DEF TypeOK
<1>4. UNCHANGED <<budget, grants, consumed, redeemed, receipts, batches>>
  BY DEF Save, policy
<1>5. Completed(r) \in [request : Requests, result : Result]
  BY <1>1 DEF Completed, AgentState
<1>6. store' \in Seq(RunIds) /\ saved' \in Seq(RunIds)
  <2>1. Append(store, id) \in Seq(RunIds) /\ Append(saved, id) \in Seq(RunIds)
    BY <1>1, AppendProperties DEF TypeOK
  <2>2. \A q \in Seq(RunIds) : Evict(q) \in Seq(RunIds)
    <3>1. TAKE q \in Seq(RunIds)
    <3>2. CASE Len(q) > MAX_ENTRIES
      <4>1. /\ Len(q) \in Nat
            /\ \A i \in Len(q) - MAX_ENTRIES + 1 .. Len(q) : q[i] \in RunIds
        BY <3>2, RunsOK, ElementOfSeq, LenProperties
      <4>2. SubSeq(q, Len(q) - MAX_ENTRIES + 1, Len(q)) \in Seq(RunIds)
        BY <4>1, RunsOK, SubSeqProperties
      <4> QED BY <3>2, <4>2 DEF Evict
    <3>3. CASE ~(Len(q) > MAX_ENTRIES)
      BY <3>3 DEF Evict
    <3> QED BY <3>2, <3>3
  <2> QED BY <2>1, <2>2 DEF Save
<1>7. Policy!TypeOK'
  BY <1>4 DEF TypeOK, Policy!TypeOK
<1>8. results' \in [RunIds -> [request : Requests, result : Result] \cup {None}]
  BY <1>1, <1>5 DEF Save, TypeOK
<1>9. TypeOK'
  BY <1>3, <1>6, <1>7, <1>8 DEF TypeOK, Save
<1>10. Touches(r)
  BY <1>1, <1>4 DEF Touches, TypeOK
<1>11. CarriesItsOwn(r)'
  BY <1>1, <1>2, <1>3 DEF CarriesItsOwn, Good
<1>12. Charges(r)'
  BY <1>1, <1>2, <1>3, <1>4 DEF Charges, Unused, ChargedOnce, Good
<1>13. Backed(r)'
  BY <1>1, <1>2, <1>3, <1>4 DEF Backed, Good
<1> QED BY <1>1, <1>5, <1>9, <1>10, <1>11, <1>12, <1>13 DEF Kept, Good

-----------------------------------------------------------------------------
(* The store *)

LatestOf(q, m) == SubSeq(q, Len(q) - m + 1, Len(q))

\* The last m elements of an extended sequence.
LEMMA LatestGrows ==
    ASSUME NEW S, NEW q \in Seq(S), NEW x \in S, NEW m \in 0 .. Len(q)
    PROVE  LatestOf(Append(q, x), m + 1) = Append(LatestOf(q, m), x)
<1> DEFINE n == Len(q)
           a == Append(q, x)
           u == LatestOf(q, m)
           v == LatestOf(a, m + 1)
<1>1. /\ n \in Nat /\ Len(a) = n + 1 /\ a \in Seq(S)
      /\ \A i \in 1 .. n : a[i] = q[i]
      /\ a[n + 1] = x
  BY AppendProperties, LenProperties
<1>2. /\ \A i \in n - m + 1 .. n : q[i] \in S
      /\ \A i \in n - m + 1 .. n + 1 : a[i] \in S
  BY <1>1, ElementOfSeq
<1>3. /\ u \in Seq(S) /\ Len(u) = m
      /\ \A i \in 1 .. m : u[i] = q[n - m + i]
  <2>1. /\ u \in Seq(S)
        /\ Len(u) = IF n - m + 1 <= n THEN n - (n - m + 1) + 1 ELSE 0
        /\ \A i \in 1 .. n - (n - m + 1) + 1 : u[i] = q[(n - m + 1) + i - 1]
    BY <1>1, <1>2, SubSeqProperties DEF LatestOf
  <2> QED BY <1>1, <2>1
<1>4. /\ v \in Seq(S) /\ Len(v) = m + 1
      /\ \A i \in 1 .. m + 1 : v[i] = a[n - m + i]
  <2> DEFINE lo == n - m + 1
             hi == n + 1
  <2>1. lo \in Int /\ hi \in Int /\ lo <= hi /\ hi - lo + 1 = m + 1
        /\ Len(a) - (m + 1) + 1 = lo /\ Len(a) = hi
    BY <1>1
  <2>2. \A i \in 1 .. m + 1 : lo + i - 1 = n - m + i
    BY <1>1
  <2>3. \A i \in lo .. hi : a[i] \in S
    BY <1>2
  <2> HIDE DEF lo, hi
  <2>4. v = SubSeq(a, lo, hi)
    BY <2>1 DEF LatestOf
  <2>5. /\ SubSeq(a, lo, hi) \in Seq(S)
        /\ Len(SubSeq(a, lo, hi)) = IF lo <= hi THEN hi - lo + 1 ELSE 0
        /\ \A i \in 1 .. hi - lo + 1 : SubSeq(a, lo, hi)[i] = a[lo + i - 1]
    BY <2>1, <2>3, SubSeqProperties
  <2> QED BY <2>1, <2>2, <2>4, <2>5
<1> HIDE DEF u, v, a
<1>5. /\ Append(u, x) \in Seq(S) /\ Len(Append(u, x)) = m + 1
      /\ \A i \in 1 .. m : Append(u, x)[i] = u[i]
      /\ Append(u, x)[m + 1] = x
  BY <1>3, AppendProperties
<1>6. \A i \in 1 .. m + 1 : v[i] = Append(u, x)[i]
  <2>1. TAKE i \in 1 .. m + 1
  <2>2. CASE i \in 1 .. m
    <3>1. v[i] = a[n - m + i] /\ n - m + i \in 1 .. n
      BY <1>1, <1>4, <2>2
    <3>2. Append(u, x)[i] = q[n - m + i]
      BY <1>3, <1>5, <2>2
    <3> QED BY <1>1, <3>1, <3>2
  <2>3. CASE i = m + 1
    <3>1. n - m + i = n + 1 /\ v[i] = a[n - m + i]
      BY <1>1, <1>4, <2>3
    <3> QED BY <1>1, <1>5, <2>3, <3>1
  <2>4. i \in 1 .. m \/ i = m + 1
    BY <1>1, <2>1
  <2> QED BY <2>2, <2>3, <2>4
<1>7. v = Append(u, x)
  BY <1>4, <1>5, <1>6, SeqEqual
<1> QED BY <1>7 DEF u, v, a

\* Where the last m + 1 of n + 1 positions begin and end.
LEMMA Ends ==
    \A n, m \in Nat : m <= n =>
        /\ n - m + 1 \in 1 .. n + 1 /\ n + 1 \in 1 .. n + 1
        /\ n - m + 1 <= n + 1 /\ (n + 1) - (n - m + 1) + 1 = m + 1
        /\ m # 0 => /\ 2 \in 1 .. (n + 1) - (n - m + 1) + 1
                    /\ m + 1 \in 1 .. (n + 1) - (n - m + 1) + 1
  OBVIOUS

\* Evicting from the latest saves keeps the latest saves.
LEMMA StoreStep ==
    ASSUME NEW q \in Seq(RunIds), NEW x \in RunIds, NEW m \in Nat,
           m = IF Len(q) > MAX_ENTRIES THEN MAX_ENTRIES ELSE Len(q)
    PROVE  LET a == Append(q, x)
               k == IF Len(a) > MAX_ENTRIES THEN MAX_ENTRIES ELSE Len(a)
           IN  Evict(Append(LatestOf(q, m), x)) = LatestOf(a, k)
<1> DEFINE a == Append(q, x)
           n == Len(q)
           w == Append(LatestOf(q, m), x)
<1>1. /\ n \in Nat /\ Len(a) = n + 1 /\ m \in 0 .. n /\ a \in Seq(RunIds)
      /\ \A i \in 1 .. n + 1 : a[i] \in RunIds
  BY AppendProperties, LenProperties, ElementOfSeq, RunsOK
<1>2. w = LatestOf(a, m + 1)
  BY <1>1, LatestGrows
<1>3. w = SubSeq(a, n - m + 1, n + 1)
  <2>1. Len(a) - (m + 1) + 1 = n - m + 1 /\ Len(a) = n + 1
    BY <1>1
  <2>2. LatestOf(a, m + 1) = SubSeq(a, Len(a) - (m + 1) + 1, Len(a))
    BY DEF LatestOf
  <2> QED BY <1>2, <2>1, <2>2
<1> HIDE DEF w, a
<1>4. w \in Seq(RunIds) /\ Len(w) = m + 1
  <2> DEFINE lo == n - m + 1
             hi == n + 1
  <2>1. lo \in 1 .. n + 1 /\ hi \in Int /\ lo <= hi /\ hi - lo + 1 = m + 1
    <3>1. n \in Nat /\ m \in Nat /\ m <= n
      BY <1>1
    <3> HIDE DEF n
    <3>2. hi \in Int
      BY <3>1
    <3>3. lo \in 1 .. n + 1
      BY <3>1, Ends
    <3>4. lo <= hi /\ hi - lo + 1 = m + 1
      BY <3>1, Ends
    <3> QED BY <3>2, <3>3, <3>4
  <2>2. \A i \in lo .. hi : a[i] \in RunIds
    BY <1>1, <2>1
  <2>3. w = SubSeq(a, lo, hi)
    BY <1>3
  <2> HIDE DEF lo, hi
  <2>4. /\ SubSeq(a, lo, hi) \in Seq(RunIds)
        /\ Len(SubSeq(a, lo, hi)) = IF lo <= hi THEN hi - lo + 1 ELSE 0
    BY <2>1, <2>2, SubSeqProperties
  <2> QED BY <2>1, <2>3, <2>4
<1>5. CASE n < MAX_ENTRIES
  <2>1. m = n /\ ~(Len(w) > MAX_ENTRIES) /\ ~(Len(a) > MAX_ENTRIES)
    BY <1>1, <1>4, <1>5, RunsOK
  <2> QED BY <1>1, <1>2, <2>1 DEF Evict, a, w
<1>6. CASE n >= MAX_ENTRIES
  <2>1. m = MAX_ENTRIES /\ Len(w) = MAX_ENTRIES + 1 /\ Len(a) > MAX_ENTRIES
    BY <1>1, <1>4, <1>6, RunsOK
  <2>2. Evict(w) = SubSeq(w, 2, MAX_ENTRIES + 1)
    BY <2>1, RunsOK DEF Evict
  <2> DEFINE lo == n - m + 1
             hi == n + 1
  <2>3. SubSeq(SubSeq(a, lo, hi), 2, m + 1) = SubSeq(a, lo + 2 - 1, lo + (m + 1) - 1)
    <3>1. /\ lo \in 1 .. Len(a) /\ hi \in 1 .. Len(a)
          /\ 2 \in 1 .. hi - lo + 1 /\ m + 1 \in 1 .. hi - lo + 1
      <4>1. m \in Nat \ {0} /\ m <= n
        BY <1>1, <2>1, RunsOK
      <4>2. n \in Nat /\ Len(a) = n + 1
        BY <1>1
      <4> HIDE DEF n
      <4> QED BY <4>1, <4>2, Ends
    <3> HIDE DEF lo, hi
    <3> QED BY <1>1, <3>1, SubSeqOfSubSeq
  <2>4. LatestOf(a, MAX_ENTRIES) = SubSeq(a, lo + 2 - 1, lo + (m + 1) - 1)
    <3>1. Len(a) - m + 1 = lo + 2 - 1 /\ Len(a) = lo + (m + 1) - 1
      BY <1>1
    <3>2. LatestOf(a, m) = SubSeq(a, Len(a) - m + 1, Len(a))
      BY DEF LatestOf
    <3> QED BY <2>1, <3>1, <3>2
  <2> QED BY <1>3, <2>1, <2>2, <2>3, <2>4 DEF a, w
<1> QED BY <1>1, <1>5, <1>6, RunsOK

\* StoreKeepsLatest in the words of the lemmas.
LatestLength(q) == IF Len(q) > MAX_ENTRIES THEN MAX_ENTRIES ELSE Len(q)

LEMMA LatestNamed == StoreKeepsLatest <=> store = LatestOf(saved, LatestLength(saved))
  BY DEF StoreKeepsLatest, LatestOf, LatestLength

LEMMA StoreSaves ==
    ASSUME TypeOK, StoreKeepsLatest, NEW r \in Requests, run[r].run_id \in RunIds, Save(r)
    PROVE  StoreKeepsLatest'
<1> DEFINE x == run[r].run_id
           m == LatestLength(saved)
<1>1. store = LatestOf(saved, m)
  BY LatestNamed
<1>2. store' = Evict(Append(store, x)) /\ saved' = Append(saved, x)
  BY DEF Save
<1>3. saved \in Seq(RunIds) /\ m \in Nat
  BY RunsOK, LenProperties DEF TypeOK, LatestLength
<1>4. Evict(Append(LatestOf(saved, m), x))
          = LatestOf(Append(saved, x), LatestLength(Append(saved, x)))
  BY <1>3, StoreStep DEF LatestLength
<1>5. store' = LatestOf(saved', LatestLength(saved'))
  BY <1>1, <1>2, <1>4
<1> QED BY <1>5 DEF StoreKeepsLatest, LatestOf, LatestLength

-----------------------------------------------------------------------------
(* The invariant *)

LEMMA RunsInit == Init => IInv
<1> SUFFICES ASSUME Init PROVE IInv
  OBVIOUS
<1>1. /\ budget = [s \in Sessions |-> Policy!initial]
      /\ consumed = [s \in Sessions |-> {}]
      /\ redeemed = [s \in Sessions |-> {}]
      /\ grants = {} /\ receipts = {} /\ batches = {}
  BY DEF Init, Policy!Init
<1>2. Policy!TypeOK
  BY <1>1, Values DEF Policy!TypeOK
<1> DEFINE y(r) == [Fresh(r, 0, None) EXCEPT !.pc = "idle"]
<1>3. run = [r \in Requests |-> y(r)]
  BY DEF Init
<1>4. ASSUME NEW r \in Requests
      PROVE  /\ y(r) \in AgentState /\ y(r).pc = "idle" /\ y(r).attempt = 0
             /\ y(r).session = <<r, 0>> /\ y(r).tool_budget = Policy!initial
  <2>1. 0 \in 0 .. MaxCollisions
    BY RunsOK
  <2>2. /\ Fresh(r, 0, None) \in AgentState /\ Fresh(r, 0, None).attempt = 0
        /\ Fresh(r, 0, None).session = <<r, 0>>
        /\ Fresh(r, 0, None).tool_budget = Policy!initial
    BY <2>1, FreshState
  <2> QED BY <2>2 DEF AgentState, Pc
<1> HIDE DEF y
<1>5. run \in [Requests -> AgentState]
  BY <1>3, <1>4
<1>6. store = <<>> /\ saved = <<>> /\ <<>> \in Seq(RunIds)
  BY EmptySeq DEF Init
<1>7. TypeOK
  BY <1>2, <1>5, <1>6, RunsOK DEF TypeOK, Init
<1>8. ASSUME NEW r \in Requests PROVE Good(r)
  <2>1. run[r] = y(r)
    BY <1>3
  <2>2. \A a \in 0 .. MaxCollisions : Unused(<<r, a>>)
    BY <1>1 DEF Unused, Sessions
  <2>3. <<r, 0>> \in Sessions
    BY RunsOK DEF Sessions
  <2>4. CarriesItsOwn(r)
    BY <1>4, <2>1 DEF CarriesItsOwn
  <2>5. Charges(r)
    BY <1>1, <1>4, <2>1, <2>2, <2>3 DEF Charges, Unused
  <2>6. Backed(r)
    BY <1>4, <2>1 DEF Backed
  <2> QED BY <2>4, <2>5, <2>6 DEF Good
<1>9. StoreKeepsLatest
  <2>1. Len(saved) = 0 /\ LatestLength(saved) = 0
    BY <1>6, RunsOK, EmptySeq DEF LatestLength
  <2>2. LatestOf(saved, 0) = SubSeq(saved, 1, 0)
    BY <2>1 DEF LatestOf
  <2>3. SubSeq(saved, 1, 0) = <<>>
    BY SubSeqEmpty
  <2> QED BY <1>6, <2>1, <2>2, <2>3, LatestNamed
<1> QED BY <1>7, <1>8, <1>9 DEF IInv

\* A step is an action of one request; only a save changes the store.
LEMMA OneStep ==
    ASSUME TypeOK, NEW r \in Requests, Good(r), StoreKeepsLatest,
           Step(r) \/ \E id \in RunIds : Submit(r, id)
    PROVE  Kept(r) /\ StoreKeepsLatest'
<1>1. CASE \E id \in RunIds : Submit(r, id)
  <2>1. Kept(r)
    BY <1>1, SubmitKeeps
  <2> QED BY <1>1, <2>1 DEF Submit, StoreKeepsLatest
<1>2. CASE RefuseAtOnce(r) \/ Unauthorized(r) \/ ToolFails(r)
  <2>1. Kept(r)
    BY <1>2, RefusalsKeep
  <2> QED BY <1>2, <2>1 DEF RefuseAtOnce, Unauthorized, ToolFails, StoreKeepsLatest
<1>3. CASE Authorize(r)
  <2>1. Kept(r)
    BY <1>3, AuthorizeKeeps
  <2> QED BY <1>3, <2>1 DEF Authorize, StoreKeepsLatest
<1>4. CASE ConsumeGrant(r)
  <2>1. Kept(r)
    BY <1>4, ConsumeKeeps
  <2> QED BY <1>4, <2>1 DEF ConsumeGrant, StoreKeepsLatest
<1>5. CASE \E references \in SUBSET References, safe \in BOOLEAN : Answer(r, references, safe)
  <2>1. Kept(r)
    BY <1>5, AnswerKeeps
  <2> QED BY <1>5, <2>1 DEF Answer, StoreKeepsLatest
<1>6. CASE Save(r)
  <2>1. Kept(r) /\ run[r].run_id \in RunIds
    BY <1>6, SaveKeeps
  <2> QED BY <1>6, <2>1, StoreSaves
<1>7. CASE \E id \in RunIds : SaveRefused(r, id)
  <2>1. Kept(r)
    BY <1>7, SaveRefusedKeeps
  <2> QED BY <1>7, <2>1 DEF SaveRefused, StoreKeepsLatest
<1> QED BY <1>1, <1>2, <1>3, <1>4, <1>5, <1>6, <1>7 DEF Step

LEMMA RunsStep == IInv /\ [Next]_vars => IInv'
<1> SUFFICES ASSUME IInv, [Next]_vars PROVE IInv'
  OBVIOUS
<1>1. ASSUME NEW r \in Requests, Step(r) \/ \E id \in RunIds : Submit(r, id)
      PROVE  IInv'
  <2>1. Kept(r) /\ StoreKeepsLatest'
    BY <1>1, OneStep DEF IInv
  <2>2. ASSUME NEW q \in Requests PROVE Good(q)'
    <3>1. CASE q = r
      BY <2>1, <3>1 DEF Kept
    <3>2. CASE q # r
      BY <2>1, <3>2, OthersStay DEF Kept, IInv
    <3> QED BY <3>1, <3>2
  <2> QED BY <2>1, <2>2 DEF Kept, IInv
<1>2. CASE UNCHANGED vars
  <2>1. TypeOK'
    BY <1>2 DEF IInv, TypeOK, Policy!TypeOK, vars, policy
  <2>2. ASSUME NEW q \in Requests PROVE Good(q)'
    <3>1. Good(q)
      BY DEF IInv
    <3> QED BY <1>2, <3>1 DEF Good, CarriesItsOwn, Charges, Backed, Unused, ChargedOnce, vars, policy
  <2>3. StoreKeepsLatest'
    BY <1>2 DEF IInv, StoreKeepsLatest, vars
  <2> QED BY <2>1, <2>2, <2>3 DEF IInv
<1> QED BY <1>1, <1>2 DEF Next

LEMMA RunsInvariant == Spec => []IInv
  BY RunsInit, RunsStep, PTL DEF Spec

\* Runs, sessions, the store and the results have their types.
THEOREM TypeCorrect == Spec => []TypeOK
<1>1. IInv => TypeOK
  BY DEF IInv
<1> QED BY <1>1, RunsInvariant, PTL

\* However many threads run the graph at once, what a run cites was minted from
\* an execution of its own question's tool in its own session, and a refusal
\* cites nothing.
THEOREM AnswersBacked == Spec => []AnswersAreBacked
<1>1. IInv => AnswersAreBacked
  BY DEF IInv, Good, Backed, AnswersAreBacked
<1> QED BY <1>1, RunsInvariant, PTL

\* A run that is over shows the budget of its own session, which was charged
\* once if the trace says that the tool ran and not at all otherwise.
THEOREM ChargesTraced == Spec => []ChargesAreTraced
<1>1. IInv => ChargesAreTraced
  <2> SUFFICES ASSUME IInv, NEW r \in Requests, run[r].pc \in {"save", "done"}
               PROVE  /\ run[r].tool_budget = budget[run[r].session]
                      /\ Cardinality(consumed[run[r].session]) =
                            IF run[r].trace \in {"tool_completed", "tool_result_unavailable"}
                            THEN 1 ELSE 0
    BY DEF ChargesAreTraced
  <2>1. Charges(r)
    BY DEF IInv, Good
  <2>2. CASE run[r].trace \in {"tool_completed", "tool_result_unavailable"}
    <3>1. PICK n \in Nonces : consumed[run[r].session] = {n}
      BY <2>1, <2>2 DEF Charges, ChargedOnce
    <3>2. Cardinality(consumed[run[r].session]) = 1
      BY <3>1, FS_Singleton
    <3> QED BY <2>1, <2>2, <3>2 DEF Charges
  <2>3. CASE run[r].trace \notin {"tool_completed", "tool_result_unavailable"}
    <3>1. Cardinality(consumed[run[r].session]) = 0
      BY <2>1, <2>3, FS_EmptySet DEF Charges
    <3> QED BY <2>1, <2>3, <3>1 DEF Charges
  <2> QED BY <2>2, <2>3
<1> QED BY <1>1, RunsInvariant, PTL

\* The store is the most recent saves, oldest first, for any capacity and any
\* number of repeated ids.
THEOREM StoreIsLatest == Spec => []StoreKeepsLatest
<1>1. IInv => StoreKeepsLatest
  BY DEF IInv
<1> QED BY <1>1, RunsInvariant, PTL

\* A stored result is not replaced while it is stored.
THEOREM StoredResultsStay == Spec => ResultsStayPut
<1> DEFINE Stays == \A id \in RunIds : (id \in Stored /\ id \in Stored') => results'[id] = results[id]
<1>1. IInv /\ [Next]_vars => [Stays]_vars
  <2> SUFFICES ASSUME IInv, NEW r \in Requests,
                      Step(r) \/ \E id \in RunIds : Submit(r, id)
               PROVE  Stays
    BY DEF Next
  <2>1. CASE Save(r)
    BY <2>1 DEF Save, IInv, TypeOK
  <2>2. CASE ~Save(r)
    <3>1. UNCHANGED results
      BY <2>2 DEF Step, Submit, RefuseAtOnce, Authorize, Unauthorized, ConsumeGrant,
                  ToolFails, Answer, SaveRefused
    <3> QED BY <3>1
  <2> QED BY <2>1, <2>2
<1> QED BY <1>1, RunsInvariant, PTL DEF Spec, ResultsStayPut

-----------------------------------------------------------------------------
(* Composition *)

LEMMA PolicyStep == IInv /\ [Next]_vars => [Policy!Next]_(Policy!vars)
<1> SUFFICES ASSUME IInv, [Next]_vars PROVE [Policy!Next]_(Policy!vars)
  OBVIOUS
<1>1. ASSUME NEW r \in Requests, Step(r) \/ \E id \in RunIds : Submit(r, id)
      PROVE  Policy!Next \/ UNCHANGED Policy!vars
  <2>1. /\ Good(r) /\ run[r].session \in Sessions
        /\ available \in {Policy!PUBLIC_TOOL_REGISTRY, Policy!WithoutRetriever}
    BY Values DEF IInv, TypeOK, AgentState
  <2>2. CASE Authorize(r)
    <3>1. /\ ToolOf(Questions[r]) \in Policy!PUBLIC_TOOL_REGISTRY \cup {"other"}
          /\ (Questions[r] # "retrieval_malformed") \in BOOLEAN
          /\ Policy!Issue(run[r].session, ToolOf(Questions[r]),
                          Questions[r] # "retrieval_malformed", available)
      BY <2>2, Values DEF Authorize
    <3> QED BY <2>1, <3>1 DEF Policy!Next
  <2>3. CASE ConsumeGrant(r)
    <3>1. /\ run[r].grant \in grants
          /\ ToolOf(Questions[r]) \in Policy!PUBLIC_TOOL_REGISTRY
          /\ Policy!Consume(run[r].grant, ToolOf(Questions[r]), run[r].session)
      BY <2>1, <2>3 DEF ConsumeGrant, Good, CarriesItsOwn
    <3> QED BY <2>1, <3>1 DEF Policy!Next
  <2>4. CASE \E references \in SUBSET References, safe \in BOOLEAN : Answer(r, references, safe)
    <3>1. PICK references \in SUBSET References : Policy!Mint(run[r].receipt, references)
      BY <2>4 DEF Answer
    <3>2. run[r].receipt \in receipts
      BY <2>1, <2>4 DEF Answer, Good, CarriesItsOwn
    <3> QED BY <3>1, <3>2 DEF Policy!Next
  <2>5. CASE UNCHANGED policy
    BY <2>5 DEF policy, Policy!vars
  <2>6. Authorize(r) \/ ConsumeGrant(r) \/ UNCHANGED policy
          \/ \E references \in SUBSET References, safe \in BOOLEAN : Answer(r, references, safe)
    BY <1>1 DEF Step, Submit, RefuseAtOnce, Unauthorized, ToolFails, Save, SaveRefused
  <2> QED BY <2>2, <2>3, <2>4, <2>5, <2>6
<1>2. CASE UNCHANGED vars
  BY <1>2 DEF vars, policy, Policy!vars
<1> QED BY <1>1, <1>2 DEF Next

\* The graph keeps to the protocol of the budget sessions: whatever the threads
\* do, their sessions behave as ToolSessions allows, so that what is proved of
\* ToolSessions holds of the sessions of every run.
THEOREM RunsKeepPolicy == Spec => Policy!Spec
<1>1. Init => Policy!Init
  BY DEF Init
<1> QED BY <1>1, RunsInvariant, PolicyStep, PTL DEF Spec, Policy!Spec
=============================================================================
