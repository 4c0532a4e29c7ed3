------------------------- MODULE ToolSessionsProofs -------------------------
(***************************************************************************)
(* Theorems about ToolSessions, for any number of sessions, grants and     *)
(* references and any limits.                                              *)
(***************************************************************************)
EXTENDS ToolSessions, FiniteSetTheorems, TLAPS

OfTool(s, t) == { r \in receipts : r.session = s /\ r.tool = t }

\* What makes the properties inductive: only finitely many executions exist, a
\* nonce belongs to one grant, and a session remembers exactly the nonces of
\* its executions.
FiniteBooks ==
    /\ IsFiniteSet(receipts)
    /\ \A s \in Sessions : IsFiniteSet(consumed[s])

NoncesAreNames == \A g1, g2 \in grants : g1.nonce = g2.nonce => g1 = g2

ConsumedAreExecuted ==
    \A s \in Sessions, n \in Nonces :
        n \in consumed[s] <=> \E r \in receipts : r.session = s /\ r.nonce = n

SessionTotals ==
    \A s \in Sessions :
        Cardinality({ r \in receipts : r.session = s }) = used_total(budget[s])

IInv == /\ TypeOK /\ FiniteBooks /\ NoncesAreNames /\ ConsumedAreExecuted
        /\ SessionTotals /\ BudgetBalances /\ ReceiptsAreGranted /\ EvidenceIsBacked

-----------------------------------------------------------------------------
(* Budgets *)

\* The initial budget is valid and has charged nothing.
LEMMA InitialBudget ==
    /\ initial \in ToolBudget
    /\ valid_budget(initial)
    /\ used_total(initial) = 0
    /\ \A t \in PUBLIC_TOOL_REGISTRY : initial.used_by_tool[t] = 0
  BY LimitsOK DEF initial, ToolBudget, valid_budget, used_total, PUBLIC_TOOL_REGISTRY

\* Charging a tool that may be charged keeps a budget valid and counts one call.
LEMMA ConsumeCounts ==
    ASSUME NEW b \in ToolBudget, valid_budget(b),
           NEW t \in PUBLIC_TOOL_REGISTRY, may_consume(b, t)
    PROVE  /\ consume(b, t) \in ToolBudget
           /\ valid_budget(consume(b, t))
           /\ used_total(consume(b, t)) = used_total(b) + 1
           /\ consume(b, t).used_by_tool[t] = b.used_by_tool[t] + 1
           /\ \A u \in PUBLIC_TOOL_REGISTRY \ {t} :
                 consume(b, t).used_by_tool[u] = b.used_by_tool[u]
<1> DEFINE c == consume(b, t)
           x == b.used_by_tool
           y == c.used_by_tool
<1>1. /\ b.remaining_total \in 0 .. MAX_TOTAL_TOOL_CALLS
      /\ x \in [PUBLIC_TOOL_REGISTRY -> 0 .. MAX_CALLS]
      /\ b.remaining_total >= 1
      /\ x[t] < MAX_CALLS
  BY DEF ToolBudget, may_consume
<1>2. c = [remaining_total |-> b.remaining_total - 1, used_by_tool |-> [x EXCEPT ![t] = @ + 1]]
  BY DEF consume
<1>3. /\ y[t] = x[t] + 1
      /\ \A u \in PUBLIC_TOOL_REGISTRY \ {t} : y[u] = x[u]
      /\ y \in [PUBLIC_TOOL_REGISTRY -> 0 .. MAX_CALLS]
      /\ c.remaining_total = b.remaining_total - 1
  BY <1>1, <1>2, LimitsOK
<1>4. c \in ToolBudget
  BY <1>1, <1>2, <1>3, LimitsOK DEF ToolBudget
<1>5. /\ x["retrieve_public_water_knowledge"] \in Int
      /\ x["aggregate_public_history"] \in Int
      /\ x["screen_public_anomaly"] \in Int
  BY <1>1, LimitsOK DEF PUBLIC_TOOL_REGISTRY
<1>6. used_total(c) = used_total(b) + 1
  <2>1. CASE t = "retrieve_public_water_knowledge"
    BY <2>1, <1>3, <1>5 DEF used_total, PUBLIC_TOOL_REGISTRY
  <2>2. CASE t = "aggregate_public_history"
    BY <2>2, <1>3, <1>5 DEF used_total, PUBLIC_TOOL_REGISTRY
  <2>3. CASE t = "screen_public_anomaly"
    BY <2>3, <1>3, <1>5 DEF used_total, PUBLIC_TOOL_REGISTRY
  <2> QED BY <2>1, <2>2, <2>3 DEF PUBLIC_TOOL_REGISTRY
<1>7. used_total(b) \in Int
  BY <1>5 DEF used_total
<1>8. valid_budget(c)
  <2>1. MAX_TOTAL_TOOL_CALLS - b.remaining_total = used_total(b)
    BY DEF valid_budget
  <2> HIDE DEF c
  <2>2. c.remaining_total \in 0 .. MAX_TOTAL_TOOL_CALLS
    BY <1>4 DEF ToolBudget
  <2>3. MAX_TOTAL_TOOL_CALLS - c.remaining_total = used_total(c)
    BY <1>1, <1>3, <1>6, <1>7, <2>1, LimitsOK
  <2>4. \A u \in PUBLIC_TOOL_REGISTRY : c.used_by_tool[u] \in 0 .. MAX_CALLS
    BY <1>3
  <2> QED BY <2>2, <2>3, <2>4 DEF valid_budget
<1> QED BY <1>3, <1>4, <1>6, <1>8

-----------------------------------------------------------------------------
(* Type correctness *)

\* Budgets stay within their limits and every capability names a session, a
\* tool and a nonce, in every step.
LEMMA TypeStep == TypeOK /\ [Next]_vars => TypeOK'
<1> SUFFICES ASSUME TypeOK, [Next]_vars PROVE TypeOK'
  OBVIOUS
<1> USE DEF TypeOK
<1>1. ASSUME NEW s \in Sessions, NEW name \in PUBLIC_TOOL_REGISTRY \cup {"other"},
             NEW valid \in BOOLEAN,
             NEW available \in {PUBLIC_TOOL_REGISTRY, WithoutRetriever},
             Issue(s, name, valid, available)
      PROVE  TypeOK'
  <2>1. name \in PUBLIC_TOOL_REGISTRY
    BY <1>1 DEF Issue, authorize_public_tool_call
  <2>2. PICK n \in FreshNonces :
           grants' = grants \cup {[session |-> s, tool |-> name, nonce |-> n]}
    BY <1>1 DEF Issue
  <2>3. [session |-> s, tool |-> name, nonce |-> n] \in Capability
    BY <2>1 DEF Capability, FreshNonces
  <2> QED BY <1>1, <2>2, <2>3 DEF Issue
<1>2. ASSUME NEW g \in grants, NEW name \in PUBLIC_TOOL_REGISTRY, NEW s \in Sessions,
             Consume(g, name, s)
      PROVE  TypeOK'
  <2>1. g \in Capability /\ g.nonce \in Nonces
    BY DEF Capability
  <2>2. budget[s] \in ToolBudget /\ may_consume(budget[s], name)
    BY <1>2 DEF Consume, Charge
  <2>3. consume(budget[s], name) \in ToolBudget
    BY <2>2, LimitsOK DEF consume, may_consume, ToolBudget
  <2>4. budget' \in [Sessions -> ToolBudget]
    BY <1>2, <2>3 DEF Consume, Charge
  <2>5. [session |-> s, tool |-> name, nonce |-> g.nonce] \in Capability
    BY <2>1 DEF Capability
  <2>6. receipts' \subseteq Capability
    BY <1>2, <2>5 DEF Consume, Charge
  <2>7. consumed' \in [Sessions -> SUBSET Nonces]
    BY <1>2, <2>1 DEF Consume, Charge
  <2> QED BY <1>2, <2>4, <2>6, <2>7 DEF Consume, Charge
<1>3. ASSUME NEW r \in receipts, NEW references \in SUBSET References,
             Mint(r, references)
      PROVE  TypeOK'
  <2>1. r \in Capability /\ r.nonce \in Nonces
    BY DEF Capability
  <2>2. [receipt |-> r, references |-> references] \in Batch
    BY <2>1 DEF Batch
  <2> QED BY <1>3, <2>1, <2>2 DEF Mint
<1>4. CASE UNCHANGED vars
  BY <1>4 DEF vars
<1> QED BY <1>1, <1>2, <1>3, <1>4 DEF Next

\* The type invariant holds in every behaviour: no tool is ever charged beyond
\* its own limit or the session's.
THEOREM TypeCorrect == Spec => []TypeOK
<1>1. Init => TypeOK
  BY InitialBudget DEF Init, TypeOK
<1> QED BY <1>1, TypeStep, PTL DEF Spec

-----------------------------------------------------------------------------
(* The books *)

\* A charge counts one execution of its own session and tool.
LEMMA CountOne ==
    ASSUME NEW S, IsFiniteSet(S), NEW g, g \notin S, NEW P \in [S \cup {g} -> BOOLEAN]
    PROVE  Cardinality({ r \in S \cup {g} : P[r] })
               = Cardinality({ r \in S : P[r] }) + (IF P[g] THEN 1 ELSE 0)
<1> DEFINE A == { r \in S : P[r] }
<1>1. IsFiniteSet(A) /\ g \notin A
  BY FS_Subset
<1>2. Cardinality(A) \in Nat
  BY <1>1, FS_CardinalityType
<1>3. CASE P[g]
  <2>1. { r \in S \cup {g} : P[r] } = A \cup {g}
    BY <1>3
  <2>2. Cardinality(A \cup {g}) = Cardinality(A) + 1
    BY <1>1, FS_AddElement
  <2> QED BY <1>3, <2>1, <2>2
<1>4. CASE ~P[g]
  <2>1. { r \in S \cup {g} : P[r] } = A
    BY <1>4
  <2> QED BY <1>2, <1>4, <2>1
<1> QED BY <1>3, <1>4

LEMMA BooksInit == Init => IInv
<1> SUFFICES ASSUME Init PROVE IInv
  OBVIOUS
<1> USE DEF Init
<1>1. TypeOK
  BY InitialBudget DEF TypeOK
<1>2. FiniteBooks
  BY FS_EmptySet DEF FiniteBooks
<1>3. NoncesAreNames /\ ConsumedAreExecuted /\ ReceiptsAreGranted /\ EvidenceIsBacked
  BY DEF NoncesAreNames, ConsumedAreExecuted, ReceiptsAreGranted, EvidenceIsBacked
<1>4. /\ \A s \in Sessions : { r \in receipts : r.session = s } = {}
      /\ \A s \in Sessions, t \in PUBLIC_TOOL_REGISTRY :
            { r \in receipts : r.session = s /\ r.tool = t } = {}
      /\ \A s \in Sessions : consumed[s] = {} /\ budget[s] = initial
  OBVIOUS
<1>5. SessionTotals /\ BudgetBalances
  BY <1>4, FS_EmptySet, InitialBudget DEF SessionTotals, BudgetBalances
<1> QED BY <1>1, <1>2, <1>3, <1>5 DEF IInv

\* Issuing a grant moves nothing in the books.
LEMMA IssueKeepsBooks ==
    ASSUME IInv, TypeOK', NEW s \in Sessions, NEW name, NEW valid, NEW available,
           Issue(s, name, valid, available)
    PROVE  IInv'
<1>1. UNCHANGED <<budget, consumed, redeemed, receipts, batches>>
  BY DEF Issue
<1>2. PICK n \in FreshNonces :
         grants' = grants \cup {[session |-> s, tool |-> name, nonce |-> n]}
  BY DEF Issue
<1>3. NoncesAreNames'
  BY <1>2 DEF IInv, NoncesAreNames, FreshNonces
<1>4. ReceiptsAreGranted'
  BY <1>1, <1>2 DEF IInv, ReceiptsAreGranted
<1>5. FiniteBooks' /\ ConsumedAreExecuted' /\ SessionTotals'
  BY <1>1 DEF IInv, FiniteBooks, ConsumedAreExecuted, SessionTotals
<1>6. BudgetBalances' /\ EvidenceIsBacked'
  BY <1>1 DEF IInv, BudgetBalances, EvidenceIsBacked
<1> QED BY <1>3, <1>4, <1>5, <1>6 DEF IInv

\* What a consumption does: a new execution, the grant itself, is charged.
LEMMA ConsumeCharges ==
    ASSUME IInv, NEW g \in grants, NEW name \in PUBLIC_TOOL_REGISTRY,
           NEW s \in Sessions, Consume(g, name, s)
    PROVE  /\ g \in Capability /\ g.session = s /\ g.tool = name
           /\ g \notin receipts
           /\ g.nonce \notin consumed[s]
           /\ receipts' = receipts \cup {g}
           /\ budget' = [budget EXCEPT ![s] = consume(budget[s], name)]
           /\ consumed' = [consumed EXCEPT ![s] = @ \cup {g.nonce}]
           /\ UNCHANGED <<grants, redeemed, batches>>
           /\ budget[s] \in ToolBudget /\ valid_budget(budget[s])
           /\ may_consume(budget[s], name)
<1>1. /\ g \in Capability /\ g.session = s /\ g.tool = name
      /\ g.nonce \notin consumed[s] /\ may_consume(budget[s], name)
  BY DEF Consume, Charge, IInv, TypeOK
<1>2. budget[s] \in ToolBudget /\ valid_budget(budget[s])
  BY DEF IInv, TypeOK, BudgetBalances
<1>4. [session |-> s, tool |-> name, nonce |-> g.nonce] = g
  BY <1>1 DEF Capability
<1>5. receipts' = receipts \cup {g}
  BY <1>4 DEF Consume, Charge
<1>6. g \notin receipts
  BY <1>1 DEF IInv, ConsumedAreExecuted, Capability
<1> QED BY <1>1, <1>2, <1>5, <1>6 DEF Consume, Charge

LEMMA ConsumeKeepsBooks ==
    ASSUME IInv, TypeOK', NEW g \in grants, NEW name \in PUBLIC_TOOL_REGISTRY,
           NEW s \in Sessions, Consume(g, name, s)
    PROVE  IInv'
<1>1. /\ g \in Capability /\ g.session = s /\ g.tool = name
      /\ g \notin receipts
      /\ g.nonce \notin consumed[s]
      /\ receipts' = receipts \cup {g}
      /\ budget' = [budget EXCEPT ![s] = consume(budget[s], name)]
      /\ consumed' = [consumed EXCEPT ![s] = @ \cup {g.nonce}]
      /\ UNCHANGED <<grants, redeemed, batches>>
      /\ budget[s] \in ToolBudget /\ valid_budget(budget[s])
      /\ may_consume(budget[s], name)
  BY ConsumeCharges
<1>2. /\ TypeOK /\ FiniteBooks /\ NoncesAreNames /\ ConsumedAreExecuted
      /\ SessionTotals /\ BudgetBalances /\ ReceiptsAreGranted /\ EvidenceIsBacked
  BY DEF IInv
<1>3. FiniteBooks'
  <2>1. IsFiniteSet(receipts')
    BY <1>1, <1>2, FS_AddElement DEF FiniteBooks
  <2>2. \A v \in Sessions : IsFiniteSet(consumed'[v])
    BY <1>1, <1>2, FS_AddElement DEF FiniteBooks, TypeOK
  <2> QED BY <2>1, <2>2 DEF FiniteBooks
<1>4. NoncesAreNames' /\ ReceiptsAreGranted'
  BY <1>1, <1>2 DEF NoncesAreNames, ReceiptsAreGranted
<1>5. ConsumedAreExecuted'
  BY <1>1, <1>2 DEF ConsumedAreExecuted, TypeOK
<1>6. EvidenceIsBacked'
  BY <1>1, <1>2 DEF EvidenceIsBacked
<1>7. /\ budget'[s] = consume(budget[s], name)
      /\ \A v \in Sessions \ {s} : budget'[v] = budget[v] /\ consumed'[v] = consumed[v]
      /\ consumed'[s] = consumed[s] \cup {g.nonce}
  BY <1>1, <1>2 DEF TypeOK
<1>8. /\ valid_budget(budget'[s])
      /\ used_total(budget'[s]) = used_total(budget[s]) + 1
      /\ budget'[s].used_by_tool[name] = budget[s].used_by_tool[name] + 1
      /\ \A u \in PUBLIC_TOOL_REGISTRY \ {name} :
            budget'[s].used_by_tool[u] = budget[s].used_by_tool[u]
  BY <1>1, <1>7, ConsumeCounts
<1>9. SessionTotals'
  <2> SUFFICES ASSUME NEW v \in Sessions
               PROVE  Cardinality({ r \in receipts' : r.session = v })
                          = used_total(budget'[v])
    BY DEF SessionTotals
  <2> DEFINE P == [r \in receipts \cup {g} |-> r.session = v]
  <2>1. Cardinality({ r \in receipts \cup {g} : P[r] })
           = Cardinality({ r \in receipts : P[r] }) + (IF P[g] THEN 1 ELSE 0)
    <3>1. P \in [receipts \cup {g} -> BOOLEAN]
      OBVIOUS
    <3>2. IsFiniteSet(receipts) /\ g \notin receipts
      BY <1>1, <1>2 DEF FiniteBooks
    <3> HIDE DEF P
    <3> QED BY <3>1, <3>2, CountOne
  <2>2. /\ { r \in receipts \cup {g} : P[r] } = { r \in receipts' : r.session = v }
        /\ { r \in receipts : P[r] } = { r \in receipts : r.session = v }
        /\ P[g] = (s = v)
    BY <1>1
  <2>3. Cardinality({ r \in receipts : r.session = v }) = used_total(budget[v])
    BY <1>2 DEF SessionTotals
  <2> HIDE DEF P
  <2>4. CASE v = s
    BY <2>1, <2>2, <2>3, <2>4, <1>8
  <2>5. CASE v # s
    <3>1. Cardinality({ r \in receipts : r.session = v }) \in Nat
      BY <1>2, FS_Subset, FS_CardinalityType DEF FiniteBooks
    <3> QED BY <2>1, <2>2, <2>3, <2>5, <3>1, <1>7
  <2> QED BY <2>4, <2>5
<1>10. BudgetBalances'
  <2>1. ASSUME NEW v \in Sessions
        PROVE  valid_budget(budget'[v])
    BY <1>2, <1>7, <1>8 DEF BudgetBalances
  <2>2. ASSUME NEW v \in Sessions
        PROVE  Cardinality(consumed'[v]) = used_total(budget'[v])
    <3>1. CASE v = s
      <4>1. Cardinality(consumed[s] \cup {g.nonce}) = Cardinality(consumed[s]) + 1
        BY <1>1, <1>2, FS_AddElement DEF FiniteBooks
      <4> QED BY <3>1, <4>1, <1>2, <1>7, <1>8 DEF BudgetBalances
    <3>2. CASE v # s
      BY <3>2, <1>2, <1>7 DEF BudgetBalances
    <3> QED BY <3>1, <3>2
  <2>3. ASSUME NEW v \in Sessions, NEW t \in PUBLIC_TOOL_REGISTRY
        PROVE  Cardinality({ r \in receipts' : r.session = v /\ r.tool = t })
                   = budget'[v].used_by_tool[t]
    <3> DEFINE P == [r \in receipts \cup {g} |-> r.session = v /\ r.tool = t]
    <3>1. Cardinality({ r \in receipts \cup {g} : P[r] })
             = Cardinality({ r \in receipts : P[r] }) + (IF P[g] THEN 1 ELSE 0)
      <4>1. P \in [receipts \cup {g} -> BOOLEAN]
        OBVIOUS
      <4>2. IsFiniteSet(receipts) /\ g \notin receipts
        BY <1>1, <1>2 DEF FiniteBooks
      <4> HIDE DEF P
      <4> QED BY <4>1, <4>2, CountOne
    <3>2. /\ { r \in receipts \cup {g} : P[r] }
                = { r \in receipts' : r.session = v /\ r.tool = t }
          /\ { r \in receipts : P[r] } = { r \in receipts : r.session = v /\ r.tool = t }
          /\ P[g] = (s = v /\ name = t)
      BY <1>1
    <3>3. Cardinality({ r \in receipts : r.session = v /\ r.tool = t })
             = budget[v].used_by_tool[t]
      BY <1>2 DEF BudgetBalances
    <3> HIDE DEF P
    <3>4. CASE v = s /\ t = name
      BY <3>1, <3>2, <3>3, <3>4, <1>8
    <3>5. CASE ~(v = s /\ t = name)
      <4>1. Cardinality({ r \in receipts : r.session = v /\ r.tool = t }) \in Nat
        BY <1>2, FS_Subset, FS_CardinalityType DEF FiniteBooks
      <4>2. budget'[v].used_by_tool[t] = budget[v].used_by_tool[t]
        BY <3>5, <1>7, <1>8
      <4> QED BY <3>1, <3>2, <3>3, <3>5, <4>1, <4>2
    <3> QED BY <3>4, <3>5
  <2> QED BY <2>1, <2>2, <2>3 DEF BudgetBalances
<1> QED BY <1>3, <1>4, <1>5, <1>6, <1>9, <1>10 DEF IInv

LEMMA MintKeepsBooks ==
    ASSUME IInv, TypeOK', NEW r \in receipts, NEW references \in SUBSET References,
           Mint(r, references)
    PROVE  IInv'
<1> DEFINE b == [receipt |-> r, references |-> references]
<1>1. /\ UNCHANGED <<budget, grants, consumed, receipts>>
      /\ batches' = batches \cup {b}
      /\ redeemed' = [redeemed EXCEPT ![r.session] = @ \cup {r.nonce}]
      /\ r.nonce \notin redeemed[r.session]
  BY DEF Mint, MayRedeem
<1>2. FiniteBooks' /\ NoncesAreNames' /\ ConsumedAreExecuted' /\ SessionTotals'
  BY <1>1 DEF IInv, FiniteBooks, NoncesAreNames, ConsumedAreExecuted, SessionTotals
<1>3. BudgetBalances' /\ ReceiptsAreGranted'
  BY <1>1 DEF IInv, BudgetBalances, ReceiptsAreGranted
<1>4. EvidenceIsBacked'
  <2>1. r.session \in Sessions /\ r.nonce \in Nonces
    BY DEF IInv, TypeOK, Capability
  <2>2. \A c \in batches : c.receipt # r
    BY <1>1, <2>1 DEF IInv, EvidenceIsBacked
  <2>3. b.receipt = r
    OBVIOUS
  <2>4. /\ redeemed'[r.session] = redeemed[r.session] \cup {r.nonce}
        /\ \A s \in Sessions : s # r.session => redeemed'[s] = redeemed[s]
    BY <1>1, <2>1 DEF IInv, TypeOK
  <2> HIDE DEF b
  <2>5. \A c \in batches' : c.receipt \in receipts'
    BY <1>1, <2>3 DEF IInv, EvidenceIsBacked
  <2>6. \A b1, b2 \in batches' : b1.receipt = b2.receipt => b1 = b2
    BY <1>1, <2>2, <2>3 DEF IInv, EvidenceIsBacked
  <2>7. ASSUME NEW s \in Sessions, NEW n \in Nonces
        PROVE  n \in redeemed'[s] <=>
                 \E c \in batches' : c.receipt.session = s /\ c.receipt.nonce = n
    <3>1. n \in redeemed[s] <=>
             \E c \in batches : c.receipt.session = s /\ c.receipt.nonce = n
      BY DEF IInv, EvidenceIsBacked
    <3>2. CASE s = r.session /\ n = r.nonce
      BY <3>2, <1>1, <2>3, <2>4
    <3>3. CASE ~(s = r.session /\ n = r.nonce)
      BY <3>1, <3>3, <1>1, <2>1, <2>3, <2>4
    <3> QED BY <3>2, <3>3
  <2> QED BY <2>5, <2>6, <2>7 DEF EvidenceIsBacked
<1> QED BY <1>2, <1>3, <1>4 DEF IInv

LEMMA BooksStep == IInv /\ [Next]_vars => IInv'
<1> SUFFICES ASSUME IInv, [Next]_vars PROVE IInv'
  OBVIOUS
<1>1. TypeOK'
  BY TypeStep DEF IInv
<1>2. CASE UNCHANGED vars
  BY <1>2 DEF vars, IInv, TypeOK, FiniteBooks, NoncesAreNames, ConsumedAreExecuted,
              SessionTotals, BudgetBalances, ReceiptsAreGranted, EvidenceIsBacked
<1> QED
  BY <1>1, <1>2, IssueKeepsBooks, ConsumeKeepsBooks, MintKeepsBooks DEF Next

LEMMA Books == Spec => []IInv
  BY BooksInit, BooksStep, PTL DEF Spec

\* Whatever order grants are issued and consumed in, a session's budget passes
\* its own validation and counts exactly the executions handed out.
THEOREM BudgetsBalance == Spec => []BudgetBalances
<1>1. IInv => BudgetBalances
  BY DEF IInv
<1> QED BY <1>1, Books, PTL

\* No receipt exists that is not a grant of its session and tool, and no nonce
\* names two executions.
THEOREM ReceiptsNameGrants == Spec => []ReceiptsAreGranted
<1>1. IInv => ReceiptsAreGranted
  BY DEF IInv
<1> QED BY <1>1, Books, PTL

\* Redeemed receipts and batches of evidence correspond one to one.
THEOREM EvidenceBacked == Spec => []EvidenceIsBacked
<1>1. IInv => EvidenceIsBacked
  BY DEF IInv
<1> QED BY <1>1, Books, PTL

-----------------------------------------------------------------------------
(* Refinement *)

cited == { [execution |-> b.receipt, references |-> b.references] : b \in batches }

\* Both modules count with the same operator.
LEMMA SameCardinality == \A S : Executions!Cardinality(S) = Cardinality(S)
  BY DEF Executions!Cardinality, Cardinality, Executions!IsFiniteSet, IsFiniteSet

LEMMA ConsumeExecutes ==
    ASSUME IInv, NEW g \in grants, NEW name \in PUBLIC_TOOL_REGISTRY,
           NEW s \in Sessions, Consume(g, name, s)
    PROVE  Executions!Execute(g) /\ g \in Executions!Execution
<1>1. /\ g \in Capability /\ g.session = s /\ g.tool = name
      /\ g \notin receipts
      /\ receipts' = receipts \cup {g}
      /\ UNCHANGED batches
      /\ budget[s] \in ToolBudget /\ valid_budget(budget[s])
      /\ may_consume(budget[s], name)
  BY ConsumeCharges
<1>2. \A x \in receipts : x.nonce # g.nonce
  BY <1>1 DEF IInv, ReceiptsAreGranted, NoncesAreNames
<1>3. Cardinality({ e \in receipts : e.session = g.session }) < MAX_TOTAL_TOOL_CALLS
  <2>1. Cardinality({ e \in receipts : e.session = g.session }) = used_total(budget[s])
    BY <1>1 DEF IInv, SessionTotals
  <2>2. /\ MAX_TOTAL_TOOL_CALLS - budget[s].remaining_total = used_total(budget[s])
        /\ budget[s].remaining_total \in 0 .. MAX_TOTAL_TOOL_CALLS
        /\ budget[s].remaining_total >= 1
    BY <1>1 DEF valid_budget, may_consume
  <2> QED BY <2>1, <2>2, LimitsOK
<1>4. Cardinality({ e \in receipts : e.session = g.session /\ e.tool = g.tool }) < MAX_CALLS
  BY <1>1 DEF IInv, BudgetBalances, may_consume
<1>5. g \in Executions!Execution
  BY <1>1 DEF Capability, Executions!Execution
<1> QED
  BY <1>1, <1>2, <1>3, <1>4, <1>5, SameCardinality
  DEF Executions!Execute, Executions!InSession, Executions!OfTool

LEMMA MintCites ==
    ASSUME IInv, NEW r \in receipts, NEW references \in SUBSET References,
           Mint(r, references)
    PROVE  \E b \in Executions!Batch : Executions!Cite(b)
<1> DEFINE b == [execution |-> r, references |-> references]
<1>1. /\ UNCHANGED receipts
      /\ batches' = batches \cup {[receipt |-> r, references |-> references]}
      /\ r.nonce \notin redeemed[r.session]
      /\ WellFormed(references)
  BY DEF Mint, MayRedeem
<1>2. r \in Capability
  BY DEF IInv, TypeOK
<1>3. \A c \in batches : c.receipt # r
  BY <1>1, <1>2 DEF IInv, EvidenceIsBacked, Capability
<1>4. references # {}
  BY <1>1, FS_EmptySet DEF WellFormed
<1>5. cited' = cited \cup {b}
  <2> DEFINE c == [receipt |-> r, references |-> references]
             f(x) == [execution |-> x.receipt, references |-> x.references]
  <2>1. batches' = batches \cup {c} /\ f(c) = b
    BY <1>1
  <2>2. cited = { f(x) : x \in batches } /\ cited' = { f(x) : x \in batches' }
    BY DEF cited
  <2> HIDE DEF b, c, f
  <2> QED BY <2>1, <2>2
<1>6. \A c \in cited : c.execution # b.execution
  BY <1>3 DEF cited
<1>7. b \in Executions!Batch
  BY <1>2 DEF Capability, Executions!Batch, Executions!Execution
<1>8. b.execution \in receipts /\ b.references # {}
  BY <1>4
<1> HIDE DEF b
<1>9. Executions!Cite(b)
  BY <1>1, <1>5, <1>6, <1>8 DEF Executions!Cite, cited
<1> QED BY <1>7, <1>9

\* The sessions implement ToolExecutions: limits that the code counts in a
\* budget are limits on the executions themselves.
THEOREM SessionsImplementExecutions == Spec => ImplementsExecutions
<1>1. Init => Executions!Init
  BY DEF Init, Executions!Init
<1>2. IInv /\ [Next]_vars => [Executions!Next]_Executions!vars
  <2> SUFFICES ASSUME IInv, [Next]_vars
               PROVE  [Executions!Next]_Executions!vars
    OBVIOUS
  <2>1. ASSUME NEW s \in Sessions, NEW name, NEW valid, NEW available,
               Issue(s, name, valid, available)
        PROVE  UNCHANGED Executions!vars
    BY <2>1 DEF Issue, Executions!vars
  <2>2. CASE UNCHANGED vars
    BY <2>2 DEF vars, Executions!vars
  <2>3. ASSUME NEW g \in grants, NEW name \in PUBLIC_TOOL_REGISTRY, NEW s \in Sessions,
               Consume(g, name, s)
        PROVE  Executions!Next
    BY <2>3, ConsumeExecutes DEF Executions!Next
  <2>4. ASSUME NEW r \in receipts, NEW references \in SUBSET References,
               Mint(r, references)
        PROVE  Executions!Next
    BY <2>4, MintCites DEF Executions!Next
  <2> QED BY <2>1, <2>2, <2>3, <2>4 DEF Next
<1> QED BY <1>1, <1>2, Books, PTL DEF Spec, Executions!Spec, ImplementsExecutions
=============================================================================
