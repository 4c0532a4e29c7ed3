---------------------------- MODULE ToolSessions ----------------------------
(***************************************************************************)
(* The policy boundary of the public tools (agent/policy.py) and the       *)
(* evidence it vouches for (agent/coverage.py).  A session is a budget     *)
(* behind a lock; grants, receipts and evidence are capabilities that any  *)
(* thread may keep, copy and present again, in any order.  Each function   *)
(* touches its session once, under the lock, and is one step.              *)
(***************************************************************************)
EXTENDS Integers, FiniteSets

CONSTANTS
    Sessions,               \* _PublicToolBudgetSession objects of the host
    Nonces,                 \* object(): the identity of a grant
    References,             \* well-formed public evidence references
    MAX_TOTAL_TOOL_CALLS,
    MAX_CALLS,              \* ToolSpec.max_calls, the same for every tool
    MAX_BATCH               \* references in one batch of evidence

ASSUME LimitsOK ==
    /\ MAX_TOTAL_TOOL_CALLS \in Nat \ {0}
    /\ MAX_CALLS \in Nat \ {0}
    /\ MAX_BATCH \in Nat \ {0}

VARIABLES
    budget,     \* budget[s]: the session's ToolBudget
    grants,     \* grants issued so far
    consumed,   \* consumed[s]: nonces of the grants that were consumed
    redeemed,   \* redeemed[s]: nonces of the receipts that were redeemed
    receipts,   \* receipts handed out so far
    batches     \* batches of VerifiedPublicEvidence minted so far

vars == <<budget, grants, consumed, redeemed, receipts, batches>>

-----------------------------------------------------------------------------
(* Data *)

PUBLIC_TOOL_REGISTRY == {"retrieve_public_water_knowledge",
                         "aggregate_public_history", "screen_public_anomaly"}

\* What the graph offers when it was built without a retriever.
WithoutRetriever == {"aggregate_public_history", "screen_public_anomaly"}

ToolBudget == [remaining_total : 0 .. MAX_TOTAL_TOOL_CALLS,
               used_by_tool    : [PUBLIC_TOOL_REGISTRY -> 0 .. MAX_CALLS]]

Capability == [session : Sessions, tool : PUBLIC_TOOL_REGISTRY, nonce : Nonces]
Batch == [receipt : Capability, references : SUBSET References]

initial == [remaining_total |-> MAX_TOTAL_TOOL_CALLS,
            used_by_tool |-> [t \in PUBLIC_TOOL_REGISTRY |-> 0]]

used_total(b) == b.used_by_tool["retrieve_public_water_knowledge"]
                 + b.used_by_tool["aggregate_public_history"]
                 + b.used_by_tool["screen_public_anomaly"]

\* The field limits of ToolBudget and validate_usage.
valid_budget(b) ==
    /\ b.remaining_total \in 0 .. MAX_TOTAL_TOOL_CALLS
    /\ \A t \in PUBLIC_TOOL_REGISTRY : b.used_by_tool[t] \in 0 .. MAX_CALLS
    /\ MAX_TOTAL_TOOL_CALLS - b.remaining_total = used_total(b)

consume(b, t) == [remaining_total |-> b.remaining_total - 1,
                  used_by_tool |-> [b.used_by_tool EXCEPT ![t] = @ + 1]]

\* ToolBudget.consume raises, and changes nothing, unless the tool may be
\* charged; the budget it builds validates itself.
may_consume(b, t) ==
    /\ b.remaining_total >= 1
    /\ b.used_by_tool[t] < MAX_CALLS
    /\ valid_budget(consume(b, t))

\* authorize_public_tool_call: the first check that fails names the decision.
\* valid_arguments: the arguments keep the input contract of the tool.
authorize_public_tool_call(name, valid_arguments, available, b) ==
    CASE name \notin PUBLIC_TOOL_REGISTRY        -> "tool_not_allowlisted"
      [] name \in PUBLIC_TOOL_REGISTRY \ available -> "tool_unavailable"
      [] name \in available /\ ~valid_arguments  -> "invalid_tool_request"
      [] OTHER ->
            IF ~valid_budget(b) THEN "invalid_tool_budget"
            ELSE IF b.remaining_total < 1 THEN "tool_budget_exhausted"
            ELSE IF b.used_by_tool[name] >= MAX_CALLS THEN "tool_call_limit_reached"
            ELSE "tool_allowed"

-----------------------------------------------------------------------------
(* Grants *)

\* object() is no grant's identity yet.
FreshNonces == { n \in Nonces : \A g \in grants : g.nonce # n }

\* issue_public_tool_grant reserves nothing: any number of grants may wait.
Issue(s, name, valid_arguments, available) ==
    /\ authorize_public_tool_call(name, valid_arguments, available, budget[s])
           = "tool_allowed"
    /\ \E n \in FreshNonces :
          grants' = grants \cup {[session |-> s, tool |-> name, nonce |-> n]}
    /\ UNCHANGED <<budget, consumed, redeemed, receipts, batches>>

Charge(s, t, n) ==
    /\ budget' = [budget EXCEPT ![s] = consume(@, t)]
    /\ consumed' = [consumed EXCEPT ![s] = @ \cup {n}]
    /\ receipts' = receipts \cup {[session |-> s, tool |-> t, nonce |-> n]}
    /\ UNCHANGED <<grants, redeemed, batches>>

\* Broken variant of Consume: the nonce is not remembered.
ConsumeAgain(g, expected_name, s) ==
    /\ g.tool = expected_name
    /\ g.session = s
    /\ may_consume(budget[s], expected_name)
    /\ Charge(s, expected_name, g.nonce)

\* consume_issued_public_tool_grant: the budget is checked again, because other
\* grants of the session may have been consumed since this one was issued.
Consume(g, expected_name, s) ==
    /\ g.tool = expected_name
    /\ g.session = s
    /\ g.nonce \notin consumed[s]
    /\ may_consume(budget[s], expected_name)
    /\ Charge(s, expected_name, g.nonce)

-----------------------------------------------------------------------------
(* Evidence *)

\* _redeem_tool_execution_receipt.
MayRedeem(r) ==
    /\ r.nonce \in consumed[r.session]
    /\ r.nonce \notin redeemed[r.session]

\* mint_verified_public_evidence_batch: one to MAX_BATCH distinct well-formed
\* references; they are validated before the receipt is spent.
WellFormed(references) == Cardinality(references) \in 1 .. MAX_BATCH

\* Broken variant: the receipt is spent first, and a refused batch loses it.
MintSpendsFirst(r, references) ==
    /\ MayRedeem(r)
    /\ redeemed' = [redeemed EXCEPT ![r.session] = @ \cup {r.nonce}]
    /\ batches' = IF WellFormed(references)
                  THEN batches \cup {[receipt |-> r, references |-> references]}
                  ELSE batches
    /\ UNCHANGED <<budget, grants, consumed, receipts>>

\* Broken variant: a redeemed receipt is not remembered.
MintAgain(r, references) ==
    /\ WellFormed(references)
    /\ r.nonce \in consumed[r.session]
    /\ redeemed' = [redeemed EXCEPT ![r.session] = @ \cup {r.nonce}]
    /\ batches' = batches \cup {[receipt |-> r, references |-> references]}
    /\ UNCHANGED <<budget, grants, consumed, receipts>>

Mint(r, references) ==
    /\ WellFormed(references)
    /\ MayRedeem(r)
    /\ redeemed' = [redeemed EXCEPT ![r.session] = @ \cup {r.nonce}]
    /\ batches' = batches \cup {[receipt |-> r, references |-> references]}
    /\ UNCHANGED <<budget, grants, consumed, receipts>>

-----------------------------------------------------------------------------
Init ==
    /\ budget = [s \in Sessions |-> initial]
    /\ grants = {}
    /\ consumed = [s \in Sessions |-> {}]
    /\ redeemed = [s \in Sessions |-> {}]
    /\ receipts = {}
    /\ batches = {}

Next ==
    \/ \E s \in Sessions, name \in PUBLIC_TOOL_REGISTRY \cup {"other"},
          valid \in BOOLEAN, available \in {PUBLIC_TOOL_REGISTRY, WithoutRetriever} :
          Issue(s, name, valid, available)
    \/ \E g \in grants, name \in PUBLIC_TOOL_REGISTRY, s \in Sessions :
          Consume(g, name, s)
    \/ \E r \in receipts, references \in SUBSET References : Mint(r, references)

Spec == Init /\ [][Next]_vars

-----------------------------------------------------------------------------
(* Properties *)

TypeOK ==
    /\ budget \in [Sessions -> ToolBudget]
    /\ grants \subseteq Capability
    /\ consumed \in [Sessions -> SUBSET Nonces]
    /\ redeemed \in [Sessions -> SUBSET Nonces]
    /\ receipts \subseteq Capability
    /\ batches \subseteq Batch

\* The books balance although issuing reserves nothing: a session's budget
\* passes its own validation at every moment, so that no authorization is ever
\* refused for it, and the charges are exactly the executions handed out.
BudgetBalances ==
    \A s \in Sessions :
        /\ valid_budget(budget[s])
        /\ Cardinality(consumed[s]) = used_total(budget[s])
        /\ \A t \in PUBLIC_TOOL_REGISTRY :
              Cardinality({ r \in receipts : r.session = s /\ r.tool = t })
                  = budget[s].used_by_tool[t]

\* Every receipt is a grant of the same session for the same tool, and a nonce
\* names one execution in all sessions.
ReceiptsAreGranted ==
    /\ receipts \subseteq grants
    /\ \A r1, r2 \in receipts : r1.nonce = r2.nonce => r1 = r2

\* An execution is redeemed once, for one batch, and a refused batch costs no
\* receipt: redeemed receipts and batches correspond one to one.
EvidenceIsBacked ==
    /\ \A b \in batches : b.receipt \in receipts
    /\ \A b1, b2 \in batches : b1.receipt = b2.receipt => b1 = b2
    /\ \A s \in Sessions, n \in Nonces :
          n \in redeemed[s] <=>
              \E b \in batches : b.receipt.session = s /\ b.receipt.nonce = n

\* The sessions keep the promise of ToolExecutions.
Executions == INSTANCE ToolExecutions WITH
    Tools    <- PUBLIC_TOOL_REGISTRY,
    executed <- receipts,
    cited    <- { [execution |-> b.receipt, references |-> b.references] : b \in batches }

ImplementsExecutions == Executions!Spec
=============================================================================
