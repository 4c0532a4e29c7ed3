--------------------------- MODULE ToolExecutions ---------------------------
(***************************************************************************)
(* What a tool budget session promises the operations graph, however its   *)
(* capabilities are copied, kept or presented twice: a tool runs at most   *)
(* MAX_CALLS times and all tools together at most MAX_TOTAL_TOOL_CALLS     *)
(* times in a session, and one execution backs at most one batch of public *)
(* evidence.  ToolSessions implements this specification.                  *)
(***************************************************************************)
EXTENDS Integers, FiniteSets

CONSTANTS Sessions, Tools, Nonces, References, MAX_TOTAL_TOOL_CALLS, MAX_CALLS

VARIABLES
    executed,  \* executions that were charged to a session
    cited      \* batches of evidence: an execution and what it showed

vars == <<executed, cited>>

Execution == [session : Sessions, tool : Tools, nonce : Nonces]
Batch == [execution : Execution, references : SUBSET References]

InSession(s) == { e \in executed : e.session = s }
OfTool(s, t) == { e \in executed : e.session = s /\ e.tool = t }

Init == executed = {} /\ cited = {}

Execute(e) ==
    /\ \A x \in executed : x.nonce # e.nonce
    /\ Cardinality(InSession(e.session)) < MAX_TOTAL_TOOL_CALLS
    /\ Cardinality(OfTool(e.session, e.tool)) < MAX_CALLS
    /\ executed' = executed \cup {e}
    /\ UNCHANGED cited

Cite(b) ==
    /\ b.execution \in executed
    /\ \A c \in cited : c.execution # b.execution
    /\ b.references # {}
    /\ cited' = cited \cup {b}
    /\ UNCHANGED executed

Next == (\E e \in Execution : Execute(e)) \/ (\E b \in Batch : Cite(b))

Spec == Init /\ [][Next]_vars
=============================================================================
