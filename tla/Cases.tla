------------------------------- MODULE Cases -------------------------------
(***************************************************************************)
(* POST /v1/cases: create_case of domain/services.py in the transaction of *)
(* session_scope, behind the token check of security/auth.py.  PostgreSQL  *)
(* runs at READ COMMITTED: a SELECT sees what is committed, and an INSERT  *)
(* that meets the uncommitted row of another transaction under the unique  *)
(* constraint waits until that transaction has ended.                      *)
(***************************************************************************)
EXTENDS Integers

CONSTANTS
    Requests,   \* requests of clients, each handled by an API thread
    Slots,      \* pairs of an owner and an external key
    Owners, SlotOf, OwnerOf,
    Ids,        \* uuid4 values of Case.id
    None,
    MaxFaults,  \* bound on failures
    MaxChanges  \* bound on changes of roles

Roles == {"none", "viewer", "operator"}

ASSUME CasesOK ==
    /\ SlotOf \in [Requests -> Slots]
    /\ OwnerOf \in [Slots -> Owners]
    /\ None \notin Ids \cup Slots
    /\ MaxFaults \in Nat
    /\ MaxChanges \in Nat

VARIABLES
    case,     \* case[i]: the slot of the committed row with id i, or None
    audit,    \* audit[i]: committed case.created events about i
    request,  \* request[r]: the thread's place, its token, its uncommitted row, its answer
    roles,    \* roles[o]: the role of o in the users table
    issued,   \* issued[o]: roles for which o may still hold an unexpired token
    held,     \* history: held[r], whether the owner could write since r was sent
    faults, changes

vars == <<case, audit, request, roles, issued, held, faults, changes>>

-----------------------------------------------------------------------------
(* Data *)

Owner(r) == OwnerOf[SlotOf[r]]

\* ROLE_PERMISSIONS.
CanWrite(role) == role = "operator"

Working == {"select", "insert", "reselect", "commit"}
Pc == {"idle", "auth", "committed", "done", "failed", "rejected"} \cup Working

Quiet == [pc |-> "idle", claimed |-> "none", pending |-> None, found |-> None,
          created |-> FALSE]

\* The committed row a SELECT by owner and external key finds.
Existing(s) == { i \in Ids : case[i] = s }

FreshIds == { i \in Ids : case[i] = None /\ \A q \in Requests : request[q].pending # i }

Move(r, pc) == request' = [request EXCEPT ![r].pc = pc]

-----------------------------------------------------------------------------
(* Clients and tokens *)

\* A client sends its request, or sends it again after a failure.
Send(r, claimed) ==
    /\ request[r].pc \in {"idle", "failed", "rejected"}
    /\ claimed \in issued[Owner(r)]
    /\ request' = [request EXCEPT ![r] = [Quiet EXCEPT !.pc = "auth", !.claimed = claimed]]
    /\ held' = [held EXCEPT ![r] = CanWrite(roles[Owner(r)])]
    /\ UNCHANGED <<case, audit, roles, issued, faults, changes>>

ChangeRole(o, role) ==
    /\ changes < MaxChanges
    /\ changes' = changes + 1
    /\ roles' = [roles EXCEPT ![o] = role]
    /\ issued' = [issued EXCEPT ![o] = @ \cup {role}]
    /\ held' = [r \in Requests |-> held[r] \/ (Owner(r) = o /\ CanWrite(role))]
    /\ UNCHANGED <<case, audit, request, faults>>

\* Broken variant: the roles claimed by the token are believed.
AuthorizedByToken(r) == request[r].claimed # "none" /\ CanWrite(request[r].claimed)

\* decode_access_token and require_case_write: the roles in the token must be
\* those in the table now, and allow writing cases.
Authorized(r) ==
    /\ request[r].claimed # "none"
    /\ roles[Owner(r)] = request[r].claimed
    /\ CanWrite(roles[Owner(r)])

Authenticate(r) ==
    /\ request[r].pc = "auth"
    /\ Move(r, IF Authorized(r) THEN "select" ELSE "rejected")
    /\ UNCHANGED <<case, audit, roles, issued, held, faults, changes>>

-----------------------------------------------------------------------------
(* create_case *)

Select(r) ==
    /\ request[r].pc = "select"
    /\ IF Existing(SlotOf[r]) = {}
       THEN Move(r, "insert")
       ELSE \E i \in Existing(SlotOf[r]) :
               request' = [request EXCEPT ![r] = [@ EXCEPT !.pc = "commit", !.found = i]]
    /\ UNCHANGED <<case, audit, roles, issued, held, faults, changes>>

\* Uncommitted rows the unique constraint makes the INSERT wait for.
Rivals(r) == { q \in Requests \ {r} : /\ SlotOf[q] = SlotOf[r]
                                      /\ request[q].pending # None }

\* Broken variant: the INSERT trusts the SELECT.
InsertUnconstrained(r) ==
    /\ request[r].pc = "insert"
    /\ \E i \in FreshIds :
          request' = [request EXCEPT ![r] =
              [@ EXCEPT !.pc = "commit", !.pending = i, !.found = i, !.created = TRUE]]
    /\ UNCHANGED <<case, audit, roles, issued, held, faults, changes>>

\* The savepoint is released with the row and its audit event pending.
Insert(r) ==
    /\ request[r].pc = "insert"
    /\ Rivals(r) = {}
    /\ Existing(SlotOf[r]) = {}
    /\ \E i \in FreshIds :
          request' = [request EXCEPT ![r] =
              [@ EXCEPT !.pc = "commit", !.pending = i, !.found = i, !.created = TRUE]]
    /\ UNCHANGED <<case, audit, roles, issued, held, faults, changes>>

\* IntegrityError: the savepoint is rolled back, the transaction goes on.
InsertConflicts(r) ==
    /\ request[r].pc = "insert"
    /\ Rivals(r) = {}
    /\ Existing(SlotOf[r]) # {}
    /\ Move(r, "reselect")
    /\ UNCHANGED <<case, audit, roles, issued, held, faults, changes>>

Reselect(r) ==
    /\ request[r].pc = "reselect"
    /\ IF Existing(SlotOf[r]) = {}
       THEN Move(r, "failed")
       ELSE \E i \in Existing(SlotOf[r]) :
               request' = [request EXCEPT ![r] = [@ EXCEPT !.pc = "commit", !.found = i]]
    /\ UNCHANGED <<case, audit, roles, issued, held, faults, changes>>

-----------------------------------------------------------------------------
(* session_scope, and failures *)

\* Broken variants: the audit event is written by a second transaction; it is
\* written although the case was found.
CommitUnaudited(r) ==
    /\ request[r].pc = "commit"
    /\ case' = [i \in Ids |-> IF i = request[r].pending THEN SlotOf[r] ELSE case[i]]
    /\ request' = [request EXCEPT ![r] = [@ EXCEPT !.pc = "committed", !.pending = None]]
    /\ UNCHANGED <<audit, roles, issued, held, faults, changes>>

CommitAudited(r) ==
    /\ request[r].pc = "commit"
    /\ case' = [i \in Ids |-> IF i = request[r].pending THEN SlotOf[r] ELSE case[i]]
    /\ audit' = [i \in Ids |-> audit[i] + IF i = request[r].found THEN 1 ELSE 0]
    /\ request' = [request EXCEPT ![r] = [@ EXCEPT !.pc = "committed", !.pending = None]]
    /\ UNCHANGED <<roles, issued, held, faults, changes>>

Commit(r) ==
    /\ request[r].pc = "commit"
    /\ case' = [i \in Ids |-> IF i = request[r].pending THEN SlotOf[r] ELSE case[i]]
    /\ audit' = [i \in Ids |-> audit[i] + IF i = request[r].pending THEN 1 ELSE 0]
    /\ request' = [request EXCEPT ![r] = [@ EXCEPT !.pc = "committed", !.pending = None]]
    /\ UNCHANGED <<roles, issued, held, faults, changes>>

\* 201 when the case was created, 200 when it was found.
Reply(r) ==
    /\ request[r].pc = "committed"
    /\ Move(r, "done")
    /\ UNCHANGED <<case, audit, roles, issued, held, faults, changes>>

\* Broken variant: the transaction is left open.
FailOpen(r) ==
    /\ request[r].pc \in Working
    /\ faults < MaxFaults
    /\ faults' = faults + 1
    /\ Move(r, "failed")
    /\ UNCHANGED <<case, audit, roles, issued, held, changes>>

\* The role lookup or a statement fails, or the thread dies: the transaction is
\* rolled back, and the client gets 503, 500 or nothing.
Fail(r) ==
    /\ request[r].pc \in Working \cup {"auth"}
    /\ faults < MaxFaults
    /\ faults' = faults + 1
    /\ request' = [request EXCEPT ![r] = [@ EXCEPT !.pc = "failed", !.pending = None]]
    /\ UNCHANGED <<case, audit, roles, issued, held, changes>>

\* The transaction is committed but the client does not learn it.
ReplyLost(r) ==
    /\ request[r].pc = "committed"
    /\ faults < MaxFaults
    /\ faults' = faults + 1
    /\ Move(r, "failed")
    /\ UNCHANGED <<case, audit, roles, issued, held, changes>>

-----------------------------------------------------------------------------
Init ==
    /\ case = [i \in Ids |-> None]
    /\ audit = [i \in Ids |-> 0]
    /\ request = [r \in Requests |-> Quiet]
    /\ roles = [o \in Owners |-> "operator"]
    /\ issued = [o \in Owners |-> {"operator"}]
    /\ held = [r \in Requests |-> FALSE]
    /\ faults = 0
    /\ changes = 0

Handle(r) ==
    \/ Authenticate(r) \/ Select(r) \/ Insert(r) \/ InsertConflicts(r) \/ Reselect(r)
    \/ Commit(r) \/ Reply(r)

Next ==
    \/ \E r \in Requests : \/ Handle(r) \/ Fail(r) \/ ReplyLost(r)
                           \/ \E claimed \in Roles : Send(r, claimed)
    \/ \E o \in Owners, role \in Roles : ChangeRole(o, role)

Spec == Init /\ [][Next]_vars

\* A thread goes on with the request it handles.
FairSpec == Spec /\ \A r \in Requests : WF_vars(Handle(r))

-----------------------------------------------------------------------------
(* Properties *)

TypeOK ==
    /\ case \in [Ids -> Slots \cup {None}]
    /\ audit \in [Ids -> 0 .. 1]
    /\ request \in [Requests -> [pc      : Pc,
                                 claimed : Roles,
                                 pending : Ids \cup {None},
                                 found   : Ids \cup {None},
                                 created : BOOLEAN]]
    /\ roles \in [Owners -> Roles]
    /\ issued \in [Owners -> SUBSET Roles]
    /\ held \in [Requests -> BOOLEAN]
    /\ faults \in Nat /\ changes \in Nat

\* At most one case exists for an owner and external key, committed or about to
\* be: requests that all saw no row cannot all insert one.
OneCasePerKey ==
    \A s \in Slots :
        \A i, j \in Ids :
            LET claims(x) == \/ case[x] = s
                             \/ \E r \in Requests : SlotOf[r] = s /\ request[r].pending = x
            IN  claims(i) /\ claims(j) => i = j

\* What a client is told is durable and its own: the case it gets is committed
\* under its key, has one audit event, and at most one client is told 201.
AnswersAreDurable ==
    /\ \A r \in Requests : request[r].pc = "done" =>
          /\ case[request[r].found] = SlotOf[r]
          /\ audit[request[r].found] = 1
    /\ \A q, r \in Requests :
          /\ request[q].pc = "done" /\ request[q].created
          /\ request[r].pc = "done" /\ request[r].created
          /\ SlotOf[q] = SlotOf[r]
          => q = r

\* A request that was sent after its owner lost the right to write cases gets
\* no further than authentication, whatever its token still claims.
RevocationBites ==
    \A r \in Requests : request[r].pc \in Working \cup {"committed", "done"} => held[r]

\* Cases implements CaseRegistry.
CaseOf(s) == IF Existing(s) = {} THEN None ELSE CHOOSE i \in Existing(s) : TRUE

Registry == INSTANCE CaseRegistry WITH
    registry <- [s \in Slots |-> CaseOf(s)],
    events   <- audit,
    answer   <- [r \in Requests |-> IF request[r].pc = "done" THEN request[r].found
                                    ELSE None]

ImplementsRegistry == Registry!Spec

\* Every request that was sent is answered or fails; an INSERT that waits for
\* another transaction does not wait for ever.
EveryRequestEnds ==
    \A r \in Requests : request[r].pc = "auth"
                        ~> request[r].pc \in {"done", "failed", "rejected"}
=============================================================================
