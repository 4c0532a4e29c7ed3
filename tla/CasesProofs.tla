----------------------------- MODULE CasesProofs -----------------------------
(***************************************************************************)
(* Theorems about Cases, for any number of requests, keys and ids, and any *)
(* number of failures and changes of roles.                                *)
(***************************************************************************)
EXTENDS Cases, TLAPS

Settled == {"committed", "done"}

\* Nothing is pending outside a transaction that is about to commit, and what
\* is pending is a row of no other transaction, committed or not.
PendingIsNew ==
    \A r \in Requests : request[r].pending # None =>
        /\ request[r].pc = "commit"
        /\ request[r].found = request[r].pending
        /\ request[r].created
        /\ case[request[r].pending] = None
        /\ \A q \in Requests : request[q].pending = request[r].pending => q = r

\* What a transaction found is committed, unless it is its own new row.
FoundIsCommitted ==
    \A r \in Requests :
        /\ request[r].pc = "commit" /\ request[r].pending = None
              => case[request[r].found] = SlotOf[r] /\ request[r].found \in Ids
                 /\ ~request[r].created
        /\ request[r].pc \in Settled
              => case[request[r].found] = SlotOf[r] /\ request[r].found \in Ids
        /\ request[r].created => request[r].pc \in {"commit", "failed"} \cup Settled

\* A committed row was inserted by one request.
Created(r) == request[r].created /\ request[r].pc \in Settled
OneCreator ==
    \A q, r \in Requests :
        Created(q) /\ Created(r) /\ request[q].found = request[r].found => q = r

\* Committed rows and audit events correspond one to one.
AuditIsComplete == \A i \in Ids : audit[i] = IF case[i] = None THEN 0 ELSE 1

\* While the owner can write, the history says so of every request under way.
HeldNow == \A r \in Requests : request[r].pc # "idle" /\ CanWrite(roles[Owner(r)])
                               => held[r]

Books == /\ OneCasePerKey /\ PendingIsNew /\ FoundIsCommitted /\ OneCreator
         /\ AuditIsComplete
IInv == TypeOK /\ Books /\ HeldNow /\ RevocationBites

-----------------------------------------------------------------------------
LEMMA IInvInit == Init => IInv
<1> SUFFICES ASSUME Init PROVE IInv
  OBVIOUS
<1> USE CasesOK DEF Init, Quiet
<1>1. TypeOK
  BY DEF TypeOK, Pc, Roles, Working
<1>2. OneCasePerKey
  BY DEF OneCasePerKey
<1>3. PendingIsNew /\ FoundIsCommitted /\ OneCreator /\ AuditIsComplete
  BY DEF PendingIsNew, FoundIsCommitted, OneCreator, Created, AuditIsComplete, Settled
<1>4. HeldNow /\ RevocationBites
  BY DEF HeldNow, RevocationBites, Working
<1> QED BY <1>1, <1>2, <1>3, <1>4 DEF IInv, Books

\* A step of one request that leaves no row pending and commits nothing.
LEMMA LocalStep ==
    ASSUME TypeOK, Books, NEW r \in Requests,
           UNCHANGED <<case, audit>>,
           \A q \in Requests \ {r} : request'[q] = request[q],
           request'[r].pending = None,
           request'[r].pc = "commit" => /\ case[request'[r].found] = SlotOf[r]
                                        /\ request'[r].found \in Ids
                                        /\ ~request'[r].created,
           request'[r].pc \in Settled => /\ request[r].pc \in Settled
                                         /\ request'[r].found = request[r].found
                                         /\ request'[r].created = request[r].created,
           request'[r].created => request'[r].pc \in {"commit", "failed"} \cup Settled
    PROVE  Books'
<1>1. OneCasePerKey'
  <2> SUFFICES ASSUME NEW s \in Slots, NEW i \in Ids, NEW j \in Ids,
                      case'[i] = s \/ \E q \in Requests :
                                         SlotOf[q] = s /\ request'[q].pending = i,
                      case'[j] = s \/ \E q \in Requests :
                                         SlotOf[q] = s /\ request'[q].pending = j
               PROVE  i = j
    BY DEF OneCasePerKey
  <2>1. \A x \in Ids, q \in Requests :
           request'[q].pending = x => request[q].pending = x
    BY CasesOK
  <2> QED BY <2>1 DEF Books, OneCasePerKey
<1>2. PendingIsNew'
  BY DEF Books, PendingIsNew
<1>3. FoundIsCommitted'
  BY DEF Books, FoundIsCommitted
<1>4. OneCreator'
  <2>1. \A q \in Requests : Created(q)' => Created(q) /\ request'[q].found = request[q].found
    BY DEF Created
  <2> QED BY <2>1 DEF Books, OneCreator
<1>5. AuditIsComplete'
  BY DEF Books, AuditIsComplete
<1> QED BY <1>1, <1>2, <1>3, <1>4, <1>5 DEF Books

\* The row a SELECT finds is committed under the key it asked for.
LEMMA SelectFinds ==
    ASSUME TypeOK, NEW r \in Requests, NEW i \in Existing(SlotOf[r])
    PROVE  i \in Ids /\ case[i] = SlotOf[r]
  BY DEF Existing

\* A new row takes a key that has none, committed or pending.
LEMMA InsertKeepsBooks ==
    ASSUME TypeOK, Books, NEW r \in Requests, Insert(r)
    PROVE  Books'
<1>1. PICK i \in FreshIds :
         request' = [request EXCEPT ![r] =
              [@ EXCEPT !.pc = "commit", !.pending = i, !.found = i, !.created = TRUE]]
  BY DEF Insert
<1>2. /\ i \in Ids /\ i # None /\ case[i] = None
      /\ \A q \in Requests : request[q].pending # i
  BY CasesOK DEF FreshIds
<1>3. /\ request'[r].pc = "commit" /\ request'[r].pending = i
      /\ request'[r].found = i /\ request'[r].created
      /\ \A q \in Requests \ {r} : request'[q] = request[q]
      /\ UNCHANGED <<case, audit>>
  BY ZenonT(30), <1>1 DEF TypeOK, Insert
<1>4. request[r].pending = None
  BY DEF Insert, Books, PendingIsNew
<1>5. /\ \A j \in Ids : case[j] # SlotOf[r]
      /\ \A q \in Requests \ {r} : SlotOf[q] = SlotOf[r] => request[q].pending = None
  BY DEF Insert, Existing, Rivals
<1>6. OneCasePerKey'
  <2> SUFFICES ASSUME NEW s \in Slots, NEW j \in Ids, NEW k \in Ids,
                      case'[j] = s \/ \E q \in Requests :
                                         SlotOf[q] = s /\ request'[q].pending = j,
                      case'[k] = s \/ \E q \in Requests :
                                         SlotOf[q] = s /\ request'[q].pending = k
               PROVE  j = k
    BY DEF OneCasePerKey
  <2>1. CASE s = SlotOf[r]
    BY <2>1, <1>2, <1>3, <1>5, CasesOK
  <2>2. CASE s # SlotOf[r]
    <3>1. \A q \in Requests : SlotOf[q] = s => request'[q].pending = request[q].pending
      BY <2>2, <1>3
    <3> QED BY <3>1, <1>3 DEF Books, OneCasePerKey
  <2> QED BY <2>1, <2>2
<1>7. PendingIsNew'
  BY <1>2, <1>3 DEF Books, PendingIsNew
<1>8. FoundIsCommitted'
  BY <1>2, <1>3 DEF Books, FoundIsCommitted, Settled
<1>9. OneCreator'
  <2>1. \A q \in Requests : Created(q)' => Created(q) /\ request'[q].found = request[q].found
    BY <1>3 DEF Created, Settled
  <2> QED BY <2>1 DEF Books, OneCreator
<1>10. AuditIsComplete'
  BY <1>3 DEF Books, AuditIsComplete
<1> QED BY <1>6, <1>7, <1>8, <1>9, <1>10 DEF Books

\* A commit turns the pending row, if there is one, into the case of its key.
LEMMA CommitKeepsBooks ==
    ASSUME TypeOK, Books, NEW r \in Requests, Commit(r)
    PROVE  Books'
<1> DEFINE p == request[r].pending
<1>1. /\ request'[r].pc = "committed" /\ request'[r].pending = None
      /\ request'[r].found = request[r].found
      /\ request'[r].created = request[r].created
      /\ \A q \in Requests \ {r} : request'[q] = request[q]
      /\ request[r].pc = "commit"
  BY DEF TypeOK, Commit
<1>2. /\ \A i \in Ids : case'[i] = IF i = p THEN SlotOf[r] ELSE case[i]
      /\ \A i \in Ids : audit'[i] = audit[i] + IF i = p THEN 1 ELSE 0
  BY DEF Commit
<1>3. SlotOf[r] \in Slots /\ SlotOf[r] # None
  BY CasesOK
<1>4. p = None \/ p \in Ids
  BY DEF TypeOK
<1>5. CASE p = None
  <2>1. UNCHANGED <<case, audit>>
    <3>1. \A i \in Ids : i # p
      BY <1>5, CasesOK
    <3>2. case' = [i \in Ids |-> case[i]] /\ audit' = [i \in Ids |-> audit[i]]
      BY <3>1 DEF Commit, TypeOK
    <3> QED BY <3>2 DEF TypeOK
  <2>2. /\ case[request[r].found] = SlotOf[r] /\ request[r].found \in Ids
        /\ ~request[r].created
    BY <1>1, <1>5 DEF Books, FoundIsCommitted
  <2>3. OneCasePerKey'
    <3> SUFFICES ASSUME NEW s \in Slots, NEW i \in Ids, NEW j \in Ids,
                        case'[i] = s \/ \E q \in Requests :
                                           SlotOf[q] = s /\ request'[q].pending = i,
                        case'[j] = s \/ \E q \in Requests :
                                           SlotOf[q] = s /\ request'[q].pending = j
                 PROVE  i = j
      BY DEF OneCasePerKey
    <3>1. \A q \in Requests : request'[q].pending = request[q].pending
      BY <1>1, <1>5
    <3> QED BY <2>1, <3>1 DEF Books, OneCasePerKey
  <2>4. PendingIsNew'
    BY <1>1, <1>5, <2>1 DEF Books, PendingIsNew
  <2>5. FoundIsCommitted'
    BY <1>1, <2>1, <2>2 DEF Books, FoundIsCommitted, Settled
  <2>6. OneCreator'
    <3>1. \A q \in Requests : Created(q)' => Created(q) /\ request'[q].found = request[q].found
      BY <1>1, <2>2 DEF Created, Settled
    <3> QED BY <3>1 DEF Books, OneCreator
  <2>7. AuditIsComplete'
    BY <2>1 DEF Books, AuditIsComplete
  <2> QED BY <2>3, <2>4, <2>5, <2>6, <2>7 DEF Books
<1>6. CASE p \in Ids
  <2>1. p # None
    BY <1>6, CasesOK
  <2>2. /\ request[r].found = p /\ request[r].created /\ case[p] = None
        /\ \A q \in Requests : request[q].pending = p => q = r
    BY <2>1 DEF Books, PendingIsNew
  <2>3. case'[p] = SlotOf[r] /\ \A i \in Ids \ {p} : case'[i] = case[i]
    BY <1>2, <1>6
  <2> HIDE DEF p
  <2>4. OneCasePerKey'
    <3> SUFFICES ASSUME NEW s \in Slots, NEW i \in Ids, NEW j \in Ids,
                        case'[i] = s \/ \E q \in Requests :
                                           SlotOf[q] = s /\ request'[q].pending = i,
                        case'[j] = s \/ \E q \in Requests :
                                           SlotOf[q] = s /\ request'[q].pending = j
                 PROVE  i = j
      BY DEF OneCasePerKey
    <3>1. ASSUME NEW x \in Ids,
                 case'[x] = s \/ \E q \in Requests : SlotOf[q] = s /\ request'[q].pending = x
          PROVE  case[x] = s \/ \E q \in Requests : SlotOf[q] = s /\ request[q].pending = x
      <4>1. CASE x = p /\ case'[x] = s
        BY <4>1, <2>3 DEF p
      <4>2. CASE x # p /\ case'[x] = s
        BY <4>2, <2>3
      <4>3. CASE \E q \in Requests : SlotOf[q] = s /\ request'[q].pending = x
        BY <4>3, <1>1, CasesOK
      <4> QED BY <3>1, <4>1, <4>2, <4>3
    <3>2. /\ case[i] = s \/ \E q \in Requests : SlotOf[q] = s /\ request[q].pending = i
          /\ case[j] = s \/ \E q \in Requests : SlotOf[q] = s /\ request[q].pending = j
      BY <3>1
    <3> QED BY <3>2 DEF Books, OneCasePerKey
  <2>5. PendingIsNew'
    <3> SUFFICES ASSUME NEW q \in Requests, request'[q].pending # None
                 PROVE  /\ request'[q].pc = "commit"
                        /\ request'[q].found = request'[q].pending
                        /\ request'[q].created
                        /\ case'[request'[q].pending] = None
                        /\ \A o \in Requests : request'[o].pending = request'[q].pending
                                               => o = q
      BY DEF PendingIsNew
    <3>1. q # r /\ request'[q] = request[q]
      BY <1>1
    <3>2. request[q].pending # p /\ request[q].pending \in Ids
      BY <2>2, <3>1 DEF TypeOK
    <3> QED BY <1>1, <2>3, <3>1, <3>2 DEF Books, PendingIsNew
  <2>6. FoundIsCommitted'
    <3> SUFFICES ASSUME NEW q \in Requests
                 PROVE  /\ request'[q].pc = "commit" /\ request'[q].pending = None
                              => /\ case'[request'[q].found] = SlotOf[q]
                                 /\ request'[q].found \in Ids /\ ~request'[q].created
                        /\ request'[q].pc \in Settled
                              => /\ case'[request'[q].found] = SlotOf[q]
                                 /\ request'[q].found \in Ids
                        /\ request'[q].created
                              => request'[q].pc \in {"commit", "failed"} \cup Settled
      BY DEF FoundIsCommitted
    <3>1. CASE q = r
      BY <3>1, <1>1, <1>6, <2>2, <2>3 DEF Settled
    <3>2. CASE q # r
      <4>1. request'[q] = request[q]
        BY <3>2, <1>1
      <4>2. \A x \in Ids : case[x] = SlotOf[q] => case'[x] = SlotOf[q]
        BY <2>2, <2>3, CasesOK
      <4> QED BY <4>1, <4>2 DEF Books, FoundIsCommitted
    <3> QED BY <3>1, <3>2
  <2>7. OneCreator'
    <3> SUFFICES ASSUME NEW q \in Requests, NEW o \in Requests, Created(q)', Created(o)',
                        request'[q].found = request'[o].found, q # o
                 PROVE  FALSE
      BY DEF OneCreator
    <3>1. \A x \in Requests : x # r /\ Created(x)' => Created(x) /\ request'[x] = request[x]
      BY <1>1 DEF Created
    <3>2. \A x \in Requests : Created(x) => case[request[x].found] = SlotOf[x]
      BY DEF Books, FoundIsCommitted, Created
    <3>3. \A x \in Requests : x # r /\ Created(x)' => request'[x].found # p
      BY <3>1, <3>2, <2>2, CasesOK
    <3>4. CASE q # r /\ o # r
      BY <3>1, <3>4 DEF Books, OneCreator
    <3>5. CASE q = r \/ o = r
      BY <3>3, <3>5, <1>1, <2>2
    <3> QED BY <3>4, <3>5
  <2>8. AuditIsComplete'
    <3> SUFFICES ASSUME NEW i \in Ids
                 PROVE  audit'[i] = IF case'[i] = None THEN 0 ELSE 1
      BY DEF AuditIsComplete
    <3>1. audit[i] = IF case[i] = None THEN 0 ELSE 1
      BY DEF Books, AuditIsComplete
    <3>2. audit'[i] = audit[i] + IF i = p THEN 1 ELSE 0
      BY <1>2 DEF p
    <3>3. CASE i = p
      BY <3>1, <3>2, <3>3, <1>3, <2>2, <2>3
    <3>4. CASE i # p
      BY <3>1, <3>2, <3>4, <2>3
    <3> QED BY <3>3, <3>4
  <2> QED BY <2>4, <2>5, <2>6, <2>7, <2>8 DEF Books
<1> QED BY <1>4, <1>5, <1>6

-----------------------------------------------------------------------------
(* Every step *)

Record == [pc : Pc, claimed : Roles, pending : Ids \cup {None},
           found : Ids \cup {None}, created : BOOLEAN]

LEMMA BooksStep == IInv /\ [Next]_vars => Books'
<1> SUFFICES ASSUME IInv, [Next]_vars PROVE Books'
  OBVIOUS
<1> USE DEF IInv
<1>1. \A r \in Requests : request[r] \in Record
  BY DEF TypeOK, Record
<1>2. \A r \in Requests : request[r].pc # "commit" => request[r].pending = None
  BY DEF Books, PendingIsNew
<1>3. \A r \in Requests : request[r].created
                          => request[r].pc \in {"commit", "failed"} \cup Settled
  BY DEF Books, FoundIsCommitted
<1>4. ASSUME NEW r \in Requests, NEW claimed \in Roles, Send(r, claimed)
      PROVE  Books'
  <2>1. /\ request'[r] = [Quiet EXCEPT !.pc = "auth", !.claimed = claimed]
        /\ \A q \in Requests \ {r} : request'[q] = request[q]
        /\ UNCHANGED <<case, audit>>
    BY <1>4 DEF Send, TypeOK
  <2>2. request'[r].pc = "auth" /\ request'[r].pending = None /\ ~request'[r].created
    BY <2>1 DEF Quiet
  <2> QED BY <2>1, <2>2, LocalStep DEF Settled
<1>5. ASSUME NEW r \in Requests, NEW pc \in {"select", "rejected", "insert", "reselect",
                                             "failed", "done"},
             request[r].pc # "commit",
             request[r].created => pc \in {"failed", "done"},
             pc = "done" => request[r].pc = "committed",
             Move(r, pc), UNCHANGED <<case, audit>>
      PROVE  Books'
  <2>1. /\ request'[r].pc = pc /\ request'[r].pending = request[r].pending
        /\ request'[r].found = request[r].found
        /\ request'[r].created = request[r].created
        /\ \A q \in Requests \ {r} : request'[q] = request[q]
    BY <1>5 DEF Move, TypeOK
  <2> QED BY <1>2, <1>3, <1>5, <2>1, LocalStep DEF Settled
<1>6. ASSUME NEW r \in Requests, Authenticate(r) PROVE Books'
  <2>1. request[r].pc = "auth" /\ ~request[r].created
    BY <1>3, <1>6 DEF Authenticate, Settled
  <2>2. CASE Authorized(r)
    BY <2>1, <2>2, <1>5, <1>6 DEF Authenticate
  <2>3. CASE ~Authorized(r)
    BY <2>1, <2>3, <1>5, <1>6 DEF Authenticate
  <2> QED BY <2>2, <2>3
<1>7. ASSUME NEW r \in Requests, NEW i \in Existing(SlotOf[r]),
             request[r].pc \in {"select", "reselect"},
             request' = [request EXCEPT ![r] = [@ EXCEPT !.pc = "commit", !.found = i]],
             UNCHANGED <<case, audit>>
      PROVE  Books'
  <2>1. request[r].pending = None /\ ~request[r].created
    BY <1>2, <1>3, <1>7 DEF Settled
  <2>2. /\ request'[r].pc = "commit" /\ request'[r].pending = None
        /\ request'[r].found = i /\ ~request'[r].created
        /\ \A q \in Requests \ {r} : request'[q] = request[q]
    BY <1>1, <1>7, <2>1 DEF TypeOK, Record
  <2>3. i \in Ids /\ case[i] = SlotOf[r]
    BY SelectFinds
  <2> QED BY <1>7, <2>2, <2>3, LocalStep DEF Settled
<1>8. ASSUME NEW r \in Requests, Select(r) PROVE Books'
  <2>1. request[r].pc = "select" /\ ~request[r].created
    BY <1>3, <1>8 DEF Select, Settled
  <2>2. CASE Existing(SlotOf[r]) = {}
    BY <2>1, <2>2, <1>5, <1>8 DEF Select
  <2>3. CASE Existing(SlotOf[r]) # {}
    BY <2>1, <2>3, <1>7, <1>8 DEF Select
  <2> QED BY <2>2, <2>3
<1>9. ASSUME NEW r \in Requests, InsertConflicts(r) PROVE Books'
  <2>1. request[r].pc = "insert" /\ ~request[r].created
    BY <1>3, <1>9 DEF InsertConflicts, Settled
  <2> QED BY <2>1, <1>5, <1>9 DEF InsertConflicts
<1>10. ASSUME NEW r \in Requests, Reselect(r) PROVE Books'
  <2>1. request[r].pc = "reselect" /\ ~request[r].created
    BY <1>3, <1>10 DEF Reselect, Settled
  <2>2. CASE Existing(SlotOf[r]) = {}
    BY <2>1, <2>2, <1>5, <1>10 DEF Reselect
  <2>3. CASE Existing(SlotOf[r]) # {}
    BY <2>1, <2>3, <1>7, <1>10 DEF Reselect
  <2> QED BY <2>2, <2>3
<1>11. ASSUME NEW r \in Requests, Reply(r) PROVE Books'
  BY <1>5, <1>11 DEF Reply
<1>12. ASSUME NEW r \in Requests, ReplyLost(r) PROVE Books'
  BY <1>5, <1>12 DEF ReplyLost
<1>13. ASSUME NEW r \in Requests, Fail(r) PROVE Books'
  <2>1. /\ request'[r].pc = "failed" /\ request'[r].pending = None
        /\ \A q \in Requests \ {r} : request'[q] = request[q]
        /\ UNCHANGED <<case, audit>>
    BY <1>1, <1>13 DEF Fail, TypeOK, Record
  <2> QED BY <2>1, LocalStep DEF Settled
<1>14. ASSUME NEW o \in Owners, NEW role \in Roles, ChangeRole(o, role) PROVE Books'
  BY <1>14 DEF ChangeRole, Books, OneCasePerKey, PendingIsNew, FoundIsCommitted,
               OneCreator, Created, AuditIsComplete
<1>15. CASE UNCHANGED vars
  BY <1>15 DEF vars, Books, OneCasePerKey, PendingIsNew, FoundIsCommitted,
               OneCreator, Created, AuditIsComplete
<1> QED
  BY <1>4, <1>6, <1>8, <1>9, <1>10, <1>11, <1>12, <1>13, <1>14, <1>15,
     InsertKeepsBooks, CommitKeepsBooks DEF Next, Handle

\* What a step does to the record of a request, and to the history.
LEMMA TypeStep == IInv /\ [Next]_vars => TypeOK'
<1> SUFFICES ASSUME IInv, [Next]_vars PROVE TypeOK'
  OBVIOUS
<1> USE CasesOK DEF IInv
<1>0. /\ request \in [Requests -> Record]
      /\ Books'
  BY BooksStep DEF TypeOK, Record
<1>1. ASSUME request' \in [Requests -> Record],
             UNCHANGED <<case, audit, roles, issued>>,
             held' \in [Requests -> BOOLEAN], faults' \in Nat, changes' \in Nat
      PROVE  TypeOK'
  BY <1>1 DEF TypeOK, Record
<1>2. ASSUME NEW r \in Requests, NEW claimed \in Roles, Send(r, claimed) PROVE TypeOK'
  <2>1. [Quiet EXCEPT !.pc = "auth", !.claimed = claimed] \in Record
    BY DEF Quiet, Record, Pc, Roles
  <2>2. CanWrite(roles[Owner(r)]) \in BOOLEAN
    BY DEF CanWrite
  <2> QED BY <1>0, <1>1, <1>2, <2>1, <2>2 DEF Send, TypeOK
<1>3. ASSUME NEW r \in Requests, NEW pc \in Pc, Move(r, pc)
      PROVE  request' \in [Requests -> Record]
  BY <1>0, <1>3 DEF Move, Record
<1>4. ASSUME NEW r \in Requests, Authenticate(r) PROVE TypeOK'
  BY <1>1, <1>3, <1>4 DEF Authenticate, TypeOK, Pc, Working
<1>5. ASSUME NEW r \in Requests, NEW i \in Ids,
             request' = [request EXCEPT ![r] = [@ EXCEPT !.pc = "commit", !.found = i]]
      PROVE  request' \in [Requests -> Record]
  BY ZenonT(30), <1>0, <1>5 DEF Record, Pc, Working
<1>6. ASSUME NEW r \in Requests, Select(r) PROVE TypeOK'
  BY <1>1, <1>3, <1>5, <1>6, SelectFinds DEF Select, TypeOK, Pc, Working
<1>7. ASSUME NEW r \in Requests, Insert(r) PROVE TypeOK'
  <2>1. PICK i \in FreshIds :
         request' = [request EXCEPT ![r] =
              [@ EXCEPT !.pc = "commit", !.pending = i, !.found = i, !.created = TRUE]]
    BY <1>7 DEF Insert
  <2>2. i \in Ids
    BY DEF FreshIds
  <2>3. request' \in [Requests -> Record]
    BY ZenonT(30), <1>0, <2>1, <2>2 DEF Record, Pc, Working
  <2> QED BY <1>1, <1>7, <2>3 DEF Insert, TypeOK
<1>8. ASSUME NEW r \in Requests, InsertConflicts(r) PROVE TypeOK'
  BY <1>1, <1>3, <1>8 DEF InsertConflicts, TypeOK, Pc, Working
<1>9. ASSUME NEW r \in Requests, Reselect(r) PROVE TypeOK'
  BY <1>1, <1>3, <1>5, <1>9, SelectFinds DEF Reselect, TypeOK, Pc, Working
<1>10. ASSUME NEW r \in Requests, Commit(r) PROVE TypeOK'
  <2>1. request' \in [Requests -> Record]
    BY ZenonT(30), <1>0, <1>10 DEF Commit, Record, Pc
  <2>2. case' \in [Ids -> Slots \cup {None}]
    BY <1>10 DEF Commit, TypeOK
  <2>3. audit' = [i \in Ids |-> audit[i] + IF i = request[r].pending THEN 1 ELSE 0]
    BY <1>10 DEF Commit
  <2>4. \A i \in Ids : audit'[i] \in 0 .. 1
    BY <1>0 DEF Books, AuditIsComplete
  <2>5. audit' \in [Ids -> 0 .. 1]
    BY <2>3, <2>4
  <2> QED BY <1>10, <2>1, <2>2, <2>5 DEF Commit, TypeOK, Record
<1>11. ASSUME NEW r \in Requests, Reply(r) PROVE TypeOK'
  BY <1>1, <1>3, <1>11 DEF Reply, TypeOK, Pc
<1>12. ASSUME NEW r \in Requests, ReplyLost(r) PROVE TypeOK'
  BY <1>1, <1>3, <1>12 DEF ReplyLost, TypeOK, Pc
<1>13. ASSUME NEW r \in Requests, Fail(r) PROVE TypeOK'
  <2>1. request' = [request EXCEPT ![r] = [@ EXCEPT !.pc = "failed", !.pending = None]]
    BY <1>13 DEF Fail
  <2>2. request' \in [Requests -> Record]
    BY <1>0, <2>1 DEF Record, Pc
  <2> QED BY <1>1, <1>13, <2>2 DEF Fail, TypeOK
<1>14. ASSUME NEW o \in Owners, NEW role \in Roles, ChangeRole(o, role) PROVE TypeOK'
  BY <1>14 DEF ChangeRole, CanWrite, TypeOK
<1>15. CASE UNCHANGED vars
  BY <1>15 DEF vars, TypeOK
<1> QED
  BY <1>2, <1>4, <1>6, <1>7, <1>8, <1>9, <1>10, <1>11, <1>12, <1>13, <1>14, <1>15
  DEF Next, Handle

\* Only a request whose owner can write now passes authentication, and the
\* history of a request under way never loses what it knew.
LEMMA HeldStep == IInv /\ [Next]_vars => HeldNow' /\ RevocationBites'
<1> SUFFICES ASSUME IInv, [Next]_vars PROVE HeldNow' /\ RevocationBites'
  OBVIOUS
<1> USE CasesOK DEF IInv
<1>1. ASSUME NEW r \in Requests, UNCHANGED <<roles, held>>, request[r].pc # "idle",
             \A q \in Requests \ {r} : request'[q] = request[q],
             request'[r].pc \in Working \cup Settled
                => held[r] \/ request[r].pc \in Working \cup Settled
      PROVE  HeldNow' /\ RevocationBites'
  BY <1>1 DEF HeldNow, RevocationBites, Owner, Settled
<1>2. ASSUME NEW r \in Requests, NEW claimed \in Roles, Send(r, claimed)
      PROVE  HeldNow' /\ RevocationBites'
  <2>1. /\ request'[r].pc = "auth"
        /\ held'[r] = CanWrite(roles[Owner(r)])
        /\ \A q \in Requests \ {r} : request'[q] = request[q] /\ held'[q] = held[q]
        /\ UNCHANGED roles
    BY <1>2 DEF Send, TypeOK, Quiet
  <2> QED BY <2>1 DEF HeldNow, RevocationBites, Owner, Working
<1>3. ASSUME NEW r \in Requests, Authenticate(r) PROVE HeldNow' /\ RevocationBites'
  <2>1. /\ \A q \in Requests \ {r} : request'[q] = request[q]
        /\ request[r].pc = "auth"
        /\ UNCHANGED <<roles, held>>
        /\ request'[r].pc = IF Authorized(r) THEN "select" ELSE "rejected"
    BY <1>3 DEF Authenticate, Move, TypeOK
  <2>2. Authorized(r) => held[r]
    BY <2>1 DEF Authorized, HeldNow
  <2> QED BY <1>1, <2>1, <2>2 DEF Working, Settled
<1>4. ASSUME NEW r \in Requests,
             \/ Select(r) \/ Insert(r) \/ InsertConflicts(r) \/ Reselect(r)
             \/ Commit(r) \/ Reply(r) \/ ReplyLost(r)
      PROVE  HeldNow' /\ RevocationBites'
  <2>1. request[r].pc \in Working \cup {"committed"} /\ UNCHANGED <<roles, held>>
    BY <1>4 DEF Select, Insert, InsertConflicts, Reselect, Commit, Reply, ReplyLost,
                Working
  <2>2. \A q \in Requests \ {r} : request'[q] = request[q]
    BY <1>4 DEF Select, Insert, InsertConflicts, Reselect, Commit, Reply, ReplyLost,
                Move, TypeOK
  <2> QED BY <1>1, <2>1, <2>2 DEF Working, Settled
<1>7. ASSUME NEW r \in Requests, Fail(r) PROVE HeldNow' /\ RevocationBites'
  <2>1. /\ request[r].pc # "idle" /\ UNCHANGED <<roles, held>>
        /\ \A q \in Requests \ {r} : request'[q] = request[q]
        /\ request'[r].pc = "failed"
    BY <1>7 DEF Fail, Working, TypeOK
  <2> QED BY <1>1, <2>1 DEF Working, Settled
<1>5. ASSUME NEW o \in Owners, NEW role \in Roles, ChangeRole(o, role)
      PROVE  HeldNow' /\ RevocationBites'
  <2>1. /\ UNCHANGED request
        /\ \A r \in Requests : held'[r] = (held[r] \/ (Owner(r) = o /\ CanWrite(role)))
        /\ roles' = [roles EXCEPT ![o] = role]
    BY <1>5 DEF ChangeRole
  <2>2. \A r \in Requests : Owner(r) \in Owners
    BY DEF Owner
  <2> QED BY <2>1, <2>2 DEF HeldNow, RevocationBites, Owner, TypeOK
<1>6. CASE UNCHANGED vars
  BY <1>6 DEF vars, HeldNow, RevocationBites, Owner
<1> QED BY <1>2, <1>3, <1>4, <1>5, <1>6, <1>7 DEF Next, Handle

LEMMA IInvStep == IInv /\ [Next]_vars => IInv'
  BY TypeStep, BooksStep, HeldStep DEF IInv

LEMMA Inductive == Spec => []IInv
  BY IInvInit, IInvStep, PTL DEF Spec

-----------------------------------------------------------------------------
(* Theorems *)

\* Every variable keeps its type; in particular no case is audited twice.
THEOREM TypeCorrect == Spec => []TypeOK
<1>1. IInv => TypeOK
  BY DEF IInv
<1> QED BY <1>1, Inductive, PTL

\* No owner ever has two cases under one external key.
THEOREM KeysAreUnique == Spec => []OneCasePerKey
<1>1. IInv => OneCasePerKey
  BY DEF IInv, Books
<1> QED BY <1>1, Inductive, PTL

\* An answered client's case is committed, its own and audited, and at most one
\* client is told that it created it.
THEOREM AnswersEndure == Spec => []AnswersAreDurable
<1>1. IInv => AnswersAreDurable
  <2> SUFFICES ASSUME IInv PROVE AnswersAreDurable
    OBVIOUS
  <2>1. \A r \in Requests : request[r].pc = "done" =>
           case[request[r].found] = SlotOf[r] /\ request[r].found \in Ids
    BY DEF IInv, Books, FoundIsCommitted, Settled
  <2>2. \A r \in Requests : SlotOf[r] # None /\ SlotOf[r] \in Slots
    BY CasesOK
  <2>3. \A r \in Requests : request[r].pc = "done" => audit[request[r].found] = 1
    BY <2>1, <2>2 DEF IInv, Books, AuditIsComplete
  <2>4. ASSUME NEW q \in Requests, NEW r \in Requests,
               request[q].pc = "done", request[q].created,
               request[r].pc = "done", request[r].created, SlotOf[q] = SlotOf[r]
        PROVE  q = r
    <3>1. request[q].found = request[r].found
      BY <2>1, <2>2, <2>4 DEF IInv, Books, OneCasePerKey
    <3> QED BY <2>4, <3>1 DEF IInv, Books, OneCreator, Created, Settled
  <2> QED BY <2>1, <2>3, <2>4 DEF AnswersAreDurable
<1> QED BY <1>1, Inductive, PTL

\* A token that outlived its role opens nothing.
THEOREM RevocationHolds == Spec => []RevocationBites
<1>1. IInv => RevocationBites
  BY DEF IInv
<1> QED BY <1>1, Inductive, PTL

-----------------------------------------------------------------------------
(* Refinement of CaseRegistry *)

Registered == [s \in Slots |-> CaseOf(s)]
Answered == [r \in Requests |-> IF request[r].pc = "done" THEN request[r].found ELSE None]

\* A key without a committed row has no case; otherwise its row is its case.
KeysMap ==
    \A s \in Slots : /\ Existing(s) = {} => CaseOf(s) = None
                     /\ \A i \in Ids : case[i] = s => CaseOf(s) = i
                     /\ CaseOf(s) # None => CaseOf(s) \in Ids /\ case[CaseOf(s)] = s

LEMMA CaseOfKey == IInv => KeysMap
<1> SUFFICES ASSUME IInv, NEW s \in Slots
             PROVE  /\ Existing(s) = {} => CaseOf(s) = None
                    /\ \A i \in Ids : case[i] = s => CaseOf(s) = i
                    /\ CaseOf(s) # None => CaseOf(s) \in Ids /\ case[CaseOf(s)] = s
  BY DEF KeysMap
<1>1. \A i, j \in Ids : case[i] = s /\ case[j] = s => i = j
  BY DEF IInv, Books, OneCasePerKey
<1>2. Existing(s) # {} => CaseOf(s) \in Existing(s)
  BY DEF CaseOf
<1>3. Existing(s) = {} => CaseOf(s) = None
  BY DEF CaseOf
<1>4. \A i : i \in Existing(s) <=> i \in Ids /\ case[i] = s
  BY DEF Existing
<1> QED BY <1>1, <1>2, <1>3, <1>4

LEMMA MapsInit == Init => Registry!Init
<1> SUFFICES ASSUME Init PROVE Registry!Init
  OBVIOUS
<1>1. \A s \in Slots : CaseOf(s) = None
  BY IInvInit, CaseOfKey, CasesOK DEF KeysMap, Init, Existing
<1> QED BY <1>1 DEF Init, Quiet, Registry!Init

\* Answers change only when a request is answered.
LEMMA AnsweredStays ==
    ASSUME TypeOK, NEW r \in Requests,
           \A q \in Requests \ {r} : request'[q] = request[q],
           request[r].pc # "done", request'[r].pc # "done"
    PROVE  UNCHANGED Answered
BY DEF Answered

\* A transaction that inserted a row commits it as the case of its key.
LEMMA MapsCommit ==
    ASSUME IInv, IInv', NEW r \in Requests, Commit(r)
    PROVE  [Registry!Next]_(Registry!vars)
<1> USE CasesOK
<1> DEFINE p == request[r].pending
<1>1. UNCHANGED Answered
  <2>1. /\ \A q \in Requests \ {r} : request'[q] = request[q]
        /\ request[r].pc = "commit" /\ request'[r].pc = "committed"
    BY DEF Commit, IInv, TypeOK
  <2> QED BY <2>1, AnsweredStays DEF IInv
<1>2. CASE p = None
  <2>1. UNCHANGED case
    BY <1>2 DEF Commit, IInv, TypeOK
  <2>2. UNCHANGED audit
    BY <1>2 DEF Commit, IInv, TypeOK
  <2>3. UNCHANGED Registered
    BY <2>1 DEF Registered, CaseOf, Existing
  <2> QED BY <1>1, <2>2, <2>3 DEF Registry!vars, Registered, Answered
<1>3. CASE p # None
  <2>1. p \in Ids /\ case[p] = None /\ SlotOf[r] \in Slots /\ SlotOf[r] # None
    BY <1>3 DEF IInv, TypeOK, Books, PendingIsNew
  <2>2. \A i \in Ids : case'[i] = IF i = p THEN SlotOf[r] ELSE case[i]
    BY DEF Commit
  <2>3. \A i \in Ids : case[i] # SlotOf[r]
    BY <2>1 DEF IInv, Books, OneCasePerKey
  <2>4. CaseOf(SlotOf[r]) = None
    BY <2>1, <2>3, CaseOfKey DEF KeysMap, Existing
  <2>5. \A s \in Slots : CaseOf(s) # p
    BY <1>3, <2>1, CaseOfKey DEF KeysMap
  <2>6. IInv' => KeysMap'
    BY CaseOfKey, PTL
  <2>7. CaseOf(SlotOf[r])' = p
    BY <2>1, <2>2, <2>6 DEF KeysMap
  <2>8. \A s \in Slots \ {SlotOf[r]} : CaseOf(s)' = CaseOf(s)
    <3> SUFFICES ASSUME NEW s \in Slots \ {SlotOf[r]} PROVE CaseOf(s)' = CaseOf(s)
      OBVIOUS
    <3>1. Existing(s)' = Existing(s)
      BY <2>1, <2>2 DEF Existing
    <3>2. CASE Existing(s) = {}
      BY <3>1, <3>2, <2>6, CaseOfKey DEF KeysMap
    <3>3. CASE Existing(s) # {}
      <4>1. PICK i \in Ids : case[i] = s
        BY <3>3 DEF Existing
      <4>2. case'[i] = s
        BY <4>1, <2>1, <2>2
      <4> QED BY <4>1, <4>2, <2>6, CaseOfKey DEF KeysMap
    <3> QED BY <3>2, <3>3
  <2>9. Registered' = [Registered EXCEPT ![SlotOf[r]] = p]
    BY <2>7, <2>8 DEF Registered
  <2>10. audit' = [audit EXCEPT ![p] = @ + 1]
    <3>1. audit' = [i \in Ids |-> audit[i] + IF i = p THEN 1 ELSE 0]
      BY DEF Commit
    <3>2. audit \in [Ids -> 0 .. 1]
      BY DEF IInv, TypeOK
    <3>3. \A i \in Ids : audit'[i] = IF i = p THEN audit[p] + 1 ELSE audit[i]
      BY <3>1, <3>2
    <3> HIDE DEF p
    <3> QED BY <3>1, <3>2, <3>3, <2>1
  <2>11. Registry!Create(SlotOf[r], p)
    BY <1>1, <2>1, <2>4, <2>5, <2>9, <2>10 DEF Registry!Create, Registered, Answered
  <2> QED BY <2>1, <2>11 DEF Registry!Next
<1> QED BY <1>2, <1>3

\* An answer tells the case of the key.
LEMMA MapsReply ==
    ASSUME IInv, NEW r \in Requests, Reply(r)
    PROVE  Registry!Next
<1>1. /\ request[r].pc = "committed"
      /\ request' = [request EXCEPT ![r].pc = "done"]
      /\ UNCHANGED <<case, audit>>
  BY DEF Reply, Move
<1>2. case[request[r].found] = SlotOf[r] /\ request[r].found \in Ids
  BY <1>1 DEF IInv, Books, FoundIsCommitted, Settled
<1>3. CaseOf(SlotOf[r]) = request[r].found /\ request[r].found # None /\ SlotOf[r] \in Slots
  BY <1>2, CaseOfKey, CasesOK DEF KeysMap
<1>4. UNCHANGED Registered
  BY <1>1 DEF Registered, CaseOf, Existing
<1>5. Answered' = [Answered EXCEPT ![r] = CaseOf(SlotOf[r])]
  BY <1>1, <1>3 DEF Answered, IInv, TypeOK
<1>6. Registry!Tell(r)
  BY <1>1, <1>3, <1>4, <1>5 DEF Registry!Tell, Registered, Answered
<1> QED BY <1>6 DEF Registry!Next

LEMMA MapsStep == IInv /\ IInv' /\ [Next]_vars => [Registry!Next]_(Registry!vars)
<1> SUFFICES ASSUME IInv, IInv', [Next]_vars PROVE [Registry!Next]_(Registry!vars)
  OBVIOUS
<1>1. ASSUME UNCHANGED <<case, audit>>, UNCHANGED Answered
      PROVE  UNCHANGED Registry!vars
  BY <1>1 DEF Registry!vars, CaseOf, Existing, Answered
<1>2. ASSUME NEW r \in Requests,
             \/ Authenticate(r) \/ Select(r) \/ Insert(r) \/ InsertConflicts(r)
             \/ Reselect(r) \/ Fail(r) \/ ReplyLost(r)
             \/ \E claimed \in Roles : Send(r, claimed)
      PROVE  UNCHANGED Registry!vars
  <2>1. UNCHANGED <<case, audit>> /\ request[r].pc # "done"
    BY <1>2 DEF Authenticate, Select, Insert, InsertConflicts, Reselect, Fail, ReplyLost,
                Send, Working
  <2>2. \A q \in Requests \ {r} : request'[q] = request[q]
    BY <1>2 DEF Authenticate, Select, Insert, InsertConflicts, Reselect, Fail, ReplyLost,
                Send, Move, IInv, TypeOK
  <2>3. request \in [Requests -> Record]
    BY DEF IInv, TypeOK, Record
  <2>4. request'[r].pc # "done"
    <3>1. CASE Authenticate(r) \/ InsertConflicts(r) \/ ReplyLost(r)
      BY <2>3, <3>1 DEF Authenticate, InsertConflicts, ReplyLost, Move, Record
    <3>2. CASE Select(r) \/ Reselect(r)
      BY <2>3, <3>2 DEF Select, Reselect, Move, Record
    <3>3. CASE Insert(r)
      BY <2>3, <3>3 DEF Insert, Record
    <3>4. CASE Fail(r)
      BY <2>3, <3>4 DEF Fail, Record
    <3>5. CASE \E claimed \in Roles : Send(r, claimed)
      BY <2>3, <3>5 DEF Send, Record, Quiet
    <3> QED BY <1>2, <3>1, <3>2, <3>3, <3>4, <3>5
  <2> QED BY <1>1, <2>1, <2>2, <2>4, AnsweredStays DEF IInv
<1>3. ASSUME NEW o \in Owners, NEW role \in Roles, ChangeRole(o, role)
      PROVE  UNCHANGED Registry!vars
  BY <1>1, <1>3 DEF ChangeRole, Answered
<1>4. CASE UNCHANGED vars
  BY <1>1, <1>4 DEF vars, Answered
<1> QED BY <1>2, <1>3, <1>4, MapsCommit, MapsReply DEF Next, Handle

\* However requests for one key interleave, fail and are repeated, a key is
\* given one case, once, with one audit event, and every answer names it.
THEOREM CasesImplementRegistry == Spec => ImplementsRegistry
<1> QED BY MapsInit, MapsStep, Inductive, PTL DEF Spec, ImplementsRegistry, Registry!Spec
=============================================================================
