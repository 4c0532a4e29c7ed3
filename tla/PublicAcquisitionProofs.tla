---------------------- MODULE PublicAcquisitionProofs ----------------------
(***************************************************************************)
(* Theorems about PublicAcquisition, for any registry, any number of       *)
(* invocations and attempts, and crashes anywhere.                         *)
(***************************************************************************)
EXTENDS PublicAcquisition, TLAPS

Verified == {"stage", "list", "extract", "commit", "check", "replace"}
Full == {"commit", "check", "replace"}
Closing == {"clean", "discard"}

\* What is staged comes from the verified archive, and is whole once the receipt
\* is written.
Staged(a) ==
    /\ acquirer[a].pc \in {"transfer", "verify"} \cup Verified
          => acquirer[a].source \in EligibleSources
    /\ acquirer[a].pc \in Verified => acquirer[a].archive = "registered"
    /\ acquirer[a].pc \in {"list", "extract"} =>
          /\ staging[a].kind = "folder"
          /\ staging[a].files \subseteq Complete(acquirer[a].source).files
    /\ acquirer[a].pc \in {"extract"} \cup Full => Permitted(acquirer[a].source) # {}
    /\ acquirer[a].pc \in Full => staging[a] = Complete(acquirer[a].source)

\* What an invocation is going to report, or has reported.
Reported(a) ==
    /\ acquirer[a].pc \in Running => download[a]
    /\ acquirer[a].pc \in Closing => acquirer[a].outcome \in {"returned", "refused"}
    /\ acquirer[a].pc = "returned" => acquirer[a].outcome = "returned"
    /\ acquirer[a].outcome = "returned" => a \in committed
    /\ a \in committed =>
          /\ acquirer[a].pc \in Closing \cup Ended
          /\ acquirer[a].outcome = "returned"
          /\ staging[a] = Missing
          /\ acquirer[a].pc = "refused" => download[a]

\* The destination is untouched by acquisitions, or published by one for good.
Untouched == destination \in {Missing, Empty, Place("link"), Place("foreign")}
PublishedBy(a) ==
    /\ committed = {a}
    /\ acquirer[a].source \in EligibleSources
    /\ Permitted(acquirer[a].source) # {}
    /\ destination = Complete(acquirer[a].source)
Published == \/ committed = {} /\ Untouched
             \/ \E a \in committed : PublishedBy(a)

IInv == /\ TypeOK
        /\ \A a \in Acquirers : Staged(a) /\ Reported(a)
        /\ Published

-----------------------------------------------------------------------------
LEMMA PermittedPathsAreNames ==
    ASSUME NEW s \in Sources
    PROVE  /\ Permitted(s) \subseteq Paths
           /\ Complete(s) \in Places
<1>1. Permitted(s) \subseteq Paths
  BY AcquisitionOK DEF Permitted
<1>2. [source : {s}, path : Permitted(s), genuine : {TRUE}] \subseteq Files
  BY <1>1 DEF Files
<1>3. ReceiptFor(s, Permitted(s)) \in Receipts
  BY <1>1 DEF ReceiptFor, Receipts
<1>4. Complete(s) \in Places
  BY <1>2, <1>3 DEF Complete, Places
<1> QED BY <1>1, <1>4

LEMMA PlacesAreDistinct ==
    ASSUME NEW s \in Sources
    PROVE  Complete(s) \notin {Missing, Empty, Place("link"), Place("foreign")}
<1>1. NoReceipt # ReceiptFor(s, Permitted(s))
  BY AcquisitionOK DEF NoReceipt, ReceiptFor
<1> QED BY <1>1 DEF Complete, Missing, Empty, Place

LEMMA SimplePlaces ==
    /\ \A kind \in {"missing", "folder", "link", "foreign"} : Place(kind) \in Places
    /\ Missing \in Places
    /\ Empty \in Places
  BY DEF Place, Places, NoReceipt, Receipts, Missing, Empty

LEMMA IInvInit == Init => IInv
<1> SUFFICES ASSUME Init PROVE IInv
  OBVIOUS
<1>1. TypeOK
  BY AcquisitionOK, SimplePlaces DEF Init, TypeOK, NotStarted, Invocations
<1>2. Published
  BY DEF Init, Published, Untouched
<1>3. \A a \in Acquirers : Staged(a) /\ Reported(a)
  BY DEF Init, Staged, Reported, NotStarted, Verified, Full, Closing, Running, Ended
<1> QED BY <1>1, <1>2, <1>3 DEF IInv

-----------------------------------------------------------------------------
LEMMA MoveTypes ==
    ASSUME TypeOK, NEW a \in Acquirers, NEW pc \in {"idle"} \cup Running \cup Ended,
           Move(a, pc) \/ Raise(a, pc)
    PROVE  acquirer' \in [Acquirers -> Invocations]
<1>1. /\ [acquirer[a] EXCEPT !.pc = pc] \in Invocations
      /\ [acquirer[a] EXCEPT !.pc = pc, !.outcome = "refused"] \in Invocations
  BY DEF TypeOK, Invocations
<1> QED BY <1>1 DEF TypeOK, Move, Raise

LEMMA TypePreserved ==
    ASSUME IInv, [Next]_vars
    PROVE  TypeOK'
<1>0. /\ posix \in BOOLEAN /\ destination \in Places
      /\ acquirer \in [Acquirers -> Invocations] /\ staging \in [Acquirers -> Places]
      /\ download \in [Acquirers -> BOOLEAN] /\ committed \in SUBSET Acquirers
      /\ TypeOK
  BY DEF TypeOK, IInv
<1>1. ASSUME NEW a \in Acquirers, NEW s \in Sources, Start(a, s) PROVE TypeOK'
  <2>1. [acquirer[a] EXCEPT !.source = s,
                            !.pc = IF s \in EligibleSources /\ destination.kind = "missing"
                                   THEN "transfer" ELSE "refused"] \in Invocations
    BY ZenonT(30), <1>0 DEF Invocations, Running, Ended
  <2>2. acquirer' \in [Acquirers -> Invocations] /\ download' \in [Acquirers -> BOOLEAN]
    BY <1>0, <1>1, <2>1 DEF Start
  <2> QED BY <1>0, <1>1, <2>2 DEF Start, TypeOK
<1>2. ASSUME NEW a \in Acquirers, NEW archive \in {"registered", "other", "none"},
             Transfer(a, archive)
      PROVE  TypeOK'
  <2>1. [acquirer[a] EXCEPT !.pc = "verify", !.archive = archive] \in Invocations
    BY ZenonT(30), <1>0 DEF Invocations, Running
  <2> QED BY <1>0, <1>2, <2>1 DEF Transfer, TypeOK, disk
<1>3. ASSUME NEW a \in Acquirers,
             \/ Verify(a) \/ StageFails(a) \/ ListMembers(a) \/ StagingFails(a)
             \/ BeginCommit(a) \/ CheckDestination(a) \/ CommitFails(a)
             \/ DiscardFails(a) \/ Crash(a)
      PROVE  TypeOK'
  <2>1. PICK pc \in Running \cup Ended : Move(a, pc) \/ Raise(a, pc)
    BY <1>3 DEF Verify, StageFails, ListMembers, StagingFails, BeginCommit,
                CheckDestination, CommitFails, DiscardFails, Crash, Running, Ended
  <2>2. UNCHANGED <<posix, disk>>
    BY <1>3 DEF Verify, StageFails, ListMembers, StagingFails, BeginCommit,
                CheckDestination, CommitFails, DiscardFails, Crash
  <2> QED BY <1>0, <2>1, <2>2, MoveTypes DEF TypeOK, disk
<1>4. ASSUME NEW a \in Acquirers, Stage(a) PROVE TypeOK'
  <2>1. acquirer' \in [Acquirers -> Invocations]
    BY <1>0, <1>4, MoveTypes DEF Stage, Running
  <2> QED BY <1>0, <1>4, <2>1, SimplePlaces DEF Stage, TypeOK
<1>5. ASSUME NEW a \in Acquirers, NEW p \in Paths, ExtractMember(a, p) PROVE TypeOK'
  <2>1. acquirer[a].pc = "extract"
    BY <1>5 DEF ExtractMember
  <2>2. acquirer[a].source \in Sources
    BY <2>1, AcquisitionOK DEF IInv, Staged, Verified
  <2> DEFINE file == [source |-> acquirer[a].source, path |-> p,
                      genuine |-> acquirer[a].archive = "registered"]
  <2>3. file \in Files
    <3>1. (acquirer[a].archive = "registered") \in BOOLEAN
      OBVIOUS
    <3> QED BY <2>2, <3>1 DEF Files
  <2>4. [staging[a] EXCEPT !.files = staging[a].files \cup {file}] \in Places
    <3> HIDE DEF file
    <3> QED BY <1>0, <2>3 DEF Places
  <2>5. staging' = [staging EXCEPT ![a] = [staging[a] EXCEPT !.files = staging[a].files \cup {file}]]
    BY <1>0, <1>5 DEF ExtractMember
  <2>6. staging' \in [Acquirers -> Places]
    <3> HIDE DEF file
    <3> QED BY <1>0, <2>4, <2>5
  <2> QED BY <1>0, <1>5, <2>6 DEF ExtractMember, TypeOK
<1>6. ASSUME NEW a \in Acquirers, WriteReceipt(a) PROVE TypeOK'
  <2>1. acquirer[a].source \in Sources \cup {None} /\ staging[a].files \subseteq Files
    BY <1>0 DEF Invocations, Places
  <2>2. Extracted(a) \subseteq Paths
    BY <2>1 DEF Extracted, Files
  <2>3. ReceiptFor(acquirer[a].source, Extracted(a)) \in Receipts
    BY <2>1, <2>2 DEF ReceiptFor, Receipts
  <2>4. [staging[a] EXCEPT !.receipt = ReceiptFor(acquirer[a].source, Extracted(a))] \in Places
    BY <1>0, <2>3 DEF Places
  <2>5. acquirer' \in [Acquirers -> Invocations]
    BY <1>0, <1>6, MoveTypes DEF WriteReceipt, Running
  <2> QED BY <1>0, <1>6, <2>4, <2>5 DEF WriteReceipt, TypeOK
<1>7. ASSUME NEW a \in Acquirers, Replace(a) PROVE TypeOK'
  <2>1. [acquirer[a] EXCEPT !.pc = "clean", !.outcome = "returned"] \in Invocations
    BY ZenonT(30), <1>0 DEF Invocations, Running
  <2> QED BY <1>0, <1>7, <2>1, SimplePlaces DEF Replace, TypeOK
<1>8. ASSUME NEW a \in Acquirers, ReplaceDenied(a) PROVE TypeOK'
  <2>4. acquirer[a].attempt \in 0 .. _ATOMIC_COMMIT_ATTEMPTS - 1
    BY <1>0 DEF Invocations
  <2> DEFINE next == acquirer[a].attempt + 1
  <2>3. next < _ATOMIC_COMMIT_ATTEMPTS => next \in 0 .. _ATOMIC_COMMIT_ATTEMPTS - 1
    BY <2>4, AcquisitionOK
  <2>1. next < _ATOMIC_COMMIT_ATTEMPTS
           => [acquirer[a] EXCEPT !.pc = "check", !.attempt = next] \in Invocations
    <3> HIDE DEF next
    <3> QED BY ZenonT(30), <1>0, <2>3 DEF Invocations, Running
  <2>2. acquirer' \in [Acquirers -> Invocations]
    <3>1. CASE next < _ATOMIC_COMMIT_ATTEMPTS
      <4>1. acquirer' = [acquirer EXCEPT ![a] = [acquirer[a] EXCEPT !.pc = "check", !.attempt = next]]
        BY <1>0, <1>8, <3>1 DEF ReplaceDenied
      <4> QED BY <1>0, <2>1, <3>1, <4>1
    <3>2. CASE ~(next < _ATOMIC_COMMIT_ATTEMPTS)
      BY <1>0, <1>8, <3>2, MoveTypes DEF ReplaceDenied, Running
    <3> QED BY <3>1, <3>2
  <2> QED BY <1>0, <1>8, <2>2 DEF ReplaceDenied, TypeOK, disk
<1>9. ASSUME NEW a \in Acquirers, Clean(a) PROVE TypeOK'
  <2>1. acquirer' \in [Acquirers -> Invocations]
    BY <1>0, <1>9, MoveTypes DEF Clean, Running
  <2> QED BY <1>0, <1>9, <2>1, SimplePlaces DEF Clean, TypeOK
<1>10. ASSUME NEW a \in Acquirers, Discard(a) PROVE TypeOK'
  <2>1. acquirer' \in [Acquirers -> Invocations]
    BY <1>0, <1>10, MoveTypes DEF Discard, Ended, IInv, Reported, Closing
  <2> QED BY <1>0, <1>10, <2>1 DEF Discard, TypeOK
<1>11. ASSUME NEW kind \in {"folder", "link", "foreign"}, Occupy(Place(kind)) PROVE TypeOK'
  BY <1>0, <1>11, SimplePlaces DEF Occupy, TypeOK
<1>12. CASE UNCHANGED vars
  BY <1>0, <1>12 DEF vars, disk, TypeOK
<1> QED BY <1>1, <1>2, <1>3, <1>4, <1>5, <1>6, <1>7, <1>8, <1>9, <1>10, <1>11, <1>12
        DEF Next, Acquire

-----------------------------------------------------------------------------
\* A step of one invocation that publishes nothing.
LEMMA InvocationStep ==
    ASSUME IInv, TypeOK', NEW a \in Acquirers,
           \A b \in Acquirers \ {a} : /\ acquirer'[b] = acquirer[b]
                                      /\ staging'[b] = staging[b]
                                      /\ download'[b] = download[b],
           UNCHANGED <<destination, committed>>,
           a \in committed => acquirer'[a].source = acquirer[a].source,
           Staged(a)', Reported(a)'
    PROVE  IInv'
<1>1. ASSUME NEW b \in Acquirers PROVE Staged(b)' /\ Reported(b)'
  <2>1. CASE b = a
    BY <2>1
  <2>2. CASE b # a
    BY <2>2 DEF IInv, Staged, Reported
  <2> QED BY <2>1, <2>2
<1>2. \A b \in committed : b \in Acquirers /\ acquirer'[b].source = acquirer[b].source
  BY DEF IInv, TypeOK
<1>3. Published'
  BY <1>2 DEF IInv, Published, PublishedBy, Untouched
<1> QED BY <1>1, <1>3 DEF IInv

LEMMA MoveOrRaise ==
    ASSUME TypeOK, NEW a \in Acquirers, NEW pc, Move(a, pc) \/ Raise(a, pc)
    PROVE  /\ \A b \in Acquirers \ {a} : acquirer'[b] = acquirer[b]
           /\ acquirer'[a].pc = pc
           /\ acquirer'[a].source = acquirer[a].source
           /\ acquirer'[a].archive = acquirer[a].archive
           /\ acquirer'[a].outcome \in {acquirer[a].outcome, "refused"}
           /\ Move(a, pc) => acquirer'[a].outcome = acquirer[a].outcome
           /\ Raise(a, pc) => acquirer'[a].outcome = "refused"
<1>1. acquirer[a] \in Invocations /\ acquirer \in [Acquirers -> Invocations]
  BY DEF TypeOK
<1>2. CASE Move(a, pc)
  <2>1. /\ \A b \in Acquirers \ {a} : acquirer'[b] = acquirer[b]
        /\ acquirer'[a] = [acquirer[a] EXCEPT !.pc = pc]
    BY <1>1, <1>2 DEF Move
  <2>2. ~Raise(a, pc) \/ acquirer'[a] = [acquirer[a] EXCEPT !.pc = pc, !.outcome = "refused"]
    BY <1>1 DEF Raise
  <2> QED BY <1>1, <2>1, <2>2 DEF Invocations
<1>3. CASE Raise(a, pc)
  <2>1. /\ \A b \in Acquirers \ {a} : acquirer'[b] = acquirer[b]
        /\ acquirer'[a] = [acquirer[a] EXCEPT !.pc = pc, !.outcome = "refused"]
    BY <1>1, <1>3 DEF Raise
  <2>2. ~Move(a, pc) \/ acquirer'[a] = [acquirer[a] EXCEPT !.pc = pc]
    BY <1>1 DEF Move
  <2> QED BY <1>1, <2>1, <2>2 DEF Invocations
<1> QED BY <1>2, <1>3

\* What has not been renamed is not committed.
LEMMA NotYetCommitted ==
    ASSUME IInv, NEW a \in Acquirers, acquirer[a].pc \notin Closing \cup Ended
    PROVE  a \notin committed /\ acquirer[a].outcome # "returned"
  BY DEF IInv, Reported

LEMMA IInvPreserved ==
    ASSUME IInv, [Next]_vars
    PROVE  IInv'
<1>0. /\ TypeOK /\ TypeOK'
      /\ \A a \in Acquirers : Staged(a) /\ Reported(a)
  BY TypePreserved DEF IInv
<1> USE DEF Verified, Full, Closing, Running, Ended
<1>1. ASSUME NEW a \in Acquirers, NEW s \in Sources, Start(a, s) PROVE IInv'
  <2>1. a \notin committed /\ acquirer[a].outcome # "returned"
    BY <1>1, NotYetCommitted DEF Start
  <2> DEFINE admitted == s \in EligibleSources /\ destination.kind = "missing"
             pc == IF admitted THEN "transfer" ELSE "refused"
  <2>4. /\ acquirer' = [acquirer EXCEPT ![a] = [acquirer[a] EXCEPT !.source = s, !.pc = pc]]
        /\ download' = [download EXCEPT ![a] = admitted]
        /\ UNCHANGED <<destination, staging, committed>>
    BY <1>1 DEF Start
  <2>5. /\ admitted => s \in EligibleSources
        /\ pc \in {"transfer", "refused"}
        /\ pc = "transfer" => admitted
    OBVIOUS
  <2> HIDE DEF admitted, pc
  <2>6. /\ acquirer'[a] = [acquirer[a] EXCEPT !.source = s, !.pc = pc]
        /\ download'[a] = admitted
        /\ \A b \in Acquirers \ {a} : acquirer'[b] = acquirer[b] /\ download'[b] = download[b]
    BY <1>0, <2>4 DEF TypeOK
  <2>7. acquirer[a] \in Invocations
    BY <1>0 DEF TypeOK
  <2>8. acquirer'[a].pc = pc /\ acquirer'[a].source = s
        /\ acquirer'[a].outcome = acquirer[a].outcome
    BY <2>6, <2>7 DEF Invocations
  <2>2. /\ \A b \in Acquirers \ {a} : acquirer'[b] = acquirer[b] /\ download'[b] = download[b]
        /\ acquirer'[a].pc \in {"transfer", "refused"}
        /\ acquirer'[a].outcome = acquirer[a].outcome
        /\ acquirer'[a].pc = "transfer" => /\ acquirer'[a].source \in EligibleSources
                                           /\ download'[a]
        /\ UNCHANGED <<destination, staging, committed>>
    BY <2>4, <2>5, <2>6, <2>8
  <2>3. Staged(a)' /\ Reported(a)'
    BY <2>1, <2>2 DEF Staged, Reported
  <2> QED BY <1>0, <2>1, <2>2, <2>3, InvocationStep
<1>2. ASSUME NEW a \in Acquirers, NEW archive \in {"registered", "other", "none"},
             Transfer(a, archive)
      PROVE  IInv'
  <2>1. a \notin committed /\ acquirer[a].outcome # "returned"
    BY <1>2, NotYetCommitted DEF Transfer
  <2>2. /\ \A b \in Acquirers \ {a} : acquirer'[b] = acquirer[b]
        /\ acquirer'[a].pc = "verify" /\ acquirer[a].pc = "transfer"
        /\ acquirer'[a].outcome = acquirer[a].outcome
        /\ acquirer'[a].source = acquirer[a].source
        /\ UNCHANGED disk
    BY <1>0, <1>2 DEF Transfer, TypeOK, Invocations
  <2>3. Staged(a)' /\ Reported(a)'
    BY <1>0, <2>1, <2>2 DEF Staged, Reported, disk
  <2> QED BY <1>0, <2>1, <2>2, <2>3, InvocationStep DEF disk
<1>3. ASSUME NEW a \in Acquirers,
             \/ Verify(a) \/ StageFails(a) \/ ListMembers(a) \/ StagingFails(a)
             \/ BeginCommit(a) \/ CheckDestination(a) \/ CommitFails(a)
      PROVE  IInv'
  <2>1. a \notin committed /\ acquirer[a].outcome # "returned"
    BY <1>3, NotYetCommitted DEF Verify, StageFails, ListMembers, StagingFails,
                                 BeginCommit, CheckDestination, CommitFails
  <2>2. UNCHANGED disk /\ acquirer[a].pc \in Running
    BY <1>3 DEF Verify, StageFails, ListMembers, StagingFails,
                BeginCommit, CheckDestination, CommitFails
  <2>3. \/ \E pc \in Closing : Raise(a, pc)
        \/ /\ Move(a, "stage") /\ acquirer[a].pc = "verify"
           /\ acquirer[a].archive = "registered"
        \/ /\ Move(a, "extract") /\ acquirer[a].pc = "list"
           /\ Permitted(acquirer[a].source) # {}
        \/ Move(a, "check") /\ acquirer[a].pc = "commit"
        \/ Move(a, "replace") /\ acquirer[a].pc = "check"
    BY <1>3 DEF Verify, StageFails, ListMembers, StagingFails,
                BeginCommit, CheckDestination, CommitFails
  <2>4. PICK pc \in Running : Move(a, pc) \/ Raise(a, pc)
    BY <2>3
  <2>5. Staged(a)'
    BY <1>0, <2>2, <2>3, MoveOrRaise DEF Staged, disk
  <2>6. Reported(a)'
    BY <1>0, <2>1, <2>2, <2>3, MoveOrRaise DEF Reported, disk
  <2> QED BY <1>0, <2>2, <2>4, <2>5, <2>6, MoveOrRaise, InvocationStep DEF disk
<1>4. ASSUME NEW a \in Acquirers, Stage(a) PROVE IInv'
  <2>1. a \notin committed /\ acquirer[a].outcome # "returned"
    BY <1>4, NotYetCommitted DEF Stage
  <2>2. /\ \A b \in Acquirers \ {a} : acquirer'[b] = acquirer[b] /\ staging'[b] = staging[b]
        /\ acquirer[a].pc = "stage" /\ acquirer'[a].pc = "list"
        /\ acquirer'[a].outcome = acquirer[a].outcome
        /\ acquirer'[a].source = acquirer[a].source
        /\ acquirer'[a].archive = acquirer[a].archive
        /\ staging'[a] = Empty
        /\ UNCHANGED <<destination, download, committed>>
    BY <1>0, <1>4, MoveOrRaise DEF Stage, TypeOK
  <2>3. Staged(a)' /\ Reported(a)'
    BY <1>0, <2>1, <2>2 DEF Staged, Reported, Empty, Place
  <2> QED BY <1>0, <2>1, <2>2, <2>3, InvocationStep
<1>5. ASSUME NEW a \in Acquirers, NEW p \in Paths, ExtractMember(a, p) PROVE IInv'
  <2>1. a \notin committed /\ acquirer[a].outcome # "returned"
    BY <1>5, NotYetCommitted DEF ExtractMember
  <2> DEFINE file == [source |-> acquirer[a].source, path |-> p, genuine |-> TRUE]
  <2>2. acquirer[a].pc = "extract" /\ acquirer[a].archive = "registered"
    BY <1>0, <1>5 DEF ExtractMember, Staged
  <2>3. file \in Complete(acquirer[a].source).files
    BY <1>5 DEF ExtractMember, Complete
  <2>4. staging' = [staging EXCEPT ![a] = [staging[a] EXCEPT !.files = staging[a].files \cup {file}]]
    BY <1>5, <2>2 DEF ExtractMember
  <2>5. /\ \A b \in Acquirers \ {a} : staging'[b] = staging[b]
        /\ staging'[a].kind = staging[a].kind
        /\ staging'[a].files = staging[a].files \cup {file}
        /\ UNCHANGED <<acquirer, destination, download, committed>>
    <3> HIDE DEF file
    <3> QED BY <1>0, <1>5, <2>4 DEF ExtractMember, TypeOK, Places
  <2>6. Staged(a)'
    <3> HIDE DEF file
    <3> QED BY <1>0, <2>2, <2>3, <2>5 DEF Staged
  <2>7. Reported(a)'
    BY <1>0, <2>1, <2>2, <2>5 DEF Reported
  <2> QED BY <1>0, <2>1, <2>5, <2>6, <2>7, InvocationStep
<1>6. ASSUME NEW a \in Acquirers, WriteReceipt(a) PROVE IInv'
  <2> DEFINE s == acquirer[a].source
  <2>1. a \notin committed /\ acquirer[a].outcome # "returned"
    BY <1>6, NotYetCommitted DEF WriteReceipt
  <2>2. acquirer[a].pc = "extract" /\ Extracted(a) = Permitted(s)
    BY <1>6 DEF WriteReceipt
  <2>3. staging[a].files \subseteq [source : {s}, path : Permitted(s), genuine : {TRUE}]
        /\ staging[a].kind = "folder" /\ staging[a] \in Places
    BY <1>0, <2>2 DEF Staged, Complete, TypeOK
  <2>4. staging[a].files = [source : {s}, path : Permitted(s), genuine : {TRUE}]
    <3> SUFFICES ASSUME NEW f \in [source : {s}, path : Permitted(s), genuine : {TRUE}]
                 PROVE  f \in staging[a].files
      BY <2>3
    <3>1. PICK g \in staging[a].files : g.path = f.path
      BY <2>2 DEF Extracted
    <3>2. /\ g \in [source : {s}, path : Permitted(s), genuine : {TRUE}]
          /\ f = [source |-> s, path |-> f.path, genuine |-> TRUE]
      BY <2>3
    <3>3. g = [source |-> s, path |-> g.path, genuine |-> TRUE]
      BY <3>2
    <3>4. g = f
      BY <3>1, <3>2, <3>3
    <3> QED BY <3>4
  <2>5. staging'[a] = Complete(s)
    BY <1>0, <1>6, <2>2, <2>3, <2>4 DEF WriteReceipt, TypeOK, Places, Complete
  <2>6. /\ \A b \in Acquirers \ {a} : acquirer'[b] = acquirer[b] /\ staging'[b] = staging[b]
        /\ acquirer'[a].pc = "commit"
        /\ acquirer'[a].outcome = acquirer[a].outcome
        /\ acquirer'[a].source = s
        /\ acquirer'[a].archive = acquirer[a].archive
        /\ UNCHANGED <<destination, download, committed>>
    BY <1>0, <1>6, MoveOrRaise DEF WriteReceipt, TypeOK
  <2>7. Staged(a)' /\ Reported(a)'
    BY <1>0, <2>1, <2>2, <2>5, <2>6 DEF Staged, Reported
  <2> QED BY <1>0, <2>1, <2>6, <2>7, InvocationStep
<1>7. ASSUME NEW a \in Acquirers, Replace(a) PROVE IInv'
  <2>1. a \notin committed /\ acquirer[a].pc = "replace"
    BY <1>7, NotYetCommitted DEF Replace
  <2>2. /\ acquirer[a].source \in EligibleSources
        /\ Permitted(acquirer[a].source) # {}
        /\ staging[a] = Complete(acquirer[a].source)
        /\ download[a]
    BY <1>0, <2>1 DEF Staged, Reported
  <2>3. committed = {}
    <3>1. destination \in {Missing, Empty}
      BY <1>7 DEF Replace, Replaceable
    <3>2. \A b \in committed : PublishedBy(b) => FALSE
      BY <3>1, AcquisitionOK, PlacesAreDistinct DEF PublishedBy
    <3> QED BY <3>2 DEF IInv, Published
  <2>4. /\ \A b \in Acquirers \ {a} : acquirer'[b] = acquirer[b] /\ staging'[b] = staging[b]
        /\ acquirer'[a].pc = "clean" /\ acquirer'[a].outcome = "returned"
        /\ acquirer'[a].source = acquirer[a].source
        /\ staging'[a] = Missing /\ destination' = staging[a]
        /\ committed' = {a} /\ UNCHANGED download
    BY <1>0, <1>7, <2>3 DEF Replace, TypeOK, Invocations
  <2>5. ASSUME NEW b \in Acquirers PROVE Staged(b)' /\ Reported(b)'
    <3>1. CASE b = a
      BY <2>2, <2>4, <3>1 DEF Staged, Reported
    <3>2. CASE b # a
      BY <1>0, <2>3, <2>4, <3>2 DEF Staged, Reported
    <3> QED BY <3>1, <3>2
  <2>6. Published'
    BY <2>2, <2>4 DEF Published, PublishedBy
  <2> QED BY <1>0, <2>5, <2>6 DEF IInv
<1>8. ASSUME NEW a \in Acquirers, ReplaceDenied(a) PROVE IInv'
  <2>1. a \notin committed /\ acquirer[a].outcome # "returned"
    BY <1>8, NotYetCommitted DEF ReplaceDenied
  <2>2. /\ \A b \in Acquirers \ {a} : acquirer'[b] = acquirer[b]
        /\ acquirer[a].pc = "replace"
        /\ acquirer'[a].source = acquirer[a].source
        /\ acquirer'[a].archive = acquirer[a].archive
        /\ \/ acquirer'[a].pc = "check" /\ acquirer'[a].outcome = acquirer[a].outcome
           \/ acquirer'[a].pc = "clean" /\ acquirer'[a].outcome = "refused"
        /\ UNCHANGED disk
    <3>1. acquirer[a].pc = "replace" /\ UNCHANGED disk
      BY <1>8 DEF ReplaceDenied
    <3>2. CASE acquirer[a].attempt + 1 < _ATOMIC_COMMIT_ATTEMPTS
      <4>1. acquirer' = [acquirer EXCEPT ![a] =
               [acquirer[a] EXCEPT !.pc = "check", !.attempt = acquirer[a].attempt + 1]]
        BY <1>8, <3>2 DEF ReplaceDenied
      <4> QED BY <1>0, <3>1, <4>1 DEF TypeOK, Invocations
    <3>3. CASE ~(acquirer[a].attempt + 1 < _ATOMIC_COMMIT_ATTEMPTS)
      BY <1>0, <1>8, <3>1, <3>3, MoveOrRaise DEF ReplaceDenied
    <3> QED BY <3>2, <3>3
  <2>3. Staged(a)' /\ Reported(a)'
    BY <1>0, <2>1, <2>2 DEF Staged, Reported, disk
  <2> QED BY <1>0, <2>1, <2>2, <2>3, InvocationStep DEF disk
<1>9. ASSUME NEW a \in Acquirers, Clean(a) PROVE IInv'
  <2>1. /\ \A b \in Acquirers \ {a} : acquirer'[b] = acquirer[b] /\ staging'[b] = staging[b]
        /\ acquirer[a].pc = "clean" /\ acquirer'[a].pc = "discard"
        /\ acquirer'[a].outcome = acquirer[a].outcome
        /\ acquirer'[a].source = acquirer[a].source
        /\ staging'[a] \in {Missing, staging[a]}
        /\ UNCHANGED <<destination, download, committed>>
    BY <1>0, <1>9, MoveOrRaise DEF Clean, TypeOK
  <2>2. Staged(a)' /\ Reported(a)'
    BY <1>0, <2>1 DEF Staged, Reported
  <2> QED BY <1>0, <2>1, <2>2, InvocationStep
<1>10. ASSUME NEW a \in Acquirers, Discard(a) \/ DiscardFails(a) \/ Crash(a) PROVE IInv'
  <2>1. PICK pc \in Ended : Move(a, pc) /\ acquirer[a].pc \in Running
    BY <1>0, <1>10 DEF Discard, DiscardFails, Crash, Reported
  <2>2. /\ Discard(a) => pc = acquirer[a].outcome /\ acquirer[a].pc = "discard"
        /\ ~Discard(a) => pc # "returned" /\ download' = download
        /\ \A b \in Acquirers \ {a} : download'[b] = download[b]
        /\ UNCHANGED <<destination, staging, committed>>
    BY <1>0, <1>10, <2>1, MoveOrRaise DEF Discard, DiscardFails, Crash, disk, TypeOK
  <2>3. Staged(a)'
    BY <1>0, <2>1, MoveOrRaise DEF Staged
  <2>4. Reported(a)'
    BY <1>0, <2>1, <2>2, MoveOrRaise DEF Reported
  <2> QED BY <1>0, <2>1, <2>2, <2>3, <2>4, MoveOrRaise, InvocationStep
<1>11. ASSUME NEW kind \in {"folder", "link", "foreign"}, Occupy(Place(kind)) PROVE IInv'
  <2>1. destination \in {Missing, Empty} /\ destination' = Place(kind)
        /\ UNCHANGED <<acquirer, staging, download, committed>>
    BY <1>11 DEF Occupy
  <2>2. committed = {}
    <3>1. \A b \in committed : PublishedBy(b) => FALSE
      BY <2>1, AcquisitionOK, PlacesAreDistinct DEF PublishedBy
    <3> QED BY <3>1 DEF IInv, Published
  <2>3. Published'
    BY <2>1, <2>2 DEF Published, Untouched, Empty
  <2>4. \A a \in Acquirers : Staged(a)' /\ Reported(a)'
    BY <1>0, <2>1 DEF Staged, Reported
  <2> QED BY <1>0, <2>3, <2>4 DEF IInv
<1>12. CASE UNCHANGED vars
  BY <1>0, <1>12 DEF vars, disk, IInv, Staged, Reported, Published, PublishedBy, Untouched
<1> QED BY <1>1, <1>2, <1>3, <1>4, <1>5, <1>6, <1>7, <1>8, <1>9, <1>10, <1>11, <1>12
        DEF Next, Acquire
LEMMA Inductive == Spec => []IInv
<1> QED BY IInvInit, IInvPreserved, PTL DEF Spec

-----------------------------------------------------------------------------
\* The state stays well formed.
THEOREM TypeCorrect == Spec => []TypeOK
<1>1. IInv => TypeOK
  BY DEF IInv
<1> QED BY <1>1, Inductive, PTL

\* Whatever crashes or races, the destination never shows part of an archive, an
\* unverified one, or data without its receipt.
THEOREM PublishedDataIsComplete == Spec => []PublishedIsComplete
<1>1. IInv => PublishedIsComplete
  <2> SUFFICES ASSUME IInv PROVE PublishedIsComplete
    OBVIOUS
  <2>1. CASE Untouched
    BY <2>1 DEF Untouched, Missing, Empty, Place, PublishedIsComplete
  <2>2. CASE \E a \in committed : PublishedBy(a)
    BY <2>2 DEF PublishedBy, PublishedIsComplete
  <2> QED BY <2>1, <2>2 DEF IInv, Published
<1> QED BY <1>1, Inductive, PTL

\* One acquisition publishes, and what each reports is what happened.
THEOREM ReportsHold == Spec => []ReportsAreTrue
<1>1. IInv => ReportsAreTrue
  <2> SUFFICES ASSUME IInv PROVE ReportsAreTrue
    OBVIOUS
  <2>1. ASSUME NEW a \in committed PROVE PublishedBy(a) /\ committed = {a}
    BY <2>1 DEF IInv, Published, PublishedBy
  <2>2. ASSUME NEW a \in Acquirers, acquirer[a].pc = "returned"
        PROVE  /\ a \in committed /\ destination = Complete(acquirer[a].source)
               /\ staging[a] = Missing
    BY <2>1, <2>2 DEF IInv, Reported, PublishedBy
  <2>3. \A a \in Acquirers : acquirer[a].pc = "refused" /\ a \in committed => download[a]
    BY DEF IInv, Reported
  <2> QED BY <2>1, <2>2, <2>3 DEF ReportsAreTrue
<1> QED BY <1>1, Inductive, PTL

\* No rename and no cleanup takes away what is at the destination.
THEOREM OccupiedRemains == Spec => OccupiedStays
<1>1. ASSUME IInv, [Next]_vars, destination \notin {Missing, Empty}
      PROVE  destination' = destination
  <2>1. ASSUME NEW a \in Acquirers, Acquire(a) PROVE destination' = destination
    BY <1>1, <2>1 DEF Acquire, Transfer, Verify, Stage, StageFails, ListMembers, ExtractMember,
       WriteReceipt, StagingFails, BeginCommit, CheckDestination, Replace, Replaceable,
       ReplaceDenied, CommitFails, Clean, Discard, DiscardFails, disk
  <2>2. ASSUME NEW a \in Acquirers, Crash(a) \/ \E s \in Sources : Start(a, s)
        PROVE  destination' = destination
    BY <2>2 DEF Crash, Start, disk
  <2>3. \A kind \in {"folder", "link", "foreign"} : ~Occupy(Place(kind))
    BY <1>1 DEF Occupy
  <2> QED BY <1>1, <2>1, <2>2, <2>3 DEF Next, vars, disk
<1> QED BY <1>1, Inductive, PTL DEF Spec, OccupiedStays

-----------------------------------------------------------------------------
(* Refinement *)

HolderMap ==
    /\ \A a \in committed : Holder = a
    /\ committed = {} => Holder = IF destination \in {Missing, Empty} THEN None ELSE "foreign"

LEMMA HolderIs == IInv => HolderMap
<1> SUFFICES ASSUME IInv PROVE HolderMap
  OBVIOUS
<1>1. ASSUME NEW a \in committed PROVE Holder = a
  <2>1. PublishedBy(a)
    BY <1>1 DEF IInv, Published, PublishedBy
  <2>2. destination \notin {Missing, Empty}
    BY <2>1, PlacesAreDistinct, AcquisitionOK DEF PublishedBy
  <2> QED BY <2>1, <2>2 DEF Holder, PublishedBy
<1>2. committed = {} => Holder = IF destination \in {Missing, Empty} THEN None ELSE "foreign"
  BY DEF Holder
<1> QED BY <1>1, <1>2 DEF HolderMap

LEMMA MapsInit == Init => Promise!Init
<1> SUFFICES ASSUME Init PROVE Promise!Init
  OBVIOUS
<1>1. Holder \in {None, "foreign"}
  BY DEF Init, Holder
<1>2. Replies = [a \in Acquirers |-> "none"]
  BY DEF Init, Replies, NotStarted
<1> QED BY <1>1, <1>2 DEF Promise!Init

\* Unless it publishes, a step leaves the holder alone.
LEMMA HolderStays ==
    ASSUME IInv, IInv', UNCHANGED <<destination, committed>>
    PROVE  Holder' = Holder
<1>1. HolderMap /\ HolderMap'
  <2>1. IInv' => HolderMap'
    BY HolderIs, PTL
  <2> QED BY <2>1, HolderIs
<1> QED BY <1>1 DEF HolderMap

LEMMA MapsReply ==
    ASSUME TypeOK, NEW a \in Acquirers, \A b \in Acquirers \ {a} : acquirer'[b] = acquirer[b],
           acquirer[a].pc \notin Ended
    PROVE  /\ acquirer'[a].pc \notin {"returned", "refused"} => Replies' = Replies
           /\ acquirer'[a].pc \in {"returned", "refused"} =>
                 /\ Replies[a] = "none"
                 /\ Replies' = [Replies EXCEPT ![a] = acquirer'[a].pc]
BY DEF Replies, Ended

LEMMA MapsStep == IInv /\ IInv' /\ [Next]_vars => [Promise!Next]_(Promise!vars)
<1> SUFFICES ASSUME IInv, IInv', [Next]_vars PROVE [Promise!Next]_(Promise!vars)
  OBVIOUS
<1>0. TypeOK /\ \A a \in Acquirers : Reported(a)
  BY DEF IInv
<1>1. ASSUME NEW a \in Acquirers, NEW s \in Sources, Start(a, s)
      PROVE  [Promise!Next]_(Promise!vars)
  <2>1. /\ acquirer[a].pc \notin Ended
        /\ \A b \in Acquirers \ {a} : acquirer'[b] = acquirer[b]
        /\ acquirer'[a].pc \in {"transfer", "refused"}
        /\ UNCHANGED <<destination, committed>>
    BY <1>0, <1>1 DEF Start, TypeOK, Invocations, Ended
  <2>2. Holder' = Holder
    BY <2>1, HolderStays
  <2> QED BY <1>0, <2>1, <2>2, MapsReply DEF Promise!Next, Promise!Refuse, Promise!vars
<1>2. ASSUME NEW a \in Acquirers,
             \/ \E archive \in {"registered", "other", "none"} : Transfer(a, archive)
             \/ Verify(a) \/ Stage(a) \/ StageFails(a) \/ ListMembers(a)
             \/ \E p \in Paths : ExtractMember(a, p)
             \/ WriteReceipt(a) \/ StagingFails(a)
             \/ BeginCommit(a) \/ CheckDestination(a) \/ ReplaceDenied(a) \/ CommitFails(a)
             \/ Clean(a) \/ Crash(a)
      PROVE  [Promise!Next]_(Promise!vars)
  <2>1. /\ acquirer[a].pc \notin Ended
        /\ UNCHANGED <<destination, committed>>
    BY <1>2 DEF Transfer, Verify, Stage, StageFails, ListMembers, ExtractMember, WriteReceipt,
       StagingFails, BeginCommit, CheckDestination, ReplaceDenied, CommitFails, Clean, Crash,
       Ended, Running, disk
  <2>2. /\ \A b \in Acquirers \ {a} : acquirer'[b] = acquirer[b]
        /\ acquirer'[a].pc \notin {"returned", "refused"}
    <3>1. CASE \E archive \in {"registered", "other", "none"} : Transfer(a, archive)
      BY <1>0, <3>1 DEF Transfer, TypeOK, Invocations
    <3>2. CASE \E p \in Paths : ExtractMember(a, p)
      BY <1>0, <2>1, <3>2 DEF ExtractMember, Ended
    <3>3. CASE ReplaceDenied(a) /\ acquirer[a].attempt + 1 < _ATOMIC_COMMIT_ATTEMPTS
      <4>1. acquirer' = [acquirer EXCEPT ![a] =
               [acquirer[a] EXCEPT !.pc = "check", !.attempt = acquirer[a].attempt + 1]]
        BY <3>3 DEF ReplaceDenied
      <4> QED BY <1>0, <4>1 DEF TypeOK, Invocations
    <3>4. CASE \E pc \in Running \cup {"crashed"} : Move(a, pc) \/ Raise(a, pc)
      BY <1>0, <3>4, MoveOrRaise DEF Running
    <3> QED BY <1>2, <3>1, <3>2, <3>3, <3>4 DEF Verify, Stage, StageFails, ListMembers,
         WriteReceipt, StagingFails, BeginCommit, CheckDestination, ReplaceDenied,
         CommitFails, Clean, Crash, Running
  <2> QED BY <1>0, <2>1, <2>2, MapsReply, HolderStays DEF Promise!vars
<1>3. ASSUME NEW a \in Acquirers, Replace(a) PROVE [Promise!Next]_(Promise!vars)
  <2>1. /\ acquirer[a].pc = "replace" /\ destination \in {Missing, Empty}
        /\ a \in committed'
        /\ \A b \in Acquirers \ {a} : acquirer'[b] = acquirer[b]
        /\ acquirer'[a].pc = "clean"
    BY <1>0, <1>3 DEF Replace, Replaceable, TypeOK, Invocations
  <2>2. Holder = None
    BY <2>1 DEF Holder
  <2>3. IInv' => HolderMap'
    BY HolderIs, PTL
  <2>4. Holder' = a
    BY <2>1, <2>3 DEF HolderMap
  <2>5. Replies' = Replies
    BY <1>0, <2>1, MapsReply DEF Ended
  <2> QED BY <2>2, <2>4, <2>5 DEF Promise!Next, Promise!Take
<1>4. ASSUME NEW a \in Acquirers, Discard(a) \/ DiscardFails(a)
      PROVE  [Promise!Next]_(Promise!vars)
  <2>1. PICK pc \in {"returned", "refused"} : Move(a, pc) /\ acquirer[a].pc = "discard"
    BY <1>0, <1>4 DEF Discard, DiscardFails, Reported, Closing
  <2>2. pc = "returned" => acquirer[a].outcome = "returned"
    BY <1>0, <1>4, <2>1, MoveOrRaise DEF Discard, DiscardFails
  <2>3. UNCHANGED <<destination, committed>>
    BY <1>4 DEF Discard, DiscardFails, disk
  <2>4. Holder' = Holder
    BY <2>3, HolderStays
  <2>5. pc = "returned" => Holder = a
    BY <1>0, <2>2, HolderIs DEF Reported, HolderMap
  <2>6. Replies[a] = "none" /\ Replies' = [Replies EXCEPT ![a] = pc]
    BY <1>0, <2>1, MoveOrRaise, MapsReply DEF Ended
  <2> QED BY <2>1, <2>4, <2>5, <2>6 DEF Promise!Next, Promise!Return, Promise!Refuse
<1>5. ASSUME NEW kind \in {"folder", "link", "foreign"}, Occupy(Place(kind))
      PROVE  [Promise!Next]_(Promise!vars)
  <2>1. destination \in {Missing, Empty} /\ destination' = Place(kind)
        /\ UNCHANGED <<acquirer, committed>>
    BY <1>5 DEF Occupy
  <2>2. Holder = None /\ Replies' = Replies
    BY <2>1 DEF Holder, Replies
  <2>3. committed = {}
    <3>1. \A b \in committed : PublishedBy(b) => FALSE
      BY <2>1, AcquisitionOK, PlacesAreDistinct DEF PublishedBy
    <3> QED BY <3>1 DEF IInv, Published
  <2>4. Holder' \in {None, "foreign"}
    BY <2>1, <2>3 DEF Holder
  <2> QED BY <2>2, <2>4 DEF Promise!Next, Promise!Take, Promise!vars
<1>6. CASE UNCHANGED vars
  <2>1. Replies' = Replies
    BY <1>6 DEF vars, Replies
  <2> QED BY <1>6, <2>1, HolderStays DEF vars, disk, Promise!vars
<1> QED BY <1>1, <1>2, <1>3, <1>4, <1>5, <1>6 DEF Next, Acquire

\* PublicAcquisition implements Publication.
THEOREM AcquisitionsImplementPublication == Spec => ImplementsPublication
<1> QED BY MapsInit, MapsStep, Inductive, PTL DEF Spec, ImplementsPublication, Promise!Spec
=============================================================================
