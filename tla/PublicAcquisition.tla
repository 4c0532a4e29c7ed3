------------------------- MODULE PublicAcquisition -------------------------
(***************************************************************************)
(* acquire_public_source of rag/acquire.py: several invocations aim at one *)
(* destination.  Each downloads an archive, checks it, extracts what the   *)
(* registry permits into a staging directory beside the destination,       *)
(* writes the receipt, and renames the staging directory into place.       *)
(* An invocation is a process of its own; running the command again is     *)
(* another acquirer that starts later.                                     *)
(***************************************************************************)
EXTENDS Integers

CONSTANTS
    Acquirers,   \* invocations
    Sources,     \* entries of the registry
    EligibleSources,
    Paths,       \* names of archive members
    Entries,     \* Entries[s]: the members of the registered archive of s
    PermittedPaths,          \* PermittedPaths[s]: what the registry permits of it
    _ATOMIC_COMMIT_ATTEMPTS,
    None

ASSUME AcquisitionOK ==
    /\ EligibleSources \subseteq Sources
    /\ Entries \in [Sources -> SUBSET [path : Paths, kind : {"file", "directory", "unsafe"}]]
    /\ PermittedPaths \in [Sources -> SUBSET Paths]
    /\ _ATOMIC_COMMIT_ATTEMPTS \in Nat \ {0}
    /\ None \notin Sources

VARIABLES
    posix,        \* whether a rename replaces an empty directory
    destination,  \* what is at the destination
    acquirer,     \* acquirer[a]: the invocation's place, source, archive, attempt, outcome
    staging,      \* staging[a]: its staging directory
    download,     \* download[a]: whether its download directory exists
    committed     \* history: acquirers whose rename succeeded

disk == <<destination, staging, download, committed>>
vars == <<posix, acquirer, disk>>

-----------------------------------------------------------------------------
(* Files *)

\* genuine tells that a file comes from the registered archive.  A torn file or
\* receipt counts as absent.
Files == [source : Sources, path : Paths, genuine : BOOLEAN]
Receipts == [source : Sources \cup {None}, paths : SUBSET Paths]
NoReceipt == [source |-> None, paths |-> {}]

\* "link" is a dangling symbolic link, "foreign" a file or somebody's directory
\* that is not empty.
Places == [kind    : {"missing", "folder", "link", "foreign"},
           files   : SUBSET Files,
           receipt : Receipts]
Place(kind) == [kind |-> kind, files |-> {}, receipt |-> NoReceipt]
Missing == Place("missing")
Empty == Place("folder")

\* Path.exists follows links.
Exists(place) == place.kind \in {"folder", "foreign"}

\* _is_permitted_member, of the members that are files.
Permitted(s) ==
    { e.path : e \in { m \in Entries[s] : m.kind = "file" /\ m.path \in PermittedPaths[s] } }

\* _receipt_for.
ReceiptFor(s, paths) == [source |-> s, paths |-> paths]

\* The directory that an acquisition of s is to publish.
Complete(s) ==
    [kind    |-> "folder",
     files   |-> [source : {s}, path : Permitted(s), genuine : {TRUE}],
     receipt |-> ReceiptFor(s, Permitted(s))]

Extracted(a) == { f.path : f \in staging[a].files }

-----------------------------------------------------------------------------
(* Places of an invocation *)

Ended == {"returned", "refused", "crashed"}
Running == {"transfer", "verify", "stage", "list", "extract", "commit", "check",
            "replace", "clean", "discard"}

Invocations == [pc      : {"idle"} \cup Running \cup Ended,
                source  : Sources \cup {None},
                archive : {"registered", "other", "none"},
                attempt : 0 .. _ATOMIC_COMMIT_ATTEMPTS - 1,
                outcome : {"none", "returned", "refused"}]
NotStarted == [pc |-> "idle", source |-> None, archive |-> "none", attempt |-> 0,
               outcome |-> "none"]

Move(a, pc) == acquirer' = [acquirer EXCEPT ![a] = [@ EXCEPT !.pc = pc]]

\* PublicDataAcquisitionError leaves through the finally and with blocks that are open.
Raise(a, pc) == acquirer' = [acquirer EXCEPT ![a] = [@ EXCEPT !.pc = pc, !.outcome = "refused"]]

-----------------------------------------------------------------------------
(* Download *)

\* _load_eligible_source, _validate_new_acquisition_destination.
Start(a, s) ==
    /\ acquirer[a].pc = "idle"
    /\ acquirer' = [acquirer EXCEPT ![a] =
           [@ EXCEPT !.source = s,
                     !.pc = IF s \in EligibleSources /\ destination.kind = "missing"
                            THEN "transfer" ELSE "refused"]]
    /\ download' = [download EXCEPT ![a] = s \in EligibleSources /\ destination.kind = "missing"]
    /\ UNCHANGED <<posix, destination, staging, committed>>

\* The downloader leaves the registered archive, another file, or none.
Transfer(a, archive) ==
    /\ acquirer[a].pc = "transfer"
    /\ acquirer' = [acquirer EXCEPT ![a] = [@ EXCEPT !.pc = "verify", !.archive = archive]]
    /\ UNCHANGED <<posix, disk>>

\* Broken variant: any archive will do.
VerifyPresence(a) ==
    /\ acquirer[a].pc = "verify"
    /\ IF acquirer[a].archive # "none" THEN Move(a, "stage") ELSE Raise(a, "discard")
    /\ UNCHANGED <<posix, disk>>

\* The checksum of the archive is compared with the registry's.
Verify(a) ==
    /\ acquirer[a].pc = "verify"
    /\ IF acquirer[a].archive = "registered" THEN Move(a, "stage") ELSE Raise(a, "discard")
    /\ UNCHANGED <<posix, disk>>

-----------------------------------------------------------------------------
(* Staging *)

Stage(a) ==
    /\ acquirer[a].pc = "stage"
    /\ staging' = [staging EXCEPT ![a] = Empty]
    /\ Move(a, "list")
    /\ UNCHANGED <<posix, destination, download, committed>>

StageFails(a) ==
    /\ acquirer[a].pc = "stage"
    /\ Raise(a, "discard")
    /\ UNCHANGED <<posix, disk>>

\* Every member's name is validated before the first one is written.
ListMembers(a) ==
    /\ acquirer[a].pc = "list"
    /\ IF /\ \A e \in Entries[acquirer[a].source] : e.kind # "unsafe"
          /\ Permitted(acquirer[a].source) # {}
       THEN Move(a, "extract")
       ELSE Raise(a, "clean")
    /\ UNCHANGED <<posix, disk>>

ExtractMember(a, p) ==
    /\ acquirer[a].pc = "extract"
    /\ p \in Permitted(acquirer[a].source) \ Extracted(a)
    /\ staging' = [staging EXCEPT ![a] = [@ EXCEPT !.files = staging[a].files \cup
           {[source |-> acquirer[a].source, path |-> p,
             genuine |-> acquirer[a].archive = "registered"]}]]
    /\ UNCHANGED <<posix, acquirer, destination, download, committed>>

\* Broken variant: the receipt is written when extraction begins.
WriteReceiptFirst(a) ==
    /\ acquirer[a].pc = "extract"
    /\ staging' = [staging EXCEPT ![a] = [@ EXCEPT !.receipt =
           ReceiptFor(acquirer[a].source, Permitted(acquirer[a].source))]]
    /\ Move(a, "commit")
    /\ UNCHANGED <<posix, destination, download, committed>>

WriteReceipt(a) ==
    /\ acquirer[a].pc = "extract"
    /\ Extracted(a) = Permitted(acquirer[a].source)
    /\ staging' = [staging EXCEPT ![a] = [@ EXCEPT !.receipt =
           ReceiptFor(acquirer[a].source, Extracted(a))]]
    /\ Move(a, "commit")
    /\ UNCHANGED <<posix, destination, download, committed>>

\* Reading the archive, a member, or the receipt file fails.
StagingFails(a) ==
    /\ acquirer[a].pc \in {"list", "extract"}
    /\ Raise(a, "clean")
    /\ UNCHANGED <<posix, disk>>

-----------------------------------------------------------------------------
(* _commit_staged_directory *)

BeginCommit(a) ==
    /\ acquirer[a].pc = "commit"
    /\ IF Exists(destination) THEN Raise(a, "clean") ELSE Move(a, "check")
    /\ UNCHANGED <<posix, disk>>

CheckDestination(a) ==
    /\ acquirer[a].pc = "check"
    /\ IF Exists(destination) THEN Raise(a, "clean") ELSE Move(a, "replace")
    /\ UNCHANGED <<posix, disk>>

Replaceable == destination = Missing \/ (posix /\ destination = Empty)

\* Broken variant: the last attempt is given up although it succeeded.
ReplaceForgotten(a) ==
    /\ acquirer[a].pc = "replace"
    /\ Replaceable
    /\ destination' = staging[a]
    /\ staging' = [staging EXCEPT ![a] = Missing]
    /\ committed' = committed \cup {a}
    /\ acquirer' = [acquirer EXCEPT ![a] = [@ EXCEPT !.pc = "clean",
           !.outcome = IF acquirer[a].attempt + 1 < _ATOMIC_COMMIT_ATTEMPTS
                       THEN "returned" ELSE "refused"]]
    /\ UNCHANGED <<posix, download>>

\* Path.replace renames; the operating system does it in one step.
Replace(a) ==
    /\ acquirer[a].pc = "replace"
    /\ Replaceable
    /\ destination' = staging[a]
    /\ staging' = [staging EXCEPT ![a] = Missing]
    /\ committed' = committed \cup {a}
    /\ acquirer' = [acquirer EXCEPT ![a] = [@ EXCEPT !.pc = "clean", !.outcome = "returned"]]
    /\ UNCHANGED <<posix, download>>

\* Broken variant: attempts are not counted.
RetryForever(a) ==
    /\ acquirer[a].pc = "replace"
    /\ Move(a, "check")
    /\ UNCHANGED <<posix, disk>>

\* PermissionError, transient or because the destination is there.
ReplaceDenied(a) ==
    /\ acquirer[a].pc = "replace"
    /\ IF acquirer[a].attempt + 1 < _ATOMIC_COMMIT_ATTEMPTS
       THEN acquirer' = [acquirer EXCEPT ![a] = [@ EXCEPT !.pc = "check",
                             !.attempt = acquirer[a].attempt + 1]]
       ELSE Raise(a, "clean")
    /\ UNCHANGED <<posix, disk>>

\* Another OSError, of the rename or of a look at the destination.
CommitFails(a) ==
    /\ acquirer[a].pc \in {"commit", "check", "replace"}
    /\ Raise(a, "clean")
    /\ UNCHANGED <<posix, disk>>

-----------------------------------------------------------------------------
(* Leaving the finally and with blocks; crashes; others *)

\* rmtree ignores errors: part of the staging directory may stay.
Clean(a) ==
    /\ acquirer[a].pc = "clean"
    /\ staging' \in {[staging EXCEPT ![a] = Missing], staging}
    /\ Move(a, "discard")
    /\ UNCHANGED <<posix, destination, download, committed>>

Discard(a) ==
    /\ acquirer[a].pc = "discard"
    /\ download' = [download EXCEPT ![a] = FALSE]
    /\ Move(a, acquirer[a].outcome)
    /\ UNCHANGED <<posix, destination, staging, committed>>

\* TemporaryDirectory raises OSError on exit, which is reported as a failure
\* even when the rename has succeeded.
DiscardFails(a) ==
    /\ acquirer[a].pc = "discard"
    /\ Move(a, "refused")
    /\ UNCHANGED <<posix, disk>>

Crash(a) ==
    /\ acquirer[a].pc \in Running
    /\ Move(a, "crashed")
    /\ UNCHANGED <<posix, disk>>

\* Somebody else puts something at the destination.
Occupy(place) ==
    /\ \/ destination = Missing /\ place \in {Empty, Place("link"), Place("foreign")}
       \/ destination = Empty /\ place = Place("foreign")
    /\ destination' = place
    /\ UNCHANGED <<posix, acquirer, staging, download, committed>>

-----------------------------------------------------------------------------
Init ==
    /\ posix \in BOOLEAN
    /\ destination \in {Missing, Empty, Place("link"), Place("foreign")}
    /\ acquirer = [a \in Acquirers |-> NotStarted]
    /\ staging = [a \in Acquirers |-> Missing]
    /\ download = [a \in Acquirers |-> FALSE]
    /\ committed = {}

\* What an invocation does when it is not stopped.
Acquire(a) ==
    \/ \E archive \in {"registered", "other", "none"} : Transfer(a, archive)
    \/ Verify(a) \/ Stage(a) \/ StageFails(a) \/ ListMembers(a)
    \/ \E p \in Paths : ExtractMember(a, p)
    \/ WriteReceipt(a) \/ StagingFails(a)
    \/ BeginCommit(a) \/ CheckDestination(a)
    \/ Replace(a) \/ ReplaceDenied(a) \/ CommitFails(a)
    \/ Clean(a) \/ Discard(a) \/ DiscardFails(a)

Next ==
    \/ \E a \in Acquirers : Acquire(a) \/ Crash(a) \/ \E s \in Sources : Start(a, s)
    \/ \E kind \in {"folder", "link", "foreign"} : Occupy(Place(kind))

Spec == Init /\ [][Next]_vars

\* A started process runs to its end.
FairSpec == Spec /\ \A a \in Acquirers : WF_vars(Acquire(a))

-----------------------------------------------------------------------------
(* Properties *)

\* The state is well formed.
TypeOK ==
    /\ posix \in BOOLEAN
    /\ destination \in Places
    /\ acquirer \in [Acquirers -> Invocations]
    /\ staging \in [Acquirers -> Places]
    /\ download \in [Acquirers -> BOOLEAN]
    /\ committed \in SUBSET Acquirers

\* Data or a receipt is found at the destination only as the whole of what the
\* registry permits of one verified archive, with the receipt that lists it, at
\* every moment and so also after any crash.
PublishedIsComplete ==
    destination.files # {} \/ destination.receipt # NoReceipt =>
        \E a \in committed :
            /\ acquirer[a].source \in EligibleSources
            /\ destination = Complete(acquirer[a].source)

\* At most one acquisition publishes; one that returns a receipt is that one,
\* the destination still holds what its receipt says, and its staging directory
\* is gone; one that is refused published nothing, unless what
\* failed was the removal of its download directory.
ReportsAreTrue ==
    /\ \A a, b \in committed : a = b
    /\ \A a \in Acquirers :
          /\ acquirer[a].pc = "returned" =>
                /\ a \in committed
                /\ destination = Complete(acquirer[a].source)
                /\ staging[a] = Missing
          /\ acquirer[a].pc = "refused" /\ a \in committed => download[a]

\* What was published, and what somebody else put there, is never replaced or
\* removed by any acquisition: not by a late rename and not by a cleanup.
OccupiedStays ==
    [][destination \notin {Missing, Empty} => destination' = destination]_vars

\* An acquisition that began ends, however often the rename is denied.
EveryAcquisitionEnds ==
    \A a \in Acquirers : acquirer[a].pc = "transfer" ~> acquirer[a].pc \in Ended

\* PublicAcquisition implements Publication.
Holder ==
    IF destination \in {Missing, Empty} THEN None
    ELSE IF \E a \in committed : destination = Complete(acquirer[a].source)
         THEN CHOOSE a \in committed : destination = Complete(acquirer[a].source)
         ELSE "foreign"
Replies ==
    [a \in Acquirers |-> IF acquirer[a].pc \in {"returned", "refused"} THEN acquirer[a].pc
                         ELSE "none"]

Promise == INSTANCE Publication WITH
    Free <- None, Foreign <- "foreign", holder <- Holder, reply <- Replies

ImplementsPublication == Promise!Spec
=============================================================================
