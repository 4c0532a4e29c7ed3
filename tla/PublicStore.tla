---------------------------- MODULE PublicStore ----------------------------
(***************************************************************************)
(* QdrantPublicKnowledgeStore of rag/store.py: several instances, each of  *)
(* an ingestion or of a runtime that starts, prepare the one public        *)
(* collection and write their chunks to it.  Every call to Qdrant is a     *)
(* step of its own; a call that fails may have taken effect.               *)
(***************************************************************************)
EXTENDS Integers

CONSTANTS
    Stores,          \* instances, with the caller that uses each
    Chunks,          \* chunk ids; a point id is derived from one
    ValidChunks,     \* those that pass _validate_chunk and _validate_vector
    Batch,           \* Batch[s]: the chunks the caller of s indexes
    FieldCount,      \* the length of _PAYLOAD_INDEXES
    ForeignIndexes,  \* payload schemas another program may create
    None

Fields == 1 .. FieldCount
IndexTypes == {"none", "keyword", "other"}

ASSUME StoreOK ==
    /\ Batch \in [Stores -> SUBSET Chunks]
    /\ ValidChunks \subseteq Chunks
    /\ FieldCount \in Nat \ {0}
    /\ ForeignIndexes \subseteq [Fields -> IndexTypes]
    /\ None \notin Stores \cup {"foreign"}
    /\ "foreign" \notin Stores

VARIABLES
    collection,  \* the collection in Qdrant: vector configuration and payload schema
    points,      \* chunks stored as points
    store,       \* store[s]: the caller's place, the next index, _initialized
    origin       \* history: who created the collection

vars == <<collection, points, store, origin>>

-----------------------------------------------------------------------------
(* Data *)

Vectors == {"absent", "dense", "other"}
Bare == [f \in Fields |-> "none"]
Absent == [vectors |-> "absent", index |-> Bare]

Exists == collection.vectors # "absent"

\* Broken variant: the indexes are required too.
CompatibleIfIndexed ==
    /\ collection.vectors = "dense"
    /\ \A f \in Fields : collection.index[f] = "keyword"

\* _validate_existing_collection: an index may still be missing.
Compatible ==
    /\ collection.vectors = "dense"
    /\ \A f \in Fields : collection.index[f] # "other"

Prepared ==
    /\ collection.vectors = "dense"
    /\ \A f \in Fields : collection.index[f] = "keyword"

\* _validate_chunk and _validate_vector accept every chunk of the batch.
Accepted(s) == Batch[s] \subseteq ValidChunks

Calling == {"check", "create", "validate", "index", "upsert"}
Pc == {"new", "incompatible", "rejected", "failed", "indexed"} \cup Calling
Instances == [pc          : Pc,
              next        : 1 .. FieldCount + 1,
              initialized : BOOLEAN]
New == [pc |-> "new", next |-> 1, initialized |-> FALSE]

Move(s, pc) == store' = [store EXCEPT ![s] = [@ EXCEPT !.pc = pc]]

-----------------------------------------------------------------------------
(* initialize and ensure_public_collection *)

\* A caller builds a store, the first one or another after a failure.
Open(s) ==
    /\ store[s].pc \in {"new", "failed"}
    /\ store' = [store EXCEPT ![s] = [New EXCEPT !.pc = "check"]]
    /\ UNCHANGED <<collection, points, origin>>

CheckCollection(s) ==
    /\ store[s].pc = "check"
    /\ Move(s, IF Exists THEN "validate" ELSE "create")
    /\ UNCHANGED <<collection, points, origin>>

\* Broken variant: a conflict is taken for a collection of one's own.
CreateTrusting(s) ==
    /\ store[s].pc = "create"
    /\ Exists
    /\ Move(s, "index")
    /\ UNCHANGED <<collection, points, origin>>

Create(s) ==
    /\ store[s].pc = "create"
    /\ ~Exists
    /\ collection' = [vectors |-> "dense", index |-> Bare]
    /\ Move(s, "index")
    /\ origin' = s
    /\ UNCHANGED points

\* Qdrant answers 409: somebody else was faster.
CreateConflicts(s) ==
    /\ store[s].pc = "create"
    /\ Exists
    /\ Move(s, "validate")
    /\ UNCHANGED <<collection, points, origin>>

Validate(s) ==
    /\ store[s].pc = "validate"
    /\ Move(s, IF Compatible THEN "index" ELSE "incompatible")
    /\ UNCHANGED <<collection, points, origin>>

\* Broken variant: initialized before the last index is there.
CreateIndexEarly(s) ==
    /\ store[s].pc = "index"
    /\ collection' = [collection EXCEPT !.index = [@ EXCEPT ![store[s].next] = "keyword"]]
    /\ store' = [store EXCEPT ![s] =
           [@ EXCEPT !.next = store[s].next + 1,
                     !.pc = IF store[s].next + 1 >= FieldCount THEN "upsert" ELSE "index",
                     !.initialized = store[s].next + 1 >= FieldCount]]
    /\ UNCHANGED <<points, origin>>

\* create_payload_index, in the order of _PAYLOAD_INDEXES; an index that is there
\* already stays.  After the last one initialize sets _initialized.
CreateIndex(s) ==
    /\ store[s].pc = "index"
    /\ collection' = [collection EXCEPT !.index = [@ EXCEPT ![store[s].next] = "keyword"]]
    /\ store' = [store EXCEPT ![s] =
           [@ EXCEPT !.next = store[s].next + 1,
                     !.pc = IF store[s].next = FieldCount THEN "upsert" ELSE "index",
                     !.initialized = store[s].next = FieldCount]]
    /\ UNCHANGED <<points, origin>>

-----------------------------------------------------------------------------
(* upsert *)

\* Broken variant: Qdrant acknowledges before it has written everything.
UpsertWithoutWait(s) ==
    /\ store[s].pc = "upsert"
    /\ \E part \in SUBSET Batch[s] : points' = points \cup part
    /\ Move(s, "indexed")
    /\ UNCHANGED <<collection, origin>>

\* The whole batch is validated before the first point is sent.
Upsert(s) ==
    /\ store[s].pc = "upsert"
    /\ IF Accepted(s)
       THEN points' = points \cup Batch[s] /\ Move(s, "indexed")
       ELSE Move(s, "rejected") /\ UNCHANGED points
    /\ UNCHANGED <<collection, origin>>

-----------------------------------------------------------------------------
(* Failing calls, other programs *)

\* A call is lost, or its answer is: PublicStoreUnavailableError.
CallFails(s) ==
    /\ store[s].pc \in Calling
    /\ Move(s, "failed")
    /\ UNCHANGED <<collection, points, origin>>

CreateAnswerLost(s) ==
    /\ store[s].pc = "create"
    /\ ~Exists
    /\ collection' = [vectors |-> "dense", index |-> Bare]
    /\ origin' = s
    /\ Move(s, "failed")
    /\ UNCHANGED points

IndexAnswerLost(s) ==
    /\ store[s].pc = "index"
    /\ collection' = [collection EXCEPT !.index = [@ EXCEPT ![store[s].next] = "keyword"]]
    /\ Move(s, "failed")
    /\ UNCHANGED <<points, origin>>

\* Qdrant may have written part of the batch.
UpsertAnswerLost(s) ==
    /\ store[s].pc = "upsert"
    /\ Accepted(s)
    /\ \E part \in SUBSET Batch[s] : points' = points \cup part
    /\ Move(s, "failed")
    /\ UNCHANGED <<collection, origin>>

\* Another program creates the collection, as it likes.
ForeignCreates(vectors, index) ==
    /\ ~Exists
    /\ collection' = [vectors |-> vectors, index |-> index]
    /\ origin' = "foreign"
    /\ UNCHANGED <<points, store>>

-----------------------------------------------------------------------------
Init ==
    /\ collection = Absent
    /\ points = {}
    /\ store = [s \in Stores |-> New]
    /\ origin = None

Call(s) ==
    \/ CheckCollection(s) \/ Create(s) \/ CreateConflicts(s) \/ Validate(s)
    \/ CreateIndex(s) \/ Upsert(s)

Next ==
    \/ \E s \in Stores : \/ Open(s) \/ Call(s) \/ CallFails(s) \/ CreateAnswerLost(s)
                         \/ IndexAnswerLost(s) \/ UpsertAnswerLost(s)
    \/ \E vectors \in {"dense", "other"}, index \in ForeignIndexes :
          ForeignCreates(vectors, index)

Spec == Init /\ [][Next]_vars

-----------------------------------------------------------------------------
(* Properties *)

\* The state is well formed.
TypeOK ==
    /\ collection \in [vectors : Vectors, index : [Fields -> IndexTypes]]
    /\ points \in SUBSET Chunks
    /\ store \in [Stores -> Instances]
    /\ origin \in Stores \cup {None, "foreign"}

\* A store that calls itself initialized has a collection with the fixed vectors
\* and all six indexes, whoever created which of them and whatever call failed.
InitializedMeansPrepared ==
    \A s \in Stores : store[s].initialized => Prepared

\* A store refuses the collection only if another program made it: never because
\* it meets the half-prepared collection of another store.
RefusalsAreJust ==
    \A s \in Stores : store[s].pc = "incompatible" => origin = "foreign" /\ ~Compatible

\* Nothing is written to a collection that does not fit, by whichever of the ways
\* a store may come to it.
IncompatibleStays ==
    [][Exists /\ ~Compatible => UNCHANGED <<collection, points>>]_vars

\* What a caller was told is indexed can be found in the prepared collection;
\* what was rejected left no part of it, unless another caller wrote it.
AcknowledgedIsStored ==
    /\ \A s \in Stores : store[s].pc = "indexed" => Batch[s] \subseteq points /\ Prepared
    /\ \A c \in points : \E s \in Stores : c \in Batch[s] /\ Accepted(s)
=============================================================================
