------------------------- MODULE PublicStoreProofs -------------------------
(***************************************************************************)
(* Theorems about PublicStore, for any number of stores, chunks and        *)
(* indexes, and any number of failing calls and repeated attempts.         *)
(***************************************************************************)
EXTENDS PublicStore, TLAPS

\* What a store has seen to at its place; none of it can be undone.
Settled(s) ==
    /\ store[s].pc \in {"validate", "index", "upsert", "indexed"} => Exists
    /\ store[s].pc \in {"check", "create", "validate"} => store[s].next = 1
    /\ store[s].pc = "index" =>
          /\ Compatible
          /\ store[s].next \in Fields
          /\ \A f \in Fields : f < store[s].next => collection.index[f] = "keyword"
    /\ store[s].initialized \/ store[s].pc \in {"upsert", "indexed"} => Prepared
    /\ store[s].pc = "incompatible" => Exists /\ ~Compatible
    /\ store[s].pc = "indexed" => Batch[s] \subseteq points

Owned ==
    /\ Exists <=> origin # None
    /\ ~Exists => collection = Absent
    /\ Exists /\ origin # "foreign" => Compatible

PointsAreAccepted == \A c \in points : \E s \in Stores : c \in Batch[s] /\ Accepted(s)

IInv == /\ TypeOK /\ Owned /\ PointsAreAccepted
        /\ \A s \in Stores : Settled(s)

-----------------------------------------------------------------------------
LEMMA IInvInit == Init => IInv
<1> SUFFICES ASSUME Init PROVE IInv
  OBVIOUS
<1> USE StoreOK DEF Init, New, Absent, Bare
<1>1. TypeOK
  BY DEF TypeOK, Vectors, IndexTypes, Instances, Pc, Fields
<1>2. Owned /\ PointsAreAccepted
  BY DEF Owned, PointsAreAccepted, Exists
<1>3. \A s \in Stores : Settled(s)
  BY DEF Settled
<1> QED BY <1>1, <1>2, <1>3 DEF IInv

\* Whatever happens, the collection and its points only grow, and a collection
\* that does not fit stays as it is.
Grows ==
    /\ Exists => Exists'
    /\ Compatible => Compatible'
    /\ Prepared => Prepared'
    /\ Exists /\ ~Compatible => UNCHANGED collection
    /\ Exists => \A f \in Fields : collection.index[f] = "keyword" => collection'.index[f] = "keyword"
    /\ points \subseteq points'
    /\ origin # None => origin' = origin

LEMMA UntouchedGrows ==
    ASSUME UNCHANGED collection, points \subseteq points', UNCHANGED origin
    PROVE  Grows
BY DEF Grows, Exists, Compatible, Prepared

\* A store other than the one that moves keeps what it has.
LEMMA SettledStays ==
    ASSUME Owned, Grows, NEW s \in Stores, Settled(s), store'[s] = store[s]
    PROVE  Settled(s)'
<1>1. store[s].pc = "incompatible" => Exists' /\ ~Compatible'
  BY DEF Settled, Grows, Compatible, Exists
<1>2. store[s].pc = "index" => \A f \in Fields : f < store[s].next => collection'.index[f] = "keyword"
  BY DEF Settled, Grows
<1> QED BY <1>1, <1>2 DEF Settled, Grows

\* The move of one store, given what the step does to the collection.
LEMMA StoreStep ==
    ASSUME IInv, NEW s \in Stores, Grows, Owned', PointsAreAccepted', TypeOK', Settled(s)',
           \A q \in Stores \ {s} : store'[q] = store[q]
    PROVE  IInv'
<1>1. \A q \in Stores : Settled(q)'
  BY SettledStays DEF IInv
<1> QED BY <1>1 DEF IInv

LEMMA MoveIs ==
    ASSUME TypeOK, NEW s \in Stores, NEW pc \in Pc, Move(s, pc)
    PROVE  /\ store' \in [Stores -> Instances]
           /\ \A q \in Stores \ {s} : store'[q] = store[q]
           /\ store'[s].pc = pc
           /\ store'[s].next = store[s].next
           /\ store'[s].initialized = store[s].initialized
<1>1. store[s] \in Instances
  BY DEF TypeOK
<1>2. [store[s] EXCEPT !.pc = pc] \in Instances
  BY <1>1 DEF Instances
<1> QED BY <1>1, <1>2 DEF Move, TypeOK, Instances

\* Setting an index of a collection that fits.
LEMMA IndexGrows ==
    ASSUME TypeOK, Owned, Exists, Compatible, NEW f \in Fields,
           collection' = [collection EXCEPT !.index = [@ EXCEPT ![f] = "keyword"]],
           points \subseteq points', UNCHANGED origin
    PROVE  /\ Grows /\ Owned'
           /\ Exists' /\ Compatible'
           /\ collection' \in [vectors : Vectors, index : [Fields -> IndexTypes]]
           /\ \A g \in Fields : collection'.index[g] =
                 IF g = f THEN "keyword" ELSE collection.index[g]
<1>1. /\ collection.vectors \in Vectors /\ collection.index \in [Fields -> IndexTypes]
      /\ collection \in [vectors : Vectors, index : [Fields -> IndexTypes]]
  BY DEF TypeOK
<1>2. /\ collection'.vectors = collection.vectors
      /\ collection'.index = [collection.index EXCEPT ![f] = "keyword"]
  BY <1>1
<1>3. \A g \in Fields : collection'.index[g] = IF g = f THEN "keyword" ELSE collection.index[g]
  BY <1>1, <1>2
<1>4. collection' \in [vectors : Vectors, index : [Fields -> IndexTypes]]
  BY <1>1, <1>2 DEF IndexTypes
<1>5. Exists' /\ Compatible'
  BY <1>2, <1>3 DEF Exists, Compatible
<1>6. Grows
  BY <1>2, <1>3, <1>5 DEF Grows, Exists, Prepared
<1>7. Owned'
  BY <1>5 DEF Owned
<1> QED BY <1>3, <1>4, <1>5, <1>6, <1>7

\* A new collection of this program's own.
LEMMA CreationGrows ==
    ASSUME TypeOK, Owned, ~Exists, NEW o \in Stores \cup {"foreign"},
           NEW vectors \in {"dense", "other"}, NEW index \in [Fields -> IndexTypes],
           o # "foreign" => vectors = "dense" /\ index = Bare,
           collection' = [vectors |-> vectors, index |-> index],
           origin' = o, UNCHANGED points
    PROVE  /\ Grows /\ Owned' /\ Exists'
           /\ o # "foreign" => Compatible'
           /\ collection' \in [vectors : Vectors, index : [Fields -> IndexTypes]]
<1>1. origin = None /\ collection = Absent /\ o # None
  BY StoreOK DEF Owned
<1>2. collection'.vectors = vectors /\ collection'.index = index
  OBVIOUS
<1>3. collection' \in [vectors : Vectors, index : [Fields -> IndexTypes]]
  BY DEF Vectors
<1>4. Exists'
  BY <1>2 DEF Exists
<1>5. o # "foreign" => Compatible'
  BY <1>2 DEF Compatible, Bare
<1>6. Grows
  BY <1>1, <1>4 DEF Grows, Exists, Compatible, Prepared, Absent
<1> QED BY <1>1, <1>3, <1>4, <1>5, <1>6 DEF Owned

-----------------------------------------------------------------------------
LEMMA IInvPreserved ==
    ASSUME IInv, [Next]_vars
    PROVE  IInv' /\ (Exists /\ ~Compatible => UNCHANGED <<collection, points>>)
<1>0. /\ TypeOK /\ Owned /\ PointsAreAccepted
      /\ \A s \in Stores : Settled(s) /\ store[s] \in Instances
  BY DEF IInv, TypeOK
<1> USE DEF Calling
<1>1. ASSUME NEW s \in Stores, Open(s) PROVE IInv' /\ UNCHANGED <<collection, points>>
  <2>1. [New EXCEPT !.pc = "check"] \in Instances
    <3>1. 1 \in 1 .. FieldCount + 1
      BY StoreOK
    <3> QED BY <3>1 DEF New, Instances, Pc
  <2>2. /\ \A q \in Stores \ {s} : store'[q] = store[q]
        /\ store'[s] = [New EXCEPT !.pc = "check"]
        /\ store' \in [Stores -> Instances]
        /\ UNCHANGED <<collection, points, origin>>
    BY <1>0, <1>1, <2>1 DEF Open, TypeOK
  <2>3. Grows /\ Owned' /\ PointsAreAccepted' /\ TypeOK'
    BY <1>0, <2>2, UntouchedGrows DEF Owned, PointsAreAccepted, TypeOK, Exists, Compatible
  <2>4. Settled(s)'
    BY <2>2 DEF Settled, New
  <2> QED BY <2>2, <2>3, <2>4, StoreStep
<1>2. ASSUME NEW s \in Stores,
             CheckCollection(s) \/ CreateConflicts(s) \/ Validate(s) \/ CallFails(s)
      PROVE  IInv' /\ UNCHANGED <<collection, points>>
  <2>1. PICK pc \in Pc : Move(s, pc)
    BY <1>2 DEF CheckCollection, CreateConflicts, Validate, CallFails, Pc
  <2>2. UNCHANGED <<collection, points, origin>>
    BY <1>2 DEF CheckCollection, CreateConflicts, Validate, CallFails
  <2>3. Grows /\ Owned' /\ PointsAreAccepted' /\ TypeOK'
    BY <1>0, <2>1, <2>2, MoveIs, UntouchedGrows
       DEF Owned, PointsAreAccepted, TypeOK, Exists, Compatible
  <2>4. \/ Move(s, "validate") /\ store[s].pc \in {"check", "create"} /\ Exists
        \/ Move(s, "create") /\ store[s].pc = "check"
        \/ Move(s, "failed")
        \/ Move(s, "index") /\ store[s].pc = "validate" /\ Compatible
        \/ Move(s, "incompatible") /\ store[s].pc = "validate" /\ ~Compatible
    BY <1>2 DEF CheckCollection, CreateConflicts, Validate, CallFails
  <2>5. Settled(s)'
    <3>1. CASE Move(s, "validate") /\ store[s].pc \in {"check", "create"} /\ Exists
      BY <1>0, <2>2, <2>3, <3>1, MoveIs DEF Settled, Grows, Pc
    <3>2. CASE (Move(s, "create") /\ store[s].pc = "check") \/ Move(s, "failed")
      BY <1>0, <2>2, <2>3, <3>2, MoveIs DEF Settled, Grows, Pc
    <3>3. CASE Move(s, "index") /\ store[s].pc = "validate" /\ Compatible
      BY <1>0, <2>2, <2>3, <3>3, MoveIs, StoreOK DEF Settled, Grows, Pc, Fields
    <3>4. CASE Move(s, "incompatible") /\ store[s].pc = "validate" /\ ~Compatible
      BY <1>0, <2>2, <2>3, <3>4, MoveIs DEF Settled, Grows, Pc, Exists, Compatible
    <3> QED BY <2>4, <3>1, <3>2, <3>3, <3>4
  <2> QED BY <1>0, <2>1, <2>2, <2>3, <2>5, MoveIs, StoreStep
<1>3. ASSUME NEW s \in Stores, Create(s) \/ CreateAnswerLost(s)
      PROVE  IInv' /\ ~Exists
  <2>1. /\ ~Exists /\ origin' = s /\ UNCHANGED points
        /\ collection' = [vectors |-> "dense", index |-> Bare]
        /\ store[s].pc = "create"
    BY <1>3 DEF Create, CreateAnswerLost
  <2>2. Bare \in [Fields -> IndexTypes] /\ s # "foreign"
    BY StoreOK DEF Bare, IndexTypes
  <2>3. /\ Grows /\ Owned' /\ Exists' /\ Compatible'
        /\ collection' \in [vectors : Vectors, index : [Fields -> IndexTypes]]
    BY <1>0, <2>1, <2>2, CreationGrows
  <2>4. /\ \A q \in Stores \ {s} : store'[q] = store[q]
        /\ store' \in [Stores -> Instances]
        /\ store'[s].next = 1 /\ store'[s].initialized = store[s].initialized
        /\ \/ store'[s].pc = "index"
           \/ store'[s].pc = "failed"
    <3>1. CASE Create(s)
      <4>1. store[s].next = 1
        BY <1>0, <2>1 DEF Settled
      <4> QED BY <1>0, <3>1, <4>1, MoveIs DEF Create, Pc
    <3>2. CASE CreateAnswerLost(s)
      BY <1>0, <2>1, <3>2, MoveIs DEF CreateAnswerLost, Pc, Settled
    <3> QED BY <1>3, <3>1, <3>2
  <2>5. Settled(s)'
    BY <1>0, <2>1, <2>3, <2>4, StoreOK DEF Settled, Grows, Fields
  <2>6. PointsAreAccepted' /\ TypeOK'
    BY <1>0, <2>1, <2>3, <2>4 DEF PointsAreAccepted, TypeOK
  <2> QED BY <2>1, <2>3, <2>4, <2>5, <2>6, StoreStep
<1>4. ASSUME NEW s \in Stores, CreateIndex(s) \/ IndexAnswerLost(s)
      PROVE  IInv' /\ Compatible
  <2> DEFINE n == store[s].next
  <2>1. /\ store[s].pc = "index" /\ n \in Fields /\ Exists /\ Compatible
        /\ \A f \in Fields : f < n => collection.index[f] = "keyword"
    BY <1>0, <1>4 DEF CreateIndex, IndexAnswerLost, Settled
  <2>2. /\ collection' = [collection EXCEPT !.index = [@ EXCEPT ![n] = "keyword"]]
        /\ UNCHANGED <<points, origin>>
    BY <1>4 DEF CreateIndex, IndexAnswerLost
  <2> HIDE DEF n
  <2>3. /\ Grows /\ Owned' /\ Exists' /\ Compatible'
        /\ collection' \in [vectors : Vectors, index : [Fields -> IndexTypes]]
        /\ \A g \in Fields : collection'.index[g] = IF g = n THEN "keyword"
                                                   ELSE collection.index[g]
    BY <1>0, <2>1, <2>2, IndexGrows
  <2>4. \A f \in Fields : f < n + 1 => collection'.index[f] = "keyword"
    BY <2>1, <2>3, StoreOK DEF Fields
  <2>5. n = FieldCount => Prepared'
    BY <2>3, <2>4, StoreOK DEF Prepared, Fields, Compatible
  <2>6. /\ n + 1 \in 1 .. FieldCount + 1
        /\ n # FieldCount => n + 1 \in Fields
    BY <2>1, StoreOK DEF Fields
  <2>7. /\ \A q \in Stores \ {s} : store'[q] = store[q]
        /\ store' \in [Stores -> Instances]
        /\ \/ /\ store'[s].pc = IF n = FieldCount THEN "upsert" ELSE "index"
              /\ store'[s].next = n + 1
              /\ store'[s].initialized = (n = FieldCount)
           \/ store'[s].pc = "failed" /\ store'[s].initialized = store[s].initialized
    <3>1. CASE CreateIndex(s)
      <4> DEFINE pc == IF n = FieldCount THEN "upsert" ELSE "index"
                 done == (n = FieldCount)
                 m == n + 1
      <4>1. pc \in Pc /\ done \in BOOLEAN /\ m \in 1 .. FieldCount + 1
        BY <2>6 DEF Pc
      <4>2. store' = [store EXCEPT ![s] = [store[s] EXCEPT !.next = m, !.pc = pc,
                                                            !.initialized = done]]
        BY <3>1 DEF CreateIndex, n
      <4> HIDE DEF pc, done, m
      <4>3. [store[s] EXCEPT !.next = m, !.pc = pc, !.initialized = done] \in Instances
        BY <1>0, <4>1 DEF Instances
      <4>4. /\ \A q \in Stores \ {s} : store'[q] = store[q]
            /\ store' \in [Stores -> Instances]
             /\ store'[s].pc = pc /\ store'[s].next = m /\ store'[s].initialized = done
        BY <1>0, <4>2, <4>3 DEF TypeOK, Instances
      <4> QED BY <4>4 DEF pc, done, m
    <3>2. CASE IndexAnswerLost(s)
      BY <1>0, <3>2, MoveIs DEF IndexAnswerLost, Pc
    <3> QED BY <1>4, <3>1, <3>2
  <2>8. Settled(s)'
    <3>1. CASE store'[s].pc = "failed" /\ store'[s].initialized = store[s].initialized
      BY <1>0, <2>2, <2>3, <2>7, <3>1 DEF Settled, Grows
    <3>2. CASE n = FieldCount /\ store'[s].pc = "upsert"
      BY <1>0, <2>2, <2>3, <2>5, <2>7, <3>2 DEF Settled
    <3>3. CASE n # FieldCount /\ store'[s].pc = "index" /\ store'[s].next = n + 1
               /\ store'[s].initialized = (n = FieldCount)
      <4>1. ~store'[s].initialized
        BY <3>3
      <4> QED BY <1>0, <2>2, <2>3, <2>4, <2>6, <2>7, <3>3, <4>1 DEF Settled
    <3> QED BY <2>7, <3>1, <3>2, <3>3
  <2>9. PointsAreAccepted' /\ TypeOK'
    BY <1>0, <2>2, <2>3, <2>7 DEF PointsAreAccepted, TypeOK
  <2> QED BY <2>1, <2>3, <2>7, <2>8, <2>9, StoreStep
<1>5. ASSUME NEW s \in Stores, Upsert(s) \/ UpsertAnswerLost(s)
      PROVE  IInv' /\ Compatible
  <2>1. /\ store[s].pc = "upsert" /\ Exists /\ Prepared
        /\ UNCHANGED <<collection, origin>>
    BY <1>0, <1>5 DEF Upsert, UpsertAnswerLost, Settled
  <2>2. PICK part \in SUBSET Batch[s] : /\ points' = points \cup part
                                        /\ part # {} => Accepted(s)
    BY <1>5 DEF Upsert, UpsertAnswerLost
  <2>3. \/ Move(s, "indexed") /\ Batch[s] \subseteq points'
        \/ Move(s, "rejected") \/ Move(s, "failed")
    BY <1>5 DEF Upsert, UpsertAnswerLost
  <2>4. PICK pc \in Pc : Move(s, pc)
    BY <2>3 DEF Pc
  <2>5. Grows /\ Compatible
    BY <2>1, <2>2, UntouchedGrows DEF Prepared, Compatible
  <2>6. Owned' /\ Exists' /\ Prepared'
    BY <1>0, <2>1 DEF Owned, Exists, Prepared, Compatible
  <2>7. PointsAreAccepted'
    BY <1>0, <2>2 DEF PointsAreAccepted
  <2>8. TypeOK'
    BY <1>0, <2>1, <2>2, <2>4, MoveIs, StoreOK DEF TypeOK
  <2>9. Settled(s)'
    <3>1. CASE Move(s, "indexed") /\ Batch[s] \subseteq points'
      BY <1>0, <2>1, <2>6, <3>1, MoveIs DEF Settled, Pc
    <3>2. CASE Move(s, "rejected") \/ Move(s, "failed")
      BY <1>0, <2>1, <2>6, <3>2, MoveIs DEF Settled, Pc
    <3> QED BY <2>3, <3>1, <3>2
  <2>10. \A q \in Stores \ {s} : store'[q] = store[q]
    BY <1>0, <2>4, MoveIs
  <2>11. IInv'
    BY <2>5, <2>6, <2>7, <2>8, <2>9, <2>10, StoreStep
  <2> QED BY <2>5, <2>11
<1>6. ASSUME NEW vectors \in {"dense", "other"}, NEW index \in ForeignIndexes,
             ForeignCreates(vectors, index)
      PROVE  IInv' /\ ~Exists
  <2>1. /\ ~Exists /\ collection' = [vectors |-> vectors, index |-> index]
        /\ origin' = "foreign" /\ UNCHANGED <<points, store>>
        /\ index \in [Fields -> IndexTypes]
    BY <1>6, StoreOK DEF ForeignCreates
  <2>2. /\ Grows /\ Owned'
        /\ collection' \in [vectors : Vectors, index : [Fields -> IndexTypes]]
    BY <1>0, <2>1, CreationGrows
  <2>3. \A s \in Stores : Settled(s)'
    BY <1>0, <2>1, <2>2, SettledStays
  <2>4. PointsAreAccepted' /\ TypeOK'
    BY <1>0, <2>1, <2>2 DEF PointsAreAccepted, TypeOK
  <2> QED BY <2>1, <2>2, <2>3, <2>4 DEF IInv
<1>7. CASE UNCHANGED vars
  BY <1>0, <1>7 DEF vars, IInv, TypeOK, Owned, PointsAreAccepted, Settled, Exists,
                    Compatible, Prepared
<1> QED BY <1>1, <1>2, <1>3, <1>4, <1>5, <1>6, <1>7 DEF Next, Call, vars

LEMMA Inductive == Spec => []IInv
<1>1. IInv /\ [Next]_vars => IInv'
  BY IInvPreserved
<1> QED BY <1>1, IInvInit, PTL DEF Spec

-----------------------------------------------------------------------------
\* The state stays well formed.
THEOREM TypeCorrect == Spec => []TypeOK
<1>1. IInv => TypeOK
  BY DEF IInv
<1> QED BY <1>1, Inductive, PTL

\* `_initialized` is never ahead of the collection and its indexes.
THEOREM InitializedIsPrepared == Spec => []InitializedMeansPrepared
<1>1. IInv => InitializedMeansPrepared
  BY DEF IInv, Settled, InitializedMeansPrepared
<1> QED BY <1>1, Inductive, PTL

\* Stores that race never refuse each other's collection.
THEOREM OnlyForeignIsRefused == Spec => []RefusalsAreJust
<1>1. IInv => RefusalsAreJust
  BY DEF IInv, Settled, Owned, RefusalsAreJust
<1> QED BY <1>1, Inductive, PTL

\* A collection that does not fit is left alone.
THEOREM IncompatibleIsLeftAlone == Spec => IncompatibleStays
<1>1. IInv /\ [Next]_vars => (Exists /\ ~Compatible => UNCHANGED <<collection, points>>)
  BY IInvPreserved
<1> QED BY <1>1, Inductive, PTL DEF Spec, IncompatibleStays

\* What was acknowledged is stored, what was rejected is not.
THEOREM AcknowledgedIsKept == Spec => []AcknowledgedIsStored
<1>1. IInv => AcknowledgedIsStored
  BY DEF IInv, Settled, PointsAreAccepted, AcknowledgedIsStored
<1> QED BY <1>1, Inductive, PTL
=============================================================================
