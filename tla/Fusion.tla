------------------------------- MODULE Fusion -------------------------------
(***************************************************************************)
(* Reciprocal-rank fusion of two rankings of public chunks                 *)
(* (rag/retrieve.py, and the deduplication of rag/hybrid.py).              *)
(*                                                                         *)
(* A chunk is [id, body, score].  The body stands for every other field:   *)
(* two chunks of one id are the same evidence when their bodies are equal, *)
(* and a chunk whose body is Malformed fails the validation of a public    *)
(* candidate.  Scores are integers: a share 1 / (k + rank) is counted in   *)
(* parts of 1 / Scale, exactly, where Python rounds.                       *)
(***************************************************************************)
EXTENDS Integers, Sequences, FiniteSets, FiniteSetsExt, SequencesExt

CONSTANTS ChunkIds, Bodies,
          Malformed,    \* the body of a chunk that is not valid public evidence
          RRF_K,        \* k of fuse_public_rrf: 60
          LONGEST,      \* the length of the longest ranking
          Scale         \* a common multiple of the k + rank

ASSUME FusionOK ==
    /\ {Malformed, "text"} \subseteq Bodies
    /\ RRF_K \in Nat \ {0} /\ LONGEST \in Nat \ {0} /\ Scale \in Nat \ {0}
    /\ \A rank \in 1 .. LONGEST : Scale % (RRF_K + rank) = 0

Chunk == [id : ChunkIds, body : Bodies, score : Int]

Ids(list) == { list[i].id : i \in DOMAIN list }
IdsInOrder(list) == [i \in DOMAIN list |-> list[i].id]
First(list, n) == SubSeq(list, 1, IF n < Len(list) THEN n ELSE Len(list))

Rank(list, id) == Min({ i \in DOMAIN list : list[i].id = id })

\* Two entries of one id that differ in more than their score.
Conflicting(list) ==
    \E i, j \in DOMAIN list : list[i].id = list[j].id /\ list[i].body # list[j].body

WellFormed(list) == \A i \in DOMAIN list : list[i].body # Malformed

\* The n-th of a set in a strict total order is the one that n - 1 others
\* precede.  (SubSeq makes TLC compute the sequence once.)
Sorted(S, before) ==
    LET nth == [n \in 1 .. Cardinality(S) |->
                   CHOOSE i \in S : Cardinality({ j \in S : <<j, i>> \in before }) = n - 1]
    IN  SubSeq(nth, 1, Cardinality(S))

Ascending(S) == { p \in S \X S : p[1] < p[2] }

\* Higher scores first; equal scores in the order of the positions, as Python's
\* sort is stable.
Descending(S, score) ==
    { p \in S \X S :
        \/ score[p[1]] > score[p[2]]
        \/ score[p[1]] = score[p[2]] /\ p[1] < p[2] }

\* The first entry of every id.
Deduplicated(list) ==
    LET first == { i \in DOMAIN list : Rank(list, list[i].id) = i }
        order == Sorted(first, Ascending(first))
    IN  [n \in 1 .. Cardinality(first) |-> list[order[n]]]

-----------------------------------------------------------------------------
Share(list, id) == IF id \in Ids(list) THEN Scale \div (RRF_K + Rank(list, id)) ELSE 0

\* Broken variant: the second ranking overwrites the share of the first.
LastScore(lexical, dense, id) ==
    IF id \in Ids(dense) THEN Share(dense, id) ELSE Share(lexical, id)

FusedScore(lexical, dense, id) == Share(lexical, id) + Share(dense, id)

\* sorted(..., reverse=True) keeps equal scores in the order of the dict, which
\* is the order of first appearance.
fuse_public_rrf(lexical, dense) ==
    LET unique1 == Deduplicated(lexical)
        unique2 == Deduplicated(dense)
        all == Deduplicated(lexical \o dense)
        score == [i \in DOMAIN all |-> FusedScore(unique1, unique2, all[i].id)]
        order == Sorted(DOMAIN all, Descending(DOMAIN all, score))
    IN  [n \in DOMAIN all |-> [all[order[n]] EXCEPT !.score = score[order[n]]]]

=============================================================================
