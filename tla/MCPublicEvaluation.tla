--------------------------- MODULE MCPublicEvaluation ---------------------------
(* Three chunks, a fourth that only the vector store knows, and providers and  *)
(* rerankers that do everything the code has a check for.                      *)
EXTENDS PublicEvaluation

CONSTANTS c1, c2, c3, c4, q1, q2, q3, secret

MCCorpus == <<c1, c2, c3>>

Entry(id, query, expected, refusal) ==
    [case_id |-> id, query |-> query, expected |-> expected, refusal |-> refusal]

\* Ordinary cases before and after a refusal; the same with a query that no
\* retriever refuses, which is for the registered loader only.
MixedSuite == << Entry(1, q1, <<c1>>, FALSE), Entry(2, secret, <<>>, TRUE),
                 Entry(3, q2, <<c2, c3>>, FALSE) >>
OpenSuite == << Entry(1, q1, <<c1>>, FALSE), Entry(2, q3, <<>>, TRUE) >>

\* Datasets with an error each.
BadSuites == { <<>>, << Entry(1, q1, <<c1, c1>>, FALSE), Entry(2, secret, <<>>, TRUE) >>,
               << Entry(1, q1, <<>>, FALSE) >>, << Entry(1, secret, <<c1>>, TRUE) >>,
               << Entry(1, q1, <<c1>>, FALSE), Entry(1, secret, <<>>, TRUE) >> }

MixedDatasets == {MixedSuite, OpenSuite} \cup BadSuites

Piece(id, body, score) == [id |-> id, body |-> body, score |-> score]
Text(ids) == [i \in DOMAIN ids |-> Piece(ids[i], "text", 10 - i)]

Usual == [scores |-> <<3, 2, 1>>, encodes |-> TRUE, answers |-> TRUE, dense |-> Text(<<c2, c4>>),
          reranker |-> "bge", relevance |-> <<1, 3, 2>>, picks |-> <<>>]

LexicalScores == {<<3, 2, 1>>, <<1, 2, 3>>, <<1, 3, 1>>, <<2, 2, 2>>}

\* Lists of distinct chunks, as Qdrant returns them.
DenseLists == { Text(<<>>), Text(<<c1>>), Text(<<c3, c2>>), Text(<<c2, c4>>), Text(<<c4, c3, c2>>) }

\* A chunk twice with two scores, or with two bodies; another body than BM25's;
\* a malformed chunk; one too many.
OddLists == { <<Piece(c2, "text", 9), Piece(c2, "text", 8), Piece(c3, "text", 7)>>,
              <<Piece(c4, "text", 9), Piece(c4, "other", 8)>>,
              <<Piece(c2, "other", 9)>>,
              <<Piece(c4, Malformed, 9)>>,
              Text(<<c4, c3, c2, c1>>) }

\* Scores for the three entries that are reranked, for fewer and for more.
Relevances == {<<1, 1, 1>>, <<1, 2, 3>>, <<1>>, <<>>, <<1, 3, 2, 4>>}

SomePicks == [at : 1 .. 3, how : {"kept", "body", "score", "replaced"}]
Kept(n) == [at |-> n, how |-> "kept"]
PickLists == {<<>>} \cup { <<p>> : p \in SomePicks } \cup { <<Kept(n), p>> : n \in 1 .. 2, p \in SomePicks }
             \cup { <<Kept(1), Kept(2), Kept(3), p>> : p \in SomePicks }
             \cup { <<Kept(3), Kept(1), Kept(2)>> }

Failing == { [Usual EXCEPT !.scores = <<>>], [Usual EXCEPT !.encodes = FALSE],
             [Usual EXCEPT !.answers = FALSE], [Usual EXCEPT !.reranker = "raises"] }

AnyWorld ==
    { [Usual EXCEPT !.scores = s, !.dense = d] : s \in LexicalScores, d \in DenseLists \cup OddLists }
    \cup { [Usual EXCEPT !.relevance = r] : r \in Relevances }
    \cup { [Usual EXCEPT !.dense = d, !.reranker = "injected", !.picks = p] :
           d \in {Text(<<c2, c4>>), Text(<<c3, c2>>)}, p \in PickLists }
    \cup Failing

SomeWorlds ==
    { [Usual EXCEPT !.scores = s, !.dense = d] :
      s \in {<<3, 2, 1>>, <<1, 2, 3>>}, d \in {Text(<<c3, c2>>), Text(<<c2, c4>>), Text(<<c4>>), <<>>} }
    \cup { [Usual EXCEPT !.relevance = r] : r \in Relevances }
    \cup { [Usual EXCEPT !.reranker = "injected", !.picks = p] : p \in {<<>>, <<Kept(3)>>} }
    \cup Failing
=============================================================================
