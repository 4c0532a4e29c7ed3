--------------------------- MODULE PublicRetrieval ---------------------------
(***************************************************************************)
(* Retrieval of public evidence (rag/hybrid.py, rag/local_models.py,       *)
(* rag/demo_runtime.py): BM25 over a fixed corpus, dense search of a       *)
(* vector that an encoder computes or has cached, fusion, and a reranker   *)
(* that is not trusted.                                                    *)
(*                                                                         *)
(* What the providers do in one call is a record w:                        *)
(*   scores    BM25's scores, one for a chunk of the corpus, or not        *)
(*   encodes   whether the model returns a vector                          *)
(*   answers   whether the vector store answers, and dense what with       *)
(*   reranker  "bge" (relevance holds its scores), "injected" (an object   *)
(*             that returns picks: entries of its input or changed copies) *)
(*             or "raises"                                                 *)
(***************************************************************************)
EXTENDS Fusion

CONSTANTS Corpus,           \* ids of the chunks BM25 was built from, in order
          Queries, PrivateQueries,
          MAX_QUERY_CACHE,
          CANDIDATE_LIMIT,  \* of the hybrid variants: 24
          RERANK_LIMIT,     \* of the hybrid variants: 8
          SINGLE_LIMIT      \* of the single-provider variants: 40

ASSUME RetrievalOK == /\ Corpus \in Seq(ChunkIds) /\ Corpus # <<>> /\ IsInjective(Corpus)
                      /\ PrivateQueries \subseteq Queries
                      /\ MAX_QUERY_CACHE \in Nat \ {0}
                      /\ {CANDIDATE_LIMIT, SINGLE_LIMIT} \subseteq Nat \ {0}
                      /\ RERANK_LIMIT \in 1 .. CANDIDATE_LIMIT

Pick == [at : Nat \ {0}, how : {"kept", "body", "score", "replaced"}]

World == [scores : Seq(Int), encodes : BOOLEAN, answers : BOOLEAN, dense : Seq(Chunk),
          reranker : {"bge", "injected", "raises"}, relevance : Seq(Int), picks : Seq(Pick)]

PUBLIC_DEMO_VARIANT_NAMES == {"bm25", "dense", "hybrid_rrf", "hybrid_rerank"}

Result(status, evidence, fused) == [status |-> status, evidence |-> evidence, fused |-> fused]
Failed  == Result("failed", <<>>, <<>>)
Refused == Result("refused", <<>>, <<>>)

is_public_demo_query_allowed(query) == query \notin PrivateQueries

-----------------------------------------------------------------------------
(* The query cache of LazyBgeM3Encoder, oldest first *)

\* Broken variant: a hit leaves the query where it is.
RememberUnmoved(cache, query) ==
    IF Contains(cache, query) THEN cache
    ELSE IF Len(cache) < MAX_QUERY_CACHE THEN Append(cache, query)
         ELSE Append(Tail(cache), query)

\* A list of distinct queries without one of them.
Without(list, query) ==
    LET at == CHOOSE i \in DOMAIN list : list[i] = query
    IN  IF Contains(list, query) THEN RemoveAt(list, at) ELSE list

Remember(cache, query) ==
    IF Contains(cache, query) THEN Append(Without(cache, query), query)
    ELSE IF Len(cache) < MAX_QUERY_CACHE THEN Append(cache, query)
         ELSE Append(Tail(cache), query)

\* A cached query is answered without the model.
encode_query(cache, query, w) == Contains(cache, query) \/ w.encodes

-----------------------------------------------------------------------------
(* The providers *)

LexicalFails(w) == Len(w.scores) # Len(Corpus)

LexicalSearch(w, limit) ==
    LET order == Sorted(DOMAIN Corpus, Descending(DOMAIN Corpus, w.scores))
        ranked == [n \in DOMAIN Corpus |->
                      [id |-> Corpus[order[n]], body |-> "text", score |-> w.scores[order[n]]]]
    IN  First(ranked, limit)

\* HybridPublicRetriever._search, after the call of the provider.
Acceptable(list) == Len(list) <= CANDIDATE_LIMIT /\ WellFormed(list) /\ ~Conflicting(list)

\* LazyBgeReranker takes no empty input and needs one score for every entry.
RerankFails(w, input) ==
    \/ w.reranker = "raises"
    \/ w.reranker = "bge" /\ (input = <<>> \/ Len(w.relevance) # Len(input))
    \/ w.reranker = "injected" /\ \E n \in DOMAIN w.picks : w.picks[n].at > Len(input)

Changed(chunk, how) ==
    CASE how = "kept"     -> chunk
      [] how = "body"     -> [chunk EXCEPT !.body = "other"]
      [] how = "score"    -> [chunk EXCEPT !.score = @ + 1]
      [] how = "replaced" -> [chunk EXCEPT !.id = Corpus[Len(Corpus)]]

Reranked(w, input) ==
    IF w.reranker = "injected"
    THEN [n \in DOMAIN w.picks |-> Changed(input[w.picks[n].at], w.picks[n].how)]
    ELSE LET order == Sorted(DOMAIN input, Descending(DOMAIN input, w.relevance))
         IN  [n \in DOMAIN input |-> input[order[n]]]

\* Broken variant of _validate_reranked: an entry may come twice.
SnapshotRepeats(reranked, input) ==
    /\ Len(reranked) <= RERANK_LIMIT
    /\ \A n \in DOMAIN reranked : Contains(input, reranked[n])

MatchesSnapshot(reranked, input) ==
    /\ Len(reranked) <= RERANK_LIMIT
    /\ \A n \in DOMAIN reranked : Contains(input, reranked[n])
    /\ Cardinality(Ids(reranked)) = Len(reranked)

\* The evidence is made of copies taken before the reranker saw the candidates.
Evidence(reranked, input) ==
    [n \in DOMAIN reranked |-> input[Rank(input, reranked[n].id)]]

-----------------------------------------------------------------------------
(* The variants of the demo runtime *)

retrieve_hybrid(variant, w, limit) ==
    LET lexical  == LexicalSearch(w, CANDIDATE_LIMIT)
        fused    == fuse_public_rrf(lexical, w.dense)
        input    == First(fused, RERANK_LIMIT)
        identity == variant = "hybrid_rrf"
        reranked == IF identity THEN input ELSE Reranked(w, input)
    IN  IF \/ ~Acceptable(lexical) \/ ~w.answers \/ ~Acceptable(w.dense)
           \/ Conflicting(Deduplicated(lexical) \o Deduplicated(w.dense))
        THEN Failed
        ELSE IF ~identity /\ RerankFails(w, input) THEN Failed
        ELSE IF ~MatchesSnapshot(reranked, input) THEN Failed
        ELSE Result("answered", Evidence(First(reranked, limit), input), IdsInOrder(fused))

retrieve_single(list, limit) ==
    Result("answered", First(list, limit), IdsInOrder(list))

NeedsVector(variant, w) == variant = "dense" \/ (variant # "bm25" /\ ~LexicalFails(w))

\* _SafePublicRetriever.retrieve: what a caller gets, and the cache it leaves.
retrieve(variant, cache, query, w, limit) ==
    IF ~is_public_demo_query_allowed(query) THEN Refused
    ELSE IF variant # "dense" /\ LexicalFails(w) THEN Failed
    ELSE IF NeedsVector(variant, w) /\ ~encode_query(cache, query, w) THEN Failed
    ELSE CASE variant = "bm25"  -> retrieve_single(LexicalSearch(w, SINGLE_LIMIT), limit)
           [] variant = "dense" -> IF w.answers /\ WellFormed(w.dense)
                                   THEN retrieve_single(w.dense, limit) ELSE Failed
           [] OTHER             -> retrieve_hybrid(variant, w, limit)

Encodes(variant, cache, query, w) ==
    /\ is_public_demo_query_allowed(query)
    /\ NeedsVector(variant, w)
    /\ encode_query(cache, query, w)

CacheAfter(variant, cache, query, w) ==
    IF Encodes(variant, cache, query, w) THEN Remember(cache, query) ELSE cache

=============================================================================
