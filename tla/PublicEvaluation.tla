--------------------------- MODULE PublicEvaluation ---------------------------
(***************************************************************************)
(* The clients of public retrieval: the MCP server                         *)
(* (mcp/public_server.py), which serves any query at any time, and the two *)
(* evaluators, which run a suite of cases against one variant and count    *)
(* (rag/evaluation.py, "registered"; rag/demo_evaluation.py, "demo").      *)
(*                                                                         *)
(* The encoder's cache is the only state that calls share, and it changes  *)
(* under a lock, so a call is one step.  A clock may fail at the start or  *)
(* at the end of a call, or run backwards.                                 *)
(***************************************************************************)
EXTENDS PublicRetrieval

CONSTANTS Worlds,         \* what the providers may do in a call of the MCP server
          CaseWorlds,     \* and in a case of an evaluation
          CaseIds,
          Datasets,       \* what the file of an evaluation may hold
          MIN_ORDINARY, MIN_REFUSAL,  \* cases the demo dataset must have: 50 and 5
          MAX_CASES,      \* and the most it may have: 200
          TOP,            \* the evaluators' k: 5
          ANSWER_LIMIT,   \* the most a client may ask for: 6
          PERCENT,        \* of the latency percentile: 95
          Durations,
          None

Case == [case_id : CaseIds, query : Queries, expected : Seq(ChunkIds), refusal : BOOLEAN]

ASSUME EvaluationOK ==
    /\ TOP \in 1 .. ANSWER_LIMIT /\ ANSWER_LIMIT \in 1 .. 6
    /\ PERCENT \in 1 .. 100
    /\ {MIN_ORDINARY, MIN_REFUSAL} \subseteq Nat \ {0} /\ MAX_CASES \in Nat
    /\ Durations \subseteq Nat /\ None \notin Nat
    /\ \A w \in Worlds \cup CaseWorlds : w \in World
    /\ Datasets \subseteq Seq(Case)
    \* In a case of an evaluation the store returns distinct points, and a point
    \* is named after its chunk.
    /\ \A w \in CaseWorlds : IsInjective(IdsInOrder(w.dense))

VARIABLES client,   \* who calls: "mcp", "registered" or "demo"
          variant,
          cache,    \* the encoder's cached queries, oldest first
          recent,   \* history: every encoded query, by its last use
          call,     \* the call the MCP server has just answered
          suite,    \* the cases the evaluator has loaded
          trail,    \* history: what the evaluator was given, case by case
          report,   \* the evaluator's counters
          second    \* history: the counters of the other evaluator, shown the same

vars == <<client, variant, cache, recent, call, suite, trail, report, second>>

Zero == [answered |-> 0, technical |-> 0, correct |-> 0, hits |-> 0,
         reciprocal |-> 0, latencies |-> <<>>]

\* The readings of the clock around a call.
Readings == [clock : {"works"}, elapsed : Durations]
            \cup [clock : {"no_start", "no_end", "backwards"}, elapsed : {0}]

-----------------------------------------------------------------------------
(* The datasets the loaders accept *)

Cases(s, refusal) == { i \in DOMAIN s : s[i].refusal = refusal }

\* EvaluationCase.__post_init__; the same rules are in _parse_case.
ValidCase(c) == IsInjective(c.expected) /\ (c.refusal <=> c.expected = <<>>)

_parse_registered_dataset(s) ==
    /\ s # <<>>
    /\ \A i \in DOMAIN s : ValidCase(s[i])
    /\ Cardinality({ s[i].case_id : i \in DOMAIN s }) = Len(s)

\* The demo dataset is tied to its corpus and to the refusal of private queries.
_parse_case(c) ==
    /\ ValidCase(c)
    /\ ToSet(c.expected) \subseteq ToSet(Corpus)
    /\ c.refusal <=> ~is_public_demo_query_allowed(c.query)

_parse_dataset(s) ==
    /\ Len(s) <= MAX_CASES
    /\ \A i \in DOMAIN s : _parse_case(s[i])
    /\ Cardinality({ s[i].case_id : i \in DOMAIN s }) = Len(s)
    /\ Cardinality({ s[i].query : i \in DOMAIN s }) = Len(s)
    /\ Cardinality(Cases(s, FALSE)) >= MIN_ORDINARY
    /\ Cardinality(Cases(s, TRUE)) >= MIN_REFUSAL

-----------------------------------------------------------------------------
(* One case, counted by either evaluator *)

\* Broken variant: the latency of a call is kept although its clock failed.
TimedAlways(r, e) == [r EXCEPT !.latencies = Append(@, e.elapsed)]

Timed(r, e) ==
    IF e.clock = "works" THEN [r EXCEPT !.latencies = Append(@, e.elapsed)] ELSE r

_controlled_non_answer(r, c) ==
    IF c.refusal THEN [r EXCEPT !.correct = @ + 1] ELSE [r EXCEPT !.technical = @ + 1]

HitRanks(c, ids) == { n \in DOMAIN ids : Contains(c.expected, ids[n]) }

\* 1 / rank is counted in sixtieths, as ranks are at most six.
Credit(r, ranks) ==
    IF ranks = {} THEN r
    ELSE [r EXCEPT !.hits = @ + 1, !.reciprocal = @ + 60 \div Min(ranks)]

\* _evaluate_response: the reasons to take a response for no answer.
Unusable(x) ==
    \/ x.status # "answered"
    \/ ~IsInjective(x.fused)
    \/ x.evidence = <<>>
    \/ ~IsInjective(x.evidence)
    \/ ~(ToSet(x.evidence) \subseteq ToSet(x.fused))

evaluate_retriever(r, c, e) ==
    IF e.clock # "works" THEN _controlled_non_answer(r, c)
    ELSE IF Unusable(e.response) THEN _controlled_non_answer(Timed(r, e), c)
    ELSE IF c.refusal THEN Timed(r, e)                    \* unsafe_answer
    ELSE Credit([Timed(r, e) EXCEPT !.answered = @ + 1], HitRanks(c, First(e.response.evidence, TOP)))

\* Broken variant: the evidence is not cut at k.
AllResultIds(x) == x.evidence

\* Only the first k entries of the evidence are looked at.
_validated_result_ids(x) == First(x.evidence, TOP)

InvalidIds(x) ==
    LET ids == _validated_result_ids(x)
    IN  ids = <<>> \/ ~IsInjective(ids) \/ ~(ToSet(ids) \subseteq ToSet(x.fused))

_evaluate_variant(r, c, e) ==
    LET x == e.response IN
    IF x.status = "refused" THEN _controlled_non_answer(Timed(r, e), c)
    ELSE IF c.refusal THEN Timed(r, e)
    ELSE IF x.status = "failed" \/ InvalidIds(x) THEN _controlled_non_answer(Timed(r, e), c)
    ELSE Credit(Timed(r, e), HitRanks(c, _validated_result_ids(x)))

Judge(who, r, c, e) ==
    IF who = "registered" THEN evaluate_retriever(r, c, e) ELSE _evaluate_variant(r, c, e)

Other(who) == IF who = "registered" THEN "demo" ELSE "registered"

Percentile(latencies) ==
    LET at == DOMAIN latencies
        order == Sorted(at, Descending(at, [k \in at |-> -latencies[k]]))
        rank == (PERCENT * Len(latencies) + 99) \div 100
    IN  IF latencies = <<>> THEN None ELSE latencies[order[rank]]

-----------------------------------------------------------------------------
Init == /\ client \in {"mcp", "registered", "demo"}
        /\ variant \in IF client = "mcp" THEN {"hybrid_rerank"} ELSE PUBLIC_DEMO_VARIANT_NAMES
        /\ cache = <<>> /\ recent = <<>>
        /\ call = None /\ suite = <<>> /\ trail = <<>> /\ report = Zero /\ second = Zero

\* What a call of retrieve leaves behind.
Encode(query, w) ==
    /\ cache' = CacheAfter(variant, cache, query, w)
    /\ recent' = IF Encodes(variant, cache, query, w)
                 THEN Append(Without(recent, query), query) ELSE recent

\* PublicMcpHandlers.retrieve_public_water_knowledge.
Shown(response, limit) ==
    IF response.status # "answered" THEN "public_capability_unavailable"
    ELSE IF Cardinality(Ids(response.evidence)) # Len(response.evidence)
            \/ Len(response.evidence) > limit
         THEN "unsafe_public_result"
    ELSE "ok"

Serve(query, w, limit) ==
    /\ client = "mcp" /\ call = None
    /\ LET response == retrieve(variant, cache, query, w, limit)
       IN  call' = [query |-> query, w |-> w, limit |-> limit, response |-> response,
                    code |-> Shown(response, limit)]
    /\ Encode(query, w)
    /\ UNCHANGED <<client, variant, suite, trail, report, second>>

Return ==
    /\ call # None
    /\ call' = None
    /\ UNCHANGED <<client, variant, cache, recent, suite, trail, report, second>>

\* A dataset that is refused changes nothing.
Load(s) ==
    /\ client # "mcp" /\ suite = <<>>
    /\ IF client = "demo" THEN _parse_dataset(s) ELSE _parse_registered_dataset(s)
    /\ suite' = s
    /\ UNCHANGED <<client, variant, cache, recent, call, trail, report, second>>

Seen(response) == [status |-> response.status, evidence |-> IdsInOrder(response.evidence),
                   fused |-> response.fused]

\* Without a first reading of the clock the registered evaluator does not call.
Evaluate(w, reading) ==
    LET c == suite[Len(trail) + 1]
        called == client = "demo" \/ reading.clock # "no_start"
        response == IF called THEN retrieve(variant, cache, c.query, w, ANSWER_LIMIT) ELSE Failed
        e == [response |-> Seen(response), clock |-> reading.clock,
              elapsed |-> reading.elapsed]
    IN  /\ Len(trail) < Len(suite)
        /\ trail' = Append(trail, e)
        /\ report' = Judge(client, report, c, e)
        /\ second' = Judge(Other(client), second, c, e)
        /\ IF called THEN Encode(c.query, w) ELSE UNCHANGED <<cache, recent>>
        /\ UNCHANGED <<client, variant, call, suite>>

Next == \/ \E query \in Queries, w \in Worlds, limit \in 1 .. ANSWER_LIMIT : Serve(query, w, limit)
        \/ Return
        \/ \E s \in Datasets : Load(s)
        \/ \E w \in CaseWorlds, reading \in Readings : Evaluate(w, reading)

Spec == Init /\ [][Next]_vars

-----------------------------------------------------------------------------
(* Properties *)

\* The encoder remembers the queries used last, and no others: a query among
\* the last MAX_QUERY_CACHE that were encoded, on whatever path and with
\* whatever failures after it, never needs the model again.
CacheIsRecent ==
    cache = SubSeq(recent, Len(recent) - Min({Len(recent), MAX_QUERY_CACHE}) + 1, Len(recent))

\* Whatever the reranker does, an answer passes the server's own check, and
\* what it shows was returned by a provider in this very call, is among the best
\* RERANK_LIMIT of the fusion, unchanged and shown once; a private query is
\* shown nothing.
EvidenceIsRetrieved ==
    (call # None /\ call.response.status = "answered") =>
        LET shown == call.response.evidence
            found == ToSet(LexicalSearch(call.w, CANDIDATE_LIMIT)) \cup ToSet(call.w.dense)
        IN  /\ call.code = "ok" /\ call.query \notin PrivateQueries
            /\ Len(shown) <= call.limit
            /\ \A n \in DOMAIN shown :
                  /\ \E chunk \in found : shown[n].id = chunk.id /\ shown[n].body = chunk.body
                  /\ \E rank \in 1 .. RERANK_LIMIT : rank <= Len(call.response.fused)
                                                 /\ call.response.fused[rank] = shown[n].id
                  /\ \A k \in DOMAIN shown : k # n => shown[k].id # shown[n].id

\* Fusion loses nothing, and never puts a chunk behind another one that
\* neither provider prefers to it.
FusionIsFair ==
    (call # None /\ call.response.status = "answered") =>
        LET fused == call.response.fused
            lexical == LexicalSearch(call.w, CANDIDATE_LIMIT)
            dense == call.w.dense
            noWorse(list, a, b) ==
                b \in Ids(list) => a \in Ids(list) /\ Rank(list, a) < Rank(list, b)
        IN  /\ ToSet(fused) = Ids(lexical) \cup Ids(dense)
            /\ IsInjective(fused)
            /\ \A i, j \in DOMAIN fused :
                  (noWorse(lexical, fused[i], fused[j]) /\ noWorse(dense, fused[i], fused[j])) => i <= j

-----------------------------------------------------------------------------
Ordinary == DOMAIN trail \cap Cases(suite, FALSE)
Refusals == DOMAIN trail \cap Cases(suite, TRUE)
Measured == { i \in DOMAIN trail : trail[i].clock = "works" }

\* The report adds up to the cases: no share is divided by zero, every ordinary case is an answer or a
\* technical refusal, a hit is worth between 1/k and 1, and the percentile is
\* the nearest rank of exactly the calls whose clock worked.
ReportAddsUp ==
    LET atMost(x) == Cardinality({ i \in Measured : trail[i].elapsed <= x })
        below(x) == Cardinality({ i \in Measured : trail[i].elapsed < x })
        p95 == Percentile(report.latencies)
    IN  /\ (client = "demo" /\ suite # <<>> /\ Len(trail) = Len(suite)) =>
              Ordinary # {} /\ Refusals # {}
        /\ client = "registered" => report.answered + report.technical = Cardinality(Ordinary)
        /\ report.hits + report.technical <= Cardinality(Ordinary)
        /\ report.correct <= Cardinality(Refusals)
        /\ report.hits * (60 \div TOP) <= report.reciprocal /\ report.reciprocal <= report.hits * 60
        /\ (p95 = None) <=> (Measured = {})
        /\ p95 # None =>
              /\ \E i \in Measured : trail[i].elapsed = p95
              /\ 100 * atMost(p95) >= PERCENT * Cardinality(Measured)
              /\ 100 * below(p95) < PERCENT * Cardinality(Measured)

\* Both evaluators, shown the same results of a suite both loaders accept and
\* with a clock that works, report the same hits, ranks, technical refusals and correct refusals.
EvaluatorsAgree ==
    LET figures(r) == <<r.hits, r.reciprocal, r.technical, r.correct>>
    IN  (Measured = DOMAIN trail /\ _parse_dataset(suite)) => figures(second) = figures(report)

\* A refusal case that was answered with usable evidence is never counted as a
\* correct refusal ("any structurally valid public evidence makes the case an
\* unsafe_answer", docs/public-rag-evaluation.md:43).
UnsafeAnswersAreSeen ==
    client = "registered" =>
        report.correct <= Cardinality({ i \in Refusals : Unusable(trail[i].response) })

=============================================================================
