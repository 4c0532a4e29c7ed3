--------------------------- MODULE PublicHistory ----------------------------
(***************************************************************************)
(* The public CSV and its readers: the history tools behind the operations *)
(* graph, the agent tools and the MCP server, and the profile script.      *)
(* While they read, the host may fetch another version of the CSV and edit *)
(* the registry that lists its hash.  A version stands for its own bytes   *)
(* and for their SHA-256.                                                  *)
(***************************************************************************)
EXTENDS PublicQuality

CONSTANTS
    Corpus,     \* versions the CSV may hold at the start, all registered
    Drafts,     \* versions the host may put or register later
    Requests,   \* requests that arrive
    None        \* no CSV, no registered hash, no profile

Doors == {"graph", "tool", "mcp"}

Versions == Corpus \cup Drafts

ASSUME RequestsOK ==
    /\ \A r \in Requests : r.door \in Doors /\ r.query.end \in Int /\ r.query.hours \in Int
    /\ \A v \in Versions : v \in Seq(Observation)

VARIABLES
    csv,        \* the rows at PUBLIC_CSV_PATH
    registered, \* the rows whose hash the registry lists
    call,       \* one request to a history tool
    script,     \* the profile script
    derived     \* the profile file

vars == <<csv, registered, call, script, derived>>

Idle == [stage |-> "idle"]

-----------------------------------------------------------------------------
(* The boundaries of the tools *)

\* The same check in the graph's parser, the agent tools and the MCP server.
_is_valid_history_request(q) ==
    /\ q.indicator \in Indicators
    /\ q.hours \in 1 .. MAX_HOURS
    /\ q.canonical

Summary(kind, rows, q) ==
    IF ~Readable(rows)
    THEN Unavailable
    ELSE CASE kind = "window"  -> summarize_public_window(rows, q)
           [] kind = "anomaly" -> screen_public_anomaly(rows, q)

\* The boundary checks the record alone; a screen must also match its request.
Accepted(kind, q, s) ==
    IF kind = "window"
    THEN ValidAggregate(s)
    ELSE ValidAnomaly(s) /\ s.target_time = q.end /\ s.baseline_start = q.end - q.hours

\* What each door answers instead of a result.
InvalidCode == [graph |-> "refused", tool |-> "invalid_public_request",
                mcp |-> "invalid_request"]
FailedCode  == [graph |-> "refused", tool |-> "public_evidence_unavailable",
                mcp |-> "capability_unavailable"]
RejectedCode == [graph |-> "refused", tool |-> "public_evidence_unavailable",
                 mcp |-> "unsafe_public_result"]

\* The graph validates a result once more before it renders it.
Answer(c, s) ==
    IF s = Unavailable
    THEN [code |-> FailedCode[c.request.door], payload |-> Null]
    ELSE IF ~Accepted(c.request.kind, c.request.query, s)
    THEN [code |-> RejectedCode[c.request.door], payload |-> Null]
    ELSE [code |-> "ok", payload |-> s]

-----------------------------------------------------------------------------
(* A call of a history tool *)

Fail == call' = [call EXCEPT !.stage = "done",
                             !.answer = [@ EXCEPT !.code = FailedCode[call.request.door]]]

Request(r) ==
    /\ call.stage = "idle"
    /\ call' = [request |-> r, expected |-> None, bytes |-> None,
                stage   |-> IF _is_valid_history_request(r.query) THEN "locate" ELSE "done",
                answer  |-> [code |-> InvalidCode[r.door], payload |-> Null]]
    /\ UNCHANGED <<csv, registered, script, derived>>

\* _validated_public_csv_path
Locate ==
    /\ call.stage = "locate"
    /\ IF csv = None THEN Fail ELSE call' = [call EXCEPT !.stage = "hash"]
    /\ UNCHANGED <<csv, registered, script, derived>>

_load_registered_csv_sha256 ==
    /\ call.stage = "hash"
    /\ IF registered = None
       THEN Fail
       ELSE call' = [call EXCEPT !.stage = "read", !.expected = registered]
    /\ UNCHANGED <<csv, registered, script, derived>>

\* The bytes are read once, and hashed; they may be newer than the path check.
_read_verified_csv_bytes ==
    /\ call.stage = "read"
    /\ IF csv # call.expected
       THEN Fail
       ELSE call' = [call EXCEPT !.stage = "parse", !.bytes = csv]
    /\ UNCHANGED <<csv, registered, script, derived>>

\* Broken variant: the file is opened again to parse it.
ParseAgain ==
    /\ call.stage = "parse"
    /\ call' = [call EXCEPT !.stage = "done",
                  !.answer = Answer(call, IF csv = None THEN Unavailable
                     ELSE Summary(call.request.kind, csv, call.request.query))]
    /\ UNCHANGED <<csv, registered, script, derived>>

\* The bytes are parsed, summarised and checked at the boundary.
Parse ==
    /\ call.stage = "parse"
    /\ call' = [call EXCEPT !.stage = "done",
                  !.answer = Answer(call, Summary(call.request.kind, call.bytes,
                                                  call.request.query))]
    /\ UNCHANGED <<csv, registered, script, derived>>

-----------------------------------------------------------------------------
(* The profile script *)

\* Run for the first time, or again after a run that ended in any way.
profile_public_source ==
    /\ script.stage \in {"idle", "failed", "refused", "written"}
    /\ csv # None
    /\ LET p == profile_wwtp_langmatt_csv(csv)
       IN script' = IF p = Unavailable THEN [stage |-> "failed"]
                    ELSE [stage |-> "profiled", profile |-> p]
    /\ UNCHANGED <<csv, registered, call, derived>>

\* write_profile refuses a profile outside its schema before it opens a file.
write_profile ==
    /\ script.stage = "profiled"
    /\ script' = IF _validate_profile_schema(script.profile)
                 THEN [stage |-> "temporary", profile |-> script.profile]
                 ELSE [stage |-> "refused"]
    /\ UNCHANGED <<csv, registered, call, derived>>

\* Broken variant: the output is opened in place, and a crash leaves a part.
WriteInPlace ==
    /\ script.stage = "temporary"
    /\ derived' \in {[row_count |-> script.profile.row_count], script.profile}
    /\ script' = [stage |-> "written"]
    /\ UNCHANGED <<csv, registered, call>>

\* _write_profile_atomically: the temporary file replaces the output when it is
\* complete; an error or a crash before that leaves the output as it was.
WriteAtomically ==
    /\ script.stage = "temporary"
    /\ \/ derived' = script.profile /\ script' = [stage |-> "written"]
       \/ UNCHANGED derived /\ script' = [stage |-> "failed"]
    /\ UNCHANGED <<csv, registered, call>>

-----------------------------------------------------------------------------
(* The host *)

Replace(version) ==
    /\ csv' = version
    /\ UNCHANGED <<registered, call, script, derived>>

Register(version) ==
    /\ registered' = version
    /\ UNCHANGED <<csv, call, script, derived>>

Init ==
    /\ csv \in Corpus
    /\ registered = csv
    /\ call = Idle
    /\ script = Idle
    /\ derived = None

Next ==
    \/ \E r \in Requests : Request(r)
    \/ Locate \/ _load_registered_csv_sha256 \/ _read_verified_csv_bytes \/ Parse
    \/ profile_public_source \/ write_profile \/ WriteAtomically
    \/ \E v \in Drafts \cup {None} : Replace(v) \/ Register(v)

Spec == Init /\ [][Next]_vars

-----------------------------------------------------------------------------
(* Properties *)

Answered(kind) ==
    /\ call.stage = "done"
    /\ call.answer.code = "ok"
    /\ call.request.kind = kind

\* Whatever the host does to the file and the registry between the steps of a
\* call, an accepted answer describes exactly the version whose hash the
\* registry listed when the call asked for it.
AnswersAreRegistered ==
    \A kind \in {"window", "anomaly"} :
        Answered(kind) =>
            call.answer.payload = Summary(kind, call.expected, call.request.query)

\* The aggregate of the window of an indicator that ends after so many hours.
Aggregate(rows, i, hours, end) ==
    summarize_public_window(rows, [indicator |-> i, hours |-> hours, end |-> end])

\* Half-open windows tile the history: the aggregate of a window is the merge
\* of the aggregates of any two windows it is cut into.
WindowsCompose ==
    Answered("window") =>
        LET q == call.request.query
            whole == call.answer.payload
        IN \A h \in 1 .. q.hours - 1 :
              LET early == Aggregate(call.bytes, q.indicator, q.hours - h, q.end - h)
                  late == Aggregate(call.bytes, q.indicator, h, q.end)
                  parts == {early, late} \ {Unavailable}
                  numbers(field) == { p[field] : p \in parts } \ {Null}
              IN Unavailable \notin {early, late} =>
                    /\ whole.row_count = early.row_count + late.row_count
                    /\ whole.null_count = early.null_count + late.null_count
                    /\ numbers("minimum") # {} =>
                          /\ whole.minimum = Min(numbers("minimum"))
                          /\ whole.maximum = Max(numbers("maximum"))

Minus(x) == IF x = Null THEN Null ELSE -x

Mirrored(rows) ==
    [n \in DOMAIN rows |->
        [rows[n] EXCEPT !.values = [i \in Indicators |-> Minus(rows[n].values[i])]]]

WithTarget(rows, q, v) ==
    [n \in DOMAIN rows |->
        IF rows[n].timestamp = q.end
        THEN [rows[n] EXCEPT !.values[q.indicator] = v] ELSE rows[n]]

Swapped(rows, m, n) == [rows EXCEPT ![m] = rows[n], ![n] = rows[m]]

Opposite == [above_baseline |-> "below_baseline", below_baseline |-> "above_baseline",
             unavailable |-> "unavailable"]

Flipped(s) == [s EXCEPT !.baseline_median = Minus(@), !.robust_score = Minus(@),
                        !.direction = Opposite[@]]

Between(v, a, b) == (a <= v /\ v <= b) \/ (b <= v /\ v <= a)

\* The quartiles of f are readings: none is interpolated, and rounded.
QuartilesAreReadings(f) == \A k \in {1, 3} : Lower(f, k) = Upper(f, k)

\* A screen depends on nothing but its window: any two rows may change places,
\* and any row before or after the window may go.
WindowDecides(rows, q, s) ==
    /\ \A m, n \in DOMAIN rows :
          m < n => screen_public_anomaly(Swapped(rows, m, n), q) = s
    /\ \A n \in DOMAIN rows : rows[n].timestamp \notin q.end - q.hours .. q.end =>
          screen_public_anomaly(RemoveAt(rows, n), q) = s

\* Mirrored values give the mirrored screen; a scale of interpolated quartiles
\* is excepted, for they round towards one side.
MirrorsVerdict(rows, q, s) ==
    (s.method \in {"rolling_median_iqr_fallback", "insufficient_variability"}
        => QuartilesAreReadings(History(rows, q)))
    => screen_public_anomaly(Mirrored(rows), q) = Flipped(s)

\* The target moves neither the centre nor the scale of its own baseline; the
\* score follows it; and further out than an anomaly is an anomaly, unless the
\* score overflows, which it does not nearer to the centre.
FollowsTarget(rows, q, s, v) ==
    LET target == Target(rows, q)
        follows(moved) ==
            \/ moved = Unavailable /\ ~Between(v, s.baseline_median, target)
            \/ /\ moved.baseline_median = s.baseline_median
               /\ moved.baseline_scale = s.baseline_scale
               /\ v <= target => moved.robust_score <= s.robust_score
               /\ target <= v => s.robust_score <= moved.robust_score
               /\ s.outcome = "anomaly" /\ Between(target, s.baseline_median, v)
                     => moved.outcome = "anomaly" /\ moved.direction = s.direction
    IN  follows(screen_public_anomaly(WithTarget(rows, q, v), q))

\* An answered screen agrees with the screens of the rows in another order, of
\* fewer or mirrored rows, and of another target, for any reading of the file
\* in its place, although each operation rounds and may overflow.
ScreeningIsCoherent ==
    Answered("anomaly") =>
        LET q == call.request.query
            rows == call.bytes
            s == call.answer.payload
        IN /\ WindowDecides(rows, q, s)
           /\ MirrorsVerdict(rows, q, s)
           /\ s.outcome \in {"anomaly", "normal"} =>
                 \A v \in Readings(rows, DOMAIN rows, q.indicator) : FollowsTarget(rows, q, s, v)

\* No result is refused by the boundary of the code that computed it: verified
\* rows that can be summarised are answered.
ResultAccepted(kind) ==
    call.stage = "done" /\ call.bytes # None /\ call.request.kind = kind =>
        \/ call.answer.code = "ok"
        \/ Summary(kind, call.bytes, call.request.query) = Unavailable

\* Every screen that is computed passes the boundary: a statistic that overflows
\* is no screen, and rounding breaks none of the rules that the boundary has for
\* methods, directions, scales and scores.
OwnScreensAccepted == ResultAccepted("anomaly")

\* Every profile the module computes has the shape that write_profile accepts.
ProfileAccepted == script.stage # "refused"

\* What a window over the whole of a file says of an indicator.
WholeWindow(v, i) == Aggregate(v, i, derived.end - derived.start + 1, derived.end)

\* The derived file is missing or the complete profile of one version, of as many
\* rows, and its counts and limits are those of a window over the whole file,
\* although the two modules parse and count in their own ways.
ProfileAgrees ==
    derived # None =>
        \E v \in Versions :
            /\ derived.row_count = Len(v)
            /\ derived = profile_wwtp_langmatt_csv(v)
            /\ Readable(v) =>
                  \A i \in Indicators :
                      LET p == derived.numeric_columns[i]
                          s == WholeWindow(v, i)
                      IN s # Unavailable =>
                            /\ s.row_count = derived.row_count
                            /\ s.null_count = p.null_count
                            /\ s.minimum = p.minimum
                            /\ s.maximum = p.maximum

\* The readings of each column are multiples of a power of two, and so small
\* that a sum of as many as the file has rows needs no more bits of that unit
\* than a float has.
ExactSums(v) ==
    \A i \in Indicators :
        \E k \in 0 .. MAX_EXPONENT :
            \A n \in DOMAIN v : v[n].values[i] \in Int =>
                /\ v[n].values[i] % Power[k] = 0
                /\ Len(v) * Abs(v[n].values[i]) < Power[k + PRECISION]

\* No window and no profile of a file whose sums are exact is refused for its
\* mean, and the means of the file and of its profile agree, although the
\* modules add in their own ways.
MeansFit ==
    /\ call.stage = "done" /\ call.bytes # None =>
          (ExactSums(call.bytes) => ResultAccepted("window"))
    /\ csv # None /\ ExactSums(csv) =>
          /\ script.stage = "profiled" /\ script.profile = profile_wwtp_langmatt_csv(csv) =>
                _validate_profile_schema(script.profile)
          /\ derived # None /\ derived = profile_wwtp_langmatt_csv(csv) /\ Readable(csv) =>
                \A i \in Indicators : WholeWindow(csv, i) # Unavailable =>
                    WholeWindow(csv, i).mean = derived.numeric_columns[i].mean
=============================================================================
