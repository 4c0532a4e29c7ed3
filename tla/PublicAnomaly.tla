--------------------------- MODULE PublicAnomaly ----------------------------
(***************************************************************************)
(* Screening of one target against the window before it                    *)
(* (data/public_anomaly.py) and the boundary that checks the screen        *)
(* (PublicHistoricalAnomaly in agent/tools.py).  Every operation on floats *)
(* rounds, and a statistic that overflows refuses the screen.              *)
(***************************************************************************)
EXTENDS PublicWindow

CONSTANTS
    MIN_HISTORY_POINTS,     \* DEFAULT_MIN_HISTORY_POINTS, and the boundary's copy
    UNIT                    \* the float 1.0, in units of the least float

ASSUME HistoryOK ==
    /\ MIN_HISTORY_POINTS \in Nat \ {0}
    /\ UNIT \in { Power[k] : k \in 0 .. MAX_EXPONENT }

\* 1.4826, 1.349 and 3.5
MAD_NORMALIZATION == Rounded(14826 * UNIT, 10000)
IQR_NORMALIZATION == Rounded(1349 * UNIT, 1000)
ROBUST_SCORE_THRESHOLD == Rounded(7 * UNIT, 2)

-----------------------------------------------------------------------------
(* Statistics *)

\* What is not finite, an infinity or no number at all.
Overflow == MAX_FLOAT + 1

\* Broken variant: the k-th as they come.
Coming(f, k) ==
    f[CHOOSE n \in DOMAIN f : Cardinality({ m \in DOMAIN f : m < n }) = k - 1]

\* sorted(f)[k - 1]: the k-th smallest of the readings of f, a function on the
\* positions of rows.
Smallest(f, k) ==
    CHOOSE v \in { f[n] : n \in DOMAIN f } :
        /\ Cardinality({ n \in DOMAIN f : f[n] < v }) < k
        /\ k <= Cardinality({ n \in DOMAIN f : f[n] <= v })

Half(sum) == IF Finite(sum) THEN Rounded(sum, 2) ELSE Overflow

\* statistics.median: of an even number, half the sum of the middle ones.
Median(f) ==
    LET count == Cardinality(DOMAIN f)
        middle == Smallest(f, count \div 2 + 1)
    IN  IF count % 2 = 1 THEN middle
        ELSE Half(Rounded(Smallest(f, count \div 2) + middle, 1))

\* The readings on both sides of the k-th quartile.
Position(f, k) == (Cardinality(DOMAIN f) - 1) * k
Lower(f, k) == Smallest(f, Position(f, k) \div 4 + 1)
Upper(f, k) == Smallest(f, (Position(f, k) + 3) \div 4 + 1)

\* So many quarters of a span above the lower one.
Interpolated(lower, span, quarters) ==
    IF Finite(span) THEN Rounded(lower + Rounded(span * quarters, 4), 1) ELSE Overflow

\* The k-th quartile.
_linear_percentile(f, k) ==
    Interpolated(Lower(f, k), Rounded(Upper(f, k) - Lower(f, k), 1), Position(f, k) % 4)

Deviations(f, median) == [n \in DOMAIN f |-> Abs(Rounded(f[n] - median, 1))]

QuartileScale(first, third) ==
    LET iqr == Rounded(third - first, 1)
    IN  IF Finite(first) /\ Finite(third) /\ Finite(iqr)
        THEN Rounded(iqr * UNIT, IQR_NORMALIZATION)
        ELSE Overflow

\* 1.4826 times the median deviation, or the quartile distance over 1.349 when
\* more than half of the history equals its median.
Scale(f, mad) ==
    IF mad # 0 THEN Rounded(MAD_NORMALIZATION * mad, UNIT)
    ELSE QuartileScale(_linear_percentile(f, 1), _linear_percentile(f, 3))

Score(target, median, scale) ==
    LET distance == Rounded(target - median, 1)
    IN  IF scale = 0 THEN 0
        ELSE IF Finite(distance) THEN Rounded(distance * UNIT, scale) ELSE Overflow

\* The statistics of a target and the history before it; none has a score when
\* the scale is zero.
Estimates(history, target) ==
    LET median == Median(history)
        mad == Median(Deviations(history, median))
        scale == Scale(history, mad)
    IN [median |-> median, mad |-> mad, scale |-> scale, score |-> Score(target, median, scale)]

\* _require_finite fails.
Overflows(e) ==
    ~(Finite(e.median) /\ Finite(e.mad) /\ Finite(e.scale) /\ Finite(e.score))

-----------------------------------------------------------------------------
(* Screens *)

\* [end - hours, end)
InBaseline(q, t) == q.end - q.hours <= t /\ t < q.end

_summary(q, baseline, history, s) ==
    [target_time |-> q.end, baseline_start |-> q.end - q.hours, baseline_end |-> q.end,
     history_count |-> Cardinality(baseline),
     history_null_count |-> Cardinality(baseline \ DOMAIN history),
     baseline_median |-> s.baseline_median, baseline_scale |-> s.baseline_scale,
     robust_score |-> s.robust_score, method |-> s.method, direction |-> s.direction,
     outcome |-> s.outcome]

\* No screen: the method names the reason.
Unscreened(reason, median, scale) ==
    [baseline_median |-> median, baseline_scale |-> scale, robust_score |-> Null,
     method |-> reason, direction |-> "unavailable", outcome |-> reason]

Exceeds(score) == Abs(score) >= ROBUST_SCORE_THRESHOLD

Verdict(e) ==
    IF e.scale = 0
    THEN Unscreened("insufficient_variability", e.median, e.scale)
    ELSE [baseline_median |-> e.median, baseline_scale |-> e.scale, robust_score |-> e.score,
          method |-> IF e.mad # 0 THEN "rolling_median_mad" ELSE "rolling_median_iqr_fallback",
          direction |-> IF e.score > 0 THEN "above_baseline"
                        ELSE IF e.score < 0 THEN "below_baseline" ELSE "unavailable",
          outcome |-> IF Exceeds(e.score) THEN "anomaly" ELSE "normal"]

Baseline(rows, q) == { n \in DOMAIN rows : InBaseline(q, rows[n].timestamp) }
Targets(rows, q) ==
    { n \in DOMAIN rows : ~InBaseline(q, rows[n].timestamp) /\ rows[n].timestamp = q.end }
Target(rows, q) == rows[CHOOSE n \in Targets(rows, q) : TRUE].values[q.indicator]
History(rows, q) ==
    [n \in Filled(rows, Baseline(rows, q), q.indicator) |-> rows[n].values[q.indicator]]

\* Broken variant: a score that is not finite is reported.
ScreenUnchecked(rows, q) ==
    LET history == History(rows, q)
        targets == Targets(rows, q)
        summary(s) == _summary(q, Baseline(rows, q), history, s)
    IN IF Cardinality(targets) # 1 \/ Filled(rows, targets, q.indicator) = {}
       THEN summary(Unscreened("target_unavailable", Null, Null))
       ELSE IF Cardinality(DOMAIN history) < MIN_HISTORY_POINTS
       THEN summary(Unscreened("insufficient_history", Null, Null))
       ELSE summary(Verdict(Estimates(history, Target(rows, q))))

screen_public_anomaly(rows, q) ==
    LET history == History(rows, q)
        targets == Targets(rows, q)
        summary(s) == _summary(q, Baseline(rows, q), history, s)
        assessed(e) == IF Overflows(e) THEN Unavailable ELSE summary(Verdict(e))
    IN IF Cardinality(targets) # 1 \/ Filled(rows, targets, q.indicator) = {}
       THEN summary(Unscreened("target_unavailable", Null, Null))
       ELSE IF Cardinality(DOMAIN history) < MIN_HISTORY_POINTS
       THEN summary(Unscreened("insufficient_history", Null, Null))
       ELSE assessed(Estimates(history, Target(rows, q)))

-----------------------------------------------------------------------------
(* PublicHistoricalAnomaly: what may cross the boundary of the tools *)

ValidTiming(s) == s.baseline_start < s.target_time /\ s.baseline_end = s.target_time

ValidCounts(s) ==
    /\ s.history_null_count \in 0 .. s.history_count
    /\ s.outcome \in {"anomaly", "normal", "insufficient_variability"}
          => s.history_count - s.history_null_count >= MIN_HISTORY_POINTS
    /\ s.outcome = "insufficient_history"
          => s.history_count - s.history_null_count < MIN_HISTORY_POINTS

ValidStatistics(s) ==
    \A x \in {s.baseline_median, s.baseline_scale, s.robust_score} \ {Null} : Finite(x)

ValidSemantics(s) ==
    CASE s.outcome \in {"anomaly", "normal"} ->
            /\ s.method \in {"rolling_median_mad", "rolling_median_iqr_fallback"}
            /\ s.baseline_median # Null /\ s.baseline_scale # Null /\ s.robust_score # Null
            /\ s.baseline_scale > 0
            /\ s.robust_score > 0 => s.direction = "above_baseline"
            /\ s.robust_score < 0 => s.direction = "below_baseline"
            /\ s.robust_score = 0 => s.direction = "unavailable"
            /\ (s.outcome = "anomaly") <=> Exceeds(s.robust_score)
      [] s.outcome = "insufficient_variability" ->
            /\ s.method = s.outcome /\ s.direction = "unavailable"
            /\ s.baseline_median # Null /\ s.baseline_scale = 0
            /\ s.robust_score = Null
      [] OTHER ->
            /\ s.method = s.outcome /\ s.direction = "unavailable"
            /\ s.baseline_median = Null /\ s.baseline_scale = Null /\ s.robust_score = Null

ValidAnomaly(s) == ValidTiming(s) /\ ValidCounts(s) /\ ValidStatistics(s) /\ ValidSemantics(s)
=============================================================================
