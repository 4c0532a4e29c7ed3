---------------------------- MODULE PublicWindow ----------------------------
(***************************************************************************)
(* The rows of the public CSV and the aggregate of a time window           *)
(* (data/public_history.py, data/public_window.py, and the boundary that   *)
(* checks the aggregate in agent/tools.py).  Time counts hours.  A number  *)
(* is a float of PRECISION bits in units of the least float: sums,         *)
(* products and quotients round to the nearest float, ties to even.        *)
(***************************************************************************)
EXTENDS Integers, Sequences, FiniteSets, FiniteSetsExt, SequencesExt

CONSTANTS
    Indicators,     \* _INDICATOR_UNITS
    PRECISION,      \* bits of a float's significand
    MAX_EXPONENT,   \* the largest exponent of a float's last bit
    MAX_HOURS,      \* longest window of a request
    Null,           \* an empty cell, Python's None
    Blank,          \* a cell of white space, or one the row is too short for
    Invalid,        \* a cell or a timestamp that does not parse
    Unavailable     \* the typed error of a reader

ASSUME FloatsOK ==
    /\ PRECISION \in Nat /\ PRECISION >= 3
    /\ MAX_EXPONENT \in Nat
    /\ MAX_HOURS \in Nat \ {0}
    /\ Cardinality({Null, Blank, Invalid}) = 3
    /\ {Null, Blank, Invalid} \cap (Int \cup (Int \X Int)) = {}

-----------------------------------------------------------------------------
(* Floats *)

Abs(x) == IF x < 0 THEN -x ELSE x

\* The powers of two.
Power[n \in 0 .. MAX_EXPONENT + PRECISION] == IF n = 0 THEN 1 ELSE 2 * Power[n - 1]

\* The largest finite float.
MAX_FLOAT == Power[MAX_EXPONENT + PRECISION] - Power[MAX_EXPONENT]

Finite(x) == Abs(x) <= MAX_FLOAT

\* The last bit of the float nearest to x / n: the least power of two that
\* leaves it PRECISION bits.
Ulp(x, n) ==
    LET fits(k) == k = MAX_EXPONENT \/ Abs(x) < n * Power[k + PRECISION]
    IN Power[CHOOSE k \in 0 .. MAX_EXPONENT : fits(k) /\ \A j \in 0 .. k - 1 : ~fits(j)]

\* The whole number nearest to |x| / n, ties to even.
Near(x, n) ==
    LET low == Abs(x) \div n
        rest == Abs(x) % n
    IN IF 2 * rest > n \/ (2 * rest = n /\ low % 2 = 1) THEN low + 1 ELSE low

\* The float nearest to x / n, for n > 0.  One that is too large is not finite.
Rounded(x, n) ==
    LET signed(y) == IF x < 0 THEN -y ELSE y
        nearest(ulp) == Near(x, n * ulp) * ulp
    IN signed(nearest(Ulp(x, n)))

-----------------------------------------------------------------------------
(* Rows *)

\* A cell is parsed to a float, and a number that is not finite does not parse.
Float == { x \in Int : Finite(x) /\ Rounded(x, 1) = x }
Cell == Float \cup {Null, Blank, Invalid}
Observation == [timestamp : Int \cup {Invalid}, irregular : BOOLEAN, values : [Indicators -> Cell]]

\* A row that _load_verified_public_observations takes.  irregular: the row has
\* more cells than the header, or a timestamp padded with white space.
ParsesRow(r) ==
    /\ ~r.irregular
    /\ r.timestamp # Invalid
    /\ \A i \in Indicators : r.values[i] \notin {Blank, Invalid}

\* One bad row, of any indicator, fails the whole load.
Readable(rows) == \A n \in DOMAIN rows : ParsesRow(rows[n])

\* Broken variant: the window is closed at both ends.
InClosedWindow(q, t) == q.end - q.hours <= t /\ t <= q.end

\* (end - hours, end]
InWindow(q, t) == q.end - q.hours < t /\ t <= q.end

-----------------------------------------------------------------------------
(* Aggregates *)

\* The positions, among those of S, that have a reading; and the readings.
Filled(rows, S, i) == { n \in S : rows[n].values[i] # Null }
Readings(rows, S, i) == { rows[n].values[i] : n \in Filled(rows, S, i) }

\* The running totals of the readings at S, in the order of the rows.
Totals(rows, S, i) ==
    LET total[n \in 0 .. Len(rows)] ==
            IF n = 0 THEN 0
            ELSE IF n \in Filled(rows, S, i) THEN Rounded(total[n - 1] + rows[n].values[i], 1)
            ELSE total[n - 1]
    IN total

summarize_public_window(rows, q) ==
    LET window == { n \in DOMAIN rows : InWindow(q, rows[n].timestamp) }
        filled == Filled(rows, window, q.indicator)
        readings == Readings(rows, window, q.indicator)
        total == Totals(rows, window, q.indicator)
    IN IF window = {} \/ \E n \in DOMAIN total : ~Finite(total[n])
       THEN Unavailable
       ELSE [row_count  |-> Cardinality(window),
             null_count |-> Cardinality(window \ filled),
             start      |-> q.end - q.hours,
             end        |-> q.end,
             minimum    |-> IF filled = {} THEN Null ELSE Min(readings),
             maximum    |-> IF filled = {} THEN Null ELSE Max(readings),
             mean       |-> IF filled = {} THEN Null
                            ELSE Rounded(total[Len(rows)], Cardinality(filled))]

\* PublicHistoricalAggregate: what may cross the boundary of the tools.
ValidAggregate(s) ==
    /\ s.start < s.end
    /\ s.row_count >= 1
    /\ s.null_count \in 0 .. s.row_count
    /\ IF s.null_count = s.row_count
       THEN {s.minimum, s.mean, s.maximum} = {Null}
       ELSE /\ Null \notin {s.minimum, s.mean, s.maximum}
            /\ s.minimum <= s.mean
            /\ s.mean <= s.maximum
            /\ Finite(s.minimum) /\ Finite(s.maximum)
=============================================================================
