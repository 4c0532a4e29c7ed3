--------------------------- MODULE PublicQuality ----------------------------
(***************************************************************************)
(* The quality profile of the public CSV (data/quality.py): what           *)
(* profile_wwtp_langmatt_csv computes from the rows and what write_profile *)
(* accepts.                                                                *)
(***************************************************************************)
EXTENDS PublicAnomaly

\* The steps forward in time, in file order.
Intervals(rows) ==
    [n \in { m \in 1 .. Len(rows) - 1 : rows[m].timestamp < rows[m + 1].timestamp } |->
        rows[n + 1].timestamp - rows[n].timestamp]

Disorders(rows) == { n \in 1 .. Len(rows) - 1 : rows[n + 1].timestamp <= rows[n].timestamp }

\* Twice the median of the steps, which are whole numbers.
Median2(f) ==
    LET count == Cardinality(DOMAIN f)
    IN  Smallest(f, (count + 1) \div 2) + Smallest(f, count \div 2 + 1)

\* A blank cell, or one its row is too short for, is null for the profile.
Numeric(rows, i) == { n \in Filled(rows, DOMAIN rows, i) : rows[n].values[i] # Blank }

\* statistics.fmean: the exact sum, rounded once.
Sum(rows, i) ==
    LET sum[n \in 0 .. Len(rows)] ==
            IF n = 0 THEN 0
            ELSE IF n \in Numeric(rows, i) THEN sum[n - 1] + rows[n].values[i] ELSE sum[n - 1]
    IN  Rounded(sum[Len(rows)], 1)

\* Broken variant: the sum is divided by the number of rows.
SummaryOfRows(rows, i) ==
    LET numeric == Numeric(rows, i)
        numbers == { rows[n].values[i] : n \in numeric }
    IN [non_null_count |-> Cardinality(numeric),
        null_count     |-> Cardinality(DOMAIN rows \ numeric),
        minimum |-> IF numeric = {} THEN Null ELSE Min(numbers),
        maximum |-> IF numeric = {} THEN Null ELSE Max(numbers),
        mean    |-> IF numeric = {} THEN Null ELSE Rounded(Sum(rows, i), Len(rows))]

_numeric_summary(rows, i) ==
    LET numeric == Numeric(rows, i)
        numbers == { rows[n].values[i] : n \in numeric }
    IN [non_null_count |-> Cardinality(numeric),
        null_count     |-> Cardinality(DOMAIN rows \ numeric),
        minimum |-> IF numeric = {} THEN Null ELSE Min(numbers),
        maximum |-> IF numeric = {} THEN Null ELSE Max(numbers),
        mean    |-> IF numeric = {} THEN Null ELSE Rounded(Sum(rows, i), Cardinality(numeric))]

profile_wwtp_langmatt_csv(rows) ==
    LET times == { rows[n].timestamp : n \in DOMAIN rows }
    IN IF \/ rows = <<>>
          \/ Invalid \in times
          \/ \E n \in DOMAIN rows, i \in Indicators : rows[n].values[i] = Invalid
          \/ \E i \in Indicators : ~Finite(Sum(rows, i))
       THEN Unavailable
       ELSE [row_count |-> Len(rows),
             start |-> Min(times),
             end   |-> Max(times),
             timestamp_order_violations |-> Cardinality(Disorders(rows)),
             duplicate_timestamp_count  |-> Len(rows) - Cardinality(times),
             median_interval2 |-> IF DOMAIN Intervals(rows) = {} THEN Null
                                  ELSE Median2(Intervals(rows)),
             numeric_columns |-> [i \in Indicators |-> _numeric_summary(rows, i)]]

ValidSummary(s, row_count) ==
    /\ s.non_null_count + s.null_count = row_count
    /\ IF s.non_null_count = 0
       THEN {s.minimum, s.mean, s.maximum} = {Null}
       ELSE /\ Null \notin {s.minimum, s.mean, s.maximum}
            /\ s.minimum <= s.mean
            /\ s.mean <= s.maximum

_validate_profile_schema(p) ==
    /\ p.row_count >= 1
    /\ p.timestamp_order_violations \in 0 .. p.row_count - 1
    /\ p.duplicate_timestamp_count \in 0 .. p.row_count - 1
    /\ p.median_interval2 # Null => p.median_interval2 > 0 /\ p.row_count >= 2
    /\ \A i \in Indicators : ValidSummary(p.numeric_columns[i], p.row_count)
=============================================================================
