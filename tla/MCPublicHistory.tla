-------------------------- MODULE MCPublicHistory ---------------------------
(***************************************************************************)
(* Instances of PublicHistory for TLC: series of five hours of one         *)
(* indicator beside a quiet second one.  Floats have six bits, 8 stands    *)
(* for 1.0 and 504 is the largest of them.                                 *)
(***************************************************************************)
EXTENDS PublicHistory

Piece(t, v) == [timestamp |-> t, irregular |-> FALSE, values |-> [nh4 |-> v, q |-> 8]]
Series(values) == [n \in DOMAIN values |-> Piece(n, values[n])]

\* Three rows, spread, equal, equal but for one, or with gaps, a target, and in
\* some a row after it.
Regular == {Series(<<0, 8, 16, 0, 88>>), Series(<<0, 8, 16, 72, 88>>),
            Series(<<8, 8, 8, 72>>), Series(<<8, 8, 40, 72, 88>>),
            Series(<<Null, 8, 16, 72>>), Series(<<Null, Null, 16, 16>>)}

\* The score overflows, or that of a further target does; then the median, its
\* deviations, the scale and the span of the quartiles; quartiles between two
\* readings that differ by the least float, and quartiles that are readings.
Extreme == {Series(<<0, 1, 2, 248>>), Series(<<0, 1, 2, 30, 248>>),
            Series(<<256, 256, Null, 264>>),
            Series(<<-320, 320, Null, 8>>),
            Series(<<-384, 0, 384, 8>>),
            Series(<<-320, 320, 320, 8>>),
            Series(<<1, 2, 2, 40>>),
            Series(<<8, 8, 8, 40, 40, 240>>)}

\* Rows out of order, a target twice, a file without readings, sums that round
\* or are not finite, a file without rows or with bad ones.
Odd == {Reverse(Series(<<0, 8, 16, 72, 16>>)),
        Append(Series(<<0, 8, 16, 72, 16>>), Piece(4, 16)),
        Series(<<Null, Null, Null, Null>>),
        Series(<<33, 34, 1, 2>>), Series(<<320, 64, 64, 128>>),
        <<>>,
        Series(<<0, Blank, 16, 72>>),
        Series(<<0, Invalid, 16, 72>>),
        <<Piece(Invalid, 8), Piece(2, 16)>>,
        <<Piece(1, 8), [Piece(2, 16) EXCEPT !.irregular = TRUE]>>}

SmallHistories == Regular \cup Extreme \cup Odd
OtherVersion == {Series(<<32, 24, 16, 8>>)}

Query(hours, end, canonical) ==
    [indicator |-> "nh4", hours |-> hours, end |-> end, canonical |-> canonical]
Queries == {Query(1, 4, TRUE), Query(3, 4, TRUE), Query(5, 6, TRUE)}

\* Calls of the tools, one at each of the other doors, and three to be refused.
AllRequests ==
    [door : {"tool"}, kind : {"window", "anomaly"}, query : Queries]
    \cup {[door |-> "graph", kind |-> "window", query |-> Query(3, 4, TRUE)],
          [door |-> "mcp", kind |-> "anomaly", query |-> Query(3, 4, TRUE)],
          [door |-> "tool", kind |-> "anomaly", query |-> Query(4, 4, FALSE)],
          [door |-> "graph", kind |-> "anomaly", query |-> Query(6, 4, TRUE)],
          [door |-> "mcp", kind |-> "window", query |-> Query(6, 4, TRUE)]}

\* Three equal readings of three bits, whose sum needs four.
Constants3 == {Series(<<1, 1, 1>>), Series(<<6, 6, 6>>)}
=============================================================================
