--------------------------- MODULE MCToolSessions ---------------------------
(***************************************************************************)
(* An instance of ToolSessions for TLC.                                    *)
(***************************************************************************)
EXTENDS ToolSessions, TLC

CONSTANTS s1, s2, n1, n2, n3, n4, r1, r2, r3

\* Sessions, nonces and references are interchangeable.
Symmetric == Permutations({s1, s2}) \cup Permutations({n1, n2, n3, n4})
             \cup Permutations({r1, r2, r3})
=============================================================================
