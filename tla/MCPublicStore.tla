---------------------------- MODULE MCPublicStore ----------------------------
(***************************************************************************)
(* Instances of PublicStore for TLC.                                       *)
(***************************************************************************)
EXTENDS PublicStore, TLC

CONSTANTS s1, s2, s3, c1, c2, c3, c4

\* Two callers share a chunk; one batch has a chunk that is not valid.
SharedBatches == (s1 :> {c1, c2}) @@ (s2 :> {c2, c3}) @@ (s3 :> {c1, c4})

\* Another program creates no index, the right ones, or one of another type.
SomeSchemas ==
    {[f \in Fields |-> "none"], [f \in Fields |-> "keyword"],
     [f \in Fields |-> IF f = 2 THEN "other" ELSE "none"]}
=============================================================================
