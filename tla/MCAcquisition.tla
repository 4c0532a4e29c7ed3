---------------------------- MODULE MCAcquisition ----------------------------
(***************************************************************************)
(* Instances of PublicAcquisition for TLC.                                 *)
(***************************************************************************)
EXTENDS PublicAcquisition, TLC

CONSTANTS a1, a2, s1, s2, s3, s4, x, y, z

Member(path, kind) == [path |-> path, kind |-> kind]

\* s1 has two permitted files, a directory and a file that is not permitted; s2
\* has a file; the archive of s3 has an unsafe member; s4 is not eligible.
MixedEntries ==
    (s1 :> {Member(x, "file"), Member(y, "file"), Member(y, "directory"), Member(z, "file")})
    @@ (s2 :> {Member(x, "file")})
    @@ (s3 :> {Member(x, "file"), Member(y, "unsafe")})
    @@ (s4 :> {Member(x, "file")})
MixedPermissions == (s1 :> {x, y}) @@ (s2 :> {x}) @@ (s3 :> {x}) @@ (s4 :> {x})
=============================================================================
