---------------------------- MODULE Publication ----------------------------
(***************************************************************************)
(* What acquire_public_source promises about a destination, however many   *)
(* acquisitions aim at it: it is published at most once, by one of them    *)
(* and as a whole, nothing that is there is replaced, and an acquisition   *)
(* that returns a receipt is the one that published.                       *)
(* PublicAcquisition implements it.                                        *)
(***************************************************************************)
CONSTANTS Acquirers, Free, Foreign

VARIABLES
    holder,  \* the acquirer that published, Foreign, or Free
    reply    \* reply[a]: "none", "returned" or "refused"

vars == <<holder, reply>>

Init ==
    /\ holder \in {Free, Foreign}
    /\ reply = [a \in Acquirers |-> "none"]

Take(h) ==
    /\ holder = Free
    /\ holder' = h
    /\ UNCHANGED reply

Return(a) ==
    /\ holder = a
    /\ reply[a] = "none"
    /\ reply' = [reply EXCEPT ![a] = "returned"]
    /\ UNCHANGED holder

Refuse(a) ==
    /\ reply[a] = "none"
    /\ reply' = [reply EXCEPT ![a] = "refused"]
    /\ UNCHANGED holder

Next ==
    \/ Take(Foreign)
    \/ \E a \in Acquirers : Take(a) \/ Return(a) \/ Refuse(a)

Spec == Init /\ [][Next]_vars
=============================================================================
