---------------------------- MODULE CaseRegistry ----------------------------
(***************************************************************************)
(* What POST /v1/cases promises, however many requests for one key run at  *)
(* once, fail, or are sent again: a key gets one case, once and for good,  *)
(* its creation is recorded by one audit event, and every answer names the *)
(* case of the key that was asked for.  Cases implements it.               *)
(***************************************************************************)
EXTENDS Naturals

CONSTANTS Requests, Slots, SlotOf, Ids, None

VARIABLES
    registry,  \* registry[s]: the case of an owner and external key, or None
    events,    \* events[i]: case.created events about case i
    answer     \* answer[r]: the case the client of r was told, or None

vars == <<registry, events, answer>>

Init ==
    /\ registry = [s \in Slots |-> None]
    /\ events = [i \in Ids |-> 0]
    /\ answer = [r \in Requests |-> None]

Create(s, i) ==
    /\ registry[s] = None
    /\ \A x \in Slots : registry[x] # i
    /\ registry' = [registry EXCEPT ![s] = i]
    /\ events' = [events EXCEPT ![i] = @ + 1]
    /\ UNCHANGED answer

Tell(r) ==
    /\ registry[SlotOf[r]] # None
    /\ answer' = [answer EXCEPT ![r] = registry[SlotOf[r]]]
    /\ UNCHANGED <<registry, events>>

Next == \/ \E s \in Slots, i \in Ids : Create(s, i)
        \/ \E r \in Requests : Tell(r)

Spec == Init /\ [][Next]_vars
=============================================================================
