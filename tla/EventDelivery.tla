--------------------------- MODULE EventDelivery ---------------------------
(***************************************************************************)
(* What the plugin and the gateway promise together about one stream of    *)
(* events, without dedupe, retries, sockets or pushes: an event is offered *)
(* once, the gateway dispatches it any number of times, and the plugin     *)
(* counts it as accepted only if a dispatch of it ran to its end.  What an *)
(* event has settled as stays.                                             *)
(***************************************************************************)
EXTENDS Naturals

CONSTANTS
    Event       \* the events

VARIABLES
    fate,       \* what the plugin knows of each event
    dispatched  \* the events some dispatch of which ran to its end

dvars == <<fate, dispatched>>

Fate == {"unsent", "offered", "accepted", "failed"}

Init ==
    /\ fate = [e \in Event |-> "unsent"]
    /\ dispatched = {}

Offer(e) ==
    /\ fate[e] = "unsent"
    /\ fate' = [fate EXCEPT ![e] = "offered"]
    /\ UNCHANGED dispatched

\* The gateway may dispatch again what it has dispatched, even after a failure
\* was reported: a copy may still be under way.
Dispatch(e) ==
    /\ fate[e] # "unsent"
    /\ dispatched' = dispatched \cup {e}
    /\ UNCHANGED fate

Accept(e) ==
    /\ fate[e] = "offered"
    /\ e \in dispatched
    /\ fate' = [fate EXCEPT ![e] = "accepted"]
    /\ UNCHANGED dispatched

GiveUp(e) ==
    /\ fate[e] = "offered"
    /\ fate' = [fate EXCEPT ![e] = "failed"]
    /\ UNCHANGED dispatched

Next == \E e \in Event : Offer(e) \/ Dispatch(e) \/ Accept(e) \/ GiveUp(e)

Spec == Init /\ [][Next]_dvars
=============================================================================
