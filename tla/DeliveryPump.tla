---------------------------- MODULE DeliveryPump ----------------------------
(***************************************************************************)
(* The plugin's delivery path: the bounded priority queue                  *)
(* (packages/plugin/src/queue.ts), the pump that drains it                 *)
(* (packages/plugin/src/pump.ts) and the retrying sender                   *)
(* (packages/plugin/src/sender.ts).                                        *)
(*                                                                         *)
(* All of it runs on one JavaScript thread.  A drain loop yields while the *)
(* sender waits for the gateway or for its backoff, and once more between  *)
(* its last, empty dequeue and the settlement of its promise; producers    *)
(* and stop() run in those gaps.  A loop is identified by the first event  *)
(* it took, which stands for the identity of its promise.                  *)
(***************************************************************************)
EXTENDS Integers, FiniteSets

CONSTANTS
    EventType,    \* the types producers use, a subset of AnyType
    Capacity,     \* of the queue
    MaxRetries,   \* attempts of one event after the first
    MaxOffers     \* bound on the events producers offer

VARIABLES
    kind,       \* type of the n-th event the producers offer; an input, never changed
    offered,    \* how many they have offered
    queue,      \* BoundedQueue.entries: event numbers, which order them like Entry.seq
    loops,      \* the drain loops whose promise has not been settled
    draining,   \* the loop in QueuePump.draining, or None
    stopped,
    stopping,   \* stop(): "no", "awaiting" the current loop, "final" drain, "done"
    fate        \* history: what became of each event

dvars == <<kind, offered, queue, loops, draining, stopped, stopping, fate>>

AnyType == {"heartbeat", "action_resolved", "action_required", "terminal"}

ASSUME DeliveryAssumption ==
    /\ EventType \subseteq AnyType
    /\ Capacity \in Nat \ {0}
    /\ MaxRetries \in Nat
    /\ MaxOffers \in Nat

Id == 1..MaxOffers
None == 0

\* Accepted and not yet settled; and every other fate.
Pending == {"queued", "sending"}
Fate == Pending \cup {"new", "delivered", "failed", "evicted", "rejected", "refused"}

Loop ==
    [run : Id, final : BOOLEAN, phase : {"fetching", "sleeping", "returned"},
     event : Id, attempt : 0..MaxRetries]

-----------------------------------------------------------------------------
(* The queue *)

PriorityOf(type) == CASE type = "heartbeat" -> 0 [] type = "action_resolved" -> 1 [] OTHER -> 2
Priority(i) == PriorityOf(kind[i])

\* dequeue: the oldest event of the highest priority.
Best(q) ==
    CHOOSE i \in q : \A j \in q : Priority(j) < Priority(i) \/ (Priority(j) = Priority(i) /\ i <= j)

\* A defect: the oldest of the lowest priority goes even if it outranks the newcomer.
BugVictims(i) ==
    {v \in queue : \A j \in queue : Priority(v) < Priority(j) \/ (Priority(v) = Priority(j) /\ v <= j)}

\* evictionIndex: what a full queue sacrifices for newcomer i, if anything: the
\* oldest of the lowest priority, unless even that outranks the newcomer.  (A
\* heartbeat considers heartbeats only, which is the same rule at priority 0.)
Victims(i) ==
    {v \in queue : /\ Priority(v) <= Priority(i)
                   /\ \A j \in queue : Priority(v) < Priority(j) \/ (Priority(v) = Priority(j) /\ v <= j)}

-----------------------------------------------------------------------------
(* Drain loops *)

\* The first attempt of event i.
Fetching(run, final, i) ==
    [run |-> run, final |-> final, phase |-> "fetching", event |-> i, attempt |-> 0]

\* drain() on the queue q, up to its first await.
Start(final, q, rest, f) ==
    LET i == Best(q)
    IN  /\ loops' = rest \cup {Fetching(i, final, i)}
        /\ queue' = q \ {i}
        /\ fate' = [f EXCEPT ![i] = "sending"]

\* A defect: every kick starts a loop.
BugKick(current, q, rest, f) ==
    IF stopped
    THEN loops' = rest /\ queue' = q /\ fate' = f /\ draining' = current
    ELSE Start(FALSE, q, rest, f) /\ draining' = Best(q)

\* kick() with `current' in the draining field, the queue q (never empty when
\* it is called), the loops `rest' and the fates f.
Kick(current, q, rest, f) ==
    IF stopped \/ current # None
    THEN loops' = rest /\ queue' = q /\ fate' = f /\ draining' = current
    ELSE Start(FALSE, q, rest, f) /\ draining' = Best(q)

-----------------------------------------------------------------------------
(* Producers *)

\* A defect: the capacity is off by one.
BugAdmit(i) ==
    /\ Cardinality(queue) <= Capacity
    /\ Kick(draining, queue \cup {i}, loops, [fate EXCEPT ![i] = "queued"])

\* BoundedQueue.enqueue of event i, then kick: there is room, or a victim, or neither.
Admit(i) ==
    /\ Cardinality(queue) < Capacity
    /\ Kick(draining, queue \cup {i}, loops, [fate EXCEPT ![i] = "queued"])

Evict(i) ==
    /\ Cardinality(queue) >= Capacity
    /\ \E v \in Victims(i) :
        Kick(draining, (queue \ {v}) \cup {i}, loops, [fate EXCEPT ![i] = "queued", ![v] = "evicted"])

Reject(i) ==
    /\ Cardinality(queue) >= Capacity
    /\ Victims(i) = {}
    /\ Kick(draining, queue, loops, [fate EXCEPT ![i] = "rejected"])

\* QueuePump.enqueue.
Enqueue ==
    LET i == offered + 1
    IN  /\ offered < MaxOffers
        /\ offered' = i
        /\ \/ ~stopped /\ (Admit(i) \/ Evict(i) \/ Reject(i))
           \/ stopped /\ fate' = [fate EXCEPT ![i] = "refused"] /\ UNCHANGED <<queue, loops, draining>>
        /\ UNCHANGED <<kind, stopped, stopping>>

-----------------------------------------------------------------------------
(* The sender *)

\* The loop l is done with its event, whose fate is `end': it takes the next or returns.
Finish(l, end) ==
    LET f == [fate EXCEPT ![l.event] = end]
    IN  IF queue = {}
        THEN /\ loops' = (loops \ {l}) \cup {[l EXCEPT !.phase = "returned"]}
             /\ fate' = f
             /\ UNCHANGED queue
        ELSE /\ loops' = (loops \ {l}) \cup {Fetching(l.run, l.final, Best(queue))}
             /\ queue' = queue \ {Best(queue)}
             /\ fate' = [f EXCEPT ![Best(queue)] = "sending"]

\* An attempt ends: 2xx, 4xx, or a network error, a timeout or 5xx.
AttemptOk(l) ==
    /\ l.phase = "fetching"
    /\ Finish(l, "delivered")
    /\ UNCHANGED <<kind, offered, draining, stopped, stopping>>

AttemptPermanent(l) ==
    /\ l.phase = "fetching"
    /\ Finish(l, "failed")
    /\ UNCHANGED <<kind, offered, draining, stopped, stopping>>

AttemptRetryable(l) ==
    /\ l.phase = "fetching"
    /\ \/ /\ l.attempt < MaxRetries
          /\ loops' = (loops \ {l}) \cup {[l EXCEPT !.phase = "sleeping"]}
          /\ UNCHANGED <<queue, fate>>
       \/ /\ l.attempt = MaxRetries
          /\ Finish(l, "failed")
    /\ UNCHANGED <<kind, offered, draining, stopped, stopping>>

\* The backoff elapses and the next attempt starts.
BackoffEnds(l) ==
    /\ l.phase = "sleeping"
    /\ loops' = (loops \ {l}) \cup {[l EXCEPT !.phase = "fetching", !.attempt = @ + 1]}
    /\ UNCHANGED <<kind, offered, queue, draining, stopped, stopping, fate>>

-----------------------------------------------------------------------------
(* Settlement and shutdown *)

\* A defect: the field is cleared and nothing drives what arrived meanwhile.
BugSettle(l) ==
    /\ l.phase = "returned" /\ ~l.final
    /\ loops' = loops \ {l}
    /\ draining' = IF draining = l.run THEN None ELSE draining
    /\ UNCHANGED <<kind, offered, queue, stopped, stopping, fate>>

\* kick's settle callback.
Settle(l) ==
    /\ l.phase = "returned" /\ ~l.final
    /\ IF draining = l.run /\ ~stopped /\ queue # {}
       THEN Kick(None, queue, loops \ {l}, fate)
       ELSE /\ loops' = loops \ {l}
            /\ draining' = IF draining = l.run THEN None ELSE draining
            /\ UNCHANGED <<queue, fate>>
    /\ UNCHANGED <<kind, offered, stopped, stopping>>

\* A defect: stop waits for the current loop only.
BugFinalDrain == stopping' = "done" /\ UNCHANGED <<loops, queue, fate>>

\* The end of stop(): one more drain for what arrived in the gap.
FinalDrain ==
    \/ queue = {} /\ stopping' = "done" /\ UNCHANGED <<loops, queue, fate>>
    \/ queue # {} /\ stopping' = "final" /\ Start(TRUE, queue, loops, fate)

\* stop(); a second call shares the first one's promise.
Stop ==
    /\ stopping = "no"
    /\ stopped' = TRUE
    /\ IF draining = None
       THEN FinalDrain
       ELSE stopping' = "awaiting" /\ UNCHANGED <<loops, queue, fate>>
    /\ UNCHANGED <<kind, offered, draining>>

\* The loop stop() awaits has settled; its settle callback was registered first
\* and has run.
StopResumes ==
    /\ stopping = "awaiting"
    /\ loops = {}
    /\ FinalDrain
    /\ UNCHANGED <<kind, offered, draining, stopped>>

\* The final drain returned.
StopEnds(l) ==
    /\ l.phase = "returned" /\ l.final
    /\ loops' = loops \ {l}
    /\ stopping' = "done"
    /\ UNCHANGED <<kind, offered, queue, draining, stopped, fate>>

-----------------------------------------------------------------------------
DeliveryInit ==
    /\ kind \in [Id -> EventType]
    /\ offered = 0
    /\ queue = {}
    /\ loops = {}
    /\ draining = None
    /\ stopped = FALSE
    /\ stopping = "no"
    /\ fate = [i \in Id |-> "new"]

LoopStep(l) ==
    AttemptOk(l) \/ AttemptPermanent(l) \/ AttemptRetryable(l) \/ BackoffEnds(l) \/ Settle(l) \/ StopEnds(l)

DeliveryNext == Enqueue \/ Stop \/ StopResumes \/ \E l \in loops : LoopStep(l)

DeliverySpec == DeliveryInit /\ [][DeliveryNext]_dvars

\* Every attempt is bounded by AbortSignal.timeout, backoffs are timers, and the
\* event loop runs what is ready.  Producers and stop() need not come.
FairDelivery ==
    /\ DeliverySpec
    /\ WF_dvars(\E l \in loops : LoopStep(l))
    /\ WF_dvars(StopResumes)

-----------------------------------------------------------------------------
(* Properties *)

\* Types, and the queue never holds more than its capacity.
DeliveryTypeOK ==
    /\ kind \in [Id -> EventType]
    /\ offered \in 0..MaxOffers
    /\ queue \subseteq 1..offered
    /\ Cardinality(queue) <= Capacity
    /\ loops \subseteq Loop
    /\ draining \in Id \cup {None}
    /\ stopped \in BOOLEAN
    /\ stopping \in {"no", "awaiting", "final", "done"}
    /\ fate \in [Id -> Fate]

\* At most one event is on its way to the gateway: no sequence of enqueues,
\* settlements and stop() starts a second drain loop beside a live one.
OneSender == \A l1, l2 \in loops : l1 = l2

\* A queued event always has someone who will take it: a loop that has not
\* returned, a settle callback that will kick again, or stop()'s final drain.
NeverStranded ==
    queue # {} =>
        \/ \E l \in loops : l.phase # "returned"
        \/ \E l \in loops : l.phase = "returned" /\ l.run = draining /\ ~stopped
        \/ stopping = "awaiting"

\* Within a priority events leave the queue in the order they were offered: none
\* is sent, or has an outcome, while an older one of its priority still waits.
FifoWithinPriority ==
    \A i, j \in Id :
        i < j /\ Priority(i) = Priority(j) /\ fate[i] = "queued"
            => fate[j] \notin {"sending", "delivered", "failed"}

\* The gateway is sent one event at a time, and those of a priority in order.
InOrder == OneSender /\ FifoWithinPriority

\* When stop() has resolved, every event accepted before it is settled: delivered,
\* given up by the sender, or evicted, and nothing is in flight.
StopDrainsAll ==
    stopping = "done" => /\ \A i \in Id : fate[i] \notin Pending
                         /\ loops = {}

\* An event the queue accepted is dropped unsent only for a newcomer of the same
\* or a higher priority, only when nothing less important is queued, and only if
\* it is the oldest of its priority: a heartbeat never costs another event.
LossPolicy ==
    [][\A v \in Id :
        fate[v] = "queued" /\ fate'[v] \notin Pending =>
            /\ fate'[v] = "evicted"
            /\ Priority(v) <= Priority(offered')
            /\ \A j \in queue : Priority(v) < Priority(j) \/ (Priority(v) = Priority(j) /\ v <= j)]_dvars

\* Every accepted event is eventually settled, whatever the gateway answers, and
\* stop() always resolves.
AcceptedSettles ==
    /\ \A i \in Id : fate[i] \in Pending ~> fate[i] \notin Pending
    /\ stopped ~> stopping = "done"
=============================================================================
