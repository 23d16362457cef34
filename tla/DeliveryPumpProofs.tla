------------------------- MODULE DeliveryPumpProofs -------------------------
(***************************************************************************)
(* Proofs about DeliveryPump, for every capacity, retry budget, number of  *)
(* events and assignment of types to them.                                 *)
(***************************************************************************)
EXTENDS DeliveryPump, FiniteSetTheorems, WellFoundedInduction, TLAPS

-----------------------------------------------------------------------------
(* The queue's choices *)

\* A priority is one of three numbers.
LEMMA PriorityRange == \A i : Priority(i) \in 0..2
  BY DEF Priority, PriorityOf

\* A set of event numbers that is not empty has an oldest member.
LEMMA OldestExists ==
    ASSUME NEW T \in SUBSET Nat, T # {}
    PROVE  \E x \in T : \A y \in T : x <= y
  <1>1. PICK x \in T : \A y \in T : ~(<<y, x>> \in OpToRel(<, Nat))
    BY NatLessThanWellFounded, WFMin
  <1>2. \A y \in T : ~(y < x)
    BY <1>1 DEF OpToRel
  <1>3. QED
    BY <1>2

\* What dequeue takes from a queue that is not empty: a member that nothing
\* outranks, the oldest of its priority.
LEMMA BestOf ==
    ASSUME NEW q \in SUBSET Id, q # {}
    PROVE  /\ Best(q) \in q
           /\ \A j \in q : Priority(j) < Priority(Best(q))
                           \/ (Priority(j) = Priority(Best(q)) /\ Best(q) <= j)
  <1> DEFINE At(p) == {i \in q : Priority(i) = p}
             Top(p) == At(p) # {} /\ \A j \in q : Priority(j) <= p
  <1>1. \E p \in 0..2 : Top(p)
    <2>1. \A i \in q : Priority(i) = 0 \/ Priority(i) = 1 \/ Priority(i) = 2
      BY PriorityRange
    <2>2. CASE At(2) # {}
      BY <2>1, <2>2
    <2>3. CASE At(2) = {} /\ At(1) # {}
      BY <2>1, <2>3
    <2>4. CASE At(2) = {} /\ At(1) = {}
      BY <2>1, <2>4
    <2>5. QED
      BY <2>2, <2>3, <2>4
  <1>2. PICK p \in 0..2 : Top(p)
    BY <1>1
  <1>3. At(p) \subseteq Nat
    <2>1. q \subseteq Nat
      BY DeliveryAssumption DEF Id
    <2>2. QED
      BY <2>1
  <1>4. PICK x \in At(p) : \A y \in At(p) : x <= y
    BY <1>2, <1>3, OldestExists
  <1>5. \A j \in q : Priority(j) < Priority(x) \/ (Priority(j) = Priority(x) /\ x <= j)
    BY <1>2, <1>4, PriorityRange
  <1>6. QED
    BY <1>4, <1>5 DEF Best

\* The queue is finite, so its size is a number.
LEMMA QueueFinite ==
    ASSUME DeliveryTypeOK
    PROVE  IsFiniteSet(queue) /\ Cardinality(queue) \in Nat
  <1>1. IsFiniteSet(1..offered)
    BY FS_Interval DEF DeliveryTypeOK
  <1>2. QED
    BY <1>1, FS_Subset, FS_CardinalityType DEF DeliveryTypeOK

-----------------------------------------------------------------------------
(* The inductive invariant *)

\* An event's fate says where it is.
FateInv ==
    \A i \in Id :
        /\ fate[i] = "new" <=> i > offered
        /\ fate[i] = "queued" <=> i \in queue
        /\ fate[i] = "sending" <=> \E l \in loops : l.event = i /\ l.phase # "returned"

\* The one live loop is either the one in `draining' or stop()'s own.
LoopInv ==
    /\ OneSender
    /\ \A l \in loops :
        /\ l.final => stopping = "final" /\ draining = None
        /\ ~l.final => stopping \in {"no", "awaiting"} /\ draining = l.run
        /\ l.final /\ l.phase = "returned" => queue = {}
        /\ l.phase = "sleeping" => l.attempt < MaxRetries
    /\ draining # None => loops # {}

\* Without a loop nothing waits, unless stop() is about to look at the queue.
StopInv ==
    /\ stopped <=> stopping # "no"
    /\ stopping = "no" /\ loops = {} => queue = {}
    /\ stopping = "final" => loops # {}
    /\ stopping = "done" => loops = {} /\ queue = {}

PumpInv == DeliveryTypeOK /\ FateInv /\ LoopInv /\ StopInv /\ FifoWithinPriority

\* The size of the queue when events enter and leave it.
LEMMA QueueSize ==
    ASSUME DeliveryTypeOK, NEW i, NEW v
    PROVE  /\ i \notin queue => Cardinality(queue \cup {i}) = Cardinality(queue) + 1
           /\ i \notin queue /\ v \in queue => Cardinality((queue \ {v}) \cup {i}) = Cardinality(queue)
           /\ v \in queue => Cardinality(queue \ {v}) <= Cardinality(queue)
  <1>1. IsFiniteSet(queue) /\ Cardinality(queue) \in Nat
    BY QueueFinite
  <1>2. i \notin queue => Cardinality(queue \cup {i}) = Cardinality(queue) + 1
    BY <1>1, FS_AddElement
  <1>3. v \in queue => IsFiniteSet(queue \ {v}) /\ Cardinality(queue \ {v}) = Cardinality(queue) - 1
    BY <1>1, FS_RemoveElement
  <1>4. IsFiniteSet(queue \ {v}) /\ i \notin queue
            => Cardinality((queue \ {v}) \cup {i}) = Cardinality(queue \ {v}) + 1
    BY FS_AddElement
  <1>5. QED
    BY <1>1, <1>2, <1>3, <1>4

-----------------------------------------------------------------------------
(* Every action preserves it *)

\* An event the pump does not accept, or accepts while a loop is live.
LEMMA OfferKeeps ==
    ASSUME PumpInv, NEW i, i = offered + 1, offered < MaxOffers, offered' = i,
           NEW q \in SUBSET (1..i), Cardinality(q) <= Capacity,
           NEW f \in [Id -> Fate], f[i] \in {"queued", "rejected", "refused"},
           f[i] = "queued" <=> i \in q,
           \A j \in Id \ {i} : \/ f[j] = fate[j] /\ (j \in q <=> j \in queue)
                               \/ fate[j] = "queued" /\ f[j] = "evicted" /\ j \notin q,
           queue' = q, fate' = f, UNCHANGED <<kind, loops, draining, stopped, stopping>>,
           q = queue \/ (~stopped /\ loops # {})
    PROVE  PumpInv'
  <1>1. i \in Id /\ fate[i] = "new" /\ offered \in Nat
    BY DeliveryAssumption DEF PumpInv, DeliveryTypeOK, FateInv, Id
  <1>2. DeliveryTypeOK'
    BY <1>1 DEF PumpInv, DeliveryTypeOK, Id
  <1>3. FateInv'
    <2>1. \A j \in Id : j # i => (j > i <=> j > offered)
      BY <1>1, DeliveryAssumption DEF Id
    <2>2. \A j \in Id \ {i} : /\ f[j] = "new" <=> fate[j] = "new"
                              /\ f[j] = "queued" <=> j \in q
                              /\ f[j] = "sending" <=> fate[j] = "sending"
      BY DEF PumpInv, FateInv
    <2>3. QED
      BY <1>1, <2>1, <2>2 DEF PumpInv, FateInv
  <1>4. LoopInv'
    <2>1. stopping = "no" => ~stopped
      BY DEF PumpInv, StopInv
    <2>2. \A l \in loops : l.final /\ l.phase = "returned" => q = {}
      BY DEF PumpInv, LoopInv, StopInv
    <2>3. QED
      BY <2>2 DEF PumpInv, LoopInv, OneSender
  <1>5. StopInv'
    BY DEF PumpInv, StopInv
  <1>6. FifoWithinPriority'
    <2>1. SUFFICES ASSUME NEW j \in Id, NEW k \in Id, j < k, Priority(j) = Priority(k), f[j] = "queued",
                          f[k] \in {"sending", "delivered", "failed"}
                   PROVE  FALSE
      BY DEF FifoWithinPriority, Priority
    <2>2. k # i /\ fate[k] = f[k]
      BY <2>1
    <2>3. j # i
      <3>1. SUFFICES ASSUME j = i PROVE FALSE
        OBVIOUS
      <3>2. k > offered
        BY <1>1, <2>1, <3>1, DeliveryAssumption DEF Id
      <3>3. QED
        BY <2>1, <2>2, <3>2 DEF PumpInv, FateInv
    <2>4. fate[j] = "queued"
      BY <2>1, <2>3
    <2>5. QED
      BY <2>1, <2>2, <2>4 DEF PumpInv, FifoWithinPriority
  <1>7. QED
    BY <1>2, <1>3, <1>4, <1>5, <1>6 DEF PumpInv

\* A loop is live and the pump runs, or nothing waits: kick() starts the first loop.
LEMMA Idle ==
    ASSUME PumpInv, ~stopped
    PROVE  /\ draining # None <=> loops # {}
           /\ draining = None => queue = {}
  <1>1. \A l \in loops : l.run \in Id /\ l.final \in BOOLEAN
    BY DEF PumpInv, DeliveryTypeOK, Loop
  <1>2. \A l \in loops : l.run # None
    BY <1>1, DeliveryAssumption DEF Id, None
  <1>3. QED
    BY <1>1, <1>2 DEF PumpInv, LoopInv, StopInv

\* A loop takes the next event, with the types and sizes that go with it.
LEMMA TakeKeeps ==
    ASSUME PumpInv, NEW q \in SUBSET (1..offered'), q # {}, Cardinality(queue') <= Capacity,
           NEW f \in [Id -> Fate], NEW run \in Id, NEW final \in BOOLEAN,
           loops' = {Fetching(run, final, Best(q))},
           queue' = q \ {Best(q)},
           fate' = [f EXCEPT ![Best(q)] = "sending"],
           \A i \in Id : (f[i] = "queued" <=> i \in q) /\ f[i] # "sending" /\ (f[i] = "new" <=> i > offered'),
           \A i, j \in Id : i < j /\ Priority(i) = Priority(j) /\ f[i] = "queued"
                               => f[j] \notin {"sending", "delivered", "failed"},
           kind' = kind, offered' \in 0..MaxOffers, stopped' \in BOOLEAN,
           stopped' <=> stopping' # "no",
           final => stopping' = "final" /\ draining' = None,
           ~final => stopping' \in {"no", "awaiting"} /\ draining' = run
    PROVE  PumpInv'
  <1>0. q \in SUBSET Id
    BY DeliveryAssumption DEF Id
  <1>1. /\ loops' \subseteq Loop
        /\ \A l \in loops' : l.run = run /\ l.final = final /\ l.phase = "fetching"
        /\ fate' \in [Id -> Fate]
        /\ \A i \in Id :
             /\ fate'[i] = "new" <=> f[i] = "new"
             /\ fate'[i] = "queued" <=> i \in queue'
             /\ fate'[i] = "sending" <=> \E l \in loops' : l.event = i /\ l.phase # "returned"
        /\ \A i, j \in Id : i < j /\ Priority(i) = Priority(j) /\ fate'[i] = "queued"
                            => fate'[j] \notin {"sending", "delivered", "failed"}
    <2> DEFINE b == Best(q)
               l == Fetching(run, final, b)
    <2>1. b \in q /\ b \in Id
      BY <1>0, BestOf
    <2>2. \A j \in q : Priority(j) < Priority(b) \/ (Priority(j) = Priority(b) /\ b <= j)
      BY <1>0, BestOf
    <2>3. loops' = {l} /\ queue' = q \ {b} /\ fate' = [f EXCEPT ![b] = "sending"]
      OBVIOUS
    <2>4. l \in Loop /\ l.event = b /\ l.phase = "fetching" /\ l.run = run /\ l.final = final
      BY <2>1, DeliveryAssumption DEF Fetching, Loop
    <2> HIDE DEF b, l
    <2>5. fate' \in [Id -> Fate]
      BY <2>1, <2>3 DEF Fate, Pending
    <2>6. \A i \in Id : /\ fate'[i] = "new" <=> f[i] = "new"
                        /\ fate'[i] = "queued" <=> i \in queue'
                        /\ fate'[i] = "sending" <=> i = b
      BY <2>1, <2>3
    <2>7. \A i \in Id : i = b <=> \E k \in loops' : k.event = i /\ k.phase # "returned"
      BY <2>3, <2>4
    <2>8. ASSUME NEW i \in Id, NEW j \in Id, i < j, Priority(i) = Priority(j), fate'[i] = "queued"
          PROVE  fate'[j] \notin {"sending", "delivered", "failed"}
      <3>1. i \in q /\ i # b
        BY <2>3, <2>6, <2>8
      <3>2. j # b
        BY <2>1, <2>2, <2>8, <3>1, PriorityRange, DeliveryAssumption DEF Id
      <3>3. QED
        BY <2>3, <2>8, <3>1, <3>2
    <2>9. QED
      BY <2>3, <2>4, <2>5, <2>6, <2>7, <2>8
  <1>2. DeliveryTypeOK'
    <2>1. stopping' \in {"no", "awaiting", "final", "done"} /\ draining' \in Id \cup {None}
      OBVIOUS
    <2>2. QED
      BY <1>1, <2>1 DEF PumpInv, DeliveryTypeOK
  <1>3. FateInv'
    BY <1>1 DEF FateInv
  <1>4. LoopInv'
    <2>1. OneSender'
      BY DEF OneSender
    <2>2. loops' # {}
      OBVIOUS
    <2>3. QED
      BY <1>1, <2>1, <2>2 DEF LoopInv
  <1>5. StopInv'
    <2>1. loops' # {} /\ stopping' # "done"
      OBVIOUS
    <2>2. QED
      BY <2>1 DEF StopInv
  <1>6. FifoWithinPriority'
    BY <1>1 DEF FifoWithinPriority, Priority
  <1>7. QED
    BY <1>2, <1>3, <1>4, <1>5, <1>6 DEF PumpInv

\* QueuePump.enqueue, in each of its outcomes.
LEMMA EnqueueKeeps ==
    ASSUME PumpInv, Enqueue
    PROVE  PumpInv'
  <1> DEFINE i == offered + 1
  <1>1. /\ i \in Id /\ i \in 0..MaxOffers /\ fate[i] = "new" /\ i \notin queue
        /\ queue \subseteq 1..i /\ i \in 1..i /\ fate \in [Id -> Fate]
        /\ Cardinality(queue) \in Nat /\ Cardinality(queue) <= Capacity
    <2>1. i \in Id /\ i \in 0..MaxOffers /\ i > offered /\ i \in 1..i
      BY DeliveryAssumption DEF PumpInv, DeliveryTypeOK, Enqueue, Id
    <2>2. fate[i] = "new" /\ i \notin queue
      BY <2>1 DEF PumpInv, FateInv
    <2>3. queue \subseteq 1..i
      BY DEF PumpInv, DeliveryTypeOK
    <2>4. QED
      BY <2>1, <2>2, <2>3, QueueFinite DEF PumpInv, DeliveryTypeOK
  <1>2. offered < MaxOffers /\ offered' = i /\ UNCHANGED <<kind, stopped, stopping>>
    BY DEF Enqueue
  <1>3. CASE stopped
    <2>1. fate' = [fate EXCEPT ![i] = "refused"] /\ UNCHANGED <<queue, loops, draining>>
      BY <1>3 DEF Enqueue
    <2> DEFINE f == [fate EXCEPT ![i] = "refused"]
    <2>2. f \in [Id -> Fate] /\ f[i] = "refused" /\ \A j \in Id \ {i} : f[j] = fate[j]
      BY <1>1 DEF Fate
    <2> HIDE DEF f, i
    <2>3. QED
      BY <1>1, <1>2, <2>1, <2>2, OfferKeeps DEF f, i
  <1>4. CASE ~stopped /\ draining # None
    <2>1. loops # {}
      BY <1>4, Idle
    <2>2. ASSUME NEW q, NEW f, Kick(draining, q, loops, f)
          PROVE  queue' = q /\ fate' = f /\ UNCHANGED <<loops, draining>>
      BY <1>4, <2>2 DEF Kick
    <2>3. CASE Admit(i)
      <3> DEFINE f == [fate EXCEPT ![i] = "queued"]
                 q == queue \cup {i}
      <3>1. queue' = q /\ fate' = f /\ UNCHANGED <<loops, draining>> /\ Cardinality(queue) < Capacity
        BY <2>2, <2>3 DEF Admit
      <3>2. Cardinality(q) <= Capacity
        BY <1>1, <3>1, QueueSize, DeliveryAssumption DEF PumpInv
      <3>3. q \in SUBSET (1..i) /\ i \in q
        BY <1>1
      <3>4. f \in [Id -> Fate] /\ f[i] = "queued" /\ \A j \in Id \ {i} : f[j] = fate[j] /\ (j \in q <=> j \in queue)
        BY <1>1 DEF Fate, Pending
      <3> HIDE DEF f, q, i
      <3>5. QED
        BY <1>1, <1>2, <1>4, <2>1, <3>1, <3>2, <3>3, <3>4, OfferKeeps DEF i
    <2>4. CASE Evict(i)
      <3>1. PICK v \in Victims(i) :
                Kick(draining, (queue \ {v}) \cup {i}, loops, [fate EXCEPT ![i] = "queued", ![v] = "evicted"])
        BY <2>4 DEF Evict
      <3> DEFINE f == [fate EXCEPT ![i] = "queued", ![v] = "evicted"]
                 q == (queue \ {v}) \cup {i}
      <3>2. v \in queue /\ v # i /\ v \in Id /\ fate[v] = "queued"
        <4>1. v \in queue
          BY DEF Victims
        <4>2. v \in Id
          BY <4>1, <1>1, DeliveryAssumption DEF PumpInv, DeliveryTypeOK, Id
        <4>3. QED
          BY <4>1, <4>2, <1>1 DEF PumpInv, FateInv
      <3>3. queue' = q /\ fate' = f /\ UNCHANGED <<loops, draining>>
        BY <2>2, <3>1
      <3>4. Cardinality(q) <= Capacity
        BY <1>1, <3>2, QueueSize DEF PumpInv
      <3>5. q \in SUBSET (1..i) /\ i \in q
        BY <1>1
      <3>6. /\ f \in [Id -> Fate] /\ f[i] = "queued"
            /\ \A j \in Id \ {i} : \/ f[j] = fate[j] /\ (j \in q <=> j \in queue)
                                   \/ fate[j] = "queued" /\ f[j] = "evicted" /\ j \notin q
        BY <1>1, <3>2 DEF Fate, Pending
      <3> HIDE DEF f, q, i
      <3>7. QED
        BY <1>1, <1>2, <1>4, <2>1, <3>3, <3>4, <3>5, <3>6, OfferKeeps DEF i
    <2>5. CASE Reject(i)
      <3> DEFINE f == [fate EXCEPT ![i] = "rejected"]
      <3>1. queue' = queue /\ fate' = f /\ UNCHANGED <<loops, draining>>
        BY <2>2, <2>5 DEF Reject
      <3>2. f \in [Id -> Fate] /\ f[i] = "rejected" /\ \A j \in Id \ {i} : f[j] = fate[j]
        BY <1>1 DEF Fate
      <3> HIDE DEF f, i
      <3>3. QED
        BY <1>1, <1>2, <3>1, <3>2, OfferKeeps DEF i
    <2>6. QED
      BY <1>4, <2>3, <2>4, <2>5 DEF Enqueue
  <1>5. CASE ~stopped /\ draining = None
    <2>1. queue = {} /\ loops = {}
      BY <1>5, Idle
    <2>2. Cardinality(queue) = 0
      BY <2>1, FS_EmptySet
    <2>3. Admit(i)
      BY <1>5, <2>2, DeliveryAssumption DEF Enqueue, Evict, Reject
    <2> DEFINE f == [fate EXCEPT ![i] = "queued"]
               q == {i}
    <2>4. Kick(None, q, {}, f)
      BY <1>5, <2>1, <2>3 DEF Admit
    <2>5. /\ loops' = {Fetching(Best(q), FALSE, Best(q))} /\ queue' = q \ {Best(q)}
          /\ fate' = [f EXCEPT ![Best(q)] = "sending"] /\ draining' = Best(q)
      BY <1>5, <2>4 DEF Kick, Start
    <2>6. q \in SUBSET Id /\ q # {} /\ q \in SUBSET (1..i) /\ Best(q) \in q
      <3>1. q \in SUBSET Id /\ q # {} /\ q \in SUBSET (1..i)
        BY <1>1
      <3>2. QED
        BY <3>1, BestOf
    <2>7. Cardinality(queue') <= Capacity
      <3>1. queue' = {}
        BY <2>5, <2>6
      <3>2. QED
        BY <3>1, FS_EmptySet, DeliveryAssumption
    <2>8. /\ f \in [Id -> Fate]
          /\ \A j \in Id : /\ f[j] = "queued" <=> j \in q
                           /\ f[j] # "sending"
                           /\ f[j] = "new" <=> j > i
      <3>1. \A j \in Id : fate[j] \notin {"queued", "sending"} /\ (fate[j] = "new" <=> j > offered)
        BY <2>1 DEF PumpInv, FateInv
      <3>2. \A j \in Id : j # i => (j > i <=> j > offered)
        BY <1>1, DeliveryAssumption DEF Id, PumpInv, DeliveryTypeOK
      <3>3. QED
        BY <1>1, <3>1, <3>2 DEF Fate, Pending, Id
    <2>9. \A j, k \in Id : j < k /\ Priority(j) = Priority(k) /\ f[j] = "queued"
                               => f[k] \notin {"sending", "delivered", "failed"}
      BY <1>1, <2>8, DeliveryAssumption DEF Id
    <2>10. stopped' = FALSE /\ stopping' = "no" /\ Best(q) \in Id
      BY <1>1, <1>2, <1>5, <2>6 DEF PumpInv, StopInv, DeliveryTypeOK
    <2> HIDE DEF f, q, i
    <2>11. QED
      BY <1>1, <1>2, <2>5, <2>6, <2>7, <2>8, <2>9, <2>10, TakeKeeps
  <1>6. QED
    BY <1>3, <1>4, <1>5

\* What the invariant says of the one live loop.
LEMMA TheLoop ==
    ASSUME PumpInv, NEW l \in loops
    PROVE  /\ loops = {l} /\ l \in Loop /\ l.run # None
           /\ l.final => stopping = "final" /\ draining = None
           /\ ~l.final => stopping \in {"no", "awaiting"} /\ draining = l.run
           /\ l.final /\ l.phase = "returned" => queue = {}
           /\ l.phase = "sleeping" => l.attempt < MaxRetries
           /\ \A i \in Id : fate[i] = "sending" <=> (i = l.event /\ l.phase # "returned")
  <1>1. loops = {l} /\ l \in Loop
    BY DEF PumpInv, LoopInv, OneSender, DeliveryTypeOK
  <1>2. l.run # None
    BY <1>1, DeliveryAssumption DEF Loop, Id, None
  <1>3. \A i \in Id : fate[i] = "sending" <=> (i = l.event /\ l.phase # "returned")
    BY <1>1 DEF PumpInv, FateInv
  <1>4. QED
    BY <1>1, <1>2, <1>3 DEF PumpInv, LoopInv

\* A step of the live loop that stays with its event.
LEMMA WaitKeeps ==
    ASSUME PumpInv, NEW l \in loops, l.phase # "returned", NEW k \in Loop,
           k.run = l.run, k.final = l.final, k.event = l.event, k.phase # "returned",
           k.phase = "sleeping" => k.attempt < MaxRetries,
           loops' = {k}, UNCHANGED <<kind, offered, queue, draining, stopped, stopping, fate>>
    PROVE  PumpInv'
  <1>1. /\ loops = {l} /\ l \in Loop
        /\ l.final => stopping = "final" /\ draining = None
        /\ ~l.final => stopping \in {"no", "awaiting"} /\ draining = l.run
        /\ \A i \in Id : fate[i] = "sending" <=> (i = l.event /\ l.phase # "returned")
    BY TheLoop
  <1>2. DeliveryTypeOK'
    BY DEF PumpInv, DeliveryTypeOK
  <1>3. FateInv'
    BY <1>1 DEF PumpInv, FateInv
  <1>4. LoopInv'
    BY <1>1 DEF PumpInv, LoopInv, OneSender
  <1>5. StopInv'
    BY <1>1 DEF PumpInv, StopInv
  <1>6. FifoWithinPriority'
    BY DEF PumpInv, FifoWithinPriority, Priority
  <1>7. QED
    BY <1>2, <1>3, <1>4, <1>5, <1>6 DEF PumpInv

\* The sender is done with an event: the loop takes the next one or returns.
LEMMA FinishKeeps ==
    ASSUME PumpInv, NEW l \in loops, l.phase = "fetching", NEW end \in {"delivered", "failed"},
           Finish(l, end), UNCHANGED <<kind, offered, draining, stopped, stopping>>
    PROVE  PumpInv'
  <1> DEFINE f == [fate EXCEPT ![l.event] = end]
  <1>1. /\ loops = {l} /\ l \in Loop /\ l.run \in Id /\ l.final \in BOOLEAN /\ l.event \in Id
        /\ l.final => stopping = "final" /\ draining = None
        /\ ~l.final => stopping \in {"no", "awaiting"} /\ draining = l.run
        /\ \A i \in Id : fate[i] = "sending" <=> i = l.event
    BY TheLoop DEF Loop
  <1>2. /\ f \in [Id -> Fate]
        /\ \A i \in Id : /\ f[i] = "queued" <=> i \in queue
                         /\ f[i] # "sending"
                         /\ f[i] = "new" <=> i > offered
    BY <1>1 DEF PumpInv, DeliveryTypeOK, FateInv, Fate, Pending
  <1>3. \A i, j \in Id : i < j /\ Priority(i) = Priority(j) /\ f[i] = "queued"
                             => f[j] \notin {"sending", "delivered", "failed"}
    <2>1. \A i \in Id : f[i] = "queued" => fate[i] = "queued"
      BY <1>1 DEF PumpInv, DeliveryTypeOK
    <2>2. \A j \in Id : f[j] \in {"sending", "delivered", "failed"}
                            => fate[j] \in {"sending", "delivered", "failed"}
      BY <1>1 DEF PumpInv, DeliveryTypeOK
    <2> HIDE DEF f
    <2>3. QED
      BY <2>1, <2>2 DEF PumpInv, FifoWithinPriority
  <1>4. CASE queue = {}
    <2> DEFINE k == [l EXCEPT !.phase = "returned"]
    <2>1. loops' = {k} /\ fate' = f /\ queue' = queue
      BY <1>1, <1>4 DEF Finish
    <2>2. k \in Loop /\ k.run = l.run /\ k.final = l.final /\ k.phase = "returned"
      BY <1>1 DEF Loop
    <2> HIDE DEF k, f
    <2>3. DeliveryTypeOK'
      BY <1>2, <2>1, <2>2 DEF PumpInv, DeliveryTypeOK
    <2>4. FateInv'
      BY <1>2, <2>1, <2>2 DEF FateInv
    <2>5. LoopInv'
      BY <1>1, <1>4, <2>1, <2>2 DEF PumpInv, LoopInv, OneSender
    <2>6. StopInv'
      BY <1>1, <2>1 DEF PumpInv, StopInv
    <2>7. FifoWithinPriority'
      BY <1>3, <2>1 DEF FifoWithinPriority, Priority
    <2>8. QED
      BY <2>3, <2>4, <2>5, <2>6, <2>7 DEF PumpInv
  <1>5. CASE queue # {}
    <2>1. /\ loops' = {Fetching(l.run, l.final, Best(queue))}
          /\ queue' = queue \ {Best(queue)}
          /\ fate' = [f EXCEPT ![Best(queue)] = "sending"]
      BY <1>1, <1>5 DEF Finish
    <2>2. queue \in SUBSET Id /\ queue \in SUBSET (1..offered')
      BY DeliveryAssumption DEF PumpInv, DeliveryTypeOK, Id
    <2>3. Best(queue) \in queue
      BY <1>5, <2>2, BestOf
    <2>4. Cardinality(queue') <= Capacity
      <3>1. Cardinality(queue \ {Best(queue)}) <= Cardinality(queue)
        BY <2>3, QueueSize DEF PumpInv
      <3>2. queue' \in SUBSET queue
        BY <2>1
      <3>3. Cardinality(queue') \in Nat
        BY <3>2, QueueFinite, FS_Subset, FS_CardinalityType DEF PumpInv
      <3>4. QED
        BY <2>1, <3>1, <3>3, QueueFinite, DeliveryAssumption DEF PumpInv, DeliveryTypeOK
    <2>5. /\ kind' = kind /\ offered' \in 0..MaxOffers /\ stopped' \in BOOLEAN
          /\ stopped' <=> stopping' # "no"
          /\ l.final => stopping' = "final" /\ draining' = None
          /\ ~l.final => stopping' \in {"no", "awaiting"} /\ draining' = l.run
      BY <1>1 DEF PumpInv, StopInv, DeliveryTypeOK
    <2>6. \A i \in Id : (f[i] = "queued" <=> i \in queue) /\ f[i] # "sending" /\ (f[i] = "new" <=> i > offered')
      BY <1>2
    <2> HIDE DEF f
    <2>7. QED
      BY <1>1, <1>2, <1>3, <1>5, <2>1, <2>2, <2>4, <2>5, <2>6, TakeKeeps
  <1>6. QED
    BY <1>4, <1>5

\* drain() started on what waits when no loop is live.
LEMMA StartKeeps ==
    ASSUME PumpInv, loops = {} \/ \E l \in loops : l.phase = "returned", queue # {},
           NEW final \in BOOLEAN, Start(final, queue, {}, fate),
           UNCHANGED <<kind, offered>>, stopped' \in BOOLEAN, stopped' <=> stopping' # "no",
           final => stopping' = "final" /\ draining' = None,
           ~final => stopping' \in {"no", "awaiting"} /\ draining' = Best(queue)
    PROVE  PumpInv'
  <1>1. \A i \in Id : fate[i] # "sending"
    BY TheLoop DEF PumpInv, FateInv
  <1>2. queue \in SUBSET Id /\ queue \in SUBSET (1..offered')
    BY DeliveryAssumption DEF PumpInv, DeliveryTypeOK, Id
  <1>3. Best(queue) \in queue /\ Best(queue) \in Id
    BY <1>2, BestOf
  <1>4. /\ loops' = {Fetching(Best(queue), final, Best(queue))}
        /\ queue' = queue \ {Best(queue)}
        /\ fate' = [fate EXCEPT ![Best(queue)] = "sending"]
    BY DEF Start
  <1>5. Cardinality(queue') <= Capacity
    <2>1. Cardinality(queue \ {Best(queue)}) <= Cardinality(queue)
      BY <1>3, QueueSize DEF PumpInv
    <2>2. queue' \in SUBSET queue
      BY <1>4
    <2>3. Cardinality(queue') \in Nat
      BY <2>2, QueueFinite, FS_Subset, FS_CardinalityType DEF PumpInv
    <2>4. QED
      BY <1>4, <2>1, <2>3, QueueFinite, DeliveryAssumption DEF PumpInv, DeliveryTypeOK
  <1>6. \A i \in Id : (fate[i] = "queued" <=> i \in queue) /\ fate[i] # "sending" /\ (fate[i] = "new" <=> i > offered')
    BY <1>1 DEF PumpInv, FateInv
  <1>7. \A i, j \in Id : i < j /\ Priority(i) = Priority(j) /\ fate[i] = "queued"
                             => fate[j] \notin {"sending", "delivered", "failed"}
    BY DEF PumpInv, FifoWithinPriority
  <1>8. fate \in [Id -> Fate] /\ offered' \in 0..MaxOffers
    BY DEF PumpInv, DeliveryTypeOK
  <1>9. QED
    BY <1>2, <1>3, <1>4, <1>5, <1>6, <1>7, <1>8, TakeKeeps

\* No loop is left and nothing waits that stop() would not look at.
LEMMA QuietKeeps ==
    ASSUME PumpInv, loops = {} \/ \E l \in loops : l.phase = "returned",
           loops' = {}, UNCHANGED <<kind, offered, queue, fate>>, draining' = None,
           stopped' \in BOOLEAN, stopped' <=> stopping' # "no",
           stopping' \in {"no", "awaiting", "done"}, stopping' # "awaiting" => queue = {}
    PROVE  PumpInv'
  <1>1. \A i \in Id : fate[i] # "sending"
    BY TheLoop DEF PumpInv, FateInv
  <1>2. DeliveryTypeOK'
    BY DEF PumpInv, DeliveryTypeOK
  <1>3. FateInv'
    BY <1>1 DEF PumpInv, FateInv
  <1>4. LoopInv'
    BY DEF LoopInv, OneSender
  <1>5. StopInv'
    BY DEF StopInv
  <1>6. FifoWithinPriority'
    BY DEF PumpInv, FifoWithinPriority, Priority
  <1>7. QED
    BY <1>2, <1>3, <1>4, <1>5, <1>6 DEF PumpInv

\* The end of stop(), from no live loop.
LEMMA FinalDrainKeeps ==
    ASSUME PumpInv, loops = {}, FinalDrain, UNCHANGED <<kind, offered, draining>>, stopped' = TRUE
    PROVE  PumpInv'
  <1>1. draining' = None
    BY DEF PumpInv, LoopInv
  <1>2. CASE queue = {} /\ stopping' = "done" /\ UNCHANGED <<loops, queue, fate>>
    BY <1>1, <1>2, QuietKeeps
  <1>3. CASE queue # {} /\ stopping' = "final" /\ Start(TRUE, queue, loops, fate)
    BY <1>1, <1>3, StartKeeps
  <1>4. QED
    BY <1>2, <1>3 DEF FinalDrain

\* kick's settle callback.
LEMMA SettleKeeps ==
    ASSUME PumpInv, NEW l \in loops, Settle(l)
    PROVE  PumpInv'
  <1>1. /\ loops = {l} /\ l \in Loop /\ l.phase = "returned" /\ ~l.final
        /\ stopping \in {"no", "awaiting"} /\ draining = l.run
        /\ UNCHANGED <<kind, offered, stopped, stopping>>
    BY TheLoop DEF Settle
  <1>2. stopped \in BOOLEAN /\ (stopped <=> stopping # "no")
    BY DEF PumpInv, StopInv, DeliveryTypeOK
  <1>3. CASE ~stopped /\ queue # {}
    <2>1. Start(FALSE, queue, {}, fate) /\ draining' = Best(queue)
      BY <1>1, <1>3 DEF Settle, Kick
    <2>2. QED
      BY <1>1, <1>2, <1>3, <2>1, StartKeeps
  <1>4. CASE stopped \/ queue = {}
    <2>1. loops' = {} /\ draining' = None /\ UNCHANGED <<queue, fate>>
      BY <1>1, <1>4 DEF Settle
    <2>2. QED
      BY <1>1, <1>2, <1>4, <2>1, QuietKeeps
  <1>5. QED
    BY <1>3, <1>4

\* Every step of the live loop.
LEMMA LoopStepKeeps ==
    ASSUME PumpInv, NEW l \in loops, LoopStep(l)
    PROVE  PumpInv'
  <1>1. loops = {l} /\ l \in Loop
    BY TheLoop
  <1>2. CASE AttemptOk(l)
    BY <1>2, FinishKeeps DEF AttemptOk
  <1>3. CASE AttemptPermanent(l)
    BY <1>3, FinishKeeps DEF AttemptPermanent
  <1>4. CASE AttemptRetryable(l)
    <2>1. CASE l.attempt = MaxRetries /\ Finish(l, "failed")
      BY <1>4, <2>1, FinishKeeps DEF AttemptRetryable
    <2>2. CASE l.attempt < MaxRetries /\ UNCHANGED <<queue, fate>> /\ loops' = (loops \ {l}) \cup {[l EXCEPT !.phase = "sleeping"]}
      <3> DEFINE k == [l EXCEPT !.phase = "sleeping"]
      <3>1. /\ k \in Loop /\ k.run = l.run /\ k.final = l.final /\ k.event = l.event
            /\ k.phase # "returned" /\ l.phase # "returned" /\ k.attempt < MaxRetries
        BY <1>1, <1>4, <2>2 DEF Loop, AttemptRetryable
      <3>2. loops' = {k}
        BY <1>1, <2>2
      <3> HIDE DEF k
      <3>3. QED
        BY <1>4, <2>2, <3>1, <3>2, WaitKeeps DEF AttemptRetryable
    <2>3. QED
      BY <1>4, <2>1, <2>2 DEF AttemptRetryable
  <1>5. CASE BackoffEnds(l)
    <2> DEFINE k == [l EXCEPT !.phase = "fetching", !.attempt = @ + 1]
    <2>1. l.phase = "sleeping" /\ l.attempt < MaxRetries
      BY <1>5, TheLoop DEF BackoffEnds
    <2>2. k \in Loop /\ k.run = l.run /\ k.final = l.final /\ k.event = l.event /\ k.phase = "fetching"
      <3>1. l.attempt + 1 \in 0..MaxRetries
        BY <1>1, <2>1, DeliveryAssumption DEF Loop
      <3>2. QED
        BY <1>1, <3>1 DEF Loop
    <2>3. loops' = {k} /\ UNCHANGED <<kind, offered, queue, draining, stopped, stopping, fate>>
      BY <1>1, <1>5 DEF BackoffEnds
    <2> HIDE DEF k
    <2>4. QED
      BY <2>1, <2>2, <2>3, WaitKeeps
  <1>6. CASE Settle(l)
    BY <1>6, SettleKeeps
  <1>7. CASE StopEnds(l)
    <2>1. l.phase = "returned" /\ l.final /\ queue = {} /\ draining = None /\ stopping = "final"
      BY <1>7, TheLoop DEF StopEnds
    <2>2. loops' = {} /\ stopping' = "done" /\ UNCHANGED <<kind, offered, queue, draining, stopped, fate>>
      BY <1>1, <1>7 DEF StopEnds
    <2>3. stopped = TRUE
      BY <2>1 DEF PumpInv, StopInv, DeliveryTypeOK
    <2>4. QED
      BY <2>1, <2>2, <2>3, QuietKeeps
  <1>8. QED
    BY <1>2, <1>3, <1>4, <1>5, <1>6, <1>7 DEF LoopStep

-----------------------------------------------------------------------------
(* Theorems *)

\* The strengthening of the invariants below holds in every reachable state.
THEOREM PumpInvariant == DeliverySpec => []PumpInv
  <1>1. DeliveryInit => PumpInv
    <2>1. SUFFICES ASSUME DeliveryInit PROVE PumpInv
      OBVIOUS
    <2>2. DeliveryTypeOK
      <3>1. Cardinality(queue) <= Capacity
        BY <2>1, FS_EmptySet, DeliveryAssumption DEF DeliveryInit
      <3>2. fate \in [Id -> Fate]
        BY <2>1 DEF DeliveryInit, Fate
      <3>3. 0 \in 0..MaxOffers
        BY DeliveryAssumption
      <3>4. QED
        BY <2>1, <3>1, <3>2, <3>3 DEF DeliveryInit, DeliveryTypeOK
    <2>3. FateInv
      BY <2>1, DeliveryAssumption DEF DeliveryInit, FateInv, Id
    <2>4. LoopInv /\ StopInv
      BY <2>1 DEF DeliveryInit, LoopInv, StopInv, OneSender
    <2>5. FifoWithinPriority
      BY <2>1 DEF DeliveryInit, FifoWithinPriority
    <2>6. QED
      BY <2>2, <2>3, <2>4, <2>5 DEF PumpInv
  <1>2. PumpInv /\ [DeliveryNext]_dvars => PumpInv'
    <2>1. SUFFICES ASSUME PumpInv, [DeliveryNext]_dvars PROVE PumpInv'
      OBVIOUS
    <2>2. CASE Enqueue
      BY <2>1, <2>2, EnqueueKeeps
    <2>3. CASE Stop
      <3>1. stopped' = TRUE /\ UNCHANGED <<kind, offered, draining>> /\ stopping = "no" /\ ~stopped
        BY <2>1, <2>3 DEF Stop, PumpInv, StopInv, DeliveryTypeOK
      <3>2. CASE draining = None
        BY <2>1, <2>3, <3>1, <3>2, Idle, FinalDrainKeeps DEF Stop
      <3>3. CASE draining # None
        <4>1. stopping' = "awaiting" /\ UNCHANGED <<loops, queue, fate>> /\ loops # {}
          BY <2>1, <2>3, <3>1, <3>3, Idle DEF Stop
        <4>2. \A l \in loops : ~l.final
          BY <2>1, <3>1 DEF PumpInv, LoopInv
        <4>3. DeliveryTypeOK'
          BY <2>1, <3>1, <4>1 DEF PumpInv, DeliveryTypeOK
        <4>4. FateInv'
          BY <2>1, <3>1, <4>1 DEF PumpInv, FateInv
        <4>5. LoopInv'
          BY <2>1, <3>1, <4>1, <4>2 DEF PumpInv, LoopInv, OneSender
        <4>6. StopInv'
          BY <3>1, <4>1 DEF StopInv
        <4>7. FifoWithinPriority'
          BY <2>1, <3>1, <4>1 DEF PumpInv, FifoWithinPriority, Priority
        <4>8. QED
          BY <4>3, <4>4, <4>5, <4>6, <4>7 DEF PumpInv
      <3>4. QED
        BY <3>2, <3>3
    <2>4. CASE StopResumes
      <3>1. stopped' = TRUE
        BY <2>1, <2>4 DEF StopResumes, PumpInv, StopInv, DeliveryTypeOK
      <3>2. QED
        BY <2>1, <2>4, <3>1, FinalDrainKeeps DEF StopResumes
    <2>5. CASE \E l \in loops : LoopStep(l)
      BY <2>1, <2>5, LoopStepKeeps
    <2>6. CASE UNCHANGED dvars
      <3>1. UNCHANGED <<kind, offered, queue, loops, draining, stopped, stopping, fate>>
        BY <2>6 DEF dvars
      <3>2. DeliveryTypeOK'
        BY <2>1, <3>1 DEF PumpInv, DeliveryTypeOK
      <3>3. FateInv' /\ FifoWithinPriority'
        BY <2>1, <3>1 DEF PumpInv, FateInv, FifoWithinPriority, Priority
      <3>4. LoopInv' /\ StopInv'
        BY <2>1, <3>1 DEF PumpInv, LoopInv, StopInv, OneSender
      <3>5. QED
        BY <3>2, <3>3, <3>4 DEF PumpInv
    <2>7. QED
      BY <2>1, <2>2, <2>3, <2>4, <2>5, <2>6 DEF DeliveryNext
  <1>3. QED
    BY <1>1, <1>2, PTL DEF DeliverySpec

\* The queue never exceeds its capacity and every field keeps its type.
THEOREM DeliveryTypes == DeliverySpec => []DeliveryTypeOK
  <1>1. PumpInv => DeliveryTypeOK
    BY DEF PumpInv
  <1>2. QED
    BY <1>1, PumpInvariant, PTL

\* kick(), settle and stop() never run two senders at once.
THEOREM SingleSender == DeliverySpec => []OneSender
  <1>1. PumpInv => OneSender
    BY DEF PumpInv, LoopInv
  <1>2. QED
    BY <1>1, PumpInvariant, PTL

\* The gap between a loop's last dequeue and its settlement strands nothing.
THEOREM NothingStranded == DeliverySpec => []NeverStranded
  <1>1. PumpInv => NeverStranded
    <2>1. SUFFICES ASSUME PumpInv, queue # {} PROVE NeverStranded
      BY DEF NeverStranded
    <2>2. CASE loops = {}
      <3>1. stopping = "awaiting"
        BY <2>1, <2>2 DEF PumpInv, StopInv, DeliveryTypeOK
      <3>2. QED
        BY <3>1 DEF NeverStranded
    <2>3. CASE loops # {}
      <3>1. PICK l \in loops : TRUE
        BY <2>3
      <3>2. CASE l.phase # "returned"
        BY <3>2 DEF NeverStranded
      <3>3. CASE l.phase = "returned"
        <4>1. ~l.final
          BY <2>1, <3>3, TheLoop
        <4>2. stopping \in {"no", "awaiting"} /\ draining = l.run
          BY <2>1, <4>1, TheLoop
        <4>3. QED
          BY <2>1, <3>3, <4>2 DEF NeverStranded, PumpInv, StopInv
      <3>4. QED
        BY <3>2, <3>3
    <2>4. QED
      BY <2>2, <2>3
  <1>2. QED
    BY <1>1, PumpInvariant, PTL

\* The priority queue is first in, first out within each priority.
THEOREM FifoOrder == DeliverySpec => []FifoWithinPriority
  <1>1. PumpInv => FifoWithinPriority
    BY DEF PumpInv
  <1>2. QED
    BY <1>1, PumpInvariant, PTL

\* Both together: one sender, and order within each priority.
THEOREM OrderedDelivery == DeliverySpec => []InOrder
  <1>1. OneSender /\ FifoWithinPriority => InOrder
    BY DEF InOrder
  <1>2. QED
    BY <1>1, SingleSender, FifoOrder, PTL

\* A resolved stop() has left nothing queued and nothing in flight.
THEOREM StopComplete == DeliverySpec => []StopDrainsAll
  <1>1. PumpInv => StopDrainsAll
    <2>1. SUFFICES ASSUME PumpInv, stopping = "done" PROVE loops = {} /\ \A i \in Id : fate[i] \notin Pending
      BY DEF StopDrainsAll
    <2>2. loops = {} /\ queue = {}
      BY <2>1 DEF PumpInv, StopInv
    <2>3. QED
      BY <2>1, <2>2 DEF PumpInv, FateInv, Pending
  <1>2. QED
    BY <1>1, PumpInvariant, PTL

\* An event that leaves the queue unsent was evicted by the rules of evictionIndex.
LEMMA LossJustified ==
    ASSUME PumpInv, DeliveryNext, NEW v \in Id, fate[v] = "queued", fate'[v] \notin Pending
    PROVE  /\ fate'[v] = "evicted"
           /\ Priority(v) <= Priority(offered')
           /\ \A j \in queue : Priority(v) < Priority(j) \/ (Priority(v) = Priority(j) /\ v <= j)
  <1>0. fate \in [Id -> Fate] /\ v \in queue /\ queue \in SUBSET Id
    BY DeliveryAssumption DEF PumpInv, DeliveryTypeOK, FateInv, Id
  <1>1. \A f, q, rest, final : f[v] \in Pending /\ f \in [Id -> Fate] /\ Start(final, q, rest, f)
            => fate'[v] \in Pending
    BY DEF Start, Pending
  <1>2. \A f, q, rest, current : f[v] \in Pending /\ f \in [Id -> Fate] /\ Kick(current, q, rest, f)
            => fate'[v] \in Pending
    BY <1>1 DEF Kick
  <1>3. ASSUME NEW l \in loops, NEW end, l.phase = "fetching", Finish(l, end)
        PROVE  fate'[v] \in Pending
    <2>1. v # l.event
      BY <1>3, TheLoop
    <2>2. CASE queue = {}
      BY <1>0, <2>2
    <2>3. CASE queue # {}
      <3>1. fate' = [[fate EXCEPT ![l.event] = end] EXCEPT ![Best(queue)] = "sending"]
        BY <1>3, <2>3 DEF Finish
      <3>2. QED
        BY <1>0, <2>1, <3>1 DEF Pending
    <2>4. QED
      BY <2>2, <2>3
  <1>4. FinalDrain => fate'[v] \in Pending
    BY <1>0, <1>1 DEF FinalDrain, Pending
  <1>5. ASSUME NEW l \in loops, LoopStep(l)
        PROVE  FALSE
    <2>1. CASE AttemptOk(l) \/ AttemptPermanent(l) \/ AttemptRetryable(l)
      BY <1>3, <2>1 DEF AttemptOk, AttemptPermanent, AttemptRetryable, Pending
    <2>2. CASE BackoffEnds(l) \/ StopEnds(l)
      BY <2>2 DEF BackoffEnds, StopEnds, Pending
    <2>3. CASE Settle(l)
      BY <1>0, <1>2, <2>3 DEF Settle, Pending
    <2>4. QED
      BY <1>5, <2>1, <2>2, <2>3 DEF LoopStep
  <1>6. ~Stop /\ ~StopResumes
    BY <1>4 DEF Stop, StopResumes, Pending
  <1>7. Enqueue
    BY <1>5, <1>6 DEF DeliveryNext
  <1> DEFINE i == offered + 1
  <1>8. offered' = i /\ i \in Id /\ v # i
    <2>1. i \in Id /\ i > offered
      BY <1>7, DeliveryAssumption DEF Enqueue, PumpInv, DeliveryTypeOK, Id
    <2>2. QED
      BY <1>7, <2>1 DEF Enqueue, PumpInv, FateInv
  <1> HIDE DEF i
  <1>9. Evict(i) /\ ~stopped
    <2>1. CASE Admit(i)
      <3>1. [fate EXCEPT ![i] = "queued"] \in [Id -> Fate] /\ [fate EXCEPT ![i] = "queued"][v] \in Pending
        BY <1>0, <1>8 DEF Fate, Pending
      <3>2. QED
        BY <1>2, <2>1, <3>1 DEF Admit
    <2>2. CASE Reject(i)
      <3>1. [fate EXCEPT ![i] = "rejected"] \in [Id -> Fate] /\ [fate EXCEPT ![i] = "rejected"][v] \in Pending
        BY <1>0, <1>8 DEF Fate, Pending
      <3>2. QED
        BY <1>2, <2>2, <3>1 DEF Reject
    <2>3. CASE stopped /\ fate' = [fate EXCEPT ![i] = "refused"]
      BY <1>0, <1>8, <2>3 DEF Pending
    <2>4. QED
      BY <1>7, <2>1, <2>2, <2>3 DEF Enqueue, i
  <1>10. PICK w \in Victims(i) :
            Kick(draining, (queue \ {w}) \cup {i}, loops, [fate EXCEPT ![i] = "queued", ![w] = "evicted"])
    BY <1>9 DEF Evict
  <1> DEFINE f == [fate EXCEPT ![i] = "queued", ![w] = "evicted"]
  <1>11. f \in [Id -> Fate]
    BY <1>0, <1>8 DEF Fate, Pending
  <1>12. w = v
    <2>1. SUFFICES ASSUME w # v PROVE FALSE
      OBVIOUS
    <2>2. f[v] \in Pending
      BY <1>0, <1>8, <2>1 DEF Pending
    <2> HIDE DEF f
    <2>3. QED
      BY <1>2, <1>10, <1>11, <2>2 DEF f
  <1>13. fate'[v] = "evicted"
    <2>1. draining # None /\ ~stopped
      BY <1>0, <1>9, Idle
    <2>2. fate' = f
      BY <1>10, <2>1 DEF Kick
    <2>3. QED
      BY <1>0, <1>8, <1>11, <1>12, <2>2
  <1>14. QED
    BY <1>8, <1>12, <1>13 DEF Victims

\* No sequence of enqueues loses an event that the loss policy protects.
THEOREM LossesFollowPolicy == DeliverySpec => LossPolicy
  <1>1. PumpInv /\ [DeliveryNext]_dvars
          => [\A v \in Id :
                fate[v] = "queued" /\ fate'[v] \notin Pending =>
                    /\ fate'[v] = "evicted"
                    /\ Priority(v) <= Priority(offered')
                    /\ \A j \in queue : Priority(v) < Priority(j) \/ (Priority(v) = Priority(j) /\ v <= j)]_dvars
    BY LossJustified
  <1>2. QED
    BY <1>1, PumpInvariant, PTL DEF DeliverySpec, LossPolicy
=============================================================================
