-------------------------- MODULE EventIngestProofs --------------------------
(***************************************************************************)
(* Proofs about EventIngest, for every number of events, sockets, devices  *)
(* and retries, and every size of the dedupe window.                       *)
(***************************************************************************)
EXTENDS EventIngest, FiniteSetTheorems, SequenceTheorems, WellFoundedInduction, TLAPS

-----------------------------------------------------------------------------
(* The inductive invariant *)

Stage == {"sent", "waiting", "fanned", "pushing", "recording"}
Push == [device : Device, token : Nat, stage : {"sending", "clearing"}]
RequestType == [event : Event, attempt : 0..MaxRetries, stage : Stage, pushes : SUBSET Push]
RowType == [status : {"none", "stored", "deleted"}, enabled : BOOLEAN, token : Nat]

SenderTypeOK ==
    /\ current \in 1..MaxEvents + 1 /\ attempt \in 0..MaxRetries
    /\ phase \in {"idle", "waiting", "sleeping"}
    /\ fate \in [Event -> {"unsent", "accepted", "failed"}]

GatewayTypeOK ==
    /\ requests \subseteq RequestType
    /\ inFlight \subseteq Event
    /\ committed \in Seq(Event) /\ Len(committed) <= MaxCommitted
    /\ owed \subseteq Socket
    /\ dispatched \subseteq Event

DeviceInv ==
    /\ rows \in [Device -> RowType] /\ own \in [Device -> Nat]
    /\ \A d \in Device : rows[d].token <= own[d] /\ own[d] >= 1

\* The sender settles the events in order, one at a time, within its retries.
SenderInv ==
    /\ \A e \in Event : fate[e] = "unsent" <=> e >= current
    /\ phase # "idle" => current \in Event
    /\ phase = "sleeping" => attempt < MaxRetries

\* An attempt has one request at most, and none is in the future.
RequestsInv ==
    /\ \A r \in requests : /\ r.event <= current
                           /\ r.event = current => phase # "idle" /\ r.attempt <= attempt
    /\ \A r, q \in requests : r.event = q.event /\ r.attempt = q.attempt => r = q

Owns(r) == r.stage \in {"fanned", "pushing"}

\* An event is in flight while one request owns it, and a duplicate waits only then.
FlightInv ==
    /\ \A e \in inFlight : \E r \in requests : r.event = e /\ Owns(r)
    /\ \A r \in requests : Owns(r) \/ r.stage = "waiting" => r.event \in inFlight
    /\ \A r, q \in requests : Owns(r) /\ Owns(q) /\ r.event = q.event => r = q

\* Only what a dispatch has ended for is committed, or about to be answered 202; and
\* nothing is dispatched that the sender has not offered.
DoneInv ==
    /\ ToSet(committed) \subseteq dispatched
    /\ \A r \in requests : r.stage = "recording" => r.event \in dispatched
    /\ \A e \in dispatched : e <= current /\ (e = current => phase # "idle")

\* While a socket is owed the current event, no copy of it has got past dedupe.
OwedInv ==
    owed # {} => /\ current \notin dispatched
                 /\ \A r \in requests : r.event = current => r.stage = "sent"

\* What may not be fanned out again is in flight or committed.
ExcusedInv == \A e \in Event : e \notin excused => e \in inFlight \/ e \in ToSet(committed)

IngestInv ==
    /\ SenderTypeOK /\ GatewayTypeOK /\ DeviceInv /\ SenderInv /\ RequestsInv
    /\ FlightInv /\ DoneInv /\ OwedInv /\ ExcusedInv

-----------------------------------------------------------------------------
(* The dedupe entries *)

\* A set of numbers that is not empty has a least member.
LEMMA LeastOf ==
    ASSUME NEW T \in SUBSET Nat, T # {}
    PROVE  Min(T) \in T
  <1>1. PICK x \in T : \A y \in T : ~(<<y, x>> \in OpToRel(<, Nat))
    BY NatLessThanWellFounded, WFMin
  <1>2. \A y \in T : ~(y < x)
    BY <1>1 DEF OpToRel
  <1>3. \A y \in T : x <= y
    BY <1>2
  <1>4. QED
    BY <1>3 DEF Min

\* RemoveFirst leaves a sequence alone or removes one place that holds e.
LEMMA RemoveFirstIs ==
    ASSUME NEW S, NEW s \in Seq(S), NEW e
    PROVE  \/ e \notin ToSet(s) /\ RemoveFirst(s, e) = s
           \/ \E k \in DOMAIN s : s[k] = e /\ RemoveFirst(s, e) = RemoveAt(s, k)
  <1> DEFINE I == {i \in 1..Len(s) : s[i] = e}
             k == SelectInSeq(s, LAMBDA v : v = e)
  <1>1. k = IF I # {} THEN Min(I) ELSE 0
    BY DEF SelectInSeq
  <1>2. RemoveFirst(s, e) = IF \E i \in 1..Len(s) : s[i] = e THEN RemoveAt(s, k) ELSE s
    BY DEF RemoveFirst
  <1> HIDE DEF k
  <1>3. DOMAIN s = 1..Len(s) /\ I \in SUBSET Nat
    OBVIOUS
  <1>4. CASE I = {}
    BY <1>2, <1>3, <1>4 DEF ToSet
  <1>5. CASE I # {}
    <2>1. k \in I
      BY <1>1, <1>3, <1>5, LeastOf
    <2>2. QED
      BY <1>2, <1>3, <2>1
  <1>6. QED
    BY <1>4, <1>5

\* Removing a place loses what it holds and nothing else.
LEMMA RemoveAtIs ==
    ASSUME NEW S, NEW s \in Seq(S), NEW k \in DOMAIN s
    PROVE  /\ RemoveAt(s, k) \in Seq(S)
           /\ Len(RemoveAt(s, k)) = Len(s) - 1
           /\ ToSet(RemoveAt(s, k)) \subseteq ToSet(s)
           /\ ToSet(s) \subseteq ToSet(RemoveAt(s, k)) \cup {s[k]}
  <1> DEFINE a == SubSeq(s, 1, k - 1)
             b == SubSeq(s, k + 1, Len(s))
             t == RemoveAt(s, k)
  <1>1. DOMAIN s = 1..Len(s) /\ Len(s) \in Nat /\ k \in 1..Len(s)
    OBVIOUS
  <1>2. /\ a \in Seq(S) /\ Len(a) = k - 1 /\ \A i \in 1..(k - 1) : a[i] = s[i]
        /\ b \in Seq(S) /\ Len(b) = Len(s) - k /\ \A i \in 1..(Len(s) - k) : b[i] = s[k + i]
    BY <1>1
  <1> HIDE DEF a, b
  <1>3. t = a \o b
    BY DEF RemoveAt, a, b
  <1> HIDE DEF t
  <1>4. /\ t \in Seq(S) /\ Len(t) = Len(s) - 1 /\ DOMAIN t = 1..(Len(s) - 1)
        /\ \A i \in 1..(k - 1) : t[i] = s[i]
        /\ \A i \in k..(Len(s) - 1) : t[i] = s[i + 1]
    <2>1. t \in Seq(S) /\ Len(t) = Len(s) - 1
      <3>1. t \in Seq(S) /\ Len(t) = Len(a) + Len(b)
        BY <1>2, <1>3, ConcatProperties
      <3>2. QED
        BY <1>1, <1>2, <3>1
    <2>2. \A i \in 1..(k - 1) : t[i] = s[i]
      BY <1>1, <1>2, <1>3
    <2>3. ASSUME NEW i \in k..(Len(s) - 1)
          PROVE  t[i] = s[i + 1]
      <3>1. t[i] = b[i - (k - 1)]
        BY <1>1, <1>2, <1>3
      <3>2. i - (k - 1) \in 1..(Len(s) - k) /\ k + (i - (k - 1)) = i + 1
        BY <1>1
      <3>3. QED
        BY <1>2, <3>1, <3>2
    <2>4. QED
      BY <2>1, <2>2, <2>3
  <1>5. ToSet(t) \subseteq ToSet(s)
    BY <1>1, <1>4 DEF ToSet
  <1>6. ASSUME NEW j \in DOMAIN s, j # k
        PROVE  s[j] \in ToSet(t)
    <2>1. CASE j < k
      BY <1>1, <1>4, <1>6, <2>1 DEF ToSet
    <2>2. CASE j > k
      <3>1. j - 1 \in k..(Len(s) - 1) /\ j - 1 \in 1..(Len(s) - 1) /\ (j - 1) + 1 = j
        BY <1>1, <2>2
      <3>2. t[j - 1] = s[j]
        BY <1>4, <3>1
      <3>3. QED
        BY <1>4, <3>1, <3>2 DEF ToSet
    <2>3. QED
      BY <1>1, <1>6, <2>1, <2>2
  <1>7. ToSet(s) \subseteq ToSet(t) \cup {s[k]}
    BY <1>6 DEF ToSet
  <1>8. QED
    BY <1>4, <1>5, <1>7 DEF t

\* What commit leaves: the event, at most the others, and no more than fit.
LEMMA CommittedIs ==
    ASSUME committed \in Seq(Event), NEW e \in Event
    PROVE  /\ Committed(e) \in Seq(Event) /\ Len(Committed(e)) <= MaxCommitted
           /\ e \in ToSet(Committed(e))
           /\ ToSet(Committed(e)) \subseteq ToSet(committed) \cup {e}
  <1> DEFINE rest == RemoveFirst(committed, e)
             all == Append(rest, e)
             n == Min({Len(all), MaxCommitted})
             k == Len(all) - n + 1
  <1>1. rest \in Seq(Event) /\ ToSet(rest) \subseteq ToSet(committed)
    <2>1. \/ rest = committed
          \/ \E j \in DOMAIN committed : rest = RemoveAt(committed, j)
      BY RemoveFirstIs
    <2>2. \A j \in DOMAIN committed : /\ RemoveAt(committed, j) \in Seq(Event)
                                     /\ ToSet(RemoveAt(committed, j)) \subseteq ToSet(committed)
      BY RemoveAtIs
    <2> HIDE DEF rest
    <2>3. QED
      BY <2>1, <2>2
  <1> HIDE DEF rest
  <1>2. /\ all \in Seq(Event) /\ Len(all) \in Nat \ {0} /\ all[Len(all)] = e
        /\ \A i \in 1..Len(all) : all[i] \in ToSet(committed) \cup {e}
    <2>1. /\ all \in Seq(Event) /\ Len(all) = Len(rest) + 1 /\ Len(rest) \in Nat
          /\ all[Len(rest) + 1] = e /\ \A i \in 1..Len(rest) : all[i] = rest[i]
      BY <1>1, AppendProperties
    <2>2. DOMAIN rest = 1..Len(rest)
      BY <1>1
    <2>3. \A i \in 1..Len(rest) : rest[i] \in ToSet(committed)
      BY <1>1, <2>2 DEF ToSet
    <2> HIDE DEF all
    <2>4. QED
      BY <2>1, <2>3
  <1> HIDE DEF all
  <1>3. n \in 1..MaxCommitted /\ n <= Len(all)
    <2>1. {Len(all), MaxCommitted} \in SUBSET Nat /\ {Len(all), MaxCommitted} # {}
      BY <1>2, IngestAssumption
    <2>2. n \in {Len(all), MaxCommitted}
      BY <2>1, LeastOf
    <2>3. n <= Len(all) /\ n <= MaxCommitted
      <3>1. CASE Len(all) <= MaxCommitted
        BY <1>2, <3>1, IngestAssumption DEF Min
      <3>2. CASE MaxCommitted <= Len(all)
        BY <1>2, <3>2, IngestAssumption DEF Min
      <3>3. QED
        BY <1>2, <3>1, <3>2, IngestAssumption
    <2>4. QED
      BY <1>2, <2>2, <2>3, IngestAssumption
  <1> HIDE DEF n
  <1>4. Committed(e) = SubSeq(all, k, Len(all))
    BY DEF Committed, all, rest, n
  <1>5. k \in 1..Len(all) /\ Len(all) - k + 1 = n
    BY <1>2, <1>3
  <1> HIDE DEF k
  <1>6. /\ Committed(e) \in Seq(Event) /\ Len(Committed(e)) = n /\ DOMAIN Committed(e) = 1..n
        /\ \A i \in 1..n : Committed(e)[i] = all[k + i - 1]
    BY <1>2, <1>4, <1>5
  <1>7. Committed(e)[n] = e
    BY <1>2, <1>3, <1>5, <1>6
  <1>8. \A i \in 1..n : Committed(e)[i] \in ToSet(committed) \cup {e}
    <2>1. \A i \in 1..n : k + i - 1 \in 1..Len(all)
      BY <1>2, <1>3, <1>5
    <2>2. QED
      BY <1>2, <1>6, <2>1
  <1>9. QED
    BY <1>3, <1>6, <1>7, <1>8 DEF ToSet

-----------------------------------------------------------------------------
(* The steps *)

\* What answers do to the sender: nothing, a backoff, or the next event.
SenderMoves ==
    \/ UNCHANGED <<senderVars, owed>>
    \/ /\ phase = "waiting" /\ attempt < MaxRetries /\ phase' = "sleeping"
       /\ UNCHANGED <<current, attempt, fate, owed>>
    \/ phase = "waiting" /\ \E end \in {"accepted", "failed"} : Finished(end)

\* The answers of the gateway and a timeout move the sender like that.
LEMMA Answered ==
    /\ \A rs, status : status \in {"accepted", "refused", "unavailable"} /\ Answer(rs, status) => SenderMoves
    /\ phase = "waiting" /\ Retryable => SenderMoves
  <1>1. phase = "waiting" /\ Retryable => SenderMoves
    BY DEF Retryable, SenderMoves
  <1>2. ASSUME NEW rs, NEW status \in {"accepted", "refused", "unavailable"}, Answer(rs, status)
        PROVE  SenderMoves
    <2>1. CASE phase = "waiting" /\ \E r \in rs : r.event = current /\ r.attempt = attempt
      <3>1. CASE status = "accepted"
        BY <1>2, <2>1, <3>1 DEF Answer, SenderMoves
      <3>2. CASE status = "refused"
        BY <1>2, <2>1, <3>2 DEF Answer, SenderMoves
      <3>3. CASE status = "unavailable"
        BY <1>1, <1>2, <2>1, <3>3 DEF Answer
      <3>4. QED
        BY <3>1, <3>2, <3>3
    <2>2. CASE ~(phase = "waiting" /\ \E r \in rs : r.event = current /\ r.attempt = attempt)
      BY <1>2, <2>2 DEF Answer, SenderMoves
    <2>3. QED
      BY <2>1, <2>2
  <1>3. QED
    BY <1>1, <1>2

\* Such a move keeps the sender's invariant, and stays at the event or passes on.
LEMMA SenderKeeps ==
    ASSUME SenderTypeOK, SenderInv, SenderMoves
    PROVE  /\ SenderTypeOK' /\ SenderInv'
           /\ \/ current' = current /\ attempt' = attempt /\ owed' = owed
                 /\ (phase' # "idle" <=> phase # "idle")
              \/ current' = current + 1 /\ owed' = {}
  <1>1. CASE UNCHANGED <<senderVars, owed>>
    BY <1>1 DEF SenderTypeOK, SenderInv, senderVars
  <1>2. CASE /\ phase = "waiting" /\ attempt < MaxRetries /\ phase' = "sleeping"
             /\ UNCHANGED <<current, attempt, fate, owed>>
    BY <1>2 DEF SenderTypeOK, SenderInv
  <1>3. ASSUME phase = "waiting", NEW end \in {"accepted", "failed"}, Finished(end)
        PROVE  /\ SenderTypeOK' /\ SenderInv'
               /\ current' = current + 1 /\ owed' = {}
    <2>1. current \in Event /\ current \in Nat /\ fate \in [Event -> {"unsent", "accepted", "failed"}]
      BY <1>3, IngestAssumption DEF SenderInv, SenderTypeOK, Event
    <2>2. /\ fate' = [fate EXCEPT ![current] = end]
          /\ current' = current + 1 /\ attempt' = 0 /\ phase' = "idle" /\ owed' = {}
      BY <1>3 DEF Finished
    <2>3. SenderTypeOK'
      BY <1>3, <2>1, <2>2, IngestAssumption DEF SenderTypeOK, Event
    <2>4. \A e \in Event : fate'[e] = "unsent" <=> e >= current'
      BY <1>3, <2>1, <2>2 DEF SenderInv, Event
    <2>5. QED
      BY <2>2, <2>3, <2>4 DEF SenderInv
  <1>4. QED
    BY <1>1, <1>2, <1>3 DEF SenderMoves

\* A step of the gateway, with what its answer does to the sender: the requests kept
\* change in nothing that names their attempt.
LEMMA GatewayStep ==
    ASSUME IngestInv, SenderMoves \/ (UNCHANGED senderVars /\ owed' \subseteq owed),
           NEW kept \in SUBSET requests, NEW g \in [kept -> RequestType],
           requests' = {g[r] : r \in kept},
           \A r \in kept : g[r].event = r.event /\ g[r].attempt = r.attempt,
           inFlight' \subseteq Event,
           committed' \in Seq(Event), Len(committed') <= MaxCommitted,
           ToSet(committed') \subseteq dispatched',
           \A e \in dispatched' : e \in dispatched \/ \E r \in requests : r.event = e,
           \A r \in kept : g[r].stage = "recording" => r.event \in dispatched',
           owed' # {} => /\ current \notin dispatched'
                         /\ \A r \in kept : r.event = current => g[r].stage = "sent",
           FlightInv', ExcusedInv', DeviceInv'
    PROVE  IngestInv'
  <1>1. /\ SenderTypeOK' /\ SenderInv' /\ owed' \subseteq owed
        /\ \/ current' = current /\ attempt' = attempt /\ (phase' # "idle" <=> phase # "idle")
           \/ current' = current + 1 /\ owed' = {}
    <2>1. CASE SenderMoves
      BY <2>1, SenderKeeps DEF IngestInv
    <2>2. CASE UNCHANGED senderVars /\ owed' \subseteq owed
      BY <2>2 DEF IngestInv, SenderTypeOK, SenderInv, senderVars
    <2>3. QED
      BY <2>1, <2>2
  <1>2. \A q \in requests' : \E r \in kept : q = g[r]
    OBVIOUS
  <1>3. current \in Nat /\ Event \subseteq Nat
    BY IngestAssumption DEF IngestInv, SenderTypeOK, Event
  <1>4. \A r \in requests : /\ r.event \in Event /\ r.event <= current
                            /\ r.event = current => phase # "idle" /\ r.attempt <= attempt
    BY DEF IngestInv, GatewayTypeOK, RequestType, RequestsInv
  <1>5. GatewayTypeOK'
    <2>1. requests' \subseteq RequestType
      BY <1>2
    <2>2. dispatched' \subseteq Event
      BY <1>4 DEF IngestInv, GatewayTypeOK
    <2>3. QED
      BY <1>1, <2>1, <2>2 DEF IngestInv, GatewayTypeOK
  <1>6. RequestsInv'
    <2>1. \A q \in requests' : /\ q.event <= current'
                               /\ q.event = current' => phase' # "idle" /\ q.attempt <= attempt'
      <3>1. SUFFICES ASSUME NEW r \in kept
                     PROVE  /\ r.event <= current'
                            /\ r.event = current' => phase' # "idle" /\ r.attempt <= attempt'
        BY <1>2
      <3>2. /\ r \in requests /\ r.event \in Nat /\ r.event <= current
            /\ r.event = current => phase # "idle" /\ r.attempt <= attempt
        BY <1>3, <1>4
      <3>3. CASE current' = current /\ attempt' = attempt /\ (phase' # "idle" <=> phase # "idle")
        BY <3>2, <3>3
      <3>4. CASE current' = current + 1
        BY <1>3, <3>2, <3>4
      <3>5. QED
        BY <1>1, <3>3, <3>4
    <2>2. \A q1, q2 \in requests' : q1.event = q2.event /\ q1.attempt = q2.attempt => q1 = q2
      <3>1. SUFFICES ASSUME NEW r1 \in kept, NEW r2 \in kept,
                            r1.event = r2.event, r1.attempt = r2.attempt
                     PROVE  g[r1] = g[r2]
        BY <1>2
      <3>2. r1 = r2
        BY <3>1 DEF IngestInv, RequestsInv
      <3>3. QED
        BY <3>2
    <2>3. QED
      BY <2>1, <2>2 DEF RequestsInv
  <1>7. DoneInv'
    <2>1. \A q \in requests' : q.stage = "recording" => q.event \in dispatched'
      BY <1>2
    <2>2. \A e \in dispatched' : e \in Nat /\ e <= current /\ (e = current => phase # "idle")
      BY <1>3, <1>4 DEF IngestInv, DoneInv, GatewayTypeOK
    <2>3. \A e \in dispatched' : e <= current' /\ (e = current' => phase' # "idle")
      <3>1. CASE current' = current /\ attempt' = attempt /\ (phase' # "idle" <=> phase # "idle")
        BY <2>2, <3>1
      <3>2. CASE current' = current + 1
        BY <1>3, <2>2, <3>2
      <3>3. QED
        BY <1>1, <3>1, <3>2
    <2>4. QED
      BY <2>1, <2>3 DEF DoneInv
  <1>8. OwedInv'
    BY <1>1, <1>2 DEF OwedInv
  <1>9. QED
    BY <1>1, <1>5, <1>6, <1>7, <1>8 DEF IngestInv

\* A step that only ends requests.
LEMMA SomeGo ==
    ASSUME IngestInv, SenderMoves \/ (UNCHANGED senderVars /\ owed' \subseteq owed),
           requests' \subseteq requests, dispatched' = dispatched,
           inFlight' \subseteq Event,
           committed' \in Seq(Event), Len(committed') <= MaxCommitted,
           ToSet(committed') \subseteq ToSet(committed),
           FlightInv', ExcusedInv', DeviceInv'
    PROVE  IngestInv'
  <1> DEFINE kept == requests'
             g == [r \in kept |-> r]
  <1>1. kept \in SUBSET requests /\ g \in [kept -> RequestType] /\ requests' = {g[r] : r \in kept}
    BY DEF IngestInv, GatewayTypeOK
  <1>2. \A r \in kept : g[r] = r /\ r \in requests
    OBVIOUS
  <1>3. owed' \subseteq owed
    BY SenderKeeps DEF IngestInv
  <1>4. owed' # {} => /\ current \notin dispatched'
                      /\ \A r \in kept : r.event = current => g[r].stage = "sent"
    BY <1>2, <1>3 DEF IngestInv, OwedInv
  <1>5. /\ ToSet(committed') \subseteq dispatched'
        /\ \A r \in kept : g[r].stage = "recording" => r.event \in dispatched'
    BY <1>2 DEF IngestInv, DoneInv
  <1>6. \A r \in kept : g[r].event = r.event /\ g[r].attempt = r.attempt
    BY <1>2
  <1>7. \A e \in dispatched' : e \in dispatched \/ \E r \in requests : r.event = e
    OBVIOUS
  <1> HIDE DEF kept, g
  <1>8. QED
    BY <1>1, <1>4, <1>5, <1>6, <1>7, GatewayStep

\* A step that leaves the gateway's requests and dedupe as they are.
LEMMA NoneGo ==
    ASSUME IngestInv, SenderMoves \/ (UNCHANGED senderVars /\ owed' \subseteq owed),
           UNCHANGED <<requests, dedupeVars, historyVars>>, DeviceInv'
    PROVE  IngestInv'
  <1>1. UNCHANGED <<requests, inFlight, committed, dispatched, excused>>
    BY DEF dedupeVars, historyVars
  <1>2. FlightInv' /\ ExcusedInv'
    BY <1>1 DEF IngestInv, FlightInv, ExcusedInv
  <1>3. inFlight \subseteq Event /\ committed \in Seq(Event) /\ Len(committed) <= MaxCommitted
    BY DEF IngestInv, GatewayTypeOK
  <1>4. QED
    BY <1>1, <1>2, <1>3, SomeGo

\* A step that moves one request, of an event every socket has been sent by then.
LEMMA OneMoves ==
    ASSUME IngestInv, NEW r \in requests, NEW q \in RequestType,
           q.event = r.event, q.attempt = r.attempt,
           requests' = (requests \ {r}) \cup {q},
           UNCHANGED <<senderVars, committed, dispatched>>,
           owed' \subseteq owed, r.event = current => owed' = {},
           q.stage = "recording" => r.event \in dispatched,
           inFlight' \subseteq Event,
           FlightInv', ExcusedInv', DeviceInv'
    PROVE  IngestInv'
  <1> DEFINE g == [x \in requests |-> IF x = r THEN q ELSE x]
  <1>1. requests \in SUBSET RequestType
    BY DEF IngestInv, GatewayTypeOK
  <1>2. g \in [requests -> RequestType]
    BY <1>1
  <1>3. requests' = {g[x] : x \in requests}
    OBVIOUS
  <1>4. \A x \in requests : g[x].event = x.event /\ g[x].attempt = x.attempt
    OBVIOUS
  <1>5. /\ committed' \in Seq(Event) /\ Len(committed') <= MaxCommitted
        /\ ToSet(committed') \subseteq dispatched'
    BY DEF IngestInv, GatewayTypeOK, DoneInv
  <1>6. \A x \in requests : g[x].stage = "recording" => x.event \in dispatched'
    BY DEF IngestInv, DoneInv
  <1>7. owed' # {} => /\ current \notin dispatched'
                      /\ \A x \in requests : x.event = current => g[x].stage = "sent"
    BY DEF IngestInv, OwedInv
  <1>8. UNCHANGED senderVars /\ owed' \subseteq owed
    OBVIOUS
  <1>9. \A e \in dispatched' : e \in dispatched \/ \E x \in requests : x.event = e
    OBVIOUS
  <1> HIDE DEF g
  <1>10. requests \in SUBSET requests
    OBVIOUS
  <1>11. QED
    BY <1>2, <1>3, <1>4, <1>5, <1>6, <1>7, <1>8, <1>9, <1>10, GatewayStep

\* A first attempt or a retry is a request the gateway has not seen.
LEMMA PostKeeps ==
    ASSUME IngestInv, Post
    PROVE  IngestInv'
  <1>1. /\ current \in Event /\ phase \in {"idle", "sleeping"} /\ phase' = "waiting"
        /\ attempt' = (IF phase = "idle" THEN 0 ELSE attempt + 1)
        /\ requests' = requests \cup {Request(current, attempt', "sent")}
        /\ owed' = (IF phase = "idle" THEN {s \in Socket : sockets[s].open} ELSE owed)
        /\ UNCHANGED <<current, fate, inFlight, committed, sockets, rows, own, dispatched, excused>>
    BY DEF Post, dedupeVars, deviceVars, historyVars
  <1> DEFINE q == Request(current, attempt', "sent")
  <1>2. attempt' \in 0..MaxRetries /\ (phase = "sleeping" => attempt' = attempt + 1)
    BY <1>1, IngestAssumption DEF IngestInv, SenderTypeOK, SenderInv
  <1>3. /\ q \in RequestType /\ q.event = current /\ q.attempt = attempt' /\ q.stage = "sent"
        /\ ~Owns(q)
    BY <1>1, <1>2 DEF Request, RequestType, Stage, Owns
  <1> HIDE DEF q
  <1>4. requests' = requests \cup {q}
    BY <1>1 DEF q
  <1>5. SenderTypeOK' /\ SenderInv'
    BY <1>1, <1>2 DEF IngestInv, SenderTypeOK, SenderInv
  <1>6. GatewayTypeOK'
    BY <1>1, <1>3, <1>4 DEF IngestInv, GatewayTypeOK
  <1>7. DeviceInv' /\ ExcusedInv'
    BY <1>1 DEF IngestInv, DeviceInv, ExcusedInv
  <1>8. RequestsInv'
    <2>1. current \in Nat /\ attempt \in Nat /\ attempt' \in Nat
      BY <1>1, <1>2, IngestAssumption DEF IngestInv, SenderTypeOK, Event
    <2>2. \A r \in requests : /\ r.event <= current /\ r.attempt \in Nat
                              /\ r.event = current => phase = "sleeping" /\ r.attempt <= attempt
      BY <1>1, IngestAssumption DEF IngestInv, GatewayTypeOK, RequestType, RequestsInv
    <2>3. \A r \in requests : r.event = current => r.attempt < attempt'
      BY <1>2, <2>1, <2>2
    <2>4. \A r \in requests' : /\ r.event <= current'
                               /\ r.event = current' => phase' # "idle" /\ r.attempt <= attempt'
      <3>1. CASE attempt' = 0
        BY <1>1, <1>3, <1>4, <2>1, <2>2, <2>3, <3>1
      <3>2. \A r \in requests : r.event = current => r.attempt <= attempt'
        BY <2>1, <2>2, <2>3
      <3>3. QED
        BY <1>1, <1>3, <1>4, <2>1, <2>2, <3>2
    <2>5. \A r \in requests : ~(r.event = q.event /\ r.attempt = q.attempt)
      BY <1>3, <2>1, <2>2, <2>3
    <2>6. \A r1, r2 \in requests' : r1.event = r2.event /\ r1.attempt = r2.attempt => r1 = r2
      BY <1>4, <2>5 DEF IngestInv, RequestsInv
    <2>7. QED
      BY <2>4, <2>6 DEF RequestsInv
  <1>9. FlightInv'
    BY <1>1, <1>3, <1>4 DEF IngestInv, FlightInv
  <1>10. DoneInv'
    BY <1>1, <1>3, <1>4 DEF IngestInv, DoneInv
  <1>11. OwedInv'
    <2>1. CASE phase = "idle"
      BY <1>1, <1>3, <1>4, <2>1 DEF IngestInv, OwedInv, DoneInv, RequestsInv
    <2>2. CASE phase # "idle"
      BY <1>1, <1>3, <1>4, <2>2 DEF IngestInv, OwedInv
    <2>3. QED
      BY <2>1, <2>2
  <1>12. QED
    BY <1>5, <1>6, <1>7, <1>8, <1>9, <1>10, <1>11 DEF IngestInv

\* The devices' rows stay well-formed, no row ahead of its device's token.
LEMMA DevicesKeep ==
    ASSUME DeviceInv
    PROVE  /\ \A d \in Device : Update(d, "token", NoToken) /\ UNCHANGED own => DeviceInv'
           /\ DeviceSteps => DeviceInv' /\ UNCHANGED <<senderVars, requests, dedupeVars, owed, historyVars>>
           /\ UNCHANGED deviceVars => DeviceInv'
  <1>1. rows \in [Device -> RowType] /\ own \in [Device -> Nat]
    BY DEF DeviceInv
  <1>2. \A d \in Device : /\ rows[d].status \in {"none", "stored", "deleted"} /\ rows[d].enabled \in BOOLEAN
                          /\ rows[d].token \in Nat /\ own[d] \in Nat
                          /\ rows[d].token <= own[d] /\ own[d] >= 1
    BY <1>1 DEF DeviceInv, RowType
  <1>3. ASSUME NEW d \in Device, NEW v \in RowType, rows' = [rows EXCEPT ![d] = v],
               v.token <= own[d], UNCHANGED own
        PROVE  DeviceInv'
    <2>1. rows' \in [Device -> RowType] /\ own' \in [Device -> Nat]
      BY <1>1, <1>3
    <2>2. \A x \in Device : rows'[x] = IF x = d THEN v ELSE rows[x]
      BY <1>1, <1>3
    <2>3. QED
      BY <1>2, <1>3, <2>1, <2>2 DEF DeviceInv
  <1>4. ASSUME NEW d \in Device, NEW t \in Nat, t <= own[d], Update(d, "token", t), UNCHANGED own
        PROVE  DeviceInv'
    <2> DEFINE v == [rows[d] EXCEPT !["token"] = t]
    <2>1. rows' = [rows EXCEPT ![d] = v]
      BY <1>1, <1>4 DEF Update
    <2>2. v \in RowType /\ v.token = t
      BY <1>1 DEF RowType
    <2> HIDE DEF v
    <2>3. QED
      BY <1>3, <1>4, <2>1, <2>2
  <1>5. ASSUME NEW d \in Device, NEW b \in BOOLEAN, Update(d, "enabled", b), UNCHANGED own
        PROVE  DeviceInv'
    <2> DEFINE v == [rows[d] EXCEPT !["enabled"] = b]
    <2>1. rows' = [rows EXCEPT ![d] = v]
      BY <1>1, <1>5 DEF Update
    <2>2. v \in RowType /\ v.token = rows[d].token
      BY <1>1 DEF RowType
    <2> HIDE DEF v
    <2>3. QED
      BY <1>2, <1>3, <1>5, <2>1, <2>2
  <1>6. ASSUME NEW d \in Device, Rotate(d)
        PROVE  DeviceInv'
    <2>1. own' = [own EXCEPT ![d] = @ + 1] /\ UNCHANGED rows
      BY <1>6 DEF Rotate
    <2>2. \A x \in Device : own'[x] \in Nat /\ own'[x] >= own[x]
      BY <1>1, <2>1
    <2>3. own' \in [Device -> Nat]
      BY <1>1, <2>1
    <2>4. QED
      BY <1>2, <2>1, <2>2, <2>3 DEF DeviceInv
  <1>7. ASSUME NEW d \in Device, RegisterDevice(d)
        PROVE  DeviceInv'
    <2> DEFINE v == Row("stored", own[d])
    <2>1. rows' = [rows EXCEPT ![d] = v] /\ UNCHANGED own
      BY <1>7 DEF RegisterDevice
    <2>2. v \in RowType /\ v.token \in Nat /\ v.token <= own[d]
      BY <1>2 DEF Row, RowType
    <2> HIDE DEF v
    <2>3. QED
      BY <1>2, <1>3, <2>1, <2>2
  <1>8. ASSUME NEW d \in Device, DeleteDevice(d)
        PROVE  DeviceInv'
    <2> DEFINE v == Row("deleted", NoToken)
    <2>1. rows' = [rows EXCEPT ![d] = v] /\ UNCHANGED own
      BY <1>8 DEF DeleteDevice
    <2>2. v \in RowType /\ v.token \in Nat /\ v.token <= own[d]
      BY <1>2 DEF Row, RowType, NoToken
    <2> HIDE DEF v
    <2>3. QED
      BY <1>2, <1>3, <2>1, <2>2
  <1>9. ASSUME NEW d \in Device, PatchDevice(d)
        PROVE  DeviceInv'
    <2>1. UNCHANGED own /\ (Update(d, "token", own[d]) \/ \E b \in BOOLEAN : Update(d, "enabled", b))
      BY <1>9 DEF PatchDevice
    <2>2. own[d] \in Nat /\ own[d] <= own[d]
      BY <1>2
    <2>3. QED
      BY <1>4, <1>5, <2>1, <2>2
  <1>10. DeviceSteps => UNCHANGED <<senderVars, requests, dedupeVars, owed, historyVars>>
    BY DEF DeviceSteps, Rotate, RegisterDevice, PatchDevice, DeleteDevice
  <1>11. NoToken \in Nat /\ \A d \in Device : NoToken <= own[d]
    BY <1>2 DEF NoToken
  <1>12. UNCHANGED deviceVars => DeviceInv'
    BY DEF DeviceInv, deviceVars
  <1>13. QED
    BY <1>4, <1>6, <1>7, <1>8, <1>9, <1>10, <1>11, <1>12 DEF DeviceSteps

\* Timeouts, sockets and devices leave the gateway's dedupe alone.
LEMMA OutsideKeeps ==
    ASSUME IngestInv
    PROVE  /\ AttemptTimesOut => IngestInv'
           /\ \A s \in Socket : Connect(s) \/ PeerFails(s) \/ Pong(s) \/ Heartbeat(s) \/ SocketCloses(s)
                => IngestInv'
           /\ DeviceSteps => IngestInv'
  <1>1. AttemptTimesOut => IngestInv'
    <2>1. AttemptTimesOut => SenderMoves /\ UNCHANGED <<requests, dedupeVars, deviceVars, historyVars>>
      BY Answered DEF AttemptTimesOut
    <2>2. QED
      BY <2>1, NoneGo, DevicesKeep DEF IngestInv
  <1>2. ASSUME NEW s \in Socket, Connect(s) \/ PeerFails(s) \/ Pong(s) \/ Heartbeat(s) \/ SocketCloses(s)
        PROVE  IngestInv'
    <2>1. UNCHANGED <<senderVars, requests, dedupeVars, deviceVars, historyVars>>
      BY <1>2 DEF Connect, PeerFails, Pong, Heartbeat, SocketCloses
    <2>2. owed' \subseteq owed
      BY <1>2 DEF Connect, PeerFails, Pong, Heartbeat, SocketCloses, Removed
    <2>3. QED
      BY <2>1, <2>2, NoneGo, DevicesKeep DEF IngestInv
  <1>3. DeviceSteps => IngestInv'
    BY NoneGo, DevicesKeep DEF IngestInv
  <1>4. QED
    BY <1>1, <1>2, <1>3

\* A request whose answer needs no flight.
LEMMA AnswerKeeps ==
    ASSUME IngestInv, NEW r \in requests, Refuse(r) \/ RecordUse(r)
    PROVE  IngestInv'
  <1>1. /\ r.stage \in {"sent", "recording"} /\ requests' = requests \ {r}
        /\ UNCHANGED <<inFlight, committed, dispatched, excused, deviceVars>>
    BY DEF Refuse, RecordUse, dedupeVars, historyVars
  <1>2. SenderMoves
    BY Answered DEF Refuse, RecordUse
  <1>3. FlightInv'
    <2>1. ~Owns(r)
      BY <1>1 DEF Owns
    <2>2. QED
      BY <1>1, <2>1 DEF IngestInv, FlightInv
  <1>4. ExcusedInv' /\ DeviceInv'
    BY <1>1, DevicesKeep DEF IngestInv, ExcusedInv
  <1>5. /\ inFlight \subseteq Event /\ committed \in Seq(Event) /\ Len(committed) <= MaxCommitted
        /\ requests' \subseteq requests
    BY <1>1 DEF IngestInv, GatewayTypeOK
  <1>6. QED
    BY <1>1, <1>2, <1>3, <1>4, <1>5, SomeGo

\* An entry of the dedupe expires, and excuses its event.
LEMMA ExpiryKeeps ==
    ASSUME IngestInv, DedupeExpires
    PROVE  IngestInv'
  <1>1. /\ committed # <<>> /\ committed' = Tail(committed) /\ excused' = excused \cup {Head(committed)}
        /\ UNCHANGED <<senderVars, requests, inFlight, sockets, rows, own, owed, dispatched>>
    BY DEF DedupeExpires, deviceVars
  <1>2. /\ committed \in Seq(Event) /\ Len(committed) <= MaxCommitted /\ MaxCommitted \in Nat
        /\ inFlight \subseteq Event
    BY IngestAssumption DEF IngestInv, GatewayTypeOK
  <1>3. /\ Len(committed) \in Nat \ {0} /\ committed' \in Seq(Event)
        /\ Len(committed') = Len(committed) - 1
        /\ \A i \in 1..(Len(committed) - 1) : committed'[i] = committed[i + 1]
        /\ DOMAIN committed = 1..Len(committed) /\ DOMAIN committed' = 1..(Len(committed) - 1)
        /\ Head(committed) = committed[1]
    BY <1>1, <1>2, HeadTailProperties
  <1>4. /\ ToSet(committed') \subseteq ToSet(committed)
        /\ ToSet(committed) \subseteq ToSet(committed') \cup {Head(committed)}
    <2>1. ToSet(committed') \subseteq ToSet(committed)
      BY <1>3 DEF ToSet
    <2>2. ASSUME NEW i \in 1..Len(committed), i # 1
          PROVE  committed[i] \in ToSet(committed')
      <3>1. i - 1 \in 1..(Len(committed) - 1) /\ (i - 1) + 1 = i
        BY <1>3, <2>2
      <3>2. committed'[i - 1] = committed[i]
        BY <1>3, <3>1
      <3>3. QED
        BY <1>3, <3>1, <3>2 DEF ToSet
    <2>3. QED
      BY <1>3, <2>1, <2>2 DEF ToSet
  <1>5. ExcusedInv'
    BY <1>1, <1>4 DEF IngestInv, ExcusedInv
  <1>6. FlightInv' /\ DeviceInv'
    BY <1>1 DEF IngestInv, FlightInv, DeviceInv
  <1>7. Len(committed') <= MaxCommitted
    BY <1>2, <1>3
  <1>8. /\ UNCHANGED senderVars /\ owed' \subseteq owed /\ requests' \subseteq requests
        /\ dispatched' = dispatched /\ inFlight' \subseteq Event
    BY <1>1, <1>2
  <1>9. QED
    BY <1>3, <1>4, <1>5, <1>6, <1>7, <1>8, SomeGo

\* A restart forgets every flight and every entry, and excuses every event.
LEMMA RestartKeeps ==
    ASSUME IngestInv, Restart
    PROVE  IngestInv'
  <1>1. /\ requests' = {r \in requests : r.stage = "sent"} /\ inFlight' = {} /\ committed' = <<>>
        /\ excused' = Event /\ owed' = owed \ Socket /\ UNCHANGED <<senderVars, deviceVars, dispatched>>
    BY DEF Restart, Removed
  <1>2. /\ committed' \in Seq(Event) /\ Len(committed') <= MaxCommitted
        /\ ToSet(committed') \subseteq ToSet(committed)
    BY <1>1, IngestAssumption DEF ToSet
  <1>3. FlightInv' /\ ExcusedInv' /\ DeviceInv'
    <2>1. \A r \in requests' : r.stage # "waiting" /\ ~Owns(r)
      BY <1>1 DEF Owns
    <2>2. FlightInv'
      BY <1>1, <2>1 DEF FlightInv
    <2>3. QED
      BY <1>1, <2>2, DevicesKeep DEF IngestInv, ExcusedInv
  <1>4. UNCHANGED senderVars /\ owed' \subseteq owed
    BY <1>1
  <1>5. requests' \subseteq requests /\ dispatched' = dispatched /\ inFlight' \subseteq Event
    BY <1>1
  <1>6. QED
    BY <1>2, <1>3, <1>4, <1>5, SomeGo

\* A flight that ends takes its owner and every waiter with it.
LEMMA FlightEnds ==
    ASSUME FlightInv, NEW r \in requests, Owns(r),
           inFlight' = inFlight \ {r.event},
           requests' \ requests \subseteq {q \in requests' : q.stage = "recording"},
           requests \ ({r} \cup Waiters(r.event)) \subseteq requests',
           r \notin requests', requests' \cap Waiters(r.event) = {}
    PROVE  FlightInv'
  <1>1. \A q \in requests' : Owns(q) \/ q.stage = "waiting" => q \in requests
    BY DEF Owns
  <1>2. \A q \in requests' : Owns(q) \/ q.stage = "waiting" => q.event # r.event
    <2>1. \A q \in requests' : q.stage = "waiting" => q.event # r.event
      BY <1>1 DEF Waiters
    <2>2. \A q \in requests' : Owns(q) => q.event # r.event
      BY <1>1 DEF FlightInv
    <2>3. QED
      BY <2>1, <2>2
  <1>3. \A e \in inFlight' : \E q \in requests' : q.event = e /\ Owns(q)
    <2>1. SUFFICES ASSUME NEW e \in inFlight, e # r.event
                   PROVE  \E q \in requests' : q.event = e /\ Owns(q)
      OBVIOUS
    <2>2. PICK q \in requests : q.event = e /\ Owns(q)
      BY DEF FlightInv
    <2>3. q \notin Waiters(r.event) /\ q # r
      BY <2>1, <2>2 DEF Waiters
    <2>4. QED
      BY <2>2, <2>3
  <1>4. QED
    BY <1>1, <1>2, <1>3 DEF FlightInv

\* A dispatch that succeeds commits its event and answers its duplicates.
LEMMA SuccessKeeps ==
    ASSUME IngestInv, NEW r \in requests, Owns(r), Succeed(r), DeviceInv'
    PROVE  IngestInv'
  <1> DEFINE mine == {r} \cup Waiters(r.event)
             done(q) == [q EXCEPT !.stage = "recording", !.pushes = {}]
             g == [q \in requests |-> IF q \in mine THEN done(q) ELSE q]
  <1>1. /\ requests' = (requests \ mine) \cup {done(q) : q \in mine}
        /\ inFlight' = inFlight \ {r.event}
        /\ committed' = Committed(r.event)
        /\ dispatched' = dispatched \cup {r.event}
        /\ excused' = excused \cup (ToSet(committed) \ ToSet(committed'))
        /\ UNCHANGED <<senderVars, owed>>
    BY DEF Succeed
  <1>2. mine \subseteq requests /\ \A q \in mine : q.event = r.event /\ q.stage # "sent"
    BY DEF Waiters, Owns
  <1>3. /\ requests \subseteq RequestType /\ r.event \in Event /\ inFlight \subseteq Event
        /\ committed \in Seq(Event)
    BY DEF IngestInv, GatewayTypeOK, RequestType
  <1>4. \A q \in mine : /\ done(q) \in RequestType /\ done(q).stage = "recording"
                        /\ done(q).event = q.event /\ done(q).attempt = q.attempt
    BY <1>2, <1>3 DEF RequestType, Stage
  <1> HIDE DEF mine, done
  <1>5. g \in [requests -> RequestType] /\ requests' = {g[q] : q \in requests}
    BY <1>1, <1>2, <1>3, <1>4
  <1>6. \A q \in requests : g[q].event = q.event /\ g[q].attempt = q.attempt
    BY <1>4
  <1>7. /\ committed' \in Seq(Event) /\ Len(committed') <= MaxCommitted
        /\ r.event \in ToSet(committed')
        /\ ToSet(committed') \subseteq ToSet(committed) \cup {r.event}
    BY <1>1, <1>3, CommittedIs
  <1>8. ToSet(committed') \subseteq dispatched'
    BY <1>1, <1>7 DEF IngestInv, DoneInv
  <1>9. \A q \in requests : g[q].stage = "recording" => q.event \in dispatched'
    BY <1>1, <1>2 DEF IngestInv, DoneInv
  <1>10. owed' # {} => /\ current \notin dispatched'
                       /\ \A q \in requests : q.event = current => g[q].stage = "sent"
    <2>1. SUFFICES ASSUME owed # {}
                   PROVE  /\ current \notin dispatched'
                          /\ \A q \in requests : q.event = current => g[q].stage = "sent"
      BY <1>1
    <2>2. r.event # current
      BY <2>1 DEF IngestInv, OwedInv, Owns
    <2>3. QED
      BY <1>1, <1>2, <2>1, <2>2 DEF IngestInv, OwedInv
  <1>11. FlightInv'
    <2>1. \A q \in requests' : q \in requests \ mine \/ q.stage = "recording"
      BY <1>1, <1>4
    <2>2. r \notin requests' /\ requests' \cap Waiters(r.event) = {}
      BY <2>1 DEF mine, Owns, Waiters
    <2>3. requests \ ({r} \cup Waiters(r.event)) \subseteq requests'
      BY <1>1 DEF mine
    <2>4. requests' \ requests \subseteq {q \in requests' : q.stage = "recording"}
      BY <2>1
    <2>5. QED
      BY <1>1, <2>2, <2>3, <2>4, FlightEnds DEF IngestInv
  <1>12. ExcusedInv'
    BY <1>1, <1>7 DEF IngestInv, ExcusedInv
  <1>13. \A e \in dispatched' : e \in dispatched \/ \E q \in requests : q.event = e
    BY <1>1
  <1>14. /\ UNCHANGED senderVars /\ owed' \subseteq owed /\ inFlight' \subseteq Event
         /\ requests \in SUBSET requests
    BY <1>1, <1>3
  <1> HIDE DEF g
  <1>15. QED
    BY <1>5, <1>6, <1>7, <1>8, <1>9, <1>10, <1>11, <1>12, <1>13, <1>14, GatewayStep

\* A dispatch that fails excuses its event and answers its duplicates.
LEMMA FailureKeeps ==
    ASSUME IngestInv, NEW r \in requests, Owns(r), Fail(r), DeviceInv'
    PROVE  IngestInv'
  <1>1. /\ requests' = requests \ ({r} \cup Waiters(r.event))
        /\ inFlight' = inFlight \ {r.event}
        /\ excused' = excused \cup {r.event}
        /\ UNCHANGED <<committed, dispatched>>
    BY DEF Fail
  <1>2. SenderMoves
    BY Answered DEF Fail
  <1>3. FlightInv'
    BY <1>1, FlightEnds DEF IngestInv
  <1>4. ExcusedInv'
    BY <1>1 DEF IngestInv, ExcusedInv
  <1>5. /\ inFlight' \subseteq Event /\ committed' \in Seq(Event) /\ Len(committed') <= MaxCommitted
        /\ ToSet(committed') \subseteq ToSet(committed)
        /\ requests' \subseteq requests /\ dispatched' = dispatched
    BY <1>1 DEF IngestInv, GatewayTypeOK
  <1>6. QED
    BY <1>2, <1>3, <1>4, <1>5, SomeGo

\* An owner that goes on keeps its flight.
LEMMA OwnerMoves ==
    ASSUME IngestInv, NEW r \in requests, NEW q \in RequestType, Owns(r), Owns(q),
           q.event = r.event, q.attempt = r.attempt,
           requests' = (requests \ {r}) \cup {q},
           UNCHANGED <<senderVars, dedupeVars, owed, historyVars>>, DeviceInv'
    PROVE  IngestInv'
  <1>1. UNCHANGED <<inFlight, committed, dispatched, excused>>
    BY DEF dedupeVars, historyVars
  <1>2. FlightInv'
    <2>1. \A e \in inFlight' : \E p \in requests' : p.event = e /\ Owns(p)
      BY <1>1 DEF IngestInv, FlightInv
    <2>2. \A p \in requests' : Owns(p) \/ p.stage = "waiting" => p.event \in inFlight'
      BY <1>1 DEF IngestInv, FlightInv
    <2>3. \A p1, p2 \in requests' : Owns(p1) /\ Owns(p2) /\ p1.event = p2.event => p1 = p2
      BY DEF IngestInv, FlightInv
    <2>4. QED
      BY <2>1, <2>2, <2>3 DEF FlightInv
  <1>3. ExcusedInv' /\ inFlight' \subseteq Event
    BY <1>1 DEF IngestInv, ExcusedInv, GatewayTypeOK
  <1>4. r.event = current => owed' = {}
    BY DEF IngestInv, OwedInv, Owns
  <1>5. q.stage # "recording"
    BY DEF Owns
  <1>6. UNCHANGED <<senderVars, committed, dispatched>> /\ owed' \subseteq owed
    BY <1>1
  <1>7. QED
    BY <1>2, <1>3, <1>4, <1>5, <1>6, OneMoves

\* The look-up and the pushes.
LEMMA PushesKeep ==
    ASSUME IngestInv, NEW r \in requests
    PROVE  /\ LookUpTargets(r) => IngestInv'
           /\ \A p \in r.pushes : FcmSettles(r, p) \/ FcmTimesOut(r, p) \/ TokenInvalid(r, p)
                                  \/ ClearToken(r, p) => IngestInv'
  <1>1. r \in RequestType
    BY DEF IngestInv, GatewayTypeOK
  <1>2. r.pushes \in SUBSET Push
    BY <1>1 DEF RequestType
  <1>3. ASSUME NEW ps \in SUBSET Push
        PROVE  /\ [r EXCEPT !.pushes = ps] \in RequestType
               /\ [r EXCEPT !.pushes = ps].event = r.event
               /\ [r EXCEPT !.pushes = ps].attempt = r.attempt
               /\ [r EXCEPT !.pushes = ps].stage = r.stage
               /\ [r EXCEPT !.stage = "pushing", !.pushes = ps] \in RequestType
               /\ [r EXCEPT !.stage = "pushing", !.pushes = ps].event = r.event
               /\ [r EXCEPT !.stage = "pushing", !.pushes = ps].attempt = r.attempt
               /\ [r EXCEPT !.stage = "pushing", !.pushes = ps].stage = "pushing"
    BY <1>1 DEF RequestType, Stage
  <1>4. ASSUME LookUpTargets(r)
        PROVE  IngestInv'
    <2>1. Owns(r) /\ DeviceInv'
      BY <1>4, DevicesKeep DEF LookUpTargets, Owns, IngestInv
    <2>2. Targets \in SUBSET Push
      BY DEF IngestInv, DeviceInv, RowType, Targets, Push
    <2>3. CASE requests' = (requests \ {r}) \cup {[r EXCEPT !.stage = "pushing", !.pushes = Targets]}
               /\ UNCHANGED <<senderVars, dedupeVars, owed, historyVars>>
      <3> DEFINE q == [r EXCEPT !.stage = "pushing", !.pushes = Targets]
      <3>1. /\ q \in RequestType /\ q.event = r.event /\ q.attempt = r.attempt /\ Owns(q)
            /\ requests' = (requests \ {r}) \cup {q}
        BY <1>3, <2>2, <2>3 DEF Owns
      <3> HIDE DEF q
      <3>2. QED
        BY <2>1, <2>3, <3>1, OwnerMoves
    <2>4. QED
      BY <1>4, <2>1, <2>3, SuccessKeeps, FailureKeeps DEF LookUpTargets
  <1>5. ASSUME NEW p \in r.pushes, PushDone(r, p), Owns(r), DeviceInv'
        PROVE  IngestInv'
    <2>1. CASE r.pushes = {p}
      BY <1>5, <2>1, SuccessKeeps DEF PushDone
    <2>2. CASE r.pushes # {p}
      <3> DEFINE q == [r EXCEPT !.pushes = r.pushes \ {p}]
      <3>1. /\ q \in RequestType /\ q.event = r.event /\ q.attempt = r.attempt /\ Owns(q)
        BY <1>2, <1>3, <1>5 DEF Owns
      <3>2. /\ requests' = (requests \ {r}) \cup {q}
            /\ UNCHANGED <<senderVars, dedupeVars, owed, historyVars>>
        BY <1>5, <2>2 DEF PushDone
      <3> HIDE DEF q
      <3>3. QED
        BY <1>5, <3>1, <3>2, OwnerMoves
    <2>3. QED
      BY <2>1, <2>2
  <1>6. ASSUME NEW p \in r.pushes, FcmSettles(r, p) \/ FcmTimesOut(r, p)
        PROVE  IngestInv'
    <2>1. Owns(r) /\ PushDone(r, p) /\ DeviceInv'
      BY <1>6, DevicesKeep DEF FcmSettles, FcmTimesOut, Owns, IngestInv
    <2>2. QED
      BY <1>5, <2>1
  <1>7. ASSUME NEW p \in r.pushes, ClearToken(r, p)
        PROVE  IngestInv'
    <2>1. /\ Owns(r) /\ PushDone(r, p) /\ UNCHANGED own
          /\ Update(p.device, "token", NoToken) \/ UNCHANGED rows
      BY <1>7 DEF ClearToken, Owns
    <2>2. p.device \in Device
      BY <1>2 DEF Push
    <2>3. DeviceInv'
      BY <2>1, <2>2, DevicesKeep DEF IngestInv, deviceVars
    <2>4. QED
      BY <1>5, <2>1, <2>3
  <1>8. ASSUME NEW p \in r.pushes, TokenInvalid(r, p)
        PROVE  IngestInv'
    <2> DEFINE ps == (r.pushes \ {p}) \cup {[p EXCEPT !.stage = "clearing"]}
               q == [r EXCEPT !.pushes = ps]
    <2>1. ps \in SUBSET Push
      BY <1>2 DEF Push
    <2>2. /\ Owns(r) /\ DeviceInv' /\ requests' = (requests \ {r}) \cup {q}
          /\ UNCHANGED <<senderVars, dedupeVars, owed, historyVars>>
      BY <1>8, DevicesKeep DEF TokenInvalid, Owns, IngestInv
    <2> HIDE DEF ps
    <2>3. q \in RequestType /\ q.event = r.event /\ q.attempt = r.attempt /\ Owns(q)
      BY <1>3, <2>1, <2>2 DEF Owns
    <2> HIDE DEF q
    <2>4. QED
      BY <2>2, <2>3, OwnerMoves
  <1>9. QED
    BY <1>4, <1>6, <1>7, <1>8

\* Dedupe: a settled event is answered, a duplicate waits for its owner, and an event
\* that is neither becomes a flight with every socket sent it at once.
LEMMA DispatchKeeps ==
    ASSUME IngestInv, NEW r \in requests, DispatchOnce(r)
    PROVE  IngestInv'
  <1>1. /\ r \in RequestType /\ r.event \in Event /\ inFlight \subseteq Event
        /\ requests \subseteq RequestType
    BY DEF IngestInv, GatewayTypeOK, RequestType
  <1>2. /\ r.stage = "sent" /\ ~Owns(r)
        /\ UNCHANGED <<senderVars, committed, deviceVars, dispatched>>
    BY DEF DispatchOnce, Owns
  <1>3. DeviceInv'
    BY <1>2, DevicesKeep DEF IngestInv
  <1>4. ASSUME NEW stage \in Stage
        PROVE  /\ [r EXCEPT !.stage = stage] \in RequestType
               /\ [r EXCEPT !.stage = stage].event = r.event
               /\ [r EXCEPT !.stage = stage].attempt = r.attempt
               /\ [r EXCEPT !.stage = stage].stage = stage
    BY <1>1 DEF RequestType
  <1>5. CASE /\ r.event \in ToSet(committed)
             /\ requests' = At(r, "recording")
             /\ UNCHANGED <<inFlight, sockets, owed, excused>>
    <2> DEFINE q == [r EXCEPT !.stage = "recording"]
    <2>1. /\ q \in RequestType /\ q.event = r.event /\ q.attempt = r.attempt /\ q.stage = "recording"
      BY <1>4 DEF Stage
    <2>2. requests' = (requests \ {r}) \cup {q}
      BY <1>5 DEF At
    <2> HIDE DEF q
    <2>3. FlightInv'
      BY <1>2, <1>5, <2>1, <2>2 DEF IngestInv, FlightInv, Owns
    <2>4. ExcusedInv'
      BY <1>2, <1>5 DEF IngestInv, ExcusedInv
    <2>5. r.event \in dispatched
      BY <1>5 DEF IngestInv, DoneInv
    <2>6. r.event = current => owed' = {}
      BY <1>5, <2>5 DEF IngestInv, OwedInv
    <2>7. owed' \subseteq owed /\ inFlight' \subseteq Event
      BY <1>1, <1>5
    <2>8. QED
      BY <1>2, <1>3, <2>1, <2>2, <2>3, <2>4, <2>5, <2>6, <2>7, OneMoves
  <1>6. CASE r.event \notin ToSet(committed) /\ r.event \in inFlight /\ Join(r)
    <2> DEFINE q == [r EXCEPT !.stage = "waiting"]
    <2>1. /\ q \in RequestType /\ q.event = r.event /\ q.attempt = r.attempt /\ q.stage = "waiting"
          /\ ~Owns(q)
      BY <1>4 DEF Stage, Owns
    <2>2. requests' = (requests \ {r}) \cup {q} /\ UNCHANGED <<inFlight, sockets, owed, excused>>
      BY <1>6 DEF At, Join
    <2> HIDE DEF q
    <2>3. FlightInv'
      BY <1>2, <1>6, <2>1, <2>2 DEF IngestInv, FlightInv
    <2>4. ExcusedInv'
      BY <1>2, <2>2 DEF IngestInv, ExcusedInv
    <2>5. r.event = current => owed' = {}
      BY <1>6, <2>2 DEF IngestInv, OwedInv, FlightInv, Owns
    <2>6. owed' \subseteq owed /\ inFlight' \subseteq Event /\ q.stage # "recording"
      BY <1>1, <2>1, <2>2
    <2>7. QED
      BY <1>2, <1>3, <2>1, <2>2, <2>3, <2>4, <2>5, <2>6, OneMoves
  <1>7. CASE r.event \notin ToSet(committed) /\ r.event \notin inFlight /\ Own(r)
    <2> DEFINE q == [r EXCEPT !.stage = "fanned"]
    <2>1. /\ q \in RequestType /\ q.event = r.event /\ q.attempt = r.attempt /\ q.stage = "fanned"
          /\ Owns(q)
      BY <1>4 DEF Stage, Owns
    <2>2. /\ requests' = (requests \ {r}) \cup {q} /\ inFlight' = inFlight \cup {r.event}
          /\ excused' = excused \ {r.event}
      BY <1>7 DEF At, Own
    <2>3. owed' \subseteq owed /\ (r.event = current => owed' = {})
      BY <1>7 DEF Own, FanOut
    <2> HIDE DEF q
    <2>4. FlightInv'
      <3>1. \A e \in inFlight' : \E p \in requests' : p.event = e /\ Owns(p)
        BY <1>2, <2>1, <2>2 DEF IngestInv, FlightInv
      <3>2. \A p \in requests' : Owns(p) \/ p.stage = "waiting" => p.event \in inFlight'
        BY <2>1, <2>2 DEF IngestInv, FlightInv
      <3>3. \A p \in requests : Owns(p) => p.event # r.event
        BY <1>7 DEF IngestInv, FlightInv
      <3>4. \A p1, p2 \in requests' : Owns(p1) /\ Owns(p2) /\ p1.event = p2.event => p1 = p2
        BY <2>1, <2>2, <3>3 DEF IngestInv, FlightInv
      <3>5. QED
        BY <3>1, <3>2, <3>4 DEF FlightInv
    <2>5. ExcusedInv'
      BY <1>2, <2>2 DEF IngestInv, ExcusedInv
    <2>6. inFlight' \subseteq Event /\ q.stage # "recording"
      BY <1>1, <2>1, <2>2
    <2>7. QED
      BY <1>2, <1>3, <2>1, <2>2, <2>3, <2>4, <2>5, <2>6, OneMoves
  <1>8. QED
    BY <1>5, <1>6, <1>7 DEF DispatchOnce

-----------------------------------------------------------------------------
(* The theorems *)

\* The initial states satisfy the invariant and every step keeps it.
THEOREM IngestInductive ==
    /\ IngestInit => IngestInv
    /\ IngestInv /\ [IngestNext]_evars => IngestInv'
  <1>1. ASSUME IngestInit
        PROVE  IngestInv
    <2>1. SenderTypeOK /\ SenderInv
      BY <1>1, IngestAssumption DEF IngestInit, SenderTypeOK, SenderInv, Event
    <2>2. GatewayTypeOK /\ RequestsInv /\ FlightInv /\ OwedInv /\ ExcusedInv
      BY <1>1, IngestAssumption DEF IngestInit, GatewayTypeOK, RequestsInv, FlightInv, OwedInv, ExcusedInv
    <2>3. DoneInv
      BY <1>1 DEF IngestInit, DoneInv, ToSet
    <2>4. DeviceInv
      BY <1>1 DEF IngestInit, DeviceInv, RowType, Row, NoToken
    <2>5. QED
      BY <2>1, <2>2, <2>3, <2>4 DEF IngestInv
  <1>2. ASSUME IngestInv, IngestNext
        PROVE  IngestInv'
    <2>1. CASE Post
      BY <1>2, <2>1, PostKeeps
    <2>2. CASE \/ AttemptTimesOut \/ DeviceSteps
               \/ \E s \in Socket : Connect(s) \/ PeerFails(s) \/ Pong(s) \/ Heartbeat(s) \/ SocketCloses(s)
      BY <1>2, <2>2, OutsideKeeps
    <2>3. CASE \E r \in requests : Refuse(r) \/ DispatchOnce(r) \/ LookUpTargets(r) \/ RecordUse(r)
      BY <1>2, <2>3, AnswerKeeps, DispatchKeeps, PushesKeep
    <2>4. CASE PushSteps
      BY <1>2, <2>4, PushesKeep DEF PushSteps
    <2>5. CASE DedupeExpires
      BY <1>2, <2>5, ExpiryKeeps
    <2>6. CASE Restart
      BY <1>2, <2>6, RestartKeeps
    <2>7. QED
      BY <1>2, <2>1, <2>2, <2>3, <2>4, <2>5, <2>6 DEF IngestNext
  <1>3. ASSUME IngestInv, UNCHANGED evars
        PROVE  IngestInv'
    <2>1. UNCHANGED <<senderVars, requests, dedupeVars, deviceVars, owed, historyVars>>
      BY <1>3 DEF evars
    <2>2. QED
      BY <1>3, <2>1, NoneGo, DevicesKeep DEF IngestInv
  <1>4. QED
    BY <1>1, <1>2, <1>3

\* The invariant holds in every state of every behaviour.
THEOREM IngestInvariant == IngestSpec => []IngestInv
  BY IngestInductive, PTL DEF IngestSpec

\* Types, and the structure of a flight: one owner while it lasts, duplicates that wait
\* only then, a dedupe window within its size, no row ahead of its device's token.
THEOREM IngestTypes == IngestSpec => []IngestTypeOK
  <1>1. ASSUME IngestInv
        PROVE  IngestTypeOK
    <2>1. \A r \in requests : r.event \in Event /\ r.attempt \in 0..MaxRetries
      BY <1>1 DEF IngestInv, GatewayTypeOK, RequestType
    <2>2. ASSUME NEW e \in Event
          PROVE  Cardinality(Owners(e)) = IF e \in inFlight THEN 1 ELSE 0
      <3>1. Owners(e) = {r \in requests : r.event = e /\ Owns(r)}
        BY DEF Owners, Owns
      <3>2. CASE e \in inFlight
        <4>1. PICK r \in requests : r.event = e /\ Owns(r)
          BY <1>1, <3>2 DEF IngestInv, FlightInv
        <4>2. Owners(e) = {r}
          BY <1>1, <3>1, <4>1 DEF IngestInv, FlightInv
        <4>3. QED
          BY <3>2, <4>2, FS_Singleton
      <3>3. CASE e \notin inFlight
        <4>1. Owners(e) = {}
          BY <1>1, <3>1, <3>3 DEF IngestInv, FlightInv
        <4>2. QED
          BY <3>3, <4>1, FS_EmptySet
      <3>4. QED
        BY <3>2, <3>3
    <2>3. \A e \in Event : Waiters(e) # {} => e \in inFlight
      BY <1>1 DEF IngestInv, FlightInv, Waiters
    <2>4. \A d \in Device : rows[d].token \in 0..own[d]
      BY <1>1 DEF IngestInv, DeviceInv, RowType
    <2>5. QED
      BY <1>1, <2>1, <2>2, <2>3, <2>4 DEF IngestInv, SenderTypeOK, GatewayTypeOK, IngestTypeOK
  <1>2. QED
    BY <1>1, IngestInvariant, PTL

\* An event that was fanned out is fanned out again only if its dispatch failed, its
\* entry was dropped or the gateway restarted.
THEOREM FanOutsExcused == IngestSpec => RepeatsExcused
  <1>1. ASSUME IngestInv, [IngestNext]_evars, NEW r \in requests, r.stage = "sent",
               [r EXCEPT !.stage = "fanned"] \in requests'
        PROVE  r.event \in excused
    <2> DEFINE q == [r EXCEPT !.stage = "fanned"]
    <2>1. r \in RequestType /\ r.event \in Event
      BY <1>1 DEF IngestInv, GatewayTypeOK, RequestType
    <2>2. q.stage = "fanned" /\ q.event = r.event /\ q.attempt = r.attempt /\ q # r
      BY <1>1, <2>1 DEF RequestType
    <2>3. q \in requests' /\ q \notin requests
      BY <1>1, <2>2 DEF IngestInv, RequestsInv
    <2> HIDE DEF q
    <2>4. PICK p \in requests : DispatchOnce(p) /\ Own(p) /\ p.event \notin ToSet(committed)
                                /\ p.event \notin inFlight /\ q = [p EXCEPT !.stage = "fanned"]
      <3>1. CASE UNCHANGED requests
        BY <2>3, <3>1
      <3>2. CASE Post
        BY <2>2, <2>3, <3>2 DEF Post, Request
      <3>3. CASE \E p \in requests : Refuse(p) \/ RecordUse(p)
        BY <2>3, <3>3 DEF Refuse, RecordUse
      <3>4. requests \subseteq RequestType
        BY <1>1 DEF IngestInv, GatewayTypeOK
      <3>5. ASSUME NEW p \in requests, Succeed(p)
            PROVE  FALSE
        <4>1. \A x \in {p} \cup Waiters(p.event) : x \in requests
          BY DEF Waiters
        <4>2. PICK x \in {p} \cup Waiters(p.event) : q = [x EXCEPT !.stage = "recording", !.pushes = {}]
          BY <2>3, <3>5 DEF Succeed
        <4>3. QED
          BY <2>2, <3>4, <4>1, <4>2 DEF RequestType
      <3>6. ASSUME NEW p \in requests, LookUpTargets(p)
            PROVE  FALSE
        <4>1. CASE q = [p EXCEPT !.stage = "pushing", !.pushes = Targets]
          BY <2>2, <3>4, <4>1 DEF RequestType
        <4>2. CASE Fail(p)
          BY <2>3, <4>2 DEF Fail
        <4>3. QED
          BY <2>3, <3>5, <3>6, <4>1, <4>2 DEF LookUpTargets
      <3>7. ASSUME NEW p \in requests, NEW x \in p.pushes,
                   FcmSettles(p, x) \/ FcmTimesOut(p, x) \/ TokenInvalid(p, x) \/ ClearToken(p, x)
            PROVE  FALSE
        <4>1. p.stage = "pushing"
          BY <3>7 DEF FcmSettles, FcmTimesOut, TokenInvalid, ClearToken
        <4>2. ~Succeed(p) => \E ps : q = [p EXCEPT !.pushes = ps]
          BY <2>3, <3>7 DEF FcmSettles, FcmTimesOut, TokenInvalid, ClearToken, PushDone
        <4>3. ASSUME NEW ps, q = [p EXCEPT !.pushes = ps]
              PROVE  FALSE
          BY <2>2, <3>4, <4>1, <4>3 DEF RequestType
        <4>4. QED
          BY <3>5, <4>2, <4>3
      <3>8. CASE Restart
        BY <2>3, <3>8 DEF Restart
      <3>9. ASSUME NEW p \in requests, DispatchOnce(p)
            PROVE  Own(p) /\ p.event \notin ToSet(committed) /\ p.event \notin inFlight
                   /\ q = [p EXCEPT !.stage = "fanned"]
        <4>1. q # [p EXCEPT !.stage = "recording"] /\ q # [p EXCEPT !.stage = "waiting"]
          BY <2>2, <3>4 DEF RequestType
        <4>2. QED
          BY <2>3, <3>9, <4>1 DEF DispatchOnce, Join, Own, At
      <3>10. QED
        BY <1>1, <3>1, <3>2, <3>3, <3>6, <3>7, <3>8, <3>9
        DEF IngestNext, PushSteps, AttemptTimesOut, Connect, PeerFails, Pong, Heartbeat, SocketCloses,
            DeviceSteps, Rotate, RegisterDevice, PatchDevice, DeleteDevice, DedupeExpires, evars
    <2>5. p.event = r.event
      BY <2>1, <2>2, <2>4 DEF RequestType, IngestInv, GatewayTypeOK
    <2>6. QED
      BY <1>1, <2>1, <2>4, <2>5 DEF IngestInv, ExcusedInv
  <1>2. IngestInv /\ [IngestNext]_evars =>
          [\A r \in requests :
             (r.stage = "sent" /\ [r EXCEPT !.stage = "fanned"] \in requests') => r.event \in excused]_evars
    BY <1>1
  <1>3. QED
    BY <1>2, IngestInvariant, PTL DEF IngestSpec, RepeatsExcused

\* What a step is to the sender and to the history of dispatches: an offer, nothing,
\* an event given up, an event accepted that was dispatched, or a dispatch.
StepKind ==
    \/ /\ current \in Event /\ phase = "idle" /\ phase' # "idle" /\ UNCHANGED <<current, fate, dispatched>>
    \/ (phase' # "idle" <=> phase # "idle") /\ UNCHANGED <<current, fate, dispatched>>
    \/ phase = "waiting" /\ Finished("failed") /\ UNCHANGED dispatched
    \/ /\ phase = "waiting" /\ Finished("accepted") /\ UNCHANGED dispatched
       /\ current \in dispatched /\ owed = {}
    \/ /\ UNCHANGED senderVars
       /\ \E r \in requests : dispatched' = dispatched \cup {r.event}

\* Every step is one of these.
LEMMA StepsAre ==
    ASSUME IngestInv, [IngestNext]_evars
    PROVE  StepKind
  <1>1. CASE Post
    <2>1. CASE phase = "idle"
      BY <1>1, <2>1 DEF Post, StepKind, historyVars
    <2>2. CASE phase # "idle"
      BY <1>1, <2>2 DEF Post, StepKind, historyVars
    <2>3. QED
      BY <2>1, <2>2
  <1>2. Retryable /\ phase = "waiting" /\ UNCHANGED dispatched => StepKind
    BY DEF Retryable, StepKind
  <1>3. UNCHANGED senderVars /\ UNCHANGED dispatched => StepKind
    BY DEF StepKind, senderVars
  <1>4. ASSUME NEW rs, NEW status \in {"refused", "unavailable"}, Answer(rs, status), UNCHANGED dispatched
        PROVE  StepKind
    <2>1. CASE status = "refused" /\ phase = "waiting" /\ \E r \in rs : r.event = current /\ r.attempt = attempt
      BY <1>4, <2>1 DEF Answer, StepKind
    <2>2. CASE status = "unavailable" /\ phase = "waiting" /\ \E r \in rs : r.event = current /\ r.attempt = attempt
      BY <1>2, <1>4, <2>2 DEF Answer
    <2>3. CASE ~(phase = "waiting" /\ \E r \in rs : r.event = current /\ r.attempt = attempt)
      BY <1>3, <1>4, <2>3 DEF Answer
    <2>4. QED
      BY <2>1, <2>2, <2>3
  <1>5. ASSUME NEW r \in requests, RecordUse(r)
        PROVE  StepKind
    <2>1. r.stage = "recording" /\ Answer({r}, "accepted") /\ UNCHANGED dispatched
      BY <1>5 DEF RecordUse, historyVars
    <2>2. CASE phase = "waiting" /\ r.event = current /\ r.attempt = attempt
      <3>1. current \in dispatched /\ owed = {}
        BY <2>1, <2>2 DEF IngestInv, DoneInv, OwedInv
      <3>2. QED
        BY <2>1, <2>2, <3>1 DEF Answer, StepKind
    <2>3. CASE ~(phase = "waiting" /\ r.event = current /\ r.attempt = attempt)
      BY <1>3, <2>1, <2>3 DEF Answer
    <2>4. QED
      BY <2>2, <2>3
  <1>6. \A r \in requests : Refuse(r) => StepKind
    BY <1>4 DEF Refuse, historyVars
  <1>7. \A r \in requests : Fail(r) => StepKind
    BY <1>4 DEF Fail
  <1>8. \A r \in requests : Succeed(r) => StepKind
    BY DEF Succeed, StepKind
  <1>9. \A r \in requests : DispatchOnce(r) => StepKind
    BY <1>3 DEF DispatchOnce
  <1>10. \A r \in requests : LookUpTargets(r) => StepKind
    BY <1>3, <1>7, <1>8 DEF LookUpTargets, historyVars
  <1>11. \A r \in requests : \A p \in r.pushes :
           FcmSettles(r, p) \/ FcmTimesOut(r, p) \/ TokenInvalid(r, p) \/ ClearToken(r, p) => StepKind
    BY <1>3, <1>8 DEF FcmSettles, FcmTimesOut, TokenInvalid, ClearToken, PushDone, historyVars
  <1>12. AttemptTimesOut => StepKind
    BY <1>2 DEF AttemptTimesOut, historyVars
  <1>13. \/ UNCHANGED evars \/ DeviceSteps \/ DedupeExpires \/ Restart
         \/ \E s \in Socket : Connect(s) \/ PeerFails(s) \/ Pong(s) \/ Heartbeat(s) \/ SocketCloses(s)
         => StepKind
    BY <1>3 DEF evars, historyVars, DeviceSteps, Rotate, RegisterDevice, PatchDevice, DeleteDevice,
                DedupeExpires, Restart, Connect, PeerFails, Pong, Heartbeat, SocketCloses
  <1>14. QED
    BY <1>1, <1>5, <1>6, <1>9, <1>10, <1>11, <1>12, <1>13 DEF IngestNext, PushSteps

\* An event the plugin takes for accepted was sent to every socket that has been open
\* since before its first attempt: none is owed it.
THEOREM AcceptedReachedClients == IngestSpec => ConnectedClientsHaveIt
  <1>1. ASSUME IngestInv, [IngestNext]_evars, NEW e \in Event,
               fate[e] # "accepted", fate'[e] = "accepted"
        PROVE  owed = {}
    <2>1. StepKind
      BY <1>1, StepsAre
    <2>2. fate \in [Event -> {"unsent", "accepted", "failed"}]
      BY <1>1 DEF IngestInv, SenderTypeOK
    <2>3. ~Finished("failed") /\ fate' # fate
      BY <1>1, <2>2 DEF Finished
    <2>4. QED
      BY <2>1, <2>3 DEF StepKind, senderVars
  <1>2. IngestInv /\ [IngestNext]_evars =>
          [\A e \in Event : fate[e] # "accepted" /\ fate'[e] = "accepted" =>
             \A s \in owed : ~sockets[s].peer]_evars
    BY <1>1
  <1>3. QED
    BY <1>2, IngestInvariant, PTL DEF IngestSpec, ConnectedClientsHaveIt

\* What the abstract specification sees of the plugin's events.
View == [e \in Event |-> IF e = current /\ phase # "idle" THEN "offered" ELSE fate[e]]

\* The retrying sender, the single-flight dedupe and the dispatcher implement
\* EventDelivery: an event counts as accepted only if a dispatch of it ran to its end.
THEOREM ImplementsDelivery == IngestSpec => AtLeastOnce
  <1>1. IngestInit => Delivery!Init
    BY DEF IngestInit, Delivery!Init
  <1>2. ASSUME IngestInv, [IngestNext]_evars
        PROVE  [Delivery!Next]_(Delivery!dvars)
    <2>1. StepKind
      BY <1>2, StepsAre
    <2>2. /\ fate \in [Event -> {"unsent", "accepted", "failed"}] /\ Event \subseteq Nat /\ current \in Nat
          /\ \A e \in Event : fate[e] = "unsent" <=> e >= current
          /\ phase # "idle" => current \in Event
      BY <1>2, IngestAssumption DEF IngestInv, SenderTypeOK, SenderInv, Event
    <2>3. CASE current \in Event /\ phase = "idle" /\ phase' # "idle" /\ UNCHANGED <<current, fate, dispatched>>
      <3>1. PICK e \in Event : e = current
        BY <2>3
      <3>2. View[e] = "unsent"
        BY <2>2, <2>3, <3>1 DEF View
      <3>3. View' = [View EXCEPT ![e] = "offered"]
        BY <2>3, <3>1 DEF View
      <3>4. Delivery!Offer(e)
        BY <2>3, <3>2, <3>3 DEF Delivery!Offer, View
      <3>5. QED
        BY <3>4 DEF Delivery!Next
    <2>4. CASE (phase' # "idle" <=> phase # "idle") /\ UNCHANGED <<current, fate, dispatched>>
      BY <2>4 DEF Delivery!dvars
    <2>5. ASSUME NEW end \in {"accepted", "failed"}, phase = "waiting", Finished(end),
                 NEW e \in Event, e = current
          PROVE  View[e] = "offered" /\ View' = [View EXCEPT ![e] = end]
      <3>1. View[e] = "offered"
        BY <2>5 DEF View
      <3>2. \A x \in Event : View'[x] = IF x = e THEN end ELSE View[x]
        BY <2>2, <2>5 DEF Finished, View
      <3>3. View' = [x \in Event |-> View'[x]] /\ View = [x \in Event |-> View[x]]
        BY DEF View
      <3>4. QED
        BY <3>1, <3>2, <3>3
    <2>6. CASE phase = "waiting" /\ Finished("failed") /\ UNCHANGED dispatched
      <3>1. PICK e \in Event : e = current
        BY <2>2, <2>6
      <3>2. Delivery!GiveUp(e)
        BY <2>5, <2>6, <3>1 DEF Delivery!GiveUp, View
      <3>3. QED
        BY <3>2 DEF Delivery!Next
    <2>7. CASE phase = "waiting" /\ Finished("accepted") /\ UNCHANGED dispatched /\ current \in dispatched
      <3>1. PICK e \in Event : e = current
        BY <2>2, <2>7
      <3>2. Delivery!Accept(e)
        BY <2>5, <2>7, <3>1 DEF Delivery!Accept, View
      <3>3. QED
        BY <3>2 DEF Delivery!Next
    <2>8. ASSUME NEW r \in requests, UNCHANGED senderVars, dispatched' = dispatched \cup {r.event}
          PROVE  Delivery!Next
      <3>1. PICK e \in Event : e = r.event /\ e <= current /\ (e = current => phase # "idle")
        BY <1>2 DEF IngestInv, GatewayTypeOK, RequestType, RequestsInv
      <3>2. View[e] # "unsent"
        <4>1. CASE e = current
          BY <3>1, <4>1 DEF View
        <4>2. CASE e # current
          BY <2>2, <3>1, <4>2 DEF View
        <4>3. QED
          BY <4>1, <4>2
      <3>3. View' = View
        BY <2>8 DEF View, senderVars
      <3>4. Delivery!Dispatch(e)
        BY <2>8, <3>1, <3>2, <3>3 DEF Delivery!Dispatch, View
      <3>5. QED
        BY <3>4 DEF Delivery!Next
    <2>9. QED
      BY <2>1, <2>3, <2>4, <2>6, <2>7, <2>8 DEF StepKind
  <1>3. QED
    BY <1>1, <1>2, IngestInvariant, PTL DEF IngestSpec, AtLeastOnce, Delivery!Spec
=============================================================================
