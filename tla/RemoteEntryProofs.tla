-------------------------- MODULE RemoteEntryProofs --------------------------
(***************************************************************************)
(* Proofs about RemoteEntry and the ControlChannel it drives, for every    *)
(* set of sessions and of Web UI requests, every way the listing is paged, *)
(* and every bound on faults and events.                                   *)
(***************************************************************************)
EXTENDS RemoteEntry, FiniteSetTheorems, SequenceTheorems, WellFoundedInduction, TLAPS

-----------------------------------------------------------------------------
(* The inductive invariant: the channel *)

WebUiFrame == [kind : {"request", "cancel"}, req : Req] \cup [kind : {"close"}]

ChannelTypeOK ==
    /\ running \in BOOLEAN
    /\ probes \in [fresh : 0..1, stale : 0..MaxStale]
    /\ version \in {"none", "known", "unknown"}
    /\ socket \in {"none", "connecting", "open"}
    /\ alive \in 0..1 /\ closing \in 0..MaxStale
    /\ registered \in BOOLEAN /\ timer \in BOOLEAN

TunnelTypeOK ==
    /\ client \in {"absent", "open", "closing", "gone"}
    /\ tunnel \in {"none", "open", "closed"}
    /\ link \in BOOLEAN
    /\ pending \subseteq Req
    /\ down \in Seq(WebUiFrame)
    /\ upstream \in [Req -> [state : {"none", "running", "aborted", "done"}, map : Nat]]
    /\ webUiAborts \in Nat
    /\ sent \in [Req -> {"no", "early", "late"}]

\* One socket at most, and one of a socket, its retry timer and a probe; a stopped
\* channel has none of them.
SocketInv ==
    /\ alive = (IF socket = "none" THEN 0 ELSE 1)
    /\ registered => socket # "none"
    /\ socket # "none" => probes.fresh = 0
    /\ timer => running /\ socket = "none" /\ probes.fresh = 0
    /\ ~running => socket = "none" /\ probes.fresh = 0

IsRequest(i, r) == down[i].kind = "request" /\ down[i].req = r

\* A request is sent once and is on its way once, before it runs.
SentInv ==
    /\ \A r \in Req : sent[r] = "no" => upstream[r].state = "none"
    /\ \A i \in DOMAIN down : \A r \in Req :
         IsRequest(i, r) => sent[r] # "no" /\ upstream[r].state = "none"
    /\ \A i, j \in DOMAIN down : \A r \in Req : IsRequest(i, r) /\ IsRequest(j, r) => i = j

Begun == {r \in Req : upstream[r].state # "none"}

\* A request that began is in an abort map, and there are no more maps than those.
MapsInv ==
    /\ webUiAborts <= Cardinality(Begun)
    /\ \A r \in Req : upstream[r].map <= Cardinality(Begun)
    /\ \A r \in Begun : upstream[r].map # 0

\* No frame travels without the link; after a close only late requests follow, and
\* the client that closed sends none that is not late.
CloseInv ==
    /\ link => client # "absent"
    /\ ~link => down = <<>>
    /\ client = "absent" => down = <<>> /\ \A r \in Req : sent[r] = "no"
    /\ \A i \in DOMAIN down : down[i].kind = "close" => client # "open"
    /\ \A i, j \in DOMAIN down : \A r \in Req :
         i < j /\ down[i].kind = "close" /\ IsRequest(j, r) => sent[r] = "late"

\* No request from before the close is left to come or to run.
EarlyOver ==
    /\ client # "absent" /\ (client # "open" \/ ~link)
    /\ \A r \in Req : sent[r] = "early" =>
         /\ upstream[r].state # "running"
         /\ \A i \in DOMAIN down : ~IsRequest(i, r)

\* A running request from before the close is in the registered abort map; a request
\* in any other map runs only when all of those are over.
AbortInv ==
    /\ \A r \in Req : upstream[r].state = "running" /\ sent[r] = "early" =>
         webUiAborts # 0 /\ upstream[r].map = webUiAborts
    /\ (\E r \in Active : upstream[r].map # webUiAborts) => EarlyOver

\* A stopped channel has no link, so no early request is left to come.
StoppedInv ==
    ~running => /\ ~link
                /\ \A r \in Req : upstream[r].state = "running" => sent[r] = "late"

TunnelInv == TunnelTypeOK /\ SentInv /\ MapsInv /\ CloseInv /\ AbortInv
ChannelInv == ChannelTypeOK /\ SocketInv /\ TunnelInv /\ StoppedInv

-----------------------------------------------------------------------------
(* The inductive invariant: the entry *)

LifecycleTypeOK ==
    /\ v2 \in BOOLEAN /\ always \in BOOLEAN /\ history \in Nat
    /\ known \subseteq Session /\ missed \subseteq Session
    /\ host \in [Session -> {"absent", "live", "archived", "internal"}]
    /\ bus \in Seq(Lifecycles)
    /\ entry \in [Session -> {"absent", "main", "hidden"}]
    /\ looking \subseteq Session
    /\ scheduled \in BOOLEAN
    /\ finds \subseteq Find
    /\ wanted \in BOOLEAN /\ started \in BOOLEAN /\ stopping \in BOOLEAN
    /\ disposed \in BOOLEAN /\ kept \in BOOLEAN

OneCurrent == \A f, g \in finds : f.current /\ g.current => f = g

\* The channel is started exactly while it is wanted and not stopping.
StartedInv == /\ stopping => ~started
              /\ ~disposed => (started <=> wanted /\ ~stopping)
              /\ disposed => ~running

Removal(i, s) == bus[i].session = s /\ bus[i].state \in {"archived", "absent"}
RemovalComing(s) == \E i \in DOMAIN bus : Removal(i, s)
LiveComing(s) == \E i \in DOMAIN bus : bus[i].session = s /\ bus[i].state = "live"

\* An event that tells of a session more than is left of it.
Outlived(i) ==
    \/ bus[i].state = "live" /\ host[bus[i].session] # "live"
    \/ bus[i].state = "archived" /\ host[bus[i].session] \in {"internal", "absent"}

\* Behind what announces a session as more than it is by now its removal follows; and
\* what a call or a current listing took for live is live, hidden, about to be removed,
\* or was left untold.
NewsInv ==
    /\ \A i \in DOMAIN bus : Outlived(i) => \E j \in DOMAIN bus : j > i /\ Removal(j, bus[i].session)
    /\ ~disposed => \A s \in looking :
         host[s] = "live" \/ entry[s] = "hidden" \/ RemovalComing(s) \/ s \in missed
    /\ ~disposed => \A f \in finds : f.current =>
         \A s \in f.live : host[s] = "live" \/ RemovalComing(s) \/ s \in missed

Complete(f) == f.served /\ f.size < Limits[f.page]
Nothing(f) == Complete(f) /\ f.live = {}

\* A current listing that found nothing is overtaken by whatever is live now.
EmptyInv ==
    ~disposed => \A f \in finds : f.current /\ Nothing(f) =>
      \A s \in Session \ missed : host[s] = "live" => LiveComing(s)

\* A live session is wanted, or something under way will want it.
UpInv ==
    ~disposed /\ ~wanted => \A s \in Session \ missed : host[s] = "live" =>
        LiveComing(s) \/ scheduled \/ \E f \in finds : f.current /\ ~Nothing(f)

\* A session that holds the entry: live, or with a removal to come that v2.ts will tell.
Holds(s) == (v2 => s \in known) /\ (host[s] = "live" \/ RemovalComing(s))

\* What is wanted has a reason, or something under way will ask again.
DownInv ==
    ~disposed /\ wanted =>
        \/ kept \/ always \/ scheduled \/ missed # {}
        \/ (\E s \in Session : Holds(s)) \/ \E f \in finds : f.current

LifecycleInv == LifecycleTypeOK /\ OneCurrent /\ NewsInv /\ EmptyInv /\ UpInv /\ DownInv

\* v2.ts holds every session the hook takes for a main one; OpenCode 1 needs none of it.
HeldInv ==
    /\ v2 => \A s \in Session : entry[s] = "main" => s \in known
    /\ \A i \in DOMAIN bus : /\ bus[i].kind = "notice" => bus[i].state # "absent"
                             /\ bus[i].kind = "moved" => bus[i].state = "absent"
    /\ ~v2 => known = {} /\ missed = {} /\ \A i \in DOMAIN bus : bus[i].kind = "info"

EntryInv == ChannelInv /\ LifecycleInv /\ StartedInv

-----------------------------------------------------------------------------
(* Least and greatest *)

\* The lesser of two numbers.
LEMMA MinOfTwo ==
    ASSUME NEW a \in Nat, NEW b \in Nat
    PROVE  Min({a, b}) = IF a <= b THEN a ELSE b
  <1>1. CASE a <= b
    BY <1>1 DEF Min
  <1>2. CASE ~(a <= b)
    BY <1>2 DEF Min
  <1>3. QED
    BY <1>1, <1>2

\* A set of numbers that is not empty and bounded has a greatest member.
LEMMA GreatestOf ==
    ASSUME NEW n \in Nat, NEW T \in SUBSET 0..n, T # {}
    PROVE  Max(T) \in T
  <1> DEFINE D == {n - x : x \in T}
  <1>1. D \in SUBSET Nat /\ D # {}
    <2>1. \A x \in T : x \in Nat /\ x <= n
      OBVIOUS
    <2>2. \A x \in T : n - x \in Nat
      BY <2>1
    <2>3. QED
      BY <2>2
  <1> HIDE DEF D
  <1>2. PICK d \in D : \A y \in D : ~(<<y, d>> \in OpToRel(<, Nat))
    BY <1>1, NatLessThanWellFounded, WFMin
  <1>3. \A y \in D : ~(y < d)
    BY <1>1, <1>2 DEF OpToRel
  <1>4. PICK x \in T : d = n - x
    BY DEF D
  <1>5. \A y \in T : ~(n - y < n - x)
    BY <1>3, <1>4 DEF D
  <1>6. \A y \in T : y <= x
    BY <1>5
  <1>7. QED
    BY <1>4, <1>6 DEF Max

-----------------------------------------------------------------------------
(* The channel's socket, timer and probes *)

\* What these steps must not touch.
tunnelSide == <<client, tunnel, link, pending, down, upstream, webUiAborts, sent>>

SocketPart == ChannelTypeOK /\ SocketInv

\* The socket connect() opens is the only one.
LEMMA Opened ==
    ASSUME SocketPart, socket = "none", OpensSocket, running' = TRUE, UNCHANGED closing,
           version' \in {"none", "known", "unknown"},
           probes' \in [fresh : 0..1, stale : 0..MaxStale], probes'.fresh = 0
    PROVE  SocketPart'
  <1>1. /\ socket' = "connecting" /\ alive' = 1 /\ registered' = FALSE /\ timer' = FALSE
        /\ closing' \in 0..MaxStale
    BY DEF SocketPart, ChannelTypeOK, SocketInv, OpensSocket
  <1>2. socket' \in {"none", "connecting", "open"} /\ alive' \in 0..1
    BY <1>1
  <1>3. running' \in BOOLEAN /\ registered' \in BOOLEAN /\ timer' \in BOOLEAN
    BY <1>1
  <1>4. ChannelTypeOK'
    BY <1>1, <1>2, <1>3 DEF ChannelTypeOK
  <1>5. SocketInv'
    BY <1>1 DEF SocketInv
  <1>6. QED
    BY <1>4, <1>5 DEF SocketPart

\* connect() begins with no socket or ends at once, and dials or probes once.
LEMMA ConnectKeeps ==
    ASSUME SocketPart, probes.fresh = 0, running' = TRUE, Connect, UNCHANGED closing
    PROVE  SocketPart'
  <1>1. ChannelTypeOK /\ SocketInv
    BY DEF SocketPart
  <1>2. CASE socket # "none" /\ timer' = FALSE
             /\ UNCHANGED <<probes, version, socket, alive, registered, budget>>
    BY <1>1, <1>2 DEF SocketPart, ChannelTypeOK, SocketInv
  <1>3. CASE socket = "none" /\ Dial /\ UNCHANGED <<probes, version>>
    <2>1. CASE OpensSocket
      <3>1. probes' = probes /\ probes'.fresh = 0 /\ UNCHANGED <<version, closing>>
        BY <1>3
      <3>2. QED
        BY <1>1, <1>3, <2>1, <3>1, Opened DEF ChannelTypeOK
    <2>2. CASE FactoryFails
      BY <1>1, <1>3, <2>2 DEF SocketPart, ChannelTypeOK, SocketInv, FactoryFails
    <2>3. QED
      BY <1>3, <2>1, <2>2 DEF Dial
  <1>4. CASE /\ socket = "none" /\ version' = "none"
             /\ probes' = [probes EXCEPT !.fresh = @ + 1]
             /\ timer' = FALSE
             /\ UNCHANGED <<socket, alive, registered, budget>>
    <2>1. probes' \in [fresh : 0..1, stale : 0..MaxStale]
      BY <1>1, <1>4 DEF ChannelTypeOK
    <2>2. QED
      BY <1>1, <1>4, <2>1 DEF SocketPart, ChannelTypeOK, SocketInv
  <1>5. QED
    BY <1>2, <1>3, <1>4 DEF Connect

\* The plugin closes what it has, when the channel stops and when its socket drops.
LEMMA ClosesKeeps ==
    ASSUME SocketPart, Closes, UNCHANGED version, timer' = running', running' \in BOOLEAN,
           \/ ~running' /\ probes' \in [fresh : {0}, stale : 0..MaxStale]
           \/ running' = running /\ UNCHANGED probes /\ socket # "none"
    PROVE  SocketPart'
  <1>1. /\ socket' = "none" /\ registered' = FALSE
        /\ alive' = (IF socket = "none" THEN alive ELSE alive - 1)
        /\ closing' = (IF socket = "none" THEN closing ELSE Min({closing + 1, MaxStale}))
    BY DEF Closes
  <1>2. alive' = 0
    BY <1>1 DEF SocketPart, ChannelTypeOK, SocketInv
  <1>3. closing' \in 0..MaxStale
    <2>1. closing \in 0..MaxStale /\ MaxStale \in Nat
      BY ChannelAssumption DEF SocketPart, ChannelTypeOK
    <2>2. Min({closing + 1, MaxStale}) = IF closing + 1 <= MaxStale THEN closing + 1 ELSE MaxStale
      BY <2>1, MinOfTwo
    <2>3. QED
      BY <1>1, <2>1, <2>2
  <1>4. probes' \in [fresh : 0..1, stale : 0..MaxStale] /\ probes'.fresh = 0
    BY DEF SocketPart, ChannelTypeOK, SocketInv
  <1>5. ChannelTypeOK'
    BY <1>1, <1>2, <1>3, <1>4 DEF SocketPart, ChannelTypeOK
  <1>6. SocketInv'
    BY <1>1, <1>2, <1>4 DEF SocketPart, SocketInv
  <1>7. QED
    BY <1>5, <1>6 DEF SocketPart

\* start, stop and drop.
LEMMA StartStopSocket ==
    ASSUME SocketPart
    PROVE  /\ Start => SocketPart' /\ running' /\ UNCHANGED tunnelSide
           /\ Stop => SocketPart' /\ ~running'
           /\ Drop /\ socket # "none" => SocketPart' /\ running' = running
  <1>1. Start => SocketPart' /\ running' /\ UNCHANGED tunnelSide
    <2>1. CASE ~running
      <3>1. probes.fresh = 0
        BY <2>1 DEF SocketPart, SocketInv
      <3>2. Start => running' = TRUE /\ Connect /\ UNCHANGED closing /\ UNCHANGED tunnelSide
        BY <2>1 DEF Start, tunnelVars, tunnelSide
      <3>3. QED
        BY <3>1, <3>2, ConnectKeeps
    <2>2. CASE running
      BY <2>2 DEF Start, tunnelVars, tunnelSide, SocketPart, ChannelTypeOK, SocketInv, socketVars
    <2>3. QED
      BY <2>1, <2>2
  <1>2. ASSUME Stop
        PROVE  SocketPart' /\ ~running'
    <2>1. /\ running' = FALSE /\ timer' = FALSE /\ Closes /\ UNCHANGED version
          /\ probes' = [fresh |-> 0, stale |-> Min({probes.stale + probes.fresh, MaxStale})]
      BY <1>2 DEF Stop
    <2>2. probes.stale + probes.fresh \in Nat /\ MaxStale \in Nat
      BY ChannelAssumption DEF SocketPart, ChannelTypeOK
    <2>3. Min({probes.stale + probes.fresh, MaxStale}) \in 0..MaxStale
      <3> DEFINE a == probes.stale + probes.fresh
      <3>1. a \in Nat
        BY <2>2
      <3> HIDE DEF a
      <3>2. Min({a, MaxStale}) = IF a <= MaxStale THEN a ELSE MaxStale
        BY <2>2, <3>1, MinOfTwo
      <3>3. Min({a, MaxStale}) \in 0..MaxStale
        BY <2>2, <3>1, <3>2
      <3>4. QED
        BY <3>3 DEF a
    <2>4. probes' \in [fresh : {0}, stale : 0..MaxStale]
      BY <2>1, <2>3
    <2>5. QED
      BY <2>1, <2>4, ClosesKeeps
  <1>3. Drop /\ socket # "none" => SocketPart' /\ running' = running
    <2>1. Drop => timer' = running' /\ running' = running /\ Closes /\ UNCHANGED <<probes, version>>
      BY DEF Drop
    <2>2. running \in BOOLEAN
      BY DEF SocketPart, ChannelTypeOK
    <2>3. QED
      BY <2>1, <2>2, ClosesKeeps
  <1>4. QED
    BY <1>1, <1>2, <1>3

\* The channel's callbacks, those that close a socket left aside.
LEMMA CallbacksKeep ==
    ASSUME SocketPart,
           ProbeStep \/ SocketOpens \/ Registration \/ OldSocketCloses \/ Reconnect
    PROVE  SocketPart' /\ running' = running /\ UNCHANGED tunnelSide
  <1>1. ChannelTypeOK /\ SocketInv /\ MaxStale \in Nat
    BY ChannelAssumption DEF SocketPart
  <1>2. ASSUME NEW of \in {"fresh", "stale"}, NEW found \in {"known", "unknown"}, ProbeSettles(of, found)
        PROVE  SocketPart' /\ running' = running /\ UNCHANGED tunnelSide
    <2>1. /\ probes[of] > 0 /\ probes' = [probes EXCEPT ![of] = @ - 1]
          /\ UNCHANGED <<running, closing, tunnelVars>>
      BY <1>2 DEF ProbeSettles
    <2>2. /\ probes' \in [fresh : 0..1, stale : 0..MaxStale]
          /\ probes.fresh \in 0..1
          /\ of = "fresh" => probes'.fresh = 0
          /\ of = "stale" => probes'.fresh = probes.fresh
      <3>1. probes \in [fresh : 0..1, stale : 0..MaxStale]
        BY <1>1 DEF ChannelTypeOK
      <3>2. CASE of = "fresh"
        <4>1. probes.fresh \in 0..1 /\ probes.fresh > 0 /\ probes.stale \in 0..MaxStale
          BY <2>1, <3>1, <3>2
        <4>2. probes' = [fresh |-> probes.fresh - 1, stale |-> probes.stale]
          BY <2>1, <3>1, <3>2
        <4>3. QED
          BY <3>2, <4>1, <4>2
      <3>3. CASE of = "stale"
        BY <1>1, <2>1, <3>1, <3>3
      <3>4. QED
        BY <3>2, <3>3
    <2>3. CASE of = "fresh" /\ running /\ socket = "none"
      <3>1. version' = found /\ Dial
        BY <1>2, <2>3 DEF ProbeSettles
      <3>2. CASE OpensSocket
        <4>1. running' = TRUE /\ version' \in {"none", "known", "unknown"} /\ UNCHANGED closing
          BY <1>1, <2>1, <2>3, <3>1 DEF ChannelTypeOK
        <4>2. SocketPart'
          BY <2>2, <2>3, <3>2, <4>1, Opened
        <4>3. QED
          BY <2>1, <4>2 DEF tunnelVars, tunnelSide
      <3>3. CASE FactoryFails
        BY <1>1, <2>1, <2>2, <2>3, <3>1, <3>3
        DEF SocketPart, ChannelTypeOK, SocketInv, FactoryFails, tunnelVars, tunnelSide
      <3>4. QED
        BY <3>1, <3>2, <3>3 DEF Dial
    <2>4. CASE ~(of = "fresh" /\ running /\ socket = "none")
      <3>1. UNCHANGED <<version, socket, alive, registered, timer, budget>>
        BY <1>2, <2>4 DEF ProbeSettles
      <3>2. probes.fresh = 0 => probes'.fresh = 0
        BY <1>1, <2>1, <2>2
      <3>3. QED
        BY <1>1, <2>1, <2>2, <3>1, <3>2 DEF SocketPart, ChannelTypeOK, SocketInv, tunnelVars, tunnelSide
    <2>5. QED
      BY <2>3, <2>4
  <1>3. SocketOpens \/ Registration \/ OldSocketCloses => SocketPart' /\ running' = running /\ UNCHANGED tunnelSide
    <2>1. SocketOpens => SocketPart'
      BY <1>1 DEF SocketPart, ChannelTypeOK, SocketInv, SocketOpens
    <2>2. Registration => SocketPart'
      BY <1>1 DEF SocketPart, ChannelTypeOK, SocketInv, Registration
    <2>3. OldSocketCloses => SocketPart'
      BY <1>1 DEF SocketPart, ChannelTypeOK, SocketInv, OldSocketCloses
    <2>4. QED
      BY <2>1, <2>2, <2>3 DEF SocketOpens, Registration, OldSocketCloses, tunnelVars, tunnelSide
  <1>4. ASSUME Reconnect
        PROVE  SocketPart' /\ running' = running /\ UNCHANGED tunnelSide
    <2>1. timer /\ Connect /\ UNCHANGED <<running, closing>> /\ UNCHANGED tunnelSide
      BY <1>4 DEF Reconnect, tunnelVars, tunnelSide
    <2>2. running' = TRUE /\ probes.fresh = 0
      BY <1>1, <2>1 DEF SocketInv, ChannelTypeOK
    <2>3. QED
      BY <2>1, <2>2, ConnectKeeps
  <1>5. QED
    BY <1>2, <1>3, <1>4 DEF ProbeStep

-----------------------------------------------------------------------------
(* The tunnel *)

\* A frame more, at the end.
LEMMA Appended ==
    ASSUME NEW S, NEW s \in Seq(S), NEW x \in S, NEW t, t = Append(s, x)
    PROVE  /\ t \in Seq(S) /\ Len(s) \in Nat /\ Len(t) = Len(s) + 1
           /\ DOMAIN s = 1..Len(s) /\ DOMAIN t = 1..(Len(s) + 1)
           /\ t[Len(s) + 1] = x /\ \A i \in 1..Len(s) : t[i] = s[i]
  BY AppendProperties

\* A frame less, at the head.
LEMMA Tailed ==
    ASSUME NEW S, NEW s \in Seq(S), s # <<>>, NEW t, t = Tail(s)
    PROVE  /\ t \in Seq(S) /\ Len(s) \in Nat \ {0} /\ Len(t) = Len(s) - 1
           /\ DOMAIN s = 1..Len(s) /\ DOMAIN t = 1..(Len(s) - 1)
           /\ Head(s) = s[1] /\ s[1] \in S /\ \A i \in 1..(Len(s) - 1) : t[i] = s[i + 1]
  BY HeadTailProperties

\* The frames that stay keep their order; one that comes is no request, and a close
\* comes only of a client that sends no more early ones.
DownMoves ==
    /\ down' \in Seq(WebUiFrame)
    /\ \E n \in {0, 1} : \A i \in DOMAIN down' :
         \/ i + n \in DOMAIN down /\ down'[i] = down[i + n]
         \/ /\ \A j \in DOMAIN down' : j <= i
            /\ down'[i].kind # "request" /\ (down'[i].kind = "close" => client' # "open")

\* A step on which no request is sent or begins.
LEMMA QuietKeeps ==
    ASSUME TunnelInv, UNCHANGED <<link, sent>>, DownMoves,
           TunnelTypeOK', client' = client \/ (client # "absent" /\ client' \in {"closing", "gone"}),
           ~link => down' = <<>>, client = "absent" => down' = <<>>,
           \A r \in Req : /\ upstream'[r].state = "none" <=> upstream[r].state = "none"
                          /\ upstream'[r].state = "running" => upstream[r].state = "running"
                          /\ upstream'[r].map = upstream[r].map,
           webUiAborts' \in {0, webUiAborts},
           \A r \in Req : upstream'[r].state = "running" /\ sent[r] = "early" => webUiAborts' = webUiAborts,
           (\E r \in Active' : upstream'[r].map # webUiAborts') => EarlyOver \/ EarlyOver'
    PROVE  TunnelInv'
  <1>1. PICK n \in {0, 1} : \A i \in DOMAIN down' :
          \/ i + n \in DOMAIN down /\ down'[i] = down[i + n]
          \/ /\ \A j \in DOMAIN down' : j <= i
             /\ down'[i].kind # "request" /\ (down'[i].kind = "close" => client' # "open")
    BY DEF DownMoves
  <1>2. /\ down \in Seq(WebUiFrame) /\ DOMAIN down = 1..Len(down) /\ Len(down) \in Nat
        /\ down' \in Seq(WebUiFrame) /\ DOMAIN down' = 1..Len(down') /\ Len(down') \in Nat
    BY DEF TunnelInv, TunnelTypeOK, DownMoves
  <1>3. \A i \in DOMAIN down' : \A r \in Req : IsRequest(i, r)' => i + n \in DOMAIN down /\ IsRequest(i + n, r)
    BY <1>1 DEF IsRequest
  <1>4. SentInv'
    <2>1. \A i, j \in DOMAIN down' : \A r \in Req : IsRequest(i, r)' /\ IsRequest(j, r)' => i = j
      <3>1. SUFFICES ASSUME NEW i \in DOMAIN down', NEW j \in DOMAIN down', NEW r \in Req,
                            IsRequest(i, r)', IsRequest(j, r)'
                     PROVE  i = j
        OBVIOUS
      <3>2. i + n = j + n
        BY <1>3, <3>1 DEF TunnelInv, SentInv
      <3>3. QED
        BY <1>2, <3>2
    <2>2. \A i \in DOMAIN down' : \A r \in Req :
            IsRequest(i, r)' => sent'[r] # "no" /\ upstream'[r].state = "none"
      BY <1>3 DEF TunnelInv, SentInv
    <2>3. \A r \in Req : sent'[r] = "no" => upstream'[r].state = "none"
      BY DEF TunnelInv, SentInv
    <2>4. QED
      BY <2>1, <2>2, <2>3 DEF SentInv
  <1>5. MapsInv'
    <2>1. Begun' = Begun
      BY DEF Begun
    <2>2. 0 <= Cardinality(Begun)
      <3>1. IsFiniteSet(Begun)
        BY ChannelAssumption, FS_Subset DEF Begun
      <3>2. QED
        BY <3>1, FS_CardinalityType
    <2>3. webUiAborts' <= Cardinality(Begun)
      BY <2>2 DEF TunnelInv, MapsInv
    <2>4. \A r \in Req : upstream'[r].map <= Cardinality(Begun)
      BY DEF TunnelInv, MapsInv
    <2>5. \A r \in Begun : upstream'[r].map # 0
      BY DEF TunnelInv, MapsInv, Begun
    <2>6. QED
      BY <2>1, <2>3, <2>4, <2>5 DEF MapsInv
  <1>6. CloseInv'
    <2>1. \A i \in DOMAIN down' : down'[i].kind = "close" => client' # "open"
      BY <1>1 DEF TunnelInv, CloseInv
    <2>2. ASSUME NEW i \in DOMAIN down', NEW j \in DOMAIN down', NEW r \in Req,
                 i < j, down'[i].kind = "close", IsRequest(j, r)'
          PROVE  sent'[r] = "late"
      <3>1. i + n \in DOMAIN down /\ down'[i] = down[i + n]
        BY <1>1, <1>2, <2>2
      <3>2. j + n \in DOMAIN down /\ IsRequest(j + n, r)
        BY <1>3, <2>2
      <3>3. i + n < j + n
        BY <1>2, <2>2
      <3>4. QED
        BY <2>2, <3>1, <3>2, <3>3 DEF TunnelInv, CloseInv
    <2>3. /\ link' => client' # "absent"
          /\ client' = "absent" => client = "absent"
      BY DEF TunnelInv, CloseInv
    <2>4. /\ ~link' => down' = <<>>
          /\ client' = "absent" => down' = <<>> /\ \A r \in Req : sent'[r] = "no"
      BY <2>3 DEF TunnelInv, CloseInv
    <2>5. QED
      BY <2>1, <2>2, <2>3, <2>4 DEF CloseInv
  <1>7. AbortInv'
    <2>1. EarlyOver => EarlyOver'
      <3>1. SUFFICES ASSUME EarlyOver
                     PROVE  EarlyOver'
        OBVIOUS
      <3>2. client' # "absent" /\ (client' # "open" \/ ~link')
        BY <3>1 DEF EarlyOver
      <3>3. \A r \in Req : sent'[r] = "early" =>
              /\ upstream'[r].state # "running"
              /\ \A i \in DOMAIN down' : ~IsRequest(i, r)'
        BY <1>3, <3>1 DEF EarlyOver
      <3>4. QED
        BY <3>2, <3>3 DEF EarlyOver
    <2>2. \A r \in Req : upstream'[r].state = "running" /\ sent'[r] = "early" =>
            webUiAborts' # 0 /\ upstream'[r].map = webUiAborts'
      BY DEF TunnelInv, AbortInv
    <2>3. QED
      BY <2>1, <2>2 DEF AbortInv
  <1>8. QED
    BY <1>4, <1>5, <1>6, <1>7 DEF TunnelInv

\* Nothing travels at all.
LEMMA NothingComes ==
    ASSUME TunnelInv, UNCHANGED down
    PROVE  DownMoves /\ down \in Seq(WebUiFrame)
  <1>1. down \in Seq(WebUiFrame) /\ DOMAIN down = 1..Len(down) /\ Len(down) \in Nat
    BY DEF TunnelInv, TunnelTypeOK
  <1>2. \A i \in DOMAIN down : i + 0 \in DOMAIN down /\ down[i] = down[i + 0]
    BY <1>1
  <1>3. QED
    BY <1>1, <1>2 DEF DownMoves

\* A cancel or a close goes on its way.
LEMMA FrameComes ==
    ASSUME TunnelInv, NEW x \in WebUiFrame, x.kind # "request", x.kind = "close" => client' # "open",
           down' = Append(down, x)
    PROVE  DownMoves
  <1>1. down \in Seq(WebUiFrame)
    BY DEF TunnelInv, TunnelTypeOK
  <1>2. /\ down' \in Seq(WebUiFrame) /\ Len(down) \in Nat /\ Len(down') = Len(down) + 1
        /\ DOMAIN down = 1..Len(down) /\ DOMAIN down' = 1..(Len(down) + 1)
        /\ down'[Len(down) + 1] = x /\ \A i \in 1..Len(down) : down'[i] = down[i]
    BY <1>1, Appended
  <1>3. \A i \in DOMAIN down' :
          \/ i + 0 \in DOMAIN down /\ down'[i] = down[i + 0]
          \/ (\A j \in DOMAIN down' : j <= i) /\ down'[i] = x
    <2>1. SUFFICES ASSUME NEW i \in 1..(Len(down) + 1)
                   PROVE  \/ i + 0 \in DOMAIN down /\ down'[i] = down[i + 0]
                          \/ (\A j \in 1..(Len(down) + 1) : j <= i) /\ down'[i] = x
      BY <1>2
    <2>2. CASE i = Len(down) + 1
      BY <1>2, <2>2
    <2>3. CASE i # Len(down) + 1
      BY <1>2, <2>3
    <2>4. QED
      BY <2>2, <2>3
  <1>4. QED
    BY <1>2, <1>3 DEF DownMoves

\* The plugin takes a frame from the head.
LEMMA FrameGoes ==
    ASSUME TunnelInv, down # <<>>, down' = Tail(down)
    PROVE  /\ DownMoves
           /\ \A i \in DOMAIN down' : i + 1 \in DOMAIN down /\ 1 < i + 1 /\ down'[i] = down[i + 1]
           /\ 1 \in DOMAIN down /\ Head(down) = down[1] /\ down[1] \in WebUiFrame
  <1>1. down \in Seq(WebUiFrame)
    BY DEF TunnelInv, TunnelTypeOK
  <1>2. /\ down' \in Seq(WebUiFrame) /\ Len(down) \in Nat \ {0} /\ Len(down') = Len(down) - 1
        /\ DOMAIN down = 1..Len(down) /\ DOMAIN down' = 1..(Len(down) - 1)
        /\ Head(down) = down[1] /\ down[1] \in WebUiFrame
        /\ \A i \in 1..(Len(down) - 1) : down'[i] = down[i + 1]
    BY <1>1, Tailed
  <1>3. \A i \in DOMAIN down' : i + 1 \in DOMAIN down /\ 1 < i + 1 /\ down'[i] = down[i + 1]
    BY <1>2
  <1>4. QED
    BY <1>2, <1>3 DEF DownMoves

\* The gateway closes the tunnel for a client that has closed, gone or fallen behind.
LEMMA TunnelCloses ==
    ASSUME TunnelInv, CloseWebUiTunnel, client # "absent", client' \in {"closing", "gone"}
    PROVE  /\ DownMoves /\ tunnel' \in {"none", "open", "closed"}
           /\ ~link => down' = <<>>
  <1>1. CASE tunnel = "open" /\ link
    <2> DEFINE x == [kind |-> "close"]
    <2>1. down' = Append(down, x) /\ x \in WebUiFrame /\ x.kind = "close" /\ client' # "open"
      BY <1>1 DEF CloseWebUiTunnel, WebUiFrame
    <2> HIDE DEF x
    <2>2. DownMoves
      BY <2>1, FrameComes
    <2>3. QED
      BY <1>1, <2>2 DEF CloseWebUiTunnel
  <1>2. CASE ~(tunnel = "open" /\ link)
    <2>1. UNCHANGED down /\ tunnel' \in {"none", "open", "closed"}
      BY <1>2 DEF CloseWebUiTunnel, TunnelInv, TunnelTypeOK
    <2>2. QED
      BY <2>1, NothingComes DEF TunnelInv, CloseInv
  <1>3. QED
    BY <1>1, <1>2

\* What a frame of a response does on the gateway's side of the tunnel.
LEMMA ResponseComes ==
    ASSUME TunnelInv, NEW r \in Req, NEW last \in BOOLEAN, HandleWebUiResponse(r, last), UNCHANGED link
    PROVE  /\ DownMoves /\ down' \in Seq(WebUiFrame)
           /\ tunnel' \in {"none", "open", "closed"} /\ pending' \subseteq Req
           /\ client' = client \/ (client # "absent" /\ client' \in {"closing", "gone"})
           /\ client' \in {"absent", "open", "closing", "gone"}
           /\ ~link => down' = <<>>
           /\ client = "absent" => down' = <<>>
  <1>1. pending' \subseteq Req
    BY DEF HandleWebUiResponse, TunnelInv, TunnelTypeOK
  <1>2. CASE UNCHANGED <<client, tunnel, down>>
    BY <1>1, <1>2, NothingComes DEF TunnelInv, TunnelTypeOK, CloseInv
  <1>3. CASE link /\ client' = "gone" /\ CloseWebUiTunnel
    <2>1. client # "absent"
      BY <1>3 DEF TunnelInv, CloseInv
    <2>2. DownMoves /\ tunnel' \in {"none", "open", "closed"}
      BY <1>3, <2>1, TunnelCloses
    <2>3. QED
      BY <1>1, <1>3, <2>1, <2>2 DEF DownMoves
  <1>4. QED
    BY <1>2, <1>3 DEF HandleWebUiResponse

\* The client's own frames and its end.
LEMMA ClientKeeps ==
    ASSUME TunnelInv
    PROVE  /\ ClientCloses \/ ClientGone => TunnelInv'
           /\ \A r \in Req : ClientCancels(r) => TunnelInv'
  <1>1. ASSUME ClientCloses \/ ClientGone
        PROVE  TunnelInv'
    <2>1. /\ client # "absent" /\ client' \in {"closing", "gone"} /\ CloseWebUiTunnel
          /\ UNCHANGED <<link, pending, upstream, webUiAborts, sent>>
      BY <1>1 DEF ClientCloses, ClientGone
    <2>2. DownMoves /\ tunnel' \in {"none", "open", "closed"} /\ (~link => down' = <<>>)
      BY <2>1, TunnelCloses
    <2>3. TunnelTypeOK'
      BY <2>1, <2>2 DEF TunnelInv, TunnelTypeOK, DownMoves
    <2>4. (\E r \in Active' : upstream'[r].map # webUiAborts') => EarlyOver
      BY <2>1 DEF TunnelInv, AbortInv, Active
    <2>5. QED
      BY <2>1, <2>2, <2>3, <2>4, QuietKeeps
  <1>2. ASSUME NEW r \in Req, ClientCancels(r)
        PROVE  TunnelInv'
    <2> DEFINE x == Frame("cancel", r)
    <2>1. /\ client = "open" /\ pending' = pending \ {r}
          /\ down' = IF link THEN Append(down, x) ELSE down
          /\ UNCHANGED <<client, tunnel, link, upstream, webUiAborts, sent>>
      BY <1>2 DEF ClientCancels, Forward
    <2>2. x \in WebUiFrame /\ x.kind = "cancel"
      BY DEF Frame, WebUiFrame
    <2> HIDE DEF x
    <2>3. DownMoves
      <3>1. CASE link
        BY <2>1, <2>2, <3>1, FrameComes
      <3>2. CASE ~link
        BY <2>1, <3>2, NothingComes
      <3>3. QED
        BY <3>1, <3>2
    <2>4. TunnelTypeOK'
      BY <2>1, <2>3 DEF TunnelInv, TunnelTypeOK, DownMoves
    <2>5. (\E q \in Active' : upstream'[q].map # webUiAborts') => EarlyOver
      BY <2>1 DEF TunnelInv, AbortInv, Active
    <2>6. ~link => down' = <<>>
      BY <2>1 DEF TunnelInv, CloseInv
    <2>7. QED
      BY <2>1, <2>3, <2>4, <2>5, <2>6, QuietKeeps
  <1>3. QED
    BY <1>1, <1>2

\* A response, and the end of a request: the finally that unregisters a map finds it
\* empty, and then either it was the request's own or no early request is left.
LEMMA ResponsesKeep ==
    ASSUME TunnelInv, NEW r \in Req
    PROVE  /\ ResponseFrame(r) => TunnelInv'
           /\ RequestEnds(r) => TunnelInv'
  <1>1. ASSUME ResponseFrame(r)
        PROVE  TunnelInv'
    <2>1. HandleWebUiResponse(r, FALSE) /\ UNCHANGED <<link, upstream, webUiAborts, sent>>
      BY <1>1 DEF ResponseFrame
    <2>2. (\E q \in Active' : upstream'[q].map # webUiAborts') => EarlyOver
      BY <2>1 DEF TunnelInv, AbortInv, Active
    <2>3. TunnelTypeOK'
      BY <2>1, ResponseComes DEF TunnelInv, TunnelTypeOK
    <2>4. QED
      BY <2>1, <2>2, <2>3, ResponseComes, QuietKeeps
  <1>2. ASSUME RequestEnds(r)
        PROVE  TunnelInv'
    <2> DEFINE others == {o \in Active \ {r} : upstream[o].map = upstream[r].map}
    <2>1. /\ r \in Active /\ HandleWebUiResponse(r, TRUE) /\ UNCHANGED <<link, sent>>
          /\ upstream' = [upstream EXCEPT ![r].state = "done"]
          /\ webUiAborts' = IF others = {} THEN 0 ELSE webUiAborts
      BY <1>2 DEF RequestEnds
    <2>2. /\ upstream' \in [Req -> [state : {"none", "running", "aborted", "done"}, map : Nat]]
          /\ \A q \in Req : /\ upstream'[q].map = upstream[q].map
                            /\ q = r => upstream'[q].state = "done"
                            /\ q # r => upstream'[q].state = upstream[q].state
      BY <2>1 DEF TunnelInv, TunnelTypeOK
    <2>3. webUiAborts' \in {0, webUiAborts} /\ webUiAborts' \in Nat
      BY <2>1 DEF TunnelInv, TunnelTypeOK
    <2>4. TunnelTypeOK'
      BY <2>1, <2>2, <2>3, ResponseComes DEF TunnelInv, TunnelTypeOK
    <2>5. \A q \in Req : /\ upstream'[q].state = "none" <=> upstream[q].state = "none"
                         /\ upstream'[q].state = "running" => upstream[q].state = "running"
                         /\ upstream'[q].map = upstream[q].map
      BY <2>1, <2>2 DEF Active
    <2>6. \A q \in Req : upstream'[q].state = "running" /\ sent[q] = "early" => webUiAborts' = webUiAborts
      <3>1. SUFFICES ASSUME NEW q \in Req, upstream'[q].state = "running", sent[q] = "early", others = {}
                     PROVE  FALSE
        BY <2>1
      <3>2. q # r /\ upstream[q].state = "running"
        BY <2>2, <3>1
      <3>3. webUiAborts # 0 /\ upstream[q].map = webUiAborts
        BY <3>1, <3>2 DEF TunnelInv, AbortInv
      <3>4. upstream[r].map # webUiAborts
        BY <3>1, <3>2, <3>3 DEF Active
      <3>5. EarlyOver
        BY <2>1, <3>4 DEF TunnelInv, AbortInv
      <3>6. QED
        BY <3>1, <3>2, <3>5 DEF EarlyOver
    <2>7. (\E q \in Active' : upstream'[q].map # webUiAborts') => EarlyOver
      <3>1. SUFFICES ASSUME NEW q \in Active', upstream'[q].map # webUiAborts'
                     PROVE  EarlyOver
        OBVIOUS
      <3>2. q \in Active /\ q # r /\ upstream'[q].map = upstream[q].map
        BY <2>2, <3>1 DEF Active
      <3>3. CASE others = {}
        <4>1. upstream[q].map # upstream[r].map
          BY <3>2, <3>3
        <4>2. upstream[q].map # webUiAborts \/ upstream[r].map # webUiAborts
          BY <4>1
        <4>3. QED
          BY <2>1, <3>2, <4>2 DEF TunnelInv, AbortInv
      <3>4. CASE others # {}
        BY <2>1, <3>1, <3>2, <3>4 DEF TunnelInv, AbortInv
      <3>5. QED
        BY <3>3, <3>4
    <2>8. QED
      BY <2>1, <2>3, <2>4, <2>5, <2>6, <2>7, ResponseComes, QuietKeeps
  <1>3. QED
    BY <1>1, <1>2

\* The tunnel opens, once, when nothing has been sent.
LEMMA OpeningKeeps ==
    ASSUME TunnelInv, ClientOpens
    PROVE  TunnelInv'
  <1>1. /\ client = "absent" /\ client' = "open" /\ tunnel' = "open" /\ link' = TRUE
        /\ UNCHANGED <<pending, down, upstream, webUiAborts, sent>>
    BY DEF ClientOpens
  <1>2. down = <<>> /\ \A r \in Req : sent[r] = "no" /\ upstream[r].state = "none"
    BY <1>1 DEF TunnelInv, CloseInv, SentInv
  <1>3. TunnelTypeOK' /\ SentInv'
    BY <1>1, <1>2 DEF TunnelInv, TunnelTypeOK, SentInv, IsRequest
  <1>4. MapsInv'
    <2>1. Begun' = Begun
      BY <1>1 DEF Begun
    <2>2. QED
      BY <1>1, <2>1 DEF TunnelInv, MapsInv
  <1>5. CloseInv'
    BY <1>1, <1>2 DEF CloseInv, IsRequest
  <1>6. AbortInv'
    BY <1>1, <1>2 DEF AbortInv, Active
  <1>7. QED
    BY <1>3, <1>4, <1>5, <1>6 DEF TunnelInv

\* A request is sent once; behind a close it is a late one.
LEMMA SendingKeeps ==
    ASSUME TunnelInv, NEW r \in Req, ClientSends(r)
    PROVE  TunnelInv'
  <1> DEFINE x == Frame("request", r)
  <1>1. /\ client \in {"open", "closing"} /\ sent[r] = "no"
        /\ sent' = [sent EXCEPT ![r] = IF client = "open" THEN "early" ELSE "late"]
        /\ pending' = pending \cup {r}
        /\ down' = IF link THEN Append(down, x) ELSE down
        /\ UNCHANGED <<client, tunnel, link, upstream, webUiAborts>>
    BY DEF ClientSends, Forward
  <1>2. x \in WebUiFrame /\ x.kind = "request" /\ x.req = r
    BY DEF Frame, WebUiFrame
  <1> HIDE DEF x
  <1>3. /\ sent' \in [Req -> {"no", "early", "late"}]
        /\ sent'[r] = IF client = "open" THEN "early" ELSE "late"
        /\ \A q \in Req : q # r => sent'[q] = sent[q]
    BY <1>1 DEF TunnelInv, TunnelTypeOK
  <1>4. upstream[r].state = "none" /\ \A i \in DOMAIN down : ~IsRequest(i, r)
    BY <1>1 DEF TunnelInv, SentInv
  <1>5. /\ down' \in Seq(WebUiFrame)
        /\ \A i \in DOMAIN down' : \/ i \in DOMAIN down /\ down'[i] = down[i]
                                   \/ link /\ i \notin DOMAIN down /\ down'[i] = x
        /\ \A i, j \in DOMAIN down' : i \notin DOMAIN down /\ j \notin DOMAIN down => i = j
        /\ \A i, j \in DOMAIN down' : i < j /\ j \in DOMAIN down => i \in DOMAIN down
    <2>1. down \in Seq(WebUiFrame)
      BY DEF TunnelInv, TunnelTypeOK
    <2>2. CASE link
      <3>1. /\ down' \in Seq(WebUiFrame) /\ Len(down) \in Nat
            /\ DOMAIN down = 1..Len(down) /\ DOMAIN down' = 1..(Len(down) + 1)
            /\ down'[Len(down) + 1] = x /\ \A i \in 1..Len(down) : down'[i] = down[i]
        BY <1>1, <1>2, <2>1, <2>2, Appended
      <3>2. QED
        BY <2>2, <3>1
    <2>3. CASE ~link
      BY <1>1, <2>1, <2>3
    <2>4. QED
      BY <2>2, <2>3
  <1>6. \A i \in DOMAIN down' : \A q \in Req :
          IsRequest(i, q)' => IF q = r THEN i \notin DOMAIN down
                              ELSE i \in DOMAIN down /\ IsRequest(i, q)
    BY <1>2, <1>4, <1>5 DEF IsRequest
  <1>7. TunnelTypeOK'
    BY <1>1, <1>3, <1>5 DEF TunnelInv, TunnelTypeOK
  <1>8. SentInv'
    <2>1. \A q \in Req : sent'[q] = "no" => upstream'[q].state = "none"
      BY <1>1, <1>3 DEF TunnelInv, SentInv
    <2>2. \A i \in DOMAIN down' : \A q \in Req :
            IsRequest(i, q)' => sent'[q] # "no" /\ upstream'[q].state = "none"
      BY <1>1, <1>3, <1>4, <1>6 DEF TunnelInv, SentInv
    <2>3. \A i, j \in DOMAIN down' : \A q \in Req : IsRequest(i, q)' /\ IsRequest(j, q)' => i = j
      <3>1. SUFFICES ASSUME NEW i \in DOMAIN down', NEW j \in DOMAIN down', NEW q \in Req,
                            IsRequest(i, q)', IsRequest(j, q)'
                     PROVE  i = j
        OBVIOUS
      <3>2. CASE q = r
        BY <1>5, <1>6, <3>1, <3>2
      <3>3. CASE q # r
        BY <1>6, <3>1, <3>3 DEF TunnelInv, SentInv
      <3>4. QED
        BY <3>2, <3>3
    <2>4. QED
      BY <2>1, <2>2, <2>3 DEF SentInv
  <1>9. MapsInv'
    <2>1. Begun' = Begun
      BY <1>1 DEF Begun
    <2>2. QED
      BY <1>1, <2>1 DEF TunnelInv, MapsInv
  <1>10. CloseInv'
    <2>1. \A i \in DOMAIN down' : down'[i].kind = "close" =>
            i \in DOMAIN down /\ down[i].kind = "close" /\ client # "open"
      BY <1>2, <1>5 DEF TunnelInv, CloseInv
    <2>2. ASSUME NEW i \in DOMAIN down', NEW j \in DOMAIN down', NEW q \in Req,
                 i < j, down'[i].kind = "close", IsRequest(j, q)'
          PROVE  sent'[q] = "late"
      <3>1. CASE q = r
        BY <1>3, <2>1, <2>2, <3>1
      <3>2. CASE q # r
        <4>1. j \in DOMAIN down /\ IsRequest(j, q)
          BY <1>6, <2>2, <3>2
        <4>2. sent[q] = "late"
          BY <2>1, <2>2, <4>1 DEF TunnelInv, CloseInv
        <4>3. QED
          BY <1>3, <3>2, <4>2
      <3>3. QED
        BY <3>1, <3>2
    <2>3. ~link' => down' = <<>>
      BY <1>1 DEF TunnelInv, CloseInv
    <2>4. client' # "absent"
      BY <1>1
    <2>5. QED
      BY <1>1, <2>1, <2>2, <2>3, <2>4 DEF CloseInv
  <1>11. AbortInv'
    <2>1. \A q \in Req : upstream[q].state = "running" => q # r
      BY <1>4
    <2>2. \A q \in Req : upstream'[q].state = "running" /\ sent'[q] = "early" =>
            webUiAborts' # 0 /\ upstream'[q].map = webUiAborts'
      BY <1>1, <1>3, <2>1 DEF TunnelInv, AbortInv
    <2>3. EarlyOver => EarlyOver'
      <3>1. SUFFICES ASSUME EarlyOver
                     PROVE  EarlyOver'
        OBVIOUS
      <3>2. client' # "absent" /\ (client' # "open" \/ ~link')
        BY <1>1, <3>1 DEF EarlyOver
      <3>3. ASSUME NEW q \in Req, sent'[q] = "early"
            PROVE  /\ upstream'[q].state # "running"
                   /\ \A i \in DOMAIN down' : ~IsRequest(i, q)'
        <4>1. CASE q = r
          <5>1. client = "open" /\ ~link
            BY <1>3, <3>1, <3>3, <4>1 DEF EarlyOver
          <5>2. QED
            BY <1>1, <1>4, <4>1, <5>1, <1>5, <1>6
        <4>2. CASE q # r
          BY <1>1, <1>3, <1>6, <3>1, <3>3, <4>2 DEF EarlyOver
        <4>3. QED
          BY <4>1, <4>2
      <3>4. QED
        BY <3>2, <3>3 DEF EarlyOver
    <2>4. (\E q \in Active' : upstream'[q].map # webUiAborts') => EarlyOver
      BY <1>1 DEF TunnelInv, AbortInv, Active
    <2>5. QED
      BY <2>2, <2>3, <2>4 DEF AbortInv
  <1>12. QED
    BY <1>7, <1>8, <1>9, <1>10, <1>11 DEF TunnelInv

\* The plugin's own closing, with the gateway's end of the connection: no early request
\* is left, running or to come.
LEMMA CutKeeps ==
    ASSUME TunnelInv, CloseTunnels, Disconnect, UNCHANGED <<client, pending, sent>>
    PROVE  /\ TunnelInv' /\ ~link'
           /\ \A r \in Req : upstream'[r].state = "running" => sent'[r] = "late"
  <1>1. /\ tunnel' \in {"none", "open", "closed"} /\ link' = FALSE /\ down' = <<>> /\ webUiAborts' = 0
    BY DEF CloseTunnels, Disconnect, TunnelInv, TunnelTypeOK
  <1>2. upstream \in [Req -> [state : {"none", "running", "aborted", "done"}, map : Nat]]
    BY DEF TunnelInv, TunnelTypeOK
  <1>3. upstream' = [r \in Req |->
            IF webUiAborts # 0 /\ upstream[r].map = webUiAborts /\ upstream[r].state = "running"
            THEN [upstream[r] EXCEPT !.state = "aborted"]
            ELSE upstream[r]]
    BY DEF CloseTunnels
  <1>4. /\ upstream' \in [Req -> [state : {"none", "running", "aborted", "done"}, map : Nat]]
        /\ \A r \in Req :
             /\ upstream'[r].map = upstream[r].map
             /\ upstream'[r].state = "none" <=> upstream[r].state = "none"
             /\ upstream'[r].state = "running" =>
                  upstream[r].state = "running" /\ (webUiAborts = 0 \/ upstream[r].map # webUiAborts)
    BY <1>2, <1>3
  <1>5. \A r \in Req : upstream'[r].state = "running" => sent'[r] = "late"
    BY <1>4 DEF TunnelInv, TunnelTypeOK, SentInv, AbortInv
  <1>6. TunnelTypeOK'
    <2>1. down' \in Seq(WebUiFrame)
      <3>1. <<>> \in Seq(WebUiFrame)
        OBVIOUS
      <3>2. QED
        BY <1>1, <3>1
    <2>2. client' \in {"absent", "open", "closing", "gone"} /\ pending' \subseteq Req
      BY DEF TunnelInv, TunnelTypeOK
    <2>3. sent' \in [Req -> {"no", "early", "late"}]
      BY DEF TunnelInv, TunnelTypeOK
    <2>4. QED
      BY <1>1, <1>4, <2>1, <2>2, <2>3 DEF TunnelTypeOK
  <1>7. SentInv'
    BY <1>1, <1>4 DEF TunnelInv, SentInv
  <1>8. MapsInv'
    <2>1. Begun' = Begun
      BY <1>4 DEF Begun
    <2>2. IsFiniteSet(Begun)
      BY ChannelAssumption, FS_Subset DEF Begun
    <2>3. 0 <= Cardinality(Begun)
      BY <2>2, FS_CardinalityType
    <2>4. QED
      BY <1>1, <1>4, <2>1, <2>3 DEF TunnelInv, MapsInv, Begun
  <1>9. CloseInv'
    BY <1>1 DEF TunnelInv, CloseInv
  <1>10. AbortInv'
    <2>1. \A r \in Active' : client' # "absent"
      BY <1>4 DEF TunnelInv, CloseInv, SentInv, Active
    <2>2. (\E r \in Active' : TRUE) => EarlyOver'
      BY <1>1, <1>5, <2>1 DEF EarlyOver
    <2>3. QED
      BY <1>5, <2>2 DEF AbortInv
  <1>11. QED
    BY <1>1, <1>5, <1>6, <1>7, <1>8, <1>9, <1>10 DEF TunnelInv

\* A frame arrives at the plugin: a request joins the registered abort map or a new
\* one, a cancel aborts one request, a close aborts all that the map holds.
LEMMA ReceivingKeeps ==
    ASSUME TunnelInv, PluginReceives
    PROVE  TunnelInv'
  <1> DEFINE frame == Head(down)
  <1>1. /\ down # <<>> /\ down' = Tail(down)
        /\ \/ frame.kind = "request" /\ WebUiRequest(frame.req)
           \/ frame.kind = "cancel" /\ CancelRequest(frame.req)
           \/ frame.kind = "close" /\ CloseTunnels
        /\ UNCHANGED <<client, tunnel, link, pending, sent>>
    BY DEF PluginReceives
  <1>2. /\ DownMoves /\ down' \in Seq(WebUiFrame)
        /\ \A i \in DOMAIN down' : i + 1 \in DOMAIN down /\ 1 < i + 1 /\ down'[i] = down[i + 1]
        /\ 1 \in DOMAIN down /\ frame = down[1] /\ frame \in WebUiFrame
    BY <1>1, FrameGoes DEF DownMoves
  <1>3. link /\ client # "absent"
    BY <1>1 DEF TunnelInv, CloseInv
  <1>4. \A i \in DOMAIN down' : \A q \in Req : IsRequest(i, q)' => IsRequest(i + 1, q)
    BY <1>2 DEF IsRequest
  <1>5. upstream \in [Req -> [state : {"none", "running", "aborted", "done"}, map : Nat]]
    BY DEF TunnelInv, TunnelTypeOK
  <1> HIDE DEF frame
  <1>6. CASE frame.kind = "close" /\ CloseTunnels
    <2>1. webUiAborts' = 0
      BY <1>6 DEF CloseTunnels
    <2>2. upstream' = [r \in Req |->
              IF webUiAborts # 0 /\ upstream[r].map = webUiAborts /\ upstream[r].state = "running"
              THEN [upstream[r] EXCEPT !.state = "aborted"]
              ELSE upstream[r]]
      BY <1>6 DEF CloseTunnels
    <2>3. /\ upstream' \in [Req -> [state : {"none", "running", "aborted", "done"}, map : Nat]]
          /\ \A r \in Req :
               /\ upstream'[r].map = upstream[r].map
               /\ upstream'[r].state = "none" <=> upstream[r].state = "none"
               /\ upstream'[r].state = "running" =>
                    upstream[r].state = "running" /\ (webUiAborts = 0 \/ upstream[r].map # webUiAborts)
      BY <1>5, <2>2
    <2>4. \A r \in Req : upstream'[r].state = "running" => sent[r] # "early"
      BY <2>3 DEF TunnelInv, AbortInv
    <2>5. client # "open"
      BY <1>2, <1>6 DEF TunnelInv, CloseInv
    <2>6. \A i \in DOMAIN down' : \A q \in Req : IsRequest(i, q)' => sent[q] = "late"
      BY <1>2, <1>4, <1>6 DEF TunnelInv, CloseInv
    <2>7. EarlyOver'
      BY <1>1, <1>3, <2>4, <2>5, <2>6 DEF EarlyOver
    <2>8. TunnelTypeOK'
      BY <1>1, <1>2, <2>1, <2>3 DEF TunnelInv, TunnelTypeOK
    <2>9. UNCHANGED <<link, sent>> /\ client' = client
      BY <1>1
    <2>10. webUiAborts' \in {0, webUiAborts}
      BY <2>1
    <2>11. \A r \in Req : /\ upstream'[r].state = "none" <=> upstream[r].state = "none"
                          /\ upstream'[r].state = "running" => upstream[r].state = "running"
                          /\ upstream'[r].map = upstream[r].map
      BY <2>3
    <2>12. \A r \in Req : upstream'[r].state = "running" /\ sent[r] = "early" => webUiAborts' = webUiAborts
      BY <2>4
    <2>13. QED
      BY <1>2, <1>3, <2>7, <2>8, <2>9, <2>10, <2>11, <2>12, QuietKeeps
  <1>7. CASE frame.kind = "cancel" /\ CancelRequest(frame.req)
    <2> DEFINE r == frame.req
    <2>1. /\ webUiAborts' = webUiAborts
          /\ upstream' = IF r \in Active /\ upstream[r].map = webUiAborts
                         THEN [upstream EXCEPT ![r].state = "aborted"] ELSE upstream
      BY <1>7 DEF CancelRequest
    <2> HIDE DEF r
    <2>2. /\ upstream' \in [Req -> [state : {"none", "running", "aborted", "done"}, map : Nat]]
          /\ \A q \in Req :
               /\ upstream'[q].map = upstream[q].map
               /\ upstream'[q].state = "none" <=> upstream[q].state = "none"
               /\ upstream'[q].state = "running" => upstream[q].state = "running"
               /\ upstream'[q].state \in {"running", "aborted"} => q \in Active
      BY <1>5, <2>1 DEF Active
    <2>3. TunnelTypeOK'
      BY <1>1, <1>2, <2>1, <2>2 DEF TunnelInv, TunnelTypeOK
    <2>4. (\E q \in Active' : upstream'[q].map # webUiAborts') => EarlyOver
      BY <2>1, <2>2 DEF TunnelInv, AbortInv, Active
    <2>5. QED
      BY <1>1, <1>2, <1>3, <2>1, <2>2, <2>3, <2>4, QuietKeeps
  <1>8. CASE frame.kind = "request" /\ WebUiRequest(frame.req)
    <2>1. PICK r \in Req : r = frame.req /\ IsRequest(1, r)
      BY <1>2, <1>8 DEF WebUiFrame, IsRequest
    <2> DEFINE map == IF webUiAborts = 0 THEN NewMap ELSE webUiAborts
    <2>2. /\ upstream' = [upstream EXCEPT ![r] = [state |-> "running", map |-> map]]
          /\ webUiAborts' = map
      BY <1>8, <2>1 DEF WebUiRequest
    <2>3. sent[r] # "no" /\ upstream[r].state = "none"
      BY <1>2, <2>1 DEF TunnelInv, SentInv
    <2>4. IsFiniteSet(Begun) /\ Cardinality(Begun) \in Nat
      BY ChannelAssumption, FS_Subset, FS_CardinalityType DEF Begun
    <2>5. map \in 1..(Cardinality(Begun) + 1)
      <3>1. webUiAborts \in Nat /\ webUiAborts <= Cardinality(Begun)
        BY DEF TunnelInv, TunnelTypeOK, MapsInv
      <3>2. NewMap \in 1..(Cardinality(Begun) + 1)
        <4> DEFINE T == {upstream[q].map : q \in Req} \cup {0}
        <4>1. T \in SUBSET (0..Cardinality(Begun)) /\ T # {}
          BY <1>5, <2>4 DEF TunnelInv, MapsInv
        <4>2. NewMap = 1 + Max(T)
          BY DEF NewMap
        <4> HIDE DEF T
        <4>3. Max(T) \in 0..Cardinality(Begun)
          BY <2>4, <4>1, GreatestOf
        <4>4. QED
          BY <2>4, <4>2, <4>3
      <3>3. QED
        BY <2>4, <3>1, <3>2
    <2> HIDE DEF map
    <2>6. /\ upstream' \in [Req -> [state : {"none", "running", "aborted", "done"}, map : Nat]]
          /\ upstream'[r].state = "running" /\ upstream'[r].map = map
          /\ \A q \in Req : q # r => upstream'[q] = upstream[q]
      BY <1>5, <2>2, <2>1, <2>5
    <2>7. TunnelTypeOK'
      BY <1>1, <1>2, <2>2, <2>5, <2>6 DEF TunnelInv, TunnelTypeOK
    <2>8. \A i \in DOMAIN down' : \A q \in Req : IsRequest(i, q)' => q # r
      <3>1. ASSUME NEW i \in DOMAIN down', IsRequest(i, r)'
            PROVE  FALSE
        <4>1. IsRequest(i + 1, r) /\ i + 1 \in DOMAIN down /\ 1 < i + 1
          BY <1>2, <1>4, <2>1, <3>1
        <4>2. i + 1 = 1
          BY <1>2, <2>1, <4>1 DEF TunnelInv, SentInv
        <4>3. QED
          BY <4>1, <4>2
      <3>2. QED
        BY <3>1
    <2>9. SentInv'
      <3>1. \A q \in Req : sent'[q] = "no" => upstream'[q].state = "none"
        BY <1>1, <2>3, <2>6 DEF TunnelInv, SentInv
      <3>2. \A i \in DOMAIN down' : \A q \in Req :
              IsRequest(i, q)' => sent'[q] # "no" /\ upstream'[q].state = "none"
        BY <1>1, <1>2, <1>4, <2>6, <2>8 DEF TunnelInv, SentInv
      <3>3. ASSUME NEW i \in DOMAIN down', NEW j \in DOMAIN down', NEW q \in Req,
                   IsRequest(i, q)', IsRequest(j, q)'
            PROVE  i = j
        <4>1. i + 1 = j + 1
          BY <1>2, <1>4, <3>3 DEF TunnelInv, SentInv
        <4>2. DOMAIN down' = 1..Len(down') /\ Len(down') \in Nat
          BY <1>2
        <4>3. QED
          BY <4>1, <4>2
      <3>4. QED
        BY <3>1, <3>2, <3>3 DEF SentInv
    <2>10. MapsInv'
      <3>1. Begun' = Begun \cup {r} /\ r \notin Begun
        BY <2>1, <2>3, <2>6 DEF Begun
      <3>2. Cardinality(Begun') = Cardinality(Begun) + 1
        BY <2>4, <3>1, FS_AddElement
      <3>3. \A q \in Req : upstream'[q].map <= Cardinality(Begun')
        BY <1>5, <2>4, <2>5, <2>6, <3>2 DEF TunnelInv, MapsInv
      <3>4. \A q \in Begun' : upstream'[q].map # 0
        BY <2>4, <2>5, <2>6, <3>1 DEF TunnelInv, MapsInv, Begun
      <3>5. QED
        BY <2>2, <2>4, <2>5, <3>2, <3>3, <3>4 DEF MapsInv
    <2>11. CloseInv'
      <3>1. \A i \in DOMAIN down' : down'[i].kind = "close" => client' # "open"
        BY <1>1, <1>2 DEF TunnelInv, CloseInv
      <3>2. ASSUME NEW i \in DOMAIN down', NEW j \in DOMAIN down', NEW q \in Req,
                   i < j, down'[i].kind = "close", IsRequest(j, q)'
            PROVE  sent'[q] = "late"
        <4>1. DOMAIN down' = 1..Len(down') /\ Len(down') \in Nat
          BY <1>2
        <4>2. i + 1 < j + 1 /\ IsRequest(j + 1, q) /\ down[i + 1].kind = "close"
          BY <1>2, <1>4, <3>2, <4>1
        <4>3. QED
          BY <1>1, <1>2, <4>2 DEF TunnelInv, CloseInv
      <3>3. link' /\ client' # "absent"
        BY <1>1, <1>3
      <3>4. QED
        BY <3>1, <3>2, <3>3 DEF CloseInv
    <2>12. AbortInv'
      <3>1. \A q \in Req : q # r /\ upstream'[q].state = "running" /\ sent'[q] = "early" =>
              webUiAborts' # 0 /\ upstream'[q].map = webUiAborts'
        BY <1>1, <2>2, <2>6 DEF TunnelInv, AbortInv, map
      <3>2. webUiAborts' # 0 /\ upstream'[r].map = webUiAborts'
        BY <2>2, <2>4, <2>5, <2>6
      <3>3. EarlyOver => EarlyOver'
        <4>1. SUFFICES ASSUME EarlyOver
                       PROVE  EarlyOver'
          OBVIOUS
        <4>2. sent[r] # "early"
          BY <1>2, <2>1, <4>1 DEF EarlyOver
        <4>3. \A q \in Req : sent'[q] = "early" =>
                /\ upstream'[q].state # "running"
                /\ \A i \in DOMAIN down' : ~IsRequest(i, q)'
          BY <1>1, <1>2, <1>4, <2>6, <4>1, <4>2 DEF EarlyOver
        <4>4. QED
          BY <1>1, <4>1, <4>3 DEF EarlyOver
      <3>4. (\E q \in Active' : upstream'[q].map # webUiAborts') => EarlyOver
        <4>1. SUFFICES ASSUME NEW q \in Active', upstream'[q].map # webUiAborts'
                       PROVE  EarlyOver
          OBVIOUS
        <4>2. q # r /\ q \in Active /\ upstream'[q] = upstream[q]
          BY <2>6, <3>2, <4>1 DEF Active
        <4>3. upstream[q].map # webUiAborts
          BY <2>2, <4>1, <4>2 DEF TunnelInv, MapsInv, Begun, Active, map
        <4>4. QED
          BY <4>2, <4>3 DEF TunnelInv, AbortInv
      <3>5. QED
        BY <3>1, <3>2, <3>3, <3>4 DEF AbortInv
    <2>13. QED
      BY <2>7, <2>9, <2>10, <2>11, <2>12 DEF TunnelInv
  <1>9. QED
    BY <1>1, <1>6, <1>7, <1>8

-----------------------------------------------------------------------------
(* The channel *)

\* The tunnel's part of the invariant looks at the tunnel's variables only.
LEMMA TunnelStays ==
    ASSUME TunnelInv, UNCHANGED tunnelSide
    PROVE  TunnelInv'
  <1>1. UNCHANGED <<client, tunnel, link, pending, down, upstream, webUiAborts, sent>>
    BY DEF tunnelSide
  <1>2. TunnelTypeOK' /\ SentInv' /\ CloseInv'
    BY <1>1 DEF TunnelInv, TunnelTypeOK, SentInv, CloseInv, IsRequest
  <1>3. MapsInv'
    BY <1>1 DEF TunnelInv, MapsInv, Begun
  <1>4. AbortInv'
    BY <1>1 DEF TunnelInv, AbortInv, EarlyOver, Active, IsRequest
  <1>5. QED
    BY <1>2, <1>3, <1>4 DEF TunnelInv

\* The steps of the tunnel; none of them touches the socket, and one that finds the
\* channel stopped starts no request.
LEMMA TunnelSteps ==
    ASSUME ChannelInv, TunnelStep
    PROVE  ChannelInv' /\ running' = running
  <1>1. TunnelInv'
    BY ClientKeeps, OpeningKeeps, SendingKeeps, ResponsesKeep, ReceivingKeeps DEF ChannelInv, TunnelStep
  <1>2. UNCHANGED <<running, probes, version, socket, alive, closing, registered, timer>>
    BY DEF TunnelStep, ClientOpens, ClientCloses, ClientGone, ClientSends, ClientCancels, ResponseFrame,
           RequestEnds, PluginReceives, socketVars
  <1>3. ChannelTypeOK' /\ SocketInv'
    BY <1>2 DEF ChannelInv, ChannelTypeOK, SocketInv
  <1>4. StoppedInv'
    <2>1. SUFFICES ASSUME ~running
                   PROVE  /\ ~link'
                          /\ \A r \in Req : upstream'[r].state = "running" => sent'[r] = "late"
      BY <1>2 DEF StoppedInv
    <2>2. /\ ~link /\ ~registered /\ down = <<>>
          /\ \A r \in Req : upstream[r].state = "running" => sent[r] = "late"
      BY <2>1 DEF ChannelInv, StoppedInv, SocketInv, TunnelInv, CloseInv
    <2>3. ~ClientOpens /\ ~PluginReceives
      BY <2>2 DEF ClientOpens, PluginReceives
    <2>4. link' = link
      BY <2>3 DEF TunnelStep, ClientCloses, ClientGone, ClientSends, ClientCancels, ResponseFrame, RequestEnds
    <2>5. CASE \E r \in Req : ClientSends(r)
      <3>1. PICK r \in Req : ClientSends(r)
        BY <2>5
      <3>2. upstream' = upstream /\ \A q \in Req : upstream[q].state = "running" => sent'[q] = sent[q]
        BY <3>1 DEF ClientSends, ChannelInv, TunnelInv, TunnelTypeOK, SentInv
      <3>3. QED
        BY <2>2, <2>4, <3>2
    <2>6. CASE \E r \in Req : RequestEnds(r)
      <3>1. PICK r \in Req : RequestEnds(r)
        BY <2>6
      <3>2. upstream' = [upstream EXCEPT ![r].state = "done"] /\ sent' = sent
        BY <3>1 DEF RequestEnds
      <3>3. \A q \in Req : upstream'[q].state = "running" => upstream[q].state = "running"
        BY <3>2 DEF ChannelInv, TunnelInv, TunnelTypeOK
      <3>4. QED
        BY <2>2, <2>4, <3>2, <3>3
    <2>7. CASE \/ ClientCloses \/ ClientGone
               \/ \E r \in Req : ClientCancels(r) \/ ResponseFrame(r)
      <3>1. UNCHANGED <<upstream, sent>>
        BY <2>7 DEF ClientCloses, ClientGone, ClientCancels, ResponseFrame
      <3>2. QED
        BY <2>2, <2>4, <3>1
    <2>8. QED
      BY <2>3, <2>5, <2>6, <2>7 DEF TunnelStep
  <1>5. QED
    BY <1>1, <1>2, <1>3, <1>4 DEF ChannelInv

\* Starting, stopping, the channel's own steps, and steps of others.
LEMMA ChannelKeeps ==
    ASSUME ChannelInv
    PROVE  /\ Start => ChannelInv' /\ running'
           /\ Stop => ChannelInv' /\ ~running'
           /\ ChannelStep => ChannelInv' /\ (running' => running)
           /\ UNCHANGED <<running, probes, version, socket, alive, closing, registered, timer, tunnelVars>>
                => ChannelInv'
  <1>1. SocketPart /\ TunnelInv /\ StoppedInv
    BY DEF ChannelInv, SocketPart
  <1>2. Start => ChannelInv' /\ running'
    <2>1. Start => SocketPart' /\ running' /\ TunnelInv'
      BY <1>1, StartStopSocket, TunnelStays
    <2>2. QED
      BY <2>1 DEF ChannelInv, SocketPart, StoppedInv
  <1>3. ASSUME Stop
        PROVE  ChannelInv' /\ ~running'
    <2>1. SocketPart' /\ ~running'
      BY <1>1, <1>3, StartStopSocket
    <2>2. CloseTunnels /\ Disconnect /\ UNCHANGED <<client, pending, sent>>
      BY <1>3 DEF Stop
    <2>3. /\ TunnelInv' /\ ~link'
          /\ \A r \in Req : upstream'[r].state = "running" => sent'[r] = "late"
      BY <1>1, <2>2, CutKeeps
    <2>4. QED
      BY <2>1, <2>3 DEF ChannelInv, SocketPart, StoppedInv
  <1>4. ASSUME Drop, socket # "none"
        PROVE  ChannelInv' /\ running' = running
    <2>1. SocketPart' /\ running' = running
      BY <1>1, <1>4, StartStopSocket
    <2>2. CloseTunnels /\ Disconnect /\ UNCHANGED <<client, pending, sent>>
      BY <1>4 DEF Drop
    <2>3. /\ TunnelInv' /\ ~link'
          /\ \A r \in Req : upstream'[r].state = "running" => sent'[r] = "late"
      BY <1>1, <2>2, CutKeeps
    <2>4. QED
      BY <2>1, <2>3 DEF ChannelInv, SocketPart, StoppedInv
  <1>5. ASSUME ProbeStep \/ SocketOpens \/ Registration \/ OldSocketCloses \/ Reconnect
        PROVE  ChannelInv' /\ running' = running
    <2>1. SocketPart' /\ running' = running /\ UNCHANGED tunnelSide
      BY <1>1, <1>5, CallbacksKeep
    <2>2. TunnelInv'
      BY <1>1, <2>1, TunnelStays
    <2>3. StoppedInv'
      BY <1>1, <2>1 DEF StoppedInv, tunnelSide
    <2>4. QED
      BY <2>1, <2>2, <2>3 DEF ChannelInv, SocketPart
  <1>6. ChannelStep => ChannelInv' /\ (running' => running)
    BY <1>3, <1>4, <1>5 DEF ChannelStep, SocketCloses, KeyRefused, UnknownRetry
  <1>7. ASSUME UNCHANGED <<running, probes, version, socket, alive, closing, registered, timer, tunnelVars>>
        PROVE  ChannelInv'
    <2>1. UNCHANGED tunnelSide
      BY <1>7 DEF tunnelVars, tunnelSide
    <2>2. TunnelInv' /\ StoppedInv'
      BY <1>1, <1>7, <2>1, TunnelStays DEF StoppedInv, tunnelSide
    <2>3. ChannelTypeOK' /\ SocketInv'
      BY <1>7 DEF ChannelInv, ChannelTypeOK, SocketInv
    <2>4. QED
      BY <2>2, <2>3 DEF ChannelInv
  <1>8. QED
    BY <1>2, <1>3, <1>6, <1>7

-----------------------------------------------------------------------------
(* Starting and stopping *)

\* What startControl does, with the channel's invariant kept.
LEMMA StartControlIs ==
    ASSUME ChannelInv, NEW fs, NEW busy \in BOOLEAN, StartControl(fs, busy), started \in BOOLEAN
    PROVE  /\ ChannelInv'
           /\ disposed => finds' = fs /\ wanted' = wanted /\ started' = started /\ running' = running
           /\ ~disposed => /\ wanted' = TRUE
                           /\ finds' = IF wanted THEN fs ELSE Outdated(fs)
                           /\ started' = (started \/ ~busy)
  <1>1. UNCHANGED cvars => ChannelInv' /\ running' = running
    BY ChannelKeeps DEF cvars, socketVars
  <1>2. CASE disposed
    BY <1>1, <1>2 DEF StartControl
  <1>3. CASE ~disposed
    <2>1. wanted' = TRUE /\ finds' = IF wanted THEN fs ELSE Outdated(fs)
      BY <1>3 DEF StartControl
    <2>2. CASE started \/ busy
      <3>1. UNCHANGED <<started, cvars>>
        BY <1>3, <2>2 DEF StartControl
      <3>2. started = (started \/ ~busy)
        BY <2>2
      <3>3. QED
        BY <1>1, <1>3, <2>1, <3>1, <3>2
    <2>3. CASE ~(started \/ busy)
      <3>1. started' = TRUE /\ Start
        BY <1>3, <2>3 DEF StartControl
      <3>2. QED
        BY <1>3, <2>1, <2>3, <3>1, ChannelKeeps
    <2>4. QED
      BY <2>2, <2>3
  <1>4. QED
    BY <1>2, <1>3

\* What stopEmptyControl does up to its await.
LEMMA StopEmptyIs ==
    ASSUME ChannelInv, NEW fs, StopEmptyControl(fs), started \in BOOLEAN, stopping \in BOOLEAN
    PROVE  /\ ChannelInv'
           /\ finds' = fs /\ wanted' = FALSE /\ kept' = FALSE /\ started' = FALSE
           /\ stopping' \in BOOLEAN /\ (running' => running)
  <1>1. UNCHANGED cvars => ChannelInv' /\ running' = running
    BY ChannelKeeps DEF cvars, socketVars
  <1>2. CASE started
    BY <1>2, ChannelKeeps DEF StopEmptyControl
  <1>3. CASE ~started
    BY <1>1, <1>3 DEF StopEmptyControl
  <1>4. QED
    BY <1>2, <1>3

-----------------------------------------------------------------------------
(* Listings, events and what is wanted *)

\* A new revision: the discoveries stay, none of them current.
LEMMA OutdatedAre ==
    ASSUME NEW fs \in SUBSET Find
    PROVE  /\ Outdated(fs) \in SUBSET Find /\ \A g \in Outdated(fs) : ~g.current
  <1>1. \A f \in Find : [f EXCEPT !.current = FALSE] \in Find /\ ~[f EXCEPT !.current = FALSE].current
    BY DEF Find
  <1>2. QED
    BY <1>1 DEF Outdated

\* Starting for the discoveries fs: those that stay current are among them, and the
\* channel is started as StartedInv wants it.
LEMMA StartKeeps ==
    ASSUME LifecycleTypeOK, ChannelInv, StartedInv, NEW fs \in SUBSET Find,
           StartControl(fs, stopping), UNCHANGED <<stopping, disposed>>
    PROVE  /\ ChannelInv' /\ StartedInv'
           /\ finds' \in SUBSET Find /\ wanted' \in BOOLEAN /\ started' \in BOOLEAN
           /\ \A g \in finds' : g.current => g \in fs
           /\ ~disposed => wanted'
           /\ disposed \/ wanted => finds' = fs /\ wanted' = wanted
  <1>1. started \in BOOLEAN /\ stopping \in BOOLEAN /\ wanted \in BOOLEAN /\ disposed \in BOOLEAN
    BY DEF LifecycleTypeOK
  <1>2. /\ ChannelInv'
        /\ disposed => finds' = fs /\ wanted' = wanted /\ started' = started /\ running' = running
        /\ ~disposed => /\ wanted' = TRUE
                        /\ finds' = IF wanted THEN fs ELSE Outdated(fs)
                        /\ started' = (started \/ ~stopping)
    BY <1>1, StartControlIs
  <1>3. Outdated(fs) \in SUBSET Find /\ \A g \in Outdated(fs) : ~g.current
    BY OutdatedAre
  <1>4. CASE disposed
    BY <1>1, <1>2, <1>4 DEF StartedInv
  <1>5. CASE ~disposed
    <2>1. wanted' = TRUE /\ started' = (started \/ ~stopping) /\ finds' = IF wanted THEN fs ELSE Outdated(fs)
      BY <1>2, <1>5
    <2>2. started' = ~stopping
      BY <1>1, <2>1 DEF StartedInv
    <2>3. StartedInv'
      BY <1>1, <1>5, <2>1, <2>2 DEF StartedInv
    <2>4. wanted = TRUE \/ wanted = FALSE
      BY <1>1
    <2>5. QED
      BY <1>2, <1>3, <1>5, <2>1, <2>2, <2>3, <2>4
  <1>6. QED
    BY <1>4, <1>5

\* A step that changes neither the sessions nor the events to come: a current discovery
\* is an earlier one, or knows no more than is so now.
LEMMA WorldStays ==
    ASSUME LifecycleInv, LifecycleTypeOK', UNCHANGED <<host, bus, missed>>,
           disposed => disposed', looking' \subseteq looking,
           \A s \in Session : entry[s] = "hidden" => entry'[s] = "hidden",
           ~disposed' => \A g \in finds' : g.current =>
             g \in finds \/ ((\A s \in g.live : host[s] = "live")
                             /\ (Nothing(g) => ~LiveSession)),
           OneCurrent', UpInv', DownInv'
    PROVE  LifecycleInv'
  <1>1. NewsInv'
    <2>1. \A s \in Session : RemovalComing(s)' = RemovalComing(s)
      BY DEF RemovalComing, Removal
    <2>2. \A i \in DOMAIN bus' : Outlived(i)' => \E j \in DOMAIN bus' : j > i /\ Removal(j, bus[i].session)'
      BY DEF LifecycleInv, NewsInv, Removal, Outlived
    <2>3. ~disposed' => \A s \in looking' :
            host'[s] = "live" \/ entry'[s] = "hidden" \/ RemovalComing(s)' \/ s \in missed'
      BY <2>1 DEF LifecycleInv, NewsInv, LifecycleTypeOK
    <2>4. ~disposed' => \A f \in finds' : f.current =>
            \A s \in f.live : host'[s] = "live" \/ RemovalComing(s)' \/ s \in missed'
      <3>1. \A f \in finds : f.live \subseteq Session
        BY DEF LifecycleInv, LifecycleTypeOK, Find
      <3>2. QED
        BY <2>1, <3>1 DEF LifecycleInv, NewsInv
    <2>5. QED
      BY <2>2, <2>3, <2>4 DEF NewsInv, Removal
  <1>2. EmptyInv'
    BY DEF LifecycleInv, EmptyInv, LiveSession, LiveComing, Nothing, Complete, LifecycleTypeOK
  <1>3. QED
    BY <1>1, <1>2 DEF LifecycleInv

\* What is under way stays under way.
LEMMA SourcesStay ==
    ASSUME UNCHANGED <<v2, host, bus>>, known \subseteq known'
    PROVE  /\ LiveSession' = LiveSession
           /\ \A s \in Session : LiveComing(s)' = LiveComing(s)
           /\ \A s \in Session : RemovalComing(s)' = RemovalComing(s)
           /\ \A s \in Session : Holds(s) => Holds(s)'
  BY DEF LiveSession, LiveComing, RemovalComing, Removal, Holds

-----------------------------------------------------------------------------
(* The steps of the entry *)

\* stopEmptyControl's finally: a start that was asked for meanwhile is served.
LEMMA StopSettlesKeeps ==
    ASSUME EntryInv, StopSettles
    PROVE  EntryInv'
  <1>1. /\ stopping /\ stopping' = FALSE
        /\ UNCHANGED <<v2, always, history, host, bus, known, missed, entry, looking, scheduled, disposed, kept>>
    BY DEF StopSettles
  <1>2. /\ LifecycleTypeOK /\ ChannelInv /\ StartedInv
        /\ started \in BOOLEAN /\ FALSE \in BOOLEAN /\ wanted \in BOOLEAN
    BY DEF EntryInv, LifecycleInv, LifecycleTypeOK
  <1>3. /\ ChannelInv' /\ finds' = finds /\ wanted' = wanted
        /\ started' \in BOOLEAN
        /\ ~disposed => (started' <=> wanted)
        /\ disposed => running' = running
    <2>1. CASE wanted
      <3>1. StartControl(finds, FALSE)
        BY <2>1 DEF StopSettles
      <3>2. QED
        BY <1>2, <2>1, <3>1, StartControlIs
    <2>2. CASE ~wanted
      <3>1. UNCHANGED <<finds, wanted, started, cvars>>
        BY <2>2 DEF StopSettles
      <3>2. ChannelInv' /\ running' = running
        BY <1>2, <3>1, ChannelKeeps DEF cvars, socketVars
      <3>3. QED
        BY <1>1, <1>2, <2>2, <3>1, <3>2 DEF StartedInv
    <2>3. QED
      BY <2>1, <2>2
  <1>4. StartedInv'
    BY <1>1, <1>2, <1>3 DEF StartedInv
  <1>5. LifecycleTypeOK' /\ OneCurrent'
    BY <1>1, <1>2, <1>3 DEF EntryInv, LifecycleInv, LifecycleTypeOK, OneCurrent
  <1>6. UpInv' /\ DownInv'
    BY <1>1, <1>3, SourcesStay DEF EntryInv, LifecycleInv, UpInv, DownInv, Nothing, Complete
  <1>7. LifecycleInv'
    BY <1>1, <1>3, <1>5, <1>6, WorldStays DEF EntryInv
  <1>8. QED
    BY <1>3, <1>4, <1>7 DEF EntryInv

\* dispose stops the channel and leaves nothing to decide.
LEMMA DisposeKeeps ==
    ASSUME EntryInv, Dispose
    PROVE  EntryInv'
  <1>1. /\ disposed' = TRUE /\ scheduled' = FALSE /\ Stop
        /\ UNCHANGED <<v2, always, history, host, bus, known, missed, entry, looking, finds, wanted, started,
                       stopping, kept>>
    BY DEF Dispose
  <1>2. ChannelInv' /\ ~running'
    BY <1>1, ChannelKeeps DEF EntryInv
  <1>3. StartedInv'
    BY <1>1, <1>2 DEF EntryInv, StartedInv
  <1>4. LifecycleTypeOK' /\ OneCurrent' /\ UpInv' /\ DownInv'
    BY <1>1 DEF EntryInv, LifecycleInv, LifecycleTypeOK, OneCurrent, UpInv, DownInv
  <1>5. LifecycleInv'
    BY <1>1, <1>4, WorldStays DEF EntryInv
  <1>6. QED
    BY <1>2, <1>3, <1>5 DEF EntryInv

\* The immediate lists the directory, or starts the channel of a configured one.
LEMMA DiscoveryKeeps ==
    ASSUME EntryInv, DiscoveryRuns
    PROVE  EntryInv'
  <1>1. /\ scheduled' = FALSE
        /\ UNCHANGED <<v2, always, history, host, bus, known, missed, entry, looking, stopping, disposed, kept>>
    BY DEF DiscoveryRuns
  <1>2. /\ LifecycleTypeOK /\ ChannelInv /\ StartedInv
        /\ started \in BOOLEAN /\ stopping \in BOOLEAN /\ wanted \in BOOLEAN /\ finds \in SUBSET Find
    BY DEF EntryInv, LifecycleInv, LifecycleTypeOK
  <1>3. /\ Outdated(finds) \in SUBSET Find /\ \A g \in Outdated(finds) : ~g.current
    BY <1>2, OutdatedAre
  <1>4. CASE always
    <2>1. StartControl(Outdated(finds), stopping)
      BY <1>4 DEF DiscoveryRuns
    <2>2. /\ ChannelInv' /\ StartedInv' /\ wanted' \in BOOLEAN /\ started' \in BOOLEAN
          /\ finds' \in SUBSET Find /\ (\A g \in finds' : ~g.current) /\ (~disposed => wanted')
      BY <1>1, <1>2, <1>3, <2>1, StartKeeps
    <2>3. LifecycleTypeOK'
      BY <1>1, <1>2, <2>2 DEF LifecycleTypeOK
    <2>4. OneCurrent' /\ UpInv' /\ DownInv'
      BY <1>1, <1>4, <2>2 DEF OneCurrent, UpInv, DownInv
    <2>5. LifecycleInv'
      BY <1>1, <2>2, <2>3, <2>4, WorldStays DEF EntryInv
    <2>6. QED
      BY <2>2, <2>5 DEF EntryInv
  <1>5. CASE ~always
    <2>1. finds' = Outdated(finds) \cup {NewFind(1)} /\ UNCHANGED <<wanted, started, cvars>>
      BY <1>5 DEF DiscoveryRuns
    <2>2. ChannelInv' /\ running' = running
      BY <1>2, <2>1, ChannelKeeps DEF cvars, socketVars
    <2>3. /\ NewFind(1) \in Find /\ NewFind(1).current /\ ~NewFind(1).served
          /\ NewFind(1).live = {}
      <3>1. 1 \in DOMAIN Limits
        BY EntryAssumption
      <3>2. QED
        BY <3>1 DEF NewFind, Find
    <2>4. StartedInv'
      BY <1>1, <1>2, <2>1, <2>2 DEF StartedInv
    <2>5. LifecycleTypeOK'
      BY <1>1, <1>2, <1>3, <2>1, <2>3 DEF LifecycleTypeOK
    <2>6. OneCurrent' /\ UpInv' /\ DownInv'
      <3>1. OneCurrent'
        BY <1>3, <2>1 DEF OneCurrent
      <3>2. NewFind(1) \in finds' /\ NewFind(1).current /\ ~Nothing(NewFind(1))
        BY <2>1, <2>3 DEF Nothing, Complete
      <3>3. QED
        BY <3>1, <3>2 DEF UpInv, DownInv
    <2>7. \A g \in finds' : g.current => ~Nothing(g) /\ g.live = {}
      BY <1>3, <2>1, <2>3 DEF Nothing, Complete
    <2>8. LifecycleInv'
      BY <1>1, <2>5, <2>6, <2>7, WorldStays DEF EntryInv
    <2>9. QED
      BY <2>2, <2>4, <2>8 DEF EntryInv
  <1>6. QED
    BY <1>4, <1>5

\* A call that resumes wants the channel for a session that was live, whose removal is
\* still to be handled if it is gone.
LEMMA ResumingKeeps ==
    ASSUME EntryInv, HeldInv, NEW s \in Session, NEW answer \in {"live", "archived", "internal", "unknown"},
           CallResumes(s, answer)
    PROVE  EntryInv'
  <1> DEFINE found == IF entry[s] # "absent" \/ answer = "unknown" THEN entry[s]
                      ELSE IF answer = "live" THEN "main" ELSE "hidden"
  <1>1. /\ s \in looking /\ looking' = looking \ {s}
        /\ entry' = [entry EXCEPT ![s] = found]
        /\ IF found = "main" THEN StartControl(finds, stopping) ELSE UNCHANGED <<finds, wanted, started, cvars>>
        /\ known' = IF v2 /\ entry[s] = "absent" /\ answer # "unknown" THEN known \cup {s} ELSE known
        /\ UNCHANGED <<v2, always, history, host, bus, missed, scheduled, stopping, disposed, kept>>
    BY DEF CallResumes
  <1>2. /\ LifecycleTypeOK /\ ChannelInv /\ StartedInv
        /\ started \in BOOLEAN /\ stopping \in BOOLEAN /\ wanted \in BOOLEAN /\ finds \in SUBSET Find
        /\ entry \in [Session -> {"absent", "main", "hidden"}]
    BY DEF EntryInv, LifecycleInv, LifecycleTypeOK
  <1>3. /\ found \in {"absent", "main", "hidden"} /\ (entry[s] = "hidden" => found = "hidden")
        /\ found = "main" => entry[s] # "hidden"
        /\ known \subseteq known' /\ known' \subseteq Session
        /\ found = "main" /\ v2 => s \in known'
    BY <1>1, <1>2 DEF HeldInv, LifecycleTypeOK
  <1> HIDE DEF found
  <1>4. /\ entry' \in [Session -> {"absent", "main", "hidden"}]
        /\ \A t \in Session : entry[t] = "hidden" => entry'[t] = "hidden"
    BY <1>1, <1>2, <1>3
  <1>5. CASE found = "main"
    <2>1. StartControl(finds, stopping)
      BY <1>1, <1>5
    <2>2. /\ ChannelInv' /\ StartedInv' /\ wanted' \in BOOLEAN /\ started' \in BOOLEAN
          /\ finds' \in SUBSET Find /\ (\A g \in finds' : g.current => g \in finds)
          /\ (~disposed => wanted') /\ (disposed \/ wanted => finds' = finds /\ wanted' = wanted)
      BY <1>1, <1>2, <2>1, StartKeeps
    <2>3. LifecycleTypeOK'
      BY <1>1, <1>2, <1>3, <1>4, <2>2 DEF LifecycleTypeOK
    <2>4. OneCurrent' /\ UpInv'
      BY <1>1, <2>2 DEF EntryInv, LifecycleInv, OneCurrent, UpInv
    <2>5. DownInv'
      <3>1. ~disposed => host[s] = "live" \/ RemovalComing(s) \/ s \in missed
        BY <1>1, <1>3, <1>5 DEF EntryInv, LifecycleInv, NewsInv
      <3>2. ~disposed => Holds(s)' \/ s \in missed'
        BY <1>1, <1>3, <1>5, <3>1, SourcesStay DEF Holds
      <3>3. QED
        BY <1>1, <3>2 DEF DownInv
    <2>6. LifecycleInv'
      BY <1>1, <1>4, <2>2, <2>3, <2>4, <2>5, WorldStays DEF EntryInv
    <2>7. QED
      BY <2>2, <2>6 DEF EntryInv
  <1>6. CASE found # "main"
    <2>1. UNCHANGED <<finds, wanted, started, cvars>>
      BY <1>1, <1>6
    <2>2. ChannelInv' /\ running' = running
      BY <1>2, <2>1, ChannelKeeps DEF cvars, socketVars
    <2>3. StartedInv'
      BY <1>1, <1>2, <2>1, <2>2 DEF StartedInv
    <2>4. LifecycleTypeOK'
      BY <1>1, <1>2, <1>3, <1>4, <2>1 DEF LifecycleTypeOK
    <2>5. OneCurrent' /\ UpInv' /\ DownInv'
      BY <1>1, <1>3, <2>1, SourcesStay DEF EntryInv, LifecycleInv, OneCurrent, UpInv, DownInv, Nothing, Complete
    <2>6. LifecycleInv'
      BY <1>1, <1>4, <2>1, <2>4, <2>5, WorldStays DEF EntryInv
    <2>7. QED
      BY <2>2, <2>3, <2>6 DEF EntryInv
  <1>7. QED
    BY <1>5, <1>6

\* A discovery that starts is current and has no answer yet.
LEMMA NewFindIs ==
    ASSUME NEW page \in DOMAIN Limits
    PROVE  /\ NewFind(page) \in Find /\ NewFind(page).current
           /\ ~Nothing(NewFind(page)) /\ NewFind(page).live = {}
  BY DEF NewFind, Find, Nothing, Complete

\* A discovery that ends retains the entry, unless something else has settled it.
LEMMA FailingKeeps ==
    ASSUME EntryInv, NEW f \in finds, ListFails(f)
    PROVE  EntryInv'
  <1>1. UNCHANGED <<v2, always, history, host, bus, known, missed, entry, looking, scheduled, disposed>>
    BY DEF ListFails
  <1>2. LifecycleTypeOK /\ OneCurrent /\ ChannelInv /\ StartedInv /\ finds \ {f} \in SUBSET Find
    BY DEF EntryInv, LifecycleInv, LifecycleTypeOK
  <1>3. CASE disposed \/ ~f.current
    <2>1. finds' = finds \ {f} /\ UNCHANGED <<wanted, started, stopping, kept, cvars>>
      BY <1>3 DEF ListFails
    <2>2. ChannelInv' /\ running' = running
      BY <1>2, <2>1, ChannelKeeps DEF cvars, socketVars
    <2>3. StartedInv'
      BY <1>1, <1>2, <2>1, <2>2 DEF StartedInv
    <2>4. LifecycleTypeOK' /\ OneCurrent'
      BY <1>1, <1>2, <2>1 DEF LifecycleTypeOK, OneCurrent
    <2>5. UpInv' /\ DownInv'
      BY <1>1, <1>3, <2>1, SourcesStay DEF EntryInv, LifecycleInv, UpInv, DownInv, Nothing, Complete
    <2>6. LifecycleInv'
      BY <1>1, <2>1, <2>4, <2>5, WorldStays DEF EntryInv
    <2>7. QED
      BY <2>2, <2>3, <2>6 DEF EntryInv
  <1>4. CASE ~(disposed \/ ~f.current)
    <2>1. StartControl(finds \ {f}, stopping) /\ kept' = TRUE /\ UNCHANGED stopping
      BY <1>4 DEF ListFails, Retain
    <2>2. /\ ChannelInv' /\ StartedInv' /\ wanted' \in BOOLEAN /\ started' \in BOOLEAN
          /\ finds' \in SUBSET Find /\ (\A g \in finds' : g.current => g \in finds) /\ wanted'
      BY <1>1, <1>2, <1>4, <2>1, StartKeeps
    <2>3. LifecycleTypeOK' /\ OneCurrent'
      BY <1>1, <1>2, <2>1, <2>2 DEF LifecycleTypeOK, OneCurrent
    <2>4. UpInv' /\ DownInv'
      BY <2>1, <2>2 DEF UpInv, DownInv
    <2>5. LifecycleInv'
      BY <1>1, <2>2, <2>3, <2>4, WorldStays DEF EntryInv
    <2>6. QED
      BY <2>2, <2>5 DEF EntryInv
  <1>5. QED
    BY <1>3, <1>4

\* A page that arrives at a current discovery: it starts the channel for a session that
\* was live when it was read, stops it if there can be none, or asks for the next page.
LEMMA ReturningKeeps ==
    ASSUME EntryInv, NEW f \in finds, ListReturns(f)
    PROVE  EntryInv'
  <1>1. /\ f.served /\ known' = IF v2 THEN known \cup f.seen ELSE known
        /\ UNCHANGED <<v2, always, history, host, bus, missed, looking, scheduled, disposed>>
    BY DEF ListReturns
  <1>2. /\ LifecycleTypeOK /\ OneCurrent /\ ChannelInv /\ StartedInv
        /\ finds \ {f} \in SUBSET Find /\ f \in Find
        /\ started \in BOOLEAN /\ stopping \in BOOLEAN /\ wanted \in BOOLEAN /\ kept \in BOOLEAN
        /\ entry \in [Session -> {"absent", "main", "hidden"}]
        /\ f.live \subseteq f.seen /\ f.seen \subseteq Session /\ known \subseteq Session
    BY DEF EntryInv, LifecycleInv, LifecycleTypeOK, Find
  <1>3. /\ known \subseteq known' /\ known' \subseteq Session
        /\ \A s \in f.live : v2 => s \in known'
    BY <1>1, <1>2
  <1>4. CASE disposed \/ ~f.current
    <2>1. finds' = finds \ {f} /\ UNCHANGED <<entry, wanted, started, stopping, kept, cvars>>
      BY <1>4 DEF ListReturns
    <2>2. ChannelInv' /\ running' = running
      BY <1>2, <2>1, ChannelKeeps DEF cvars, socketVars
    <2>3. StartedInv'
      BY <1>1, <1>2, <2>1, <2>2 DEF StartedInv
    <2>4. LifecycleTypeOK' /\ OneCurrent'
      BY <1>1, <1>2, <1>3, <2>1 DEF LifecycleTypeOK, OneCurrent
    <2>5. UpInv' /\ DownInv'
      BY <1>1, <1>3, <1>4, <2>1, SourcesStay DEF EntryInv, LifecycleInv, UpInv, DownInv, Nothing, Complete
    <2>6. LifecycleInv'
      BY <1>1, <2>1, <2>4, <2>5, WorldStays DEF EntryInv
    <2>7. QED
      BY <2>2, <2>3, <2>6 DEF EntryInv
  <1>5. CASE ~(disposed \/ ~f.current)
    <2>1. /\ entry' = [s \in Session |-> IF s \notin f.seen \/ entry[s] # "absent" THEN entry[s]
                                         ELSE IF s \in f.live THEN "main" ELSE "hidden"]
          /\ Page(f, finds \ {f})
      BY <1>5 DEF ListReturns
    <2>2. /\ entry' \in [Session -> {"absent", "main", "hidden"}]
          /\ \A s \in Session : entry[s] = "hidden" => entry'[s] = "hidden"
      BY <1>2, <2>1
    <2>3. \A g \in finds \ {f} : ~g.current
      BY <1>2, <1>5 DEF OneCurrent
    <2>4. ASSUME StartControl(finds \ {f}, stopping), UNCHANGED stopping, kept' \in BOOLEAN,
                 DownInv'
          PROVE  EntryInv'
      <3>1. /\ ChannelInv' /\ StartedInv' /\ wanted' \in BOOLEAN /\ started' \in BOOLEAN
            /\ finds' \in SUBSET Find /\ (\A g \in finds' : g.current => g \in finds) /\ wanted'
        BY <1>1, <1>2, <1>5, <2>4, StartKeeps
      <3>2. LifecycleTypeOK' /\ OneCurrent' /\ UpInv'
        BY <1>1, <1>2, <1>3, <2>2, <2>4, <3>1 DEF LifecycleTypeOK, OneCurrent, UpInv
      <3>3. LifecycleInv'
        BY <1>1, <2>2, <2>4, <3>1, <3>2, WorldStays DEF EntryInv
      <3>4. QED
        BY <3>1, <3>3 DEF EntryInv
    <2>5. CASE f.live # {} /\ StartControl(finds \ {f}, stopping) /\ UNCHANGED <<stopping, kept>>
      <3>1. PICK s \in f.live : host[s] = "live" \/ RemovalComing(s) \/ s \in missed
        BY <1>5, <2>5 DEF EntryInv, LifecycleInv, NewsInv
      <3>2. s \in Session
        BY <1>2 DEF Find
      <3>3. DownInv'
        <4>1. Holds(s)' \/ s \in missed'
          BY <1>1, <1>3, <3>1, <3>2, SourcesStay DEF Holds
        <4>2. QED
          BY <3>2, <4>1 DEF DownInv
      <3>4. QED
        BY <1>2, <2>4, <2>5, <3>3
    <2>6. CASE f.live = {} /\ f.size < Limits[f.page] /\ StopEmptyControl(finds \ {f})
      <3>1. /\ ChannelInv'
            /\ finds' = finds \ {f} /\ wanted' = FALSE /\ kept' = FALSE /\ started' = FALSE
            /\ stopping' \in BOOLEAN /\ (running' => running)
        BY <1>2, <2>6, StopEmptyIs
      <3>2. StartedInv'
        BY <1>1, <1>5, <3>1 DEF StartedInv
      <3>3. LifecycleTypeOK' /\ OneCurrent'
        BY <1>1, <1>2, <1>3, <2>2, <3>1 DEF LifecycleTypeOK, OneCurrent
      <3>4. \A s \in Session \ missed : host[s] = "live" => LiveComing(s)
        BY <1>1, <1>5, <2>6 DEF EntryInv, LifecycleInv, EmptyInv, Nothing, Complete
      <3>5. UpInv' /\ DownInv'
        BY <1>1, <1>3, <3>1, <3>4, SourcesStay DEF UpInv, DownInv
      <3>6. LifecycleInv'
        BY <1>1, <2>2, <3>1, <3>3, <3>5, WorldStays DEF EntryInv
      <3>7. QED
        BY <3>1, <3>2, <3>6 DEF EntryInv
    <2>7. CASE /\ f.page < Len(Limits)
               /\ finds' = (finds \ {f}) \cup {NewFind(f.page + 1)}
               /\ UNCHANGED <<wanted, started, stopping, kept, cvars>>
      <3>1. ChannelInv' /\ running' = running
        BY <1>2, <2>7, ChannelKeeps DEF cvars, socketVars
      <3>2. f.page + 1 \in DOMAIN Limits
        BY <1>2, <2>7, EntryAssumption DEF Find
      <3> DEFINE n == NewFind(f.page + 1)
      <3>3. n \in Find /\ n.current /\ ~Nothing(n) /\ n.live = {}
        BY <3>2, NewFindIs
      <3> HIDE DEF n
      <3>4. finds' = (finds \ {f}) \cup {n}
        BY <2>7 DEF n
      <3>5. StartedInv'
        BY <1>1, <1>2, <2>7, <3>1 DEF StartedInv
      <3>6. LifecycleTypeOK'
        BY <1>1, <1>2, <1>3, <2>2, <2>7, <3>3, <3>4 DEF LifecycleTypeOK
      <3>7. OneCurrent'
        BY <2>3, <3>4 DEF OneCurrent
      <3>8. UpInv' /\ DownInv'
        BY <3>3, <3>4 DEF UpInv, DownInv, Nothing, Complete
      <3>9. \A g \in finds' : g.current => ~Nothing(g) /\ g.live = {}
        BY <2>3, <3>3, <3>4
      <3>10. LifecycleInv'
        BY <1>1, <2>2, <3>6, <3>7, <3>8, <3>9, WorldStays DEF EntryInv
      <3>11. QED
        BY <3>1, <3>5, <3>10 DEF EntryInv
    <2>8. CASE Retain(finds \ {f})
      <3>1. StartControl(finds \ {f}, stopping) /\ kept' = TRUE /\ UNCHANGED stopping
        BY <2>8 DEF Retain
      <3>2. DownInv'
        BY <3>1 DEF DownInv
      <3>3. QED
        BY <2>4, <3>1, <3>2
    <2>9. QED
      BY <2>1, <2>5, <2>6, <2>7, <2>8 DEF Page
  <1>6. QED
    BY <1>4, <1>5

\* A page that is read tells what is live at that moment; one that is not full names
\* every session there is.
LEMMA ServingKeeps ==
    ASSUME EntryInv, NEW f \in finds, ListServed(f)
    PROVE  EntryInv'
  <1> DEFINE roots == {s \in Session : host[s] # "absent"}
             size == Min({Limits[f.page], Cardinality(roots) + history})
  <1>1. PICK seen \in SUBSET roots :
          /\ Cardinality(seen) \in (size - Min({size, history}))..size
          /\ finds' = (finds \ {f}) \cup {[f EXCEPT !.served = TRUE, !.size = size, !.seen = seen,
                                                    !.live = {s \in seen : host[s] = "live"}]}
    BY DEF ListServed
  <1>2. /\ ~f.served
        /\ UNCHANGED <<cvars, v2, always, history, host, bus, known, missed, entry, looking, scheduled, wanted, started,
                       stopping, disposed, kept>>
    BY DEF ListServed
  <1>3. /\ LifecycleTypeOK /\ OneCurrent /\ ChannelInv /\ StartedInv
        /\ f \in Find /\ history \in Nat /\ finds \in SUBSET Find
    BY DEF EntryInv, LifecycleInv, LifecycleTypeOK
  <1>4. Limits[f.page] \in Nat /\ f.page \in DOMAIN Limits
    BY <1>3, EntryAssumption DEF Find
  <1>5. IsFiniteSet(roots) /\ Cardinality(roots) \in Nat
    BY EntryAssumption, FS_Subset, FS_CardinalityType
  <1>6. IsFiniteSet(seen) /\ Cardinality(seen) \in Nat
    BY <1>5, FS_Subset, FS_CardinalityType
  <1>7. /\ size \in Nat
        /\ size < Limits[f.page] => Cardinality(seen) >= Cardinality(roots)
    <2> DEFINE a == Limits[f.page]
               b == Cardinality(roots) + history
    <2>1. a \in Nat /\ b \in Nat /\ size = Min({a, b})
      BY <1>3, <1>4, <1>5
    <2>2. b - history = Cardinality(roots) /\ history <= b
      BY <1>3, <1>5
    <2> HIDE DEF roots, a, b, size
    <2>3. size = (IF a <= b THEN a ELSE b) /\ size \in Nat
      BY <2>1, MinOfTwo
    <2>4. Min({size, history}) = IF size <= history THEN size ELSE history
      BY <1>3, <2>3, MinOfTwo
    <2>5. Cardinality(seen) >= size - Min({size, history})
      <3> DEFINE m == Min({size, history})
                 c == Cardinality(seen)
      <3>1. c \in (size - m)..size
        BY <1>1
      <3>2. m \in Nat /\ c \in Nat
        BY <1>3, <1>6, <2>3, <2>4
      <3> HIDE DEF m, c
      <3>3. c >= size - m
        BY <2>3, <3>1, <3>2
      <3>4. QED
        BY <3>3 DEF m, c
    <2>6. size < a => Cardinality(seen) >= Cardinality(roots)
      BY <1>3, <1>5, <1>6, <2>1, <2>2, <2>3, <2>4, <2>5
    <2>7. QED
      BY <2>3, <2>6 DEF a
  <1>8. size < Limits[f.page] => seen = roots
    BY <1>5, <1>6, <1>7, FS_Subset
  <1> DEFINE g == [f EXCEPT !.served = TRUE, !.size = size, !.seen = seen,
                            !.live = {s \in seen : host[s] = "live"}]
  <1>9. g \in Find
    <2>1. seen \in SUBSET Session /\ {s \in seen : host[s] = "live"} \in SUBSET Session
      BY <1>1
    <2> HIDE DEF roots, size
    <2>2. QED
      BY <1>3, <1>7, <2>1 DEF Find
  <1>10. /\ g.current = f.current /\ g.live = {s \in seen : host[s] = "live"}
         /\ g.size = size /\ g.page = f.page
    BY <1>3 DEF Find
  <1>11. Nothing(g) => ~LiveSession
    <2>1. SUFFICES ASSUME Complete(g), g.live = {}, NEW s \in Session, host[s] = "live"
                   PROVE  FALSE
      BY DEF LiveSession, Nothing
    <2>2. s \in roots
      BY <2>1
    <2>3. seen = roots
      BY <1>8, <1>10, <2>1 DEF Nothing, Complete
    <2>4. s \in g.live
      BY <1>10, <2>1, <2>2, <2>3
    <2>5. QED
      BY <2>1, <2>4
  <1>12. finds' = (finds \ {f}) \cup {g}
    BY <1>1
  <1> HIDE DEF g, roots, size
  <1>13. ChannelInv' /\ running' = running
    BY <1>2, <1>3, ChannelKeeps DEF cvars, socketVars
  <1>14. StartedInv'
    BY <1>2, <1>3, <1>13 DEF StartedInv
  <1>15. LifecycleTypeOK'
    BY <1>2, <1>3, <1>9, <1>12 DEF LifecycleTypeOK
  <1>16. OneCurrent'
    BY <1>3, <1>10, <1>12 DEF OneCurrent
  <1>17. UpInv'
    <2>1. SUFFICES ASSUME ~disposed, ~wanted, NEW s \in Session \ missed, host[s] = "live", ~LiveComing(s),
                          ~scheduled
                   PROVE  \E h \in finds' : h.current /\ ~Nothing(h)
      BY <1>2, SourcesStay DEF UpInv, Nothing, Complete
    <2>2. PICK h \in finds : h.current /\ ~Nothing(h)
      BY <2>1 DEF EntryInv, LifecycleInv, UpInv
    <2> LiveSession
      BY <2>1 DEF LiveSession
    <2>3. CASE h = f
      BY <1>10, <1>11, <1>12, <2>1, <2>2, <2>3
    <2>4. CASE h # f
      BY <1>12, <2>2, <2>4
    <2>5. QED
      BY <2>3, <2>4
  <1>18. DownInv'
    BY <1>2, <1>10, <1>12, SourcesStay DEF EntryInv, LifecycleInv, DownInv
  <1>19. \A h \in finds' : h.current =>
           h \in finds \/ ((\A s \in h.live : host[s] = "live")
                           /\ (Nothing(h) => ~LiveSession))
    BY <1>10, <1>11, <1>12
  <1>20. LifecycleInv'
    BY <1>2, <1>15, <1>16, <1>17, <1>18, <1>19, WorldStays DEF EntryInv
  <1>21. QED
    BY <1>13, <1>14, <1>20 DEF EntryInv

\* A hook call that waits for an ancestry was made for a live session.
LEMMA SignalKeeps ==
    ASSUME EntryInv, NEW s \in Session, HostSignal(s)
    PROVE  EntryInv'
  <1>1. /\ host[s] = "live" /\ looking' = looking \cup {s}
        /\ UNCHANGED <<running, probes, version, socket, alive, closing, registered, timer, tunnelVars>>
        /\ UNCHANGED <<v2, always, history, host, bus, known, missed, entry, scheduled, finds, wanted,
                       started, stopping, disposed, kept>>
    BY DEF HostSignal
  <1>2. ChannelInv'
    BY <1>1, ChannelKeeps DEF EntryInv
  <1>3. StartedInv'
    BY <1>1 DEF EntryInv, StartedInv
  <1>4. LifecycleTypeOK' /\ OneCurrent'
    BY <1>1 DEF EntryInv, LifecycleInv, LifecycleTypeOK, OneCurrent
  <1>5. UpInv' /\ DownInv' /\ EmptyInv'
    BY <1>1, SourcesStay DEF EntryInv, LifecycleInv, UpInv, DownInv, EmptyInv, Nothing, Complete
  <1>6. NewsInv'
    <2>1. \A t \in Session : RemovalComing(t)' = RemovalComing(t)
      BY <1>1, SourcesStay
    <2>2. \A i \in DOMAIN bus' : Outlived(i)' => \E j \in DOMAIN bus' : j > i /\ Removal(j, bus[i].session)'
      BY <1>1 DEF EntryInv, LifecycleInv, NewsInv, Removal, Outlived
    <2>3. ~disposed' => \A t \in looking' :
            host'[t] = "live" \/ entry'[t] = "hidden" \/ RemovalComing(t)' \/ t \in missed'
      BY <1>1, <2>1 DEF EntryInv, LifecycleInv, NewsInv, LifecycleTypeOK
    <2>4. ~disposed' => \A f \in finds' : f.current =>
            \A t \in f.live : host'[t] = "live" \/ RemovalComing(t)' \/ t \in missed'
      <3>1. \A f \in finds : f.live \subseteq Session
        BY DEF EntryInv, LifecycleInv, LifecycleTypeOK, Find
      <3>2. QED
        BY <1>1, <2>1, <3>1 DEF EntryInv, LifecycleInv, NewsInv
    <2>5. QED
      BY <1>1, <2>2, <2>3, <2>4 DEF NewsInv, Removal
  <1>7. QED
    BY <1>2, <1>3, <1>4, <1>5, <1>6 DEF EntryInv, LifecycleInv

\* A session that changes is announced: one that is gone by its removal, one that is
\* live by an event that will want the channel.
LEMMA ChangeKeeps ==
    ASSUME EntryInv, NEW s \in Session, NEW state \in {"absent", "live", "archived", "internal"},
           NEW kind \in {"info", "notice", "moved"}, HostChanges(s, state, kind)
    PROVE  EntryInv'
  <1> DEFINE e == [session |-> s, state |-> state, kind |-> kind]
  <1>1. /\ host' = [host EXCEPT ![s] = state] /\ bus' = Append(bus, e)
        /\ UNCHANGED <<running, probes, version, socket, alive, closing, registered, timer, tunnelVars>>
        /\ UNCHANGED <<v2, always, history, known, missed, entry, looking, scheduled, finds, wanted, started,
                       stopping, disposed, kept>>
    BY DEF HostChanges
  <1>2. LifecycleTypeOK /\ host \in [Session -> {"absent", "live", "archived", "internal"}]
    BY DEF EntryInv, LifecycleInv, LifecycleTypeOK
  <1>3. /\ host[s] \in {"live", "archived"} => state \in {"live", "archived", "absent"} /\ state # host[s]
        /\ host'[s] = state /\ \A t \in Session : t # s => host'[t] = host[t]
        /\ host' \in [Session -> {"absent", "live", "archived", "internal"}]
    <2>1. state \in NextStates(s)
      BY DEF HostChanges
    <2>2. host[s] \in {"live", "archived"} => state \in {"live", "archived", "absent"} /\ state # host[s]
      BY <2>1 DEF NextStates
    <2>3. QED
      BY <1>1, <1>2, <2>2
  <1>4. e \in Lifecycles /\ e.session = s /\ e.state = state
    BY DEF Lifecycles
  <1> HIDE DEF e
  <1> PICK n \in Nat : n = Len(bus) + 1
    <2>1. bus \in Seq(Lifecycles)
      BY <1>2 DEF LifecycleTypeOK
    <2>2. QED
      BY <2>1
  <1>5. /\ bus' \in Seq(Lifecycles) /\ Len(bus) \in Nat
        /\ DOMAIN bus = 1..Len(bus) /\ DOMAIN bus' = 1..n
        /\ bus'[n] = e /\ \A i \in 1..Len(bus) : bus'[i] = bus[i] /\ bus[i].session \in Session
    <2>1. bus \in Seq(Lifecycles) /\ bus' = Append(bus, e)
      BY <1>1, <1>2 DEF LifecycleTypeOK
    <2>2. /\ bus' \in Seq(Lifecycles) /\ Len(bus) \in Nat /\ Len(bus') = Len(bus) + 1
          /\ DOMAIN bus = 1..Len(bus) /\ DOMAIN bus' = 1..(Len(bus) + 1)
          /\ bus'[Len(bus) + 1] = e /\ \A i \in 1..Len(bus) : bus'[i] = bus[i]
      BY <1>4, <2>1, Appended
    <2>3. \A i \in 1..Len(bus) : bus[i] \in Lifecycles
      BY <2>1
    <2>4. QED
      BY <2>2, <2>3 DEF Lifecycles
  <1>6. /\ n \in DOMAIN bus' /\ n \in Nat /\ \A i \in DOMAIN bus : i \in DOMAIN bus' /\ i < n
        /\ \A i \in DOMAIN bus' : i = n \/ i \in DOMAIN bus
    BY <1>5
  <1>7. /\ \A t \in Session : RemovalComing(t) => RemovalComing(t)'
        /\ \A t \in Session : LiveComing(t) => LiveComing(t)'
        /\ state \in {"archived", "absent"} => Removal(n, s)' /\ RemovalComing(s)'
        /\ state = "live" => LiveComing(s)'
    <2>1. \A i \in DOMAIN bus : bus'[i] = bus[i]
      BY <1>5
    <2>2. bus'[n].session = s /\ bus'[n].state = state
      BY <1>4, <1>5
    <2>3. state \in {"archived", "absent"} => Removal(n, s)' /\ RemovalComing(s)'
      BY <1>6, <2>2 DEF RemovalComing, Removal
    <2>4. state = "live" => LiveComing(s)'
      BY <1>6, <2>2 DEF LiveComing
    <2>5. QED
      BY <1>6, <2>1, <2>3, <2>4 DEF RemovalComing, Removal, LiveComing
  <1>8. \A t \in Session : host[t] = "live" => host'[t] = "live" \/ RemovalComing(t)'
    BY <1>3, <1>7
  <1>9. \A t \in Session : host'[t] = "live" => host[t] = "live" \/ LiveComing(t)'
    BY <1>3, <1>7
  <1>10. NewsInv'
    <2>1. ASSUME NEW i \in DOMAIN bus', Outlived(i)'
          PROVE  \E j \in DOMAIN bus' : j > i /\ Removal(j, bus[i].session)'
      <3>1. bus'[n].session = s /\ bus'[n].state = state
        BY <1>4, <1>5
      <3>2. i \in DOMAIN bus
        BY <1>3, <1>6, <2>1, <3>1 DEF Outlived
      <3>3. PICK t \in Session : t = bus[i].session /\ bus'[i] = bus[i]
        BY <1>5, <3>2
      <3>4. CASE Outlived(i)
        <4>1. PICK j \in DOMAIN bus : j > i /\ Removal(j, bus[i].session)
          BY <3>2, <3>4 DEF EntryInv, LifecycleInv, NewsInv
        <4>2. bus'[j] = bus[j] /\ j \in DOMAIN bus'
          BY <1>5, <1>6
        <4>3. QED
          BY <3>3, <4>1, <4>2 DEF Removal
      <3>5. CASE ~Outlived(i)
        <4>1. t = s /\ state \in {"archived", "absent"}
          <5>1. host'[t] # host[t]
            BY <2>1, <3>3, <3>5 DEF Outlived
          <5>2. t = s
            BY <1>3, <5>1
          <5>3. \/ bus[i].state = "live" /\ host[s] = "live" /\ state # "live"
                \/ /\ bus[i].state = "archived" /\ host[s] \notin {"internal", "absent"}
                   /\ state \in {"internal", "absent"}
            BY <1>3, <2>1, <3>3, <3>5, <5>2 DEF Outlived
          <5>4. QED
            BY <1>2, <1>3, <5>2, <5>3
        <4>2. n \in DOMAIN bus' /\ n > i
          BY <1>5, <1>6, <3>2
        <4>3. bus'[n].session = bus'[i].session /\ bus'[n].state \in {"archived", "absent"}
          BY <3>1, <3>3, <4>1
        <4>4. QED
          BY <4>2, <4>3 DEF Removal
      <3>6. QED
        BY <3>4, <3>5
    <2>2. ~disposed' => \A t \in looking' :
            host'[t] = "live" \/ entry'[t] = "hidden" \/ RemovalComing(t)' \/ t \in missed'
      BY <1>1, <1>2, <1>7, <1>8 DEF EntryInv, LifecycleInv, NewsInv, LifecycleTypeOK
    <2>3. ~disposed' => \A f \in finds' : f.current =>
            \A t \in f.live : host'[t] = "live" \/ RemovalComing(t)' \/ t \in missed'
      <3>1. \A f \in finds : f.live \subseteq Session
        BY <1>2 DEF LifecycleTypeOK, Find
      <3>2. QED
        BY <1>1, <1>7, <1>8, <3>1 DEF EntryInv, LifecycleInv, NewsInv
    <2>4. QED
      BY <2>1, <2>2, <2>3 DEF NewsInv, Removal
  <1>11. EmptyInv' /\ UpInv'
    BY <1>1, <1>7, <1>9 DEF EntryInv, LifecycleInv, EmptyInv, UpInv, Nothing, Complete
  <1>12. DownInv'
    <2>1. \A t \in Session : Holds(t) => Holds(t)'
      BY <1>1, <1>7, <1>8 DEF Holds
    <2>2. QED
      BY <1>1, <2>1 DEF EntryInv, LifecycleInv, DownInv
  <1>13. LifecycleTypeOK' /\ OneCurrent'
    BY <1>1, <1>2, <1>3, <1>5 DEF EntryInv, LifecycleInv, LifecycleTypeOK, OneCurrent
  <1>14. ChannelInv'
    BY <1>1, ChannelKeeps DEF EntryInv
  <1>15. StartedInv'
    BY <1>1 DEF EntryInv, StartedInv
  <1>16. QED
    BY <1>10, <1>11, <1>12, <1>13, <1>14, <1>15 DEF EntryInv, LifecycleInv

\* What the bus still holds when its first event is handled.
LEMMA Delivered ==
    ASSUME LifecycleTypeOK, NewsInv, bus # <<>>, bus' = Tail(bus), UNCHANGED host
    PROVE  /\ bus' \in Seq(Lifecycles) /\ Head(bus) = bus[1] /\ bus[1] \in Lifecycles
           /\ \A i \in DOMAIN bus' : Outlived(i)' => \E j \in DOMAIN bus' : j > i /\ Removal(j, bus[i].session)'
           /\ \A s \in Session : LiveComing(s) /\ (bus[1].session # s \/ bus[1].state # "live") => LiveComing(s)'
           /\ \A s \in Session : ~Removal(1, s) /\ RemovalComing(s) => RemovalComing(s)'
           /\ \A s \in Session : bus[1].session = s /\ bus[1].state = "live" =>
                host[s] = "live" \/ RemovalComing(s)'
  <1>1. bus \in Seq(Lifecycles)
    BY DEF LifecycleTypeOK
  <1>2. /\ bus' \in Seq(Lifecycles) /\ Len(bus) \in Nat \ {0} /\ Len(bus') = Len(bus) - 1
        /\ DOMAIN bus = 1..Len(bus) /\ DOMAIN bus' = 1..(Len(bus) - 1)
        /\ Head(bus) = bus[1] /\ bus[1] \in Lifecycles
        /\ \A i \in 1..(Len(bus) - 1) : bus'[i] = bus[i + 1]
    BY <1>1, Tailed
  <1>3. 1 \in DOMAIN bus /\ \A j \in DOMAIN bus : j > 1 => j - 1 \in DOMAIN bus' /\ bus'[j - 1] = bus[j]
    BY <1>2
  <1>4. ASSUME NEW i \in DOMAIN bus, NEW t, bus[i].session = t, Outlived(i)
        PROVE  \E j \in DOMAIN bus' : j > i - 1 /\ bus'[j].session = t /\ bus'[j].state \in {"archived", "absent"}
    <2>1. PICK j \in DOMAIN bus : j > i /\ Removal(j, bus[i].session)
      BY <1>4 DEF NewsInv
    <2>2. j - 1 \in DOMAIN bus' /\ j - 1 > i - 1 /\ bus'[j - 1] = bus[j]
      BY <1>2, <1>3, <2>1
    <2>3. QED
      BY <1>4, <2>1, <2>2 DEF Removal
  <1>5. ASSUME NEW i \in DOMAIN bus', Outlived(i)'
        PROVE  \E j \in DOMAIN bus' : j > i /\ Removal(j, bus[i].session)'
    <2>1. i + 1 \in DOMAIN bus /\ bus'[i] = bus[i + 1] /\ (i + 1) - 1 = i
      BY <1>2
    <2> Outlived(i + 1)
      BY <1>5, <2>1 DEF Outlived
    <2>2. \E j \in DOMAIN bus' : j > i /\ bus'[j].session = bus'[i].session
                                 /\ bus'[j].state \in {"archived", "absent"}
      BY <1>4, <1>5, <2>1
    <2>3. QED
      BY <2>2 DEF Removal
  <1>6. \A s \in Session : bus[1].session = s /\ bus[1].state = "live" =>
          host[s] = "live" \/ RemovalComing(s)'
    BY <1>3, <1>4 DEF RemovalComing, Removal, Outlived
  <1>7. \A s \in Session : LiveComing(s) /\ (bus[1].session # s \/ bus[1].state # "live") => LiveComing(s)'
    <2>1. SUFFICES ASSUME NEW s \in Session, NEW i \in DOMAIN bus, bus[i].session = s, bus[i].state = "live", i # 1
                   PROVE  LiveComing(s)'
      BY DEF LiveComing
    <2>2. i - 1 \in DOMAIN bus' /\ bus'[i - 1] = bus[i]
      BY <1>2, <1>3, <2>1
    <2>3. QED
      BY <2>1, <2>2 DEF LiveComing
  <1>8. \A s \in Session : ~Removal(1, s) /\ RemovalComing(s) => RemovalComing(s)'
    <2>1. SUFFICES ASSUME NEW s \in Session, NEW i \in DOMAIN bus, Removal(i, s), i # 1
                   PROVE  RemovalComing(s)'
      BY DEF RemovalComing
    <2>2. i - 1 \in DOMAIN bus' /\ bus'[i - 1] = bus[i]
      BY <1>2, <1>3, <2>1
    <2>3. QED
      BY <2>1, <2>2 DEF RemovalComing, Removal
  <1>9. QED
    BY <1>2, <1>5, <1>6, <1>7, <1>8

\* The hook handles the next lifecycle event: a session that appears wants the channel
\* and outdates every listing, one that goes is hidden and the directory listed again.
LEMMA DeliverKeeps ==
    ASSUME EntryInv, HeldInv, Deliver
    PROVE  EntryInv'
  <1>1. /\ bus # <<>> /\ bus' = Tail(bus)
        /\ Head(bus).kind # "notice" /\ Idle
        /\ UNCHANGED <<v2, always, history, host, looking, stopping, disposed, kept>>
    BY DEF Deliver
  <1>2. /\ LifecycleTypeOK /\ OneCurrent /\ NewsInv /\ EmptyInv /\ UpInv /\ DownInv /\ ChannelInv /\ StartedInv
        /\ known \subseteq Session /\ missed \subseteq Session
        /\ scheduled \in BOOLEAN /\ finds \in SUBSET Find /\ looking \subseteq Session
        /\ entry \in [Session -> {"absent", "main", "hidden"}]
    BY DEF EntryInv, LifecycleInv, LifecycleTypeOK
  <1>3. /\ bus' \in Seq(Lifecycles) /\ Head(bus) = bus[1] /\ bus[1] \in Lifecycles
        /\ \A i \in DOMAIN bus' : Outlived(i)' => \E j \in DOMAIN bus' : j > i /\ Removal(j, bus[i].session)'
        /\ \A s \in Session : LiveComing(s) /\ (bus[1].session # s \/ bus[1].state # "live") => LiveComing(s)'
        /\ \A s \in Session : ~Removal(1, s) /\ RemovalComing(s) => RemovalComing(s)'
        /\ \A s \in Session : bus[1].session = s /\ bus[1].state = "live" =>
             host[s] = "live" \/ RemovalComing(s)'
    BY <1>1, <1>2, Delivered
  <1>4. PICK s \in Session, state \in {"absent", "live", "archived", "internal"} :
          bus[1].session = s /\ bus[1].state = state
    BY <1>3 DEF Lifecycles
  <1>6. CASE disposed
    <2>1. UNCHANGED <<known, missed, entry, scheduled, finds, wanted, started, cvars>>
      BY <1>6 DEF Deliver
    <2>2. ChannelInv' /\ running' = running
      BY <1>2, <2>1, ChannelKeeps DEF cvars, socketVars
    <2>3. StartedInv'
      BY <1>1, <1>2, <2>1, <2>2 DEF StartedInv
    <2>4. LifecycleTypeOK' /\ OneCurrent'
      BY <1>1, <1>2, <1>3, <2>1 DEF EntryInv, LifecycleInv, LifecycleTypeOK, OneCurrent
    <2>5. disposed'
      BY <1>1, <1>6
    <2>6. NewsInv' /\ EmptyInv' /\ UpInv' /\ DownInv'
      BY <1>3, <2>5 DEF NewsInv, EmptyInv, UpInv, DownInv
    <2>7. QED
      BY <2>2, <2>3, <2>4, <2>6 DEF EntryInv, LifecycleInv
  <1>7. CASE ~disposed /\ bus[1].kind = "moved" /\ s \notin known
    <2>1. /\ missed' = IF Shown(s) THEN missed \cup {s} ELSE missed
          /\ UNCHANGED <<known, entry, scheduled, finds, wanted, started, cvars>>
      BY <1>3, <1>4, <1>7 DEF Deliver
    <2>2. v2 /\ looking = {}
      <3>1. 1 \in DOMAIN bus
        BY <1>1, <1>2 DEF LifecycleTypeOK
      <3>2. v2
        BY <1>2, <1>7, <3>1 DEF HeldInv, LifecycleTypeOK
      <3>3. QED
        BY <1>1, <3>2 DEF Idle
    <2>3. ChannelInv' /\ running' = running
      BY <1>2, <2>1, ChannelKeeps DEF cvars, socketVars
    <2>4. StartedInv'
      BY <1>1, <1>2, <2>1, <2>3 DEF StartedInv
    <2>5. LifecycleTypeOK' /\ OneCurrent'
      BY <1>1, <1>2, <1>3, <2>1 DEF LifecycleTypeOK, OneCurrent
    <2>6. /\ missed \subseteq missed'
          /\ \A t \in Session : t # s /\ RemovalComing(t) => RemovalComing(t)'
          /\ \A f \in finds : f.current => \A t \in f.live : t = s => t \in missed'
      BY <1>3, <1>4, <2>1 DEF Removal, Shown
    <2>7. NewsInv'
      <3>1. \A f \in finds : f.live \subseteq Session
        BY <1>2 DEF Find
      <3>2. ~disposed' => \A f \in finds' : f.current =>
              \A t \in f.live : host'[t] = "live" \/ RemovalComing(t)' \/ t \in missed'
        BY <1>1, <1>2, <1>7, <2>1, <2>6, <3>1 DEF NewsInv
      <3>3. QED
        BY <1>1, <1>3, <2>2, <3>2 DEF NewsInv
    <2>8. EmptyInv' /\ UpInv'
      <3>1. \A t \in Session : LiveComing(t) /\ host[t] = "live" => LiveComing(t)' \/ (t = s /\ bus[1].state = "live")
        BY <1>3, <1>4
      <3>2. bus[1].state # "live"
        <4>1. 1 \in DOMAIN bus
          BY <1>1, <1>2 DEF LifecycleTypeOK
        <4>2. QED
          BY <1>7, <4>1 DEF HeldInv
      <3>3. QED
        BY <1>1, <1>2, <2>1, <2>6, <3>1, <3>2 DEF EmptyInv, UpInv, Nothing, Complete
    <2>9. DownInv'
      <3>1. \A t \in Session : Holds(t) => Holds(t)'
        BY <1>1, <1>7, <2>1, <2>2, <2>6 DEF Holds
      <3>2. missed # {} => missed' # {}
        BY <2>6
      <3>3. QED
        BY <1>1, <1>2, <2>1, <3>1, <3>2 DEF DownInv
    <2>10. QED
      BY <2>3, <2>4, <2>5, <2>7, <2>8, <2>9 DEF EntryInv, LifecycleInv
  <1>8. CASE ~disposed /\ ~(bus[1].kind = "moved" /\ s \notin known)
    <2>1. /\ Lifecycle(s, state)
          /\ known' = Holding(s, state) /\ missed' = IF Matters(s, state) THEN missed \ {s} ELSE missed
      BY <1>3, <1>4, <1>8 DEF Deliver
    <2> /\ known' \subseteq Session /\ missed' \subseteq Session
        /\ \A t \in missed : t # s => t \in missed'
        /\ \A t \in known : t # s => t \in known'
        /\ state # "absent" /\ v2 => s \in known'
      BY <1>2, <2>1 DEF Holding
    <2>2. CASE state = "live"
      <3>1. entry' = [entry EXCEPT ![s] = "main"] /\ StartControl(Outdated(finds), stopping) /\ UNCHANGED scheduled
        BY <2>1, <2>2 DEF Lifecycle
      <3>2. Outdated(finds) \in SUBSET Find /\ \A g \in Outdated(finds) : ~g.current
        BY <1>2, OutdatedAre
      <3>3. /\ ChannelInv' /\ StartedInv' /\ wanted' \in BOOLEAN /\ started' \in BOOLEAN
            /\ finds' \in SUBSET Find /\ (\A g \in finds' : ~g.current) /\ wanted'
        BY <1>1, <1>2, <1>8, <3>1, <3>2, StartKeeps
      <3>4. LifecycleTypeOK' /\ OneCurrent'
        BY <1>1, <1>2, <1>3, <3>1, <3>3 DEF LifecycleTypeOK, OneCurrent
      <3>5. host[s] = "live" \/ RemovalComing(s)'
        BY <1>3, <1>4, <2>2
      <3>6. NewsInv'
        <4>1. \A t \in looking : host[t] = "live" \/ entry'[t] = "hidden" \/ RemovalComing(t)' \/ t \in missed'
          <5>1. SUFFICES ASSUME NEW t \in looking, t # s
                         PROVE  host[t] = "live" \/ entry'[t] = "hidden" \/ RemovalComing(t)' \/ t \in missed'
            BY <3>5
          <5>2. ~Removal(1, t) /\ t \in Session /\ entry'[t] = entry[t]
            BY <1>2, <1>4, <2>2, <3>1, <5>1 DEF Removal
          <5>3. QED
            BY <1>2, <1>3, <1>8, <5>1, <5>2 DEF NewsInv
        <4>2. QED
          BY <1>1, <1>3, <3>3, <4>1 DEF NewsInv
      <3>7. EmptyInv' /\ UpInv'
        BY <3>3 DEF EmptyInv, UpInv
      <3>8. DownInv'
        <4>1. Holds(s)'
          BY <1>1, <2>2, <3>5 DEF Holds
        <4>2. QED
          BY <4>1 DEF DownInv
      <3>9. QED
        BY <3>3, <3>4, <3>6, <3>7, <3>8 DEF EntryInv, LifecycleInv
    <2>3. CASE state # "live"
      <3>1. /\ entry' = [entry EXCEPT ![s] = "hidden"] /\ scheduled' = (scheduled \/ Matters(s, state))
            /\ finds' = IF Matters(s, state) THEN Outdated(finds) ELSE finds
            /\ UNCHANGED <<wanted, started, cvars>>
        BY <2>1, <2>3 DEF Lifecycle
      <3>2. Outdated(finds) \in SUBSET Find /\ \A g \in Outdated(finds) : ~g.current
        BY <1>2, OutdatedAre
      <3>3. finds' \in SUBSET Find /\ \A g \in finds' : g.current => g \in finds /\ ~Matters(s, state)
        BY <1>2, <3>1, <3>2
      <3>4. ChannelInv' /\ running' = running
        BY <1>2, <3>1, ChannelKeeps DEF cvars, socketVars
      <3>5. StartedInv'
        BY <1>1, <1>2, <3>1, <3>4 DEF StartedInv
      <3>6. LifecycleTypeOK' /\ OneCurrent'
        <4>1. scheduled' \in BOOLEAN /\ entry' \in [Session -> {"absent", "main", "hidden"}]
          BY <1>2, <3>1 DEF Matters
        <4>2. LifecycleTypeOK'
          BY <1>1, <1>2, <1>3, <3>1, <3>3, <4>1 DEF LifecycleTypeOK
        <4>3. QED
          BY <1>2, <3>3, <4>2 DEF OneCurrent
      <3>7. /\ entry'[s] = "hidden" /\ \A t \in Session : entry[t] = "hidden" => entry'[t] = "hidden"
            /\ \A t \in Session : t # s => ~Removal(1, t)
            /\ ~Matters(s, state) => \A t \in Session : ~Removal(1, t)
            /\ ~Matters(s, state) => missed' = missed /\ state = "internal"
        BY <1>2, <1>4, <2>1, <3>1 DEF Removal, Matters
      <3>8. NewsInv'
        <4>1. \A t \in looking : host[t] = "live" \/ entry'[t] = "hidden" \/ RemovalComing(t)' \/ t \in missed'
          BY <1>2, <1>3, <1>8, <3>7 DEF NewsInv
        <4>2. \A f \in finds' : f.current => \A t \in f.live : host[t] = "live" \/ RemovalComing(t)' \/ t \in missed'
          <5>1. \A f \in finds' : f.live \subseteq Session
            BY <3>3 DEF Find
          <5>2. QED
            BY <1>2, <1>3, <1>8, <3>3, <3>7, <5>1 DEF NewsInv
        <4>3. QED
          BY <1>1, <1>3, <4>1, <4>2 DEF NewsInv
      <3>9. \A t \in Session : LiveComing(t) => LiveComing(t)'
        BY <1>3, <1>4, <2>3
      <3>10. CASE Matters(s, state)
        <4>1. scheduled' /\ \A g \in finds' : ~g.current
          BY <1>2, <3>1, <3>3, <3>10
        <4>2. EmptyInv' /\ UpInv' /\ DownInv'
          BY <4>1 DEF EmptyInv, UpInv, DownInv
        <4>3. QED
          BY <3>4, <3>5, <3>6, <3>8, <4>2 DEF EntryInv, LifecycleInv
      <3>11. CASE ~Matters(s, state)
        <4>1. scheduled' = scheduled /\ finds' = finds /\ missed' = missed
          BY <1>2, <3>1, <3>7, <3>11
        <4>2. EmptyInv' /\ UpInv'
          BY <1>1, <1>2, <3>1, <3>9, <4>1 DEF EmptyInv, UpInv, Nothing, Complete
        <4>3. \A t \in Session : Holds(t) => Holds(t)'
          <5>1. \A t \in known : t \in known'
            BY <2>1, <3>7, <3>11 DEF Holding
          <5>2. QED
            BY <1>1, <1>3, <3>7, <3>11, <5>1 DEF Holds
        <4>4. DownInv'
          BY <1>1, <1>2, <3>1, <4>1, <4>3 DEF DownInv
        <4>5. QED
          BY <3>4, <3>5, <3>6, <3>8, <4>2, <4>4 DEF EntryInv, LifecycleInv
      <3>12. QED
        BY <3>10, <3>11
    <2>4. QED
      BY <2>2, <2>3
  <1>9. QED
    BY <1>6, <1>7, <1>8

\* An event that v2.ts drops leaves its session among the untold.
LEMMA DroppedKeeps ==
    ASSUME EntryInv, EventDropped
    PROVE  EntryInv'
  <1>1. /\ bus # <<>> /\ bus' = Tail(bus) /\ missed' = missed \cup {Head(bus).session}
        /\ UNCHANGED <<cvars, v2, always, history, host, known, entry, looking, scheduled, finds, wanted, started,
                       stopping, disposed, kept>>
    BY DEF EventDropped
  <1>2. /\ LifecycleTypeOK /\ OneCurrent /\ NewsInv /\ EmptyInv /\ UpInv /\ ChannelInv /\ StartedInv
    BY DEF EntryInv, LifecycleInv
  <1>3. /\ bus' \in Seq(Lifecycles) /\ Head(bus) = bus[1] /\ bus[1] \in Lifecycles
        /\ \A i \in DOMAIN bus' : Outlived(i)' => \E j \in DOMAIN bus' : j > i /\ Removal(j, bus[i].session)'
        /\ \A s \in Session : LiveComing(s) /\ (bus[1].session # s \/ bus[1].state # "live") => LiveComing(s)'
        /\ \A s \in Session : ~Removal(1, s) /\ RemovalComing(s) => RemovalComing(s)'
    BY <1>1, <1>2, Delivered
  <1>4. PICK s \in Session : bus[1].session = s /\ missed' = missed \cup {s}
    BY <1>1, <1>3 DEF Lifecycles
  <1>5. /\ \A t \in Session : RemovalComing(t) => RemovalComing(t)' \/ t \in missed'
        /\ \A t \in Session \ missed' : LiveComing(t) => LiveComing(t)'
        /\ missed \subseteq missed' /\ missed' \subseteq Session /\ missed' # {}
    BY <1>2, <1>3, <1>4 DEF Removal, LifecycleTypeOK
  <1>6. ChannelInv' /\ running' = running
    BY <1>1, <1>2, ChannelKeeps DEF cvars, socketVars
  <1>7. StartedInv'
    BY <1>1, <1>2, <1>6 DEF StartedInv
  <1>8. LifecycleTypeOK' /\ OneCurrent'
    BY <1>1, <1>2, <1>3, <1>5 DEF LifecycleTypeOK, OneCurrent
  <1>9. NewsInv'
    <2>1. ~disposed' => \A t \in looking' :
            host'[t] = "live" \/ entry'[t] = "hidden" \/ RemovalComing(t)' \/ t \in missed'
      BY <1>1, <1>2, <1>5 DEF NewsInv, LifecycleTypeOK
    <2>2. ~disposed' => \A f \in finds' : f.current =>
            \A t \in f.live : host'[t] = "live" \/ RemovalComing(t)' \/ t \in missed'
      <3>1. \A f \in finds : f.live \subseteq Session
        BY <1>2 DEF LifecycleTypeOK, Find
      <3>2. QED
        BY <1>1, <1>2, <1>5, <3>1 DEF NewsInv
    <2>3. QED
      BY <1>3, <2>1, <2>2 DEF NewsInv
  <1>10. EmptyInv' /\ UpInv' /\ DownInv'
    BY <1>1, <1>2, <1>5 DEF EmptyInv, UpInv, DownInv, Nothing, Complete
  <1>11. QED
    BY <1>6, <1>7, <1>8, <1>9, <1>10 DEF EntryInv, LifecycleInv

\* getSession's answer: the first event now tells what its session is, and what it told
\* before is either so, or followed by a removal.
LEMMA ReadKeeps ==
    ASSUME EntryInv, HeldInv, SessionRead
    PROVE  EntryInv'
  <1> DEFINE e == [Head(bus) EXCEPT !.state = host[Head(bus).session], !.kind = "info"]
  <1>1. /\ bus # <<>> /\ bus' = <<e>> \o Tail(bus) /\ host[Head(bus).session] # "absent"
        /\ UNCHANGED <<cvars, v2, always, history, host, known, missed, entry, looking, scheduled, finds, wanted,
                       started, stopping, disposed, kept>>
    BY DEF SessionRead
  <1>2. /\ LifecycleTypeOK /\ OneCurrent /\ NewsInv /\ EmptyInv /\ UpInv /\ DownInv /\ ChannelInv /\ StartedInv
        /\ bus \in Seq(Lifecycles) /\ host \in [Session -> {"absent", "live", "archived", "internal"}]
    BY DEF EntryInv, LifecycleInv, LifecycleTypeOK
  <1>3. /\ Len(bus) \in Nat \ {0} /\ DOMAIN bus = 1..Len(bus) /\ Head(bus) = bus[1] /\ bus[1] \in Lifecycles
        /\ Tail(bus) \in Seq(Lifecycles) /\ Len(Tail(bus)) = Len(bus) - 1
        /\ \A i \in 1..(Len(bus) - 1) : Tail(bus)[i] = bus[i + 1]
    BY <1>1, <1>2, HeadTailProperties
  <1>4. PICK s \in Session : bus[1].session = s
    BY <1>3 DEF Lifecycles
  <1>5. e \in Lifecycles /\ e.session = s /\ e.state = host[s] /\ host[s] # "absent"
    BY <1>1, <1>2, <1>3, <1>4 DEF Lifecycles
  <1> HIDE DEF e
  <1>6. /\ bus' \in Seq(Lifecycles) /\ DOMAIN bus' = DOMAIN bus /\ bus'[1] = e
        /\ \A i \in DOMAIN bus : i # 1 => bus'[i] = bus[i]
    <2>1. <<e>> \in Seq(Lifecycles) /\ Len(<<e>>) = 1 /\ <<e>>[1] = e
      BY <1>5
    <2>2. /\ bus' \in Seq(Lifecycles) /\ Len(bus') = 1 + Len(Tail(bus))
          /\ \A i \in 1..(1 + Len(Tail(bus))) : bus'[i] = IF i <= 1 THEN <<e>>[i] ELSE Tail(bus)[i - 1]
      BY <1>1, <1>3, <2>1, ConcatProperties
    <2>3. QED
      BY <1>3, <2>1, <2>2
  <1>7. \A i \in DOMAIN bus : i # 1 => i > 1
    BY <1>3
  <1>8. \A i \in DOMAIN bus' : Outlived(i)' => \E j \in DOMAIN bus' : j > i /\ Removal(j, bus[i].session)'
    <2>1. SUFFICES ASSUME NEW i \in DOMAIN bus', Outlived(i)'
                   PROVE  \E j \in DOMAIN bus' : j > i /\ Removal(j, bus[i].session)'
      OBVIOUS
    <2>2. i # 1
      BY <1>1, <1>5, <1>6, <2>1 DEF Outlived
    <2>3. Outlived(i)
      BY <1>1, <1>6, <2>1, <2>2 DEF Outlived
    <2>4. PICK j \in DOMAIN bus : j > i /\ Removal(j, bus[i].session)
      BY <1>2, <1>6, <2>1, <2>3 DEF NewsInv
    <2>5. j # 1
      BY <1>3, <1>6, <2>1, <2>4
    <2>6. QED
      BY <1>6, <2>1, <2>2, <2>4, <2>5 DEF Removal
  <1>9. \A t \in Session : RemovalComing(t) => host[t] = "live" \/ RemovalComing(t)'
    <2>1. SUFFICES ASSUME NEW t \in Session, NEW i \in DOMAIN bus, Removal(i, t), host[t] # "live"
                   PROVE  RemovalComing(t)'
      BY DEF RemovalComing
    <2>2. CASE i # 1
      BY <1>6, <2>1, <2>2 DEF RemovalComing, Removal
    <2>3. CASE i = 1
      <3>1. t = s
        BY <1>4, <2>1, <2>3 DEF Removal
      <3>2. CASE host[s] = "archived"
        BY <1>3, <1>5, <1>6, <2>1, <2>3, <3>1, <3>2 DEF RemovalComing, Removal
      <3>3. CASE host[s] = "internal"
        <4>1. \E j \in DOMAIN bus : j > 1 /\ Removal(j, s)
          <5>1. CASE Outlived(1)
            BY <1>2, <1>4, <2>1, <2>3, <5>1 DEF NewsInv
          <5>2. CASE ~Outlived(1)
            <6>1. bus[1].state = "absent"
              BY <1>4, <2>1, <2>3, <3>1, <3>3, <5>2 DEF Outlived, Removal
            <6>2. QED
              BY <1>1, <1>3, <6>1 DEF HeldInv, SessionRead
          <5>3. QED
            BY <5>1, <5>2
        <4>2. PICK j \in DOMAIN bus : j > 1 /\ Removal(j, s)
          BY <4>1
        <4>3. j # 1
          BY <1>3, <4>2
        <4>4. QED
          BY <1>6, <3>1, <4>2, <4>3 DEF RemovalComing, Removal
      <3>4. QED
        BY <1>2, <1>5, <2>1, <3>1, <3>2, <3>3
    <2>4. QED
      BY <2>2, <2>3
  <1>10. \A t \in Session : host[t] = "live" /\ LiveComing(t) => LiveComing(t)'
    <2>1. SUFFICES ASSUME NEW t \in Session, NEW i \in DOMAIN bus, bus[i].session = t, host[t] = "live",
                          bus[i].state = "live"
                   PROVE  LiveComing(t)'
      BY DEF LiveComing
    <2>2. CASE i # 1
      BY <1>6, <2>1, <2>2 DEF LiveComing
    <2>3. CASE i = 1
      BY <1>4, <1>5, <1>6, <2>1, <2>3 DEF LiveComing
    <2>4. QED
      BY <2>2, <2>3
  <1>11. ChannelInv' /\ running' = running
    BY <1>1, <1>2, ChannelKeeps DEF cvars, socketVars
  <1>12. StartedInv'
    BY <1>1, <1>2, <1>11 DEF StartedInv
  <1>13. LifecycleTypeOK' /\ OneCurrent'
    BY <1>1, <1>2, <1>6 DEF LifecycleTypeOK, OneCurrent
  <1>14. NewsInv'
    <2>1. ~disposed' => \A t \in looking' :
            host'[t] = "live" \/ entry'[t] = "hidden" \/ RemovalComing(t)' \/ t \in missed'
      BY <1>1, <1>2, <1>9 DEF NewsInv, LifecycleTypeOK
    <2>2. ~disposed' => \A f \in finds' : f.current =>
            \A t \in f.live : host'[t] = "live" \/ RemovalComing(t)' \/ t \in missed'
      <3>1. \A f \in finds : f.live \subseteq Session
        BY <1>2 DEF LifecycleTypeOK, Find
      <3>2. QED
        BY <1>1, <1>2, <1>9, <3>1 DEF NewsInv
    <2>3. QED
      BY <1>8, <2>1, <2>2 DEF NewsInv
  <1>15. EmptyInv' /\ UpInv'
    BY <1>1, <1>2, <1>10 DEF EmptyInv, UpInv, Nothing, Complete
  <1>16. DownInv'
    <2>1. \A t \in Session : Holds(t) => Holds(t)'
      BY <1>1, <1>9 DEF Holds
    <2>2. QED
      BY <1>1, <1>2, <2>1 DEF DownInv
  <1>17. QED
    BY <1>11, <1>12, <1>13, <1>14, <1>15, <1>16 DEF EntryInv, LifecycleInv

\* The steps of the channel and of the tunnel leave the entry alone.
LEMMA OthersKeep ==
    ASSUME EntryInv, ((ChannelStep \/ TunnelStep) /\ UNCHANGED entryVars) \/ UNCHANGED rvars
    PROVE  EntryInv'
  <1>1. UNCHANGED <<v2, always, history, host, bus, known, missed, entry, looking, scheduled, finds, wanted, started,
                    stopping, disposed, kept>>
    BY DEF entryVars, rvars
  <1>2. ChannelInv' /\ (running' => running)
    <2>1. CASE ChannelStep
      BY <2>1, ChannelKeeps DEF EntryInv
    <2>2. CASE TunnelStep
      BY <2>2, TunnelSteps DEF EntryInv
    <2>3. CASE UNCHANGED rvars
      BY <2>3, ChannelKeeps DEF EntryInv, rvars, cvars, socketVars
    <2>4. QED
      BY <2>1, <2>2, <2>3
  <1>3. StartedInv'
    BY <1>1, <1>2 DEF EntryInv, StartedInv
  <1>4. LifecycleTypeOK' /\ OneCurrent' /\ UpInv' /\ DownInv'
    BY <1>1, SourcesStay DEF EntryInv, LifecycleInv, LifecycleTypeOK, OneCurrent, UpInv, DownInv, Nothing, Complete
  <1>5. LifecycleInv'
    BY <1>1, <1>4, WorldStays DEF EntryInv
  <1>6. QED
    BY <1>2, <1>3, <1>5 DEF EntryInv

-----------------------------------------------------------------------------
(* The theorems *)

\* EntryInv holds as the plugin starts.
LEMMA EntryStarts ==
    ASSUME EntryInit
    PROVE  EntryInv
  <1>1. ChannelInv
    <2>1. ChannelInit
      BY DEF EntryInit
    <2>2. ChannelTypeOK /\ SocketInv
      <3>1. /\ running = FALSE /\ version = "none" /\ socket = "none" /\ alive = 0 /\ closing = 0
            /\ registered = FALSE /\ timer = FALSE /\ probes = [fresh |-> 0, stale |-> 0]
        BY <2>1 DEF ChannelInit
      <3>2. 0 \in 0..1 /\ 0 \in 0..MaxStale
        BY ChannelAssumption
      <3>3. probes \in [fresh : 0..1, stale : 0..MaxStale] /\ probes.fresh = 0
        BY <3>1, <3>2
      <3>4. alive \in 0..1 /\ closing \in 0..MaxStale
        BY <3>1, <3>2
      <3>5. version \in {"none", "known", "unknown"} /\ socket \in {"none", "connecting", "open"}
        BY <3>1
      <3>6. running \in BOOLEAN /\ registered \in BOOLEAN /\ timer \in BOOLEAN
        BY <3>1
      <3>7. QED
        BY <3>1, <3>3, <3>4, <3>5, <3>6 DEF ChannelTypeOK, SocketInv
    <2>3. /\ TunnelTypeOK /\ down = <<>> /\ webUiAborts = 0 /\ ~link /\ client = "absent"
          /\ \A r \in Req : upstream[r].state = "none" /\ upstream[r].map = 0 /\ sent[r] = "no"
      <3>1. /\ client = "absent" /\ tunnel = "none" /\ link = FALSE /\ pending = {} /\ down = <<>>
            /\ webUiAborts = 0
            /\ upstream = [r \in Req |-> [state |-> "none", map |-> 0]]
            /\ sent = [r \in Req |-> "no"]
        BY <2>1 DEF ChannelInit
      <3>2. upstream \in [Req -> [state : {"none", "running", "aborted", "done"}, map : Nat]]
        BY <3>1
      <3>3. sent \in [Req -> {"no", "early", "late"}]
        BY <3>1
      <3>4. down \in Seq(WebUiFrame) /\ pending \subseteq Req
        BY <3>1
      <3>5. webUiAborts \in Nat /\ link \in BOOLEAN
        BY <3>1
      <3>6. client \in {"absent", "open", "closing", "gone"} /\ tunnel \in {"none", "open", "closed"}
        BY <3>1
      <3>7. QED
        BY <3>1, <3>2, <3>3, <3>4, <3>5, <3>6 DEF TunnelTypeOK
    <2>4. SentInv /\ CloseInv /\ AbortInv /\ StoppedInv
      BY <2>3 DEF SentInv, CloseInv, AbortInv, StoppedInv, Active
    <2>5. MapsInv
      <3>1. Begun = {}
        BY <2>3 DEF Begun
      <3>2. Cardinality(Begun) = 0
        BY <3>1, FS_EmptySet
      <3>3. QED
        BY <2>3, <3>1, <3>2 DEF MapsInv
    <2>6. QED
      BY <2>2, <2>3, <2>4, <2>5 DEF ChannelInv, TunnelInv
  <1>2. PICK setup \in Setups : v2 = setup.v2 /\ always = setup.always /\ history = setup.history
    BY DEF EntryInit
  <1>3. LifecycleTypeOK
    <2>1. v2 \in BOOLEAN /\ always \in BOOLEAN /\ history \in Nat
      BY <1>2, EntryAssumption
    <2>2. /\ host \in [Session -> {"absent", "live", "archived", "internal"}]
          /\ entry \in [Session -> {"absent", "main", "hidden"}]
          /\ bus \in Seq(Lifecycles) /\ looking \subseteq Session /\ finds \subseteq Find
      <3>1. /\ host \in [Session -> {"absent", "live", "archived"}]
            /\ entry = [s \in Session |-> "absent"] /\ bus = <<>> /\ looking = {} /\ finds = {}
        BY DEF EntryInit
      <3>2. QED
        BY <3>1
    <2>3. QED
      BY <2>1, <2>2 DEF EntryInit, LifecycleTypeOK
  <1>4. OneCurrent /\ NewsInv /\ EmptyInv /\ UpInv /\ DownInv
    BY DEF EntryInit, OneCurrent, NewsInv, EmptyInv, UpInv, DownInv
  <1>5. StartedInv
    BY DEF EntryInit, StartedInv
  <1>6. QED
    BY <1>1, <1>3, <1>4, <1>5 DEF EntryInv, LifecycleInv

\* v2.ts holds the main sessions from the start and after every step.
LEMMA HeldStarts ==
    ASSUME EntryInit
    PROVE  HeldInv
  BY DEF EntryInit, HeldInv

\* What is told of a session, and what is held of it, change together.
LEMMA HeldKeeps ==
    ASSUME EntryInv, HeldInv, [EntryNext]_rvars
    PROVE  HeldInv'
  <1>1. /\ bus \in Seq(Lifecycles) /\ entry \in [Session -> {"absent", "main", "hidden"}] /\ v2 \in BOOLEAN
        /\ finds \subseteq Find /\ v2' = v2
    <2>1. v2' = v2
      BY DEF EntryNext, HostStep, EntryStep, NextEvent, CallSettles, ListSettles, HostChanges, HostSignal, ListServed,
             SessionRead, EventDropped, Deliver, CallResumes, DiscoveryRuns, ListReturns, ListFails, StopSettles,
             Dispose, entryVars, rvars
    <2>2. QED
      BY <2>1 DEF EntryInv, LifecycleInv, LifecycleTypeOK
  <1>2. CASE UNCHANGED <<known, missed, bus, entry>>
    BY <1>1, <1>2 DEF HeldInv
  <1>3. ASSUME NEW s \in Session, NEW state \in {"absent", "live", "archived", "internal"},
               NEW kind \in {"info", "notice", "moved"}, HostChanges(s, state, kind)
        PROVE  HeldInv'
    <2> DEFINE e == [session |-> s, state |-> state, kind |-> kind]
    <2>1. /\ bus' = Append(bus, e) /\ UNCHANGED <<known, missed, entry>>
          /\ kind = "notice" => v2 /\ state # "absent"
          /\ kind = "moved" => v2 /\ state = "absent"
      BY <1>3 DEF HostChanges
    <2>2. e \in Lifecycles /\ e.kind = kind /\ e.state = state
      BY DEF Lifecycles
    <2> HIDE DEF e
    <2>3. /\ Len(bus) \in Nat /\ DOMAIN bus = 1..Len(bus) /\ DOMAIN bus' = 1..(Len(bus) + 1)
          /\ bus'[Len(bus) + 1] = e /\ \A i \in 1..Len(bus) : bus'[i] = bus[i]
      BY <1>1, <2>1, <2>2, Appended
    <2>4. \A i \in DOMAIN bus' : bus'[i] = e \/ (i \in DOMAIN bus /\ bus'[i] = bus[i])
      BY <2>3
    <2>5. QED
      BY <1>1, <2>1, <2>2, <2>4 DEF HeldInv
  <1>4. ASSUME SessionRead
        PROVE  HeldInv'
    <2> DEFINE e == [Head(bus) EXCEPT !.state = host[Head(bus).session], !.kind = "info"]
    <2>1. /\ bus # <<>> /\ bus' = <<e>> \o Tail(bus) /\ UNCHANGED <<known, missed, entry>>
      BY <1>4 DEF SessionRead
    <2>2. /\ Len(bus) \in Nat \ {0} /\ DOMAIN bus = 1..Len(bus) /\ Head(bus) \in Lifecycles
          /\ Tail(bus) \in Seq(Lifecycles) /\ Len(Tail(bus)) = Len(bus) - 1
          /\ \A i \in 1..(Len(bus) - 1) : Tail(bus)[i] = bus[i + 1]
      BY <1>1, <2>1, HeadTailProperties
    <2>3. e.kind = "info"
      BY <2>2 DEF Lifecycles
    <2> HIDE DEF e
    <2>4. <<e>> \in Seq({e}) /\ Len(<<e>>) = 1 /\ <<e>>[1] = e
      OBVIOUS
    <2>5. \A i \in DOMAIN bus' : bus'[i].kind = "info" \/ (i \in DOMAIN bus /\ bus'[i] = bus[i])
      <3>1. /\ Len(bus') = 1 + Len(Tail(bus)) /\ DOMAIN bus' = 1..Len(bus')
            /\ \A i \in 1..(1 + Len(Tail(bus))) : bus'[i] = IF i <= 1 THEN <<e>>[i] ELSE Tail(bus)[i - 1]
        <4>1. /\ <<e>> \in Seq(Lifecycles \cup {e}) /\ Tail(bus) \in Seq(Lifecycles \cup {e})
          BY <2>2
        <4>2. QED
          BY <2>1, <2>4, <4>1, ConcatProperties
      <3>2. QED
        BY <2>2, <2>3, <2>4, <3>1
    <2>6. QED
      BY <1>1, <2>1, <2>5 DEF HeldInv
  <1>5. ASSUME bus # <<>>, bus' = Tail(bus)
        PROVE  \A i \in DOMAIN bus' : \E j \in DOMAIN bus : bus'[i] = bus[j]
    <2>1. /\ Len(bus) \in Nat \ {0} /\ DOMAIN bus = 1..Len(bus) /\ DOMAIN bus' = 1..(Len(bus) - 1)
          /\ \A i \in 1..(Len(bus) - 1) : bus'[i] = bus[i + 1]
      BY <1>1, <1>5, Tailed
    <2>2. QED
      BY <2>1
  <1>6. ASSUME EventDropped
        PROVE  HeldInv'
    <2>1. v2 /\ bus # <<>> /\ bus' = Tail(bus) /\ UNCHANGED <<known, entry>>
      BY <1>6 DEF EventDropped
    <2>2. QED
      BY <1>1, <1>5, <2>1 DEF HeldInv
  <1>7. ASSUME Deliver
        PROVE  HeldInv'
    <2>1. bus # <<>> /\ bus' = Tail(bus)
      BY <1>7 DEF Deliver
    <2>2. /\ 1 \in DOMAIN bus /\ Head(bus) = bus[1] /\ bus[1] \in Lifecycles
      BY <1>1, <2>1, HeadTailProperties
    <2>3. PICK s \in Session, state \in {"absent", "live", "archived", "internal"} :
            Head(bus).session = s /\ Head(bus).state = state
      BY <2>2 DEF Lifecycles
    <2>4. CASE UNCHANGED <<known, entry>> /\ (UNCHANGED missed \/ Head(bus).kind = "moved")
      BY <1>1, <1>5, <2>1, <2>2, <2>4 DEF HeldInv
    <2>5. CASE /\ Lifecycle(s, state) /\ known' = Holding(s, state)
               /\ missed' = IF Matters(s, state) THEN missed \ {s} ELSE missed
      <3>1. entry' = [entry EXCEPT ![s] = IF state = "live" THEN "main" ELSE "hidden"]
        BY <2>5 DEF Lifecycle
      <3>2. v2 => \A t \in Session : entry'[t] = "main" => t \in known'
        BY <1>1, <2>5, <3>1 DEF Holding, HeldInv
      <3>3. ~v2 => known' = {} /\ missed' = {}
        BY <1>1, <2>5 DEF Holding, HeldInv
      <3>4. QED
        BY <1>1, <1>5, <2>1, <3>2, <3>3 DEF HeldInv
    <2>6. QED
      BY <1>7, <2>3, <2>4, <2>5 DEF Deliver
  <1>8. ASSUME NEW s \in Session, NEW answer \in {"live", "archived", "internal", "unknown"}, CallResumes(s, answer)
        PROVE  HeldInv'
    <2>1. /\ known' = IF v2 /\ entry[s] = "absent" /\ answer # "unknown" THEN known \cup {s} ELSE known
          /\ entry' = [entry EXCEPT ![s] = IF entry[s] # "absent" \/ answer = "unknown" THEN entry[s]
                                           ELSE IF answer = "live" THEN "main" ELSE "hidden"]
          /\ UNCHANGED <<bus, missed>>
      BY <1>8 DEF CallResumes
    <2>2. QED
      BY <1>1, <2>1 DEF HeldInv
  <1>9. ASSUME NEW f \in finds, ListReturns(f)
        PROVE  HeldInv'
    <2>1. /\ known' = IF v2 THEN known \cup f.seen ELSE known
          /\ UNCHANGED <<bus, missed>>
          /\ \/ entry' = entry
             \/ entry' = [s \in Session |-> IF s \notin f.seen \/ entry[s] # "absent" THEN entry[s]
                                            ELSE IF s \in f.live THEN "main" ELSE "hidden"]
      BY <1>9 DEF ListReturns
    <2>2. QED
      BY <1>1, <2>1 DEF HeldInv
  <1>10. QED
    BY <1>2, <1>3, <1>4, <1>6, <1>7, <1>8, <1>9
       DEF EntryNext, HostStep, EntryStep, NextEvent, CallSettles, ListSettles, HostSignal, ListServed,
           DiscoveryRuns, ListFails, StopSettles, Dispose, entryVars, rvars

\* EntryInv and HeldInv hold as the plugin starts, and every step keeps them.
THEOREM EntryInductive ==
    /\ EntryInit => EntryInv /\ HeldInv
    /\ EntryInv /\ HeldInv /\ [EntryNext]_rvars => EntryInv' /\ HeldInv'
  <1>1. EntryInit => EntryInv /\ HeldInv
    BY EntryStarts, HeldStarts
  <1>2. ASSUME EntryInv, HeldInv, [EntryNext]_rvars
        PROVE  EntryInv'
    <2>1. CASE HostStep
      BY <1>2, <2>1, ChangeKeeps, SignalKeeps, ServingKeeps DEF HostStep
    <2>2. CASE EntryStep
      <3>1. CASE ListSettles
        BY <1>2, <3>1, ReturningKeeps, FailingKeeps DEF ListSettles
      <3>2. CASE CallSettles
        BY <1>2, <3>2, ResumingKeeps DEF CallSettles
      <3>3. CASE NextEvent
        BY <1>2, <3>3, DeliverKeeps, DroppedKeeps, ReadKeeps DEF NextEvent
      <3>4. QED
        BY <1>2, <2>2, <3>1, <3>2, <3>3, DiscoveryKeeps, StopSettlesKeeps, DisposeKeeps DEF EntryStep
    <2>3. QED
      BY <1>2, <2>1, <2>2, OthersKeep DEF EntryNext
  <1>3. QED
    BY <1>1, <1>2, HeldKeeps

\* The inductive invariant of the entry and its channel holds in every state.
THEOREM EntryInvariant == EntrySpec => [](EntryInv /\ HeldInv)
  BY EntryInductive, PTL DEF EntrySpec

\* EntryTypeOK: every variable keeps its type and at most one discovery is current.
THEOREM EntryTypes == EntrySpec => []EntryTypeOK
  <1>1. EntryInv /\ HeldInv => EntryTypeOK
    <2>1. SUFFICES ASSUME EntryInv, HeldInv
                   PROVE  EntryTypeOK
      OBVIOUS
    <2>2. /\ entry \in [Session -> {"absent", "main", "hidden"}]
          /\ finds \subseteq Find /\ (stopping => ~started)
          /\ known \cup missed \subseteq Session /\ (~v2 => known \cup missed = {})
          /\ probes \in [fresh : 0..1, stale : 0..MaxStale]
          /\ alive \in 0..1 /\ closing \in 0..MaxStale
          /\ timer => running /\ socket = "none" /\ probes.fresh = 0
      BY <2>1 DEF EntryInv, LifecycleInv, LifecycleTypeOK, StartedInv, ChannelInv, ChannelTypeOK, SocketInv, HeldInv
    <2>3. Cardinality({f \in finds : f.current}) <= 1
      <3>1. CASE {f \in finds : f.current} = {}
        BY <3>1, FS_EmptySet
      <3>2. CASE {f \in finds : f.current} # {}
        <4>1. PICK f \in finds : f.current
          BY <3>2
        <4>2. {g \in finds : g.current} = {f}
          BY <2>1, <4>1 DEF EntryInv, LifecycleInv, OneCurrent
        <4>3. Cardinality({f}) = 1
          BY FS_Singleton
        <4>4. QED
          BY <4>2, <4>3
      <3>3. QED
        BY <3>1, <3>2
    <2>4. upstream \in [Req -> [state : {"none", "running", "aborted", "done"}, map : 0..Cardinality(Req)]]
      <3>1. /\ upstream \in [Req -> [state : {"none", "running", "aborted", "done"}, map : Nat]]
            /\ \A r \in Req : upstream[r].map <= Cardinality(Begun)
        BY <2>1 DEF EntryInv, ChannelInv, TunnelInv, TunnelTypeOK, MapsInv
      <3>2. Begun \in SUBSET Req
        BY DEF Begun
      <3>3. /\ Cardinality(Begun) <= Cardinality(Req) /\ Cardinality(Begun) \in Nat
            /\ Cardinality(Req) \in Nat
        BY <3>2, ChannelAssumption, FS_Subset, FS_CardinalityType
      <3>4. \A r \in Req : upstream[r].map \in 0..Cardinality(Req)
        BY <3>1, <3>3
      <3>5. QED
        BY <3>1, <3>4
    <2>5. QED
      BY <2>2, <2>3, <2>4 DEF EntryTypeOK
  <1>2. QED
    BY <1>1, EntryInvariant, PTL

\* EntryFollowsSessions: once every event has been handled and nothing is under way,
\* the channel is started exactly if the directory has a session to be notified of, is
\* configured, or could not be listed; under OpenCode 2 but for sessions v2.ts told
\* nothing of.
THEOREM EntryUpToDate == EntrySpec => []EntryFollowsSessions
  <1>1. EntryInv => EntryFollowsSessions
    <2>1. SUFFICES ASSUME EntryInv, bus = <<>>, ~scheduled, ~stopping, ~disposed, \A f \in finds : ~f.current
                   PROVE  /\ started = wanted
                          /\ ToldLive => wanted
                          /\ wanted => LiveSession \/ kept \/ always \/ missed # {}
      BY DEF EntryFollowsSessions
    <2>2. started = wanted
      BY <2>1 DEF EntryInv, StartedInv, LifecycleInv, LifecycleTypeOK
    <2>3. DOMAIN bus = {}
      BY <2>1
    <2>4. \A s \in Session : ~LiveComing(s) /\ ~RemovalComing(s)
      BY <2>3 DEF LiveComing, RemovalComing
    <2>5. QED
      BY <2>1, <2>2, <2>4 DEF EntryInv, LifecycleInv, UpInv, DownInv, Holds, LiveSession, ToldLive
  <1>2. QED
    BY <1>1, EntryInvariant, PTL

\* DownMeansDown: a channel that was stopped, or that a probe has not brought back, has
\* no socket, no timer and no Web UI request but one sent after its tunnel's close.
THEOREM StoppedIsDown == EntrySpec => []DownMeansDown
  <1>1. EntryInv => DownMeansDown
    BY DEF EntryInv, StartedInv, ChannelInv, SocketInv, StoppedInv, DownMeansDown
  <1>2. QED
    BY <1>1, EntryInvariant, PTL
=============================================================================
