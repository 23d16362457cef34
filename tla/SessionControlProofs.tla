------------------------- MODULE SessionControlProofs -------------------------
(***************************************************************************)
(* Proofs about InteractionCommands composed with SessionControl, for any  *)
(* sets of requests and sessions, any size of the outcome cache and of a   *)
(* page, and any number of connections, queries, commands, prompts and     *)
(* catalogues.                                                             *)
(***************************************************************************)
EXTENDS SessionControl, FiniteSetTheorems, SequenceTheorems, TLAPS

-----------------------------------------------------------------------------
(* The inductive invariant: types *)

CommandStatus == {"accepted", "confirmed", "stale", "upstream_error", "result_unknown"}
Sent == [id : Nat \ {0}, request : Request]
Command == [conn : Nat, cmd : Nat \ {0}]
Outcome == [cmd : Nat \ {0}, told : Nat, status : CommandStatus]
Call == [conn : Nat, cmd : Nat \ {0}, live : BOOLEAN]
Collecting == [waiters : Seq(Nat \X Nat), read : SUBSET Lists, found : SUBSET Request]
PluginFrame ==
    [type : {"snapshot"}, query : Nat]
        \cup [type : {"command"}, cmd : Nat \ {0}]
        \cup [type : {"prompt"}, cmd : Nat, copy : Nat]
        \cup [type : {"catalog"}, request : Nat, ids : SUBSET Session]
GatewayFrame ==
    [type : {"snapshot"}, query : Nat, found : SUBSET Request]
        \cup [type : {"result"}, cmd : Nat \ {0}, status : CommandStatus \ {"accepted"}]
        \cup [type : {"prompt"}, cmd : Nat]
        \cup [type : {"catalog"}, request : Nat, status : {"ready", "error"}, found : SUBSET Session]

Budget ==
    [conns : Nat, queries : Nat, commands : Nat, asks : Nat, moves : Nat, prompts : Nat, catalogs : Nat, changes : Nat]

LinkTypeOK ==
    /\ conn \in Nat /\ plug \in Nat
    /\ toPlugin \in Seq(PluginFrame) /\ toGateway \in Seq(GatewayFrame)
    /\ left \in Budget

UnblockTypeOK ==
    /\ projected \subseteq Request /\ stale \subseteq Request
    /\ queries \subseteq Nat \X Nat /\ commands \subseteq Command
    /\ outcomes \in Seq(Outcome) /\ Len(outcomes) <= MaxOutcomes
    /\ collection \in Seq(Collecting) /\ calls \subseteq Call
    /\ pending \subseteq Request /\ resolvedBy \in [Request -> Int]
    /\ place \in [Request -> {"here", "away", "back"}]
    /\ sent \in Seq(Sent)

-----------------------------------------------------------------------------
(* The inductive invariant: commands *)

IsCommand(i) == toPlugin[i].type = "command"
IsResult(i) == toGateway[i].type = "result"

\* The plugin holds the command c, or a frame is bringing it.
Carried(c) == (\E x \in calls : x.cmd = c) \/ (\E i \in DOMAIN toPlugin : IsCommand(i) /\ toPlugin[i].cmd = c)

\* OpenCode has asked r: it waits, or something resolved it.
Seen(r) == r \in pending \/ resolvedBy[r] # None

\* What a status of c says of its request r.  An error says as well that c is over.
Truthful(c, r, status) ==
    /\ status = "confirmed" => resolvedBy[r] = c
    /\ status = "stale" => resolvedBy[r] \notin {None, c} \/ place[r] # "here"
    /\ status = "upstream_error" => resolvedBy[r] # c /\ ~Carried(c)

\* The gateway waits on the current connection only, once per request and per kind and
\* id; each id has one entry, and one that is open has a command in flight.
WaitingInv ==
    /\ conn = None => queries = {} /\ commands = {}
    /\ \A q \in queries : q[1] = conn
    /\ \A x, y \in commands :
         /\ x.conn = conn
         /\ \/ RequestOf(x.cmd) = RequestOf(y.cmd)
            \/ IdOf(x.cmd) = IdOf(y.cmd) /\ SameKind(RequestOf(x.cmd), RequestOf(y.cmd))
            => x = y
    /\ \A j, k \in DOMAIN outcomes : IdOf(outcomes[j].cmd) = IdOf(outcomes[k].cmd) => j = k
    /\ \A k \in DOMAIN outcomes :
         outcomes[k].status = "accepted" => \E x \in commands : IdOf(x.cmd) = IdOf(outcomes[k].cmd)

\* A settled entry whose id is in flight is of an id that was sent again.
BusyInv ==
    \A k \in DOMAIN outcomes : \A x \in commands :
        outcomes[k].status # "accepted" /\ IdOf(x.cmd) = IdOf(outcomes[k].cmd) => Repeated(IdOf(x.cmd))

\* A command is one that was sent, wherever it is named.
KnownInv ==
    /\ \A x \in commands \cup calls : x.cmd \in DOMAIN sent
    /\ \A k \in DOMAIN outcomes : outcomes[k].cmd \in DOMAIN sent /\ outcomes[k].told \in DOMAIN sent \cup {0}
    /\ \A i \in DOMAIN toPlugin : IsCommand(i) => toPlugin[i].cmd \in DOMAIN sent
    /\ \A i \in DOMAIN toGateway : IsResult(i) => toGateway[i].cmd \in DOMAIN sent
    /\ \A r \in Request : resolvedBy[r] \in {None, Local} \cup DOMAIN sent

\* A command is on its way to OpenCode once, for a request OpenCode has asked, and has
\* resolved nothing as long as it is.
CarrierInv ==
    /\ \A x, y \in calls : x.cmd = y.cmd => x = y
    /\ \A i, j \in DOMAIN toPlugin : IsCommand(i) /\ IsCommand(j) /\ toPlugin[i].cmd = toPlugin[j].cmd => i = j
    /\ \A x \in calls : \A i \in DOMAIN toPlugin : IsCommand(i) => toPlugin[i].cmd # x.cmd
    /\ \A r \in Request : ~Carried(resolvedBy[r])
    /\ \A x \in calls : Seen(RequestOf(x.cmd))
    /\ \A i \in DOMAIN toPlugin : IsCommand(i) => Seen(RequestOf(toPlugin[i].cmd))

\* Only what OpenCode asked is projected or found.
AskedInv ==
    /\ \A r \in pending : resolvedBy[r] = None
    /\ \A r \in projected : Seen(r)
    /\ collection # <<>> => \A r \in collection[1].found : Seen(r)
    /\ \A i \in DOMAIN toGateway : toGateway[i].type = "snapshot" => \A r \in toGateway[i].found : Seen(r)

\* Outcomes, and the results that may settle one, say what happened.
TruthInv ==
    /\ \A k \in DOMAIN outcomes :
         LET o == outcomes[k]
         IN  /\ o.told = 0 => o.status \in {"accepted", "result_unknown"}
             /\ o.told # 0 => IdOf(o.told) = IdOf(o.cmd) /\ Truthful(o.told, RequestOf(o.told), o.status)
    /\ \A i \in DOMAIN toGateway :
         IsResult(i) => Truthful(toGateway[i].cmd, RequestOf(toGateway[i].cmd), toGateway[i].status)

InteractionInv ==
    LinkTypeOK /\ UnblockTypeOK /\ WaitingInv /\ BusyInv /\ KnownInv /\ CarrierInv /\ AskedInv /\ TruthInv

-----------------------------------------------------------------------------
(* The inductive invariant: prompts and catalogues *)

Listing == [conn : Nat, request : Nat, listed : BOOLEAN, found : SUBSET Session, ids : SUBSET Session]

CatalogTypeOK ==
    /\ prompts \subseteq Nat \X Nat
    /\ promptCalls \subseteq [conn : Nat, cmd : Nat, copy : Nat, live : BOOLEAN]
    /\ catalogs \subseteq Nat \X Nat /\ listings \subseteq Listing
    /\ sessions \in [Session -> {"none", "listable", "archived"}]
    /\ asked \in [1..MaxCatalogs -> [bookmarks : SUBSET Session, since : SUBSET Session, throughout : SUBSET Session]]
    /\ answered \in [1..MaxCatalogs -> [status : {"none", "ready", "error", "timeout", "not_found"},
                                        found : SUBSET Session]]

Listable == {s \in Session : sessions[s] = "listable"}
Waited(k) == \E q \in catalogs : q[2] = k

\* While a catalogue is waited for, its history brackets what is listable.
HistoryInv ==
    /\ \A q \in catalogs : q[2] > left.catalogs
    /\ \A k \in DOMAIN asked : Waited(k) => asked[k].throughout \subseteq Listable /\ Listable \subseteq asked[k].since

\* All bookmarks of the request are looked at.
Small(k) == Cardinality(asked[k].bookmarks) <= MaxBookmarks

\* These are the bookmarks the request asked for.
AsAsked(k, ids) == k \in DOMAIN asked /\ Waited(k) => ids = asked[k].bookmarks

\* What is found so far, and the bookmarks still to look up, answer for the request.
Complete(k, found, ids) ==
    k \in DOMAIN asked /\ Waited(k) =>
        /\ found \subseteq asked[k].since
        /\ Small(k) => asked[k].bookmarks \cap asked[k].throughout \subseteq found \cup ids

\* A request's frame, listing and response, wherever it is, are complete for it.
ListingInv ==
    /\ \A i \in DOMAIN toPlugin : toPlugin[i].type = "catalog" =>
         toPlugin[i].request > left.catalogs /\ AsAsked(toPlugin[i].request, toPlugin[i].ids)
    /\ \A x \in listings : /\ x.request > left.catalogs /\ Complete(x.request, x.found, x.ids)
                           /\ ~x.listed => x.found = {}
    /\ \A i \in DOMAIN toGateway : toGateway[i].type = "catalog" =>
         /\ toGateway[i].request > left.catalogs
         /\ toGateway[i].status = "ready" => Complete(toGateway[i].request, toGateway[i].found, {})

\* What was returned stays true, and no request to come has a return.
ReturnedInv ==
    \A k \in DOMAIN answered : answered[k].status = "ready" =>
        /\ k > left.catalogs
        /\ answered[k].found \subseteq asked[k].since
        /\ Small(k) => asked[k].bookmarks \cap asked[k].throughout \subseteq answered[k].found

CatalogInv == CatalogTypeOK /\ HistoryInv /\ ListingInv /\ ReturnedInv

ControlInv == InteractionInv /\ CatalogInv

-----------------------------------------------------------------------------
(* Sequences *)

\* An element more, at the end.
LEMMA Appended ==
    ASSUME NEW S, NEW s \in Seq(S), NEW x \in S, NEW t, t = Append(s, x)
    PROVE  /\ t \in Seq(S) /\ Len(s) \in Nat /\ Len(t) = Len(s) + 1
           /\ DOMAIN s = 1..Len(s) /\ DOMAIN t = 1..(Len(s) + 1)
           /\ t[Len(s) + 1] = x /\ \A i \in 1..Len(s) : t[i] = s[i]
  BY AppendProperties

\* An element less, at the head.
LEMMA Tailed ==
    ASSUME NEW S, NEW s \in Seq(S), s # <<>>, NEW t, t = Tail(s)
    PROVE  /\ t \in Seq(S) /\ Len(s) \in Nat \ {0} /\ Len(t) = Len(s) - 1
           /\ DOMAIN s = 1..Len(s) /\ DOMAIN t = 1..(Len(s) - 1)
           /\ Head(s) = s[1] /\ s[1] \in S /\ \A i \in 1..(Len(s) - 1) : t[i] = s[i + 1]
  BY HeadTailProperties

\* Two sequences, one behind the other.
LEMMA Joined ==
    ASSUME NEW S, NEW s \in Seq(S), NEW t \in Seq(S), NEW u, u = s \o t
    PROVE  /\ u \in Seq(S)
           /\ \A i \in DOMAIN u : \/ i \in DOMAIN s /\ u[i] = s[i]
                                  \/ \E j \in DOMAIN t : u[i] = t[j]
  <1>1. u \in Seq(S) /\ Len(u) = Len(s) + Len(t)
    BY ConcatProperties
  <1>2. /\ DOMAIN u = 1..Len(u) /\ DOMAIN s = 1..Len(s) /\ DOMAIN t = 1..Len(t)
        /\ Len(s) \in Nat /\ Len(t) \in Nat
    BY <1>1
  <1>3. ASSUME NEW i \in DOMAIN u
        PROVE  \/ i \in DOMAIN s /\ u[i] = s[i]
               \/ \E j \in DOMAIN t : u[i] = t[j]
    <2>1. CASE i <= Len(s)
      BY <1>2, <1>3, <2>1
    <2>2. CASE ~(i <= Len(s))
      <3>1. i - Len(s) \in DOMAIN t /\ u[i] = t[i - Len(s)]
        BY <1>1, <1>2, <1>3, <2>2
      <3>2. QED
        BY <3>1
    <2>3. QED
      BY <2>1, <2>2
  <1>4. QED
    BY <1>1, <1>3

\* An element less, at k.
LEMMA Removed ==
    ASSUME NEW S, NEW s \in Seq(S), NEW k \in DOMAIN s, NEW t, t = RemoveAt(s, k)
    PROVE  /\ t \in Seq(S) /\ Len(s) \in Nat /\ Len(t) = Len(s) - 1
           /\ DOMAIN s = 1..Len(s) /\ DOMAIN t = 1..(Len(s) - 1)
           /\ \A i \in DOMAIN t : t[i] = IF i < k THEN s[i] ELSE s[i + 1]
  <1> DEFINE a == SubSeq(s, 1, k - 1)
             b == SubSeq(s, k + 1, Len(s))
  <1>1. DOMAIN s = 1..Len(s) /\ Len(s) \in Nat /\ k \in 1..Len(s)
    OBVIOUS
  <1>2. /\ a \in Seq(S) /\ Len(a) = k - 1 /\ \A i \in 1..(k - 1) : a[i] = s[i]
        /\ b \in Seq(S) /\ Len(b) = Len(s) - k /\ \A i \in 1..(Len(s) - k) : b[i] = s[k + i]
    BY <1>1
  <1> HIDE DEF a, b
  <1>3. t = a \o b
    BY DEF RemoveAt, a, b
  <1>4. t \in Seq(S) /\ Len(t) = Len(s) - 1
    <2>1. t \in Seq(S) /\ Len(t) = Len(a) + Len(b)
      BY <1>2, <1>3, ConcatProperties
    <2>2. QED
      BY <1>1, <1>2, <2>1
  <1>5. ASSUME NEW i \in 1..(Len(s) - 1)
        PROVE  t[i] = IF i < k THEN s[i] ELSE s[i + 1]
    <2>1. CASE i < k
      BY <1>1, <1>2, <1>3, <1>5, <2>1
    <2>2. CASE ~(i < k)
      <3>1. t[i] = b[i - (k - 1)]
        BY <1>1, <1>2, <1>3, <1>5, <2>2
      <3>2. i - (k - 1) \in 1..(Len(s) - k) /\ k + (i - (k - 1)) = i + 1
        BY <1>1, <1>5, <2>2
      <3>3. QED
        BY <1>2, <2>2, <3>1, <3>2
    <2>3. QED
      BY <2>1, <2>2
  <1>6. DOMAIN t = 1..(Len(s) - 1)
    BY <1>4
  <1>7. QED
    BY <1>1, <1>4, <1>5, <1>6

-----------------------------------------------------------------------------
(* Commands, wherever they are *)

\* Only a carried command resolves a request that waits, and what is resolved stays so;
\* no command comes to be carried.
WorldMoves ==
    /\ \A r \in Request :
         \/ resolvedBy'[r] = resolvedBy[r]
         \/ resolvedBy[r] = None /\ (resolvedBy'[r] = Local \/ Carried(resolvedBy'[r]))
    /\ \A r \in Request : Seen(r) => Seen(r)'
    /\ \A r \in Request : place[r] # "here" => place'[r] # "here"
    /\ \A c \in Nat \ {0} : Carried(c)' => Carried(c)
    /\ sent' = sent

\* What a status says stays true.
LEMMA TruthStays ==
    ASSUME WorldMoves, NEW c \in Nat \ {0}, NEW r \in Request, NEW status, Truthful(c, r, status)
    PROVE  Truthful(c, r, status)'
  <1>1. status = "confirmed" => resolvedBy'[r] = c
    BY DEF WorldMoves, Truthful, None
  <1>2. status = "stale" => resolvedBy'[r] \notin {None, c} \/ place'[r] # "here"
    BY DEF WorldMoves, Truthful, None
  <1>3. status = "upstream_error" => resolvedBy'[r] # c /\ ~Carried(c)'
    BY DEF WorldMoves, Truthful, Local
  <1>4. QED
    BY <1>1, <1>2, <1>3 DEF Truthful

\* What the number of a command stands for.
LEMMA SentAre ==
    ASSUME UnblockTypeOK
    PROVE  /\ DOMAIN sent = 1..Len(sent) /\ Len(sent) \in Nat
           /\ \A n \in DOMAIN sent : n \in Nat \ {0} /\ IdOf(n) \in Nat \ {0} /\ RequestOf(n) \in Request
  <1>1. sent \in Seq(Sent)
    BY DEF UnblockTypeOK
  <1>2. \A n \in DOMAIN sent : sent[n] \in Sent
    BY <1>1
  <1>3. QED
    BY <1>1, <1>2 DEF IdOf, RequestOf, Sent

\* The commands in flight are all carried, and no others are.
LEMMA CarriedAre ==
    ASSUME LinkTypeOK, UnblockTypeOK
    PROVE  /\ \A x \in calls : Carried(x.cmd) /\ x.cmd \in Nat \ {0}
           /\ \A i \in DOMAIN toPlugin : IsCommand(i) => /\ Carried(toPlugin[i].cmd)
                                                         /\ toPlugin[i].cmd \in Nat \ {0}
           /\ \A c : Carried(c) => c \in Nat \ {0}
  <1>1. \A i \in DOMAIN toPlugin : toPlugin[i] \in PluginFrame
    BY DEF LinkTypeOK
  <1>2. \A f \in PluginFrame : f.type = "command" => f.cmd \in Nat \ {0}
    BY DEF PluginFrame
  <1>3. \A x \in calls : x.cmd \in Nat \ {0}
    BY DEF UnblockTypeOK, Call
  <1>4. QED
    BY <1>1, <1>2, <1>3 DEF Carried, IsCommand

\* The frames to the plugin keep their order; one that comes is no command.
PluginHears ==
    \E n \in {0, 1} : \A i \in DOMAIN toPlugin' :
        \/ i + n \in DOMAIN toPlugin /\ toPlugin'[i] = toPlugin[i + n]
        \/ ~IsCommand(i)'

\* Commands stay on their way or are over.
LEMMA CarriersShrink ==
    ASSUME LinkTypeOK, UnblockTypeOK, KnownInv, CarrierInv, PluginHears, LinkTypeOK', UnblockTypeOK', sent' = sent,
           \A x \in calls' : \E y \in calls : x.cmd = y.cmd,
           \A x, y \in calls' : x.cmd = y.cmd => x = y,
           \A r \in Request : \/ resolvedBy'[r] = resolvedBy[r]
                              \/ resolvedBy'[r] \in {None, Local}
                              \/ ~Carried(resolvedBy[r])',
           \A r \in Request : Seen(r) => Seen(r)'
    PROVE  /\ CarrierInv'
           /\ \A c \in Nat \ {0} : Carried(c)' => Carried(c)
  <1>1. PICK n \in {0, 1} : \A i \in DOMAIN toPlugin' :
          \/ i + n \in DOMAIN toPlugin /\ toPlugin'[i] = toPlugin[i + n]
          \/ ~IsCommand(i)'
    BY DEF PluginHears
  <1>2. \A i \in DOMAIN toPlugin' : IsCommand(i)' =>
          i + n \in DOMAIN toPlugin /\ toPlugin'[i] = toPlugin[i + n] /\ IsCommand(i + n)
    BY <1>1 DEF IsCommand
  <1>3. \A c : Carried(c)' => Carried(c)
    BY <1>2 DEF Carried
  <1>4. \A i \in DOMAIN toPlugin' : i \in Nat
    <2>1. toPlugin' \in Seq(PluginFrame)
      BY DEF LinkTypeOK
    <2>2. QED
      BY <2>1
  <1>5. \A i, j \in DOMAIN toPlugin' : IsCommand(i)' /\ IsCommand(j)' /\ toPlugin'[i].cmd = toPlugin'[j].cmd => i = j
    BY <1>2, <1>4 DEF CarrierInv
  <1>6. \A x \in calls' : \A i \in DOMAIN toPlugin' : IsCommand(i)' => toPlugin'[i].cmd # x.cmd
    BY <1>2 DEF CarrierInv
  <1>7. \A r \in Request : ~Carried(resolvedBy[r])'
    <2>1. SUFFICES ASSUME NEW r \in Request, NEW c, c = resolvedBy'[r], Carried(c)'
                   PROVE  FALSE
      BY DEF Carried, IsCommand
    <2>2. Carried(c) /\ c \in Nat \ {0}
      BY <1>3, <2>1, CarriedAre
    <2>3. resolvedBy'[r] # resolvedBy[r]
      BY <2>1, <2>2 DEF CarrierInv
    <2>4. Carried(resolvedBy[r])'
      BY <2>1 DEF Carried, IsCommand
    <2>5. QED
      BY <2>1, <2>2, <2>3, <2>4 DEF None, Local
  <1>8. /\ \A x \in calls' : Seen(RequestOf(x.cmd))'
        /\ \A i \in DOMAIN toPlugin' : IsCommand(i)' => Seen(RequestOf(toPlugin[i].cmd))'
    <2>1. \A c \in DOMAIN sent : Seen(RequestOf(c)) => Seen(RequestOf(c))'
      BY SentAre DEF Seen, RequestOf
    <2>2. \A x \in calls : x.cmd \in DOMAIN sent /\ Seen(RequestOf(x.cmd))
      BY DEF KnownInv, CarrierInv
    <2>3. \A i \in DOMAIN toPlugin : IsCommand(i) => toPlugin[i].cmd \in DOMAIN sent /\ Seen(RequestOf(toPlugin[i].cmd))
      BY DEF KnownInv, CarrierInv
    <2>4. \A x \in calls' : Seen(RequestOf(x.cmd))'
      BY <2>1, <2>2 DEF Seen, RequestOf
    <2>5. \A i \in DOMAIN toPlugin' : IsCommand(i)' => Seen(RequestOf(toPlugin[i].cmd))'
      BY <1>2, <2>1, <2>3 DEF Seen, RequestOf
    <2>6. QED
      BY <2>4, <2>5
  <1>9. QED
    BY <1>3, <1>5, <1>6, <1>7, <1>8 DEF CarrierInv

\* What a step may do to the outcomes: an entry was there before, and has its status,
\* none, or one that is true of a command with its id.
OutcomesMove ==
    \A k \in DOMAIN outcomes' : \E j \in DOMAIN outcomes :
        /\ outcomes'[k].cmd = outcomes[j].cmd
        /\ \/ outcomes'[k].status = outcomes[j].status /\ outcomes'[k].told = outcomes[j].told
           \/ outcomes'[k].status = "result_unknown" /\ outcomes'[k].told = 0
           \/ \E c \in DOMAIN sent :
                /\ outcomes'[k].told = c /\ IdOf(c) = IdOf(outcomes[j].cmd)
                /\ Truthful(c, RequestOf(c), outcomes'[k].status)

\* A result says what is true.
Right(f) ==
    f.type = "result" =>
        f.cmd \in DOMAIN sent /\ \A r \in Request : r = RequestOf(f.cmd) => Truthful(f.cmd, r, f.status)'

\* So does every one that comes.
ResultsMove ==
    \A i \in DOMAIN toGateway' : (\E j \in DOMAIN toGateway : toGateway'[i] = toGateway[j]) \/ \E f : f = toGateway'[i] /\ Right(f)

\* With its own parts kept, a step keeps what statuses say and which commands there are.
LEMMA RestKeeps ==
    ASSUME InteractionInv, WorldMoves, OutcomesMove, ResultsMove,
           LinkTypeOK', UnblockTypeOK', WaitingInv', BusyInv', CarrierInv', AskedInv', commands' \subseteq commands
    PROVE  InteractionInv'
  <1>1. /\ LinkTypeOK /\ UnblockTypeOK /\ KnownInv /\ TruthInv /\ sent' = sent
        /\ \A c \in Nat \ {0} : Carried(c)' => Carried(c)
    BY DEF InteractionInv, WorldMoves
  <1>2. /\ \A k \in DOMAIN outcomes' : outcomes'[k] \in Outcome
        /\ \A i \in DOMAIN toPlugin' : toPlugin'[i] \in PluginFrame
        /\ \A x \in calls' : x \in Call
    <2>1. /\ toPlugin' \in Seq(PluginFrame) /\ outcomes' \in Seq(Outcome) /\ calls' \subseteq Call
      BY DEF LinkTypeOK, UnblockTypeOK
    <2>2. QED
      BY <2>1
  <1>3. /\ \A f \in PluginFrame : f.type = "command" => f.cmd \in Nat \ {0}
        /\ \A x \in Call : x.cmd \in Nat \ {0}
    BY DEF PluginFrame, Call
  <1>4. \A c \in Nat \ {0} : Carried(c) => c \in DOMAIN sent
    BY <1>1 DEF Carried, KnownInv
  <1>5. /\ \A n \in DOMAIN sent : n \in Nat \ {0} /\ RequestOf(n) \in Request
        /\ \A n : IdOf(n)' = IdOf(n) /\ RequestOf(n)' = RequestOf(n)
    BY <1>1, SentAre DEF IdOf, RequestOf
  <1>6. ASSUME NEW c \in DOMAIN sent, NEW status, Truthful(c, RequestOf(c), status)
        PROVE  Truthful(c, RequestOf(c), status)'
    <2>1. PICK r \in Request : r = RequestOf(c) /\ c \in Nat \ {0}
      BY <1>5
    <2>2. Truthful(c, r, status)'
      BY <1>6, <2>1, TruthStays
    <2>3. QED
      BY <1>5, <2>1, <2>2 DEF Truthful
  <1>7. KnownInv'
    <2>1. \A x \in commands' \cup calls' : x.cmd \in DOMAIN sent
      BY <1>1, <1>2, <1>3, <1>4 DEF KnownInv, Carried
    <2>2. \A k \in DOMAIN outcomes' : outcomes'[k].cmd \in DOMAIN sent /\ outcomes'[k].told \in DOMAIN sent \cup {0}
      BY <1>1 DEF KnownInv, OutcomesMove
    <2>3. \A i \in DOMAIN toPlugin' : IsCommand(i)' => toPlugin'[i].cmd \in DOMAIN sent
      BY <1>1, <1>2, <1>3, <1>4 DEF Carried, IsCommand
    <2>4. \A i \in DOMAIN toGateway' : IsResult(i)' => toGateway'[i].cmd \in DOMAIN sent
      BY <1>1 DEF KnownInv, ResultsMove, Right, IsResult
    <2>5. \A r \in Request : resolvedBy'[r] \in {None, Local} \cup DOMAIN sent
      <3>1. \A c : Carried(c) => c \in Nat \ {0}
        BY <1>1, CarriedAre
      <3>2. QED
        BY <1>1, <1>4, <3>1 DEF KnownInv, WorldMoves
    <2>6. QED
      BY <1>1, <2>1, <2>2, <2>3, <2>4, <2>5 DEF KnownInv
  <1>8. ASSUME NEW k \in DOMAIN outcomes', NEW o, o = outcomes'[k]
        PROVE  /\ o.told = 0 => o.status \in {"accepted", "result_unknown"}
               /\ o.told # 0 => IdOf(o.told)' = IdOf(o.cmd)' /\ Truthful(o.told, RequestOf(o.told), o.status)'
    <2>2. PICK j \in DOMAIN outcomes :
            /\ o.cmd = outcomes[j].cmd
            /\ \/ o.status = outcomes[j].status /\ o.told = outcomes[j].told
               \/ o.status = "result_unknown" /\ o.told = 0
               \/ \E c \in DOMAIN sent : /\ o.told = c /\ IdOf(c) = IdOf(outcomes[j].cmd)
                                         /\ Truthful(c, RequestOf(c), o.status)
      BY <1>8 DEF OutcomesMove
    <2>3. /\ outcomes[j].told \in DOMAIN sent \cup {0}
          /\ outcomes[j].told = 0 => outcomes[j].status \in {"accepted", "result_unknown"}
          /\ outcomes[j].told # 0 => /\ IdOf(outcomes[j].told) = IdOf(outcomes[j].cmd)
                                     /\ Truthful(outcomes[j].told, RequestOf(outcomes[j].told), outcomes[j].status)
      BY <1>1 DEF TruthInv, KnownInv
    <2>4. /\ o.told = 0 => o.status \in {"accepted", "result_unknown"}
          /\ o.told # 0 => /\ o.told \in DOMAIN sent /\ IdOf(o.told) = IdOf(o.cmd)
                           /\ Truthful(o.told, RequestOf(o.told), o.status)
      BY <1>5, <2>2, <2>3
    <2>5. o.told # 0 => Truthful(o.told, RequestOf(o.told), o.status)'
      BY <1>6, <2>4
    <2>6. QED
      BY <1>5, <2>4, <2>5
  <1>9. ASSUME NEW i \in DOMAIN toGateway', NEW f, f = toGateway'[i], f.type = "result"
        PROVE  Truthful(f.cmd, RequestOf(f.cmd), f.status)'
    <2>1. CASE \E j \in DOMAIN toGateway : f = toGateway[j]
      <3>1. f.cmd \in DOMAIN sent /\ Truthful(f.cmd, RequestOf(f.cmd), f.status)
        BY <1>1, <1>9, <2>1 DEF KnownInv, TruthInv, IsResult
      <3>2. QED
        BY <1>6, <3>1
    <2>2. CASE Right(f)
      <3>1. f.cmd \in DOMAIN sent /\ \A r \in Request : r = RequestOf(f.cmd) => Truthful(f.cmd, r, f.status)'
        BY <1>9, <2>2 DEF Right
      <3>2. QED
        BY <1>5, <3>1 DEF Truthful
    <2>3. QED
      BY <1>9, <2>1, <2>2 DEF ResultsMove
  <1>10. TruthInv'
    BY <1>8, <1>9 DEF TruthInv, IsResult, Truthful, RequestOf, IdOf, Carried, IsCommand
  <1>11. QED
    BY <1>7, <1>10 DEF InteractionInv

-----------------------------------------------------------------------------
(* Frames *)

\* What reaches the plugin when frames are lost or one is handled, or one is sent that
\* is no command.
LEMMA ToPlugin ==
    ASSUME LinkTypeOK
    PROVE  /\ toPlugin' = toPlugin \/ toPlugin' = <<>> \/ (toPlugin # <<>> /\ toPlugin' = Tail(toPlugin)) =>
                /\ toPlugin' \in Seq(PluginFrame) /\ PluginHears
                /\ \A i \in DOMAIN toPlugin' : \E j \in DOMAIN toPlugin : toPlugin'[i] = toPlugin[j]
           /\ \A f \in PluginFrame : f.type # "command" /\ toPlugin' = Append(toPlugin, f) =>
                /\ toPlugin' \in Seq(PluginFrame) /\ PluginHears
                /\ \A i \in DOMAIN toPlugin' : \/ toPlugin'[i] = f
                                               \/ \E j \in DOMAIN toPlugin : toPlugin'[i] = toPlugin[j]
  <1>1. toPlugin \in Seq(PluginFrame)
    BY DEF LinkTypeOK
  <1>2. CASE toPlugin' = toPlugin
    <2>1. \A i \in DOMAIN toPlugin' : i + 0 \in DOMAIN toPlugin /\ toPlugin'[i] = toPlugin[i + 0]
      BY <1>1, <1>2
    <2>2. QED
      BY <1>1, <1>2, <2>1, AppendProperties DEF PluginHears
  <1>3. ASSUME toPlugin' = <<>>
        PROVE  /\ toPlugin' \in Seq(PluginFrame) /\ PluginHears
               /\ \A i \in DOMAIN toPlugin' : \E j \in DOMAIN toPlugin : toPlugin'[i] = toPlugin[j]
    <2>1. toPlugin' \in Seq(PluginFrame) /\ DOMAIN toPlugin' = {}
      BY <1>3
    <2>2. QED
      BY <2>1 DEF PluginHears
  <1>4. ASSUME toPlugin # <<>>, toPlugin' = Tail(toPlugin)
        PROVE  /\ toPlugin' \in Seq(PluginFrame) /\ PluginHears
               /\ \A i \in DOMAIN toPlugin' : \E j \in DOMAIN toPlugin : toPlugin'[i] = toPlugin[j]
    <2>1. /\ toPlugin' \in Seq(PluginFrame) /\ Len(toPlugin) \in Nat \ {0}
          /\ DOMAIN toPlugin = 1..Len(toPlugin) /\ DOMAIN toPlugin' = 1..(Len(toPlugin) - 1)
          /\ \A i \in 1..(Len(toPlugin) - 1) : toPlugin'[i] = toPlugin[i + 1]
      BY <1>1, <1>4, Tailed
    <2>2. \A i \in DOMAIN toPlugin' : i + 1 \in DOMAIN toPlugin /\ toPlugin'[i] = toPlugin[i + 1]
      BY <2>1
    <2>3. QED
      BY <2>1, <2>2 DEF PluginHears
  <1>5. ASSUME NEW f \in PluginFrame, f.type # "command", toPlugin' = Append(toPlugin, f)
        PROVE  /\ toPlugin' \in Seq(PluginFrame) /\ PluginHears
               /\ \A i \in DOMAIN toPlugin' : \/ toPlugin'[i] = f
                                              \/ \E j \in DOMAIN toPlugin : toPlugin'[i] = toPlugin[j]
    <2>1. /\ toPlugin' \in Seq(PluginFrame) /\ Len(toPlugin) \in Nat
          /\ DOMAIN toPlugin = 1..Len(toPlugin) /\ DOMAIN toPlugin' = 1..(Len(toPlugin) + 1)
          /\ toPlugin'[Len(toPlugin) + 1] = f /\ \A i \in 1..Len(toPlugin) : toPlugin'[i] = toPlugin[i]
      BY <1>1, <1>5, Appended
    <2>2. \A i \in DOMAIN toPlugin' : \/ i + 0 \in DOMAIN toPlugin /\ toPlugin'[i] = toPlugin[i + 0]
                                      \/ toPlugin'[i] = f
      BY <2>1
    <2>3. \A i \in DOMAIN toPlugin' : i + 0 = i
      BY <2>1
    <2>4. QED
      BY <1>5, <2>1, <2>2, <2>3 DEF PluginHears, IsCommand
  <1>6. QED
    BY <1>2, <1>3, <1>4, <1>5

\* Nothing reaches the gateway but what was on its way and the frames N.
GatewayHears(N) ==
    /\ toGateway' \in Seq(GatewayFrame)
    /\ \A i \in DOMAIN toGateway' : \/ toGateway'[i] \in N
                                    \/ \E j \in DOMAIN toGateway : toGateway'[i] = toGateway[j]

\* What reaches the gateway when frames are lost, one is handled, or the plugin replies.
LEMMA ToGateway ==
    ASSUME LinkTypeOK
    PROVE  /\ toGateway' = toGateway \/ toGateway' = <<>> \/ (toGateway # <<>> /\ toGateway' = Tail(toGateway)) =>
                GatewayHears({})
           /\ \A n, frames : frames \in Seq(GatewayFrame) /\ Reply(n, frames) =>
                GatewayHears({frames[k] : k \in DOMAIN frames})
           /\ \A n, f : f \in GatewayFrame /\ Reply(n, <<f>>) => GatewayHears({f})
  <1>1. toGateway \in Seq(GatewayFrame)
    BY DEF LinkTypeOK
  <1>2. \A N : toGateway' = toGateway => GatewayHears(N)
    BY <1>1 DEF GatewayHears
  <1>3. toGateway' = <<>> => GatewayHears({})
    <2>1. SUFFICES ASSUME toGateway' = <<>>
                   PROVE  toGateway' \in Seq(GatewayFrame) /\ DOMAIN toGateway' = {}
      BY DEF GatewayHears
    <2>2. QED
      BY <2>1
  <1>4. toGateway # <<>> /\ toGateway' = Tail(toGateway) => GatewayHears({})
    <2>1. SUFFICES ASSUME toGateway # <<>>, toGateway' = Tail(toGateway)
                   PROVE  GatewayHears({})
      OBVIOUS
    <2>2. /\ toGateway' \in Seq(GatewayFrame) /\ Len(toGateway) \in Nat \ {0}
          /\ DOMAIN toGateway = 1..Len(toGateway) /\ DOMAIN toGateway' = 1..(Len(toGateway) - 1)
          /\ \A i \in 1..(Len(toGateway) - 1) : toGateway'[i] = toGateway[i + 1]
      BY <1>1, <2>1, Tailed
    <2>3. \A i \in DOMAIN toGateway' : i + 1 \in DOMAIN toGateway /\ toGateway'[i] = toGateway[i + 1]
      BY <2>2
    <2>4. QED
      BY <2>2, <2>3 DEF GatewayHears
  <1>5. ASSUME NEW n, NEW frames, frames \in Seq(GatewayFrame), Reply(n, frames)
        PROVE  GatewayHears({frames[k] : k \in DOMAIN frames})
    <2>1. CASE toGateway' = toGateway
      BY <1>2, <2>1
    <2>2. CASE toGateway' = toGateway \o frames
      <3>1. /\ toGateway' \in Seq(GatewayFrame)
            /\ \A i \in DOMAIN toGateway' : \/ i \in DOMAIN toGateway /\ toGateway'[i] = toGateway[i]
                                            \/ \E j \in DOMAIN frames : toGateway'[i] = frames[j]
        BY <1>1, <1>5, <2>2, Joined
      <3>2. QED
        BY <3>1 DEF GatewayHears
    <2>3. QED
      BY <1>5, <2>1, <2>2 DEF Reply
  <1>6. ASSUME NEW n, NEW f, f \in GatewayFrame, Reply(n, <<f>>)
        PROVE  GatewayHears({f})
    <2>1. <<f>> \in Seq(GatewayFrame) /\ DOMAIN <<f>> = {1} /\ <<f>>[1] = f
      BY <1>6
    <2>2. {<<f>>[k] : k \in DOMAIN <<f>>} = {f}
      BY <2>1
    <2>3. GatewayHears({<<f>>[k] : k \in DOMAIN <<f>>})
      BY <1>5, <1>6, <2>1
    <2>4. QED
      BY <2>2, <2>3
  <1>7. QED
    BY <1>2, <1>3, <1>4, <1>5, <1>6

\* Nothing happens to what the gateway waits for.
LEMMA WaitingStays ==
    ASSUME WaitingInv, BusyInv, UNCHANGED <<commands, outcomes, sent>>,
           \A q \in queries' : q[1] = conn', conn' # conn => queries' = {} /\ commands = {},
           conn' = None => queries' = {}
    PROVE  WaitingInv' /\ BusyInv'
  <1>1. /\ \A n : IdOf(n)' = IdOf(n) /\ RequestOf(n)' = RequestOf(n)
        /\ \A c : Repeated(c)' <=> Repeated(c)
    BY DEF IdOf, RequestOf, Repeated
  <1>2. WaitingInv'
    BY <1>1 DEF WaitingInv
  <1>3. BusyInv'
    BY <1>1 DEF BusyInv
  <1>4. QED
    BY <1>2, <1>3

\* A step that the gateway takes no part in.
LEMMA PluginKeeps ==
    ASSUME InteractionInv, UNCHANGED gatewayVars, WorldMoves, LinkTypeOK', UnblockTypeOK', CarrierInv',
           NEW N, GatewayHears(N),
           \A f \in N : f.type = "snapshot" => \A r \in f.found : Seen(r)',
           \A f \in N : Right(f),
           \A r \in pending' : resolvedBy'[r] = None,
           collection' # <<>> => \A r \in collection'[1].found : Seen(r)'
    PROVE  InteractionInv'
  <1>1. /\ LinkTypeOK /\ UnblockTypeOK /\ WaitingInv /\ BusyInv /\ AskedInv /\ sent' = sent
        /\ UNCHANGED <<conn, projected, stale, queries, commands, outcomes>>
    BY DEF InteractionInv, gatewayVars, WorldMoves
  <1>2. WaitingInv' /\ BusyInv'
    BY <1>1, WaitingStays DEF WaitingInv
  <1>3. OutcomesMove
    BY <1>1 DEF OutcomesMove
  <1>4. ResultsMove
    BY <1>1 DEF GatewayHears, ResultsMove
  <1>5. AskedInv'
    <2>1. \A r \in projected' : Seen(r)'
      BY <1>1 DEF AskedInv, UnblockTypeOK, WorldMoves
    <2>2. \A i \in DOMAIN toGateway' : toGateway'[i].type = "snapshot" => \A r \in toGateway'[i].found : Seen(r)'
      <3>1. \A i \in DOMAIN toGateway : toGateway[i].type = "snapshot" => toGateway[i].found \subseteq Request
        <4>1. \A i \in DOMAIN toGateway : toGateway[i] \in GatewayFrame
          BY <1>1 DEF LinkTypeOK
        <4>2. \A f \in GatewayFrame : f.type = "snapshot" => f.found \subseteq Request
          BY DEF GatewayFrame
        <4>3. QED
          BY <4>1, <4>2
      <3>2. QED
        BY <1>1, <3>1 DEF AskedInv, WorldMoves, GatewayHears
    <2>3. QED
      BY <2>1, <2>2 DEF AskedInv
  <1>6. QED
    BY <1>1, <1>2, <1>3, <1>4, <1>5, RestKeeps

\* A step of the plugin or of OpenCode in which no command comes to be carried.
LEMMA PluginShrinks ==
    ASSUME InteractionInv, UNCHANGED gatewayVars, LinkTypeOK', UnblockTypeOK', sent' = sent,
           PluginHears, NEW N, GatewayHears(N),
           \A x \in calls' : \E y \in calls : x.cmd = y.cmd,
           \A x, y \in calls' : x.cmd = y.cmd => x = y,
           \A r \in Request :
             \/ resolvedBy'[r] = resolvedBy[r]
             \/ /\ resolvedBy[r] = None
                /\ \/ resolvedBy'[r] = Local
                   \/ Carried(resolvedBy'[r]) /\ ~Carried(resolvedBy[r])',
           \A r \in Request : Seen(r) => Seen(r)',
           \A r \in Request : place[r] # "here" => place'[r] # "here",
           \A f \in N : f.type = "snapshot" => \A r \in f.found : Seen(r)',
           \A f \in N : Right(f),
           \A r \in pending' : resolvedBy'[r] = None,
           collection' # <<>> => \A r \in collection'[1].found : Seen(r)'
    PROVE  InteractionInv'
  <1>1. LinkTypeOK /\ UnblockTypeOK /\ KnownInv /\ CarrierInv
    BY DEF InteractionInv
  <1>2. \A r \in Request : \/ resolvedBy'[r] = resolvedBy[r]
                           \/ resolvedBy'[r] \in {None, Local}
                           \/ ~Carried(resolvedBy[r])'
    OBVIOUS
  <1>3. CarrierInv' /\ \A c \in Nat \ {0} : Carried(c)' => Carried(c)
    BY <1>1, <1>2, CarriersShrink
  <1>4. WorldMoves
    BY <1>3 DEF WorldMoves
  <1>5. QED
    BY <1>3, <1>4, PluginKeeps

-----------------------------------------------------------------------------
(* The plugin's steps *)

\* What a frame and a call on the way carry.
LEMMA CallsAre ==
    ASSUME InteractionInv
    PROVE  \A x \in calls :
             /\ x \in Call /\ x.conn \in Nat /\ x.cmd \in Nat \ {0} /\ x.live \in BOOLEAN
             /\ x.cmd \in DOMAIN sent /\ RequestOf(x.cmd) \in Request
             /\ Seen(RequestOf(x.cmd)) /\ resolvedBy[RequestOf(x.cmd)] # x.cmd
             /\ Carried(x.cmd) /\ \A y \in calls : y.cmd = x.cmd => y = x
             /\ \A i \in DOMAIN toPlugin : IsCommand(i) => toPlugin[i].cmd # x.cmd
  <1>1. LinkTypeOK /\ UnblockTypeOK /\ KnownInv /\ CarrierInv
    BY DEF InteractionInv
  <1>2. \A x \in calls : x \in Call /\ x.conn \in Nat /\ x.cmd \in Nat \ {0} /\ x.live \in BOOLEAN
    BY <1>1 DEF UnblockTypeOK, Call
  <1>3. \A x \in calls : x.cmd \in DOMAIN sent /\ RequestOf(x.cmd) \in Request
    BY <1>1, SentAre DEF KnownInv
  <1>4. \A x \in calls : Carried(x.cmd)
    BY DEF Carried
  <1>5. \A x \in calls : resolvedBy[RequestOf(x.cmd)] # x.cmd
    BY <1>1, <1>3, <1>4 DEF CarrierInv
  <1>6. QED
    BY <1>1, <1>2, <1>3, <1>4, <1>5 DEF CarrierInv

\* The plugin's end of the connection is lost.
LEMMA DropKeeps ==
    ASSUME InteractionInv, Drop
    PROVE  InteractionInv'
  <1>1. LinkTypeOK /\ UnblockTypeOK /\ CarrierInv /\ AskedInv
    BY DEF InteractionInv
  <1>2. /\ UNCHANGED <<gatewayVars, toGateway, collection, calls, openCodeVars, left, sent>>
        /\ plug' = None /\ toPlugin' = <<>>
    BY DEF Drop
  <1>3. toPlugin' \in Seq(PluginFrame) /\ PluginHears /\ GatewayHears({})
    <2>1. toPlugin' \in Seq(PluginFrame) /\ PluginHears
      BY <1>1, <1>2, ToPlugin
    <2>2. GatewayHears({})
      BY <1>1, <1>2, ToGateway
    <2>3. QED
      BY <2>1, <2>2
  <1>4. LinkTypeOK'
    BY <1>1, <1>2, <1>3 DEF LinkTypeOK, None, GatewayHears, gatewayVars
  <1>5. UnblockTypeOK'
    BY <1>1, <1>2 DEF UnblockTypeOK, gatewayVars, openCodeVars
  <1>6. QED
    BY <1>1, <1>2, <1>3, <1>4, <1>5, PluginShrinks DEF openCodeVars, Seen, CarrierInv, AskedInv

\* The end of a call sends its result, or nothing.
LEMMA AnswerHeard ==
    ASSUME InteractionInv, NEW x \in calls, NEW status \in CommandStatus \ {"accepted"}, Answer(x, status)
    PROVE  /\ [type |-> "result", cmd |-> x.cmd, status |-> status] \in GatewayFrame
           /\ GatewayHears({[type |-> "result", cmd |-> x.cmd, status |-> status]})
  <1>1. LinkTypeOK
    BY DEF InteractionInv
  <1>2. [type |-> "result", cmd |-> x.cmd, status |-> status] \in GatewayFrame
    BY CallsAre DEF GatewayFrame
  <1>3. CASE UNCHANGED toGateway
    <2>1. GatewayHears({})
      BY <1>1, <1>3, ToGateway
    <2>2. QED
      BY <1>2, <2>1 DEF GatewayHears
  <1>4. CASE Reply(x.conn, <<[type |-> "result", cmd |-> x.cmd, status |-> status]>>)
    BY <1>1, <1>2, <1>4, ToGateway
  <1>5. QED
    BY <1>3, <1>4 DEF Answer

\* A call ends for the plugin, or for both, with a status that is true of what it did.
LEMMA CallKeeps ==
    ASSUME InteractionInv, UNCHANGED <<gatewayVars, toPlugin, plug, collection, left, sent, place>>,
           NEW x \in calls, NEW status \in CommandStatus \ {"accepted"}, Answer(x, status),
           calls' = calls \ {x} \/ calls' = (calls \ {x}) \cup {[x EXCEPT !.live = FALSE]},
           pending' \subseteq pending, resolvedBy' \in [Request -> Int],
           \A r \in Request :
             \/ resolvedBy'[r] = resolvedBy[r]
             \/ /\ resolvedBy[r] = None /\ r \notin pending'
                /\ resolvedBy'[r] = x.cmd /\ calls' = calls \ {x},
           \A r \in Request : Seen(r) => Seen(r)',
           status = "confirmed" => resolvedBy'[RequestOf(x.cmd)] = x.cmd,
           status = "stale" =>
             resolvedBy'[RequestOf(x.cmd)] \notin {None, x.cmd} \/ place'[RequestOf(x.cmd)] # "here",
           status = "upstream_error" => calls' = calls \ {x} /\ UNCHANGED resolvedBy
    PROVE  InteractionInv'
  <1>1. LinkTypeOK /\ UnblockTypeOK /\ CarrierInv /\ AskedInv
    BY DEF InteractionInv
  <1> DEFINE f == [type |-> "result", cmd |-> x.cmd, status |-> status]
  <1>2. GatewayHears({f})
    BY AnswerHeard
  <1>3. toPlugin' \in Seq(PluginFrame) /\ PluginHears
    BY <1>1, ToPlugin
  <1>4. LinkTypeOK'
    BY <1>1, <1>2, <1>3 DEF LinkTypeOK, GatewayHears, gatewayVars
  <1>5. [x EXCEPT !.live = FALSE] \in Call /\ [x EXCEPT !.live = FALSE].cmd = x.cmd
    BY CallsAre DEF Call
  <1>6. UnblockTypeOK'
    <2>1. calls' \subseteq Call
      BY <1>1, <1>5 DEF UnblockTypeOK, Call
    <2>2. pending' \subseteq Request
      BY <1>1 DEF UnblockTypeOK
    <2>3. QED
      BY <1>1, <2>1, <2>2 DEF UnblockTypeOK, gatewayVars
  <1>7. /\ \A y \in calls' : \E z \in calls : y.cmd = z.cmd
        /\ \A y, z \in calls' : y.cmd = z.cmd => y = z
    <2>1. PICK e : /\ e.cmd = x.cmd
                   /\ (calls' = calls \ {x} \/ calls' = (calls \ {x}) \cup {e})
      BY <1>5
    <2>2. \A y, z \in calls : y.cmd = z.cmd => y = z
      BY <1>1 DEF CarrierInv
    <2>3. QED
      BY <2>1, <2>2
  <1>8. /\ Carried(x.cmd)
        /\ calls' = calls \ {x} => \A y \in calls' : y.cmd # x.cmd
        /\ \A i \in DOMAIN toPlugin' : IsCommand(i)' => toPlugin'[i].cmd # x.cmd
    BY CallsAre DEF IsCommand
  <1>9. \A r \in Request :
          \/ resolvedBy'[r] = resolvedBy[r]
          \/ /\ resolvedBy[r] = None
             /\ \/ resolvedBy'[r] = Local
                \/ Carried(resolvedBy'[r]) /\ ~Carried(resolvedBy[r])'
    BY <1>8 DEF Carried, IsCommand
  <1>10. Right(f)
    <2>0. PICK c \in DOMAIN sent : c = x.cmd
      BY CallsAre
    <2>1. PICK r \in Request : c = x.cmd /\ r = RequestOf(x.cmd) /\ c \in DOMAIN sent
      BY <2>0, CallsAre
    <2>2. status = "upstream_error" => resolvedBy'[r] # c /\ ~Carried(c)'
      BY <1>8, <2>1, CallsAre DEF Carried
    <2>3. Truthful(c, r, status)'
      BY <2>1, <2>2 DEF Truthful
    <2>4. f.type = "result" /\ f.cmd = c /\ f.status = status
      BY <2>1
    <2> HIDE DEF f
    <2>5. QED
      BY <2>1, <2>3, <2>4 DEF Right, Truthful
  <1>11. \A r \in pending' : resolvedBy'[r] = None
    BY <1>1 DEF AskedInv, UnblockTypeOK
  <1>12. collection' # <<>> => \A r \in collection'[1].found : Seen(r)'
    <2>1. collection # <<>> => collection[1] \in Collecting
      BY <1>1 DEF UnblockTypeOK
    <2>2. collection # <<>> => collection[1].found \subseteq Request
      BY <2>1 DEF Collecting
    <2>3. QED
      BY <1>1, <2>2 DEF AskedInv
  <1>13. \A g \in {f} : g.type # "snapshot"
    OBVIOUS
  <1> HIDE DEF f
  <1>14. QED
    BY <1>2, <1>3, <1>4, <1>6, <1>7, <1>9, <1>10, <1>11, <1>12, <1>13, PluginShrinks

\* A call ends, in each of its ways.
LEMMA CallsKeep ==
    ASSUME InteractionInv, NEW x \in calls
    PROVE  /\ CallTimesOut(x) => InteractionInv'
           /\ \A lost \in BOOLEAN : ExecuteCall(x, lost) => InteractionInv'
           /\ CheckCall(x) => InteractionInv'
           /\ \A status \in {"upstream_error", "result_unknown"} : FailCall(x, status) => InteractionInv'
  <1>1. PICK q \in Request : q = RequestOf(x.cmd)
    BY CallsAre
  <1>2. /\ UnblockTypeOK /\ x.cmd \in Nat \ {0} /\ Seen(q)
        /\ resolvedBy \in [Request -> Int] /\ resolvedBy[q] # x.cmd
        /\ \A r \in pending : resolvedBy[r] = None
    BY <1>1, CallsAre DEF InteractionInv, UnblockTypeOK, AskedInv
  <1>3. ASSUME CallTimesOut(x)
        PROVE  InteractionInv'
    <2>1. /\ UNCHANGED <<gatewayVars, toPlugin, plug, collection, left, sent, place>>
          /\ pending' = pending /\ resolvedBy' = resolvedBy
          /\ Answer(x, "result_unknown") /\ calls' = (calls \ {x}) \cup {[x EXCEPT !.live = FALSE]}
      BY <1>3 DEF CallTimesOut, openCodeVars
    <2>2. \A r \in Request : Seen(r) => Seen(r)'
      BY <2>1 DEF Seen
    <2>3. QED
      BY <1>2, <2>1, <2>2, CallKeeps DEF CommandStatus
  <1>4. ASSUME NEW status \in {"stale", "upstream_error", "result_unknown"}, Answer(x, status),
               status = "stale" => q \notin pending \/ place[q] = "away",
               calls' = calls \ {x}, UNCHANGED <<gatewayVars, toPlugin, plug, collection, openCodeVars, left, sent>>
        PROVE  InteractionInv'
    <2>1. /\ UNCHANGED <<gatewayVars, toPlugin, plug, collection, left, sent, place>>
          /\ pending' = pending /\ resolvedBy' = resolvedBy
      BY <1>4 DEF openCodeVars
    <2>2. \A r \in Request : Seen(r) => Seen(r)'
      BY <2>1 DEF Seen
    <2>3. status = "stale" =>
            resolvedBy'[RequestOf(x.cmd)] \notin {None, x.cmd} \/ place'[RequestOf(x.cmd)] # "here"
      BY <1>1, <1>2, <1>4, <2>1 DEF Seen
    <2>4. status \in CommandStatus \ {"accepted"} /\ status # "confirmed"
      BY <1>4 DEF CommandStatus
    <2>5. QED
      BY <1>2, <1>4, <2>1, <2>2, <2>3, <2>4, CallKeeps
  <1>5. ASSUME NEW lost \in BOOLEAN, ExecuteCall(x, lost)
        PROVE  InteractionInv'
    <2>1. calls' = calls \ {x} /\ UNCHANGED <<gatewayVars, toPlugin, plug, collection, left, sent>>
      BY <1>5 DEF ExecuteCall
    <2>2. CASE q \in pending
      <3> DEFINE status == IF lost THEN "result_unknown" ELSE "confirmed"
      <3>1. /\ pending' = pending \ {q} /\ resolvedBy' = [resolvedBy EXCEPT ![q] = x.cmd] /\ place' = place
            /\ Answer(x, status)
        BY <1>1, <1>5, <2>2 DEF ExecuteCall
      <3>2. resolvedBy[q] = None
        BY <1>2, <2>2
      <3>3. resolvedBy' \in [Request -> Int] /\ resolvedBy'[q] = x.cmd
        BY <1>2, <3>1
      <3>4. \A r \in Request :
              \/ resolvedBy'[r] = resolvedBy[r]
              \/ resolvedBy[r] = None /\ r \notin pending' /\ resolvedBy'[r] = x.cmd /\ calls' = calls \ {x}
        BY <1>2, <2>1, <3>1, <3>2
      <3>5. \A r \in Request : Seen(r) => Seen(r)'
        BY <1>2, <3>1, <3>3, <3>4 DEF Seen, None
      <3>6. status \in CommandStatus \ {"accepted"} /\ status \notin {"stale", "upstream_error"}
        BY DEF CommandStatus
      <3> HIDE DEF status
      <3>7. QED
        BY <1>1, <2>1, <3>1, <3>3, <3>4, <3>5, <3>6, CallKeeps
    <2>3. CASE q \notin pending
      <3>1. \E status \in {"stale", "result_unknown"} : Answer(x, status) /\ UNCHANGED openCodeVars
        BY <1>1, <1>5, <2>3 DEF ExecuteCall
      <3>2. QED
        BY <1>4, <2>1, <2>3, <3>1
    <2>4. QED
      BY <2>2, <2>3
  <1>6. CheckCall(x) => InteractionInv'
    BY <1>1, <1>4 DEF CheckCall
  <1>7. \A status \in {"upstream_error", "result_unknown"} : FailCall(x, status) => InteractionInv'
    BY <1>4 DEF FailCall
  <1>8. QED
    BY <1>3, <1>5, <1>6, <1>7

\* A snapshot query joins or starts a collection.
LEMMA QueryHeard ==
    ASSUME InteractionInv, OnServerFrame, Head(toPlugin).type = "snapshot"
    PROVE  InteractionInv'
  <1>1. /\ LinkTypeOK /\ UnblockTypeOK /\ CarrierInv /\ AskedInv
        /\ UNCHANGED <<gatewayVars, toGateway, plug, openCodeVars, left, sent>>
        /\ toPlugin # <<>> /\ toPlugin' = Tail(toPlugin)
    BY DEF InteractionInv, OnServerFrame
  <1>2. /\ toPlugin[1] \in PluginFrame /\ Head(toPlugin) = toPlugin[1]
        /\ toPlugin' \in Seq(PluginFrame) /\ PluginHears /\ GatewayHears({})
    <2>1. toPlugin \in Seq(PluginFrame)
      BY <1>1 DEF LinkTypeOK
    <2>2. toPlugin[1] \in PluginFrame /\ Head(toPlugin) = toPlugin[1]
      BY <1>1, <2>1, Tailed
    <2>3. toPlugin' \in Seq(PluginFrame) /\ PluginHears
      BY <1>1, ToPlugin
    <2>4. GatewayHears({})
      BY <1>1, ToGateway
    <2>5. QED
      BY <2>2, <2>3, <2>4
  <1>3. Head(toPlugin).type # "command" /\ Head(toPlugin).query \in Nat
    BY <1>2 DEF PluginFrame
  <1> DEFINE w == <<plug, Head(toPlugin).query>>
  <1>4. /\ collection' = IF collection = <<>>
                         THEN <<[waiters |-> <<w>>, read |-> {}, found |-> {}]>>
                         ELSE <<[collection[1] EXCEPT !.waiters = Append(@, w)]>>
        /\ UNCHANGED calls
    BY <1>3 DEF OnServerFrame
  <1>5. LinkTypeOK'
    BY <1>1, <1>2 DEF LinkTypeOK, GatewayHears, gatewayVars
  <1>6. /\ collection' \in Seq(Collecting)
        /\ collection' # <<>> => \A r \in collection'[1].found : Seen(r)'
    <2>1. w \in Nat \X Nat
      BY <1>1, <1>3 DEF LinkTypeOK
    <2> HIDE DEF w
    <2>2. CASE collection = <<>>
      <3>1. <<w>> \in Seq(Nat \X Nat)
        BY <2>1
      <3>2. [waiters |-> <<w>>, read |-> {}, found |-> {}] \in Collecting
        BY <3>1 DEF Collecting
      <3>3. QED
        BY <1>4, <2>2, <3>2
    <2>3. CASE collection # <<>>
      <3>1. PICK c \in Collecting : c = collection[1]
        BY <1>1, <2>3 DEF UnblockTypeOK
      <3>2. Append(c.waiters, w) \in Seq(Nat \X Nat)
        BY <2>1, <3>1 DEF Collecting
      <3>3. PICK d \in Collecting : d = [c EXCEPT !.waiters = Append(@, w)] /\ d.found = c.found
        <4>1. [c EXCEPT !.waiters = Append(@, w)] \in Collecting
          <5>1. PICK t \in Seq(Nat \X Nat) : t = Append(c.waiters, w)
            BY <3>2
          <5>2. [c EXCEPT !.waiters = t] \in Collecting
            BY <5>1 DEF Collecting
          <5>3. QED
            BY <5>1, <5>2
        <4>2. [c EXCEPT !.waiters = Append(@, w)].found = c.found
          BY DEF Collecting
        <4>3. QED
          BY <4>1, <4>2
      <3>4. collection' = <<d>>
        BY <1>4, <2>3, <3>1, <3>3
      <3>5. \A r \in d.found : Seen(r)'
        BY <1>1, <2>3, <3>1, <3>3 DEF AskedInv, Seen, openCodeVars
      <3>6. QED
        BY <3>4, <3>5
    <2>4. QED
      BY <2>2, <2>3
  <1>7. UnblockTypeOK'
    BY <1>1, <1>4, <1>6 DEF UnblockTypeOK, gatewayVars, openCodeVars
  <1> HIDE DEF w
  <1>8. QED
    BY <1>1, <1>2, <1>4, <1>5, <1>6, <1>7, PluginShrinks DEF openCodeVars, Seen, CarrierInv, AskedInv

\* A command becomes a call of the plugin.
LEMMA CommandHeard ==
    ASSUME InteractionInv, OnServerFrame, Head(toPlugin).type = "command"
    PROVE  InteractionInv'
  <1>1. /\ LinkTypeOK /\ UnblockTypeOK /\ CarrierInv /\ AskedInv
        /\ UNCHANGED <<gatewayVars, toGateway, plug, openCodeVars, left, sent>>
        /\ toPlugin # <<>> /\ toPlugin' = Tail(toPlugin)
    BY DEF InteractionInv, OnServerFrame
  <1>2. /\ toPlugin' \in Seq(PluginFrame) /\ Head(toPlugin) = toPlugin[1] /\ 1 \in DOMAIN toPlugin
        /\ IsCommand(1)
        /\ \A i \in DOMAIN toPlugin' : /\ i \in Nat \ {0} /\ i + 1 \in DOMAIN toPlugin
                                       /\ toPlugin'[i] = toPlugin[i + 1] /\ i + 1 # 1
                                       /\ IsCommand(i)' => IsCommand(i + 1)
    <2>1. toPlugin \in Seq(PluginFrame)
      BY <1>1 DEF LinkTypeOK
    <2>2. /\ toPlugin' \in Seq(PluginFrame) /\ Len(toPlugin) \in Nat \ {0}
          /\ DOMAIN toPlugin = 1..Len(toPlugin) /\ DOMAIN toPlugin' = 1..(Len(toPlugin) - 1)
          /\ Head(toPlugin) = toPlugin[1]
          /\ \A i \in 1..(Len(toPlugin) - 1) : toPlugin'[i] = toPlugin[i + 1]
      BY <1>1, <2>1, Tailed
    <2>3. QED
      BY <2>2 DEF IsCommand
  <1>3. /\ Carried(toPlugin[1].cmd) /\ toPlugin[1].cmd \in Nat \ {0}
        /\ \A c : Carried(c) => c \in Nat \ {0}
    BY <1>1, <1>2, CarriedAre
  <1>4. PICK e \in Call : e.cmd = toPlugin[1].cmd /\ calls' = calls \cup {e} /\ UNCHANGED collection
    <2>1. [conn |-> plug, cmd |-> toPlugin[1].cmd, live |-> TRUE] \in Call
      BY <1>1, <1>3 DEF Call, LinkTypeOK
    <2>2. /\ calls' = calls \cup {[conn |-> plug, cmd |-> toPlugin[1].cmd, live |-> TRUE]}
          /\ UNCHANGED collection
      BY <1>2 DEF OnServerFrame
    <2>3. QED
      BY <2>1, <2>2
  <1>5. LinkTypeOK'
    BY <1>1, <1>2 DEF LinkTypeOK, gatewayVars
  <1>6. UnblockTypeOK'
    <2>1. calls' \subseteq Call
      BY <1>1, <1>4 DEF UnblockTypeOK
    <2>2. QED
      BY <1>1, <1>4, <2>1 DEF UnblockTypeOK, gatewayVars, openCodeVars
  <1>7. \A c : Carried(c)' => Carried(c)
    BY <1>2, <1>4 DEF Carried
  <1>8. /\ resolvedBy' = resolvedBy /\ pending' = pending /\ place' = place
        /\ \A n : Seen(RequestOf(n))' <=> Seen(RequestOf(n))
    BY <1>1 DEF openCodeVars, Seen, RequestOf
  <1>9. CarrierInv'
    <2>1. \A x, y \in calls' : x.cmd = y.cmd => x = y
      BY <1>1, <1>2, <1>4 DEF CarrierInv
    <2>2. \A i, j \in DOMAIN toPlugin' : IsCommand(i)' /\ IsCommand(j)' /\ toPlugin'[i].cmd = toPlugin'[j].cmd => i = j
      BY <1>1, <1>2 DEF CarrierInv
    <2>3. \A x \in calls' : \A i \in DOMAIN toPlugin' : IsCommand(i)' => toPlugin'[i].cmd # x.cmd
      BY <1>1, <1>2, <1>4 DEF CarrierInv
    <2>4. \A r \in Request : ~Carried(resolvedBy[r])'
      <3>1. \A c : \A r \in Request : c = resolvedBy[r] => ~Carried(c)'
        BY <1>1, <1>7 DEF CarrierInv
      <3>2. QED
        BY <1>8, <3>1 DEF Carried, IsCommand
    <2>5. \A x \in calls' : Seen(RequestOf(x.cmd))
      BY <1>1, <1>2, <1>4 DEF CarrierInv
    <2>6. \A i \in DOMAIN toPlugin' : IsCommand(i)' => Seen(RequestOf(toPlugin'[i].cmd))
      BY <1>1, <1>2 DEF CarrierInv
    <2>7. /\ \A x \in calls' : Seen(RequestOf(x.cmd))'
          /\ \A i \in DOMAIN toPlugin' : IsCommand(i)' => Seen(RequestOf(toPlugin[i].cmd))'
      BY <1>1, <1>8, <2>5, <2>6 DEF Seen, RequestOf
    <2>8. QED
      BY <2>1, <2>2, <2>3, <2>4, <2>7 DEF CarrierInv
  <1>10. WorldMoves
    BY <1>1, <1>7, <1>8 DEF WorldMoves, Seen
  <1>11. GatewayHears({})
    BY <1>1, ToGateway
  <1>12. QED
    BY <1>1, <1>4, <1>5, <1>6, <1>8, <1>9, <1>10, <1>11, PluginKeeps DEF AskedInv, Seen

\* One of the two lists is read.
LEMMA ReadListKeeps ==
    ASSUME InteractionInv, NEW l \in Lists, NEW hidden \in SUBSET Request, ReadList(l, hidden)
    PROVE  InteractionInv'
  <1>1. /\ LinkTypeOK /\ UnblockTypeOK /\ CarrierInv /\ AskedInv /\ collection # <<>>
        /\ UNCHANGED <<gatewayVars, toPlugin, toGateway, plug, calls, openCodeVars, left, sent>>
        /\ collection' = <<[collection[1] EXCEPT !.read = @ \cup {l}, !.found = @ \cup ((pending \cap l) \ hidden)]>>
    BY DEF InteractionInv, ReadList
  <1>2. toPlugin' \in Seq(PluginFrame) /\ PluginHears
    BY <1>1, ToPlugin
  <1>3. GatewayHears({})
    BY <1>1, ToGateway
  <1>4. PICK c \in Collecting : c = collection[1]
    BY <1>1 DEF UnblockTypeOK
  <1>5. PICK d \in Collecting : collection' = <<d>> /\ d.found = c.found \cup ((pending \cap l) \ hidden)
    <2>1. l \subseteq Request
      BY DEF Lists, Request
    <2>2. [c EXCEPT !.read = @ \cup {l}, !.found = @ \cup ((pending \cap l) \ hidden)] \in Collecting
      BY <2>1 DEF Collecting
    <2>3. [c EXCEPT !.read = @ \cup {l}, !.found = @ \cup ((pending \cap l) \ hidden)].found = c.found \cup ((pending \cap l) \ hidden)
      BY DEF Collecting
    <2>4. QED
      BY <1>1, <1>4, <2>2, <2>3
  <1>6. collection' # <<>> => \A r \in collection'[1].found : Seen(r)'
    <2>1. \A r \in d.found : Seen(r)'
      BY <1>1, <1>4, <1>5 DEF AskedInv, Seen, openCodeVars
    <2>2. QED
      BY <1>5, <2>1
  <1>7. LinkTypeOK'
    BY <1>1, <1>2, <1>3 DEF LinkTypeOK, GatewayHears, gatewayVars
  <1>8. UnblockTypeOK'
    BY <1>1, <1>5 DEF UnblockTypeOK, gatewayVars, openCodeVars
  <1>9. QED
    BY <1>1, <1>2, <1>3, <1>6, <1>7, <1>8, PluginShrinks DEF openCodeVars, Seen, CarrierInv, AskedInv

\* The waiting queries are answered, with what was found.
LEMMA CollectedHeard ==
    ASSUME LinkTypeOK, UnblockTypeOK, collection # <<>>, NEW found \in SUBSET Request, Collected(found)
    PROVE  \E N : GatewayHears(N) /\ \A f \in N : f.type = "snapshot" /\ f.found = found
  <1> DEFINE waiters == collection[1].waiters
             earlier == {k \in DOMAIN waiters : waiters[k][1] # plug}
             mine == SubSeq(waiters, Cardinality(earlier) + 1, Len(waiters))
             frames == [k \in DOMAIN mine |-> [type |-> "snapshot", query |-> mine[k][2], found |-> found]]
  <1>1. Reply(plug, frames)
    BY DEF Collected
  <1>2. waiters \in Seq(Nat \X Nat)
    <2>1. collection[1] \in Collecting
      BY DEF UnblockTypeOK
    <2>2. QED
      BY <2>1 DEF Collecting
  <1>3. mine \in Seq(Nat \X Nat)
    <2>1. DOMAIN waiters = 1..Len(waiters) /\ Len(waiters) \in Nat
      BY <1>2
    <2>2. IsFiniteSet(1..Len(waiters)) /\ Cardinality(1..Len(waiters)) = Len(waiters)
      BY <2>1, FS_Interval
    <2>3. Cardinality(earlier) \in Nat /\ Cardinality(earlier) <= Len(waiters)
      BY <2>1, <2>2, FS_Subset, FS_CardinalityType
    <2> HIDE DEF waiters, earlier
    <2>4. QED
      BY <1>2, <2>1, <2>3
  <1> HIDE DEF mine
  <1>4. frames \in Seq(GatewayFrame) /\ \A f \in {frames[k] : k \in DOMAIN frames} : f.type = "snapshot" /\ f.found = found
    <2>1. DOMAIN mine = 1..Len(mine) /\ Len(mine) \in Nat /\ \A k \in DOMAIN mine : mine[k][2] \in Nat
      BY <1>3
    <2>2. \A k \in DOMAIN mine : [type |-> "snapshot", query |-> mine[k][2], found |-> found] \in GatewayFrame
      BY <2>1 DEF GatewayFrame
    <2>3. frames \in [1..Len(mine) -> GatewayFrame]
      BY <2>1, <2>2
    <2>4. frames \in Seq(GatewayFrame)
      BY <2>1, <2>3, SeqDef
    <2>5. QED
      BY <2>4
  <1> HIDE DEF frames
  <1>5. GatewayHears({frames[k] : k \in DOMAIN frames})
    BY <1>1, <1>4, ToGateway
  <1>6. QED
    BY <1>4, <1>5

\* The collection ends: what found holds, OpenCode has asked.
LEMMA CollectedKeeps ==
    ASSUME InteractionInv, collection # <<>>, NEW found \in SUBSET Request, \A r \in found : Seen(r), Collected(found)
    PROVE  InteractionInv'
  <1>1. /\ LinkTypeOK /\ UnblockTypeOK /\ CarrierInv /\ AskedInv /\ collection' = <<>>
        /\ UNCHANGED <<gatewayVars, toPlugin, plug, calls, openCodeVars, left, sent>>
    BY DEF InteractionInv, Collected
  <1>2. toPlugin' \in Seq(PluginFrame) /\ PluginHears
    BY <1>1, ToPlugin
  <1>3. PICK N : GatewayHears(N) /\ \A f \in N : f.type = "snapshot" /\ f.found = found
    BY <1>1, CollectedHeard
  <1>4. LinkTypeOK'
    BY <1>1, <1>2, <1>3 DEF LinkTypeOK, GatewayHears, gatewayVars
  <1>5. UnblockTypeOK'
    BY <1>1 DEF UnblockTypeOK, gatewayVars, openCodeVars
  <1>6. \A f \in N : Right(f) /\ (f.type = "snapshot" => \A r \in f.found : Seen(r)')
    BY <1>1, <1>3 DEF openCodeVars, Seen, Right
  <1>7. QED
    BY <1>1, <1>2, <1>3, <1>4, <1>5, <1>6, PluginShrinks DEF openCodeVars, Seen, CarrierInv, AskedInv

\* The collection ends, whether it holds both lists or not.
LEMMA CollectionEndsKeeps ==
    ASSUME InteractionInv, CollectionEnds
    PROVE  InteractionInv'
  <1>1. UnblockTypeOK /\ AskedInv /\ collection # <<>>
    BY DEF InteractionInv, CollectionEnds
  <1>2. collection[1] \in Collecting
    BY <1>1 DEF UnblockTypeOK
  <1>3. collection[1].found \in SUBSET Request /\ \A r \in collection[1].found : Seen(r)
    BY <1>1, <1>2 DEF Collecting, AskedInv
  <1>4. Collected(collection[1].found) \/ Collected({})
    BY DEF CollectionEnds
  <1>5. QED
    BY <1>1, <1>3, <1>4, CollectedKeeps

\* OpenCode asks, or is answered on the spot, or a session moves.
LEMMA AsksKeep ==
    ASSUME InteractionInv, NEW r \in Request, Ask(r) \/ AnswerLocally(r) \/ Move(r)
    PROVE  InteractionInv'
  <1>1. /\ LinkTypeOK /\ UnblockTypeOK /\ CarrierInv /\ AskedInv
        /\ UNCHANGED <<gatewayVars, toPlugin, toGateway, pluginVars, sent>>
    BY DEF InteractionInv, Ask, AnswerLocally, Move
  <1>2. toPlugin' \in Seq(PluginFrame) /\ PluginHears
    BY <1>1, ToPlugin
  <1>3. GatewayHears({})
    BY <1>1, ToGateway
  <1>4. LinkTypeOK'
    <2>1. left' \in Budget
      <3>1. CASE Ask(r)
        <4>1. left.asks - 1 \in Nat /\ left' = [left EXCEPT !.asks = @ - 1]
          BY <1>1, <3>1 DEF LinkTypeOK, Ask, Budget
        <4>2. QED
          BY <1>1, <4>1 DEF LinkTypeOK, Budget
      <3>2. CASE AnswerLocally(r)
        BY <1>1, <3>2 DEF LinkTypeOK, AnswerLocally
      <3>3. CASE Move(r)
        <4>1. left.moves - 1 \in Nat /\ left' = [left EXCEPT !.moves = @ - 1]
          BY <1>1, <3>3 DEF LinkTypeOK, Move, Budget
        <4>2. QED
          BY <1>1, <4>1 DEF LinkTypeOK, Budget
      <3>4. QED
        BY <3>1, <3>2, <3>3
    <2>2. QED
      BY <1>1, <1>2, <1>3, <2>1 DEF LinkTypeOK, GatewayHears, gatewayVars, pluginVars
  <1>5. UnblockTypeOK' /\ \A s \in Request : place[s] # "here" => place'[s] # "here"
    <2>1. pending' \subseteq Request /\ resolvedBy' \in [Request -> Int]
      BY <1>1 DEF UnblockTypeOK, Ask, AnswerLocally, Move, Local
    <2>2. /\ place' \in [Request -> {"here", "away", "back"}]
          /\ \A s \in Request : place[s] # "here" => place'[s] # "here"
      BY <1>1 DEF UnblockTypeOK, Ask, AnswerLocally, Move
    <2>3. QED
      BY <1>1, <2>1, <2>2 DEF UnblockTypeOK, gatewayVars, pluginVars
  <1>6. /\ \A s \in Request : resolvedBy'[s] = resolvedBy[s] \/ (resolvedBy[s] = None /\ resolvedBy'[s] = Local)
        /\ \A s \in pending' : resolvedBy'[s] = None
        /\ \A s \in Request : Seen(s) => Seen(s)'
    BY <1>1 DEF UnblockTypeOK, AskedInv, Ask, AnswerLocally, Move, Seen, None, Local
  <1>7. collection' # <<>> => \A s \in collection'[1].found : Seen(s)'
    <2>1. collection # <<>> => collection[1] \in Collecting
      BY <1>1 DEF UnblockTypeOK
    <2>2. collection # <<>> => collection[1].found \subseteq Request
      BY <2>1 DEF Collecting
    <2>3. QED
      BY <1>1, <1>6, <2>2 DEF AskedInv, pluginVars
  <1>8. QED
    BY <1>1, <1>2, <1>3, <1>4, <1>5, <1>6, <1>7, PluginShrinks DEF pluginVars, CarrierInv

-----------------------------------------------------------------------------
(* The gateway's steps *)

\* A step of the gateway's own, in which nothing comes to be waited for but queries.
LEMMA GatewayShrinks ==
    ASSUME InteractionInv, UNCHANGED <<collection, calls, openCodeVars, sent>>, PluginHears, GatewayHears({}),
           LinkTypeOK', UnblockTypeOK', WaitingInv', BusyInv', OutcomesMove,
           commands' \subseteq commands, \A r \in projected' : Seen(r)
    PROVE  InteractionInv'
  <1>1. /\ LinkTypeOK /\ UnblockTypeOK /\ KnownInv /\ CarrierInv /\ AskedInv /\ place' = place
        /\ collection' = collection /\ calls' = calls /\ pending' = pending /\ resolvedBy' = resolvedBy
    BY DEF InteractionInv, openCodeVars
  <1>2. /\ \A x \in calls' : \E y \in calls : x.cmd = y.cmd
        /\ \A x, y \in calls' : x.cmd = y.cmd => x = y
        /\ \A r \in Request : Seen(r) => Seen(r)'
    BY <1>1 DEF CarrierInv, Seen
  <1>3. CarrierInv' /\ \A c \in Nat \ {0} : Carried(c)' => Carried(c)
    BY <1>1, <1>2, CarriersShrink
  <1>4. WorldMoves
    BY <1>1, <1>2, <1>3 DEF WorldMoves
  <1>5. ResultsMove
    BY DEF GatewayHears, ResultsMove
  <1>6. AskedInv'
    BY <1>1 DEF AskedInv, Seen, GatewayHears
  <1>7. QED
    BY <1>3, <1>4, <1>5, <1>6, RestKeeps

\* Settling changes statuses only, of the entries with an id of X.
LEMMA Settled ==
    ASSUME UnblockTypeOK, NEW X, NEW status \in CommandStatus, NEW told \in Nat, outcomes' = SettledAs(X, status, told)
    PROVE  /\ outcomes' \in Seq(Outcome) /\ Len(outcomes') <= MaxOutcomes /\ DOMAIN outcomes' = DOMAIN outcomes
           /\ \A k \in DOMAIN outcomes :
                /\ outcomes'[k].cmd = outcomes[k].cmd
                /\ \/ /\ \E x \in X : IdOf(x.cmd) = IdOf(outcomes[k].cmd)
                      /\ outcomes'[k].status = status /\ outcomes'[k].told = told
                   \/ /\ ~\E x \in X : IdOf(x.cmd) = IdOf(outcomes[k].cmd)
                      /\ outcomes'[k].status = outcomes[k].status /\ outcomes'[k].told = outcomes[k].told
  <1>1. outcomes \in Seq(Outcome) /\ Len(outcomes) <= MaxOutcomes
    BY DEF UnblockTypeOK
  <1>2. /\ DOMAIN outcomes = 1..Len(outcomes) /\ Len(outcomes) \in Nat
        /\ \A k \in DOMAIN outcomes : outcomes[k] \in Outcome
    BY <1>1
  <1>3. DOMAIN outcomes' = DOMAIN outcomes
    BY DEF SettledAs
  <1>4. ASSUME NEW k \in DOMAIN outcomes
        PROVE  /\ outcomes'[k] \in Outcome
               /\ outcomes'[k].cmd = outcomes[k].cmd
               /\ \/ /\ \E x \in X : IdOf(x.cmd) = IdOf(outcomes[k].cmd)
                     /\ outcomes'[k].status = status /\ outcomes'[k].told = told
                  \/ /\ ~\E x \in X : IdOf(x.cmd) = IdOf(outcomes[k].cmd)
                     /\ outcomes'[k].status = outcomes[k].status /\ outcomes'[k].told = outcomes[k].told
    <2>1. PICK o \in Outcome : o = outcomes[k]
      BY <1>2
    <2>2. outcomes'[k] = IF \E x \in X : IdOf(x.cmd) = IdOf(o.cmd)
                         THEN [o EXCEPT !.status = status, !.told = told] ELSE o
      BY <2>1 DEF SettledAs
    <2>3. /\ [o EXCEPT !.status = status, !.told = told] \in Outcome
          /\ [o EXCEPT !.status = status, !.told = told].cmd = o.cmd
          /\ [o EXCEPT !.status = status, !.told = told].status = status
          /\ [o EXCEPT !.status = status, !.told = told].told = told
      BY DEF Outcome
    <2>4. QED
      BY <2>1, <2>2, <2>3
  <1>5. outcomes' \in [1..Len(outcomes) -> Outcome]
    <2>1. outcomes' = [k \in 1..Len(outcomes) |-> outcomes'[k]]
      BY <1>2 DEF SettledAs
    <2>2. QED
      BY <1>2, <1>4, <2>1
  <1>6. outcomes' \in Seq(Outcome)
    BY <1>2, <1>5, SeqDef
  <1>7. Len(outcomes') = Len(outcomes)
    BY <1>2, <1>3, <1>6
  <1>8. QED
    BY <1>1, <1>3, <1>4, <1>6, <1>7

\* The commands X are over, and their entries settle.
LEMMA SettlingKeeps ==
    ASSUME UnblockTypeOK, WaitingInv, BusyInv, KnownInv, sent' = sent,
           NEW X, X \subseteq commands, commands' = commands \ X,
           NEW status \in CommandStatus \ {"accepted"}, NEW told \in Nat, outcomes' = SettledAs(X, status, told),
           queries' \subseteq queries, conn' = conn \/ (queries' = {} /\ commands' = {})
    PROVE  WaitingInv' /\ BusyInv'
  <1>1. /\ DOMAIN outcomes' = DOMAIN outcomes
        /\ \A k \in DOMAIN outcomes :
             /\ outcomes'[k].cmd = outcomes[k].cmd
             /\ \/ /\ \E x \in X : IdOf(x.cmd) = IdOf(outcomes[k].cmd)
                   /\ outcomes'[k].status = status
                \/ /\ ~\E x \in X : IdOf(x.cmd) = IdOf(outcomes[k].cmd)
                   /\ outcomes'[k].status = outcomes[k].status
    <2>1. status \in CommandStatus
      OBVIOUS
    <2>2. /\ outcomes' \in Seq(Outcome) /\ Len(outcomes') <= MaxOutcomes /\ DOMAIN outcomes' = DOMAIN outcomes
           /\ \A k \in DOMAIN outcomes :
                /\ outcomes'[k].cmd = outcomes[k].cmd
                /\ \/ /\ \E x \in X : IdOf(x.cmd) = IdOf(outcomes[k].cmd)
                      /\ outcomes'[k].status = status /\ outcomes'[k].told = told
                   \/ /\ ~\E x \in X : IdOf(x.cmd) = IdOf(outcomes[k].cmd)
                      /\ outcomes'[k].status = outcomes[k].status /\ outcomes'[k].told = outcomes[k].told
      BY <2>1, Settled
    <2>3. QED
      BY <2>2
  <1>2. /\ \A n : IdOf(n)' = IdOf(n) /\ RequestOf(n)' = RequestOf(n)
        /\ \A c : Repeated(c)' <=> Repeated(c)
    BY DEF IdOf, RequestOf, Repeated
  <1>3. WaitingInv'
    <2>1. /\ conn' = None => queries' = {} /\ commands' = {}
          /\ \A q \in queries' : q[1] = conn'
          /\ \A x \in commands' : x.conn = conn'
      BY DEF WaitingInv
    <2>2. \A x, y \in commands' :
            \/ RequestOf(x.cmd) = RequestOf(y.cmd)
            \/ IdOf(x.cmd) = IdOf(y.cmd) /\ SameKind(RequestOf(x.cmd), RequestOf(y.cmd))
            => x = y
      BY DEF WaitingInv
    <2>3. \A j, k \in DOMAIN outcomes' : IdOf(outcomes'[j].cmd) = IdOf(outcomes'[k].cmd) => j = k
      BY <1>1 DEF WaitingInv
    <2>4. \A k \in DOMAIN outcomes' :
            outcomes'[k].status = "accepted" => \E x \in commands' : IdOf(x.cmd) = IdOf(outcomes'[k].cmd)
      BY <1>1 DEF WaitingInv
    <2>5. QED
      BY <1>2, <2>1, <2>2, <2>3, <2>4 DEF WaitingInv
  <1>4. ASSUME NEW k \in DOMAIN outcomes, NEW y \in commands', outcomes'[k].status # "accepted",
               IdOf(y.cmd) = IdOf(outcomes[k].cmd)
        PROVE  Repeated(IdOf(y.cmd))
    <2>1. CASE outcomes[k].status # "accepted"
      BY <1>4, <2>1 DEF BusyInv
    <2>2. CASE outcomes[k].status = "accepted"
      <3>1. PICK x \in X : IdOf(x.cmd) = IdOf(outcomes[k].cmd)
        BY <1>1, <1>4, <2>2
      <3>2. x \in Command /\ y \in Command /\ x # y /\ x.conn = conn /\ y.conn = conn
        BY DEF UnblockTypeOK, WaitingInv
      <3>3. x.cmd # y.cmd
        BY <3>2 DEF Command
      <3>4. x.cmd \in DOMAIN sent /\ y.cmd \in DOMAIN sent
        BY DEF KnownInv
      <3>5. QED
        BY <1>4, <3>1, <3>3, <3>4 DEF Repeated
    <2>3. QED
      BY <2>1, <2>2
  <1>5. BusyInv'
    BY <1>1, <1>2, <1>4 DEF BusyInv
  <1>6. QED
    BY <1>3, <1>5

\* A connection more, where there was none.
LEMMA AttachKeeps ==
    ASSUME InteractionInv, Attach
    PROVE  InteractionInv'
  <1>1. /\ LinkTypeOK /\ UnblockTypeOK /\ WaitingInv /\ BusyInv
        /\ conn = None /\ left.conns > 0 /\ left' = [left EXCEPT !.conns = @ - 1]
        /\ conn' = left.conns /\ plug' = left.conns /\ projected' = {} /\ stale' = {}
        /\ toPlugin' = <<>> /\ toGateway' = <<>>
        /\ UNCHANGED <<queries, commands, outcomes, collection, calls, openCodeVars, sent>>
    BY DEF InteractionInv, Attach
  <1>2. toPlugin' \in Seq(PluginFrame) /\ PluginHears
    BY <1>1, ToPlugin
  <1>3. GatewayHears({})
    BY <1>1, ToGateway
  <1>4. LinkTypeOK'
    <2>1. left.conns - 1 \in Nat /\ left.conns \in Nat
      BY <1>1 DEF LinkTypeOK, Budget
    <2>2. QED
      BY <1>1, <1>2, <1>3, <2>1 DEF LinkTypeOK, GatewayHears, Budget
  <1>5. UnblockTypeOK'
    BY <1>1 DEF UnblockTypeOK, openCodeVars
  <1>6. WaitingInv' /\ BusyInv'
    BY <1>1, WaitingStays DEF WaitingInv
  <1>7. OutcomesMove
    BY <1>1 DEF OutcomesMove
  <1>8. QED
    BY <1>1, <1>2, <1>3, <1>4, <1>5, <1>6, <1>7, GatewayShrinks

\* The connection is lost, with the process or without.
LEMMA LoseConnectionKeeps ==
    ASSUME InteractionInv, LoseConnection
    PROVE  InteractionInv'
  <1>1. LinkTypeOK /\ UnblockTypeOK /\ WaitingInv /\ BusyInv /\ KnownInv /\ AskedInv
    BY DEF InteractionInv
  <1>2. /\ conn' = None /\ toGateway' = <<>>
        /\ UNCHANGED <<toPlugin, plug, collection, calls, openCodeVars, left, sent>>
        /\ projected' \subseteq projected /\ stale' \subseteq stale
    BY DEF LoseConnection, Disconnect, Restart, pluginVars
  <1>3. toPlugin' \in Seq(PluginFrame) /\ PluginHears
    BY <1>1, <1>2, ToPlugin
  <1>4. GatewayHears({})
    BY <1>1, <1>2, ToGateway
  <1>5. LinkTypeOK'
    BY <1>1, <1>2, <1>3, <1>4 DEF LinkTypeOK, GatewayHears, None
  <1>6. /\ queries' = {} /\ commands' = {} /\ outcomes' \in Seq(Outcome) /\ Len(outcomes') <= MaxOutcomes
        /\ WaitingInv' /\ BusyInv' /\ OutcomesMove
    <2>1. CASE Disconnect
      <3>1. queries' = {} /\ commands' = {}
        BY <1>1, <2>1 DEF Disconnect, WaitingInv
      <3>2. outcomes' = SettledAs(commands, "result_unknown", 0)
        BY <2>1, <3>1 DEF Disconnect
      <3>3. WaitingInv' /\ BusyInv'
        BY <1>1, <1>2, <3>1, <3>2, SettlingKeeps DEF CommandStatus
      <3>4. QED
        <4>1. "result_unknown" \in CommandStatus /\ 0 \in Nat /\ UnblockTypeOK
          BY <1>1 DEF CommandStatus
        <4>2. PICK X : outcomes' = SettledAs(X, "result_unknown", 0)
          BY <3>2
        <4>3. /\ outcomes' \in Seq(Outcome) /\ Len(outcomes') <= MaxOutcomes /\ DOMAIN outcomes' = DOMAIN outcomes
              /\ \A k \in DOMAIN outcomes :
                   /\ outcomes'[k].cmd = outcomes[k].cmd
                   /\ \/ /\ \E x \in X : IdOf(x.cmd) = IdOf(outcomes[k].cmd)
                         /\ outcomes'[k].status = "result_unknown" /\ outcomes'[k].told = 0
                      \/ /\ ~\E x \in X : IdOf(x.cmd) = IdOf(outcomes[k].cmd)
                         /\ outcomes'[k].status = outcomes[k].status /\ outcomes'[k].told = outcomes[k].told
          BY <4>1, <4>2, Settled
        <4>4. QED
          BY <3>1, <3>3, <4>3 DEF OutcomesMove
    <2>2. CASE Restart
      <3>1. outcomes' = <<>> /\ queries' = {} /\ commands' = {}
        BY <2>2 DEF Restart
      <3>2. DOMAIN outcomes' = {} /\ outcomes' \in Seq(Outcome) /\ Len(outcomes') = 0 /\ MaxOutcomes \in Nat
        BY <3>1, InteractionAssumption
      <3>3. QED
        BY <3>1, <3>2 DEF WaitingInv, BusyInv, OutcomesMove
    <2>3. QED
      BY <2>1, <2>2 DEF LoseConnection
  <1>7. UnblockTypeOK'
    BY <1>1, <1>2, <1>6 DEF UnblockTypeOK, openCodeVars
  <1>8. QED
    BY <1>1, <1>2, <1>3, <1>4, <1>5, <1>6, <1>7, GatewayShrinks DEF AskedInv

\* A snapshot query goes out.
LEMMA QueryKeeps ==
    ASSUME InteractionInv, Query
    PROVE  InteractionInv'
  <1>1. /\ LinkTypeOK /\ UnblockTypeOK /\ WaitingInv /\ BusyInv /\ AskedInv
        /\ conn # None /\ left.queries > 0 /\ left' = [left EXCEPT !.queries = @ - 1]
        /\ queries' = queries \cup {<<conn, left.queries>>}
        /\ toPlugin' = Append(toPlugin, [type |-> "snapshot", query |-> left.queries])
        /\ UNCHANGED <<conn, projected, stale, commands, outcomes, toGateway, plug, collection, calls, openCodeVars, sent>>
    BY DEF InteractionInv, Query, pluginVars
  <1>2. left.queries \in Nat /\ left.queries - 1 \in Nat /\ conn \in Nat
    BY <1>1 DEF LinkTypeOK, Budget
  <1>3. toPlugin' \in Seq(PluginFrame) /\ PluginHears
    <2>1. [type |-> "snapshot", query |-> left.queries] \in PluginFrame
      BY <1>2 DEF PluginFrame
    <2>2. [type |-> "snapshot", query |-> left.queries].type # "command"
      OBVIOUS
    <2>3. QED
      BY <1>1, <2>1, <2>2, ToPlugin
  <1>4. GatewayHears({})
    BY <1>1, ToGateway
  <1>5. LinkTypeOK'
    BY <1>1, <1>2, <1>3, <1>4 DEF LinkTypeOK, GatewayHears, Budget
  <1>6. UnblockTypeOK'
    BY <1>1, <1>2 DEF UnblockTypeOK, openCodeVars
  <1>7. WaitingInv' /\ BusyInv'
    <2>1. \A q \in queries' : q[1] = conn'
      BY <1>1 DEF WaitingInv
    <2>2. QED
      BY <1>1, <2>1, WaitingStays
  <1>8. OutcomesMove
    BY <1>1 DEF OutcomesMove
  <1>9. QED
    BY <1>1, <1>3, <1>4, <1>5, <1>6, <1>7, <1>8, GatewayShrinks DEF AskedInv

\* An outcome is dropped, of a settled entry or of one that is open.
LEMMA ExpiryKeeps ==
    ASSUME UnblockTypeOK, WaitingInv, BusyInv, ExpireOutcome
    PROVE  /\ outcomes' \in Seq(Outcome) /\ Len(outcomes') <= MaxOutcomes
           /\ WaitingInv' /\ BusyInv' /\ OutcomesMove
  <1>1. PICK k \in DOMAIN outcomes : outcomes' = RemoveAt(outcomes, k)
    BY DEF ExpireOutcome
  <1>2. UNCHANGED <<conn, queries, commands, sent>>
    BY DEF ExpireOutcome
  <1>3. /\ outcomes' \in Seq(Outcome) /\ Len(outcomes) \in Nat /\ Len(outcomes') = Len(outcomes) - 1
        /\ DOMAIN outcomes = 1..Len(outcomes) /\ DOMAIN outcomes' = 1..(Len(outcomes) - 1)
        /\ \A i \in DOMAIN outcomes' : outcomes'[i] = IF i < k THEN outcomes[i] ELSE outcomes[i + 1]
    BY <1>1, Removed DEF UnblockTypeOK
  <1>4. /\ Len(outcomes') <= MaxOutcomes /\ MaxOutcomes \in Nat
        /\ \A i \in DOMAIN outcomes' : i + 1 \in DOMAIN outcomes /\ i \in DOMAIN outcomes
    BY <1>3, InteractionAssumption DEF UnblockTypeOK
  <1>5. \A j, i \in DOMAIN outcomes' : IdOf(outcomes'[j].cmd) = IdOf(outcomes'[i].cmd) => j = i
    <2>1. SUFFICES ASSUME NEW j \in DOMAIN outcomes', NEW i \in DOMAIN outcomes',
                          IdOf(outcomes'[j].cmd) = IdOf(outcomes'[i].cmd)
                   PROVE  j = i
      OBVIOUS
    <2>2. PICK a, b \in DOMAIN outcomes : /\ outcomes'[j] = outcomes[a] /\ a = IF j < k THEN j ELSE j + 1
                                          /\ outcomes'[i] = outcomes[b] /\ b = IF i < k THEN i ELSE i + 1
      BY <1>3, <1>4
    <2>3. a = b
      BY <2>1, <2>2 DEF WaitingInv
    <2>4. j \in Nat /\ i \in Nat /\ k \in Nat
      BY <1>3
    <2>5. QED
      BY <2>2, <2>3, <2>4
  <1>6. \A i \in DOMAIN outcomes' : \E j \in DOMAIN outcomes : outcomes'[i] = outcomes[j]
    BY <1>3, <1>4
  <1>7. /\ \A n : IdOf(n)' = IdOf(n) /\ RequestOf(n)' = RequestOf(n)
        /\ \A c : Repeated(c)' <=> Repeated(c)
    BY <1>2 DEF IdOf, RequestOf, Repeated
  <1>8. \A i \in DOMAIN outcomes' :
          outcomes'[i].status = "accepted" => \E x \in commands' : IdOf(x.cmd) = IdOf(outcomes'[i].cmd)
    BY <1>2, <1>6 DEF WaitingInv
  <1>9. WaitingInv'
    BY <1>2, <1>5, <1>7, <1>8 DEF WaitingInv
  <1>10. BusyInv' /\ OutcomesMove
    BY <1>2, <1>6, <1>7 DEF BusyInv, OutcomesMove
  <1>11. QED
    BY <1>3, <1>4, <1>9, <1>10

\* A query or a command runs out of time, or an outcome expires.
LEMMA TimeoutsKeep ==
    ASSUME InteractionInv, QueryTimesOut \/ CommandTimesOut \/ ExpireOutcome
    PROVE  InteractionInv'
  <1>1. /\ LinkTypeOK /\ UnblockTypeOK /\ WaitingInv /\ BusyInv /\ KnownInv /\ AskedInv
        /\ UNCHANGED <<conn, projected, stale, toPlugin, toGateway, plug, collection, calls, openCodeVars, left, sent>>
    BY DEF InteractionInv, QueryTimesOut, CommandTimesOut, ExpireOutcome, pluginVars
  <1>2. toPlugin' \in Seq(PluginFrame) /\ PluginHears
    BY <1>1, ToPlugin
  <1>3. GatewayHears({})
    BY <1>1, ToGateway
  <1>4. LinkTypeOK'
    BY <1>1, <1>2, <1>3 DEF LinkTypeOK, GatewayHears
  <1>5. /\ queries' \subseteq queries /\ commands' \subseteq commands
        /\ outcomes' \in Seq(Outcome) /\ Len(outcomes') <= MaxOutcomes
        /\ WaitingInv' /\ BusyInv' /\ OutcomesMove
    <2>1. CASE QueryTimesOut
      <3>1. queries' \subseteq queries /\ commands' = commands /\ outcomes' = outcomes
        BY <2>1 DEF QueryTimesOut
      <3>2. \A q \in queries' : q[1] = conn'
        BY <1>1, <3>1 DEF WaitingInv
      <3>3. conn' = None => queries' = {}
        BY <1>1, <3>1 DEF WaitingInv
      <3>4. WaitingInv' /\ BusyInv'
        BY <1>1, <3>1, <3>2, <3>3, WaitingStays
      <3>5. QED
        BY <1>1, <3>1, <3>4 DEF UnblockTypeOK, OutcomesMove
    <2>2. CASE CommandTimesOut
      <3>1. PICK y \in commands : /\ commands' = commands \ {y} /\ queries' = queries
                                  /\ outcomes' = SettledAs({y}, "result_unknown", 0)
        BY <2>2 DEF CommandTimesOut
      <3>2. WaitingInv' /\ BusyInv'
        BY <1>1, <3>1, SettlingKeeps DEF CommandStatus
      <3>3. /\ outcomes' \in Seq(Outcome) /\ Len(outcomes') <= MaxOutcomes /\ OutcomesMove
        <4>1. "result_unknown" \in CommandStatus /\ 0 \in Nat /\ UnblockTypeOK
          BY <1>1 DEF CommandStatus
        <4>2. PICK X : outcomes' = SettledAs(X, "result_unknown", 0)
          BY <3>1
        <4>3. /\ outcomes' \in Seq(Outcome) /\ Len(outcomes') <= MaxOutcomes /\ DOMAIN outcomes' = DOMAIN outcomes
              /\ \A k \in DOMAIN outcomes :
                   /\ outcomes'[k].cmd = outcomes[k].cmd
                   /\ \/ /\ \E x \in X : IdOf(x.cmd) = IdOf(outcomes[k].cmd)
                         /\ outcomes'[k].status = "result_unknown" /\ outcomes'[k].told = 0
                      \/ /\ ~\E x \in X : IdOf(x.cmd) = IdOf(outcomes[k].cmd)
                         /\ outcomes'[k].status = outcomes[k].status /\ outcomes'[k].told = outcomes[k].told
          BY <4>1, <4>2, Settled
        <4>4. QED
          BY <4>3 DEF OutcomesMove
      <3>4. QED
        BY <3>1, <3>2, <3>3
    <2>3. CASE ExpireOutcome
      <3>1. queries' = queries /\ commands' = commands
        BY <2>3 DEF ExpireOutcome
      <3>2. QED
        BY <1>1, <2>3, <3>1, ExpiryKeeps
    <2>4. QED
      BY <2>1, <2>2, <2>3
  <1>6. UnblockTypeOK'
    BY <1>1, <1>5 DEF UnblockTypeOK, openCodeVars
  <1>7. QED
    BY <1>1, <1>2, <1>3, <1>4, <1>5, <1>6, GatewayShrinks DEF AskedInv

\* A snapshot or a result arrives.
LEMMA ReceiveKeeps ==
    ASSUME InteractionInv, Receive
    PROVE  InteractionInv'
  <1>1. /\ LinkTypeOK /\ UnblockTypeOK /\ WaitingInv /\ BusyInv /\ KnownInv /\ AskedInv /\ TruthInv
        /\ conn # None /\ toGateway # <<>> /\ toGateway' = Tail(toGateway)
        /\ UNCHANGED <<conn, toPlugin, plug, collection, calls, openCodeVars, left, sent>>
    BY DEF InteractionInv, Receive, pluginVars
  <1>2. toPlugin' \in Seq(PluginFrame) /\ PluginHears
    BY <1>1, ToPlugin
  <1>3. GatewayHears({})
    BY <1>1, ToGateway
  <1>4. LinkTypeOK'
    BY <1>1, <1>2, <1>3 DEF LinkTypeOK, GatewayHears
  <1>5. PICK f \in GatewayFrame : f = Head(toGateway) /\ 1 \in DOMAIN toGateway /\ f = toGateway[1]
    <2>1. toGateway \in Seq(GatewayFrame)
      BY <1>1 DEF LinkTypeOK
    <2>2. QED
      BY <1>1, <2>1, Tailed
  <1>6. CASE SnapshotResponse(f)
    <2>1. /\ f.type = "snapshot" /\ commands' = commands /\ outcomes' = outcomes
          /\ queries' \subseteq queries
          /\ \/ projected' = f.found /\ stale' \subseteq stale \cup projected
             \/ projected' = projected /\ stale' = stale
      BY <1>6 DEF SnapshotResponse, ApplyProjection
    <2>2. f.found \subseteq Request /\ \A r \in f.found : Seen(r)
      <3>1. f.found \subseteq Request
        BY <2>1 DEF GatewayFrame
      <3>2. QED
        BY <1>1, <1>5, <2>1, <3>1 DEF AskedInv
    <2>3. UnblockTypeOK'
      BY <1>1, <2>1, <2>2 DEF UnblockTypeOK, openCodeVars
    <2>4. \A q \in queries' : q[1] = conn'
      BY <1>1, <2>1 DEF WaitingInv
    <2>5. WaitingInv' /\ BusyInv'
      BY <1>1, <2>1, <2>4, WaitingStays
    <2>6. OutcomesMove
      BY <2>1 DEF OutcomesMove
    <2>7. \A r \in projected' : Seen(r)
      BY <1>1, <2>1, <2>2 DEF AskedInv
    <2>8. QED
      BY <1>1, <1>2, <1>3, <1>4, <2>1, <2>3, <2>5, <2>6, <2>7, GatewayShrinks
  <1>7. CASE CommandResult(f)
    <2>1. f.type = "result" /\ f.cmd \in Nat \ {0} /\ f.status \in CommandStatus /\ f.status # "accepted"
      BY <1>7 DEF CommandResult, GatewayFrame
    <2>2. PICK X : X = InFlight(f)
      OBVIOUS
    <2>3. /\ commands' = commands \ X /\ queries' = queries
          /\ outcomes' = SettledAs(X, f.status, f.cmd)
          /\ projected' \subseteq projected /\ stale' \subseteq stale \cup {RequestOf(x.cmd) : x \in X}
      BY <1>7, <2>2 DEF CommandResult
    <2>4. X \subseteq commands /\ \A x \in X : IdOf(x.cmd) = IdOf(f.cmd)
      BY <2>2 DEF InFlight
    <2>5. /\ outcomes' \in Seq(Outcome) /\ Len(outcomes') <= MaxOutcomes /\ DOMAIN outcomes' = DOMAIN outcomes
          /\ \A k \in DOMAIN outcomes :
               /\ outcomes'[k].cmd = outcomes[k].cmd
               /\ \/ /\ \E x \in X : IdOf(x.cmd) = IdOf(outcomes[k].cmd)
                     /\ outcomes'[k].status = f.status /\ outcomes'[k].told = f.cmd
                  \/ outcomes'[k].status = outcomes[k].status /\ outcomes'[k].told = outcomes[k].told
      BY <1>1, <2>1, <2>3, Settled
    <2>6. stale' \subseteq Request /\ projected' \subseteq Request
      <3>1. \A x \in commands : RequestOf(x.cmd) \in Request
        BY <1>1, SentAre DEF KnownInv
      <3>2. QED
        BY <1>1, <2>3, <2>4, <3>1 DEF UnblockTypeOK
    <2>7. UnblockTypeOK'
      BY <1>1, <2>3, <2>5, <2>6 DEF UnblockTypeOK, openCodeVars
    <2>8. WaitingInv' /\ BusyInv'
      BY <1>1, <2>1, <2>3, <2>4, SettlingKeeps
    <2>9. OutcomesMove
      <3>1. f.cmd \in DOMAIN sent /\ Truthful(f.cmd, RequestOf(f.cmd), f.status)
        BY <1>1, <1>5, <2>1 DEF KnownInv, TruthInv, IsResult
      <3>2. QED
        BY <2>4, <2>5, <3>1 DEF OutcomesMove
    <2>10. QED
      BY <1>1, <1>2, <1>3, <1>4, <2>3, <2>7, <2>8, <2>9, GatewayShrinks DEF AskedInv
  <1>8. QED
    BY <1>5, <1>6, <1>7 DEF Receive

\* What is recorded comes last, unless the id has its entry, and at most the oldest
\* outcome goes.
LEMMA RecordedIs ==
    ASSUME UnblockTypeOK, NEW c, NEW n \in Nat \ {0}, outcomes' = Recorded(c, n)
    PROVE  /\ outcomes' \in Seq(Outcome) /\ Len(outcomes') <= MaxOutcomes
           /\ Entry(c) # {} => outcomes' = outcomes
           /\ \E m \in {0, 1}, last \in Nat : \A i \in DOMAIN outcomes' :
                /\ i \in Nat
                /\ \/ /\ i + m \in DOMAIN outcomes /\ outcomes'[i] = outcomes[i + m] /\ i + m # last
                   \/ /\ i + m = last /\ Entry(c) = {}
                      /\ outcomes'[i] = [cmd |-> n, told |-> 0, status |-> "accepted"]
  <1> DEFINE o == [cmd |-> n, told |-> 0, status |-> "accepted"]
             last == Len(outcomes) + 1
  <1>1. outcomes \in Seq(Outcome) /\ Len(outcomes) <= MaxOutcomes /\ MaxOutcomes \in Nat \ {0} /\ o \in Outcome
    BY InteractionAssumption DEF UnblockTypeOK, Outcome, CommandStatus
  <1>2. PICK all : all = Append(outcomes, o)
    OBVIOUS
  <1>3. outcomes' = IF Entry(c) # {} THEN outcomes ELSE IF Len(all) > MaxOutcomes THEN Tail(all) ELSE all
    BY <1>2 DEF Recorded
  <1> HIDE DEF o
  <1>4. /\ all \in Seq(Outcome) /\ Len(outcomes) \in Nat /\ Len(all) = Len(outcomes) + 1
        /\ DOMAIN outcomes = 1..Len(outcomes) /\ DOMAIN all = 1..(Len(outcomes) + 1)
        /\ all[Len(outcomes) + 1] = o /\ \A i \in 1..Len(outcomes) : all[i] = outcomes[i]
    BY <1>1, <1>2, Appended
  <1>5. CASE Entry(c) # {}
    <2>1. outcomes' = outcomes
      BY <1>3, <1>5
    <2>2. \A i \in DOMAIN outcomes' : i \in Nat /\ i + 0 \in DOMAIN outcomes /\ outcomes'[i] = outcomes[i + 0] /\ i + 0 # last
      BY <1>4, <2>1
    <2>3. last \in Nat
      BY <1>4
    <2> HIDE DEF last
    <2>4. QED
      BY <1>1, <2>1, <2>2, <2>3
  <1>6. CASE Entry(c) = {} /\ Len(all) > MaxOutcomes
    <2>1. outcomes' = Tail(all) /\ all # <<>>
      BY <1>3, <1>4, <1>6
    <2>2. /\ outcomes' \in Seq(Outcome) /\ Len(outcomes') = Len(outcomes)
          /\ DOMAIN outcomes' = 1..Len(outcomes) /\ \A i \in 1..Len(outcomes) : outcomes'[i] = all[i + 1]
      BY <1>4, <2>1, Tailed
    <2>3. \A i \in DOMAIN outcomes' :
            /\ i \in Nat
            /\ \/ i + 1 \in DOMAIN outcomes /\ outcomes'[i] = outcomes[i + 1] /\ i + 1 # last
               \/ i + 1 = last /\ outcomes'[i] = o
      BY <1>4, <2>2
    <2>4. last \in Nat
      BY <1>4
    <2> HIDE DEF last
    <2>5. QED
      BY <1>1, <1>6, <2>2, <2>3, <2>4 DEF o
  <1>7. CASE Entry(c) = {} /\ ~(Len(all) > MaxOutcomes)
    <2>1. outcomes' = all /\ Len(all) <= MaxOutcomes
      BY <1>1, <1>3, <1>4, <1>7
    <2>2. \A i \in DOMAIN outcomes' :
            /\ i \in Nat
            /\ \/ i + 0 \in DOMAIN outcomes /\ outcomes'[i] = outcomes[i + 0] /\ i + 0 # last
               \/ i + 0 = last /\ outcomes'[i] = o
      BY <1>4, <2>1
    <2>3. last \in Nat
      BY <1>4
    <2> HIDE DEF last
    <2>4. QED
      BY <1>4, <1>7, <2>1, <2>2, <2>3 DEF o
  <1>8. QED
    BY <1>5, <1>6, <1>7

\* A command is accepted, recorded and sent, under a new number; its id may be an old one.
LEMMA SubmitKeeps ==
    ASSUME InteractionInv, NEW r \in Request, NEW c \in 1..(Len(sent) + 1), Submit(c, r)
    PROVE  InteractionInv'
  <1>1. /\ LinkTypeOK /\ UnblockTypeOK /\ WaitingInv /\ BusyInv /\ KnownInv /\ CarrierInv /\ AskedInv /\ TruthInv
        /\ left.commands > 0 /\ SubmissionStatus(c, r) = 202 /\ left' = [left EXCEPT !.commands = @ - 1]
        /\ UNCHANGED <<conn, projected, stale, queries, toGateway, plug, collection, calls, pending, resolvedBy, place>>
    BY DEF InteractionInv, Submit, pluginVars, openCodeVars
  <1>2. PICK n : n = Len(sent) + 1
    OBVIOUS
  <1>3. PICK new \in Sent : new = [id |-> c, request |-> r] /\ new.id = c /\ new.request = r
    <2>1. /\ [id |-> c, request |-> r] \in Sent
          /\ [id |-> c, request |-> r].id = c /\ [id |-> c, request |-> r].request = r
      BY <1>1, SentAre DEF Sent
    <2>2. QED
      BY <2>1
  <1>4. /\ sent' \in Seq(Sent) /\ Len(sent) \in Nat /\ n \in Nat \ {0} /\ n \notin DOMAIN sent
        /\ DOMAIN sent = 1..Len(sent) /\ DOMAIN sent' = DOMAIN sent \cup {n}
        /\ sent'[n] = new /\ \A i \in DOMAIN sent : sent'[i] = sent[i]
    <2>1. sent \in Seq(Sent) /\ sent' = Append(sent, new)
      BY <1>1, <1>3 DEF UnblockTypeOK, Submit
    <2>2. /\ sent' \in Seq(Sent) /\ Len(sent) \in Nat /\ DOMAIN sent = 1..Len(sent)
          /\ DOMAIN sent' = 1..(Len(sent) + 1)
          /\ sent'[Len(sent) + 1] = new /\ \A i \in 1..Len(sent) : sent'[i] = sent[i]
      BY <2>1, Appended
    <2>3. QED
      BY <1>2, <2>2
  <1>5. /\ \A m \in DOMAIN sent : IdOf(m)' = IdOf(m) /\ RequestOf(m)' = RequestOf(m) /\ m # n
        /\ IdOf(n)' = c /\ RequestOf(n)' = r
        /\ \A d : Repeated(d) => Repeated(d)'
        /\ \A m \in DOMAIN sent : IdOf(m) = c => Repeated(c)'
    BY <1>3, <1>4 DEF IdOf, RequestOf, Repeated
  <1>6. /\ conn # None /\ r \in projected /\ Seen(r)
        /\ \A x \in commands :
             /\ RequestOf(x.cmd) # r
             /\ ~(IdOf(x.cmd) = c /\ SameKind(RequestOf(x.cmd), r))
    <2>1. \A x \in commands : RequestOf(x.cmd) \in Request
      BY <1>1, SentAre DEF KnownInv
    <2>2. QED
      BY <1>1, <2>1 DEF SubmissionStatus, WaitingInv, AskedInv, SameKind
  <1>7. PICK e \in Command : e = [conn |-> conn, cmd |-> n] /\ e.conn = conn /\ e.cmd = n
    <2>1. /\ [conn |-> conn, cmd |-> n] \in Command
          /\ [conn |-> conn, cmd |-> n].conn = conn /\ [conn |-> conn, cmd |-> n].cmd = n
      BY <1>1, <1>4 DEF Command, LinkTypeOK
    <2>2. QED
      BY <2>1
  <1>8. PICK f \in PluginFrame : f = [type |-> "command", cmd |-> n] /\ f.type = "command" /\ f.cmd = n
    <2>1. /\ [type |-> "command", cmd |-> n] \in PluginFrame
          /\ [type |-> "command", cmd |-> n].type = "command" /\ [type |-> "command", cmd |-> n].cmd = n
      BY <1>4 DEF PluginFrame
    <2>2. QED
      BY <2>1
  <1>9. PICK o : /\ o = [cmd |-> n, told |-> 0, status |-> "accepted"]
                 /\ o.cmd = n /\ o.told = 0 /\ o.status = "accepted"
    <2>1. LET a == [cmd |-> n, told |-> 0, status |-> "accepted"] IN a.cmd = n /\ a.told = 0 /\ a.status = "accepted"
      OBVIOUS
    <2>2. QED
      BY <2>1
  <1>10. commands' = commands \cup {e} /\ outcomes' = Recorded(c, n) /\ toPlugin' = Append(toPlugin, f)
    BY <1>2, <1>7, <1>8 DEF Submit
  <1>11. /\ outcomes' \in Seq(Outcome) /\ Len(outcomes') <= MaxOutcomes
         /\ \E m \in {0, 1}, last \in Nat : \A i \in DOMAIN outcomes' :
              /\ i \in Nat
              /\ \/ i + m \in DOMAIN outcomes /\ outcomes'[i] = outcomes[i + m] /\ i + m # last
                 \/ i + m = last /\ outcomes'[i] = o /\ Entry(c) = {}
    BY <1>1, <1>4, <1>9, <1>10, RecordedIs
  <1>12. PICK m \in {0, 1}, last \in Nat : \A i \in DOMAIN outcomes' :
           /\ i \in Nat
           /\ \/ i + m \in DOMAIN outcomes /\ outcomes'[i] = outcomes[i + m] /\ i + m # last
              \/ i + m = last /\ outcomes'[i] = o /\ Entry(c) = {}
    BY <1>11
  <1>13. PICK l \in Nat \ {0} :
           /\ toPlugin' \in Seq(PluginFrame) /\ DOMAIN toPlugin' = 1..l /\ DOMAIN toPlugin = 1..(l - 1)
           /\ toPlugin'[l] = f /\ \A i \in 1..(l - 1) : toPlugin'[i] = toPlugin[i]
    <2>1. toPlugin \in Seq(PluginFrame)
      BY <1>1 DEF LinkTypeOK
    <2>2. /\ toPlugin' \in Seq(PluginFrame) /\ Len(toPlugin) \in Nat
          /\ DOMAIN toPlugin = 1..Len(toPlugin) /\ DOMAIN toPlugin' = 1..(Len(toPlugin) + 1)
          /\ toPlugin'[Len(toPlugin) + 1] = f /\ \A i \in 1..Len(toPlugin) : toPlugin'[i] = toPlugin[i]
      BY <1>10, <2>1, Appended
    <2>3. Len(toPlugin) + 1 \in Nat \ {0} /\ (Len(toPlugin) + 1) - 1 = Len(toPlugin)
      BY <2>2
    <2>4. QED
      BY <2>2, <2>3
  <1>14. \A i \in DOMAIN toPlugin' : \/ i = l /\ toPlugin'[i] = f
                                     \/ i # l /\ i \in DOMAIN toPlugin /\ toPlugin'[i] = toPlugin[i]
    BY <1>13
  <1>15. LinkTypeOK'
    <2>1. left.commands - 1 \in Nat
      BY <1>1 DEF LinkTypeOK, Budget
    <2>2. QED
      BY <1>1, <1>13, <2>1 DEF LinkTypeOK, Budget
  <1>16. UnblockTypeOK'
    BY <1>1, <1>4, <1>10, <1>11 DEF UnblockTypeOK
  <1>17. /\ \A x \in commands \cup calls : x.cmd \in DOMAIN sent
         /\ \A k \in DOMAIN outcomes : outcomes[k].cmd \in DOMAIN sent /\ outcomes[k].told \in DOMAIN sent \cup {0}
         /\ \A i \in DOMAIN toPlugin : IsCommand(i) => toPlugin[i].cmd \in DOMAIN sent
         /\ \A i \in DOMAIN toGateway : IsResult(i) => toGateway[i].cmd \in DOMAIN sent
         /\ \A s \in Request : resolvedBy[s] \in {None, Local} \cup DOMAIN sent /\ resolvedBy[s] # n
    BY <1>1, <1>4 DEF KnownInv, None, Local
  <1>18. \A d : Carried(d)' => Carried(d) \/ d = n
    BY <1>1, <1>8, <1>14 DEF Carried, IsCommand
  <1>19. WaitingInv'
    <2>1. \A x, y \in commands' :
            /\ x.conn = conn'
            /\ \/ RequestOf(x.cmd)' = RequestOf(y.cmd)'
               \/ IdOf(x.cmd)' = IdOf(y.cmd)' /\ SameKind(RequestOf(x.cmd)', RequestOf(y.cmd)')
               => x = y
      <3>1. ASSUME NEW x \in commands
            PROVE  /\ IdOf(x.cmd)' = IdOf(x.cmd) /\ RequestOf(x.cmd)' = RequestOf(x.cmd)
                   /\ RequestOf(x.cmd) # r /\ ~(IdOf(x.cmd) = c /\ SameKind(RequestOf(x.cmd), r))
        BY <1>5, <1>6, <1>17
      <3>2. QED
        BY <1>1, <1>5, <1>7, <1>10, <3>1 DEF WaitingInv, SameKind
    <2>2. \A k \in DOMAIN outcomes' :
            outcomes'[k].status = "accepted" => \E x \in commands' : IdOf(x.cmd)' = sent'[outcomes'[k].cmd].id
      <3>1. SUFFICES ASSUME NEW k \in DOMAIN outcomes', outcomes'[k].status = "accepted"
                     PROVE  \E x \in commands' : \A d : d = outcomes'[k].cmd => IdOf(x.cmd)' = IdOf(d)'
        BY DEF IdOf
      <3>2. CASE outcomes'[k] = o
        BY <1>7, <1>9, <1>10, <3>2
      <3>3. CASE k + m \in DOMAIN outcomes /\ outcomes'[k] = outcomes[k + m]
        <4>1. PICK x \in commands : IdOf(x.cmd) = IdOf(outcomes[k + m].cmd)
          BY <1>1, <3>1, <3>3 DEF WaitingInv
        <4>2. IdOf(x.cmd)' = IdOf(x.cmd) /\ \A d : d = outcomes[k + m].cmd => IdOf(d)' = IdOf(d)
          BY <1>5, <1>17, <3>3
        <4>3. QED
          BY <1>10, <3>3, <4>1, <4>2
      <3>4. QED
        BY <1>12, <3>2, <3>3
    <2>3. ASSUME NEW j \in DOMAIN outcomes', NEW k \in DOMAIN outcomes', NEW a, NEW b,
                 a = outcomes'[j].cmd, b = outcomes'[k].cmd, IdOf(a)' = IdOf(b)'
          PROVE  j = k
      <3>1. ASSUME NEW i \in DOMAIN outcomes', i + m \in DOMAIN outcomes, outcomes'[i] = outcomes[i + m], NEW d,
                   d = outcomes'[i].cmd
            PROVE  d \in DOMAIN sent /\ IdOf(d)' = IdOf(d) /\ (Entry(c) = {} => IdOf(d)' # c)
        BY <1>5, <1>17, <3>1 DEF Entry
      <3>2. ASSUME NEW i \in DOMAIN outcomes', NEW d, d = outcomes'[i].cmd, outcomes'[i] = o
            PROVE  IdOf(d)' = c
        BY <1>5, <1>9, <3>2
      <3>3. CASE outcomes'[j] = o /\ j + m = last /\ Entry(c) = {}
        BY <1>12, <2>3, <3>1, <3>2, <3>3
      <3>4. CASE outcomes'[k] = o /\ k + m = last /\ Entry(c) = {}
        BY <1>12, <2>3, <3>1, <3>2, <3>4
      <3>5. CASE /\ j + m \in DOMAIN outcomes /\ outcomes'[j] = outcomes[j + m]
                 /\ k + m \in DOMAIN outcomes /\ outcomes'[k] = outcomes[k + m]
        <4>1. IdOf(a) = IdOf(b)
          BY <2>3, <3>1, <3>5
        <4>2. j + m = k + m
          BY <1>1, <2>3, <3>5, <4>1 DEF WaitingInv
        <4>3. QED
          BY <1>12, <4>2
      <3>6. QED
        BY <1>12, <3>3, <3>4, <3>5
    <2>4. \A j, k \in DOMAIN outcomes' : IdOf(outcomes[j].cmd)' = IdOf(outcomes[k].cmd)' => j = k
      BY <2>3 DEF IdOf
    <2>5. QED
      BY <1>1, <1>6, <2>1, <2>2, <2>4 DEF WaitingInv, IdOf, RequestOf, SameKind
  <1>20. BusyInv'
    <2>1. SUFFICES ASSUME NEW k \in DOMAIN outcomes', NEW x \in commands', outcomes'[k].status # "accepted", NEW d, NEW i,
                          d = outcomes'[k].cmd, i = IdOf(x.cmd)', i = IdOf(d)'
                   PROVE  Repeated(i)'
      BY DEF BusyInv, IdOf, Repeated
    <2>2. k + m \in DOMAIN outcomes /\ outcomes'[k] = outcomes[k + m]
      BY <1>9, <1>12, <2>1
    <2>3. d \in DOMAIN sent /\ IdOf(d) = i
      BY <1>5, <1>17, <2>1, <2>2
    <2>4. CASE x \in commands
      <3>1. IdOf(x.cmd) = i
        BY <1>5, <1>17, <2>1, <2>4
      <3>2. Repeated(i)
        BY <1>1, <2>1, <2>2, <2>3, <2>4, <3>1 DEF BusyInv
      <3>3. QED
        BY <1>5, <3>2
    <2>5. CASE x = e
      BY <1>5, <1>7, <2>1, <2>3, <2>5
    <2>6. QED
      BY <1>10, <2>4, <2>5
  <1>21. KnownInv'
    <2>1. \A x \in commands' \cup calls' : x.cmd \in DOMAIN sent'
      BY <1>1, <1>4, <1>7, <1>10, <1>17
    <2>2. \A k \in DOMAIN outcomes' : outcomes'[k].cmd \in DOMAIN sent' /\ outcomes'[k].told \in DOMAIN sent' \cup {0}
      BY <1>4, <1>9, <1>12, <1>17
    <2>3. \A i \in DOMAIN toPlugin' : IsCommand(i)' => toPlugin'[i].cmd \in DOMAIN sent'
      BY <1>4, <1>8, <1>14, <1>17 DEF IsCommand
    <2>4. \A i \in DOMAIN toGateway' : IsResult(i)' => toGateway'[i].cmd \in DOMAIN sent'
      BY <1>1, <1>4, <1>17 DEF IsResult
    <2>5. \A s \in Request : resolvedBy'[s] \in {None, Local} \cup DOMAIN sent'
      BY <1>1, <1>4, <1>17
    <2>6. QED
      BY <2>1, <2>2, <2>3, <2>4, <2>5 DEF KnownInv
  <1>22. CarrierInv'
    <2>1. \A x, y \in calls' : x.cmd = y.cmd => x = y
      BY <1>1 DEF CarrierInv
    <2>2. \A i, j \in DOMAIN toPlugin' : IsCommand(i)' /\ IsCommand(j)' /\ toPlugin'[i].cmd = toPlugin'[j].cmd => i = j
      BY <1>1, <1>4, <1>8, <1>14, <1>17 DEF CarrierInv, IsCommand
    <2>3. \A x \in calls' : \A i \in DOMAIN toPlugin' : IsCommand(i)' => toPlugin'[i].cmd # x.cmd
      BY <1>1, <1>4, <1>8, <1>14, <1>17 DEF CarrierInv, IsCommand
    <2>4. \A s \in Request : ~Carried(resolvedBy[s])'
      <3>1. \A d : \A s \in Request : d = resolvedBy[s] => ~Carried(d)'
        BY <1>1, <1>17, <1>18 DEF CarrierInv
      <3>2. QED
        BY <1>1, <3>1 DEF Carried, IsCommand
    <2>5. \A d \in DOMAIN sent : Seen(RequestOf(d)) => Seen(RequestOf(d))'
      BY <1>1, <1>5 DEF Seen
    <2>6. Seen(RequestOf(n))'
      BY <1>1, <1>5, <1>6 DEF Seen
    <2>7. \A x \in calls' : Seen(RequestOf(x.cmd))'
      BY <1>1, <1>17, <2>5 DEF CarrierInv
    <2>8. ASSUME NEW i \in DOMAIN toPlugin', IsCommand(i)', NEW d, d = toPlugin'[i].cmd
          PROVE  Seen(RequestOf(d))'
      <3>1. CASE d = n
        BY <2>6, <3>1
      <3>2. CASE i \in DOMAIN toPlugin /\ toPlugin'[i] = toPlugin[i]
        <4>1. IsCommand(i)
          BY <2>8, <3>2 DEF IsCommand
        <4>2. d \in DOMAIN sent /\ Seen(RequestOf(d))
          BY <1>1, <1>17, <2>8, <3>2, <4>1 DEF CarrierInv
        <4>3. QED
          BY <2>5, <4>2
      <3>3. QED
        BY <1>8, <1>14, <2>8, <3>1, <3>2
    <2>9. \A i \in DOMAIN toPlugin' : IsCommand(i)' => Seen(RequestOf(toPlugin[i].cmd))'
      BY <2>8 DEF Seen, RequestOf
    <2>10. QED
      BY <2>1, <2>2, <2>3, <2>4, <2>7, <2>9 DEF CarrierInv
  <1>23. AskedInv'
    BY <1>1 DEF AskedInv, Seen
  <1>24. TruthInv'
    <2>1. ASSUME NEW d \in DOMAIN sent, NEW status, Truthful(d, RequestOf(d), status)
          PROVE  Truthful(d, RequestOf(d), status)'
      <3>1. PICK q : q = RequestOf(d) /\ q = RequestOf(d)'
        BY <1>5
      <3>2. Carried(d)' => Carried(d)
        BY <1>5, <1>18
      <3>3. Truthful(d, q, status)'
        BY <1>1, <2>1, <3>1, <3>2 DEF Truthful
      <3>4. QED
        BY <3>1, <3>3 DEF Truthful
    <2>2. ASSUME NEW k \in DOMAIN outcomes', NEW p, p = outcomes'[k]
          PROVE  /\ p.told = 0 => p.status \in {"accepted", "result_unknown"}
                 /\ p.told # 0 => IdOf(p.told)' = IdOf(p.cmd)' /\ Truthful(p.told, RequestOf(p.told), p.status)'
      <3>1. CASE p = o
        BY <1>9, <3>1
      <3>2. CASE k + m \in DOMAIN outcomes /\ p = outcomes[k + m]
        <4>1. /\ p.told \in DOMAIN sent \cup {0} /\ p.cmd \in DOMAIN sent
              /\ p.told = 0 => p.status \in {"accepted", "result_unknown"}
              /\ p.told # 0 => IdOf(p.told) = IdOf(p.cmd) /\ Truthful(p.told, RequestOf(p.told), p.status)
          BY <1>1, <1>17, <3>2 DEF TruthInv
        <4>2. QED
          BY <1>5, <2>1, <4>1
      <3>3. QED
        BY <1>12, <2>2, <3>1, <3>2
    <2>3. ASSUME NEW i \in DOMAIN toGateway', NEW g, g = toGateway'[i], g.type = "result"
          PROVE  Truthful(g.cmd, RequestOf(g.cmd), g.status)'
      <3>1. g.cmd \in DOMAIN sent /\ Truthful(g.cmd, RequestOf(g.cmd), g.status)
        BY <1>1, <1>17, <2>3 DEF TruthInv, IsResult
      <3>2. QED
        BY <2>1, <3>1
    <2>4. QED
      BY <2>2, <2>3 DEF TruthInv, IsResult, Truthful, RequestOf, IdOf, Carried, IsCommand
  <1>25. QED
    BY <1>15, <1>16, <1>19, <1>20, <1>21, <1>22, <1>23, <1>24 DEF InteractionInv

\* Every step of the unblock loop.
LEMMA InteractionKept ==
    ASSUME InteractionInv, InteractionStep
    PROVE  InteractionInv'
  <1>1. ASSUME GatewayStep
        PROVE  InteractionInv'
    BY <1>1, AttachKeeps, QueryKeeps, TimeoutsKeep, SubmitKeeps, ReceiveKeeps DEF GatewayStep
  <1>2. ASSUME PluginStep
        PROVE  InteractionInv'
    <2>1. OnServerFrame => Head(toPlugin).type = "snapshot" \/ Head(toPlugin).type = "command"
      BY DEF OnServerFrame
    <2>2. QED
      BY <1>2, <2>1, DropKeeps, QueryHeard, CommandHeard, CollectionEndsKeeps, ReadListKeeps, CallsKeep DEF PluginStep
  <1>3. ASSUME OpenCodeStep
        PROVE  InteractionInv'
    BY <1>3, AsksKeep, CallsKeep DEF OpenCodeStep
  <1>4. QED
    BY <1>1, <1>2, <1>3 DEF InteractionStep

-----------------------------------------------------------------------------
(* Prompts and catalogues beside the unblock loop *)

\* A step that shares only the frames with the unblock loop.
LEMMA OthersKeep ==
    ASSUME InteractionInv, UNCHANGED restVars, LinkTypeOK', PluginHears,
           NEW N, GatewayHears(N), \A f \in N : f.type \notin {"snapshot", "result"}
    PROVE  InteractionInv'
  <1>1. LinkTypeOK /\ UnblockTypeOK /\ CarrierInv /\ AskedInv
    BY DEF InteractionInv
  <1>2. UNCHANGED <<conn, projected, stale, queries, commands, outcomes, plug, collection, calls, pending, resolvedBy,
                    place, sent>>
    BY DEF restVars, openCodeVars
  <1>3. UnblockTypeOK'
    BY <1>1, <1>2 DEF UnblockTypeOK
  <1>4. UNCHANGED gatewayVars
    BY <1>2 DEF gatewayVars
  <1>5. \A f \in N : Right(f)
    BY DEF Right
  <1>6. QED
    BY <1>1, <1>2, <1>3, <1>4, <1>5, PluginShrinks DEF Seen, CarrierInv, AskedInv

\* No frame of a catalogue comes.
CatalogsRest ==
    /\ left'.catalogs = left.catalogs
    /\ \A i \in DOMAIN toPlugin' :
         toPlugin'[i].type # "catalog" \/ \E j \in DOMAIN toPlugin : toPlugin'[i] = toPlugin[j]
    /\ \A i \in DOMAIN toGateway' :
         toGateway'[i].type # "catalog" \/ \E j \in DOMAIN toGateway : toGateway'[i] = toGateway[j]

\* The unblock loop does not touch catalogues.
LEMMA InteractionRests ==
    ASSUME InteractionInv, InteractionInv', InteractionStep \/ LoseConnection
    PROVE  CatalogsRest
  <1>1. LinkTypeOK /\ UnblockTypeOK
    BY DEF InteractionInv
  <1>2. left'.catalogs = left.catalogs
    <2>1. left' = left \/ \E f \in {"conns", "queries", "commands", "asks", "moves"} : left' = [left EXCEPT ![f] = @ - 1]
      BY DEF InteractionStep, GatewayStep, PluginStep, OpenCodeStep, LoseConnection, Attach, Query, QueryTimesOut,
             Submit, CommandTimesOut, ExpireOutcome, Receive, Drop, OnServerFrame, CollectionEnds, Collected, ReadList,
             CallTimesOut, Ask, AnswerLocally, Move, ExecuteCall, CheckCall, FailCall, Disconnect, Restart
    <2>2. QED
      BY <1>1, <2>1 DEF LinkTypeOK, Budget
  <1>3. \A i \in DOMAIN toPlugin' :
          toPlugin'[i].type # "catalog" \/ \E j \in DOMAIN toPlugin : toPlugin'[i] = toPlugin[j]
    <2>1. \/ toPlugin' = toPlugin \/ toPlugin' = <<>>
          \/ toPlugin # <<>> /\ toPlugin' = Tail(toPlugin)
          \/ Query \/ \E r \in Request, c \in 1..(Len(sent) + 1) : Submit(c, r)
      BY DEF InteractionStep, GatewayStep, PluginStep, OpenCodeStep, LoseConnection, Attach, QueryTimesOut,
             CommandTimesOut, ExpireOutcome, Receive, Drop, OnServerFrame, CollectionEnds, Collected, ReadList,
             CallTimesOut, Ask, AnswerLocally, Move, ExecuteCall, CheckCall, FailCall, Disconnect, Restart, pluginVars
    <2>2. toPlugin \in Seq(PluginFrame)
      BY <1>1 DEF LinkTypeOK
    <2>3. ASSUME NEW f, f.type # "catalog", toPlugin' = Append(toPlugin, f)
          PROVE  \A i \in DOMAIN toPlugin' : toPlugin'[i].type # "catalog" \/ \E j \in DOMAIN toPlugin : toPlugin'[i] = toPlugin[j]
      BY <2>2, <2>3
    <2>4. CASE Query
      BY <2>3, <2>4 DEF Query
    <2>5. CASE \E r \in Request, c \in 1..(Len(sent) + 1) : Submit(c, r)
      BY <2>3, <2>5 DEF Submit
    <2>6. QED
      BY <1>1, <2>1, <2>4, <2>5, ToPlugin
  <1>4. \A i \in DOMAIN toGateway' :
          toGateway'[i].type # "catalog" \/ \E j \in DOMAIN toGateway : toGateway'[i] = toGateway[j]
    <2>1. \/ toGateway' = toGateway \/ toGateway' = <<>>
          \/ toGateway # <<>> /\ toGateway' = Tail(toGateway)
          \/ CollectionEnds
          \/ \E x \in calls, status \in CommandStatus \ {"accepted"} : Answer(x, status)
      BY DEF InteractionStep, GatewayStep, PluginStep, OpenCodeStep, LoseConnection, Attach, Query, QueryTimesOut,
             Submit, CommandTimesOut, ExpireOutcome, Receive, Drop, OnServerFrame, ReadList, CallTimesOut, Ask,
             AnswerLocally, Move, ExecuteCall, CheckCall, FailCall, Disconnect, Restart, CommandStatus
    <2>2. CASE toGateway' = toGateway \/ toGateway' = <<>> \/ (toGateway # <<>> /\ toGateway' = Tail(toGateway))
      BY <1>1, <2>2, ToGateway DEF GatewayHears
    <2>3. CASE CollectionEnds
      <3>1. collection # <<>> /\ (Collected(collection[1].found) \/ Collected({}))
        BY <2>3 DEF CollectionEnds
      <3>2. collection[1] \in Collecting
        BY <1>1, <3>1 DEF UnblockTypeOK
      <3>3. collection[1].found \in SUBSET Request
        BY <3>2 DEF Collecting
      <3>4. \E N : GatewayHears(N) /\ \A f \in N : f.type = "snapshot"
        BY <1>1, <3>1, <3>3, CollectedHeard
      <3>5. QED
        BY <3>4 DEF GatewayHears
    <2>4. CASE \E x \in calls, status \in CommandStatus \ {"accepted"} : Answer(x, status)
      <3>1. PICK x \in calls, status \in CommandStatus \ {"accepted"} : Answer(x, status)
        BY <2>4
      <3>2. GatewayHears({[type |-> "result", cmd |-> x.cmd, status |-> status]})
        BY <3>1, AnswerHeard
      <3>3. QED
        BY <3>2 DEF GatewayHears
    <2>5. QED
      BY <2>1, <2>2, <2>3, <2>4
  <1>5. QED
    BY <1>2, <1>3, <1>4 DEF CatalogsRest

\* A prompt's step keeps the unblock loop and touches no catalogue.
LEMMA PromptsKeep ==
    ASSUME InteractionInv, CatalogTypeOK, PromptStep
    PROVE  /\ InteractionInv' /\ CatalogsRest /\ UNCHANGED catalogVars
           /\ prompts' \subseteq Nat \X Nat
           /\ promptCalls' \subseteq [conn : Nat, cmd : Nat, copy : Nat, live : BOOLEAN]
  <1>1. /\ LinkTypeOK /\ toPlugin \in Seq(PluginFrame) /\ toGateway \in Seq(GatewayFrame)
        /\ prompts \subseteq Nat \X Nat
        /\ promptCalls \subseteq [conn : Nat, cmd : Nat, copy : Nat, live : BOOLEAN]
    BY DEF InteractionInv, LinkTypeOK, CatalogTypeOK
  <1>2. UNCHANGED restVars /\ UNCHANGED catalogVars /\ conn' = conn /\ plug' = plug
    BY DEF PromptStep, SendPrompt, PromptTimesOut, PromptResult, PromptCommand, PromptCallTimesOut, PromptAnswered,
           restVars, catalogVars, ivars, gatewayVars, pluginVars, openCodeVars
  <1>3. CASE \E c \in 1..MaxPrompts : SendPrompt(c)
    <2>1. PICK c \in 1..MaxPrompts : SendPrompt(c)
      BY <1>3
    <2>2. c \in Nat /\ conn \in Nat /\ left.prompts \in Nat /\ left.prompts - 1 \in Nat
      BY <1>1, <2>1 DEF SendPrompt, LinkTypeOK, Budget
    <2>3. PICK f \in PluginFrame : f.type = "prompt" /\ toPlugin' = Append(toPlugin, f)
      BY <2>1, <2>2 DEF SendPrompt, PluginFrame
    <2>4. /\ toPlugin' \in Seq(PluginFrame) /\ PluginHears
          /\ \A i \in DOMAIN toPlugin' : toPlugin'[i] = f \/ \E j \in DOMAIN toPlugin : toPlugin'[i] = toPlugin[j]
      BY <1>1, <2>3, ToPlugin
    <2>5. toGateway' = toGateway /\ left' = [left EXCEPT !.prompts = @ - 1]
      BY <2>1 DEF SendPrompt
    <2>6. GatewayHears({})
      BY <1>1, <2>5, ToGateway
    <2>7. LinkTypeOK' /\ left'.catalogs = left.catalogs
      BY <1>1, <1>2, <2>2, <2>4, <2>5 DEF LinkTypeOK, Budget
    <2>8. prompts' \subseteq Nat \X Nat /\ promptCalls' = promptCalls
      BY <1>1, <2>1, <2>2 DEF SendPrompt
    <2>9. InteractionInv'
      BY <1>2, <2>4, <2>6, <2>7, OthersKeep
    <2>10. QED
      BY <1>1, <1>2, <2>3, <2>4, <2>5, <2>7, <2>8, <2>9 DEF CatalogsRest
  <1>4. CASE ~\E c \in 1..MaxPrompts : SendPrompt(c)
    <2>1. \/ PromptTimesOut \/ PromptResult \/ PromptCommand
          \/ \E x \in promptCalls : PromptCallTimesOut(x) \/ PromptAnswered(x)
      BY <1>4 DEF PromptStep
    <2>2. left' = left /\ (toPlugin' = toPlugin \/ (toPlugin # <<>> /\ toPlugin' = Tail(toPlugin)))
      BY <2>1 DEF PromptTimesOut, PromptResult, PromptCommand, PromptCallTimesOut, PromptAnswered, ivars
    <2>3. /\ toPlugin' \in Seq(PluginFrame) /\ PluginHears
          /\ \A i \in DOMAIN toPlugin' : \E j \in DOMAIN toPlugin : toPlugin'[i] = toPlugin[j]
      BY <1>1, <2>2, ToPlugin
    <2>4. \E N : GatewayHears(N) /\ \A f \in N : f.type = "prompt"
      <3>1. CASE toGateway' = toGateway \/ (toGateway # <<>> /\ toGateway' = Tail(toGateway))
        <4>1. GatewayHears({})
          BY <1>1, <3>1, ToGateway
        <4>2. QED
          BY <4>1
      <3>2. CASE \E x \in promptCalls : Reply(x.conn, <<[type |-> "prompt", cmd |-> x.cmd]>>)
        <4>1. PICK x \in promptCalls : Reply(x.conn, <<[type |-> "prompt", cmd |-> x.cmd]>>)
          BY <3>2
        <4>2. [type |-> "prompt", cmd |-> x.cmd] \in GatewayFrame
          BY <1>1 DEF GatewayFrame
        <4>3. GatewayHears({[type |-> "prompt", cmd |-> x.cmd]})
          BY <1>1, <4>1, <4>2, ToGateway
        <4>4. QED
          BY <4>3
      <3>3. QED
        BY <2>1, <3>1, <3>2 DEF PromptTimesOut, PromptResult, PromptCommand, PromptCallTimesOut, PromptAnswered,
                                PromptEnds, ivars
    <2>5. PICK N : GatewayHears(N) /\ \A f \in N : f.type = "prompt"
      BY <2>4
    <2>6. LinkTypeOK'
      BY <1>1, <1>2, <2>2, <2>3, <2>5 DEF LinkTypeOK, GatewayHears
    <2>7. prompts' \subseteq Nat \X Nat
      BY <1>1, <2>1 DEF PromptTimesOut, PromptResult, PromptCommand, PromptCallTimesOut, PromptAnswered
    <2>8. promptCalls' \subseteq [conn : Nat, cmd : Nat, copy : Nat, live : BOOLEAN]
      <3>1. CASE PromptCommand
        <4>1. toPlugin[1] \in PluginFrame /\ Head(toPlugin) = toPlugin[1]
          BY <1>1, <3>1, Tailed DEF PromptCommand
        <4>2. Head(toPlugin).cmd \in Nat /\ Head(toPlugin).copy \in Nat /\ plug \in Nat
          BY <1>1, <3>1, <4>1 DEF PromptCommand, PluginFrame, LinkTypeOK
        <4>3. [conn |-> plug, cmd |-> Head(toPlugin).cmd, copy |-> Head(toPlugin).copy, live |-> TRUE]
                \in [conn : Nat, cmd : Nat, copy : Nat, live : BOOLEAN]
          BY <4>2
        <4>4. promptCalls' = promptCalls \cup
                {[conn |-> plug, cmd |-> Head(toPlugin).cmd, copy |-> Head(toPlugin).copy, live |-> TRUE]}
          BY <3>1 DEF PromptCommand
        <4>5. QED
          BY <1>1, <4>3, <4>4
      <3>2. CASE \E x \in promptCalls : PromptCallTimesOut(x)
        BY <1>1, <3>2 DEF PromptCallTimesOut
      <3>3. QED
        BY <1>1, <2>1, <3>1, <3>2 DEF PromptTimesOut, PromptResult, PromptAnswered
    <2>9. InteractionInv'
      BY <1>2, <2>2, <2>3, <2>5, <2>6, OthersKeep
    <2>10. QED
      BY <1>2, <2>2, <2>3, <2>5, <2>7, <2>8, <2>9 DEF CatalogsRest, GatewayHears
  <1>5. QED
    BY <1>3, <1>4

-----------------------------------------------------------------------------
(* Catalogues *)

\* What a history may do while no request comes.
HistoryMoves ==
    /\ DOMAIN asked' = DOMAIN asked /\ catalogs' \subseteq catalogs /\ left'.catalogs = left.catalogs
    /\ \A k \in DOMAIN asked : /\ asked'[k].bookmarks = asked[k].bookmarks
                               /\ asked[k].since \subseteq asked'[k].since
                               /\ asked'[k].throughout \subseteq asked[k].throughout

\* A frame, a listing and a return are right for their requests.
FrameDown(f) == f.type = "catalog" => f.request > left.catalogs /\ AsAsked(f.request, f.ids)
ListingFits(x) ==
    x.request > left.catalogs /\ Complete(x.request, x.found, x.ids) /\ (~x.listed => x.found = {})
FrameUp(f) ==
    f.type = "catalog" =>
        f.request > left.catalogs /\ (f.status = "ready" => Complete(f.request, f.found, {}))
ReturnFits(k, a) ==
    a.status = "ready" =>
        /\ k > left.catalogs
        /\ a.found \subseteq asked[k].since
        /\ Small(k) => asked[k].bookmarks \cap asked[k].throughout \subseteq a.found

\* What is right stays so.
LEMMA CatalogStays ==
    ASSUME CatalogInv, HistoryMoves, CatalogTypeOK', HistoryInv',
           \A i \in DOMAIN toPlugin' : (\E j \in DOMAIN toPlugin : toPlugin'[i] = toPlugin[j]) \/ FrameDown(toPlugin[i])',
           \A x \in listings' : x \in listings \/ ListingFits(x)',
           \A i \in DOMAIN toGateway' : (\E j \in DOMAIN toGateway : toGateway'[i] = toGateway[j]) \/ FrameUp(toGateway[i])',
           \A k \in DOMAIN answered' : (k \in DOMAIN answered /\ answered'[k] = answered[k]) \/ ReturnFits(k, answered[k])'
    PROVE  CatalogInv'
  <1>1. CatalogTypeOK /\ ListingInv /\ ReturnedInv
    BY DEF CatalogInv
  <1>2. /\ \A k, found, ids : Complete(k, found, ids) => Complete(k, found, ids)'
        /\ \A k, ids : AsAsked(k, ids) => AsAsked(k, ids)'
    BY DEF Complete, Small, AsAsked, Waited, HistoryMoves
  <1>3. ListingInv'
    <2>1. \A i \in DOMAIN toPlugin' : FrameDown(toPlugin[i])'
      <3>1. \A f : FrameDown(f) => FrameDown(f)'
        BY <1>2 DEF FrameDown, HistoryMoves, AsAsked, Waited
      <3>2. \A j \in DOMAIN toPlugin : FrameDown(toPlugin[j])
        BY <1>1 DEF ListingInv, FrameDown
      <3>3. ASSUME NEW i \in DOMAIN toPlugin', NEW f, f = toPlugin'[i], FrameDown(f)'
            PROVE  FrameDown(toPlugin[i])'
        BY <3>3 DEF FrameDown, AsAsked, Waited
      <3>4. QED
        BY <3>1, <3>2, <3>3
    <2>2. \A x \in listings' : ListingFits(x)'
      BY <1>1, <1>2 DEF ListingFits, ListingInv, HistoryMoves, Complete, Small, Waited
    <2>3. \A i \in DOMAIN toGateway' : FrameUp(toGateway[i])'
      <3>1. \A f : FrameUp(f) => FrameUp(f)'
        BY <1>2 DEF FrameUp, HistoryMoves, Complete, Small, Waited
      <3>2. \A j \in DOMAIN toGateway : FrameUp(toGateway[j])
        BY <1>1 DEF ListingInv, FrameUp
      <3>3. ASSUME NEW i \in DOMAIN toGateway', NEW f, f = toGateway'[i], FrameUp(f)'
            PROVE  FrameUp(toGateway[i])'
        BY <3>3 DEF FrameUp, Complete, Small, Waited
      <3>4. QED
        BY <3>1, <3>2, <3>3
    <2>4. QED
      BY <2>1, <2>2, <2>3 DEF ListingInv, FrameDown, ListingFits, FrameUp
  <1>4. ReturnedInv'
    <2>1. ASSUME NEW k \in DOMAIN answered', k \in DOMAIN answered, answered'[k] = answered[k]
          PROVE  ReturnFits(k, answered[k])'
      <3>1. k \in DOMAIN asked
        BY <1>1, <2>1 DEF CatalogTypeOK
      <3>2. QED
        BY <1>1, <2>1, <3>1 DEF ReturnedInv, ReturnFits, Small, HistoryMoves
    <2>2. \A k \in DOMAIN answered' : ReturnFits(k, answered[k])'
      BY <2>1
    <2>3. QED
      BY <2>2 DEF ReturnedInv, ReturnFits
  <1>5. QED
    BY <1>3, <1>4 DEF CatalogInv

\* A step of the prompts or of the unblock loop keeps the catalogues.
LEMMA RestingKeeps ==
    ASSUME CatalogInv, CatalogsRest, UNCHANGED catalogVars, prompts' \subseteq Nat \X Nat,
           promptCalls' \subseteq [conn : Nat, cmd : Nat, copy : Nat, live : BOOLEAN]
    PROVE  CatalogInv'
  <1>1. /\ UNCHANGED <<catalogs, listings, sessions, asked, answered>>
        /\ CatalogTypeOK /\ HistoryInv /\ left'.catalogs = left.catalogs
    BY DEF catalogVars, CatalogInv, CatalogsRest
  <1>2. HistoryMoves
    BY <1>1 DEF HistoryMoves
  <1>3. CatalogTypeOK'
    BY <1>1 DEF CatalogTypeOK
  <1>4. HistoryInv'
    BY <1>1 DEF HistoryInv, Waited, Listable
  <1>5. /\ \A i \in DOMAIN toPlugin' :
             (\E j \in DOMAIN toPlugin : toPlugin'[i] = toPlugin[j]) \/ FrameDown(toPlugin[i])'
        /\ \A i \in DOMAIN toGateway' :
             (\E j \in DOMAIN toGateway : toGateway'[i] = toGateway[j]) \/ FrameUp(toGateway[i])'
    BY DEF CatalogsRest, FrameDown, FrameUp
  <1>6. QED
    BY <1>1, <1>2, <1>3, <1>4, <1>5, CatalogStays

\* The frame that ends a listing.
CatalogFrame(x, status) ==
    [type |-> "catalog", request |-> x.request, status |-> status, found |-> IF status = "ready" THEN x.found ELSE {}]

\* A catalogue's step keeps the unblock loop.
LEMMA CatalogsKeep ==
    ASSUME InteractionInv, CatalogTypeOK, CatalogStep
    PROVE  InteractionInv'
  <1>1. LinkTypeOK /\ toPlugin \in Seq(PluginFrame) /\ toGateway \in Seq(GatewayFrame) /\ listings \subseteq Listing
    BY DEF InteractionInv, LinkTypeOK, CatalogTypeOK
  <1>2. UNCHANGED restVars /\ conn' = conn /\ plug' = plug
    BY DEF CatalogStep, CollectSessions, CatalogTimesOut, CatalogResponse, AnswerCatalog, ListPage, LookUp, ListingEnds,
           SessionChanges, restVars, ivars, gatewayVars, pluginVars, openCodeVars
  <1>3. left' \in Budget
    <2>1. \/ left' = left
          \/ left.catalogs > 0 /\ left' = [left EXCEPT !.catalogs = @ - 1]
          \/ left.changes > 0 /\ left' = [left EXCEPT !.changes = @ - 1]
      BY DEF CatalogStep, CollectSessions, CatalogTimesOut, CatalogResponse, AnswerCatalog, ListPage, LookUp,
             ListingEnds, SessionChanges, ivars
    <2>2. /\ left.catalogs > 0 => left.catalogs - 1 \in Nat
          /\ left.changes > 0 => left.changes - 1 \in Nat
      BY <1>1 DEF LinkTypeOK, Budget
    <2>3. QED
      BY <1>1, <2>1, <2>2 DEF LinkTypeOK, Budget
  <1>4. toPlugin' \in Seq(PluginFrame) /\ PluginHears
    <2>1. CASE \E bookmarks \in SUBSET Session : CollectSessions(bookmarks)
      <3>1. PICK bookmarks \in SUBSET Session : CollectSessions(bookmarks)
        BY <2>1
      <3>2. left.catalogs \in Nat
        BY <1>1 DEF LinkTypeOK, Budget
      <3>3. PICK f \in PluginFrame : f.type = "catalog" /\ toPlugin' = Append(toPlugin, f)
        BY <3>1, <3>2 DEF CollectSessions, PluginFrame
      <3>4. QED
        BY <1>1, <3>3, ToPlugin
    <2>2. CASE toPlugin' = toPlugin \/ (toPlugin # <<>> /\ toPlugin' = Tail(toPlugin))
      BY <1>1, <2>2, ToPlugin
    <2>3. QED
      BY <2>1, <2>2 DEF CatalogStep, CatalogTimesOut, CatalogResponse, AnswerCatalog, ListPage, LookUp, ListingEnds,
                        SessionChanges, ivars
  <1>5. \E N : GatewayHears(N) /\ \A f \in N : f.type = "catalog"
    <2>1. CASE toGateway' = toGateway \/ (toGateway # <<>> /\ toGateway' = Tail(toGateway))
      <3>1. GatewayHears({})
        BY <1>1, <2>1, ToGateway
      <3>2. QED
        BY <3>1
    <2>2. CASE \E x \in listings, status \in {"ready", "error"} : ListingEnds(x, status)
      <3>1. PICK x \in listings, status \in {"ready", "error"} : ListingEnds(x, status)
        BY <2>2
      <3>2. CatalogFrame(x, status) \in GatewayFrame /\ CatalogFrame(x, status).type = "catalog"
        BY <1>1, <3>1 DEF CatalogFrame, GatewayFrame, Listing
      <3>3. Reply(x.conn, <<CatalogFrame(x, status)>>)
        BY <3>1 DEF ListingEnds, CatalogFrame
      <3>4. GatewayHears({CatalogFrame(x, status)})
        BY <1>1, <3>2, <3>3, ToGateway
      <3>5. QED
        BY <3>2, <3>4
    <2>3. QED
      BY <2>1, <2>2 DEF CatalogStep, CollectSessions, CatalogTimesOut, CatalogResponse, AnswerCatalog, ListPage, LookUp,
                        SessionChanges, ivars
  <1>6. PICK N : GatewayHears(N) /\ \A f \in N : f.type = "catalog"
    BY <1>5
  <1>7. LinkTypeOK'
    BY <1>1, <1>2, <1>3, <1>4, <1>6 DEF LinkTypeOK, GatewayHears
  <1>8. QED
    BY <1>2, <1>3, <1>4, <1>6, <1>7, OthersKeep

\* What catalogues wait for is in the history's range, or concerns none of it.
LEMMA CollectKeeps ==
    ASSUME LinkTypeOK, CatalogInv, NEW bookmarks \in SUBSET Session, CollectSessions(bookmarks)
    PROVE  CatalogInv'
  <1>1. /\ CatalogTypeOK /\ HistoryInv /\ ListingInv /\ ReturnedInv
        /\ left.catalogs > 0 /\ left' = [left EXCEPT !.catalogs = @ - 1]
        /\ catalogs' = catalogs \cup {<<conn, left.catalogs>>}
        /\ asked' = [asked EXCEPT ![left.catalogs] =
                        [bookmarks |-> bookmarks, since |-> Listable, throughout |-> Listable]]
        /\ UNCHANGED <<toGateway, prompts, promptCalls, listings, sessions, answered>>
    BY DEF CatalogInv, CollectSessions, Listable, promptVars
  <1>2. PICK n \in Nat \ {0} : n = left.catalogs
    BY <1>1 DEF LinkTypeOK, Budget
  <1>3. left'.catalogs = n - 1 /\ n - 1 \in Nat
    BY <1>1, <1>2 DEF LinkTypeOK, Budget
  <1>4. PICK f \in PluginFrame : /\ f.type = "catalog" /\ f.request = n /\ f.ids = bookmarks
                                 /\ toPlugin' = Append(toPlugin, f)
    <2>1. [type |-> "catalog", request |-> n, ids |-> bookmarks] \in PluginFrame
      BY <1>2 DEF PluginFrame
    <2>2. toPlugin' = Append(toPlugin, [type |-> "catalog", request |-> n, ids |-> bookmarks])
      BY <1>2 DEF CollectSessions
    <2>3. QED
      BY <2>1, <2>2
  <1>5. \A i \in DOMAIN toPlugin' : toPlugin'[i] = f \/ \E j \in DOMAIN toPlugin : toPlugin'[i] = toPlugin[j]
    <2>1. toPlugin \in Seq(PluginFrame)
      BY DEF LinkTypeOK
    <2>2. QED
      BY <1>4, <2>1
  <1>6. Listable \subseteq Session /\ Listable' = Listable
    BY <1>1 DEF Listable
  <1>7. /\ DOMAIN asked' = DOMAIN asked /\ asked' \in [DOMAIN asked -> [bookmarks : SUBSET Session,
                                                           since : SUBSET Session, throughout : SUBSET Session]]
        /\ \A k \in DOMAIN asked : k # n => asked'[k] = asked[k]
        /\ n \in DOMAIN asked => /\ asked'[n].bookmarks = bookmarks
                                 /\ asked'[n].since = Listable /\ asked'[n].throughout = Listable
    BY <1>1, <1>2, <1>6 DEF CatalogTypeOK
  <1>8. CatalogTypeOK'
    <2>1. catalogs' \subseteq Nat \X Nat
      BY <1>1, <1>2 DEF CatalogTypeOK, LinkTypeOK
    <2>2. asked' \in [1..MaxCatalogs -> [bookmarks : SUBSET Session, since : SUBSET Session, throughout : SUBSET Session]]
      BY <1>1, <1>7 DEF CatalogTypeOK
    <2>3. QED
      BY <1>1, <2>1, <2>2 DEF CatalogTypeOK
  <1>9. \A q \in catalogs : q[2] \in Nat /\ q[2] > n
    BY <1>1, <1>2 DEF CatalogTypeOK, HistoryInv
  <1>10. \A k : Waited(k)' <=> Waited(k) \/ k = n
    <2>1. PICK p : p[2] = n /\ catalogs' = catalogs \cup {p}
      <3>1. <<conn, n>>[2] = n /\ catalogs' = catalogs \cup {<<conn, n>>}
        BY <1>1, <1>2
      <3>2. QED
        BY <3>1
    <2>2. QED
      BY <2>1 DEF Waited
  <1>11. HistoryInv'
    <2>1. \A q \in catalogs' : q[2] > left'.catalogs
      BY <1>1, <1>2, <1>3, <1>9
    <2>2. \A k \in DOMAIN asked' : Waited(k)' => asked'[k].throughout \subseteq Listable /\ Listable \subseteq asked'[k].since
      BY <1>1, <1>7, <1>10 DEF HistoryInv
    <2>3. QED
      BY <1>6, <2>1, <2>2 DEF HistoryInv
  <1>12. /\ \A k, found, ids : k # n /\ Complete(k, found, ids) => Complete(k, found, ids)'
         /\ \A k, ids : k # n /\ AsAsked(k, ids) => AsAsked(k, ids)'
    BY <1>7, <1>10 DEF Complete, Small, AsAsked
  <1>13. ListingInv'
    <2>1. ASSUME NEW i \in DOMAIN toPlugin', NEW g, g = toPlugin'[i], g.type = "catalog"
          PROVE  g.request > left'.catalogs /\ AsAsked(g.request, g.ids)'
      <3>1. CASE g = f
        BY <1>3, <1>4, <1>7, <3>1 DEF AsAsked
      <3>2. CASE \E j \in DOMAIN toPlugin : g = toPlugin[j]
        <4>1. g \in PluginFrame
          BY <3>2 DEF LinkTypeOK
        <4>2. g.request \in Nat
          BY <2>1, <4>1 DEF PluginFrame
        <4>3. g.request > n /\ AsAsked(g.request, g.ids)
          BY <1>1, <1>2, <2>1, <3>2 DEF ListingInv
        <4>4. g.request # n /\ g.request > n - 1
          BY <1>2, <4>2, <4>3
        <4>5. QED
          BY <1>3, <1>12, <4>3, <4>4
      <3>3. QED
        BY <1>5, <2>1, <3>1, <3>2
    <2>2. ASSUME NEW x \in listings'
          PROVE  x.request > left'.catalogs /\ Complete(x.request, x.found, x.ids)' /\ (~x.listed => x.found = {})
      <3>1. x \in listings /\ x.request \in Nat
        BY <1>1, <2>2 DEF CatalogTypeOK, Listing
      <3>2. x.request > n /\ Complete(x.request, x.found, x.ids) /\ (~x.listed => x.found = {})
        BY <1>1, <1>2, <3>1 DEF ListingInv
      <3>3. x.request # n /\ x.request > n - 1
        BY <1>2, <3>1, <3>2
      <3>4. QED
        BY <1>3, <1>12, <3>2, <3>3
    <2>3. ASSUME NEW i \in DOMAIN toGateway', NEW g, g = toGateway'[i], g.type = "catalog"
          PROVE  g.request > left'.catalogs /\ (g.status = "ready" => Complete(g.request, g.found, {})')
      <3>1. toGateway' = toGateway /\ g \in GatewayFrame
        BY <1>1, <2>3 DEF LinkTypeOK
      <3>2. g.request \in Nat
        BY <2>3, <3>1 DEF GatewayFrame
      <3>3. g.request > n /\ (g.status = "ready" => Complete(g.request, g.found, {}))
        BY <1>1, <1>2, <2>3, <3>1 DEF ListingInv
      <3>4. g.request # n /\ g.request > n - 1
        BY <1>2, <3>2, <3>3
      <3>5. QED
        BY <1>3, <1>12, <3>3, <3>4
    <2>4. QED
      BY <2>1, <2>2, <2>3 DEF ListingInv, Complete, Small, AsAsked, Waited
  <1>14. ReturnedInv'
    <2>1. SUFFICES ASSUME NEW k \in DOMAIN answered, answered[k].status = "ready"
                   PROVE  /\ k > left'.catalogs
                          /\ answered[k].found \subseteq asked'[k].since
                          /\ Small(k)' => asked'[k].bookmarks \cap asked'[k].throughout \subseteq answered[k].found
      BY <1>1 DEF ReturnedInv, Small
    <2>2. k \in DOMAIN asked /\ k \in Int /\ k > n
      BY <1>1, <1>2, <2>1 DEF CatalogTypeOK, ReturnedInv
    <2>3. k > n - 1 /\ k # n
      BY <1>2, <2>2
    <2>4. QED
      BY <1>1, <1>3, <1>7, <2>1, <2>2, <2>3 DEF ReturnedInv, Small
  <1>15. QED
    BY <1>8, <1>11, <1>13, <1>14 DEF CatalogInv

\* A request ends without a catalogue, or with the one that was sent for it.
LEMMA ReturnsKeep ==
    ASSUME LinkTypeOK, CatalogInv, CatalogTimesOut \/ CatalogResponse
    PROVE  CatalogInv'
  <1>1. /\ CatalogTypeOK /\ HistoryInv /\ ListingInv
        /\ catalogs' \subseteq catalogs /\ left' = left
        /\ UNCHANGED <<toPlugin, prompts, promptCalls, listings, sessions, asked>>
    BY DEF CatalogInv, CatalogTimesOut, CatalogResponse, promptVars, ivars
  <1>2. HistoryMoves
    BY <1>1 DEF HistoryMoves
  <1>3. HistoryInv'
    BY <1>1 DEF HistoryInv, Waited, Listable
  <1>4. /\ \A i \in DOMAIN toPlugin' : \E j \in DOMAIN toPlugin : toPlugin'[i] = toPlugin[j]
        /\ \A i \in DOMAIN toGateway' : \E j \in DOMAIN toGateway : toGateway'[i] = toGateway[j]
    <2>1. toGateway' = toGateway \/ (toGateway # <<>> /\ toGateway' = Tail(toGateway))
      BY DEF CatalogTimesOut, CatalogResponse, ivars
    <2>2. GatewayHears({})
      BY <2>1, ToGateway
    <2>3. QED
      BY <1>1, <2>2 DEF GatewayHears
  <1>5. PICK requests, result : /\ Return(requests, result)
                                /\ result \in [status : {"ready", "error", "timeout", "not_found"}, found : SUBSET Session]
                                /\ \A k \in requests : ReturnFits(k, result)
    <2>1. CASE CatalogTimesOut
      <3>1. PICK q \in catalogs : Return({q[2]}, Failed("timeout"))
        BY <2>1 DEF CatalogTimesOut
      <3>2. /\ Failed("timeout") \in [status : {"ready", "error", "timeout", "not_found"}, found : SUBSET Session]
            /\ Failed("timeout").status # "ready"
        BY DEF Failed
      <3>3. \A k : ReturnFits(k, Failed("timeout"))
        BY <3>2 DEF ReturnFits
      <3>4. QED
        BY <3>1, <3>2, <3>3
    <2>2. CASE CatalogResponse
      <3>1. PICK f \in GatewayFrame : f = Head(toGateway) /\ f.type = "catalog" /\ 1 \in DOMAIN toGateway /\ f = toGateway[1]
        <4>1. toGateway \in Seq(GatewayFrame) /\ toGateway # <<>> /\ Head(toGateway).type = "catalog"
          BY <2>2 DEF LinkTypeOK, CatalogResponse
        <4>2. QED
          BY <4>1, Tailed
      <3>2. PICK a : a = [status |-> f.status, found |-> f.found]
        OBVIOUS
      <3>3. Return({q[2] : q \in Awaited(f)}, a)
        BY <2>2, <3>1, <3>2 DEF CatalogResponse
      <3>4. f.request \in Nat /\ f.status \in {"ready", "error"} /\ f.found \in SUBSET Session
        BY <3>1 DEF GatewayFrame
      <3>5. /\ a \in [status : {"ready", "error", "timeout", "not_found"}, found : SUBSET Session]
            /\ a.status = f.status /\ a.found = f.found
        BY <3>2, <3>4
      <3>6. f.status = "ready" => f.request > left.catalogs /\ Complete(f.request, f.found, {})
        BY <1>1, <3>1 DEF ListingInv
      <3>7. ASSUME NEW k \in {q[2] : q \in Awaited(f)} \cap DOMAIN answered
            PROVE  ReturnFits(k, a)
        <4>1. k = f.request /\ Waited(k)
          BY <3>7 DEF Awaited, Waited
        <4>2. k \in DOMAIN asked
          BY <1>1, <3>7 DEF CatalogTypeOK
        <4>3. QED
          BY <3>5, <3>6, <4>1, <4>2 DEF ReturnFits, Complete
      <3>8. Return({q[2] : q \in Awaited(f)} \cap DOMAIN answered, a)
        BY <3>3 DEF Return
      <3>9. QED
        BY <3>5, <3>7, <3>8
    <2>3. QED
      BY <2>1, <2>2
  <1>6. /\ DOMAIN answered' = DOMAIN answered
        /\ \A k \in DOMAIN answered : answered'[k] = answered[k] \/ (answered'[k] = result /\ ReturnFits(k, result))
        /\ answered' = [k \in DOMAIN answered |-> answered'[k]]
    BY <1>5 DEF Return
  <1>7. CatalogTypeOK'
    <2>1. \A k \in DOMAIN answered :
            answered'[k] \in [status : {"none", "ready", "error", "timeout", "not_found"}, found : SUBSET Session]
      BY <1>1, <1>5, <1>6 DEF CatalogTypeOK
    <2>2. answered' \in [1..MaxCatalogs -> [status : {"none", "ready", "error", "timeout", "not_found"},
                                            found : SUBSET Session]]
      BY <1>1, <1>6, <2>1 DEF CatalogTypeOK
    <2>3. QED
      BY <1>1, <2>2 DEF CatalogTypeOK
  <1>8. \A k \in DOMAIN answered' : (k \in DOMAIN answered /\ answered'[k] = answered[k]) \/ ReturnFits(k, answered[k])'
    BY <1>1, <1>6 DEF ReturnFits, Small
  <1>9. QED
    BY <1>1, <1>2, <1>3, <1>4, <1>7, <1>8, CatalogStays

\* The connection is lost, and with it what was waited for over it.
LEMMA LossKeeps ==
    ASSUME LinkTypeOK, CatalogInv, CatalogsRest, ConnectionLost
    PROVE  CatalogInv'
  <1>1. /\ CatalogTypeOK /\ HistoryInv /\ left'.catalogs = left.catalogs
        /\ prompts' \subseteq prompts /\ catalogs' \subseteq catalogs
        /\ Return({q[2] : q \in catalogs \ catalogs'}, Failed("not_found"))
        /\ UNCHANGED <<promptCalls, listings, sessions, asked>>
    BY DEF CatalogInv, CatalogsRest, ConnectionLost
  <1>2. HistoryMoves
    BY <1>1 DEF HistoryMoves
  <1>3. HistoryInv'
    BY <1>1 DEF HistoryInv, Waited, Listable
  <1>4. /\ \A i \in DOMAIN toPlugin' :
             (\E j \in DOMAIN toPlugin : toPlugin'[i] = toPlugin[j]) \/ FrameDown(toPlugin[i])'
        /\ \A i \in DOMAIN toGateway' :
             (\E j \in DOMAIN toGateway : toGateway'[i] = toGateway[j]) \/ FrameUp(toGateway[i])'
    BY DEF CatalogsRest, FrameDown, FrameUp
  <1>5. /\ Failed("not_found").status = "not_found" /\ Failed("not_found").found = {}
        /\ Failed("not_found") \in [status : {"none", "ready", "error", "timeout", "not_found"}, found : SUBSET Session]
    BY DEF Failed
  <1>6. /\ DOMAIN answered' = DOMAIN answered
        /\ \A k \in DOMAIN answered : answered'[k] = answered[k] \/ answered'[k] = Failed("not_found")
        /\ answered' = [k \in DOMAIN answered |-> answered'[k]]
    BY <1>1 DEF Return
  <1>7. CatalogTypeOK'
    <2>1. \A k \in DOMAIN answered :
            answered'[k] \in [status : {"none", "ready", "error", "timeout", "not_found"}, found : SUBSET Session]
      BY <1>1, <1>5, <1>6 DEF CatalogTypeOK
    <2>2. answered' \in [1..MaxCatalogs -> [status : {"none", "ready", "error", "timeout", "not_found"},
                                            found : SUBSET Session]]
      BY <1>1, <1>6, <2>1 DEF CatalogTypeOK
    <2>3. QED
      BY <1>1, <2>2 DEF CatalogTypeOK
  <1>8. \A k \in DOMAIN answered' : (k \in DOMAIN answered /\ answered'[k] = answered[k]) \/ ReturnFits(k, answered[k])'
    BY <1>5, <1>6 DEF ReturnFits
  <1>9. QED
    BY <1>1, <1>2, <1>3, <1>4, <1>7, <1>8, CatalogStays

\* A listing starts, goes on, or ends.
LEMMA ListingsKeep ==
    ASSUME LinkTypeOK, CatalogInv,
           UNCHANGED <<left, prompts, promptCalls, catalogs, sessions, asked, answered>>,
           NEW gone, NEW come, listings' = (listings \ gone) \cup come,
           come \subseteq Listing, \A x \in come : ListingFits(x),
           \A i \in DOMAIN toPlugin' : \E j \in DOMAIN toPlugin : toPlugin'[i] = toPlugin[j],
           \A i \in DOMAIN toGateway' : (\E j \in DOMAIN toGateway : toGateway'[i] = toGateway[j]) \/ FrameUp(toGateway[i])'
    PROVE  CatalogInv'
  <1>1. /\ CatalogTypeOK /\ HistoryInv /\ left' = left /\ prompts' = prompts /\ promptCalls' = promptCalls
        /\ catalogs' = catalogs /\ sessions' = sessions /\ asked' = asked /\ answered' = answered
    BY DEF CatalogInv
  <1>2. HistoryMoves
    BY <1>1 DEF HistoryMoves
  <1>3. CatalogTypeOK' /\ HistoryInv'
    BY <1>1 DEF CatalogTypeOK, HistoryInv, Waited, Listable
  <1>4. \A x \in listings' : x \in listings \/ ListingFits(x)'
    BY <1>1 DEF ListingFits, Complete, Small, Waited
  <1>5. QED
    BY <1>1, <1>2, <1>3, <1>4, CatalogStays

\* The plugin's steps for a catalogue: a request is heard, a page and a session are
\* read, and the response is sent.
LEMMA ListsKeep ==
    ASSUME LinkTypeOK, CatalogInv
    PROVE  /\ AnswerCatalog => CatalogInv'
           /\ \A x \in listings, page \in SUBSET Session : ListPage(x, page) => CatalogInv'
           /\ \A x \in listings, s \in Session : LookUp(x, s) => CatalogInv'
           /\ \A x \in listings, status \in {"ready", "error"} : ListingEnds(x, status) => CatalogInv'
  <1>1. CatalogTypeOK /\ HistoryInv /\ ListingInv /\ toPlugin \in Seq(PluginFrame) /\ conn \in Nat /\ plug \in Nat
    BY DEF CatalogInv, LinkTypeOK
  <1>2. \A x \in listings : /\ x \in Listing /\ x.conn \in Nat /\ x.request \in Nat
                            /\ x.found \subseteq Session /\ x.ids \subseteq Session /\ ListingFits(x)
    BY <1>1 DEF CatalogTypeOK, Listing, ListingInv, ListingFits
  <1>3. ASSUME AnswerCatalog
        PROVE  CatalogInv'
    <2>1. PICK f \in PluginFrame : f = Head(toPlugin) /\ f.type = "catalog" /\ 1 \in DOMAIN toPlugin /\ f = toPlugin[1]
      BY <1>1, <1>3, Tailed DEF AnswerCatalog
    <2>2. f.request \in Nat /\ f.ids \in SUBSET Session /\ f.request > left.catalogs /\ AsAsked(f.request, f.ids)
      BY <1>1, <2>1 DEF PluginFrame, ListingInv
    <2>3. PICK kept \in Kept(f.ids) :
            listings' = listings \cup {[conn |-> plug, request |-> f.request, listed |-> FALSE, found |-> {}, ids |-> kept]}
      BY <1>3, <2>1 DEF AnswerCatalog
    <2>4. kept \in SUBSET Session /\ Complete(f.request, {}, kept)
      <3>1. kept \in SUBSET f.ids /\ (Cardinality(f.ids) <= MaxBookmarks => kept = f.ids)
        BY DEF Kept
      <3>2. QED
        BY <2>2, <3>1 DEF Complete, Small, AsAsked
    <2>10. PICK y \in Listing : /\ y.request = f.request /\ y.ids = kept /\ y.found = {}
                                /\ listings' = listings \cup {y}
      <3>1. [conn |-> plug, request |-> f.request, listed |-> FALSE, found |-> {}, ids |-> kept] \in Listing
        BY <1>1, <2>2, <2>4 DEF Listing
      <3>2. QED
        BY <2>3, <3>1
    <2>11. ListingFits(y)
      BY <2>2, <2>4, <2>10 DEF ListingFits
    <2>5. /\ UNCHANGED <<left, prompts, promptCalls, catalogs, sessions, asked, answered>> /\ toGateway' = toGateway
          /\ toPlugin # <<>> /\ toPlugin' = Tail(toPlugin)
      BY <1>3 DEF AnswerCatalog, promptVars
    <2>6. \A i \in DOMAIN toPlugin' : \E j \in DOMAIN toPlugin : toPlugin'[i] = toPlugin[j]
      BY <2>5, ToPlugin
    <2>7. listings' = (listings \ {}) \cup {y} /\ {y} \subseteq Listing /\ \A x \in {y} : ListingFits(x)
      BY <2>10, <2>11
    <2>8. \A i \in DOMAIN toGateway' : \E j \in DOMAIN toGateway : toGateway'[i] = toGateway[j]
      BY <2>5
    <2>9. QED
      BY <2>5, <2>6, <2>7, <2>8, ListingsKeep
  <1>4. ASSUME NEW x \in listings, NEW y \in Listing, ListingFits(y), Replaced(x, y),
               UNCHANGED <<ivars, promptVars, catalogs, sessions, asked, answered>>
        PROVE  CatalogInv'
    <2>1. /\ UNCHANGED <<left, prompts, promptCalls, catalogs, sessions, asked, answered>>
          /\ toGateway' = toGateway /\ toPlugin' = toPlugin
      BY <1>4 DEF ivars, promptVars
    <2>2. listings' = (listings \ {x}) \cup {y} /\ {y} \subseteq Listing /\ \A z \in {y} : ListingFits(z)
      BY <1>4 DEF Replaced
    <2>3. /\ \A i \in DOMAIN toPlugin' : \E j \in DOMAIN toPlugin : toPlugin'[i] = toPlugin[j]
          /\ \A i \in DOMAIN toGateway' : \E j \in DOMAIN toGateway : toGateway'[i] = toGateway[j]
      BY <2>1
    <2>4. QED
      BY <2>1, <2>2, <2>3, ListingsKeep
  <1>5. ASSUME NEW x \in listings, NEW page \in SUBSET Session, ListPage(x, page)
        PROVE  CatalogInv'
    <2> DEFINE found == {s \in page : sessions[s] = "listable"}
               y == [x EXCEPT !.listed = TRUE, !.found = found, !.ids = @ \ found]
    <2>1. ~x.listed /\ Replaced(x, y) /\ UNCHANGED <<ivars, promptVars, catalogs, sessions, asked, answered>>
      BY <1>5 DEF ListPage
    <2>2. found \subseteq Listable /\ found \subseteq Session /\ x.found = {}
      BY <1>2, <2>1 DEF Listable, ListingFits
    <2> HIDE DEF found
    <2>3. y \in Listing /\ y.request = x.request /\ y.listed /\ y.found = found /\ y.ids = x.ids \ found
      BY <1>2, <2>2 DEF Listing
    <2>4. Complete(x.request, {}, x.ids) /\ x.request > left.catalogs
      BY <1>2, <2>2 DEF ListingFits
    <2>5. Complete(x.request, found, x.ids \ found)
      BY <1>1, <2>2, <2>4 DEF Complete, HistoryInv
    <2> HIDE DEF y
    <2>6. ListingFits(y)
      BY <2>3, <2>4, <2>5 DEF ListingFits
    <2>7. QED
      BY <1>4, <2>1, <2>3, <2>6
  <1>6. ASSUME NEW x \in listings, NEW s \in Session, LookUp(x, s)
        PROVE  CatalogInv'
    <2> DEFINE y == [x EXCEPT !.ids = @ \ {s}, !.found = IF sessions[s] = "listable" THEN @ \cup {s} ELSE @]
    <2>1. x.listed /\ Replaced(x, y) /\ UNCHANGED <<ivars, promptVars, catalogs, sessions, asked, answered>>
      BY <1>6 DEF LookUp
    <2>2. /\ y \in Listing /\ y.request = x.request /\ y.listed = x.listed /\ y.ids = x.ids \ {s}
          /\ y.found = IF sessions[s] = "listable" THEN x.found \cup {s} ELSE x.found
      BY <1>2 DEF Listing
    <2> HIDE DEF y
    <2>3. Complete(x.request, x.found, x.ids) /\ x.request > left.catalogs
      BY <1>2 DEF ListingFits
    <2>4. sessions[s] = "listable" <=> s \in Listable
      BY DEF Listable
    <2>5. Complete(x.request, y.found, y.ids)
      BY <1>1, <2>2, <2>3, <2>4 DEF Complete, HistoryInv
    <2>6. ListingFits(y)
      BY <2>1, <2>2, <2>3, <2>5 DEF ListingFits
    <2>7. QED
      BY <1>4, <2>1, <2>2, <2>6
  <1>7. ASSUME NEW x \in listings, NEW status \in {"ready", "error"}, ListingEnds(x, status)
        PROVE  CatalogInv'
    <2>1. /\ status = "ready" => x.ids = {}
          /\ listings' = listings \ {x} /\ toPlugin' = toPlugin
          /\ Reply(x.conn, <<CatalogFrame(x, status)>>)
          /\ UNCHANGED <<left, prompts, promptCalls, catalogs, sessions, asked, answered>>
      BY <1>7 DEF ListingEnds, CatalogFrame, promptVars
    <2>2. CatalogFrame(x, status) \in GatewayFrame
      BY <1>2, <1>7 DEF CatalogFrame, GatewayFrame
    <2>3. PICK f : /\ f = CatalogFrame(x, status) /\ GatewayHears({f})
                   /\ f.request = x.request /\ f.status = status /\ (status = "ready" => f.found = x.found)
      <3>1. GatewayHears({CatalogFrame(x, status)})
        BY <2>1, <2>2, ToGateway
      <3>2. /\ CatalogFrame(x, status).request = x.request /\ CatalogFrame(x, status).status = status
            /\ status = "ready" => CatalogFrame(x, status).found = x.found
        BY DEF CatalogFrame
      <3>3. QED
        BY <3>1, <3>2
    <2>4. FrameUp(f)
      BY <1>2, <2>1, <2>3 DEF FrameUp, ListingFits
    <2>5. FrameUp(f)'
      BY <2>1, <2>4 DEF FrameUp, Complete, Small, Waited
    <2>6. \A i \in DOMAIN toGateway' : (\E j \in DOMAIN toGateway : toGateway'[i] = toGateway[j]) \/ FrameUp(toGateway[i])'
      <3>1. \A i \in DOMAIN toGateway' : toGateway'[i] = f \/ \E j \in DOMAIN toGateway : toGateway'[i] = toGateway[j]
        BY <2>3 DEF GatewayHears
      <3>2. ASSUME NEW i \in DOMAIN toGateway', toGateway'[i] = f
            PROVE  FrameUp(toGateway[i])'
        BY <2>5, <3>2 DEF FrameUp, Complete, Small, Waited
      <3>3. QED
        BY <3>1, <3>2
    <2>7. /\ listings' = (listings \ {x}) \cup {} /\ {} \subseteq Listing /\ \A z \in {} : ListingFits(z)
          /\ \A i \in DOMAIN toPlugin' : \E j \in DOMAIN toPlugin : toPlugin'[i] = toPlugin[j]
      BY <2>1
    <2>8. QED
      BY <2>1, <2>6, <2>7, ListingsKeep
  <1>8. QED
    BY <1>3, <1>5, <1>6, <1>7

\* A session's change is part of the history of the requests that wait.
LEMMA ChangesKeep ==
    ASSUME LinkTypeOK, CatalogInv, NEW s \in Session, NEW state \in {"none", "listable", "archived"}, SessionChanges(s, state)
    PROVE  CatalogInv'
  <1>1. /\ CatalogTypeOK /\ HistoryInv /\ left.changes > 0
        /\ left' = [left EXCEPT !.changes = @ - 1] /\ sessions' = [sessions EXCEPT ![s] = state]
        /\ UNCHANGED <<toPlugin, toGateway, prompts, promptCalls, catalogs, listings, answered>>
    BY DEF CatalogInv, SessionChanges, promptVars
  <1>2. left'.catalogs = left.catalogs
    BY <1>1 DEF LinkTypeOK, Budget
  <1>3. Listable' = IF state = "listable" THEN Listable \cup {s} ELSE Listable \ {s}
    BY <1>1 DEF Listable, CatalogTypeOK
  <1>4. asked' = [k \in DOMAIN asked |->
          IF ~Waited(k) THEN asked[k]
          ELSE IF state = "listable" THEN [asked[k] EXCEPT !.since = @ \cup {s}]
          ELSE [asked[k] EXCEPT !.throughout = @ \ {s}]]
    BY DEF SessionChanges, Waited
  <1>5. ASSUME NEW k \in DOMAIN asked
        PROVE  /\ asked'[k] \in [bookmarks : SUBSET Session, since : SUBSET Session, throughout : SUBSET Session]
               /\ asked'[k].bookmarks = asked[k].bookmarks
               /\ asked'[k].since = IF Waited(k) /\ state = "listable" THEN asked[k].since \cup {s} ELSE asked[k].since
               /\ asked'[k].throughout = IF Waited(k) /\ state # "listable" THEN asked[k].throughout \ {s}
                                         ELSE asked[k].throughout
    <2>1. PICK a \in [bookmarks : SUBSET Session, since : SUBSET Session, throughout : SUBSET Session] : a = asked[k]
      BY <1>1 DEF CatalogTypeOK
    <2>2. asked'[k] = IF ~Waited(k) THEN a
                      ELSE IF state = "listable" THEN [a EXCEPT !.since = @ \cup {s}]
                      ELSE [a EXCEPT !.throughout = @ \ {s}]
      BY <1>4, <2>1
    <2>3. CASE ~Waited(k)
      BY <2>1, <2>2, <2>3
    <2>4. CASE Waited(k) /\ state = "listable"
      BY <2>1, <2>2, <2>4
    <2>5. CASE Waited(k) /\ state # "listable"
      BY <2>1, <2>2, <2>5
    <2>6. QED
      BY <2>3, <2>4, <2>5
  <1>6. DOMAIN asked' = DOMAIN asked
    BY <1>4
  <1>7. HistoryMoves
    BY <1>1, <1>2, <1>5, <1>6 DEF HistoryMoves
  <1>8. CatalogTypeOK'
    <2>1. asked' = [k \in DOMAIN asked |-> asked'[k]]
      BY <1>4
    <2>2. asked' \in [1..MaxCatalogs -> [bookmarks : SUBSET Session, since : SUBSET Session, throughout : SUBSET Session]]
      BY <1>1, <1>5, <2>1 DEF CatalogTypeOK
    <2>3. QED
      BY <1>1, <2>2 DEF CatalogTypeOK
  <1>9. HistoryInv'
    <2>1. \A k : Waited(k)' <=> Waited(k)
      BY <1>1 DEF Waited
    <2>2. \A k \in DOMAIN asked : Waited(k) => asked'[k].throughout \subseteq Listable' /\ Listable' \subseteq asked'[k].since
      BY <1>1, <1>3, <1>5 DEF HistoryInv
    <2>3. QED
      BY <1>1, <1>2, <1>6, <2>1, <2>2 DEF HistoryInv
  <1>10. /\ \A i \in DOMAIN toPlugin' : \E j \in DOMAIN toPlugin : toPlugin'[i] = toPlugin[j]
         /\ \A i \in DOMAIN toGateway' : \E j \in DOMAIN toGateway : toGateway'[i] = toGateway[j]
    BY <1>1
  <1>11. QED
    BY <1>1, <1>7, <1>8, <1>9, <1>10, CatalogStays

-----------------------------------------------------------------------------
(* The theorems *)

LEMMA InitOK ==
    ASSUME ControlInit
    PROVE  ControlInv
  <1>1. /\ InteractionInit /\ left \in Budgets /\ MaxOutcomes \in Nat \ {0}
        /\ Budgets \subseteq Budget
    BY InteractionAssumption DEF ControlInit, InteractionInit, Budget
  <1>2. /\ conn = 0 /\ plug = 0 /\ projected = {} /\ stale = {} /\ queries = {} /\ commands = {} /\ outcomes = <<>>
        /\ toPlugin = <<>> /\ toGateway = <<>> /\ collection = <<>> /\ calls = {} /\ pending = {}
        /\ resolvedBy = [r \in Request |-> 0] /\ place = [r \in Request |-> "here"] /\ sent = <<>>
        /\ DOMAIN outcomes = {} /\ DOMAIN toPlugin = {} /\ DOMAIN toGateway = {} /\ Len(outcomes) = 0
    BY <1>1 DEF InteractionInit, None
  <1>3. /\ outcomes \in Seq(Outcome) /\ toPlugin \in Seq(PluginFrame) /\ toGateway \in Seq(GatewayFrame)
        /\ collection \in Seq(Collecting) /\ sent \in Seq(Sent)
    BY <1>2
  <1>4. LinkTypeOK
    BY <1>1, <1>2, <1>3 DEF LinkTypeOK
  <1>5. UnblockTypeOK
    BY <1>1, <1>2, <1>3 DEF UnblockTypeOK
  <1>6. WaitingInv /\ BusyInv /\ KnownInv
    BY <1>2 DEF WaitingInv, BusyInv, KnownInv, None
  <1>7. CarrierInv
    BY <1>2 DEF CarrierInv, Carried
  <1>8. AskedInv /\ TruthInv
    BY <1>2 DEF AskedInv, TruthInv
  <1>9. CatalogTypeOK
    <2>1. Failed("none") \in [status : {"none", "ready", "error", "timeout", "not_found"}, found : SUBSET Session]
      BY DEF Failed
    <2>2. answered \in [1..MaxCatalogs -> [status : {"none", "ready", "error", "timeout", "not_found"},
                                           found : SUBSET Session]]
      BY <2>1 DEF ControlInit
    <2>3. QED
      BY <2>2 DEF CatalogTypeOK, ControlInit
  <1>10. HistoryInv
    BY DEF HistoryInv, Waited, ControlInit
  <1>11. ListingInv
    BY <1>2 DEF ListingInv, ControlInit
  <1>12. ReturnedInv
    <2>1. \A k \in DOMAIN answered : answered[k].status = "none"
      BY DEF ControlInit, Failed
    <2>2. QED
      BY <2>1 DEF ReturnedInv
  <1>13. QED
    BY <1>4, <1>5, <1>6, <1>7, <1>8, <1>9, <1>10, <1>11, <1>12 DEF ControlInv, InteractionInv, CatalogInv

\* Every step keeps the invariant: the gateway's, the plugin's and OpenCode's, timeouts
\* and lost connections among them.
THEOREM ControlInductive ==
    ASSUME ControlInv, [ControlNext]_cvars
    PROVE  ControlInv'
  <1>1. InteractionInv /\ CatalogInv /\ LinkTypeOK /\ CatalogTypeOK
    BY DEF ControlInv, InteractionInv, CatalogInv
  <1>2. CASE ConnectionLost
    <2>1. LoseConnection
      BY <1>2 DEF ConnectionLost
    <2>2. InteractionInv'
      BY <1>1, <2>1, LoseConnectionKeeps
    <2>3. CatalogsRest
      BY <1>1, <2>1, <2>2, InteractionRests
    <2>4. QED
      BY <1>1, <1>2, <2>2, <2>3, LossKeeps DEF ControlInv
  <1>3. CASE InteractionStep /\ UNCHANGED <<promptVars, catalogVars>>
    <2>1. InteractionInv'
      BY <1>1, <1>3, InteractionKept
    <2>2. CatalogsRest
      BY <1>1, <1>3, <2>1, InteractionRests
    <2>3. UNCHANGED catalogVars /\ prompts' = prompts /\ promptCalls' = promptCalls
      BY <1>3 DEF promptVars
    <2>4. CatalogInv'
      BY <1>1, <2>2, <2>3, RestingKeeps DEF CatalogTypeOK
    <2>5. QED
      BY <2>1, <2>4 DEF ControlInv
  <1>4. CASE PromptStep
    <2>1. /\ InteractionInv' /\ CatalogsRest /\ UNCHANGED catalogVars
          /\ prompts' \subseteq Nat \X Nat
          /\ promptCalls' \subseteq [conn : Nat, cmd : Nat, copy : Nat, live : BOOLEAN]
      BY <1>1, <1>4, PromptsKeep
    <2>2. QED
      BY <1>1, <2>1, RestingKeeps DEF ControlInv
  <1>5. CASE CatalogStep
    <2>1. InteractionInv'
      BY <1>1, <1>5, CatalogsKeep
    <2>2. CatalogInv'
      BY <1>1, <1>5, CollectKeeps, ReturnsKeep, ListsKeep, ChangesKeep DEF CatalogStep
    <2>3. QED
      BY <2>1, <2>2 DEF ControlInv
  <1>6. CASE UNCHANGED cvars
    <2>1. /\ UNCHANGED <<conn, projected, stale, queries, commands, outcomes, toPlugin, toGateway, plug, collection, calls,
                         pending, resolvedBy, place, sent, left>>
          /\ UNCHANGED catalogVars /\ prompts' = prompts /\ promptCalls' = promptCalls
      BY <1>6 DEF cvars, ivars, gatewayVars, pluginVars, openCodeVars, promptVars
    <2>2. restVars' = restVars /\ toPlugin' = toPlugin /\ toGateway' = toGateway /\ left' = left
      BY <2>1 DEF restVars, openCodeVars
    <2>3. PluginHears
      BY <1>1, <2>2, ToPlugin
    <2>4. GatewayHears({})
      BY <1>1, <2>2, ToGateway
    <2>5. LinkTypeOK'
      BY <1>1, <2>1 DEF LinkTypeOK
    <2>6. InteractionInv'
      BY <1>1, <2>2, <2>3, <2>4, <2>5, OthersKeep
    <2>7. CatalogsRest
      BY <2>2 DEF CatalogsRest
    <2>8. CatalogInv'
      BY <1>1, <2>1, <2>7, RestingKeeps DEF CatalogTypeOK
    <2>9. QED
      BY <2>6, <2>8 DEF ControlInv
  <1>7. QED
    BY <1>2, <1>3, <1>4, <1>5, <1>6 DEF ControlNext

\* The inductive invariant holds.
THEOREM ControlInvariant == ControlSpec => []ControlInv
  <1>1. ControlInit => ControlInv
    BY InitOK
  <1>2. ControlInv /\ [ControlNext]_cvars => ControlInv'
    BY ControlInductive
  <1>3. QED
    BY <1>1, <1>2, PTL DEF ControlSpec

\* instance-registry.ts, commandOutcomes with pendingAnswerCommands and
\* pendingDecideCommands: each id has one outcome, which is open only while a command
\* with it is waited for on the current connection, and each request, and each id of a
\* kind, has one command at a time.
THEOREM UnblockTypes == ControlSpec => []InteractionTypeOK
  <1>1. ControlInv => InteractionTypeOK
    BY DEF ControlInv, InteractionInv, LinkTypeOK, UnblockTypeOK, WaitingInv, InteractionTypeOK
  <1>2. QED
    BY <1>1, ControlInvariant, PTL

\* settleOutcome, with runAnswer and runDecision: what the gateway reports under a
\* client's id is what a command with it did to its request in OpenCode, for OpenCode 2's
\* answers about sessions that moved and for ids that are sent again as well.
THEOREM OutcomesAreTrue == ControlSpec => []OutcomesTruthful
  <1>1. ControlInv => OutcomesTruthful
    BY DEF ControlInv, InteractionInv, TruthInv, Truthful, OutcomesTruthful
  <1>2. QED
    BY <1>1, ControlInvariant, PTL

\* session-catalog.ts with collectSessions: a catalogue returned as ready shows what
\* the directory had while it was asked for, and every bookmark that was listable
\* throughout, unless there are more of them than are looked at.
THEOREM CatalogsAreTrue == ControlSpec => []CatalogTruthful
  <1>1. ControlInv => CatalogTruthful
    BY DEF ControlInv, CatalogInv, ReturnedInv, Small, CatalogTruthful
  <1>2. QED
    BY <1>1, ControlInvariant, PTL

\* How the outcome of an id may change: its entry stays, or it settles because a command
\* with the id is over, or it is dropped; and only a command with the id brings one.
EntriesMove ==
    \A k \in DOMAIN outcomes' :
        \/ \E j \in DOMAIN outcomes :
             /\ outcomes'[k].cmd = outcomes[j].cmd
             /\ \/ outcomes'[k].status = outcomes[j].status
                \/ /\ outcomes'[k].status # "accepted"
                   /\ \E x \in commands \ commands' : IdOf(x.cmd) = IdOf(outcomes[j].cmd)
        \/ /\ outcomes'[k].status = "accepted"
           /\ outcomes'[k].cmd \in DOMAIN sent' \ DOMAIN sent
           /\ \A i \in DOMAIN outcomes : IdOf(outcomes[i].cmd) # sent'[outcomes'[k].cmd].id

\* Every step moves the entries so.
LEMMA OutcomesSettle ==
    ASSUME InteractionInv, InteractionStep \/ LoseConnection
    PROVE  EntriesMove
  <1>1. UnblockTypeOK /\ outcomes \in Seq(Outcome)
    BY DEF InteractionInv, UnblockTypeOK
  <1>2. CASE outcomes' = outcomes
    BY <1>2 DEF EntriesMove
  <1>3. ASSUME NEW X, X \subseteq commands \ commands', NEW status \in CommandStatus \ {"accepted"}, NEW told \in Nat,
               outcomes' = SettledAs(X, status, told)
        PROVE  EntriesMove
    BY <1>1, <1>3, Settled DEF EntriesMove
  <1>4. CASE ExpireOutcome
    <2>1. PICK i \in DOMAIN outcomes : outcomes' = RemoveAt(outcomes, i)
      BY <1>4 DEF ExpireOutcome
    <2>2. /\ Len(outcomes) \in Nat /\ DOMAIN outcomes = 1..Len(outcomes) /\ DOMAIN outcomes' = 1..(Len(outcomes) - 1)
          /\ \A k \in DOMAIN outcomes' : outcomes'[k] = IF k < i THEN outcomes[k] ELSE outcomes[k + 1]
      BY <1>1, <2>1, Removed
    <2>3. \A k \in DOMAIN outcomes' : k \in DOMAIN outcomes /\ k + 1 \in DOMAIN outcomes
      BY <2>2
    <2>4. QED
      BY <2>2, <2>3 DEF EntriesMove
  <1>5. CASE \E r \in Request, c \in 1..(Len(sent) + 1) : Submit(c, r)
    <2>1. PICK r \in Request, c \in 1..(Len(sent) + 1) : Submit(c, r)
      BY <1>5
    <2>2. PICK n : /\ n = Len(sent) + 1 /\ outcomes' = Recorded(c, n)
                   /\ sent' = Append(sent, [id |-> c, request |-> r])
      BY <2>1 DEF Submit
    <2>3. sent \in Seq(Sent) /\ [id |-> c, request |-> r] \in Sent
      BY <1>1, SentAre DEF UnblockTypeOK, Sent
    <2>4. /\ n \in Nat \ {0} /\ DOMAIN sent = 1..Len(sent) /\ Len(sent) \in Nat
          /\ DOMAIN sent' = 1..(Len(sent) + 1) /\ sent'[n] = [id |-> c, request |-> r]
      BY <2>2, <2>3, Appended
    <2>5. n \in DOMAIN sent' \ DOMAIN sent /\ IdOf(n)' = c
      BY <2>2, <2>4 DEF IdOf
    <2>6. PICK m \in {0, 1} : \A k \in DOMAIN outcomes' :
            \/ k + m \in DOMAIN outcomes /\ outcomes'[k] = outcomes[k + m]
            \/ Entry(c) = {} /\ outcomes'[k] = [cmd |-> n, told |-> 0, status |-> "accepted"]
      BY <1>1, <2>2, <2>4, RecordedIs
    <2>7. ASSUME NEW k \in DOMAIN outcomes', NEW o, o = outcomes'[k], Entry(c) = {},
                 o = [cmd |-> n, told |-> 0, status |-> "accepted"]
          PROVE  /\ o.status = "accepted" /\ o.cmd \in DOMAIN sent' \ DOMAIN sent
                 /\ \A i \in DOMAIN outcomes : IdOf(outcomes[i].cmd) # IdOf(o.cmd)'
      BY <2>5, <2>7 DEF Entry
    <2>8. QED
      BY <2>6, <2>7 DEF EntriesMove, IdOf
  <1>6. CASE Restart
    BY <1>6 DEF Restart, EntriesMove
  <1>7. CASE Disconnect
    <2>1. outcomes' = SettledAs(commands \ commands', "result_unknown", 0)
      BY <1>7 DEF Disconnect
    <2>2. QED
      BY <1>3, <2>1 DEF CommandStatus
  <1>8. CASE CommandTimesOut
    <2>1. PICK x \in commands : commands' = commands \ {x} /\ outcomes' = SettledAs({x}, "result_unknown", 0)
      BY <1>8 DEF CommandTimesOut
    <2>2. {x} \subseteq commands \ commands'
      BY <2>1
    <2>3. QED
      BY <1>3, <2>1, <2>2 DEF CommandStatus
  <1>9. CASE Receive
    <2>1. PICK f \in GatewayFrame : f = Head(toGateway)
      <3>1. toGateway \in Seq(GatewayFrame) /\ toGateway # <<>>
        BY <1>9 DEF Receive, InteractionInv, LinkTypeOK
      <3>2. QED
        BY <3>1, Tailed
    <2>2. CASE SnapshotResponse(f)
      BY <1>2, <2>2 DEF SnapshotResponse
    <2>3. CASE CommandResult(f)
      <3>1. /\ commands' = commands \ InFlight(f) /\ InFlight(f) \subseteq commands
            /\ outcomes' = SettledAs(InFlight(f), f.status, f.cmd) /\ f.type = "result"
        BY <2>3 DEF CommandResult, InFlight
      <3>2. f.status \in CommandStatus \ {"accepted"} /\ f.cmd \in Nat
        BY <3>1 DEF GatewayFrame
      <3>3. InFlight(f) \subseteq commands \ commands'
        BY <3>1
      <3>4. QED
        BY <1>3, <3>1, <3>2, <3>3
    <2>4. QED
      BY <1>9, <2>1, <2>2, <2>3 DEF Receive
  <1>10. \/ outcomes' = outcomes \/ ExpireOutcome \/ Restart \/ Disconnect \/ CommandTimesOut \/ Receive
         \/ \E r \in Request, c \in 1..(Len(sent) + 1) : Submit(c, r)
    BY DEF InteractionStep, GatewayStep, PluginStep, OpenCodeStep, LoseConnection, Attach, Query, QueryTimesOut, Drop,
           OnServerFrame, CollectionEnds, Collected, ReadList, CallTimesOut, Ask, AnswerLocally, Move, ExecuteCall,
           CheckCall, FailCall, gatewayVars
  <1>11. QED
    BY <1>2, <1>4, <1>5, <1>6, <1>7, <1>8, <1>9, <1>10

\* Commands keep their ids.
LEMMA SentGrows ==
    ASSUME InteractionInv, InteractionStep \/ LoseConnection
    PROVE  DOMAIN sent \subseteq DOMAIN sent' /\ \A n \in DOMAIN sent : IdOf(n)' = IdOf(n)
  <1>1. CASE sent' = sent
    BY <1>1 DEF IdOf
  <1>2. CASE \E r \in Request, c \in 1..(Len(sent) + 1) : Submit(c, r)
    <2>1. PICK r \in Request, c \in 1..(Len(sent) + 1) : sent' = Append(sent, [id |-> c, request |-> r])
      BY <1>2 DEF Submit
    <2>2. UnblockTypeOK /\ sent \in Seq(Sent)
      BY DEF InteractionInv, UnblockTypeOK
    <2>3. [id |-> c, request |-> r] \in Sent
      BY <2>2, SentAre DEF Sent
    <2>4. /\ Len(sent) \in Nat /\ DOMAIN sent = 1..Len(sent) /\ DOMAIN sent' = 1..(Len(sent) + 1)
          /\ \A i \in 1..Len(sent) : sent'[i] = sent[i]
      BY <2>1, <2>2, <2>3, Appended
    <2>5. QED
      BY <2>4 DEF IdOf
  <1>3. QED
    BY <1>1, <1>2 DEF InteractionStep, GatewayStep, PluginStep, OpenCodeStep, LoseConnection, Attach, Query,
           QueryTimesOut, CommandTimesOut, ExpireOutcome, Receive, Drop, OnServerFrame, CollectionEnds, Collected,
           ReadList, CallTimesOut, Ask, AnswerLocally, Move, ExecuteCall, CheckCall, FailCall, Disconnect, Restart

\* What an id's outcome is, and where it comes from.
LEMMA OutcomesOf ==
    ASSUME WaitingInv, NEW c
    PROVE  /\ \/ OutcomeFor(c) = "not_found" /\ Entry(c) = {}
              \/ \E k \in Entry(c) : OutcomeFor(c) = outcomes[k].status
           /\ \A k \in DOMAIN outcomes : IdOf(outcomes[k].cmd) = c => OutcomeFor(c) = outcomes[k].status
  <1>1. \A j, k \in Entry(c) : j = k
    BY DEF WaitingInv, Entry
  <1>2. QED
    BY <1>1 DEF OutcomeFor, Entry

\* settleOutcome, recordOutcome and outcomeFor: no late result, timeout, disconnect or
\* restart changes what a client has been told under an id that was sent once; under one
\* that was sent again only the end of a command with it does.
THEOREM OutcomesStay == ControlSpec => OutcomesFinal
  <1>1. ASSUME InteractionInv, InteractionInv', InteractionStep \/ LoseConnection, NEW c \in {IdOf(n) : n \in DOMAIN sent}
        PROVE  /\ OutcomeFor(c) = "not_found" /\ OutcomeFor(c)' # "not_found" =>
                    OutcomeFor(c)' = "accepted" /\ Repeated(c)'
               /\ OutcomeFor(c) \notin {"accepted", "not_found"} =>
                    \/ OutcomeFor(c)' \in {OutcomeFor(c), "not_found"}
                    \/ /\ OutcomeFor(c)' # "accepted" /\ Repeated(c)
                       /\ \E x \in commands \ commands' : IdOf(x.cmd) = c
    <2>1. EntriesMove /\ WaitingInv /\ WaitingInv' /\ BusyInv /\ KnownInv
      BY <1>1, OutcomesSettle DEF InteractionInv
    <2>2. DOMAIN sent \subseteq DOMAIN sent' /\ \A n \in DOMAIN sent : IdOf(n)' = IdOf(n)
      BY <1>1, SentGrows
    <2>3. PICK was, is : was = OutcomeFor(c) /\ is = OutcomeFor(c)'
      OBVIOUS
    <2>4. CASE is = "not_found"
      BY <2>3, <2>4
    <2>5. CASE is # "not_found"
      <3>1. PICK o : \E k \in DOMAIN outcomes' : o = outcomes'[k] /\ IdOf(o.cmd)' = c /\ is = o.status
        <4>1. (\/ OutcomeFor(c) = "not_found" /\ Entry(c) = {}
              \/ \E k \in Entry(c) : OutcomeFor(c) = outcomes[k].status)'
          BY <2>1 DEF WaitingInv, Entry, OutcomeFor
        <4>2. QED
          BY <2>3, <2>5, <4>1 DEF Entry, IdOf
      <3>2. CASE \E j \in DOMAIN outcomes :
                   /\ o.cmd = outcomes[j].cmd
                   /\ \/ o.status = outcomes[j].status
                      \/ /\ o.status # "accepted"
                         /\ \E x \in commands \ commands' : IdOf(x.cmd) = IdOf(outcomes[j].cmd)
        <4>1. PICK j \in DOMAIN outcomes :
                /\ o.cmd = outcomes[j].cmd
                /\ \/ o.status = outcomes[j].status
                   \/ /\ o.status # "accepted"
                      /\ \E x \in commands \ commands' : IdOf(x.cmd) = IdOf(outcomes[j].cmd)
          BY <3>2
        <4>2. IdOf(outcomes[j].cmd) = c
          BY <2>1, <2>2, <3>1, <4>1 DEF KnownInv
        <4>3. was = outcomes[j].status /\ (was = "not_found" => FALSE)
          <5>1. was = outcomes[j].status
            BY <2>1, <2>3, <4>2, OutcomesOf
          <5>2. outcomes[j] \in Outcome
            BY <1>1 DEF InteractionInv, UnblockTypeOK
          <5>3. QED
            BY <5>1, <5>2 DEF Outcome, CommandStatus
        <4>4. was # "accepted" /\ (\E x \in commands : IdOf(x.cmd) = c) => Repeated(c)
          BY <2>1, <4>2, <4>3 DEF BusyInv
        <4>5. QED
          BY <2>3, <3>1, <4>1, <4>2, <4>3, <4>4
      <3>3. CASE /\ o.status = "accepted" /\ o.cmd \in DOMAIN sent' \ DOMAIN sent
                 /\ \A i \in DOMAIN outcomes : IdOf(outcomes[i].cmd) # IdOf(o.cmd)'
        <4>1. PICK n \in DOMAIN sent : c = IdOf(n)
          BY <1>1
        <4>2. Repeated(c)'
          BY <2>2, <3>1, <3>3, <4>1 DEF Repeated
        <4>3. was = "not_found"
          BY <2>1, <2>3, <3>1, <3>3, OutcomesOf DEF Entry
        <4>4. QED
          BY <2>3, <3>1, <3>3, <4>2, <4>3
      <3>4. QED
        BY <2>1, <3>1, <3>2, <3>3 DEF EntriesMove, IdOf
    <2>6. QED
      BY <2>4, <2>5
  <1>2. ASSUME ControlInv, ControlInv', [ControlNext]_cvars
        PROVE  [\A c \in {IdOf(n) : n \in DOMAIN sent} :
                 LET was == OutcomeFor(c)
                     is == OutcomeFor(c)'
                 IN  /\ was = "not_found" /\ is # "not_found" => is = "accepted" /\ Repeated(c)'
                     /\ was \notin {"accepted", "not_found"} =>
                          \/ is \in {was, "not_found"}
                          \/ is # "accepted" /\ Repeated(c) /\ \E x \in commands \ commands' : IdOf(x.cmd) = c]_ivars
    <2>1. InteractionInv /\ InteractionInv'
      BY <1>2 DEF ControlInv
    <2>2. CASE InteractionStep \/ LoseConnection
      BY <1>1, <2>1, <2>2
    <2>3. CASE outcomes' = outcomes /\ sent' = sent
      <3>1. \A c : OutcomeFor(c)' = OutcomeFor(c)
        BY <2>3 DEF OutcomeFor, Entry, IdOf
      <3>2. QED
        BY <3>1
    <2>4. InteractionStep \/ LoseConnection \/ (outcomes' = outcomes /\ sent' = sent)
      BY <1>2 DEF ControlNext, ConnectionLost, PromptStep, SendPrompt, PromptTimesOut, PromptResult, PromptCommand,
                  PromptCallTimesOut, PromptAnswered, CatalogStep, CollectSessions, CatalogTimesOut, CatalogResponse,
                  AnswerCatalog, ListPage, LookUp, ListingEnds, SessionChanges, restVars, cvars, ivars, gatewayVars
    <2>5. QED
      BY <2>2, <2>3, <2>4
  <1>3. QED
    BY <1>2, ControlInvariant, PTL DEF ControlSpec, OutcomesFinal
=============================================================================
