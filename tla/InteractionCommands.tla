------------------------- MODULE InteractionCommands -------------------------
(***************************************************************************)
(* The remote unblock loop of one plugin instance, end to end: the         *)
(* gateway's snapshot queries, commands and outcomes                       *)
(* (apps/gateway/src/modules/control/instance-registry.ts), the plugin's   *)
(* control channel that serves them                                        *)
(* (packages/plugin/src/control-channel.ts with its adapters) and          *)
(* OpenCode, which holds the pending requests and is modelled from how the *)
(* adapters use it.                                                        *)
(*                                                                         *)
(* InstanceRegistry decides when the instance is controllable over an open *)
(* connection; here that is `conn', the number of that connection, or 0.   *)
(* The plugin's end, `plug', is lost independently: a half-open socket.    *)
(* Frames of a connection arrive in order or not at all.  Query ids are    *)
(* the gateway's and fresh.  Command ids are the clients', who may send    *)
(* one again: a command is named by its number in `sent', and what names   *)
(* it in the code, its id and its kind, is read there.  Bodies are left    *)
(* out.                                                                    *)
(***************************************************************************)
EXTENDS Integers, Sequences, FiniteSets, SequencesExt

CONSTANTS
    Question,       \* ids of the question requests OpenCode may ask
    Permission,     \* ids of its permission requests
    MaxOutcomes,    \* MAX_COMMAND_OUTCOMES
    Budgets         \* bounds on what clients and networks do: a behaviour has one of them

VARIABLES
    conn,         \* gateway: the instance's connection
    projected,    \* gateway: record.projectedRequests
    stale,        \* gateway: record.staleRequests
    queries,      \* gateway: this.pendingRequests, as <<connection, query>>
    commands,     \* gateway: pendingAnswerCommands and pendingDecideCommands
    outcomes,     \* gateway: this.commandOutcomes, in insertion order
    toPlugin,     \* frames on their way to the plugin
    toGateway,    \* and back
    plug,         \* plugin: the connection its socket is of
    collection,   \* plugin: collectionInFlight, a sequence of length 0 or 1
    calls,        \* plugin: reply calls OpenCode has not answered
    pending,      \* OpenCode: the requests that wait for a reply
    resolvedBy,   \* OpenCode: what resolved a request
    place,        \* OpenCode: whether a request's session is in the instance's directory:
                  \* "here", "away", or "back" after it was away
    sent,         \* the commands the gateway sent: the client's id and the request of each
    left          \* what is left of the behaviour's budget; numbers the next one of a kind

gatewayVars == <<conn, projected, stale, queries, commands, outcomes>>
pluginVars == <<plug, collection, calls>>
openCodeVars == <<pending, resolvedBy, place>>
ivars == <<gatewayVars, sent, toPlugin, toGateway, pluginVars, openCodeVars, left>>

ASSUME InteractionAssumption ==
    /\ Question \cap Permission = {}
    /\ MaxOutcomes \in Nat \ {0}
    /\ Budgets \subseteq [conns : Nat, queries : Nat, commands : Nat, asks : Nat, moves : Nat,
                   prompts : Nat, catalogs : Nat, changes : Nat]

Request == Question \cup Permission
Lists == {Question, Permission}
None == 0                 \* no connection; resolved by nobody
Local == -1               \* resolved in OpenCode itself

-----------------------------------------------------------------------------
(* Commands *)

IdOf(n) == sent[n].id
RequestOf(n) == sent[n].request

\* Questions and permissions have frames and tables of their own.
SameKind(r, q) == r \in Question <=> q \in Question

\* Two commands have this client's id.
Repeated(c) == \E m, n \in DOMAIN sent : m # n /\ IdOf(m) = c /\ IdOf(n) = c

-----------------------------------------------------------------------------
(* Gateway: outcomes.  An entry is of the command that made it; `told' is the one   *)
(* whose result the status is, 0 while there is none.                               *)

Entry(c) == {k \in DOMAIN outcomes : IdOf(outcomes[k].cmd) = c}

\* outcomeFor, as GET /v1/pending-interactions/commands/:commandId answers it: one
\* status, and 404 for a command that is unknown or has been dropped.
OutcomeFor(c) == IF Entry(c) = {} THEN "not_found" ELSE outcomes[CHOOSE k \in Entry(c) : TRUE].status

\* A defect: a repeated id's entry starts over.
BugRecorded(c, n) ==
    LET others == SelectSeq(outcomes, LAMBDA o : IdOf(o.cmd) # c)
        all == Append(others, [cmd |-> n, told |-> 0, status |-> "accepted"])
    IN  IF Len(all) > MaxOutcomes THEN Tail(all) ELSE all

\* recordOutcome: the first write of an id wins; else the command n is appended as
\* accepted, and the oldest goes when the cap is passed.
Recorded(c, n) ==
    LET all == Append(outcomes, [cmd |-> n, told |-> 0, status |-> "accepted"])
    IN  IF Entry(c) # {} THEN outcomes ELSE IF Len(all) > MaxOutcomes THEN Tail(all) ELSE all

\* settleOutcome for the commands X: whatever entry has the id of one, or none if it
\* has been dropped.
SettledAs(X, status, told) ==
    [k \in DOMAIN outcomes |->
        IF \E x \in X : IdOf(x.cmd) = IdOf(outcomes[k].cmd)
        THEN [outcomes[k] EXCEPT !.status = status, !.told = told] ELSE outcomes[k]]

\* An entry's TTL passes and an access sweeps it.
ExpireOutcome ==
    /\ \E k \in DOMAIN outcomes : outcomes' = RemoveAt(outcomes, k)
    /\ UNCHANGED <<conn, projected, stale, queries, commands, toPlugin, toGateway, pluginVars, openCodeVars, left, sent>>

-----------------------------------------------------------------------------
(* Gateway: connection *)

\* The instance registers, or is promoted, as controllable: a new record.
Attach ==
    /\ conn = None /\ plug = None /\ left.conns > 0
    /\ left' = [left EXCEPT !.conns = @ - 1]
    /\ conn' = left.conns /\ plug' = left.conns
    /\ projected' = {} /\ stale' = {}
    /\ toPlugin' = <<>> /\ toGateway' = <<>>
    /\ UNCHANGED <<queries, commands, outcomes, collection, calls, openCodeVars, sent>>

\* A defect: the commands of the lost connection are dropped without an outcome.
BugDisconnect ==
    /\ conn # None
    /\ conn' = None
    /\ queries' = {q \in queries : q[1] # conn}
    /\ commands' = {x \in commands : x.conn # conn}
    /\ toGateway' = <<>>
    /\ UNCHANGED <<projected, stale, outcomes, toPlugin, pluginVars, openCodeVars, left, sent>>

\* disconnect: queries resolve empty and commands settle as unknown.
Disconnect ==
    /\ conn # None
    /\ conn' = None
    /\ queries' = {q \in queries : q[1] # conn}
    /\ commands' = {x \in commands : x.conn # conn}
    /\ outcomes' = SettledAs(commands \ commands', "result_unknown", 0)
    /\ toGateway' = <<>>
    /\ UNCHANGED <<projected, stale, toPlugin, pluginVars, openCodeVars, left, sent>>

\* A new gateway process: nothing of this is persisted.
Restart ==
    /\ conn' = None /\ projected' = {} /\ stale' = {}
    /\ queries' = {} /\ commands' = {} /\ outcomes' = <<>>
    /\ toGateway' = <<>>
    /\ UNCHANGED <<toPlugin, pluginVars, openCodeVars, left, sent>>

-----------------------------------------------------------------------------
(* Gateway: snapshot queries *)

\* collectPendingInteractions and queryPendingSnapshot.
Query ==
    /\ conn # None /\ left.queries > 0
    /\ left' = [left EXCEPT !.queries = @ - 1]
    /\ queries' = queries \cup {<<conn, left.queries>>}
    /\ toPlugin' = Append(toPlugin, [type |-> "snapshot", query |-> left.queries])
    /\ UNCHANGED <<conn, projected, stale, commands, outcomes, toGateway, pluginVars, openCodeVars, sent>>

\* A defect: one timer for the instance, which a later query takes over.
BugQueryTimesOut ==
    /\ \E q \in queries : q[2] = left.queries + 1 /\ queries' = queries \ {q}
    /\ UNCHANGED <<conn, projected, stale, commands, outcomes, toPlugin, toGateway, pluginVars, openCodeVars, left, sent>>

\* The query resolves empty and the projection stays.
QueryTimesOut ==
    /\ \E q \in queries : queries' = queries \ {q}
    /\ UNCHANGED <<conn, projected, stale, commands, outcomes, toPlugin, toGateway, pluginVars, openCodeVars, left, sent>>

\* The snapshot replaces the projection; what is no longer in it is stale.
ApplyProjection(found) ==
    /\ projected' = found
    /\ stale' = stale \cup (projected \ found)

\* handleSnapshotResponse: late answers are ignored.
SnapshotResponse(frame) ==
    /\ frame.type = "snapshot"
    /\ IF <<conn, frame.query>> \in queries
       THEN /\ queries' = queries \ {<<conn, frame.query>>}
            /\ ApplyProjection(frame.found)
       ELSE UNCHANGED <<queries, projected, stale>>
    /\ UNCHANGED <<commands, outcomes>>

-----------------------------------------------------------------------------
(* Gateway: commands *)

\* How the routes answer a command with the id c for r: 404 without a controllable
\* instance and for a request never seen, 409 for a stale one, and while a command of
\* the kind is in flight with that request or that id.
SubmissionStatus(c, r) ==
    IF conn = None \/ r \notin projected \cup stale THEN 404
    ELSE IF \/ r \notin projected
            \/ \E x \in commands : /\ x.conn = conn /\ SameKind(RequestOf(x.cmd), r)
                                   /\ RequestOf(x.cmd) = r \/ IdOf(x.cmd) = c
         THEN 409
    ELSE 202

\* answerQuestion for a question, decidePermission for a permission.  The client's id
\* is that of an earlier command, or new: then it is numbered as the command.
Submit(c, r) ==
    LET n == Len(sent) + 1
    IN  /\ left.commands > 0 /\ SubmissionStatus(c, r) = 202
        /\ left' = [left EXCEPT !.commands = @ - 1]
        /\ sent' = Append(sent, [id |-> c, request |-> r])
        /\ commands' = commands \cup {[conn |-> conn, cmd |-> n]}
        /\ outcomes' = Recorded(c, n)
        /\ toPlugin' = Append(toPlugin, [type |-> "command", cmd |-> n])
        /\ UNCHANGED <<conn, projected, stale, queries, toGateway, pluginVars, openCodeVars>>

CommandTimesOut ==
    \E x \in commands :
        /\ commands' = commands \ {x}
        /\ outcomes' = SettledAs({x}, "result_unknown", 0)
        /\ UNCHANGED <<conn, projected, stale, queries, toPlugin, toGateway, pluginVars, openCodeVars, left, sent>>

\* A defect: the result goes to the oldest command in flight, whatever its id.
BugInFlight(frame) ==
    {x \in commands : x.conn = conn /\ \A y \in commands : y.conn = conn => x.cmd <= y.cmd}

\* The command a result is taken for: by connection, kind and id.
InFlight(frame) ==
    {x \in commands : /\ x.conn = conn /\ IdOf(x.cmd) = IdOf(frame.cmd)
                      /\ SameKind(RequestOf(x.cmd), RequestOf(frame.cmd))}

\* handleQuestionAnswerResult, handlePermissionDecideResult: late results are
\* ignored, a confirmed one resolves the request.
CommandResult(frame) ==
    /\ frame.type = "result"
    /\ LET hit == InFlight(frame)
           resolved == IF frame.status = "confirmed" THEN {RequestOf(x.cmd) : x \in hit} ELSE {}
       IN  /\ commands' = commands \ hit
           /\ projected' = projected \ resolved
           /\ stale' = stale \cup resolved
           /\ outcomes' = SettledAs(hit, frame.status, frame.cmd)
    /\ UNCHANGED queries

\* receive, for the frames of a registered instance.
Receive ==
    /\ conn # None /\ toGateway # <<>>
    /\ SnapshotResponse(Head(toGateway)) \/ CommandResult(Head(toGateway))
    /\ toGateway' = Tail(toGateway)
    /\ UNCHANGED <<conn, toPlugin, pluginVars, openCodeVars, left, sent>>

-----------------------------------------------------------------------------
(* Plugin *)

\* drop: the plugin's end is lost; what it had sent may still arrive.
Drop ==
    /\ plug # None
    /\ plug' = None /\ toPlugin' = <<>>
    /\ UNCHANGED <<gatewayVars, toGateway, collection, calls, openCodeVars, left, sent>>

\* The frame reaches the gateway if its connection is still the plugin's
\* socket and the gateway still has it.
Reply(n, frames) == toGateway' = IF n = plug /\ n = conn THEN toGateway \o frames ELSE toGateway

\* onServerFrame: a query joins the collection in flight or starts one, a
\* command starts a reply call of its own.
OnServerFrame ==
    /\ plug # None /\ toPlugin # <<>>
    /\ LET frame == Head(toPlugin)
       IN  \/ /\ frame.type = "snapshot"
              /\ collection' = IF collection = <<>>
                               THEN <<[waiters |-> <<<<plug, frame.query>>>>, read |-> {}, found |-> {}]>>
                               ELSE <<[collection[1] EXCEPT !.waiters = Append(@, <<plug, frame.query>>)]>>
              /\ UNCHANGED calls
           \/ /\ frame.type = "command"
              /\ calls' = calls \cup {[conn |-> plug, cmd |-> frame.cmd, live |-> TRUE]}
              /\ UNCHANGED collection
    /\ toPlugin' = Tail(toPlugin)
    /\ UNCHANGED <<gatewayVars, toGateway, plug, openCodeVars, left, sent>>

\* PendingAdapter.list: one of the two lists arrives.  Whether OpenCode lists the
\* requests of a session that is away is its own affair.
ReadList(l, hidden) ==
    /\ collection # <<>> /\ l \notin collection[1].read
    /\ hidden \subseteq {r \in l : place[r] = "away"}
    /\ collection' = <<[collection[1] EXCEPT !.read = @ \cup {l}, !.found = @ \cup ((pending \cap l) \ hidden)]>>
    /\ UNCHANGED <<gatewayVars, toPlugin, toGateway, plug, calls, openCodeVars, left, sent>>

\* The collection ends, with both lists or, when one fails or the timeout
\* passes, with nothing, and every query that waits over the present socket is
\* answered: those come after the queries of earlier sockets.
Collected(found) ==
    LET answer(w) == [type |-> "snapshot", query |-> w[2], found |-> found]
        waiters == collection[1].waiters
        earlier == {k \in DOMAIN waiters : waiters[k][1] # plug}
        mine == SubSeq(waiters, Cardinality(earlier) + 1, Len(waiters))
    IN  /\ Reply(plug, [k \in DOMAIN mine |-> answer(mine[k])])
        /\ collection' = <<>>
        /\ UNCHANGED <<gatewayVars, toPlugin, plug, calls, openCodeVars, left, sent>>

CollectionEnds ==
    /\ collection # <<>>
    /\ \/ collection[1].read = Lists /\ Collected(collection[1].found)
       \/ Collected({})

\* runAnswer, runDecision: the call x ends for the plugin with a status.
Answer(x, status) ==
    IF x.live
    THEN Reply(x.conn, <<[type |-> "result", cmd |-> x.cmd, status |-> status]>>)
    ELSE UNCHANGED toGateway

\* The plugin's timeout answers for the call, which OpenCode may still execute.
CallTimesOut(x) ==
    /\ x.live
    /\ Answer(x, "result_unknown")
    /\ calls' = (calls \ {x}) \cup {[x EXCEPT !.live = FALSE]}
    /\ UNCHANGED <<gatewayVars, toPlugin, plug, collection, openCodeVars, left, sent>>

-----------------------------------------------------------------------------
(* OpenCode *)

Ask(r) ==
    /\ r \notin pending /\ resolvedBy[r] = None /\ left.asks > 0
    /\ left' = [left EXCEPT !.asks = @ - 1]
    /\ pending' = pending \cup {r}
    /\ UNCHANGED <<gatewayVars, toPlugin, toGateway, pluginVars, resolvedBy, place, sent>>

AnswerLocally(r) ==
    /\ r \in pending
    /\ pending' = pending \ {r}
    /\ resolvedBy' = [resolvedBy EXCEPT ![r] = Local]
    /\ UNCHANGED <<gatewayVars, toPlugin, toGateway, pluginVars, left, sent, place>>

\* The session of a request that waits moves to another directory, or back.
Move(r) ==
    /\ r \in pending /\ left.moves > 0
    /\ left' = [left EXCEPT !.moves = @ - 1]
    /\ place' = [place EXCEPT ![r] = IF @ = "away" THEN "back" ELSE "away"]
    /\ UNCHANGED <<gatewayVars, toPlugin, toGateway, pluginVars, pending, resolvedBy, sent>>

\* The reply call x is executed.  Its response may be lost on the way back.
ExecuteCall(x, lost) ==
    LET r == RequestOf(x.cmd)
    IN  /\ calls' = calls \ {x}
        /\ IF r \in pending
           THEN /\ pending' = pending \ {r}
                /\ resolvedBy' = [resolvedBy EXCEPT ![r] = x.cmd]
                /\ UNCHANGED place
                /\ Answer(x, IF lost THEN "result_unknown" ELSE "confirmed")
           ELSE /\ UNCHANGED openCodeVars
                /\ Answer(x, IF lost THEN "result_unknown" ELSE "stale")
        /\ UNCHANGED <<gatewayVars, toPlugin, plug, collection, left, sent>>

\* OpenCode 2: the plugin reads the session and the form before it replies, and ends
\* the call as stale when the form is settled, and also when the session is in
\* another directory, where the request may still wait.  What changes after the
\* read is ExecuteCall's.
CheckCall(x) ==
    /\ RequestOf(x.cmd) \notin pending \/ place[RequestOf(x.cmd)] = "away"
    /\ calls' = calls \ {x}
    /\ Answer(x, "stale")
    /\ UNCHANGED <<gatewayVars, toPlugin, plug, collection, openCodeVars, left, sent>>

\* The call fails without effect: an error reply, an abort or a lost request.
FailCall(x, status) ==
    /\ calls' = calls \ {x}
    /\ Answer(x, status)
    /\ UNCHANGED <<gatewayVars, toPlugin, plug, collection, openCodeVars, left, sent>>

-----------------------------------------------------------------------------
InteractionInit ==
    /\ conn = None /\ plug = None
    /\ projected = {} /\ stale = {} /\ queries = {} /\ commands = {} /\ outcomes = <<>>
    /\ toPlugin = <<>> /\ toGateway = <<>>
    /\ collection = <<>> /\ calls = {}
    /\ pending = {} /\ resolvedBy = [r \in Request |-> None] /\ place = [r \in Request |-> "here"]
    /\ sent = <<>>
    /\ left \in Budgets

LoseConnection == Disconnect \/ Restart

GatewayStep ==
    \/ Attach
    \/ Query \/ QueryTimesOut
    \/ \E r \in Request, c \in 1..(Len(sent) + 1) : Submit(c, r)
    \/ CommandTimesOut \/ ExpireOutcome
    \/ Receive

PluginStep ==
    \/ Drop \/ OnServerFrame \/ CollectionEnds
    \/ \E l \in Lists, hidden \in SUBSET Request : ReadList(l, hidden)
    \/ \E x \in calls : CallTimesOut(x)

OpenCodeStep ==
    \/ \E r \in Request : Ask(r) \/ AnswerLocally(r) \/ Move(r)
    \/ \E x \in calls :
        \/ \E lost \in BOOLEAN : ExecuteCall(x, lost)
        \/ CheckCall(x)
        \/ \E status \in {"upstream_error", "result_unknown"} : FailCall(x, status)

InteractionStep == GatewayStep \/ PluginStep \/ OpenCodeStep
InteractionNext == LoseConnection \/ InteractionStep

\* SessionControl composes this with the prompts and the session catalogue.
InteractionSpec == InteractionInit /\ [][InteractionNext]_ivars

-----------------------------------------------------------------------------
(* Properties *)

\* Types; what the gateway waits for is on the current connection only, one command
\* per request and per kind and id at most, each id has one entry, and an entry that
\* is open has a command in flight with its id.
InteractionTypeOK ==
    /\ conn \in Nat /\ plug \in Nat
    /\ projected \cup stale \cup pending \subseteq Request
    /\ resolvedBy \in [Request -> Int]
    /\ Len(outcomes) <= MaxOutcomes
    /\ \A q \in queries : q[1] = conn
    /\ \A x, y \in commands :
         /\ x.conn = conn
         /\ \/ RequestOf(x.cmd) = RequestOf(y.cmd)
            \/ IdOf(x.cmd) = IdOf(y.cmd) /\ SameKind(RequestOf(x.cmd), RequestOf(y.cmd))
            => x = y
    /\ \A j, k \in DOMAIN outcomes : IdOf(outcomes[j].cmd) = IdOf(outcomes[k].cmd) => j = k
    /\ \A k \in DOMAIN outcomes :
         outcomes[k].status = "accepted" => \E x \in commands : IdOf(x.cmd) = IdOf(outcomes[k].cmd)

\* An outcome says what happened to a command with the client's id, which is the very
\* one that made the entry unless the id was sent more than once: a confirmed command is the one
\* OpenCode applied, a stale one lost to another resolution or found the session moved
\* away, and a command that OpenCode applied is never reported as failed, across
\* timeouts, lost replies, reconnections, repeats of an id and commands for the same
\* request from several clients.
\*   packages/contracts/src/schemas/commands.ts:11-12 says of stale only that "the request
\* was resolved before the command applied"; that a session which moved is reported so
\* as well (v2-api.ts:163, 209) is excepted by name.
OutcomesTruthful ==
    \A k \in DOMAIN outcomes :
        LET o == outcomes[k]
            r == RequestOf(o.told)
        IN  /\ o.status \in {"confirmed", "stale", "upstream_error"} =>
                 o.told # 0 /\ IdOf(o.told) = IdOf(o.cmd)
            /\ o.status = "confirmed" => resolvedBy[r] = o.told
            /\ o.status = "stale" => resolvedBy[r] \notin {None, o.told} \/ place[r] # "here"
            /\ o.status = "upstream_error" => resolvedBy[r] # o.told

\* What a client is told of its command is final: a settled outcome is never open
\* again, and no late result, timeout or disconnect changes it, unless its id was
\* sent again and a command with it is in flight and ends; one that was dropped
\* returns only when its id is sent again.
\*   instance-registry.ts:1063 says "a replay must not clobber the settled outcome":
\* recordOutcome does not, but the end of the replay does (settleOutcome, 1102-1111),
\* whatever its own request; that is the exception.
OutcomesFinal ==
    [][\A c \in {IdOf(n) : n \in DOMAIN sent} :
        LET was == OutcomeFor(c)
            is == OutcomeFor(c)'
        IN  /\ was = "not_found" /\ is # "not_found" => is = "accepted" /\ Repeated(c)'
            /\ was \notin {"accepted", "not_found"} =>
                 \/ is \in {was, "not_found"}
                 \/ is # "accepted" /\ Repeated(c) /\ \E x \in commands \ commands' : IdOf(x.cmd) = c]_ivars

\* instance-registry.ts, staleRequests: "Request ids that were projected but are
\* no longer pending".  A command for a stale request that is not projected
\* again is refused as a conflict, so none of those may be pending.
StaleIsResolved == (stale \ projected) \cap pending = {}
=============================================================================
