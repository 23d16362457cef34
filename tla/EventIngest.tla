---------------------------- MODULE EventIngest ----------------------------
(***************************************************************************)
(* One event's way from the plugin to the user's clients: the retrying     *)
(* sender (packages/plugin/src/sender.ts), the gateway's POST /v1/events   *)
(* with its single-flight dedupe, the fan-out to the sockets of the        *)
(* connection registry and to the Android devices over FCM.                *)
(*                                                                         *)
(* The plugin's pump (DeliveryPump) sends one event after another.  An     *)
(* attempt that the plugin abandons goes on in the gateway.  Everything    *)
(* the gateway does between two awaits is one action; a database statement *)
(* is atomic.  One user, one ingest key: rows and sockets of other users   *)
(* are never touched.                                                      *)
(***************************************************************************)
EXTENDS Integers, Sequences, FiniteSets, SequencesExt

CONSTANTS
    MaxEvents,      \* bound on the events
    Pushed,         \* the events that go to devices too: action_required and
                    \* terminal ones that fit FCM's budget
    Socket,         \* the user's possible WebSocket connections
    Device,         \* ids the user's Android devices register under
    MaxTokens,      \* bound on the tokens FCM gives one device
    MaxRetries,     \* DEFAULT_MAX_RETRIES of the sender
    MaxCommitted    \* DEDUPE_MAX_SIZE

VARIABLES
    current,    \* plugin: the event the sender is at
    attempt,    \* plugin: its attempt
    phase,      \* plugin: what the sender is doing
    fate,       \* plugin: how the sender settled each event
    requests,   \* gateway: the attempts it has not answered
    inFlight,   \* gateway: EventDedupe.inFlight
    committed,  \* gateway: EventDedupe.committed, oldest first
    sockets,    \* gateway: ConnectionRegistry.byUser, and the peers' state
    rows,       \* database: the devices
    own,        \* FCM: the token that reaches each device
    owed,       \* history: the sockets open since before the current event's
                \* first attempt that were not sent it
    dispatched, \* history: the events a dispatch of which ran to its end
    excused     \* history: the events a further fan-out is explained for

senderVars == <<current, attempt, phase, fate>>
dedupeVars == <<inFlight, committed>>
deviceVars == <<rows, own>>
historyVars == <<dispatched, excused>>
evars == <<senderVars, requests, dedupeVars, sockets, deviceVars, owed, historyVars>>

ASSUME IngestAssumption ==
    /\ {MaxEvents, MaxTokens, MaxRetries, MaxCommitted} \subseteq Nat
    /\ MaxTokens > 0 /\ MaxCommitted > 0
    /\ Pushed \subseteq 1..MaxEvents

Event == 1..MaxEvents
NoToken == 0

\* A request at `stage', with its pushes: a device, its token, and whether the
\* push is under way or its dead token is being cleared.
Request(e, a, stage) == [event |-> e, attempt |-> a, stage |-> stage, pushes |-> {}]
NoSocket == [open |-> FALSE, ready |-> FALSE, peer |-> FALSE, alive |-> FALSE]
Row(status, token) == [status |-> status, enabled |-> status = "stored", token |-> token]

-----------------------------------------------------------------------------
(* The plugin's sender *)

\* The first attempt of the next event, or a retry once the backoff is over.  A
\* request the network loses is one that stays "sent".
Post ==
    /\ current \in Event /\ phase \in {"idle", "sleeping"}
    /\ phase' = "waiting"
    /\ attempt' = IF phase = "idle" THEN 0 ELSE attempt + 1
    /\ requests' = requests \cup {Request(current, attempt', "sent")}
    /\ owed' = IF phase = "idle" THEN {s \in Socket : sockets[s].open} ELSE owed
    /\ UNCHANGED <<current, fate, dedupeVars, sockets, deviceVars, historyVars>>

\* send() returns or throws: the pump goes on with the next event.
Finished(end) ==
    /\ fate' = [fate EXCEPT ![current] = end]
    /\ current' = current + 1 /\ attempt' = 0 /\ phase' = "idle" /\ owed' = {}

\* A network error, a timeout or a 5xx.
Retryable ==
    \/ attempt < MaxRetries /\ phase' = "sleeping" /\ UNCHANGED <<current, attempt, fate, owed>>
    \/ attempt = MaxRetries /\ Finished("failed")

\* The attempt times out, whatever becomes of the request.
AttemptTimesOut ==
    /\ phase = "waiting"
    /\ Retryable
    /\ UNCHANGED <<requests, dedupeVars, sockets, deviceVars, historyVars>>

\* What the answers to the requests rs do to the sender: only that of the
\* attempt it waits for, if any, gets through.
Answer(rs, status) ==
    IF phase = "waiting" /\ \E r \in rs : r.event = current /\ r.attempt = attempt
    THEN CASE status = "accepted" -> Finished("accepted")
           [] status = "refused" -> Finished("failed")
           [] status = "unavailable" -> Retryable
    ELSE UNCHANGED <<senderVars, owed>>

-----------------------------------------------------------------------------
(* The gateway's sockets *)

\* An upgrade with a valid access token: the registry adds the socket.
Connect(s) ==
    /\ ~sockets[s].open
    /\ sockets' = [sockets EXCEPT ![s] =
                     [open |-> TRUE, ready |-> TRUE, peer |-> TRUE, alive |-> TRUE]]
    /\ UNCHANGED <<senderVars, requests, dedupeVars, deviceVars, owed, historyVars>>

\* remove() of the sockets S.
Removed(S) ==
    /\ sockets' = [s \in Socket |-> IF s \in S THEN NoSocket ELSE sockets[s]]
    /\ owed' = owed \ S

\* The peer vanishes without a close, or the closing handshake is under way.
PeerFails(s) ==
    /\ sockets[s].open /\ sockets[s].peer
    /\ \/ sockets' = [sockets EXCEPT ![s].peer = FALSE]
       \/ sockets' = [sockets EXCEPT ![s].peer = FALSE, ![s].ready = FALSE, ![s].alive = FALSE]
    /\ UNCHANGED <<senderVars, requests, dedupeVars, deviceVars, owed, historyVars>>

\* A pong, or a ping of the client's own.
Pong(s) ==
    /\ sockets[s].open /\ sockets[s].peer /\ ~sockets[s].alive
    /\ sockets' = [sockets EXCEPT ![s].alive = TRUE]
    /\ UNCHANGED <<senderVars, requests, dedupeVars, deviceVars, owed, historyVars>>

\* The heartbeat interval: a socket that is closing, or whose peer was silent for
\* a whole interval, goes; any other is pinged.
Heartbeat(s) ==
    /\ sockets[s].open
    /\ IF sockets[s].ready /\ sockets[s].alive
       THEN sockets' = [sockets EXCEPT ![s].alive = FALSE] /\ UNCHANGED owed
       ELSE Removed({s})
    /\ UNCHANGED <<senderVars, requests, dedupeVars, deviceVars, historyVars>>

\* The close or error event of the socket, or the expiry of its access token.
SocketCloses(s) ==
    /\ sockets[s].open
    /\ Removed({s})
    /\ UNCHANGED <<senderVars, requests, dedupeVars, deviceVars, historyVars>>

\* A defect: only sockets that answered the last ping are sent the event.
BugFanOut(e) ==
    \E kept \in SUBSET {s \in Socket : sockets[s].open /\ sockets[s].ready} :
        /\ sockets' = [s \in Socket |-> IF s \in kept THEN sockets[s] ELSE NoSocket]
        /\ owed' = IF e = current THEN {s \in owed \cap kept : ~sockets[s].alive} ELSE owed \cap kept

\* ConnectionRegistry.send: every open socket is sent the event; those that are
\* closing, too far behind or fail to send are dropped.  It never fails.
FanOut(e) ==
    \E kept \in SUBSET {s \in Socket : sockets[s].open /\ sockets[s].ready} :
        /\ sockets' = [s \in Socket |-> IF s \in kept THEN sockets[s] ELSE NoSocket]
        /\ owed' = IF e = current THEN {} ELSE owed \cap kept

-----------------------------------------------------------------------------
(* The gateway: authentication and dedupe *)

\* preValidation refuses: the credential, its timestamp or its signature is not
\* good, the key's budget of the minute is used up, or the key store fails.
Refuse(r) ==
    /\ r.stage = "sent"
    /\ requests' = requests \ {r}
    /\ \E status \in {"refused", "unavailable"} : Answer({r}, status)
    /\ UNCHANGED <<dedupeVars, sockets, deviceVars, historyVars>>

At(r, stage) == (requests \ {r}) \cup {[r EXCEPT !.stage = stage]}

\* A defect: a duplicate of an event in flight is answered at once.
BugJoin(r) == requests' = At(r, "recording") /\ UNCHANGED <<inFlight, sockets, owed, excused>>

\* A duplicate of an event in flight waits for its owner's dispatch.
Join(r) == requests' = At(r, "waiting") /\ UNCHANGED <<inFlight, sockets, owed, excused>>

\* A defect: the flight is not registered before the first await.
BugOwn(r) ==
    /\ requests' = At(r, "fanned")
    /\ FanOut(r.event)
    /\ excused' = excused \ {r.event}
    /\ UNCHANGED inFlight

\* The caller owns the flight, whose fan-out to the sockets runs at once.
Own(r) ==
    /\ requests' = At(r, "fanned")
    /\ inFlight' = inFlight \cup {r.event}
    /\ FanOut(r.event)
    /\ excused' = excused \ {r.event}

\* dispatchOnce up to its first await: a live committed entry is a duplicate.
DispatchOnce(r) ==
    /\ r.stage = "sent"
    /\ \/ /\ r.event \in ToSet(committed)
          /\ requests' = At(r, "recording")
          /\ UNCHANGED <<inFlight, sockets, owed, excused>>
       \/ r.event \notin ToSet(committed) /\ r.event \in inFlight /\ Join(r)
       \/ r.event \notin ToSet(committed) /\ r.event \notin inFlight /\ Own(r)
    /\ UNCHANGED <<senderVars, committed, deviceVars, dispatched>>

\* commit: the key's entry, of which there is one at most, goes to the tail; the
\* oldest go when there are too many.  All entries live equally long, so the expired
\* ones are the oldest.
Committed(e) ==
    LET all == Append(RemoveFirst(committed, e), e)
    IN  SubSeq(all, Len(all) - Min({Len(all), MaxCommitted}) + 1, Len(all))

Waiters(e) == {w \in requests : w.event = e /\ w.stage = "waiting"}

\* The dispatch of r succeeded: the owner and the waiters go on to their 202.
Succeed(r) ==
    LET mine == {r} \cup Waiters(r.event)
    IN  /\ requests' = (requests \ mine) \cup {[q EXCEPT !.stage = "recording", !.pushes = {}] : q \in mine}
        /\ inFlight' = inFlight \ {r.event}
        /\ committed' = Committed(r.event)
        /\ dispatched' = dispatched \cup {r.event}
        /\ excused' = excused \cup (ToSet(committed) \ ToSet(committed'))
        /\ UNCHANGED <<senderVars, owed>>

\* A defect: the flight of a failed dispatch stays registered.
BugFail(r) ==
    LET mine == {r} \cup Waiters(r.event)
    IN  /\ requests' = requests \ mine
        /\ excused' = excused \cup {r.event}
        /\ Answer(mine, "unavailable")
        /\ UNCHANGED <<committed, inFlight, dispatched>>

\* The dispatch of r failed: nothing is committed, all of them are answered 503.
Fail(r) ==
    LET mine == {r} \cup Waiters(r.event)
    IN  /\ requests' = requests \ mine
        /\ inFlight' = inFlight \ {r.event}
        /\ excused' = excused \cup {r.event}
        /\ Answer(mine, "unavailable")
        /\ UNCHANGED <<committed, dispatched>>

\* recordUse, which may fail without consequence, and the 202.
RecordUse(r) ==
    /\ r.stage = "recording"
    /\ requests' = requests \ {r}
    /\ Answer({r}, "accepted")
    /\ UNCHANGED <<dedupeVars, sockets, deviceVars, historyVars>>

\* The dedupe window of the oldest entry ends.
DedupeExpires ==
    /\ committed # <<>>
    /\ committed' = Tail(committed)
    /\ excused' = excused \cup {Head(committed)}
    /\ UNCHANGED <<senderVars, requests, inFlight, sockets, deviceVars, owed, dispatched>>

\* The process ends and starts again: no event, flight or socket survives it.
Restart ==
    /\ requests' = {r \in requests : r.stage = "sent"}
    /\ inFlight' = {} /\ committed' = <<>>
    /\ Removed(Socket)
    /\ excused' = Event
    /\ UNCHANGED <<senderVars, deviceVars, dispatched>>

-----------------------------------------------------------------------------
(* The gateway: pushes *)

\* DeviceRepository.update: one statement, on the row as it is by then.
Update(d, field, value) == rows' = [rows EXCEPT ![d] = [@ EXCEPT ![field] = value]]

\* listAndroidPushTargets.
Targets ==
    {[device |-> d, token |-> rows[d].token, stage |-> "sending"] :
        d \in {x \in Device : rows[x].enabled /\ rows[x].token # NoToken}}

\* The event needs no push, or no device wants one, or the pushes start, or the
\* look-up fails.
LookUpTargets(r) ==
    /\ r.stage = "fanned"
    /\ \/ (r.event \notin Pushed \/ Targets = {}) /\ Succeed(r)
       \/ /\ r.event \in Pushed /\ Targets # {}
          /\ requests' = (requests \ {r}) \cup {[r EXCEPT !.stage = "pushing", !.pushes = Targets]}
          /\ UNCHANGED <<senderVars, dedupeVars, owed, historyVars>>
       \/ r.event \in Pushed /\ Fail(r)
    /\ UNCHANGED <<sockets, deviceVars>>

\* Push p of r has settled; the dispatch ends with the last one.
PushDone(r, p) ==
    IF r.pushes = {p}
    THEN Succeed(r)
    ELSE /\ requests' = (requests \ {r}) \cup {[r EXCEPT !.pushes = @ \ {p}]}
         /\ UNCHANGED <<senderVars, dedupeVars, owed, historyVars>>

\* FCM takes the push, or refuses it for another reason than its token.
FcmSettles(r, p) ==
    /\ r.stage = "pushing" /\ p \in r.pushes /\ p.stage = "sending"
    /\ PushDone(r, p)
    /\ UNCHANGED <<sockets, deviceVars>>

\* A defect: the send is awaited without a limit.
BugFcmTimesOut(r, p) == FALSE /\ UNCHANGED evars

\* The send is abandoned; its late settlement is ignored.
FcmTimesOut(r, p) ==
    /\ r.stage = "pushing" /\ p \in r.pushes /\ p.stage = "sending"
    /\ PushDone(r, p)
    /\ UNCHANGED <<sockets, deviceVars>>

\* FCM knows that the token is dead: it is to be cleared.
TokenInvalid(r, p) ==
    /\ r.stage = "pushing" /\ p \in r.pushes /\ p.stage = "sending"
    /\ p.token # own[p.device]
    /\ requests' = (requests \ {r}) \cup
                     {[r EXCEPT !.pushes = (@ \ {p}) \cup {[p EXCEPT !.stage = "clearing"]}]}
    /\ UNCHANGED <<senderVars, dedupeVars, sockets, deviceVars, owed, historyVars>>

\* The device's row loses its token, whichever it is now, or the update fails.
ClearToken(r, p) ==
    /\ r.stage = "pushing" /\ p \in r.pushes /\ p.stage = "clearing"
    /\ Update(p.device, "token", NoToken) \/ UNCHANGED rows
    /\ PushDone(r, p)
    /\ UNCHANGED <<sockets, own>>

-----------------------------------------------------------------------------
(* The devices *)

\* FCM gives the device a new token; the old one is dead.
Rotate(d) ==
    /\ rows[d].status = "stored" /\ own[d] < MaxTokens
    /\ own' = [own EXCEPT ![d] = @ + 1]
    /\ UNCHANGED <<senderVars, requests, dedupeVars, sockets, rows, owed, historyVars>>

\* POST /v1/devices, by the app on the device, with its token.
RegisterDevice(d) ==
    /\ rows[d].status = "none"
    /\ rows' = [rows EXCEPT ![d] = Row("stored", own[d])]
    /\ UNCHANGED <<senderVars, requests, dedupeVars, sockets, own, owed, historyVars>>

\* PATCH /v1/devices/:id with a new token, or with the user's preference.
PatchDevice(d) ==
    /\ rows[d].status = "stored"
    /\ \/ rows[d].token # own[d] /\ Update(d, "token", own[d])
       \/ \E b \in BOOLEAN : Update(d, "enabled", b)
    /\ UNCHANGED <<senderVars, requests, dedupeVars, sockets, own, owed, historyVars>>

\* DELETE /v1/devices/:id; a device that registers again gets another id.
DeleteDevice(d) ==
    /\ rows[d].status = "stored"
    /\ rows' = [rows EXCEPT ![d] = Row("deleted", NoToken)]
    /\ UNCHANGED <<senderVars, requests, dedupeVars, sockets, own, owed, historyVars>>

-----------------------------------------------------------------------------
IngestInit ==
    /\ current = 1 /\ attempt = 0 /\ phase = "idle"
    /\ fate = [e \in Event |-> "unsent"]
    /\ requests = {} /\ inFlight = {} /\ committed = <<>>
    /\ sockets = [s \in Socket |-> NoSocket]
    /\ owed = {}
    /\ rows = [d \in Device |-> Row("none", NoToken)]
    /\ own = [d \in Device |-> 1]
    /\ dispatched = {} /\ excused = Event

PushSteps ==
    \E r \in requests : \E p \in r.pushes :
        FcmSettles(r, p) \/ FcmTimesOut(r, p) \/ TokenInvalid(r, p) \/ ClearToken(r, p)

DeviceSteps ==
    \E d \in Device : Rotate(d) \/ RegisterDevice(d) \/ PatchDevice(d) \/ DeleteDevice(d)

IngestNext ==
    \/ Post \/ AttemptTimesOut
    \/ \E s \in Socket : Connect(s) \/ PeerFails(s) \/ Pong(s) \/ Heartbeat(s) \/ SocketCloses(s)
    \/ \E r \in requests : Refuse(r) \/ DispatchOnce(r) \/ LookUpTargets(r) \/ RecordUse(r)
    \/ PushSteps
    \/ DeviceSteps
    \/ DedupeExpires
    \/ Restart

\* The sender's timers run; the database answers or fails and a send times out;
\* the heartbeat ticks.  FCM, the network, the clients and the user owe nothing.
IngestFairness ==
    /\ WF_evars(Post \/ AttemptTimesOut)
    /\ WF_evars(\E r \in requests :
                  LookUpTargets(r) \/ \E p \in r.pushes : FcmTimesOut(r, p) \/ ClearToken(r, p))
    /\ \A s \in Socket : WF_evars(Heartbeat(s))

IngestSpec == IngestInit /\ [][IngestNext]_evars /\ IngestFairness

-----------------------------------------------------------------------------
(* Properties *)

Owners(e) == {r \in requests : r.event = e /\ r.stage \in {"fanned", "pushing"}}

\* Type and structure: an event is in flight exactly while one request owns its
\* dispatch, and only then does a duplicate wait.
IngestTypeOK ==
    /\ current \in 1..MaxEvents + 1 /\ attempt \in 0..MaxRetries
    /\ phase \in {"idle", "waiting", "sleeping"}
    /\ fate \in [Event -> {"unsent", "accepted", "failed"}]
    /\ \A r \in requests : r.event \in Event /\ r.attempt \in 0..MaxRetries
    /\ \A e \in Event : Cardinality(Owners(e)) = IF e \in inFlight THEN 1 ELSE 0
    /\ \A e \in Event : Waiters(e) # {} => e \in inFlight
    /\ Len(committed) <= MaxCommitted
    /\ \A d \in Device : rows[d].token \in 0..own[d]

\* What the plugin takes for accepted was sent to every client that has been
\* connected since before the event's first attempt, through retries, duplicates,
\* failed dispatches and dedupe (connection-registry.ts, dedupe.ts).
ConnectedClientsHaveIt ==
    [][\A e \in Event : fate[e] # "accepted" /\ fate'[e] = "accepted" =>
        \A s \in owed : ~sockets[s].peer]_evars

\* An event that was fanned out is fanned out again only after its dispatch
\* failed, its dedupe entry was dropped or the gateway restarted: never because
\* copies of it overlap (dedupe.ts: "can never trigger a second dispatch").
RepeatsExcused ==
    [][\A r \in requests :
        (r.stage = "sent" /\ [r EXCEPT !.stage = "fanned"] \in requests') => r.event \in excused]_evars

\* A flight ends though FCM may never settle a send, or every further copy of the
\* event would wait for it for ever; and a socket whose peer is gone without a word
\* is dropped by the heartbeat.
NothingHangs ==
    /\ \A e \in Event : e \in inFlight ~> e \notin inFlight
    /\ \A s \in Socket : (sockets[s].open /\ ~sockets[s].peer) ~> ~sockets[s].open

Delivery == INSTANCE EventDelivery WITH
    Event <- Event,
    fate <- [e \in Event |-> IF e = current /\ phase # "idle" THEN "offered" ELSE fate[e]],
    dispatched <- dispatched

\* The sender, the dedupe and the dispatcher implement EventDelivery: a 202, also
\* a duplicate's, means that a dispatch of the event ran to its end, and what an
\* event has settled as stays.
AtLeastOnce == Delivery!Spec
=============================================================================
