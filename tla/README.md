# OpenCode Notify Hub: TLA+ models, checks and proofs

OpenCode Notify Hub tells a developer, on any device, what the coding agents on
their machines are doing, and lets them unblock an agent that waits for an
answer. This directory models the parts of it whose correctness depends on the
order in which signals, timers, messages, failures and shutdowns meet. Each
module is a translation of the TypeScript it names; TLC checks small instances
and TLAPS proves the safety properties for every instance, all but one of them.

Contents: [the system](#1-the-system), [the modules](#2-the-modules-and-the-code),
[the runs](#3-the-runs), [the proofs](#4-the-proofs),
[disagreements found](#5-disagreements-between-code-and-text),
[what is left out](#6-what-is-not-modelled), [the plan](#7-the-plan).
Paths are relative to `src/`.

## 1. The system

    OpenCode --events--> plugin --POST /v1/events--> gateway --WebSocket, FCM--> client
       ^                   |                            ^  |                       |
       +---replies---------+<==== control WebSocket ====+  +<-----REST, WebSocket--+

Four programs share one protocol: the **plugin** inside every OpenCode process
(`packages/plugin`), the **gateway** (`apps/gateway`), the Flutter **client**
(`apps/client`), and the **contracts** between them (`packages/contracts`).
Everything runs on single-threaded event loops. What interleaves are the gaps:
an `await`, a timer, a socket event, a process restart.

| Component | State it keeps | Operations | What is hard | What makes it correct |
|---|---|---|---|---|
| Plugin round machine (`state-machine.ts`) | per session: status, start of the round, frozen elapsed time, debounce and heartbeat timers, pending actions, terminal outcome | a handler per signal, two timer callbacks, flush, dispose | debounce racing failures, aborts and new rounds; a wall clock that jumps | one terminal per round, with the working time; resolutions only of what was announced; heartbeats exactly while working |
| Plugin event hook and ancestry (`index.ts`, `session-registry.ts`, `v2.ts`) | classified sessions, lookups in flight, calls waiting on them, whether the channel is wanted, started or stopping, the dispose phase | event, lookup answer, listing answer, lifecycle event, dispose | state read before an await and used after it; lookups shared between calls; disposal in the middle | only main sessions notify; every call resolves; a finished round is reported before shutdown; the channel runs while the directory has a session |
| Plugin delivery (`queue.ts`, `pump.ts`, `sender.ts`) | bounded priority queue, the drain promise, stop state | enqueue, attempt, retry, settle, stop | the gap between the last dequeue and the promise's settlement; stop against producers and backoff | one sender, FIFO within a priority, nothing stranded, only documented losses |
| Plugin control channel and adapters (`control-channel.ts`, `*-adapter.ts`) | socket, probe generation, shared collection, calls to OpenCode, Web UI aborts | probe, connect, serve frames, drop, stop | late answers, timeouts against work already done, half-open sockets, streams without an end | a reported status agrees with what OpenCode did; a stopped channel is down entirely |
| Plugin message cache (`message-cache.ts`) | recent text by session | role, text, eviction | role and text arrive in either order | the summary is the assistant's last text |
| Gateway instance registry (`control/instance-registry.ts`) | connections, records, directory ownership, sequence numbers | upgrade, register, disconnect, heartbeat, revoke, forget, close all | nested promotion over dying sockets; silent death; revocation against a handshake | one owner per directory, first come first kept; presence never stale |
| Gateway interactions and commands (same class) | queries, projections, stale ids, commands in flight, outcome cache | query, answer, decide, result, timeout, expiry | results after timeouts, two clients on one request, cache at its limit | outcomes are truthful, final and always reached |
| Gateway event ingest (`events/*`, `lib/dedupe.ts`) and realtime connections | dedupe entries in flight and done, sockets by user | authenticate, dispatch once, fan out, commit | retries while the first copy is in flight; partial fan-out failure | every accepted event reaches each target at least once, and once unless retried |
| Gateway accounts (`auth/*`) | users, codes, refresh-token families | register, verify, log in, refresh, reset, log out | concurrent rotation and reuse detection | one live token per family; a reset ends older sessions |
| Gateway devices and FCM, administration, mail, startup and shutdown | rows, process state | CRUD, push, drain | a token cleared after it was replaced; a push that never settles | a flight always ends; the seed never undoes the operator's password |
| Client realtime, accounts, pending interactions, presentation (`lib/realtime`, `auth`, `pending`, ...) | connection loop, tokens with epochs, refresh loop, reducers | connect, refresh, submit, reconcile, log out | answers of an older epoch; refresh after logout; two loops on one client | stale work never reaches the state of a newer session |

How they interact: the hook calls the round machine, whose effects become
envelopes in the delivery queue; the pump posts them to the gateway, which
dispatches each once and fans it out. The plugin's control channel registers
the process with the gateway's instance registry; the registry's queries and
commands travel back over it, and the adapters turn them into calls to the
local OpenCode server. The client sees presence frames, events and REST
answers. `PROJECT.json` lists all parts, and under `hazards` every place where
something can go wrong that a test would hardly reach.

## 2. The modules and the code

    OpenCode events                                          gateway
    HostV2 --> HostEvents --> EventPipeline --> DeliveryPump --> EventIngest --> clients
                               | SessionMachine                  (implements EventDelivery)
                               | MessageCache
    sessions, listings
    RemoteEntry --> ControlChannel ---control socket---> InstanceRegistry
                     SessionControl (InteractionCommands) across both ends
    accounts: AuthSessions

| Module | Extends | Code |
|---|---|---|
| SessionMachine, SessionMachineProofs | | `packages/plugin/src/state-machine.ts` |
| HostEvents, HostV2 | HostV2 extends HostEvents | `events.ts`, `v2.ts`, `v2-api.ts` |
| MessageCache | | `message-cache.ts` |
| EventPipeline, EventPipelineProofs | SessionMachine, HostV2, MessageCache | `index.ts`, `session-registry.ts`, `v2.ts`, `envelope.ts` |
| DeliveryPump, DeliveryPumpProofs | | `queue.ts`, `pump.ts`, `sender.ts` |
| ControlChannel, RemoteEntry, RemoteEntryProofs | RemoteEntry extends ControlChannel | `control-channel.ts`, `index.ts`, `webui-proxy.ts`; gateway `control/instance-registry.ts` |
| InteractionCommands, SessionControl, SessionControlProofs | SessionControl extends InteractionCommands | `control-channel.ts`, the `*-adapter.ts`, `session-catalog.ts`; gateway `control/*` |
| InstanceRegistry, InstanceRegistryProofs | | gateway `control/instance-registry.ts`, `control-ws.routes.ts`, `ingest-keys/*` |
| EventDelivery, EventIngest, EventIngestProofs | EventIngest instantiates EventDelivery | `sender.ts`; gateway `events/*`, `lib/dedupe.ts`, `realtime/*`, `devices/*`, `shutdown.ts` |
| AuthSessions, AuthSessionsProofs | | gateway `auth/*`, `admin/*` |

Every module has one action per handler, callback or message. A handler that
runs to completion on the JavaScript thread is one step, with the calls it
makes; one that awaits is one step per segment. Payload text, logging and
formatting are left out. Operators named `Bug...` are mutations of the definition
that follows them: each property is shown to fail when the code has that defect.

**SessionMachine.** `sessions[s]` is the `SessionState` record; `OnBusy`, `OnRetry`,
`OnRetryWithAction`, `OnIdle`, `OnTerminalSignal`, `OnAsked`, `OnResolved`,
`FlushPendingCompletions`, `DisposeSession` and `DisposeAll` are the methods of
those names; `IdleTimerFires` and `OnHeartbeatTick` are the timer callbacks. A
pending timer is a flag whose callback may run at any later step, which covers
every period. `now` is `Date.now()` and moves in both directions. `out` holds the
effects of the last step, `heard` what an observer of signals and effects knows;
both are history and no handler reads them.

**HostEvents** is `normalizeEvent` with its readers: which event types there are,
which fields decide whether one is used, under which of several names a field may
come, and what is dropped. **HostV2** is the loop body of `v2.ts`: which V1 events an
event of the OpenCode 2 stream becomes, in order. Both are operators; EventPipeline
applies them to every event, so its runs check them.

**MessageCache** holds per session, in least-recently-active order, the messages with
role and text; `OnRole`, `OnText`, `Summary` and `ClearSessions` are its methods,
with both evictions.

**EventPipeline** is the hook. `OnEvent` takes a raw event up to `onEvent`'s `await`,
`Resume` the rest of it, with the second look at `disposed` and the registry;
`LookupReturns` is the SDK's answer about a session, `BeginDispose` and
`FinishDispose` the two halves of `dispose` around `await control.stop()`. `Dispatch`
feeds the round machine (SessionMachine's handlers) and the cache, and `summaries`
holds the text that a terminal takes with it. `StreamEvent` reads one event of the V2
stream and `StreamGoesOn` makes its next hook call, after the previous one resolved. A
workload says what the host may emit and whether it calls the hook before the previous
call resolved (V1) or not. The directory listing is served at one moment (`ListServed`) and
received at another (`ListReturns`), by when a session on it may have moved away; `page` is the
answer on its way, `late` what V2 may still receive of answers that an event outdated
(`LateListing`: `v2.ts` enters their sessions although the hook drops them).

**DeliveryPump.** Events are numbered in the order they are offered, like `Entry.seq`.
A drain loop is identified by the first event it took, which stands for its promise's
identity; it is `fetching`, `sleeping` (backoff) or `returned`, the last being the gap
between its last empty dequeue and the `finally`. `Enqueue` is admission, eviction or
rejection, then `Kick`. `Stop`, `StopResumes` and `StopEnds` are the segments of
`stop()`. `fate` is history.

**ControlChannel** is the plugin's connection loop, and the Web UI tunnel over it.
`Connect` starts a version probe, `ProbeSettles` ends one, which may be of an earlier
generation (`probes.stale`); `SocketOpens`, `Registration`, `SocketCloses`, `KeyRefused`
(4403) and `Reconnect` are the socket's and timer's callbacks, `OldSocketCloses` the close
event of a socket that was given up. The tunnel has its three ends: the browser's client
(`ClientOpens`, `ClientSends`, `ClientCancels`, `ClientCloses`, `ClientGone`, modelled
from `webui_tunnel.dart`'s side of the protocol), the gateway (`pending`, `tunnel`, `link`)
and the plugin, whose abort map is told apart by identity (`webUiAborts` is the
registered map, each upstream request knows its own), since `webUiRequest`'s `finally`
deletes whichever map is registered.

**RemoteEntry** is what starts and stops the channel: `StartControl`, `StopEmptyControl`
and `StopSettles` around its `await`, the paged `discoverRemoteEntry` (`DiscoveryRuns`,
`ListServed`, `ListReturns`, `ListFails`), lifecycle events in the order the host sent
them (`Deliver`), and hook calls after their ancestry lookup (`CallResumes`). A listing
is answered by the host at one moment and received at another. `directoryRevision` is
abstracted to whether a discovery in flight is still current. An execution is under
OpenCode 1, which calls the hook itself, or OpenCode 2 (`v2`), whose stream `v2.ts` reads: an
event only names its session (`notice`), `SessionRead` is `getSession`'s answer, `EventDropped`
its failure or an event that passes while the loop subscribes anew, `known` are the sessions
`v2.ts` holds, and `Deliver` ignores a move of any other. `missed` is history: the sessions of
whose latest change the hook was told nothing.

**InteractionCommands.** The remote unblock loop of one instance, end to end, with
three actors: the gateway (`Query`, `Submit`, `Receive` and the timers), the plugin
(`OnServerFrame`, `ReadList`, `CollectionEnds`, `CallTimesOut`, `Drop`) and OpenCode,
which is external and modelled from how the adapters use it (`Ask`, `AnswerLocally`, `Move`,
`ExecuteCall`, `CheckCall`, `FailCall`). `conn` and `plug` are the two ends of the control
connection, lost independently. InstanceRegistry decides when an instance is attached;
here that is `Attach` and `Disconnect`. The shared collection is modelled with its two
list reads separate, so a request may be resolved between them. `CheckCall` is the V2
adapter's look at session and request before it replies, which ends as `stale` also when the
session has moved (`place`) and the request still waits. A command is its number in `sent`; the
id it goes by is the client's, new or one that was sent before. `Recorded` keeps the entry an id
has, `SettledAs` settles whatever entry has the id of a command that ends, and `told` is the
command whose result an entry shows.

**SessionControl** adds the two other services of the same connection: prompts (`SendPrompt`,
`PromptResult`, ...) and the session catalogue (`CollectSessions`, `ListPage`, `LookUp`,
`ListingEnds`, `CatalogResponse`), whose sessions change between the page and the
lookups; at most `MaxBookmarks` of the bookmarks asked for are looked at (`Kept`). A drop of
the connection settles all services in one step, as `disconnect` does.

**InstanceRegistry.** One user, since record and ownership keys start with the user id.
`Verify` and `Add` are the two halves of an upgrade; `Disconnect` is `disconnect` with the
promotion it triggers: `Heir` is the contender that is finally promoted and `PassedOver`
the ones whose socket turned out closed on the way, each of which is disconnected in a
nested call. That call returns at once for a connection that has left the set (line 1189), so
promotion ends with such a contender, controllable and dead (`Lasting`). A socket is `open`, `silent` (half-open) or `closed` before its close event. A
socket over its buffer limit counts as closed, since `send` treats the two alike.
`RegisterReplacing` is the path on which `register` finds the record connected; it ends
the process (finding 2). `RegisterLate` is a register frame behind the close of a revoked
connection, which enters a record whose connection is in the set no more. `DeleteKey` is the row's revocation and the registry's. `Restart` is the end of
a process and a new one.

**EventIngest** has the sender's attempts (`Post`, `AttemptTimesOut`), the requests in the
gateway by the stage they are at (`Join` a flight or `Own` it, `FanOut`, `LookUpTargets`,
`FcmSettles`, `FcmTimesOut`, `ClearToken`, `Succeed` or `Fail`, `RecordUse`), the sockets with
heartbeat and pong, the device rows with the tokens FCM has given out, expiry of dedupe
entries and `Restart`. An attempt the plugin gave up goes on in the gateway, so attempts
overtake each other. **EventDelivery** is the abstract promise: an event is offered, may be
dispatched any number of times, and is accepted only after a dispatch ran to its end.
EventIngest instantiates it under a mapping of the sender's state to the event's fate,
and the run checks that it implements it (`AtLeastOnce`).

**AuthSessions** has two halves for each handler that reads before its transaction
(`LoginChecks`/`LoginCreates`, `RefreshChecks`/`RefreshRotates`, ...). A session is the sequence
of its tokens, each rotated or not. A reset is one action, since it reads nothing that its
transaction does not check again.

The `MC*` modules instantiate these for TLC; the values are in the `.cfg` files.

## 3. The runs

| Run | Instance | Checks |
|---|---|---|
| `session_machine` | one session, one request id, two provider actions, clock 0..2 | `TypeOK`; `RoundInv`, the agreement of the machine with what was heard; `OneTerminalPerRound`; `ElapsedIsWorkingTime`; `ResolvedWasAnnounced`; `TimersServe` |
| `event_pipeline` | five workloads: rounds of a main and a child session; a directory listing among archival and removal; roles and texts over an evicting cache; odd and ignored events; an OpenCode 2 stream | `PipelineInv`; `OnlyMainSessionsEmit`; `ShutdownSettlesDebounce`; `CacheServes`; `CallsResolve` |
| `event_order` | busy, idle and created of one session, concurrent hook calls | violated: `HeartbeatsFollowHost` (finding 1) |
| `delivery_pump` | four events of any mix of three priorities, capacity 2, one retry | `DeliveryTypeOK`, `NeverStranded`, `InOrder`, `StopDrainsAll`, `LossPolicy`, `AcceptedSettles` |
| `instance_registry` | three connections, four instances of one directory (one incompatible), two keys | `RegistryTypeOK`, `OneOwnerPerDirectory`, `PresenceCurrent`, `OwnershipPasses`, `DeadOwnersYield` |
| `instance_replaced` | two connections, two directories | violated: `ReconnectAppears` (finding 2) |
| `key_revocation` | two connections, one key | violated: `RevocationDisables` (finding 3) |
| `interaction_commands` | seven budgets of connections, queries, commands, moves, prompts and catalogues; a question, a permission, two sessions, one bookmark looked up, outcome cache of one | `InteractionTypeOK`, `OutcomesTruthful`, `CatalogTruthful`, `OutcomesFinal`, `RequestsEnd` |
| `stale_snapshot` | a question and a permission, two queries | violated: `StaleIsResolved` (finding 4) |
| `event_ingest` | two events, one of them pushed, one socket, one device with two tokens, one retry, dedupe cache of one | `IngestTypeOK`, `ConnectedClientsHaveIt`, `RepeatsExcused`, `NothingHangs`, `AtLeastOnce` |
| `auth_sessions` | two handlers at once, two passwords, two sessions of three tokens | `AuthTypeOK`, `FamiliesNeverFork`, `PasswordChangesStick` |
| `remote_entry` | five set-ups of faults, tunnels, history and host events, one of them under OpenCode 2; one session, two tunnel requests, pages of 1 and 2 | `EntryTypeOK`, `EntryFollowsSessions`, `DownMeansDown`, `EntryComesUp`, `UpstreamCancelled` |

What each property says is stated above its definition.

**Bounds.** Sessions do not interact in the round machine, so one is enough there, and
the proofs cover any number; two provider actions are needed for a replacement, and three
clock values for a round whose start, first idle and end differ or run backwards. The
pipeline needs a child besides a main session, and three events for a wait, an overtaking
and a resumption; five events and a cache of one session and two messages let a message
lose its role and get its text again, over two rounds; its clock stands still, since
SessionMachine checks elapsed times. Four offers against a capacity of two give an eviction, a
rejection and a queue refilled while a loop is returning; three of the four event types
are used because `action_required` and `terminal` share a priority. Three connections
make a promotion that passes over one dead contender and still finds another; the fourth
instance is the one with the wrong protocol. In `interaction_commands` an execution draws
one of seven budgets, so that every pair of services meets without the product of all: two
commands let a second one be submitted after the first timed out, with its id or a new one, two
moves take a session away and back under a command, two connections a result
arrive over the wrong one, an outcome cache of one puts it at its limit with the second
command, and two catalogues overlap. In `event_ingest` two attempts of one event overlap with
each other and with the next event, and a cache of one entry evicts the first event's when
the second is committed. Two handlers at once are enough for every race of `auth_sessions`, as each is
between one read and one transaction; three tokens let a rotation be replayed after its
successor was rotated. In `remote_entry` one fault at a time, two pages and up to three host
events give a listing that is overtaken, a start during a stop, and a stale probe beside a
fresh one; under OpenCode 2 two events suffice for a move that follows a dropped creation or meets a
page on its way; two requests of one tunnel share or miss an abort map.

Bounds of the models are `MaxTime`, `MaxOffers`, `MaxEvents`, `MaxTokens`, `MaxFamilies`,
`MaxChanges`, `MaxCodes`, `MaxStale` and what `Workloads`, `Budgets` and `Setups` allow.
`Capacity`, `MaxRetries`, `MaxOutcomes`, `MaxCommitted`, `MaxSessions`, `MaxMessagesPerSession`,
`MaxBookmarks`, `Limit` and `Limits` are parameters of the code at small values.

**Symmetry** is used in `auth_sessions` only, over handlers and passwords, which no
definition names; the run checks no liveness. `instance_registry` checks liveness, so
TLC's symmetry is ruled out there; instead `MCNext` brings connections and instances into
use in a fixed order, gives each connection one key, revokes one of the two, and lets the incompatible instance
come over one connection, which leaves out renamings and mixtures of no interest.

**Deadlock** is not checked where the system really may stop: a plugin that has been
disposed of, a pump that has stopped, connections that have all been used. It is checked
in `session_machine`, `interaction_commands`, `event_ingest` and `auth_sessions`.

**Fairness.**

- `session_machine`: a timer that stays armed fires (weak fairness of the two callbacks).
- `event_pipeline` adds that an SDK lookup settles (`createSdkLookup` turns failures into
  answers and its call is the host's own server), that a ready microtask runs, and that
  `control.stop()` returns, which it does synchronously. The host need not send anything.
- `delivery_pump`: an attempt ends (`fetch` runs under `AbortSignal.timeout`), a backoff
  ends, and promise reactions run.
- `instance_registry`: only the heartbeat interval of a live connection, not that a socket
  ever reports its own death.
- `interaction_commands`: only the gateway's four timers; the plugin and OpenCode may be
  silent for ever, and an outcome's expiry is never owed.
- `event_ingest`: the sender's timers, the database's answer, the FCM timeout and the
  heartbeat interval. FCM, the network, the clients and the user owe nothing.
- `remote_entry`: the event loop, timers, the listing's timeout, the probe's deadline and
  frames in order. OpenCode answers or fails the read of one session, which neither the loop of
  `v2.ts` nor `createSdkLookup` bounds with a timeout. `SocketOpens` and `Registration` are strongly fair: a probe that ends as
  `unknown` makes the channel drop its socket after a minute and probe again, so a handshake
  is enabled again and again, never for ever, and the gateway answers it well within
  the minute. Clients and upstream requests owe nothing, and OpenCode
  nothing else.

## 4. The proofs

TLAPS checks these for every value of the constants that the named assumptions
allow. None restricts the code beyond what it has:

- Limits, bounds and retries are naturals, and positive where the code needs one
  (`MaxTimeAssumption`, `DeliveryAssumption`, `IngestAssumption`, `InteractionAssumption`,
  `ControlAssumption`, `EntryAssumption`, `ChannelAssumption`, `CacheAssumption`); the limits on
  what the environment does are of any size.
- Directories divide the instances (`RegistryAssumption`), a question is no permission
  (`InteractionAssumption`), the absence of a password is none (`AuthAssumption`), the sessions and
  Web UI requests of one life are finitely many (`EntryAssumption`, `ChannelAssumption`).
- A host is OpenCode 1 or 2, and what it says of a session is of one of its sessions or of
  none (`PipelineAssumption`, of the events as `normalizeEvent` and the stream yield them).

Each proof has the same shape: an invariant that the initial states satisfy and that
every action preserves, with a lemma per action; the invariants the runs check are
parts of it or follow from it, and an action property follows from one step under it. TLC
checked each inductive invariant on the instance of its run first.

**SessionMachineProofs.** `TypeCorrect` is inductive as it stands. The three
action properties are about a step given its past, so they need an invariant that
ties the record to the history: `RoundInv` says that the two timers are exclusive,
a heartbeat is armed exactly while the session works, a debounce is pending
exactly from the first idle to the round's end and never after the terminal, the
frozen elapsed time is the one at that first idle, and only announced actions are
pending. `RoundsAgree` proves it inductive, one step per handler;
`TerminalsOnce`, `ElapsedExact` and `ResolutionsAnswer` follow from `StepJustified`,
which examines the effects of each handler under it.

**DeliveryPumpProofs.** The inductive invariant is
`PumpInv == DeliveryTypeOK /\ FateInv /\ LoopInv /\ StopInv /\ FifoWithinPriority`.
`FateInv` ties each event's recorded fate to where the event is, `LoopInv` says
that there is at most one loop and that it is the one `draining` names unless it
is `stop()`'s own, `StopInv` what each phase of `stop()` has established.
`NeverStranded` is not inductive: it holds because a returned loop's `finally`
kicks again, which takes the three parts together. `PumpInvariant` proves
`PumpInv` with a lemma per operation; `DeliveryTypes`, `NothingStranded`,
`OrderedDelivery` (from `SingleSender` and `FifoOrder`) and `StopComplete` are
consequences, and `LossesFollowPolicy` is the action property, from `LossJustified`.

**EventPipelineProofs.** `HookInv` adds to `PipelineInv` what holds while a call waits. In
`WaitingInv` a session that a call was told is main is classified ever after: so when the call
resumes, its second look at the registry leaves only main sessions, although the
registry changed in between. `AwayInv` says that no session of another directory but a stray counts as
main, nor is on a page whose answer will be taken, which rests on `known` (the plugin removes a moved session only if it has its
info) and on `StreamInv`: what waits in the stream between two hook calls is never a
lifecycle event. `RecordsInv` keeps from the round machine that a debounce belongs to a
round that has not ended, so that disposal's flush reports it. Lemmas about `normalizeEvent`
and `Translate` say what the calls of a stream event may be. `HookKeepsItsSessions`,
`NotificationsAreOfMainSessions` and `ShutdownReports` are the results.

**InstanceRegistryProofs.** `RegistryInv` is `RegistryTypeOK`, `OneOwnerPerDirectory` and
`PresenceCurrent` with `ConnectionInv` (which connection an instance is on, from the handshake to
the close event) and `RecordInv` (sequence numbers come from the counter, and only an instance that
speaks the protocol contends). Promotion is the hard step: `Heir` is the first contender in
order of registration that is not live on a closed socket, and everyone before it is disconnected on
the way; the lemmas on `Heir` and `PassedOver` say that no contender is left without an owner.
`FirstRegistrationWins` is the action property.

**SessionControlProofs.** `ControlInv` is `InteractionInv /\ CatalogInv`, and both are about what is
under way. A result is believed when its frame arrives, by which time its command may have timed
out, its connection may have been replaced and OpenCode may have been restarted; `TruthInv`
therefore says of every call, result frame and outcome that it is true of what OpenCode
did, wherever it is, and `CarrierInv` that one command is carried by one thing
at a time and has resolved nothing while it is carried, which makes a failure reported
later true as well. `AskedInv` keeps projections to what OpenCode asked, `KnownInv` every mention of a
command to those that were sent. `WaitingInv` says that an id has one entry, and one that is open
a command in flight on the current connection; `BusyInv` that a settled entry whose id is in
flight is of an id that was sent again, which is what `OutcomesFinal` comes down to. For the catalogue, `HistoryInv` brackets what is listable while a
response is waited for, and `ListingInv` says that every frame, listing and response holds what
it must for its own request. `UnblockTypes`, `OutcomesAreTrue`, `OutcomesStay` and `CatalogsAreTrue` are
the results. In `Collected` the sequence of waiters is cut by position, since the
waiters of an earlier socket come first.

**RemoteEntryProofs.** `EntryInv` is `ChannelInv /\ LifecycleInv /\ StartedInv`. For `EntryFollowsSessions` the
invariant has to speak of the states in which the entry does *not* follow the
sessions: `LifecycleInv` names, for every mismatch, the delivery, listing or settlement under way
that will correct it, and says that at most one discovery in flight is current; its parts range over
the sessions that are not `missed`. `HeldInv` ties the hook's main sessions to those `v2.ts` holds: without
it a removal under way might be one that `v2.ts` swallows.
`ChannelInv` ties the three ends of a tunnel to the socket: which requests the plugin's abort maps
hold, that a closed tunnel's are aborted, and that a stopped channel has nothing left
(`StoppedInv`). `EntryUpToDate` and `StoppedIsDown` are the results.

**EventIngestProofs.** `IngestInv` orders the sender's attempts against the requests in the gateway:
one owner per flight (`FlightInv`), a copy is answered as accepted only when a dispatch of the event
ran to its end (`DoneInv`), while a socket is owed the current event no copy of it is past dedupe
(`OwedInv`), and an event whose repetition nothing excuses is in flight or committed
(`ExcusedInv`). From it follow `AcceptedReachedClients`, `FanOutsExcused`, and `ImplementsDelivery`: every step of
EventIngest is, under the mapping, a step of EventDelivery or leaves its variables
alone. That last one is proved step by step: `StepKind` lists what a step
may be to the sender and to the history of dispatches, and `StepsAre` proves that every step is
one of these.

**AuthSessionsProofs.** `AuthInv` says of every family that only its last token is live
(`FamiliesNeverFork`), that a live one was stored after the last change of the password
(`LiveAreCurrent`), that a token a rotation was answered for is marked (`AnsweredAreRotated`), and of a
handler between its read and its transaction what it may still rely on (`ReadHolds`).
`NoFamilyForks` and `PasswordChangesHold` are the results.

**Only model-checked.**

- Liveness: `TimersServe`, `CallsResolve`, `AcceptedSettles`, `DeadOwnersYield`, `RequestsEnd`, `NothingHangs`,
  `EntryComesUp` and `UpstreamCancelled`. Fairness and ENABLED are beyond the prover, so the
  theorems use no fairness.
- `CacheServes`: it is about what `SelectSeq` returns for every cache, which is an induction
  over data.
- The four disagreements below, which the runs refute.

## 5. Disagreements between code and text

1. *Events overtake each other* (`event_order`). `onEvent` awaits the ancestry
   lookup, so a busy that waits is dispatched after the idle that followed it when
   a lifecycle event fills the registry in between. The idle session then emits
   heartbeats until its next event. Only hosts that do not await the hook are
   affected.
2. *A replaced instance ends the gateway* (`instance_replaced`). `register`
   disconnects the previous connection, which clears `existing.connection`, and
   then reads `existing.connection.socket`: a TypeError in the message handler that
   nothing catches. It takes a plugin that reconnects before its half-open socket
   was noticed.
3. *A revoked key can stay in use* (`key_revocation`). An upgrade that was
   verified before the revocation is added after it, and the key is not looked at
   again until the connection ends.
4. *An unavailable list resolves everything* (`stale_snapshot`). The plugin answers
   an empty list when OpenCode's lists fail or time out, and the gateway takes an
   empty list for the authoritative one: every projected request becomes stale, and
   answers to requests that still wait are refused until the next good snapshot.

The following also depart from what a text says or a reader would expect. The models have the
steps, and the property that meets them excepts them by name, so that it says what does hold:

- *A dead owner* (`DeadOwnersYield`, `RegisteredLate`). A register frame that arrives behind the
  close of a revoked connection enters a record; `disconnect` returns at once for a connection
  that is not in the set (`instance-registry.ts:1189`) and its heartbeat is off. As an owner,
  at once or by promotion, the record keeps its directory until the instance registers again or
  the process ends.
- *A replayed command id* (`OutcomesFinal`, `Repeated`). `instance-registry.ts:1063` says "a replay must
  not clobber the settled outcome". `recordOutcome` does not, but the end of the replay, a result, a
  timeout or a disconnect, settles the entry again (`settleOutcome`, 1102-1111).
- *Stale, and still waiting* (`OutcomesTruthful`, `place`). `packages/contracts/src/schemas/commands.ts:11-12`
  says "the request was resolved before the command applied"; under OpenCode 2 a session in another directory
  is reported so as well (`v2-api.ts:163`, 209).
- *A stray session* (`OnlyMainSessionsEmit`, `strays`). `v2.ts:90-94` ignores the move of a session it
  does not hold; a listing served before the move and received after it makes the session main,
  and it notifies from a directory it has left.
- *An untold session* (`EntryFollowsSessions`, `EntryComesUp`, `missed`). `CHANGELOG.md:53-54` says that
  remote registration "starts on the first main-session event". Under OpenCode 2 that event is dropped
  when `getSession` throws or the stream is just subscribing anew (`v2.ts:95`, 124-129), and nothing
  reads it again; and a move that `v2.ts` ignores lets a page on its way start the
  channel of an empty directory.

## 6. What is not modelled

Behaviour that the models contain and the properties leave room for, because no text
of the repository promises otherwise:

- *A replaced token is cleared* (`dispatcher.ts:138`). A push that FCM refuses clears the
  token by device id, so a token the device registered in between goes with it, until the
  device registers again. EventIngest has the step.
- *A login that verified the old password* before a reset stores its session after it, and
  that session lives. AuthSessions has the step, and `PasswordChangesStick` counts the
  session as one of after the change: `auth.repository.ts:270` promises the end of the sessions
  that exist at the reset. A refresh that read before a logout or a reset may
  still answer with a pair, which is dead.
- *A late request* (`instance-registry.ts:1343`, `webui_tunnel.dart`). The client may send a
  request it was still reading after its tunnel's close frame, the gateway forwards it
  without asking for the tunnel, and nothing cancels it upstream before the plugin's own
  channel stops. `DownMeansDown` and `UpstreamCancelled` except these requests by name
  (`sent[r] = "late"`).
- *A third copy of a prompt.* A late result of a prompt that timed out removes the entry of
  a repeated copy, so a third copy is accepted while the second is in flight
  (`instance-registry.ts:926`). The client never repeats an id.
- *After a key refusal* (4403) the channel stays down while `controlStarted` stays set, until
  the directory empties (`EntryComesUp` excepts it as `Refused`).

Assumptions on what is outside: a session that turns out an internal worker is one from its
creation (`RemoteEntry.NextStates`); events the V2 adapter misses in the second in which its
stream reconnects (`v2.ts:129`) do not happen in EventPipeline; OpenCode's listing answers
with the sessions there are; query ids, which the gateway draws, are fresh UUIDs, and prompt ids are
fresh but for a repeated copy. In ControlChannel both ends of the control socket are lost in one
step, and its responses to the gateway are not queued; in InteractionCommands the ends are lost
independently and frames queue.

Parts left out:

- Wording, truncation and the remaining fields of envelopes, configuration, logging, mail,
  health checks, parsing and validation of bodies: pure or single statements.
- In EventIngest and AuthSessions: rate limits, expiry of access and refresh tokens beyond
  the socket's, push payloads, listings.
- In InteractionCommands: the ceiling on remembered stale ids (beyond it a refusal is a 404
  where it was a 409).
- The client, a Dart program with a state of its own, beyond its end of the Web UI tunnel:
  planned below.
- Widgets, platform channels, generated code, build and smoke scripts.

## 7. The plan

Done: SessionMachine and its proofs; EventPipeline with HostEvents, HostV2 and
MessageCache; DeliveryPump and its proofs; InstanceRegistry; InteractionCommands and
SessionControl; ControlChannel and RemoteEntry; EventIngest and its refinement of
EventDelivery; AuthSessions; and the proofs of all of them.

Next, in this order:

1. **The composition of SessionMachine and EventPipeline**: that the machine keeps `RoundInv` inside
   the pipeline, where a handler is called with what `normalizeEvent` yields and disposal is
   flush and removal in one step, so that its action properties hold there as well.
2. **Rounds**, an abstract specification of what a session's notifications promise
   (working, blocked, ended once), refined by SessionMachine, with the refinement proved.
3. **Client**: `WsClient` (connection loop), `ClientAuth` (epochs and refresh) and
   `PendingController` (refresh against submission).
