---------------------------- MODULE EventPipeline ----------------------------
(***************************************************************************)
(* The plugin's event hook (packages/plugin/src/index.ts, onEvent,         *)
(* dispatch and dispose) over the ancestry registry                        *)
(* (packages/plugin/src/session-registry.ts), the round machine and the    *)
(* message cache that supplies a terminal's summary.                       *)
(*                                                                         *)
(* OpenCode calls the hook once per event.  The first event of a session   *)
(* whose ancestry is unknown starts one SDK lookup; later events of that   *)
(* session wait on the same lookup.  A call that has its verdict resumes   *)
(* in a later microtask and looks again at `disposed' and at the registry, *)
(* because lifecycle events, the directory listing and disposal run while  *)
(* it waits.  OpenCode serves a listing at one moment and the plugin       *)
(* receives it at a later one.  The remote entry that the hook starts and  *)
(* stops (startControl) is the module RemoteEntry: here it can only make a *)
(* listing outdated.                                                       *)
(*                                                                         *)
(* OpenCode 2 has no hook calls: the plugin reads a stream of events,      *)
(* translates each into hook calls (HostV2) and awaits one call after the  *)
(* other.  What it misses while the stream reconnects does not happen here. *)
(***************************************************************************)
EXTENDS SessionMachine, HostV2, MessageCache

CONSTANTS
    Workloads,    \* what OpenCode may do in one life of the plugin: the sessions with a
                  \* parent, the events it emits (in V1 to the hook, in V2 on the stream)
                  \* and their number, whether V1 calls the hook again before the last
                  \* call resolved; whether there is a control channel, without which
                  \* nothing is listed (V2 has one); and the includeSummary setting
    Directory     \* the directory the plugin runs in

VARIABLES
    workload,     \* the workload of this life
    registry,     \* SessionRegistry.entries, by what they classify the session as
    inflight,     \* sessions with an SDK lookup in flight
    waiting,      \* the hook calls in progress, in the order they were made
    phase,        \* dispose: "running", "stopping" (control.stop() awaited), "stopped"
    events,       \* events delivered so far
    stream,       \* V2: the hook calls that the last event of the stream still stands for
    known,        \* V2: the sessions of v2.ts, whose info the plugin has
    away,         \* V2: the sessions that have moved to another directory
    strays,       \* V2, history: those of them that a listing served before the move,
                  \* received after it and applied would call main
    discovery,    \* discoverRemoteEntry: "idle", "due" (scheduled), "served" (an answer is on
                  \* its way), "next" (another page is asked for)
    page,         \* the sessions that answer names, main and archived, or NoPage
    late,         \* V2: the sessions that outdated answers, which may still arrive, name
    cache,        \* the message cache
    summaries,    \* the summaries of the terminals of the latest step, by session
    hostStatus,   \* history: the last round signal OpenCode sent
    said          \* history: the messages with text dispatched since the last terminal

v2Vars == <<stream, known, away, strays>>
discoveryVars == <<discovery, page, late>>
hookVars == <<workload, registry, inflight, waiting, phase, events, v2Vars, discoveryVars>>
cacheVars == <<cache, summaries, said>>
pvars == <<vars, hookVars, cacheVars, hostStatus>>

\* An event that the plugin acts on is of a session the host has, or of none.
OfSession(event) == event.kind = "dropped" \/ event.session \in Session \cup {Missing}

\* An event of the stream names a session the host has, or none.
StreamOfSession(event) ==
    /\ Field(event.data, "sessionID") \in Session \cup {Missing}
    /\ event.type = "form.created" => event.data.form.sessionID \in Session \cup {Missing}

\* A host is V1 or V2.
ASSUME PipelineAssumption ==
    /\ Missing \notin Session
    /\ \A w \in Workloads :
        /\ w.children \subseteq Session
        /\ w.events \in Nat
        /\ {w.concurrent, w.control, w.includeSummary} \subseteq BOOLEAN
        /\ \A raw \in w.raws : OfSession(NormalizeEvent(raw))
        /\ \A event \in w.v2 : StreamOfSession(event)
        /\ w.raws = {} \/ w.v2 = {}
        /\ w.v2 # {} => w.control

-----------------------------------------------------------------------------
(* The registry *)

\* What an entry says: top level, child, or hidden (archived, deleted, internal).
Entry == {"absent", "main", "child", "hidden"}

\* The answers OpenCode can give about a session's ancestry and archival, while
\* the sessions elsewhere are of another directory.
InfoOf(s, elsewhere) ==
    IF s \in elsewhere THEN {}
    ELSE IF s \in workload.children THEN {"child"}
    ELSE {"main", "hidden"}

Excluded(s) == registry[s] \in {"child", "hidden"}

Verdict(entry) == IF entry = "main" THEN "main" ELSE "drop"

\* registry.update with an upsert or a deletion: `removed', internal title, parent.
EntryOf(event) ==
    IF event.kind = "deleted" \/ event.archived \/ event.title = "internal" THEN "hidden"
    ELSE IF event.parent # Missing THEN "child"
    ELSE "main"

-----------------------------------------------------------------------------
(* The directory listing, as far as directoryRevision goes *)

NoPage == [main |-> {}, archived |-> {}]

Listed(answer) == answer.main \cup answer.archived

\* An answer on its way is of an earlier revision now.  The registry will not take
\* it, but v2.ts still enters its sessions.
Outdate(then) ==
    /\ discovery' = then
    /\ page' = NoPage
    /\ late' = IF workload.v2 = {} THEN late ELSE late \cup Listed(page)

-----------------------------------------------------------------------------
(* What a step does to the round machine and to the cache *)

MachineQuiet ==
    /\ out' = {}
    /\ UNCHANGED <<sessions, now, heard>>

NoSummaries == [s \in Session |-> NoMessage]

CacheQuiet ==
    /\ summaries' = NoSummaries
    /\ UNCHANGED <<cache, said>>

Forget(S) ==
    /\ cache' = ClearSessions(cache, S)
    /\ said' = [s \in Session |-> IF s \in S THEN {} ELSE said[s]]

\* EnvelopeFactory.terminal: the summary goes out only if the setting says so.
TerminalSummary(summary) == IF workload.includeSummary THEN summary ELSE NoMessage

\* emitTerminal for the terminals of this step, over the cache as the step left
\* it: the summary is read, then the session's records are dropped.
EmitTerminals(left, spoken) ==
    LET ended == {s \in Session : EndsRound(s, out')}
    IN  /\ summaries' = [s \in Session |-> IF s \in ended THEN TerminalSummary(Summary(left, s)) ELSE NoMessage]
        /\ cache' = ClearSessions(left, ended)
        /\ said' = [s \in Session |-> IF s \in ended THEN {} ELSE spoken[s]]

\* index.ts dispatch, the machine's part: one event of a main session.
MachineStep(event) ==
    LET s == event.session
    IN  \/ event.kind = "busy" /\ OnBusy(s)
        \/ event.kind = "retry" /\ event.action = Missing /\ OnRetry(s)
        \/ event.kind = "retry" /\ event.action # Missing /\ OnRetryWithAction(s, event.action)
        \/ event.kind = "idle" /\ OnIdle(s)
        \/ event.kind \in {"failed", "stopped"} /\ OnTerminalSignal(s, event.kind)
        \/ event.kind = "asked" /\ OnAsked(s, event.key)
        \/ event.kind = "resolved" /\ OnResolved(s, event.key)
        \/ event.kind = "text" /\ MachineQuiet
        \/ event.kind = "message" /\ event.outcome = Missing /\ MachineQuiet
        \/ event.kind = "message" /\ event.outcome # Missing /\ OnTerminalSignal(s, event.outcome)

\* dispatch, the cache's part, which comes first.
CacheAfter(event) ==
    CASE event.kind = "message" -> OnRole(cache, event.session, event.message, event.role)
      [] event.kind = "text" -> OnText(cache, event.session, event.message, event.text)
      [] OTHER -> cache

SaidAfter(event) ==
    IF event.kind = "text" /\ event.text # "blank"
    THEN [said EXCEPT ![event.session] = @ \cup {event.message}]
    ELSE said

Dispatch(event) ==
    /\ MachineStep(event)
    /\ \E left \in {CacheAfter(event)} : EmitTerminals(left, SaidAfter(event))

Drop == MachineQuiet /\ CacheQuiet

-----------------------------------------------------------------------------
(* The hook *)

HookFree == phase = "running" /\ events < workload.events /\ (workload.concurrent \/ waiting = <<>>)

RoundSignal(event) ==
    IF event.kind \in {"busy", "retry", "idle", "failed", "stopped"} THEN event.kind
    ELSE IF event.kind = "message" THEN event.outcome
    ELSE Missing

\* An event the plugin does not act on or that names no session, and the
\* lifecycle of a session of another directory.
Ignored(event) ==
    \/ event.kind = "dropped"
    \/ event.kind \in {"upsert", "deleted"} /\ event.directory \notin {Missing, Directory}
    \/ event.kind \notin {"dropped", "upsert", "deleted"} /\ event.session = Missing

HostNoise(event) ==
    /\ Ignored(event)
    /\ Drop
    /\ UNCHANGED <<registry, inflight, waiting, discoveryVars, hostStatus>>

\* onEvent up to its await: a cached classification or a (shared) lookup.
HostSignal(event) ==
    LET s == event.session
    IN  /\ ~Ignored(event) /\ event.kind \notin {"upsert", "deleted"}
        /\ waiting' = Append(waiting,
                [event |-> event,
                 verdict |-> IF registry[s] = "absent" THEN "pending" ELSE Verdict(registry[s])])
        /\ inflight' = IF registry[s] = "absent" THEN inflight \cup {s} ELSE inflight
        /\ hostStatus' = [hostStatus EXCEPT ![s] = FirstOf(RoundSignal(event), @)]
        /\ Drop
        /\ UNCHANGED <<registry, discoveryVars>>

\* session.created, updated, archived and deleted never pass the gate.  A main
\* session makes a listing on its way outdated, one that goes asks for another.
HostLifecycle(event) ==
    LET s == event.session
    IN  /\ ~Ignored(event) /\ event.kind \in {"upsert", "deleted"}
        /\ registry' = [registry EXCEPT ![s] = EntryOf(event)]
        /\ IF EntryOf(event) = "main"
           THEN Drop /\ Outdate(IF discovery = "due" THEN "due" ELSE "idle")
           ELSE /\ DisposeSession(s) /\ Forget({s}) /\ summaries' = NoSummaries
                /\ IF event.kind = "deleted" \/ event.archived \/ ~Excluded(s)
                   THEN Outdate(IF workload.control THEN "due" ELSE "idle")
                   ELSE UNCHANGED discoveryVars
        /\ UNCHANGED <<inflight, waiting, hostStatus>>

OnEvent(raw) ==
    LET event == NormalizeEvent(raw)
    IN  /\ HookFree
        /\ events' = events + 1
        /\ HostNoise(event) \/ HostSignal(event) \/ HostLifecycle(event)
        /\ UNCHANGED <<workload, phase, v2Vars>>

-----------------------------------------------------------------------------
(* OpenCode 2 *)

\* The session's info, as getSession returns it.
SessionInfo(s, answer) ==
    [id |-> s, title |-> "title", directory |-> Directory,
     parentID |-> IF answer = "child" THEN "parent" ELSE Missing,
     archived |-> IF answer = "hidden" THEN "time" ELSE Missing]

\* The next of the calls: the others wait until it has resolved.
Emit(calls) ==
    IF calls = <<>> \/ phase # "running"
    THEN stream' = <<>> /\ Drop /\ UNCHANGED <<registry, inflight, waiting, discoveryVars, hostStatus>>
    ELSE LET event == NormalizeEvent(Head(calls))
         IN  /\ stream' = Tail(calls)
             /\ HostNoise(event) \/ HostSignal(event) \/ HostLifecycle(event)

\* One event of the stream.  An answer of "unknown" is a getSession that throws:
\* it failed, or the session is of another directory.
StreamEvent(event, answer) ==
    LET s == Field(event.data, "sessionID")
        asks == ~Foreign(event, Directory) /\ NeedsInfo(event, Directory)
        skipped == Foreign(event, Directory) \/ (asks /\ answer = "unknown")
    IN  /\ phase = "running" /\ events < workload.events /\ waiting = <<>> /\ stream = <<>>
        /\ away' = IF MovesAway(event, Directory) THEN away \cup {s}
                   ELSE IF event.type = "session.moved" THEN away \ {s} ELSE away
        /\ answer \in (IF asks THEN InfoOf(s, away') ELSE {}) \cup {"unknown"}
        /\ events' = events + 1
        /\ Emit(IF skipped THEN <<>> ELSE Translate(event, Directory, known, SessionInfo(s, answer)))
        /\ known' = IF skipped THEN known
                    ELSE IF asks THEN known \cup {s}
                    ELSE IF event.type = "session.deleted" \/ MovesAway(event, Directory) THEN known \ {s}
                    ELSE known
        /\ strays' = IF event.type # "session.moved" THEN strays
                     ELSE IF MovesAway(event, Directory) /\ s \in page'.main THEN strays \cup {s}
                     ELSE strays \ {s}
        /\ UNCHANGED <<workload, phase>>

StreamGoesOn ==
    /\ stream # <<>> /\ waiting = <<>>
    /\ Emit(stream)
    /\ UNCHANGED <<workload, phase, events, known, away, strays>>

-----------------------------------------------------------------------------
(* Ancestry *)

\* A defect: only the call that started the lookup hears its result.
BugWakeFirst(s, answer) ==
    LET entry == IF registry[s] = "absent" /\ answer # "unknown" THEN answer ELSE registry[s]
        first == CHOOSE i \in DOMAIN waiting : /\ waiting[i].event.session = s
                                               /\ \A j \in 1..(i - 1) : waiting[j].event.session # s
    IN  /\ s \in inflight
        /\ registry' = [registry EXCEPT ![s] = entry]
        /\ waiting' = [waiting EXCEPT ![first].verdict = Verdict(entry)]
        /\ inflight' = inflight \ {s}
        /\ Drop
        /\ UNCHANGED <<workload, phase, events, v2Vars, discoveryVars, hostStatus>>

\* The SDK lookup settles.  An entry that appeared meanwhile wins; an unknown
\* answer is not cached and drops the waiting calls.
LookupReturns(s, answer) ==
    LET entry == IF registry[s] = "absent" /\ answer # "unknown" THEN answer ELSE registry[s]
    IN  /\ s \in inflight
        /\ registry' = [registry EXCEPT ![s] = entry]
        /\ waiting' = [i \in DOMAIN waiting |->
                IF waiting[i].event.session = s /\ waiting[i].verdict = "pending"
                THEN [waiting[i] EXCEPT !.verdict = Verdict(entry)]
                ELSE waiting[i]]
        /\ inflight' = inflight \ {s}
        /\ known' = IF workload.v2 # {} /\ answer # "unknown" THEN known \cup {s} ELSE known
        /\ Drop
        /\ UNCHANGED <<workload, phase, events, stream, away, strays, discoveryVars, hostStatus>>

\* session.list: OpenCode serves the root sessions it has in the directory, or some.
ListServed(main, archived) ==
    /\ phase = "running" /\ discovery \in {"due", "next"}
    /\ main \cap archived = {} /\ main \cup archived \subseteq Session \ (workload.children \cup away)
    /\ discovery' = "served"
    /\ page' = [main |-> main, archived |-> archived]
    /\ Drop
    /\ UNCHANGED <<workload, registry, inflight, waiting, phase, events, v2Vars, late, hostStatus>>

\* The answer is received, later, and is of the current revision: the registry takes
\* the sessions it has no entry for.  With no main session there may be another page.
ListReturns ==
    /\ phase = "running" /\ discovery = "served"
    /\ registry' = [s \in Session |-> IF registry[s] # "absent" THEN registry[s]
                                      ELSE IF s \in page.main THEN "main"
                                      ELSE IF s \in page.archived THEN "hidden"
                                      ELSE "absent"]
    /\ known' = IF workload.v2 # {} THEN known \cup Listed(page) ELSE known
    /\ discovery' \in (IF page.main = {} THEN {"idle", "next"} ELSE {"idle"})
    /\ page' = NoPage
    /\ Drop
    /\ UNCHANGED <<workload, inflight, waiting, phase, events, stream, away, strays, late, hostStatus>>

\* The call fails or times out, or startControl has moved the revision.
ListLost ==
    /\ phase = "running" /\ discovery = "served"
    /\ Outdate("idle")
    /\ Drop
    /\ UNCHANGED <<workload, registry, inflight, waiting, phase, events, v2Vars, hostStatus>>

\* V2: outdated answers arrive.
LateListing(some) ==
    /\ phase = "running" /\ some # {} /\ some \subseteq late \ known
    /\ known' = known \cup some
    /\ Drop
    /\ UNCHANGED <<workload, registry, inflight, waiting, phase, events, stream, away, strays, discoveryVars, hostStatus>>

\* A defect: the resumed call does not look again at disposal and the registry.
BugResumeUnchecked ==
    \E i \in DOMAIN waiting :
        /\ waiting[i].verdict # "pending"
        /\ \A j \in 1..(i - 1) : waiting[j].verdict = "pending"
        /\ waiting' = RemoveAt(waiting, i)
        /\ IF waiting[i].verdict = "main"
           THEN Dispatch(waiting[i].event)
           ELSE Drop
        /\ UNCHANGED <<workload, registry, inflight, phase, events, v2Vars, discoveryVars, hostStatus>>

\* onEvent after its await: the first call with a verdict resumes.
Resume ==
    \E i \in DOMAIN waiting :
        /\ waiting[i].verdict # "pending"
        /\ \A j \in 1..(i - 1) : waiting[j].verdict = "pending"
        /\ waiting' = RemoveAt(waiting, i)
        /\ IF waiting[i].verdict = "main" /\ phase = "running" /\ ~Excluded(waiting[i].event.session)
           THEN Dispatch(waiting[i].event)
           ELSE Drop
        /\ UNCHANGED <<workload, registry, inflight, phase, events, v2Vars, discoveryVars, hostStatus>>

TimerFires(s) ==
    /\ IdleTimerFires(s) \/ OnHeartbeatTick(s)
    /\ EmitTerminals(cache, said)
    /\ UNCHANGED <<hookVars, hostStatus>>

-----------------------------------------------------------------------------
(* dispose *)

BeginDispose ==
    /\ phase = "running"
    /\ phase' = "stopping"
    /\ Drop
    /\ UNCHANGED <<workload, registry, inflight, waiting, events, v2Vars, discoveryVars, hostStatus>>

Unarmed(s) == [sessions[s] EXCEPT !.idleTimer = FALSE]
Debouncing == {s \in Session : sessions[s].idleTimer}

\* A defect: the sessions are disposed of before the flush.
BugDisposeFirst ==
    /\ phase = "stopping"
    /\ phase' = "stopped"
    /\ out' = {}
    /\ sessions' = [s \in Session |-> NewState]
    /\ heard' = [s \in Session |-> Unheard]
    /\ EmitTerminals(cache, said)
    /\ UNCHANGED <<now, workload, registry, inflight, waiting, events, v2Vars, discoveryVars, hostStatus>>

\* control.stop() settled: flush the pending completions, then dispose of every
\* session, without yielding in between.
FinishDispose ==
    /\ phase = "stopping"
    /\ phase' = "stopped"
    /\ out' = UNION {CompletionOf(s, Unarmed(s)) : s \in Debouncing}
    /\ sessions' = [s \in Session |-> NewState]
    /\ heard' = [s \in Session |-> Unheard]
    /\ EmitTerminals(cache, said)
    /\ UNCHANGED <<now, workload, registry, inflight, waiting, events, v2Vars, discoveryVars, hostStatus>>

\* pump.stop() settled: the cache is cleared.
CacheCleared ==
    /\ phase = "stopped" /\ cache # <<>>
    /\ MachineQuiet
    /\ Forget(Session) /\ summaries' = NoSummaries
    /\ UNCHANGED <<hookVars, hostStatus>>

-----------------------------------------------------------------------------
PipelineInit ==
    /\ Init
    /\ workload \in Workloads
    /\ registry = [s \in Session |-> "absent"]
    /\ inflight = {}
    /\ waiting = <<>>
    /\ phase = "running"
    /\ events = 0
    /\ stream = <<>> /\ known = {} /\ away = {} /\ strays = {}
    /\ discovery = (IF workload.control THEN "due" ELSE "idle") /\ page = NoPage /\ late = {}
    /\ hostStatus = [s \in Session |-> Missing]
    /\ cache = <<>>
    /\ summaries = NoSummaries
    /\ said = [s \in Session |-> {}]

HostStep ==
    \/ \E raw \in workload.raws : OnEvent(raw)
    \/ \E event \in workload.v2 : \E answer \in {"main", "child", "hidden", "unknown"} : StreamEvent(event, answer)
    \/ \E main, archived \in SUBSET Session : ListServed(main, archived)
    \/ ListReturns
    \/ ListLost
    \/ \E some \in SUBSET Session : LateListing(some)
    \/ BeginDispose

PluginStep ==
    \/ \E s \in Session : \E answer \in InfoOf(s, away) \cup {"unknown"} : LookupReturns(s, answer)
    \/ Resume
    \/ StreamGoesOn
    \/ \E s \in Session : TimerFires(s)
    \/ FinishDispose
    \/ CacheCleared

PipelineNext == HostStep \/ PluginStep

\* OpenCode answers every lookup, the event loop runs what is ready, and
\* control.stop() settles.  The host need not send anything.
PipelineSpec ==
    /\ PipelineInit /\ [][PipelineNext]_pvars
    /\ \A s \in Session :
        /\ WF_pvars(\E answer \in InfoOf(s, away) \cup {"unknown"} : LookupReturns(s, answer))
        /\ WF_pvars(TimerFires(s))
    /\ WF_pvars(Resume)
    /\ WF_pvars(StreamGoesOn)
    /\ WF_pvars(FinishDispose)

-----------------------------------------------------------------------------
(* Properties *)

ListingTypeOK ==
    /\ discovery \in {"idle", "due", "served", "next"}
    /\ page \in [main : SUBSET Session, archived : SUBSET Session]
    /\ discovery # "served" => page = NoPage
    /\ late \subseteq Session

\* Types of the hook's own state; a session works only while the registry
\* calls it a main session and the plugin is not stopped; the plugin has the info of
\* every V2 session it calls main; only an answer on its way has content.
PipelineInv ==
    /\ registry \in [Session -> Entry]
    /\ inflight \subseteq Session
    /\ phase \in {"running", "stopping", "stopped"}
    /\ events \in 0..workload.events
    /\ \A s \in Session : sessions[s] # NewState => registry[s] = "main" /\ phase # "stopped"
    /\ \A i \in DOMAIN waiting : waiting[i].verdict = "pending" => waiting[i].event.session \in inflight
    /\ workload.v2 # {} => \A s \in Session : registry[s] = "main" => s \in known
    /\ strays \subseteq away
    /\ ListingTypeOK

\* Child, internal, archived and deleted sessions never notify, and neither does
\* a session of unknown ancestry: not through a signal that waited on its lookup
\* while the session was removed, nor through a timer armed before the removal.
\* Nor does a session that V2 moved to another directory, whichever way the plugin
\* had come to know it, but for a stray: v2.ts ignores the move of a session it does
\* not know (90-94), a listing served before and received after it makes the session
\* main (v2.ts:51, index.ts:438-440), and then its events, which name no directory,
\* do notify.
OnlyMainSessionsEmit ==
    [][\A e \in out' : registry'[e.session] = "main" /\ (e.session \in away' => e.session \in strays')]_pvars

\* Once disposal has begun a pending debounce ends only with its completion:
\* the plugin never stops with a finished round unreported.
ShutdownSettlesDebounce ==
    [][\A s \in Session :
        phase # "running" /\ sessions[s].idleTimer /\ ~sessions'[s].idleTimer
            => EndsRound(s, out')]_pvars

\* The messages the assistant writes in this workload.
AssistantMessage ==
    {raw.properties.info.id :
        raw \in {x \in workload.raws : x.type = "message.updated" /\ x.properties.info.role = "assistant"}}
    \cup {event.data.assistantMessageID : event \in {x \in workload.v2 : x.type = "session.text.ended"}}

\* Whatever arrives, the cache keeps to its bounds, and it serves a terminal with text
\* the assistant wrote since the session's last terminal: never the user's words,
\* though the text of a message may come before its role, or after the record that
\* knew the role was evicted, and never a message of an earlier round
\* (message-cache.ts, index.ts emitTerminal).
CacheServes ==
    [][/\ Len(cache') <= MaxSessions
       /\ \A k \in DOMAIN cache' : Len(cache'[k].records) <= MaxMessagesPerSession
       /\ \A s \in Session : summaries'[s] # NoMessage => summaries'[s] \in AssistantMessage \cap said[s]]_pvars

\* Every hook call resolves: it is dispatched or dropped once its lookup settles.
\* So the loop that reads the V2 stream always comes back to it.
CallsResolve == []<>(waiting = <<>> /\ stream = <<>>)

\* A session OpenCode last reported idle, failed or stopped emits no heartbeat
\* once none of its events waits (state-machine.ts: "Idle, failed, stopped, and
\* dispose clear the heartbeat").  With a concurrent host an event that waits on
\* the lookup is overtaken by one that finds the registry filled, so this fails.
HeartbeatsFollowHost ==
    [][\A e \in out' :
        e.type = "heartbeat" /\ phase = "running" /\ (\A i \in DOMAIN waiting : waiting[i].event.session # e.session)
            => hostStatus[e.session] \in {"busy", "retry"}]_pvars
=============================================================================
