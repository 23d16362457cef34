--------------------------- MODULE SessionMachine ---------------------------
(***************************************************************************)
(* The plugin's per-session round machine                                  *)
(* (packages/plugin/src/state-machine.ts, class SessionMachine).           *)
(*                                                                         *)
(* OpenCode's signals (busy, retry, idle, failed, stopped, asks and        *)
(* resolutions) drive one state record per session; the machine answers    *)
(* with notification effects.  One action per public method and one per    *)
(* timer callback.  The handlers run to completion on the JavaScript       *)
(* thread and their callbacks (the envelope factory and the pump) never    *)
(* call back into the machine, so each is one step.                        *)
(*                                                                         *)
(* Timers: a pending timer is a flag, and its callback may run at any      *)
(* later step.  That covers every debounce and heartbeat period.  The wall *)
(* clock `now' is Date.now(), which may jump in either direction.          *)
(***************************************************************************)
EXTENDS Integers, FiniteSets

CONSTANTS
    Session,    \* session ids
    Request,    \* upstream request ids of questions and permissions
    Provider,   \* identities of provider actions, as hashed by providerActionKey
    MaxTime     \* bound on the wall clock

ASSUME MaxTimeAssumption == MaxTime \in Nat

VARIABLES
    sessions,   \* the machine's Map; a session it has no entry for is at NewState
    now,        \* the wall clock
    out,        \* the effects emitted by the latest step
    heard       \* history: what an observer of signals and effects knows

vars == <<sessions, now, out, heard>>

-----------------------------------------------------------------------------
(* State *)

Null == -1                       \* JavaScript null for times and durations
Time == 0..MaxTime
Status == {"busy", "retry", "idle"}
Terminal == {"completed", "failed", "stopped"}

\* A pending request's internal key: namespaced by kind.
AskKey == {"question", "permission"} \X Request
ProviderKey == {"provider_action"} \X Provider
Key == AskKey \cup ProviderKey

SessionState ==
    [status           : Status,
     busySince        : Time \cup {Null},
     idleTimer        : BOOLEAN,
     pendingElapsedMs : Time \cup {Null},
     heartbeatTimer   : BOOLEAN,
     terminalSent     : BOOLEAN,
     terminalOutcome  : Terminal \cup {"none"},
     pendingActions   : SUBSET Key]

NewState ==
    [status           |-> "idle",
     busySince        |-> Null,
     idleTimer        |-> FALSE,
     pendingElapsedMs |-> Null,
     heartbeatTimer   |-> FALSE,
     terminalSent     |-> FALSE,
     terminalOutcome  |-> "none",
     pendingActions   |-> {}]

\* stopped outranks failed outranks completed.
OutcomeRank(o) ==
    CASE o = "none" -> 0 [] o = "completed" -> 1 [] o = "failed" -> 2 [] o = "stopped" -> 3

\* A defect: no clamp at 0 when the wall clock steps back.
BugElapsedUnclamped(since, t) == IF since = Null THEN 0 ELSE t - since

\* max(0, t - since), and 0 when no busy was observed.
Elapsed(since, t) == IF since = Null \/ t < since THEN 0 ELSE t - since

-----------------------------------------------------------------------------
(* Effects handed to the emitter *)

TerminalEvent(s, outcome, ms) == [type |-> "terminal", session |-> s, outcome |-> outcome, elapsedMs |-> ms]
HeartbeatEvent(s, status, ms) == [type |-> "heartbeat", session |-> s, status |-> status, elapsedMs |-> ms]
RequiredEvent(s, key) == [type |-> "action_required", session |-> s, key |-> key]
ResolvedEvent(s, key) == [type |-> "action_resolved", session |-> s, key |-> key]

Event ==
    [type : {"terminal"}, session : Session, outcome : Terminal, elapsedMs : Time]
    \cup [type : {"heartbeat"}, session : Session, status : Status \ {"idle"}, elapsedMs : Time]
    \cup [type : {"action_required"}, session : Session, key : Key]
    \cup [type : {"action_resolved"}, session : Session, key : AskKey]

-----------------------------------------------------------------------------
(* History.  It is updated from the signals delivered and the effects       *)
(* emitted, never from the machine's own record.                            *)

Heard ==
    [start     : Time \cup {Null},   \* first busy/retry since the last terminal
     idleAt    : Time \cup {Null},   \* first idle since the last busy/retry or terminal
     ended     : BOOLEAN,            \* a terminal was emitted and nothing was active since
     announced : SUBSET Key]         \* required, not resolved, since the last terminal

Unheard == [start |-> Null, idleAt |-> Null, ended |-> FALSE, announced |-> {}]

EndsRound(s, events) == \E e \in events : e.type = "terminal" /\ e.session = s
KeysOf(type, s, events) == {e.key : e \in {x \in events : x.type = type /\ x.session = s}}

HeardActive(h) ==
    [h EXCEPT !.start = IF @ = Null THEN now ELSE @, !.idleAt = Null, !.ended = FALSE]

HeardIdle(h) ==
    [h EXCEPT !.idleAt = IF @ = Null /\ ~h.ended THEN now ELSE @]

HeardEvents(s, h, events) ==
    IF EndsRound(s, events)
    THEN [Unheard EXCEPT !.ended = TRUE]
    ELSE [h EXCEPT !.announced =
            (@ \cup KeysOf("action_required", s, events)) \ KeysOf("action_resolved", s, events)]

\* A step that replaces one session's record and emits `events'.
Step(s, state, h, events) ==
    /\ sessions' = [sessions EXCEPT ![s] = state]
    /\ out' = events
    /\ heard' = [heard EXCEPT ![s] = HeardEvents(s, h, events)]
    /\ UNCHANGED now

-----------------------------------------------------------------------------
(* Plausible defects, each of which breaks a property below. *)

\* A resumed round keeps the snapshot of the debounce it cancelled.
BugKeepSnapshot(st, status) ==
    [st EXCEPT !.idleTimer = FALSE, !.status = status, !.heartbeatTimer = TRUE,
               !.busySince = IF @ = Null THEN now ELSE @,
               !.terminalSent = IF st.busySince = Null THEN FALSE ELSE @,
               !.terminalOutcome = IF st.busySince = Null THEN "none" ELSE @]

\* Idle leaves the heartbeat armed.
BugIdleKeepsHeartbeat(s) ==
    LET st == sessions[s]
        quiet == [st EXCEPT !.status = "idle"]
    IN  Step(s,
             IF st.idleTimer \/ st.terminalSent
             THEN quiet
             ELSE [quiet EXCEPT !.pendingElapsedMs = Elapsed(st.busySince, now), !.idleTimer = TRUE],
             HeardIdle(heard[s]), {})

\* A completed round keeps its pending actions.
BugKeepActions(st) ==
    IF st.terminalSent
    THEN st
    ELSE [st EXCEPT !.terminalSent = TRUE, !.terminalOutcome = "completed", !.busySince = Null,
                    !.pendingElapsedMs = Null]

\* A second failure or abort of the same round is emitted again.
BugTerminalTwice(s, outcome) ==
    LET st == sessions[s]
    IN  Step(s,
             [st EXCEPT !.idleTimer = FALSE, !.pendingElapsedMs = Null, !.heartbeatTimer = FALSE,
                        !.busySince = Null, !.status = "idle", !.pendingActions = {},
                        !.terminalOutcome = IF OutcomeRank(outcome) > OutcomeRank(@) THEN outcome ELSE @,
                        !.terminalSent = TRUE],
             heard[s],
             {TerminalEvent(s, outcome, IF st.pendingElapsedMs # Null THEN st.pendingElapsedMs
                                        ELSE Elapsed(st.busySince, now))})

\* The heartbeat is not re-armed.
BugHeartbeatOnce(s) ==
    LET st == sessions[s]
    IN  /\ st.heartbeatTimer
        /\ Step(s, [st EXCEPT !.heartbeatTimer = FALSE], heard[s],
                {HeartbeatEvent(s, st.status, Elapsed(st.busySince, now))})

-----------------------------------------------------------------------------
(* Round signals *)

\* onActive with armHeartbeat: cancel the debounce, drop the snapshot, open a
\* round if none is open, keep exactly one heartbeat timer.
Active(st, status) ==
    [st EXCEPT !.idleTimer = FALSE,
               !.pendingElapsedMs = Null,
               !.busySince = IF @ = Null THEN now ELSE @,
               !.terminalSent = IF st.busySince = Null THEN FALSE ELSE @,
               !.terminalOutcome = IF st.busySince = Null THEN "none" ELSE @,
               !.status = status,
               !.heartbeatTimer = TRUE]

ClearPendingProviderAction(st) == [st EXCEPT !.pendingActions = @ \ ProviderKey]

OnBusy(s) ==
    Step(s, ClearPendingProviderAction(Active(sessions[s], "busy")), HeardActive(heard[s]), {})

\* A retry, without a provider action or with action p.
OnRetry(s) ==
    Step(s, Active(sessions[s], "retry"), HeardActive(heard[s]), {})

OnRetryWithAction(s, p) ==
    LET st == Active(sessions[s], "retry")
        key == <<"provider_action", p>>
    IN  IF key \in st.pendingActions
        THEN Step(s, st, HeardActive(heard[s]), {})
        ELSE Step(s, [ClearPendingProviderAction(st) EXCEPT !.pendingActions = @ \cup {key}],
                  HeardActive(heard[s]), {RequiredEvent(s, key)})

\* Idle closes the active period; the first idle freezes the elapsed time and
\* starts the debounce, unless the round has already ended.
OnIdle(s) ==
    LET st == sessions[s]
        quiet == [st EXCEPT !.status = "idle", !.heartbeatTimer = FALSE]
    IN  Step(s,
             IF st.idleTimer \/ st.terminalSent
             THEN quiet
             ELSE [quiet EXCEPT !.pendingElapsedMs = Elapsed(st.busySince, now), !.idleTimer = TRUE],
             HeardIdle(heard[s]), {})

\* completePendingIdle: the record it leaves and the effects it emits.
Completed(st) ==
    IF st.terminalSent
    THEN st
    ELSE [st EXCEPT !.terminalSent = TRUE, !.terminalOutcome = "completed", !.busySince = Null,
                    !.pendingActions = {}, !.pendingElapsedMs = Null]

CompletionOf(s, st) ==
    IF st.terminalSent
    THEN {}
    ELSE {TerminalEvent(s, "completed", IF st.pendingElapsedMs = Null THEN 0 ELSE st.pendingElapsedMs)}

\* The debounce timer's callback.
IdleTimerFires(s) ==
    LET st == [sessions[s] EXCEPT !.idleTimer = FALSE]
    IN  /\ sessions[s].idleTimer
        /\ Step(s, Completed(st), heard[s], CompletionOf(s, st))

\* onFailed and onStopped: the terminal is immediate and excludes the debounce.
OnTerminalSignal(s, outcome) ==
    LET st == sessions[s]
        ms == IF st.pendingElapsedMs # Null THEN st.pendingElapsedMs ELSE Elapsed(st.busySince, now)
    IN  Step(s,
             [st EXCEPT !.idleTimer = FALSE, !.pendingElapsedMs = Null, !.heartbeatTimer = FALSE,
                        !.busySince = Null, !.status = "idle", !.pendingActions = {},
                        !.terminalOutcome = IF OutcomeRank(outcome) > OutcomeRank(@) THEN outcome ELSE @,
                        !.terminalSent = TRUE],
             heard[s],
             IF st.terminalSent THEN {} ELSE {TerminalEvent(s, outcome, ms)})

\* The heartbeat timer's callback re-arms itself while the round is active.
OnHeartbeatTick(s) ==
    LET st == sessions[s]
        active == st.busySince # Null /\ st.status # "idle"
    IN  /\ st.heartbeatTimer
        /\ Step(s, [st EXCEPT !.heartbeatTimer = active], heard[s],
                IF active THEN {HeartbeatEvent(s, st.status, Elapsed(st.busySince, now))} ELSE {})

-----------------------------------------------------------------------------
(* Actions (questions and permissions) *)

\* onQuestionAsked, onPermissionAsked: once per pending key.
OnAsked(s, key) ==
    LET st == sessions[s]
    IN  IF key \in st.pendingActions
        THEN Step(s, st, heard[s], {})
        ELSE Step(s, [st EXCEPT !.pendingActions = @ \cup {key}], heard[s], {RequiredEvent(s, key)})

\* onResolved: only a request pending under the same kind resolves.
OnResolved(s, key) ==
    LET st == sessions[s]
    IN  IF key \notin st.pendingActions
        THEN Step(s, st, heard[s], {})
        ELSE Step(s, [st EXCEPT !.pendingActions = @ \ {key}], heard[s], {ResolvedEvent(s, key)})

-----------------------------------------------------------------------------
(* Shutdown and removal *)

\* Settles every round whose debounce is pending, and no other.
FlushPendingCompletions ==
    LET Unarmed(s) == [sessions[s] EXCEPT !.idleTimer = FALSE]
        pending == {s \in Session : sessions[s].idleTimer}
        events == UNION {CompletionOf(s, Unarmed(s)) : s \in pending}
    IN  /\ sessions' = [s \in Session |-> IF s \in pending THEN Completed(Unarmed(s)) ELSE sessions[s]]
        /\ out' = events
        /\ heard' = [s \in Session |-> HeardEvents(s, heard[s], events)]
        /\ UNCHANGED now

\* disposeSession: timers cleared, entry deleted.  The observer starts over.
DisposeSession(s) ==
    /\ sessions' = [sessions EXCEPT ![s] = NewState]
    /\ heard' = [heard EXCEPT ![s] = Unheard]
    /\ out' = {}
    /\ UNCHANGED now

DisposeAll ==
    /\ sessions' = [s \in Session |-> NewState]
    /\ heard' = [s \in Session |-> Unheard]
    /\ out' = {}
    /\ UNCHANGED now

SetClock(t) ==
    /\ now' = t
    /\ out' = {}
    /\ UNCHANGED <<sessions, heard>>

-----------------------------------------------------------------------------
Init ==
    /\ sessions = [s \in Session |-> NewState]
    /\ now \in Time
    /\ out = {}
    /\ heard = [s \in Session |-> Unheard]

Next ==
    \/ \E s \in Session :
        \/ OnBusy(s)
        \/ OnRetry(s)
        \/ \E p \in Provider : OnRetryWithAction(s, p)
        \/ OnIdle(s)
        \/ IdleTimerFires(s)
        \/ \E outcome \in {"failed", "stopped"} : OnTerminalSignal(s, outcome)
        \/ OnHeartbeatTick(s)
        \/ \E key \in AskKey : OnAsked(s, key) \/ OnResolved(s, key)
        \/ DisposeSession(s)
    \/ FlushPendingCompletions
    \/ DisposeAll
    \/ \E t \in Time : SetClock(t)

Spec == Init /\ [][Next]_vars

\* Node's event loop runs an armed timer's callback eventually; signals from
\* OpenCode and disposal are up to the environment.
FairSpec == Spec /\ \A s \in Session : WF_vars(IdleTimerFires(s)) /\ WF_vars(OnHeartbeatTick(s))
-----------------------------------------------------------------------------
(* Properties *)

\* The record, the effects and the history stay within their types.
TypeOK ==
    /\ sessions \in [Session -> SessionState]
    /\ now \in Time
    /\ out \subseteq Event
    /\ heard \in [Session -> Heard]

\* What the machine keeps about a session agrees with what was signalled and
\* emitted, in every reachable state: the two timers are exclusive, a heartbeat
\* is armed exactly while the session works, a debounce is pending exactly while
\* a round waits for its completion and never after the terminal, the frozen
\* elapsed is the one of the first idle, and only announced actions are pending,
\* with at most one provider action (state-machine.ts, the header and every
\* handler).  This is the inductive invariant behind the three below.
RoundInv ==
    \A s \in Session :
        LET st == sessions[s]
            h == heard[s]
        IN  /\ st.heartbeatTimer <=> st.status # "idle"
            /\ st.status # "idle" => st.busySince # Null /\ ~st.idleTimer
            /\ st.busySince # Null => ~st.terminalSent /\ (st.status # "idle" \/ st.idleTimer)
            /\ st.idleTimer => ~st.terminalSent
            /\ st.terminalSent <=> st.terminalOutcome # "none"
            /\ st.terminalSent = h.ended
            /\ st.busySince = h.start
            /\ st.idleTimer <=> h.idleAt # Null
            /\ st.pendingElapsedMs = IF h.idleAt = Null THEN Null ELSE Elapsed(h.start, h.idleAt)
            /\ st.pendingActions \subseteq h.announced
            /\ \A k1, k2 \in st.pendingActions \cap ProviderKey : k1 = k2

\* Exactly one terminal per round: between two terminals of a session there is
\* a busy or a retry (or the session was removed), whatever mix of idles, timer
\* callbacks, failures, aborts and shutdown flushes arrives.
OneTerminalPerRound ==
    [][\A s \in Session : EndsRound(s, out') => ~heard[s].ended]_vars

\* The elapsed time of a terminal runs from the round's first busy to the first
\* idle of the pending debounce (or to the failure), so the debounce never
\* inflates it; a heartbeat is emitted only while the session works and
\* measures from the same first busy.
ElapsedIsWorkingTime ==
    [][\A e \in out' :
        LET h == heard[e.session]
        IN  /\ e.type = "terminal" =>
                 e.elapsedMs = Elapsed(h.start, IF h.idleAt = Null THEN now ELSE h.idleAt)
            /\ e.type = "heartbeat" =>
                 h.start # Null /\ h.idleAt = Null /\ e.elapsedMs = Elapsed(h.start, now)]_vars

\* An action_resolved always answers an action_required of the same kind and id
\* that was neither resolved nor dropped by a terminal in between.
ResolvedWasAnnounced ==
    [][\A e \in out' : e.type = "action_resolved" => e.key \in heard[e.session].announced]_vars

\* The timers do their work: a debounce never stays pending (the round completes,
\* resumes, is ended by a failure or an abort, or its session is removed), and a
\* session that works for ever keeps emitting heartbeats.
TimersServe ==
    \A s \in Session :
        /\ heard[s].idleAt # Null ~> heard[s].idleAt = Null
        /\ <>[](heard[s].start # Null /\ heard[s].idleAt = Null)
              => []<>(\E e \in out : e.type = "heartbeat" /\ e.session = s)
=============================================================================
