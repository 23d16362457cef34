------------------------ MODULE SessionMachineProofs ------------------------
(***************************************************************************)
(* Proofs about SessionMachine, for every set of sessions, requests and    *)
(* provider actions and every clock bound.                                 *)
(***************************************************************************)
EXTENDS SessionMachine, TLAPS

\* A duration measured on the bounded clock is within the clock's range.
LEMMA ElapsedType ==
    ASSUME NEW since \in Time \cup {Null}, NEW t \in Time
    PROVE  Elapsed(since, t) \in Time
  BY MaxTimeAssumption DEF Elapsed, Time, Null

-----------------------------------------------------------------------------
(* Type correctness *)

\* The history update stays within its type.
LEMMA HeardEventsType ==
    ASSUME NEW s \in Session, NEW h \in Heard, NEW events \in SUBSET Event
    PROVE  HeardEvents(s, h, events) \in Heard
  <1>1. KeysOf("action_required", s, events) \subseteq Key
    BY DEF KeysOf, Event, Key
  <1>2. [Unheard EXCEPT !.ended = TRUE] \in Heard
    BY DEF Unheard, Heard
  <1>3. [h EXCEPT !.announced = (@ \cup KeysOf("action_required", s, events))
                                   \ KeysOf("action_resolved", s, events)] \in Heard
    BY <1>1 DEF Heard
  <1>4. QED
    BY <1>2, <1>3 DEF HeardEvents

\* A handler that keeps to the types of its record, history and effects keeps TypeOK.
LEMMA StepType ==
    ASSUME TypeOK, NEW s \in Session, NEW st \in SessionState, NEW h \in Heard,
           NEW events \in SUBSET Event, Step(s, st, h, events)
    PROVE  TypeOK'
  BY HeardEventsType DEF TypeOK, Step

\* A busy or retry keeps the record's and the history's types.
LEMMA ActiveType ==
    ASSUME TypeOK, NEW s \in Session, NEW status \in {"busy", "retry"}
    PROVE  /\ Active(sessions[s], status) \in SessionState
           /\ HeardActive(heard[s]) \in Heard
  <1> DEFINE st == sessions[s]
  <1>1. st \in SessionState /\ heard[s] \in Heard /\ now \in Time
    BY DEF TypeOK
  <1> HIDE DEF st
  <1>2. Active(st, status) \in SessionState
    BY <1>1 DEF Active, SessionState, Status
  <1>3. HeardActive(heard[s]) \in Heard
    BY <1>1 DEF HeardActive, Heard
  <1>4. QED
    BY <1>2, <1>3 DEF st

\* A completed round keeps the record's and the effects' types.
LEMMA CompletedType ==
    ASSUME NEW s \in Session, NEW st \in SessionState
    PROVE  /\ Completed(st) \in SessionState
           /\ CompletionOf(s, st) \in SUBSET Event
  <1>1. Completed(st) \in SessionState
    BY DEF Completed, SessionState, Terminal
  <1>2. (IF st.pendingElapsedMs = Null THEN 0 ELSE st.pendingElapsedMs) \in Time
    BY MaxTimeAssumption DEF SessionState, Time
  <1>3. CompletionOf(s, st) \in SUBSET Event
    BY <1>2 DEF CompletionOf, TerminalEvent, Event, Terminal
  <1>4. QED
    BY <1>1, <1>3

\* Every reachable state is well typed (state-machine.ts, SessionState).
THEOREM TypeCorrect == Spec => []TypeOK
  <1>1. Init => TypeOK
    BY DEF Init, TypeOK, NewState, SessionState, Unheard, Heard, Status
  <1>2. ASSUME TypeOK, [Next]_vars
        PROVE  TypeOK'
    <2>1. ASSUME NEW s \in Session, OnBusy(s)
          PROVE  TypeOK'
      <3>1. Active(sessions[s], "busy") \in SessionState /\ HeardActive(heard[s]) \in Heard
        BY <1>2, ActiveType
      <3>2. ClearPendingProviderAction(Active(sessions[s], "busy")) \in SessionState
        BY <3>1 DEF ClearPendingProviderAction, SessionState
      <3>3. QED
        BY <1>2, <2>1, <3>1, <3>2, StepType DEF OnBusy
    <2>2. ASSUME NEW s \in Session, OnRetry(s)
          PROVE  TypeOK'
      <3>1. Active(sessions[s], "retry") \in SessionState /\ HeardActive(heard[s]) \in Heard
        BY <1>2, ActiveType
      <3>2. QED
        BY <1>2, <2>2, <3>1, StepType DEF OnRetry
    <2>3. ASSUME NEW s \in Session, NEW p \in Provider, OnRetryWithAction(s, p)
          PROVE  TypeOK'
      <3> DEFINE st == Active(sessions[s], "retry")
                 key == <<"provider_action", p>>
                 added == [ClearPendingProviderAction(st) EXCEPT !.pendingActions = @ \cup {key}]
      <3>1. st \in SessionState /\ HeardActive(heard[s]) \in Heard
        BY <1>2, ActiveType
      <3>2. key \in Key
        BY DEF Key, ProviderKey
      <3> HIDE DEF st
      <3>3. added \in SessionState
        BY <3>1, <3>2 DEF ClearPendingProviderAction, SessionState
      <3>4. {RequiredEvent(s, key)} \in SUBSET Event
        BY <3>2 DEF RequiredEvent, Event
      <3>5. \/ Step(s, st, HeardActive(heard[s]), {})
            \/ Step(s, added, HeardActive(heard[s]), {RequiredEvent(s, key)})
        BY <2>3 DEF OnRetryWithAction, st
      <3> HIDE DEF added, key
      <3>6. QED
        BY <1>2, <3>1, <3>3, <3>4, <3>5, StepType
    <2>4. ASSUME NEW s \in Session, OnIdle(s)
          PROVE  TypeOK'
      <3> DEFINE st == sessions[s]
                 quiet == [st EXCEPT !.status = "idle", !.heartbeatTimer = FALSE]
                 armed == [quiet EXCEPT !.pendingElapsedMs = Elapsed(st.busySince, now), !.idleTimer = TRUE]
      <3>1. st \in SessionState /\ st.busySince \in Time \cup {Null}
        BY <1>2 DEF TypeOK, SessionState
      <3>2. Elapsed(st.busySince, now) \in Time
        BY <1>2, <3>1, ElapsedType DEF TypeOK
      <3>3. HeardIdle(heard[s]) \in Heard
        BY <1>2 DEF TypeOK, HeardIdle, Heard
      <3>4. quiet \in SessionState /\ armed \in SessionState
        BY <3>1, <3>2 DEF SessionState, Status
      <3>5. \/ Step(s, quiet, HeardIdle(heard[s]), {})
            \/ Step(s, armed, HeardIdle(heard[s]), {})
        BY <2>4 DEF OnIdle
      <3> HIDE DEF st, quiet, armed
      <3>6. QED
        BY <1>2, <3>3, <3>4, <3>5, StepType
    <2>5. ASSUME NEW s \in Session, IdleTimerFires(s)
          PROVE  TypeOK'
      <3> DEFINE st == [sessions[s] EXCEPT !.idleTimer = FALSE]
      <3>1. st \in SessionState /\ heard[s] \in Heard
        BY <1>2 DEF TypeOK, SessionState
      <3>2. Step(s, Completed(st), heard[s], CompletionOf(s, st))
        BY <2>5 DEF IdleTimerFires
      <3> HIDE DEF st
      <3>3. QED
        BY <1>2, <3>1, <3>2, StepType, CompletedType
    <2>6. ASSUME NEW s \in Session, NEW outcome \in {"failed", "stopped"}, OnTerminalSignal(s, outcome)
          PROVE  TypeOK'
      <3> DEFINE st == sessions[s]
                 ms == IF st.pendingElapsedMs # Null THEN st.pendingElapsedMs ELSE Elapsed(st.busySince, now)
                 closed == [st EXCEPT !.idleTimer = FALSE, !.pendingElapsedMs = Null, !.heartbeatTimer = FALSE,
                        !.busySince = Null, !.status = "idle", !.pendingActions = {},
                        !.terminalOutcome = IF OutcomeRank(outcome) > OutcomeRank(@) THEN outcome ELSE @,
                        !.terminalSent = TRUE]
                 events == IF st.terminalSent THEN {} ELSE {TerminalEvent(s, outcome, ms)}
      <3>1. st \in SessionState /\ heard[s] \in Heard
        BY <1>2 DEF TypeOK
      <3>2. ms \in Time
        BY <1>2, <3>1, ElapsedType DEF TypeOK, SessionState
      <3>3. closed \in SessionState
        BY <3>1 DEF SessionState, Status, Terminal
      <3>4. events \in SUBSET Event
        BY <3>2 DEF TerminalEvent, Event, Terminal
      <3>5. Step(s, closed, heard[s], events)
        BY <2>6 DEF OnTerminalSignal
      <3> HIDE DEF st, closed, events
      <3>6. QED
        BY <1>2, <3>1, <3>3, <3>4, <3>5, StepType
    <2>7. ASSUME NEW s \in Session, OnHeartbeatTick(s)
          PROVE  TypeOK'
      <3> DEFINE st == sessions[s]
                 active == st.busySince # Null /\ st.status # "idle"
                 kept == [st EXCEPT !.heartbeatTimer = active]
                 events == IF active THEN {HeartbeatEvent(s, st.status, Elapsed(st.busySince, now))} ELSE {}
      <3>1. st \in SessionState /\ heard[s] \in Heard
        BY <1>2 DEF TypeOK
      <3>2. Elapsed(st.busySince, now) \in Time
        BY <1>2, <3>1, ElapsedType DEF TypeOK, SessionState
      <3>3. kept \in SessionState
        BY <3>1 DEF SessionState
      <3>4. events \in SUBSET Event
        BY <3>1, <3>2 DEF HeartbeatEvent, Event, SessionState
      <3>5. Step(s, kept, heard[s], events)
        BY <2>7 DEF OnHeartbeatTick
      <3> HIDE DEF st, kept, events
      <3>6. QED
        BY <1>2, <3>1, <3>3, <3>4, <3>5, StepType
    <2>8. ASSUME NEW s \in Session, NEW key \in AskKey, OnAsked(s, key) \/ OnResolved(s, key)
          PROVE  TypeOK'
      <3> DEFINE st == sessions[s]
                 added == [st EXCEPT !.pendingActions = @ \cup {key}]
                 removed == [st EXCEPT !.pendingActions = @ \ {key}]
      <3>1. st \in SessionState /\ heard[s] \in Heard
        BY <1>2 DEF TypeOK
      <3>2. added \in SessionState /\ removed \in SessionState
        BY <3>1 DEF SessionState, Key
      <3>3. {RequiredEvent(s, key)} \in SUBSET Event /\ {ResolvedEvent(s, key)} \in SUBSET Event
        BY DEF RequiredEvent, ResolvedEvent, Event, Key
      <3>4. \/ Step(s, st, heard[s], {})
            \/ Step(s, added, heard[s], {RequiredEvent(s, key)})
            \/ Step(s, removed, heard[s], {ResolvedEvent(s, key)})
        BY <2>8 DEF OnAsked, OnResolved
      <3> HIDE DEF st, added, removed
      <3>5. QED
        BY <1>2, <3>1, <3>2, <3>3, <3>4, StepType
    <2>9. ASSUME NEW s \in Session, DisposeSession(s)
          PROVE  TypeOK'
      BY <1>2, <2>9 DEF DisposeSession, TypeOK, NewState, SessionState, Unheard, Heard, Status
    <2>10. CASE FlushPendingCompletions
      <3> DEFINE Unarmed(s) == [sessions[s] EXCEPT !.idleTimer = FALSE]
                 pending == {s \in Session : sessions[s].idleTimer}
                 events == UNION {CompletionOf(s, Unarmed(s)) : s \in pending}
      <3>1. \A s \in Session : Unarmed(s) \in SessionState
        BY <1>2 DEF TypeOK, SessionState
      <3> HIDE DEF Unarmed
      <3>2. \A s \in Session : Completed(Unarmed(s)) \in SessionState /\ CompletionOf(s, Unarmed(s)) \in SUBSET Event
        BY <3>1, CompletedType
      <3>3. events \in SUBSET Event
        BY <3>2
      <3>4. /\ sessions' = [s \in Session |-> IF s \in pending THEN Completed(Unarmed(s)) ELSE sessions[s]]
            /\ out' = events
            /\ heard' = [s \in Session |-> HeardEvents(s, heard[s], events)]
            /\ now' = now
        BY <2>10 DEF FlushPendingCompletions, Unarmed
      <3> HIDE DEF events, pending
      <3>5. sessions' \in [Session -> SessionState]
        BY <1>2, <3>2, <3>4 DEF TypeOK
      <3>6. heard' \in [Session -> Heard]
        BY <1>2, <3>3, <3>4, HeardEventsType DEF TypeOK
      <3>7. QED
        BY <1>2, <3>3, <3>4, <3>5, <3>6 DEF TypeOK
    <2>11. CASE DisposeAll
      BY <1>2, <2>11 DEF DisposeAll, TypeOK, NewState, SessionState, Unheard, Heard, Status
    <2>12. ASSUME NEW t \in Time, SetClock(t)
          PROVE  TypeOK'
      BY <1>2, <2>12 DEF SetClock, TypeOK
    <2>13. CASE UNCHANGED vars
      BY <1>2, <2>13 DEF vars, TypeOK
    <2>14. QED
      BY <1>2, <2>1, <2>2, <2>3, <2>4, <2>5, <2>6, <2>7, <2>8, <2>9, <2>10, <2>11, <2>12, <2>13 DEF Next
  <1>3. QED
    BY <1>1, <1>2, PTL DEF Spec
-----------------------------------------------------------------------------
(* The round invariant *)

\* RoundInv for one session's record and history.
SessionInv(st, h) ==
    /\ st.heartbeatTimer <=> st.status # "idle"
    /\ st.status # "idle" => st.busySince # Null /\ ~st.idleTimer
    /\ st.busySince # Null => ~st.terminalSent /\ (st.status # "idle" \/ st.idleTimer)
    /\ st.idleTimer => ~st.terminalSent
    /\ st.terminalSent <=> st.terminalOutcome # "none"
    /\ st.terminalSent = h.ended
    /\ st.busySince = h.start
    /\ st.idleTimer <=> h.idleAt # Null
    /\ st.pendingElapsedMs = IF h.idleAt = Null THEN Null ELSE Elapsed(h.start, h.idleAt)
    /\ st.pendingActions \subseteq h.announced
    /\ \A k1, k2 \in st.pendingActions \cap ProviderKey : k1 = k2

\* RoundInv is SessionInv of every session.
LEMMA RoundInvPointwise ==
    RoundInv <=> \A s \in Session : SessionInv(sessions[s], heard[s])
  BY DEF RoundInv, SessionInv

\* A handler disturbs only its own session.
LEMMA StepInv ==
    ASSUME TypeOK, RoundInv, NEW s \in Session, NEW st, NEW h, NEW events,
           Step(s, st, h, events), SessionInv(st, HeardEvents(s, h, events))
    PROVE  RoundInv'
  <1>1. \A x \in Session : SessionInv(sessions[x], heard[x])
    BY RoundInvPointwise
  <1>2. \A x \in Session : SessionInv(sessions'[x], heard'[x])
    BY <1>1 DEF TypeOK, Step
  <1>3. QED
    BY <1>2 DEF RoundInv, SessionInv

\* With no effects the history is the one computed from the signals.
LEMMA NoEvents ==
    ASSUME NEW s \in Session, NEW h \in Heard
    PROVE  HeardEvents(s, h, {}) = h
  <1>1. ~EndsRound(s, {}) /\ KeysOf("action_required", s, {}) = {} /\ KeysOf("action_resolved", s, {}) = {}
    BY DEF EndsRound, KeysOf
  <1>2. [h EXCEPT !.announced = (@ \cup {}) \ {}] = h
    BY DEF Heard
  <1>3. QED
    BY <1>1, <1>2 DEF HeardEvents

\* A terminal effect of its own session starts the observer over.
LEMMA TerminalHeard ==
    ASSUME NEW s \in Session, NEW h, NEW events, NEW outcome, NEW ms,
           TerminalEvent(s, outcome, ms) \in events
    PROVE  HeardEvents(s, h, events) = [Unheard EXCEPT !.ended = TRUE]
  BY DEF HeardEvents, EndsRound, TerminalEvent

\* An ask effect adds its key.
LEMMA RequiredHeard ==
    ASSUME NEW s \in Session, NEW h \in Heard, NEW key
    PROVE  HeardEvents(s, h, {RequiredEvent(s, key)}) = [h EXCEPT !.announced = @ \cup {key}]
  <1>1. ~EndsRound(s, {RequiredEvent(s, key)})
    BY DEF EndsRound, RequiredEvent
  <1>2. KeysOf("action_required", s, {RequiredEvent(s, key)}) = {key}
    <2> DEFINE e == RequiredEvent(s, key)
    <2>1. e.key = key /\ e.type = "action_required" /\ e.session = s
      BY DEF RequiredEvent
    <2> HIDE DEF e
    <2>2. {x \in {e} : x.type = "action_required" /\ x.session = s} = {e}
      BY <2>1
    <2>3. QED
      BY <2>1, <2>2 DEF KeysOf, e
  <1>3. KeysOf("action_resolved", s, {RequiredEvent(s, key)}) = {}
    BY DEF KeysOf, RequiredEvent
  <1>4. QED
    BY <1>1, <1>2, <1>3 DEF HeardEvents

\* A resolution effect removes its key.
LEMMA ResolvedHeard ==
    ASSUME NEW s \in Session, NEW h \in Heard, NEW key
    PROVE  HeardEvents(s, h, {ResolvedEvent(s, key)}) = [h EXCEPT !.announced = @ \ {key}]
  <1>1. ~EndsRound(s, {ResolvedEvent(s, key)})
    BY DEF EndsRound, ResolvedEvent
  <1>2. KeysOf("action_resolved", s, {ResolvedEvent(s, key)}) = {key}
    <2> DEFINE e == ResolvedEvent(s, key)
    <2>1. e.key = key /\ e.type = "action_resolved" /\ e.session = s
      BY DEF ResolvedEvent
    <2> HIDE DEF e
    <2>2. {x \in {e} : x.type = "action_resolved" /\ x.session = s} = {e}
      BY <2>1
    <2>3. QED
      BY <2>1, <2>2 DEF KeysOf, e
  <1>3. KeysOf("action_required", s, {ResolvedEvent(s, key)}) = {}
    BY DEF KeysOf, ResolvedEvent
  <1>4. QED
    BY <1>1, <1>2, <1>3 DEF HeardEvents

\* A heartbeat leaves the history alone.
LEMMA HeartbeatHeard ==
    ASSUME NEW s \in Session, NEW h \in Heard, NEW status, NEW ms
    PROVE  HeardEvents(s, h, {HeartbeatEvent(s, status, ms)}) = h
  <1> DEFINE events == {HeartbeatEvent(s, status, ms)}
  <1>1. ~EndsRound(s, events) /\ KeysOf("action_required", s, events) = {} /\ KeysOf("action_resolved", s, events) = {}
    BY DEF EndsRound, KeysOf, HeartbeatEvent
  <1>2. [h EXCEPT !.announced = (@ \cup {}) \ {}] = h
    BY DEF Heard
  <1>3. QED
    BY <1>1, <1>2 DEF HeardEvents

\* A busy or retry re-establishes the invariant, with an open round.
LEMMA ActiveInv ==
    ASSUME NEW st \in SessionState, NEW h \in Heard, SessionInv(st, h), now \in Time,
           NEW status \in {"busy", "retry"}
    PROVE  SessionInv(Active(st, status), HeardActive(h))
  <1> DEFINE a == Active(st, status)
             g == HeardActive(h)
  <1>1. /\ a.heartbeatTimer = TRUE /\ a.status = status /\ a.idleTimer = FALSE /\ a.pendingElapsedMs = Null
        /\ a.busySince = IF st.busySince = Null THEN now ELSE st.busySince
        /\ a.terminalSent = IF st.busySince = Null THEN FALSE ELSE st.terminalSent
        /\ a.terminalOutcome = IF st.busySince = Null THEN "none" ELSE st.terminalOutcome
        /\ a.pendingActions = st.pendingActions
    BY DEF Active, SessionState
  <1>2. /\ g.start = IF h.start = Null THEN now ELSE h.start
        /\ g.idleAt = Null /\ g.ended = FALSE /\ g.announced = h.announced
    BY DEF HeardActive, Heard
  <1>3. now # Null
    BY MaxTimeAssumption DEF Time, Null
  <1> HIDE DEF a, g
  <1>4. SessionInv(a, g)
    BY <1>1, <1>2, <1>3 DEF SessionInv, SessionState
  <1>5. QED
    BY <1>4 DEF a, g

\* The end of a debounce leaves an ended round.
LEMMA CompletedInv ==
    ASSUME NEW s \in Session, NEW st \in SessionState, NEW h \in Heard, SessionInv(st, h), st.idleTimer,
           NEW events, CompletionOf(s, [st EXCEPT !.idleTimer = FALSE]) \subseteq events
    PROVE  SessionInv(Completed([st EXCEPT !.idleTimer = FALSE]), HeardEvents(s, h, events))
  <1> DEFINE u == [st EXCEPT !.idleTimer = FALSE]
  <1>1. ~u.terminalSent /\ u.status = "idle" /\ ~u.heartbeatTimer /\ ~u.idleTimer /\ u \in SessionState
    BY DEF SessionInv, SessionState
  <1> HIDE DEF u
  <1>2. \E ms : TerminalEvent(s, "completed", ms) \in CompletionOf(s, u)
    BY <1>1 DEF CompletionOf
  <1>3. HeardEvents(s, h, events) = [Unheard EXCEPT !.ended = TRUE]
    BY <1>2, TerminalHeard DEF u
  <1>4. SessionInv(Completed(u), [Unheard EXCEPT !.ended = TRUE])
    BY <1>1 DEF SessionInv, Completed, Unheard, SessionState, Null
  <1>5. QED
    BY <1>3, <1>4 DEF u

\* The machine's record agrees with the signals and effects for ever: the
\* inductive invariant of the round logic (state-machine.ts).
THEOREM RoundsAgree == Spec => []RoundInv
  <1>1. Init => RoundInv
    <2>1. SessionInv(NewState, Unheard)
      BY DEF SessionInv, NewState, Unheard
    <2>2. QED
      BY <2>1, RoundInvPointwise DEF Init
  <1>2. ASSUME TypeOK, RoundInv, [Next]_vars
        PROVE  RoundInv'
    <2>0. /\ now \in Time
          /\ \A s \in Session : /\ sessions[s] \in SessionState
                                /\ heard[s] \in Heard
                                /\ SessionInv(sessions[s], heard[s])
      BY <1>2, RoundInvPointwise DEF TypeOK
    <2>1. ASSUME NEW s \in Session, OnBusy(s)
          PROVE  RoundInv'
      <3> DEFINE a == Active(sessions[s], "busy")
                 g == HeardActive(heard[s])
      <3>1. a \in SessionState /\ g \in Heard /\ SessionInv(a, g)
        BY <1>2, <2>0, ActiveType, ActiveInv
      <3>2. Step(s, ClearPendingProviderAction(a), g, {})
        BY <2>1 DEF OnBusy
      <3> HIDE DEF a, g
      <3>3. SessionInv(ClearPendingProviderAction(a), g)
        BY <3>1 DEF SessionInv, ClearPendingProviderAction, SessionState
      <3>4. QED
        BY <1>2, <3>1, <3>2, <3>3, NoEvents, StepInv
    <2>2. ASSUME NEW s \in Session, OnRetry(s)
          PROVE  RoundInv'
      <3>1. HeardActive(heard[s]) \in Heard /\ SessionInv(Active(sessions[s], "retry"), HeardActive(heard[s]))
        BY <1>2, <2>0, ActiveType, ActiveInv
      <3>2. QED
        BY <1>2, <2>2, <3>1, NoEvents, StepInv DEF OnRetry
    <2>3. ASSUME NEW s \in Session, NEW p \in Provider, OnRetryWithAction(s, p)
          PROVE  RoundInv'
      <3> DEFINE a == Active(sessions[s], "retry")
                 g == HeardActive(heard[s])
                 key == <<"provider_action", p>>
                 added == [ClearPendingProviderAction(a) EXCEPT !.pendingActions = @ \cup {key}]
      <3>1. a \in SessionState /\ g \in Heard /\ SessionInv(a, g)
        BY <1>2, <2>0, ActiveType, ActiveInv
      <3>2. \/ Step(s, a, g, {})
            \/ Step(s, added, g, {RequiredEvent(s, key)})
        BY <2>3 DEF OnRetryWithAction
      <3> HIDE DEF a, g, key
      <3>3. CASE Step(s, a, g, {})
        BY <1>2, <3>1, <3>3, NoEvents, StepInv
      <3>4. CASE Step(s, added, g, {RequiredEvent(s, key)})
        <4>1. SessionInv(added, [g EXCEPT !.announced = @ \cup {key}])
          BY <3>1 DEF SessionInv, ClearPendingProviderAction, SessionState, Heard
        <4>2. SessionInv(added, HeardEvents(s, g, {RequiredEvent(s, key)}))
          BY <3>1, <4>1, RequiredHeard
        <4> HIDE DEF added
        <4>3. QED
          BY <1>2, <3>4, <4>2, StepInv
      <3>5. QED
        BY <3>2, <3>3, <3>4
    <2>4. ASSUME NEW s \in Session, OnIdle(s)
          PROVE  RoundInv'
      <3> DEFINE st == sessions[s]
                 h == heard[s]
                 quiet == [st EXCEPT !.status = "idle", !.heartbeatTimer = FALSE]
                 armed == [quiet EXCEPT !.pendingElapsedMs = Elapsed(st.busySince, now), !.idleTimer = TRUE]
      <3>1. st \in SessionState /\ h \in Heard /\ SessionInv(st, h) /\ now # Null
        BY <2>0, MaxTimeAssumption DEF Time, Null
      <3>2. HeardIdle(h) \in Heard
        BY <2>0 DEF HeardIdle, Heard
      <3>3. CASE st.idleTimer \/ st.terminalSent
        <4>1. Step(s, quiet, HeardIdle(h), {})
          BY <2>4, <3>3 DEF OnIdle
        <4> HIDE DEF st, h
        <4>2. HeardIdle(h) = h
          BY <3>1, <3>3 DEF HeardIdle, Heard, SessionInv
        <4>3. SessionInv(quiet, h)
          BY <3>1, <3>3 DEF SessionInv, SessionState
        <4> HIDE DEF quiet
        <4>4. QED
          BY <1>2, <3>2, <4>1, <4>2, <4>3, NoEvents, StepInv
      <3>4. CASE ~(st.idleTimer \/ st.terminalSent)
        <4>1. Step(s, armed, HeardIdle(h), {})
          BY <2>4, <3>4 DEF OnIdle
        <4> HIDE DEF st, h
        <4>2. HeardIdle(h) = [h EXCEPT !.idleAt = now]
          BY <3>1, <3>4 DEF HeardIdle, Heard, SessionInv
        <4>3. SessionInv(armed, [h EXCEPT !.idleAt = now])
          BY <3>1, <3>4 DEF SessionInv, SessionState, Heard
        <4> HIDE DEF armed
        <4>4. QED
          BY <1>2, <3>2, <4>1, <4>2, <4>3, NoEvents, StepInv
      <3>5. QED
        BY <3>3, <3>4
    <2>5. ASSUME NEW s \in Session, IdleTimerFires(s)
          PROVE  RoundInv'
      <3> DEFINE u == [sessions[s] EXCEPT !.idleTimer = FALSE]
      <3>1. SessionInv(Completed(u), HeardEvents(s, heard[s], CompletionOf(s, u)))
        BY <2>0, <2>5, CompletedInv DEF IdleTimerFires
      <3>2. Step(s, Completed(u), heard[s], CompletionOf(s, u))
        BY <2>5 DEF IdleTimerFires
      <3> HIDE DEF u
      <3>3. QED
        BY <1>2, <3>1, <3>2, StepInv
    <2>6. ASSUME NEW s \in Session, NEW outcome \in {"failed", "stopped"}, OnTerminalSignal(s, outcome)
          PROVE  RoundInv'
      <3> DEFINE st == sessions[s]
                 h == heard[s]
                 ms == IF st.pendingElapsedMs # Null THEN st.pendingElapsedMs ELSE Elapsed(st.busySince, now)
                 closed == [st EXCEPT !.idleTimer = FALSE, !.pendingElapsedMs = Null, !.heartbeatTimer = FALSE,
                        !.busySince = Null, !.status = "idle", !.pendingActions = {},
                        !.terminalOutcome = IF OutcomeRank(outcome) > OutcomeRank(@) THEN outcome ELSE @,
                        !.terminalSent = TRUE]
                 events == IF st.terminalSent THEN {} ELSE {TerminalEvent(s, outcome, ms)}
      <3>1. st \in SessionState /\ h \in Heard /\ SessionInv(st, h)
        BY <2>0
      <3>2. Step(s, closed, h, events)
        BY <2>6 DEF OnTerminalSignal
      <3> HIDE DEF st, h, ms
      <3>3. closed.terminalOutcome # "none"
        BY <3>1 DEF OutcomeRank, SessionState, Terminal
      <3>4. CASE st.terminalSent
        <4>1. HeardEvents(s, h, events) = h
          BY <3>1, <3>4, NoEvents
        <4>2. SessionInv(closed, h)
          BY <3>1, <3>3, <3>4 DEF SessionInv, SessionState, Null
        <4> HIDE DEF closed, events
        <4>3. QED
          BY <1>2, <3>2, <4>1, <4>2, StepInv
      <3>5. CASE ~st.terminalSent
        <4>1. HeardEvents(s, h, events) = [Unheard EXCEPT !.ended = TRUE]
          <5>1. TerminalEvent(s, outcome, ms) \in events
            BY <3>5
          <5> HIDE DEF events
          <5>2. QED
            BY <5>1, TerminalHeard
        <4>2. SessionInv(closed, [Unheard EXCEPT !.ended = TRUE])
          BY <3>1, <3>3 DEF SessionInv, SessionState, Unheard, Null
        <4> HIDE DEF closed, events
        <4>3. QED
          BY <1>2, <3>2, <4>1, <4>2, StepInv
      <3>6. QED
        BY <3>4, <3>5
    <2>7. ASSUME NEW s \in Session, OnHeartbeatTick(s)
          PROVE  RoundInv'
      <3> DEFINE st == sessions[s]
                 h == heard[s]
                 active == st.busySince # Null /\ st.status # "idle"
                 kept == [st EXCEPT !.heartbeatTimer = active]
                 beat == HeartbeatEvent(s, st.status, Elapsed(st.busySince, now))
      <3>1. st \in SessionState /\ h \in Heard /\ SessionInv(st, h)
        BY <2>0
      <3>2. st.heartbeatTimer /\ Step(s, kept, h, IF active THEN {beat} ELSE {})
        BY <2>7 DEF OnHeartbeatTick
      <3> HIDE DEF st, h
      <3>3. active /\ SessionInv(kept, h)
        BY <3>1, <3>2 DEF SessionInv, SessionState
      <3>4. HeardEvents(s, h, {beat}) = h
        BY <3>1, HeartbeatHeard
      <3> HIDE DEF active, kept, beat
      <3>5. QED
        BY <1>2, <3>2, <3>3, <3>4, StepInv
    <2>8. ASSUME NEW s \in Session, NEW key \in AskKey, OnAsked(s, key) \/ OnResolved(s, key)
          PROVE  RoundInv'
      <3> DEFINE st == sessions[s]
                 h == heard[s]
                 added == [st EXCEPT !.pendingActions = @ \cup {key}]
                 removed == [st EXCEPT !.pendingActions = @ \ {key}]
      <3>1. st \in SessionState /\ h \in Heard /\ SessionInv(st, h)
        BY <2>0
      <3>2. \/ Step(s, st, h, {})
            \/ Step(s, added, h, {RequiredEvent(s, key)})
            \/ Step(s, removed, h, {ResolvedEvent(s, key)})
        BY <2>8 DEF OnAsked, OnResolved
      <3>3. key \notin ProviderKey
        BY DEF AskKey, ProviderKey
      <3> HIDE DEF st, h
      <3>4. SessionInv(added, HeardEvents(s, h, {RequiredEvent(s, key)}))
        <4>1. SessionInv(added, [h EXCEPT !.announced = @ \cup {key}])
          BY <3>1, <3>3 DEF SessionInv, SessionState, Heard
        <4>2. QED
          BY <3>1, <4>1, RequiredHeard
      <3>5. SessionInv(removed, HeardEvents(s, h, {ResolvedEvent(s, key)}))
        <4>1. SessionInv(removed, [h EXCEPT !.announced = @ \ {key}])
          BY <3>1 DEF SessionInv, SessionState, Heard
        <4>2. QED
          BY <3>1, <4>1, ResolvedHeard
      <3> HIDE DEF added, removed
      <3>6. QED
        BY <1>2, <3>1, <3>2, <3>4, <3>5, NoEvents, StepInv
    <2>9. ASSUME NEW s \in Session, DisposeSession(s)
          PROVE  RoundInv'
      <3>1. SessionInv(NewState, Unheard)
        BY DEF SessionInv, NewState, Unheard
      <3>2. \A x \in Session : SessionInv(sessions'[x], heard'[x])
        BY <1>2, <2>0, <2>9, <3>1 DEF DisposeSession, TypeOK
      <3>3. QED
        BY <3>2 DEF RoundInv, SessionInv
    <2>10. CASE FlushPendingCompletions
      <3> DEFINE Unarmed(s) == [sessions[s] EXCEPT !.idleTimer = FALSE]
                 pending == {s \in Session : sessions[s].idleTimer}
                 events == UNION {CompletionOf(s, Unarmed(s)) : s \in pending}
      <3>1. /\ sessions' = [s \in Session |-> IF s \in pending THEN Completed(Unarmed(s)) ELSE sessions[s]]
            /\ heard' = [s \in Session |-> HeardEvents(s, heard[s], events)]
        BY <2>10 DEF FlushPendingCompletions
      <3>2. ASSUME NEW s \in Session
            PROVE  SessionInv(sessions'[s], heard'[s])
        <4>1. CASE s \in pending
          <5>1. CompletionOf(s, Unarmed(s)) \subseteq events
            BY <4>1
          <5>2. SessionInv(Completed(Unarmed(s)), HeardEvents(s, heard[s], events))
            BY <2>0, <4>1, <5>1, CompletedInv
          <5>3. QED
            BY <3>1, <4>1, <5>2
        <4>2. CASE s \notin pending
          <5>1. \A e \in events : e.type = "terminal" /\ e.session # s
            BY <4>2 DEF CompletionOf, TerminalEvent
          <5> HIDE DEF events
          <5>2. ~EndsRound(s, events) /\ KeysOf("action_required", s, events) = {} /\ KeysOf("action_resolved", s, events) = {}
            BY <5>1 DEF EndsRound, KeysOf
          <5>3. [heard[s] EXCEPT !.announced = (@ \cup {}) \ {}] = heard[s]
            BY <2>0 DEF Heard
          <5>4. HeardEvents(s, heard[s], events) = heard[s]
            BY <5>2, <5>3 DEF HeardEvents
          <5> HIDE DEF pending
          <5>5. QED
            BY <2>0, <3>1, <4>2, <5>4
        <4>3. QED
          BY <4>1, <4>2
      <3>3. QED
        BY <3>2 DEF RoundInv, SessionInv
    <2>11. CASE DisposeAll
      <3>1. SessionInv(NewState, Unheard)
        BY DEF SessionInv, NewState, Unheard
      <3>2. \A x \in Session : SessionInv(sessions'[x], heard'[x])
        BY <2>11, <3>1 DEF DisposeAll
      <3>3. QED
        BY <3>2 DEF RoundInv, SessionInv
    <2>12. ASSUME NEW t \in Time, SetClock(t)
          PROVE  RoundInv'
      BY <1>2, <2>12 DEF SetClock, RoundInv
    <2>13. CASE UNCHANGED vars
      BY <1>2, <2>13 DEF vars, RoundInv
    <2>14. QED
      BY <1>2, <2>1, <2>2, <2>3, <2>4, <2>5, <2>6, <2>7, <2>8, <2>9, <2>10, <2>11, <2>12, <2>13 DEF Next
  <1>3. QED
    BY <1>1, <1>2, TypeCorrect, PTL DEF Spec

-----------------------------------------------------------------------------
(* What a step may emit *)

\* The round's elapsed time as an observer of the signals computes it.
Worked(h) == Elapsed(h.start, IF h.idleAt = Null THEN now ELSE h.idleAt)

\* An effect the observer of session e.session accepts.
Justified(e) ==
    LET h == heard[e.session]
    IN  /\ e.type = "terminal" => ~h.ended /\ e.elapsedMs = Worked(h)
        /\ e.type = "heartbeat" => h.start # Null /\ h.idleAt = Null /\ e.elapsedMs = Elapsed(h.start, now)
        /\ e.type = "action_resolved" => e.key \in h.announced

\* A completion reports the frozen elapsed of a round that has not ended.
LEMMA CompletionJustified ==
    ASSUME TypeOK, RoundInv, NEW s \in Session, sessions[s].idleTimer,
           NEW e \in CompletionOf(s, [sessions[s] EXCEPT !.idleTimer = FALSE])
    PROVE  Justified(e)
  <1> DEFINE st == sessions[s]
             h == heard[s]
  <1>1. st \in SessionState /\ h \in Heard /\ SessionInv(st, h) /\ st.idleTimer /\ now \in Time
    BY RoundInvPointwise DEF TypeOK
  <1>2. e \in CompletionOf(s, [st EXCEPT !.idleTimer = FALSE])
    OBVIOUS
  <1> HIDE DEF st, h
  <1>3. ~st.terminalSent /\ ~h.ended /\ h.idleAt # Null /\ st.pendingElapsedMs = Elapsed(h.start, h.idleAt)
    BY <1>1 DEF SessionInv, SessionState
  <1>4. h.idleAt \in Time /\ h.start \in Time \cup {Null}
    BY <1>1, <1>3 DEF Heard
  <1>5. Elapsed(h.start, h.idleAt) \in Time
    BY <1>4, ElapsedType
  <1>6. Elapsed(h.start, h.idleAt) # Null
    BY <1>5, MaxTimeAssumption DEF Time, Null
  <1>7. e = TerminalEvent(s, "completed", Elapsed(h.start, h.idleAt))
    BY <1>1, <1>2, <1>3, <1>6 DEF CompletionOf, SessionState
  <1>8. QED
    BY <1>3, <1>7 DEF Justified, Worked, TerminalEvent, h

\* Every effect of every step is justified by the signals before it.
LEMMA StepJustified ==
    ASSUME TypeOK, RoundInv, Next
    PROVE  \A e \in out' : Justified(e)
  <1>0. /\ now \in Time
        /\ \A s \in Session : /\ sessions[s] \in SessionState
                              /\ heard[s] \in Heard
                              /\ SessionInv(sessions[s], heard[s])
    BY RoundInvPointwise DEF TypeOK
  <1>1. ASSUME NEW s \in Session, OnBusy(s) \/ OnRetry(s) \/ OnIdle(s) \/ DisposeSession(s)
        PROVE  \A e \in out' : Justified(e)
    BY <1>1 DEF OnBusy, OnRetry, OnIdle, DisposeSession, Step
  <1>2. \A s \in Session, key \in Key : Justified(RequiredEvent(s, key))
    BY DEF Justified, RequiredEvent
  <1>3. ASSUME NEW s \in Session, NEW p \in Provider, OnRetryWithAction(s, p)
        PROVE  \A e \in out' : Justified(e)
    <2>1. out' \in {{}, {RequiredEvent(s, <<"provider_action", p>>)}}
      BY <1>3 DEF OnRetryWithAction, Step
    <2>2. QED
      BY <1>2, <2>1 DEF Key, ProviderKey
  <1>4. ASSUME NEW s \in Session, NEW key \in AskKey, OnAsked(s, key)
        PROVE  \A e \in out' : Justified(e)
    <2>1. out' \in {{}, {RequiredEvent(s, key)}}
      BY <1>4 DEF OnAsked, Step
    <2>2. QED
      BY <1>2, <2>1 DEF Key
  <1>5. ASSUME NEW s \in Session, NEW key \in AskKey, OnResolved(s, key)
        PROVE  \A e \in out' : Justified(e)
    <2>1. out' = {} \/ (out' = {ResolvedEvent(s, key)} /\ key \in sessions[s].pendingActions)
      BY <1>5 DEF OnResolved, Step
    <2>2. sessions[s].pendingActions \subseteq heard[s].announced
      BY <1>0 DEF SessionInv
    <2>3. QED
      BY <2>1, <2>2 DEF Justified, ResolvedEvent
  <1>6. ASSUME NEW s \in Session, IdleTimerFires(s)
        PROVE  \A e \in out' : Justified(e)
    BY <1>6, CompletionJustified DEF IdleTimerFires, Step
  <1>7. ASSUME NEW s \in Session, NEW outcome \in {"failed", "stopped"}, OnTerminalSignal(s, outcome)
        PROVE  \A e \in out' : Justified(e)
    <2> DEFINE st == sessions[s]
               h == heard[s]
               ms == IF st.pendingElapsedMs # Null THEN st.pendingElapsedMs ELSE Elapsed(st.busySince, now)
    <2>1. out' = {} \/ (out' = {TerminalEvent(s, outcome, ms)} /\ ~st.terminalSent)
      BY <1>7 DEF OnTerminalSignal, Step
    <2>2. st \in SessionState /\ h \in Heard /\ SessionInv(st, h)
      BY <1>0
    <2>3. h.idleAt # Null => Elapsed(h.start, h.idleAt) # Null
      <3>1. h.idleAt # Null => h.idleAt \in Time /\ h.start \in Time \cup {Null}
        BY <2>2 DEF Heard
      <3>2. \A x \in Time : x # Null
        BY MaxTimeAssumption DEF Time, Null
      <3> HIDE DEF h
      <3>3. QED
        BY <3>1, <3>2, ElapsedType
    <2>4. ms = Worked(h)
      <3> HIDE DEF st, h
      <3>1. QED
        BY <2>2, <2>3 DEF SessionInv, Worked
    <2>5. ~st.terminalSent => ~h.ended
      BY <2>2 DEF SessionInv
    <2> HIDE DEF ms
    <2>6. QED
      BY <2>1, <2>4, <2>5 DEF Justified, TerminalEvent
  <1>8. ASSUME NEW s \in Session, OnHeartbeatTick(s)
        PROVE  \A e \in out' : Justified(e)
    <2>1. \/ out' = {}
          \/ /\ out' = {HeartbeatEvent(s, sessions[s].status, Elapsed(sessions[s].busySince, now))}
             /\ sessions[s].busySince # Null /\ sessions[s].status # "idle"
      BY <1>8 DEF OnHeartbeatTick, Step
    <2>2. /\ sessions[s].busySince = heard[s].start
          /\ sessions[s].status # "idle" => heard[s].idleAt = Null
      BY <1>0 DEF SessionInv
    <2>3. QED
      BY <2>1, <2>2 DEF Justified, HeartbeatEvent
  <1>9. CASE FlushPendingCompletions
    <2>1. ASSUME NEW e \in out'
          PROVE  \E s \in Session : /\ sessions[s].idleTimer
                                    /\ e \in CompletionOf(s, [sessions[s] EXCEPT !.idleTimer = FALSE])
      BY <1>9 DEF FlushPendingCompletions
    <2>2. QED
      BY <2>1, CompletionJustified
  <1>10. CASE DisposeAll \/ \E t \in Time : SetClock(t)
    BY <1>10 DEF DisposeAll, SetClock
  <1>11. QED
    BY <1>1, <1>3, <1>4, <1>5, <1>6, <1>7, <1>8, <1>9, <1>10 DEF Next

\* At most one terminal per round, for every session and every interleaving of
\* signals, timers and shutdown (onTerminalSignal, completePendingIdle).
THEOREM TerminalsOnce == Spec => OneTerminalPerRound
  <1>1. TypeOK /\ RoundInv /\ [Next]_vars
          => [\A s \in Session : EndsRound(s, out') => ~heard[s].ended]_vars
    BY StepJustified DEF Justified, EndsRound
  <1>2. QED
    BY <1>1, TypeCorrect, RoundsAgree, PTL DEF Spec, OneTerminalPerRound

\* Terminals and heartbeats report working time only: the debounce and whatever
\* happens to the wall clock meanwhile never enter it (onIdle, onHeartbeatTick).
THEOREM ElapsedExact == Spec => ElapsedIsWorkingTime
  <1>1. TypeOK /\ RoundInv /\ [Next]_vars
          => [\A e \in out' :
                LET h == heard[e.session]
                IN  /\ e.type = "terminal" =>
                         e.elapsedMs = Elapsed(h.start, IF h.idleAt = Null THEN now ELSE h.idleAt)
                    /\ e.type = "heartbeat" =>
                         h.start # Null /\ h.idleAt = Null /\ e.elapsedMs = Elapsed(h.start, now)]_vars
    BY StepJustified DEF Justified, Worked
  <1>2. QED
    BY <1>1, TypeCorrect, RoundsAgree, PTL DEF Spec, ElapsedIsWorkingTime

\* No resolution without its announcement (onResolved).
THEOREM ResolutionsAnswer == Spec => ResolvedWasAnnounced
  <1>1. TypeOK /\ RoundInv /\ [Next]_vars
          => [\A e \in out' : e.type = "action_resolved" => e.key \in heard[e.session].announced]_vars
    BY StepJustified DEF Justified
  <1>2. QED
    BY <1>1, TypeCorrect, RoundsAgree, PTL DEF Spec, ResolvedWasAnnounced
=============================================================================
