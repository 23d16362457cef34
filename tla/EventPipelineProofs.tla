------------------------- MODULE EventPipelineProofs -------------------------
(***************************************************************************)
(* Proofs about the event hook, for any host: any sessions, any events of  *)
(* them, V1 or V2, and any order of lookups, timers and disposal.          *)
(***************************************************************************)
EXTENDS EventPipeline, TLAPS

-----------------------------------------------------------------------------
(* The inductive invariant *)

\* A call waits on a lookup in flight or has its verdict; a session a call was told
\* is a main one has been classified, and it may only be something else by now.
WaitingInv ==
    /\ waiting \in Seq({waiting[i] : i \in DOMAIN waiting})
    /\ \A i \in DOMAIN waiting :
        /\ waiting[i] = [event |-> waiting[i].event, verdict |-> waiting[i].verdict]
        /\ waiting[i].event.session \in Session
        /\ waiting[i].verdict = "pending" => waiting[i].event.session \in inflight
        /\ waiting[i].verdict = "main" => registry[waiting[i].event.session] # "absent"

\* What an event of the stream still stands for is the text of a message: a
\* lifecycle event never waits there while the registry moves on.
StreamInv ==
    /\ stream \in Seq({stream[k] : k \in DOMAIN stream})
    /\ \A k \in DOMAIN stream : stream[k].type = "message.part.updated" /\ OfSession(NormalizeEvent(stream[k]))

\* No session of another directory counts as a main one, nor is about to, but a stray.
AwayInv ==
    /\ known \subseteq Session
    /\ workload.v2 = {} => away = {}
    /\ strays \subseteq away
    /\ \A s \in Session \cap away : s \notin strays => registry[s] # "main" /\ s \notin page.main

\* Every record has the fields of one, and a round with a debounce has not ended.
RecordsInv ==
    /\ sessions = [s \in Session |-> sessions[s]]
    /\ \A s \in Session :
        /\ DOMAIN sessions[s] = DOMAIN NewState
        /\ sessions[s].idleTimer => ~sessions[s].terminalSent

HookInv ==
    /\ workload \in Workloads
    /\ PipelineInv
    /\ WaitingInv
    /\ StreamInv
    /\ AwayInv
    /\ RecordsInv

\* OnlyMainSessionsEmit and ShutdownSettlesDebounce, of one step.
EmitsMain == \A e \in out' : registry'[e.session] = "main" /\ (e.session \in away' => e.session \in strays')

SettlesDebounce ==
    \A s \in Session :
        phase # "running" /\ sessions[s].idleTimer /\ ~sessions'[s].idleTimer => EndsRound(s, out')

-----------------------------------------------------------------------------
(* The round machine *)

\* A step that leaves every session but s to itself.
OnlyTouches(s) ==
    /\ RecordsInv'
    /\ \A x \in Session : x # s => sessions'[x] = sessions[x]
    /\ \A e \in out' : e.session = s

\* A handler replaces one record; what it emits is of that session.
LEMMA StepTouches ==
    ASSUME RecordsInv, NEW s \in Session, NEW st, NEW h, NEW effects, Step(s, st, h, effects),
           DOMAIN st = DOMAIN NewState, st.idleTimer => ~st.terminalSent,
           \A e \in effects : e.session = s
    PROVE  OnlyTouches(s) /\ sessions'[s] = st
  <1>1. sessions' = [sessions EXCEPT ![s] = st] /\ out' = effects /\ DOMAIN sessions = Session
    BY DEF Step, RecordsInv
  <1>2. /\ sessions' = [x \in Session |-> sessions'[x]]
        /\ sessions'[s] = st
        /\ \A x \in Session : x # s => sessions'[x] = sessions[x]
    BY <1>1
  <1>3. \A x \in Session : /\ DOMAIN sessions'[x] = DOMAIN NewState
                           /\ sessions'[x].idleTimer => ~sessions'[x].terminalSent
    BY <1>2 DEF RecordsInv
  <1>4. QED
    BY <1>1, <1>2, <1>3 DEF OnlyTouches, RecordsInv

\* A busy or retry cancels the debounce.
LEMMA ActiveShape ==
    ASSUME NEW st, NEW status, DOMAIN st = DOMAIN NewState
    PROVE  /\ DOMAIN Active(st, status) = DOMAIN NewState
           /\ DOMAIN ClearPendingProviderAction(Active(st, status)) = DOMAIN NewState
           /\ ~Active(st, status).idleTimer
           /\ ~ClearPendingProviderAction(Active(st, status)).idleTimer
  <1>1. DOMAIN Active(st, status) = DOMAIN NewState /\ ~Active(st, status).idleTimer
    BY DEF Active, NewState
  <1> DEFINE a == Active(st, status)
  <1> HIDE DEF a
  <1>2. /\ DOMAIN ClearPendingProviderAction(a) = DOMAIN NewState
        /\ ClearPendingProviderAction(a).idleTimer = a.idleTimer
    BY <1>1 DEF ClearPendingProviderAction, NewState, a
  <1>3. QED
    BY <1>1, <1>2 DEF a

\* The effects of a debounce's end are of its session.
LEMMA CompletionShape ==
    ASSUME NEW s \in Session, NEW st
    PROVE  /\ \A e \in CompletionOf(s, st) : e.session = s
           /\ ~st.terminalSent => EndsRound(s, CompletionOf(s, st))
  <1>1. CASE st.terminalSent
    BY <1>1 DEF CompletionOf
  <1>2. CASE ~st.terminalSent
    <2>1. PICK ms : CompletionOf(s, st) = {TerminalEvent(s, "completed", ms)}
      BY <1>2 DEF CompletionOf
    <2>2. TerminalEvent(s, "completed", ms).type = "terminal" /\ TerminalEvent(s, "completed", ms).session = s
      BY DEF TerminalEvent
    <2>3. QED
      BY <2>1, <2>2 DEF EndsRound
  <1>3. QED
    BY <1>1, <1>2

\* dispatch, the machine's part, touches the event's session only.
LEMMA MachineStepTouches ==
    ASSUME RecordsInv, NEW event, event.session \in Session, MachineStep(event)
    PROVE  OnlyTouches(event.session)
  <1> DEFINE s == event.session
             st == sessions[s]
  <1>0. s \in Session /\ DOMAIN st = DOMAIN NewState /\ (st.idleTimer => ~st.terminalSent)
    BY DEF RecordsInv
  <1> HIDE DEF s, st
  <1>1. CASE OnBusy(s)
    BY <1>0, <1>1, ActiveShape, StepTouches DEF OnBusy, st, s
  <1>2. CASE OnRetry(s)
    BY <1>0, <1>2, ActiveShape, StepTouches DEF OnRetry, st, s
  <1>3. ASSUME NEW p, OnRetryWithAction(s, p)
        PROVE  OnlyTouches(s)
    <2> DEFINE a == Active(st, "retry")
               key == <<"provider_action", p>>
               cleared == ClearPendingProviderAction(a)
               added == [cleared EXCEPT !.pendingActions = @ \cup {key}]
    <2>1. \/ Step(s, a, HeardActive(heard[s]), {})
          \/ Step(s, added, HeardActive(heard[s]), {RequiredEvent(s, key)})
      BY <1>3 DEF OnRetryWithAction, st
    <2>2. DOMAIN a = DOMAIN NewState /\ DOMAIN cleared = DOMAIN NewState /\ ~a.idleTimer /\ ~cleared.idleTimer
      BY <1>0, ActiveShape
    <2>3. \A e \in {RequiredEvent(s, key)} : e.session = s
      BY DEF RequiredEvent
    <2> HIDE DEF a, cleared, key
    <2>4. DOMAIN added = DOMAIN NewState /\ ~added.idleTimer
      BY <2>2 DEF NewState
    <2> HIDE DEF added
    <2>5. CASE Step(s, a, HeardActive(heard[s]), {})
      BY <1>0, <2>2, <2>5, StepTouches
    <2>6. CASE Step(s, added, HeardActive(heard[s]), {RequiredEvent(s, key)})
      BY <1>0, <2>3, <2>4, <2>6, StepTouches
    <2>7. QED
      BY <2>1, <2>5, <2>6
  <1>4. CASE OnIdle(s)
    <2> DEFINE quiet == [st EXCEPT !.status = "idle", !.heartbeatTimer = FALSE]
               armed == [quiet EXCEPT !.pendingElapsedMs = Elapsed(st.busySince, now), !.idleTimer = TRUE]
    <2>1. \/ Step(s, quiet, HeardIdle(heard[s]), {})
          \/ ~st.terminalSent /\ Step(s, armed, HeardIdle(heard[s]), {})
      BY <1>4 DEF OnIdle, st
    <2>2. /\ DOMAIN quiet = DOMAIN NewState /\ quiet.idleTimer = st.idleTimer /\ quiet.terminalSent = st.terminalSent
      BY <1>0 DEF NewState
    <2> HIDE DEF quiet
    <2>3. DOMAIN armed = DOMAIN NewState /\ armed.terminalSent = st.terminalSent
      BY <2>2 DEF NewState
    <2> HIDE DEF armed
    <2>4. QED
      BY <1>0, <2>1, <2>2, <2>3, StepTouches DEF s
  <1>5. ASSUME NEW outcome, OnTerminalSignal(s, outcome)
        PROVE  OnlyTouches(s)
    <2> DEFINE ms == IF st.pendingElapsedMs # Null THEN st.pendingElapsedMs ELSE Elapsed(st.busySince, now)
               rank == IF OutcomeRank(outcome) > OutcomeRank(st.terminalOutcome) THEN outcome ELSE st.terminalOutcome
               ended == [st EXCEPT !.idleTimer = FALSE, !.pendingElapsedMs = Null, !.heartbeatTimer = FALSE,
                                   !.busySince = Null, !.status = "idle", !.pendingActions = {},
                                   !.terminalOutcome = rank, !.terminalSent = TRUE]
               effects == IF st.terminalSent THEN {} ELSE {TerminalEvent(s, outcome, ms)}
    <2>1. Step(s, ended, heard[s], effects)
      BY <1>5 DEF OnTerminalSignal, st
    <2>2. \A e \in effects : e.session = s
      BY DEF TerminalEvent
    <2> HIDE DEF effects, rank
    <2>3. DOMAIN ended = DOMAIN NewState /\ ~ended.idleTimer
      BY <1>0 DEF NewState
    <2> HIDE DEF ended
    <2>4. QED
      BY <1>0, <2>1, <2>2, <2>3, StepTouches
  <1>6. ASSUME NEW key, OnAsked(s, key) \/ OnResolved(s, key)
        PROVE  OnlyTouches(s)
    <2> DEFINE added == [st EXCEPT !.pendingActions = @ \cup {key}]
               removed == [st EXCEPT !.pendingActions = @ \ {key}]
    <2>1. \/ Step(s, st, heard[s], {})
          \/ Step(s, added, heard[s], {RequiredEvent(s, key)})
          \/ Step(s, removed, heard[s], {ResolvedEvent(s, key)})
      BY <1>6 DEF OnAsked, OnResolved, st
    <2>2. \A e \in {RequiredEvent(s, key), ResolvedEvent(s, key)} : e.session = s
      BY DEF RequiredEvent, ResolvedEvent
    <2>3. \A r \in {added, removed} :
            DOMAIN r = DOMAIN NewState /\ r.idleTimer = st.idleTimer /\ r.terminalSent = st.terminalSent
      BY <1>0 DEF NewState
    <2> HIDE DEF added, removed
    <2>4. QED
      BY <1>0, <2>1, <2>2, <2>3, StepTouches
  <1>7. CASE MachineQuiet
    BY <1>7 DEF MachineQuiet, OnlyTouches, RecordsInv
  <1>8. QED
    BY <1>1, <1>2, <1>3, <1>4, <1>5, <1>6, <1>7 DEF MachineStep, s

-----------------------------------------------------------------------------
(* Sequences *)

\* A sequence is one of its own elements.
LEMMA OwnElements ==
    ASSUME NEW W, NEW seq \in Seq(W)
    PROVE  seq \in Seq({seq[i] : i \in DOMAIN seq})
  OBVIOUS

\* RemoveAt keeps every other element and adds none.
LEMMA RemovedElements ==
    ASSUME NEW W, NEW seq \in Seq(W), NEW i \in DOMAIN seq
    PROVE  /\ RemoveAt(seq, i) \in Seq(W)
           /\ \A j \in DOMAIN RemoveAt(seq, i) : \E k \in DOMAIN seq : RemoveAt(seq, i)[j] = seq[k]
  <1> DEFINE before == SubSeq(seq, 1, i - 1)
             after == SubSeq(seq, i + 1, Len(seq))
  <1>1. i \in 1..Len(seq) /\ Len(seq) \in Nat
    OBVIOUS
  <1>2. /\ before \in Seq(W) /\ Len(before) = i - 1
        /\ \A j \in 1..(i - 1) : before[j] = seq[j]
    BY <1>1
  <1>3. /\ after \in Seq(W) /\ Len(after) = Len(seq) - i
        /\ \A j \in 1..(Len(seq) - i) : after[j] = seq[i + j]
    BY <1>1
  <1>4. RemoveAt(seq, i) = before \o after
    BY DEF RemoveAt
  <1> HIDE DEF before, after
  <1>5. RemoveAt(seq, i) \in Seq(W) /\ Len(RemoveAt(seq, i)) = Len(seq) - 1
    BY <1>1, <1>2, <1>3, <1>4
  <1>6. ASSUME NEW j \in 1..(Len(seq) - 1)
        PROVE  \E k \in DOMAIN seq : RemoveAt(seq, i)[j] = seq[k]
    <2>1. CASE j < i
      BY <1>1, <1>2, <1>3, <1>4, <2>1
    <2>2. CASE j >= i
      <3>1. RemoveAt(seq, i)[j] = seq[j + 1]
        BY <1>1, <1>2, <1>3, <1>4, <2>2
      <3>2. QED
        BY <1>1, <3>1
    <2>3. QED
      BY <1>1, <2>1, <2>2
  <1>7. QED
    BY <1>5, <1>6

-----------------------------------------------------------------------------
(* Hook calls *)

\* A call joins the queue with what the invariant says of a call.
LEMMA CallJoins ==
    ASSUME WaitingInv, NEW event, NEW verdict, event.session \in Session,
           waiting' = Append(waiting, [event |-> event, verdict |-> verdict]),
           registry' = registry, inflight \subseteq inflight',
           verdict = "pending" => event.session \in inflight',
           verdict = "main" => registry[event.session] # "absent"
    PROVE  WaitingInv'
  <1> DEFINE W == {waiting[i] : i \in DOMAIN waiting}
             call == [event |-> event, verdict |-> verdict]
  <1>1. waiting \in Seq(W)
    BY DEF WaitingInv
  <1>2. call.event = event /\ call.verdict = verdict /\ call = [event |-> call.event, verdict |-> call.verdict]
    OBVIOUS
  <1> HIDE DEF W, call
  <1>3. waiting' = Append(waiting, call)
    BY DEF call
  <1>4. waiting' \in Seq(W \cup {call}) /\ Len(waiting') = Len(waiting) + 1
    BY <1>1, <1>3
  <1>5. waiting' \in Seq({waiting'[i] : i \in DOMAIN waiting'})
    BY <1>4, OwnElements
  <1>6. ASSUME NEW i \in DOMAIN waiting'
        PROVE  (i \in DOMAIN waiting /\ waiting'[i] = waiting[i]) \/ waiting'[i] = call
    BY <1>1, <1>3, <1>4
  <1>7. ASSUME NEW i \in DOMAIN waiting'
        PROVE  /\ waiting'[i] = [event |-> waiting'[i].event, verdict |-> waiting'[i].verdict]
               /\ waiting'[i].event.session \in Session
               /\ waiting'[i].verdict = "pending" => waiting'[i].event.session \in inflight'
               /\ waiting'[i].verdict = "main" => registry'[waiting'[i].event.session] # "absent"
    <2>1. CASE i \in DOMAIN waiting /\ waiting'[i] = waiting[i]
      BY <2>1 DEF WaitingInv
    <2>2. CASE waiting'[i] = call
      BY <1>2, <2>2
    <2>3. QED
      BY <1>6, <2>1, <2>2
  <1>8. QED
    BY <1>5, <1>7 DEF WaitingInv

\* The queue stands while sessions it knows stay classified.
LEMMA CallsStand ==
    ASSUME WaitingInv, UNCHANGED waiting, inflight \subseteq inflight',
           \A s \in Session : registry[s] # "absent" => registry'[s] # "absent"
    PROVE  WaitingInv'
  BY DEF WaitingInv

\* An entry is a classification.
LEMMA EntryTypes ==
    ASSUME NEW event
    PROVE  EntryOf(event) \in Entry \ {"absent"}
  BY DEF EntryOf, Entry

\* What Drop leaves alone.
LEMMA DropQuiet ==
    ASSUME RecordsInv, Drop
    PROVE  out' = {} /\ sessions' = sessions /\ RecordsInv'
  BY DEF Drop, MachineQuiet, RecordsInv

\* A page on its way is outdated, or nothing happens to it.
LEMMA OutdateKeeps ==
    ASSUME ListingTypeOK, NEW then \in {"idle", "due"}, Outdate(then)
    PROVE  ListingTypeOK' /\ page' = NoPage
  BY DEF Outdate, ListingTypeOK, Listed, NoPage

\* What one call of the hook does up to its await: it emits nothing, and only a
\* lifecycle event of this directory touches the registry and a page on its way.
HookCall(event) ==
    /\ out' = {}
    /\ RecordsInv'
    /\ WaitingInv'
    /\ registry' \in [Session -> Entry]
    /\ inflight' \subseteq Session
    /\ \A s \in Session : sessions'[s] # NewState => registry'[s] = "main"
    /\ \A i \in DOMAIN waiting' : waiting'[i].verdict = "pending" => waiting'[i].event.session \in inflight'
    /\ ListingTypeOK'
    /\ page' \in {page, NoPage}
    /\ \/ registry' = registry /\ (Ignored(event) \/ event.kind \notin {"upsert", "deleted"})
       \/ /\ ~Ignored(event) /\ event.kind \in {"upsert", "deleted"}
          /\ registry' = [registry EXCEPT ![event.session] = EntryOf(event)]
          /\ event.kind = "deleted" => page' = NoPage

LEMMA HookCallHolds ==
    ASSUME HookInv, NEW event, OfSession(event),
           HostNoise(event) \/ HostSignal(event) \/ HostLifecycle(event)
    PROVE  HookCall(event)
  <1>0. /\ RecordsInv /\ WaitingInv
        /\ registry \in [Session -> Entry] /\ inflight \subseteq Session
        /\ \A s \in Session : sessions[s] # NewState => registry[s] = "main"
        /\ ListingTypeOK
    BY DEF HookInv, PipelineInv
  <1>1. CASE HostNoise(event)
    <2>1. Ignored(event) /\ Drop /\ UNCHANGED <<registry, inflight, waiting, discovery, page, late>>
      BY <1>1 DEF HostNoise, discoveryVars
    <2>2. out' = {} /\ sessions' = sessions /\ RecordsInv'
      BY <1>0, <2>1, DropQuiet
    <2>3. WaitingInv'
      BY <1>0, <2>1, CallsStand
    <2>4. QED
      BY <1>0, <2>1, <2>2, <2>3 DEF HookCall, WaitingInv, ListingTypeOK
  <1>2. CASE HostSignal(event)
    <2> DEFINE s == event.session
               verdict == IF registry[s] = "absent" THEN "pending" ELSE Verdict(registry[s])
    <2>1. /\ ~Ignored(event) /\ event.kind \notin {"upsert", "deleted"}
          /\ waiting' = Append(waiting, [event |-> event, verdict |-> verdict])
          /\ inflight' = IF registry[s] = "absent" THEN inflight \cup {s} ELSE inflight
          /\ Drop /\ UNCHANGED <<registry, discovery, page, late>>
      BY <1>2 DEF HostSignal, discoveryVars
    <2>2. s \in Session
      BY <2>1 DEF Ignored, OfSession
    <2>3. out' = {} /\ sessions' = sessions /\ RecordsInv'
      BY <1>0, <2>1, DropQuiet
    <2>4. /\ verdict = "pending" => s \in inflight'
          /\ verdict = "main" => registry[s] # "absent"
          /\ inflight \subseteq inflight' /\ inflight' \subseteq Session
      BY <1>0, <2>1, <2>2 DEF Verdict
    <2> HIDE DEF verdict
    <2>5. WaitingInv'
      BY <1>0, <2>1, <2>2, <2>4, CallJoins
    <2>6. QED
      BY <1>0, <2>1, <2>3, <2>4, <2>5 DEF HookCall, WaitingInv, ListingTypeOK
  <1>3. CASE HostLifecycle(event)
    <2> DEFINE s == event.session
    <2>1. /\ ~Ignored(event) /\ event.kind \in {"upsert", "deleted"}
          /\ registry' = [registry EXCEPT ![s] = EntryOf(event)]
          /\ UNCHANGED <<inflight, waiting>>
          /\ \/ EntryOf(event) = "main" /\ Drop
             \/ EntryOf(event) # "main" /\ DisposeSession(s)
          /\ \/ Outdate(IF discovery = "due" THEN "due" ELSE "idle")
             \/ Outdate(IF workload.control THEN "due" ELSE "idle")
             \/ event.kind # "deleted" /\ UNCHANGED discoveryVars
      BY <1>3, Zenon DEF HostLifecycle
    <2>7. ListingTypeOK' /\ page' \in {page, NoPage} /\ (event.kind = "deleted" => page' = NoPage)
      <3>1. CASE Outdate(IF discovery = "due" THEN "due" ELSE "idle")
        BY <1>0, <3>1, OutdateKeeps
      <3>2. CASE Outdate(IF workload.control THEN "due" ELSE "idle")
        BY <1>0, <3>2, OutdateKeeps
      <3>3. CASE event.kind # "deleted" /\ UNCHANGED discoveryVars
        BY <1>0, <3>3 DEF discoveryVars, ListingTypeOK
      <3>4. QED
        BY <2>1, <3>1, <3>2, <3>3
    <2>2. /\ registry' \in [Session -> Entry]
          /\ \A x \in Session : registry[x] # "absent" => registry'[x] # "absent"
      BY <1>0, <2>1, EntryTypes
    <2>3. WaitingInv'
      BY <1>0, <2>1, <2>2, CallsStand
    <2>4. CASE EntryOf(event) = "main" /\ Drop
      <3>1. out' = {} /\ sessions' = sessions /\ RecordsInv'
        BY <1>0, <2>4, DropQuiet
      <3>2. \A x \in Session : sessions'[x] # NewState => registry'[x] = "main"
        BY <1>0, <2>1, <2>4, <3>1
      <3>3. QED
        BY <1>0, <2>1, <2>2, <2>3, <2>7, <3>1, <3>2 DEF HookCall, WaitingInv
    <2>5. CASE EntryOf(event) # "main" /\ DisposeSession(s)
      <3>1. out' = {} /\ sessions' = [sessions EXCEPT ![s] = NewState]
        BY <2>5 DEF DisposeSession
      <3>2. /\ sessions' = [x \in Session |-> sessions'[x]]
            /\ \A x \in Session : sessions'[x] = IF x = s THEN NewState ELSE sessions[x]
        BY <1>0, <3>1 DEF RecordsInv
      <3>3. RecordsInv'
        BY <1>0, <3>2 DEF RecordsInv, NewState
      <3>4. \A x \in Session : sessions'[x] # NewState => registry'[x] = "main"
        BY <1>0, <2>1, <3>2
      <3>5. QED
        BY <1>0, <2>1, <2>2, <2>3, <2>7, <3>1, <3>3, <3>4 DEF HookCall, WaitingInv
    <2>6. QED
      BY <2>1, <2>4, <2>5
  <1>4. QED
    BY <1>1, <1>2, <1>3

-----------------------------------------------------------------------------
(* Normalisation *)

Named(id) == id \in Session \cup {Missing}

\* What a normaliser returns is of the session that the properties name.
LEMMA StatusNamed ==
    ASSUME NEW p, Named(Field(p, "sessionID"))
    PROVE  OfSession(NormalizeSessionStatus(p))
  <1>1. Field(p, "sessionID") # Missing => p.sessionID = Field(p, "sessionID")
    BY DEF Field
  <1>2. \/ NormalizeSessionStatus(p).kind = "dropped"
        \/ NormalizeSessionStatus(p).session = p.sessionID /\ Field(p, "sessionID") # Missing
    BY DEF NormalizeSessionStatus, Usable, Dropped
  <1>3. QED
    BY <1>1, <1>2 DEF OfSession, Named

LEMMA ErrorNamed ==
    ASSUME NEW p, Named(Field(p, "sessionID"))
    PROVE  OfSession(NormalizeSessionError(p))
  BY DEF OfSession, Named, NormalizeSessionError

LEMMA AskNamed ==
    ASSUME NEW p, Named(Field(p, "sessionID"))
    PROVE  OfSession(NormalizeQuestionAsked(p)) /\ OfSession(NormalizePermissionAsked(p))
  <1>1. Field(p, "sessionID") # Missing => p.sessionID = Field(p, "sessionID")
    BY DEF Field
  <1>2. \/ NormalizeQuestionAsked(p).kind = "dropped"
        \/ NormalizeQuestionAsked(p).session = p.sessionID /\ Field(p, "sessionID") # Missing
    BY DEF NormalizeQuestionAsked, Usable, Dropped
  <1>3. \/ NormalizePermissionAsked(p).kind = "dropped"
        \/ NormalizePermissionAsked(p).session = p.sessionID /\ Field(p, "sessionID") # Missing
    BY DEF NormalizePermissionAsked, Usable, Dropped
  <1>4. QED
    BY <1>1, <1>2, <1>3 DEF OfSession, Named

LEMMA ResolvedNamed ==
    ASSUME NEW p, NEW kind, Named(Field(p, "sessionID"))
    PROVE  OfSession(NormalizeResolved(kind, p))
  <1>1. Field(p, "sessionID") # Missing => p.sessionID = Field(p, "sessionID")
    BY DEF Field
  <1>2. \/ NormalizeResolved(kind, p).kind = "dropped"
        \/ NormalizeResolved(kind, p).session = p.sessionID /\ Field(p, "sessionID") # Missing
    BY DEF NormalizeResolved, Usable, Dropped
  <1>3. QED
    BY <1>1, <1>2 DEF OfSession, Named

LEMMA MessageNamed ==
    ASSUME NEW s, NEW m, Named(s)
    PROVE  /\ OfSession(NormalizeMessage([info |-> [id |-> m, sessionID |-> s, role |-> "assistant"]]))
           /\ \A id, text : OfSession(NormalizeMessagePart(
                [part |-> [id |-> id, messageID |-> m, sessionID |-> s, type |-> "text", text |-> text]]))
  <1>1. OfSession(NormalizeMessage([info |-> [id |-> m, sessionID |-> s, role |-> "assistant"]]))
    BY DEF OfSession, Named, NormalizeMessage, Field, Dropped
  <1>2. ASSUME NEW id, NEW text
        PROVE  OfSession(NormalizeMessagePart(
                [part |-> [id |-> id, messageID |-> m, sessionID |-> s, type |-> "text", text |-> text]]))
    BY DEF OfSession, Named, NormalizeMessagePart, Field, Dropped
  <1>3. QED
    BY <1>1, <1>2

LEMMA SessionNamed ==
    ASSUME NEW info, NEW kind, Named(Field(info, "id"))
    PROVE  /\ OfSession(NormalizeSession(kind, [info |-> info]))
           /\ NormalizeSession(kind, [info |-> info]).kind \in {kind, "dropped"}
           /\ Field(info, "id") # Missing
                => NormalizeSession(kind, [info |-> info]) =
                        [kind |-> kind, session |-> Field(info, "id"), parent |-> Field(info, "parentID"),
                         title |-> Field(info, "title"), directory |-> Field(info, "directory"),
                         archived |-> Field(info, "archived") # Missing]
  <1> DEFINE p == [info |-> info]
  <1>1. "info" \in DOMAIN p /\ p.info = info
    OBVIOUS
  <1>2. Field(info, "id") # Missing => info.id = Field(info, "id")
    BY DEF Field
  <1> HIDE DEF p
  <1>3. NormalizeSession(kind, p) =
            IF Field(info, "id") = Missing
            THEN Dropped
            ELSE [kind |-> kind, session |-> info.id, parent |-> Field(info, "parentID"),
                  title |-> Field(info, "title"), directory |-> Field(info, "directory"),
                  archived |-> Field(info, "archived") # Missing]
    BY <1>1 DEF NormalizeSession
  <1>4. QED
    BY <1>2, <1>3 DEF OfSession, Named, Dropped, p

\* Only the events of a session's creation and update make an upsert.
LEMMA UpsertsAreUpdates ==
    ASSUME NEW type, NEW p, type \notin {"session.created", "session.updated"}
    PROVE  NormalizeEvent(V1(type, p)).kind # "upsert"
  <1> DEFINE e == V1(type, p)
  <1>1. e.type = type /\ e.properties = p
    BY DEF V1
  <1>2. /\ NormalizeSession("deleted", p).kind # "upsert"
        /\ NormalizeSessionStatus(p).kind # "upsert"
        /\ NormalizeSessionIdle(p).kind # "upsert"
        /\ NormalizeSessionError(p).kind # "upsert"
    BY DEF NormalizeSession, NormalizeSessionStatus, NormalizeSessionIdle, NormalizeSessionError, Dropped, ErrorOutcome
  <1>3. /\ NormalizeMessage(p).kind # "upsert"
        /\ NormalizeMessagePart(p).kind # "upsert"
    BY DEF NormalizeMessage, NormalizeMessagePart, Dropped
  <1>4. /\ NormalizeQuestionAsked(p).kind # "upsert"
        /\ NormalizePermissionAsked(p).kind # "upsert"
        /\ \A kind : NormalizeResolved(kind, p).kind # "upsert"
    BY DEF NormalizeQuestionAsked, NormalizePermissionAsked, NormalizeResolved, Dropped
  <1> HIDE DEF e
  <1>5. NormalizeEvent(e).kind # "upsert"
    BY <1>1, <1>2, <1>3, <1>4 DEF NormalizeEvent, Dropped
  <1>6. QED
    BY <1>5 DEF e

\* The calls a stream event stands for: at most one that may be an upsert, of an
\* event that asks for the session's info, or the role and the text of a message.
CallsFit(calls, event) ==
    \/ calls = <<>>
    \/ \E call : /\ calls = <<call>>
                 /\ OfSession(NormalizeEvent(call))
                 /\ NormalizeEvent(call).kind = "upsert"
                        => /\ NeedsInfo(event, Directory)
                           /\ NormalizeEvent(call).session = Field(event.data, "sessionID")
    \/ \E role, text : /\ calls = <<role, text>>
                       /\ OfSession(NormalizeEvent(role)) /\ OfSession(NormalizeEvent(text))
                       /\ NormalizeEvent(role).kind # "upsert"
                       /\ text.type = "message.part.updated"

\* A call of a type that makes no upsert.
LEMMA OneCallFits ==
    ASSUME NEW event, NEW type, NEW p, type \notin {"session.created", "session.updated"},
           OfSession(NormalizeEvent(V1(type, p)))
    PROVE  CallsFit(<<V1(type, p)>>, event)
  BY UpsertsAreUpdates DEF CallsFit

LEMMA TranslateFits ==
    ASSUME NEW event, StreamOfSession(event), NEW infos, NEW answer
    PROVE  CallsFit(Translate(event, Directory, infos, SessionInfo(Field(event.data, "sessionID"), answer)), event)
  <1> DEFINE d == event.data
             s == Field(d, "sessionID")
             m == Field(d, "assistantMessageID")
             info == SessionInfo(s, answer)
             calls == Translate(event, Directory, infos, info)
  <1>0. Named(s) /\ (event.type = "form.created" => Named(d.form.sessionID))
    BY DEF StreamOfSession, Named
  <1>1. CASE event.type \in Updates /\ MovesAway(event, Directory)
    <2> DEFINE p == [info |-> [id |-> s]]
    <2>1. calls = <<>> \/ calls = <<V1("session.deleted", p)>>
      BY <1>1 DEF Translate, Updates
    <2>2. Field([id |-> s], "id") = s
      BY DEF Field
    <2>3. OfSession(NormalizeSession("deleted", p))
      BY <1>0, <2>2, SessionNamed
    <2> HIDE DEF p
    <2>4. NormalizeEvent(V1("session.deleted", p)) = NormalizeSession("deleted", p)
      BY DEF NormalizeEvent, V1
    <2> HIDE DEF calls
    <2>5. CallsFit(calls, event)
      BY <2>1, <2>3, <2>4, OneCallFits DEF CallsFit
    <2>6. QED
      BY <2>5 DEF calls
  <1>2. CASE event.type \in Updates /\ ~MovesAway(event, Directory)
    <2> DEFINE p == [info |-> info]
    <2>1. calls = IF s # Missing THEN <<V1("session.updated", p)>> ELSE <<>>
      BY <1>2 DEF Translate, Updates
    <2>2. Field(info, "id") = s
      BY DEF Field, SessionInfo
    <2> HIDE DEF info
    <2>3. /\ OfSession(NormalizeSession("upsert", p))
          /\ s # Missing => NormalizeSession("upsert", p).session = s
      <3> DEFINE event1 == NormalizeSession("upsert", p)
      <3>1. /\ OfSession(event1)
            /\ s # Missing => event1 = [kind |-> "upsert", session |-> s, parent |-> Field(info, "parentID"),
                                        title |-> Field(info, "title"), directory |-> Field(info, "directory"),
                                        archived |-> Field(info, "archived") # Missing]
        BY <1>0, <2>2, SessionNamed
      <3> HIDE DEF event1
      <3>2. OfSession(event1) /\ (s # Missing => event1.session = s)
        BY <3>1
      <3>3. QED
        BY <3>2 DEF event1
    <2> HIDE DEF p
    <2>4. NormalizeEvent(V1("session.updated", p)) = NormalizeSession("upsert", p)
      BY DEF NormalizeEvent, V1
    <2>5. s # Missing => NeedsInfo(event, Directory)
      BY <1>2 DEF NeedsInfo
    <2> HIDE DEF calls
    <2>6. CallsFit(calls, event)
      BY <2>1, <2>3, <2>4, <2>5 DEF CallsFit
    <2>7. QED
      BY <2>6 DEF calls, info
  <1>3. CASE event.type = "session.deleted"
    <2> DEFINE p == [info |-> [id |-> s, directory |-> Directory]]
    <2>1. calls = <<>> \/ calls = <<V1("session.deleted", p)>>
      BY <1>3 DEF Translate, Updates
    <2>2. Field([id |-> s, directory |-> Directory], "id") = s
      BY DEF Field
    <2>3. OfSession(NormalizeSession("deleted", p))
      BY <1>0, <2>2, SessionNamed
    <2> HIDE DEF p
    <2>4. NormalizeEvent(V1("session.deleted", p)) = NormalizeSession("deleted", p)
      BY DEF NormalizeEvent, V1
    <2> HIDE DEF calls
    <2>5. CallsFit(calls, event)
      BY <2>1, <2>3, <2>4, OneCallFits DEF CallsFit
    <2>6. QED
      BY <2>5 DEF calls
  <1>4. ASSUME NEW p, calls = <<V1("session.status", p)>>, Field(p, "sessionID") = s
        PROVE  CallsFit(calls, event)
    <2>1. NormalizeEvent(V1("session.status", p)) = NormalizeSessionStatus(p)
      BY DEF NormalizeEvent, V1
    <2>2. QED
      BY <1>0, <1>4, <2>1, StatusNamed, OneCallFits
  <1>5. ASSUME NEW status
        PROVE  /\ StatusOf(s, status) = V1("session.status", [sessionID |-> s, status |-> status])
               /\ Field([sessionID |-> s, status |-> status], "sessionID") = s
    BY DEF StatusOf, Field
  <1>6. CASE event.type \in {"session.status", "session.retry.scheduled", "session.step.started",
                             "session.execution.started", "session.execution.succeeded"}
    <2>1. \/ calls = <<V1("session.status", d)>>
          \/ \E status : calls = <<StatusOf(s, status)>>
      BY <1>6 DEF Translate, Updates, BusyOf
    <2> HIDE DEF calls
    <2>2. CallsFit(calls, event)
      BY <1>4, <1>5, <2>1
    <2>3. QED
      BY <2>2 DEF calls
  <1>7. CASE event.type \in {"session.execution.failed", "session.execution.interrupted"}
    <2>1. PICK name : calls = <<V1("session.error", [sessionID |-> s, error |-> name])>>
      BY <1>7 DEF Translate, Updates
    <2> DEFINE p == [sessionID |-> s, error |-> name]
    <2>2. Field(p, "sessionID") = s
      BY DEF Field
    <2> HIDE DEF p
    <2>3. NormalizeEvent(V1("session.error", p)) = NormalizeSessionError(p)
      BY DEF NormalizeEvent, V1
    <2> HIDE DEF calls
    <2>4. CallsFit(calls, event)
      BY <1>0, <2>1, <2>2, <2>3, ErrorNamed, OneCallFits DEF p
    <2>5. QED
      BY <2>4 DEF calls
  <1>8. CASE event.type = "session.text.ended"
    <2> DEFINE id == <<m, Field(d, "ordinal")>>
               p == [info |-> [id |-> m, sessionID |-> s, role |-> "assistant"]]
               q == [part |-> [id |-> id, messageID |-> m, sessionID |-> s, type |-> "text", text |-> Field(d, "text")]]
    <2>1. calls = <<V1("message.updated", p), V1("message.part.updated", q)>>
      BY <1>8 DEF Translate, Updates
    <2>2. OfSession(NormalizeMessage(p)) /\ OfSession(NormalizeMessagePart(q))
      BY <1>0, MessageNamed
    <2> HIDE DEF p, q, calls
    <2>3. /\ NormalizeEvent(V1("message.updated", p)) = NormalizeMessage(p)
          /\ NormalizeEvent(V1("message.part.updated", q)) = NormalizeMessagePart(q)
      BY DEF NormalizeEvent, V1
    <2>4. /\ NormalizeEvent(V1("message.updated", p)).kind # "upsert"
          /\ V1("message.part.updated", q).type = "message.part.updated"
      BY UpsertsAreUpdates DEF V1
    <2>5. CallsFit(calls, event)
      BY <2>1, <2>2, <2>3, <2>4 DEF CallsFit
    <2>6. QED
      BY <2>5 DEF calls
  <1>9. CASE event.type = "form.created"
    <2> DEFINE p == QuestionFromForm(d.form)
    <2>1. calls = IF p # Missing THEN <<V1("question.asked", p)>> ELSE <<>>
      BY <1>9 DEF Translate, Updates
    <2>2. p # Missing => Field(p, "sessionID") = d.form.sessionID
      BY DEF QuestionFromForm, Field
    <2> HIDE DEF p, calls
    <2>3. NormalizeEvent(V1("question.asked", p)) = NormalizeQuestionAsked(p)
      BY DEF NormalizeEvent, V1
    <2>4. CallsFit(calls, event)
      BY <1>0, <1>9, <2>1, <2>2, <2>3, AskNamed, OneCallFits DEF CallsFit
    <2>5. QED
      BY <2>4 DEF calls
  <1>10. CASE event.type = "permission.asked"
    <2> DEFINE p == [sessionID |-> s, id |-> Field(d, "id"), permission |-> Field(d, "action")]
    <2>1. calls = <<V1("permission.asked", p)>>
      BY <1>10 DEF Translate, Updates
    <2>2. Field(p, "sessionID") = s
      BY DEF Field
    <2> HIDE DEF p, calls
    <2>3. NormalizeEvent(V1("permission.asked", p)) = NormalizePermissionAsked(p)
      BY DEF NormalizeEvent, V1
    <2>4. CallsFit(calls, event)
      BY <1>0, <2>1, <2>2, <2>3, AskNamed, OneCallFits
    <2>5. QED
      BY <2>4 DEF calls
  <1>11. CASE event.type \in {"form.replied", "form.cancelled", "permission.replied"}
    <2>1. \E p : /\ Field(p, "sessionID") = s
                 /\ calls = <<V1("question.replied", p)>> \/ calls = <<V1("permission.replied", p)>>
      BY <1>11 DEF Translate, Updates, Field
    <2> HIDE DEF calls
    <2>2. PICK p : /\ Field(p, "sessionID") = s
                   /\ calls = <<V1("question.replied", p)>> \/ calls = <<V1("permission.replied", p)>>
      BY <2>1
    <2>3. /\ NormalizeEvent(V1("question.replied", p)) = NormalizeResolved("question", p)
          /\ NormalizeEvent(V1("permission.replied", p)) = NormalizeResolved("permission", p)
      BY DEF NormalizeEvent, V1
    <2>4. CallsFit(calls, event)
      BY <1>0, <2>2, <2>3, ResolvedNamed, OneCallFits
    <2>5. QED
      BY <2>4 DEF calls
  <1>12. CASE event.type \notin Updates \cup {"session.deleted", "session.status", "session.retry.scheduled",
              "session.step.started", "session.execution.started", "session.execution.succeeded",
              "session.execution.failed", "session.execution.interrupted", "session.text.ended", "form.created",
              "permission.asked", "form.replied", "form.cancelled", "permission.replied"}
    <2>1. calls = <<>>
      BY <1>12 DEF Translate
    <2>2. QED
      BY <2>1 DEF CallsFit
  <1>13. QED
    BY <1>1, <1>2, <1>3, <1>6, <1>7, <1>8, <1>9, <1>10, <1>11, <1>12

\* A session the plugin has the info of is removed when it moves away.
LEMMA MovedIsRemoved ==
    ASSUME NEW event, MovesAway(event, Directory), NEW infos, NEW info,
           Field(event.data, "sessionID") \in infos, Field(event.data, "sessionID") \in Session
    PROVE  \E call : /\ Translate(event, Directory, infos, info) = <<call>>
                     /\ NormalizeEvent(call).kind = "deleted"
                     /\ NormalizeEvent(call).session = Field(event.data, "sessionID")
                     /\ ~Ignored(NormalizeEvent(call))
  <1> DEFINE s == Field(event.data, "sessionID")
             p == [info |-> [id |-> s]]
             call == V1("session.deleted", p)
  <1>1. Translate(event, Directory, infos, info) = <<call>>
    BY DEF MovesAway, Translate, Updates
  <1>2. /\ Field([id |-> s], "id") = s /\ s # Missing
        /\ Field([id |-> s], "directory") = Missing
    BY PipelineAssumption DEF Field
  <1> HIDE DEF s
  <1>3. /\ NormalizeSession("deleted", p).kind = "deleted" /\ NormalizeSession("deleted", p).session = s
        /\ NormalizeSession("deleted", p).directory = Missing
    <2>1. s \in Session
      BY DEF s
    <2> DEFINE info1 == [id |-> s]
               event1 == NormalizeSession("deleted", p)
    <2>2. event1 = [kind |-> "deleted", session |-> s, parent |-> Field(info1, "parentID"),
                    title |-> Field(info1, "title"), directory |-> Missing,
                    archived |-> Field(info1, "archived") # Missing]
      BY <1>2, <2>1, SessionNamed DEF Named
    <2> HIDE DEF event1
    <2>3. event1.kind = "deleted" /\ event1.session = s /\ event1.directory = Missing
      BY <2>2
    <2>4. QED
      BY <2>3 DEF event1
  <1> HIDE DEF p
  <1>4. NormalizeEvent(call) = NormalizeSession("deleted", p)
    BY DEF NormalizeEvent, V1
  <1> HIDE DEF call
  <1>5. ~Ignored(NormalizeEvent(call))
    BY <1>3, <1>4 DEF Ignored
  <1>6. QED
    BY <1>1, <1>3, <1>4, <1>5 DEF s

\* So is one that is deleted.
LEMMA DeletedIsRemoved ==
    ASSUME NEW event, event.type = "session.deleted", NEW infos, NEW info,
           Field(event.data, "sessionID") \in Session
    PROVE  \E call : /\ Translate(event, Directory, infos, info) = <<call>>
                     /\ NormalizeEvent(call).kind = "deleted"
                     /\ NormalizeEvent(call).session = Field(event.data, "sessionID")
                     /\ ~Ignored(NormalizeEvent(call))
  <1> DEFINE s == Field(event.data, "sessionID")
             deleted == [id |-> s, directory |-> Directory]
             p == [info |-> deleted]
             call == V1("session.deleted", p)
             removal == NormalizeSession("deleted", p)
  <1>1. Translate(event, Directory, infos, info) = <<call>>
    BY PipelineAssumption DEF Translate, Updates
  <1>2. Field(deleted, "id") = s /\ s # Missing /\ Field(deleted, "directory") = Directory
    BY PipelineAssumption DEF Field
  <1>3. removal = [kind |-> "deleted", session |-> s, parent |-> Field(deleted, "parentID"),
                   title |-> Field(deleted, "title"), directory |-> Directory,
                   archived |-> Field(deleted, "archived") # Missing]
    BY <1>2, SessionNamed DEF Named
  <1>4. NormalizeEvent(call) = removal
    BY DEF NormalizeEvent, V1
  <1> HIDE DEF s, deleted, removal, call
  <1>5. removal.kind = "deleted" /\ removal.session = s /\ removal.directory = Directory
    BY <1>3
  <1>6. ~Ignored(removal)
    BY <1>5 DEF Ignored
  <1>7. QED
    BY <1>1, <1>4, <1>5, <1>6 DEF s

\* Either way the entry says so.
LEMMA RemovalHides ==
    ASSUME NEW event, event.kind = "deleted"
    PROVE  EntryOf(event) = "hidden"
  BY DEF EntryOf

\* Emit makes the next call of the hook, or none.
LEMMA EmitHolds ==
    ASSUME HookInv, NEW calls, Emit(calls), calls # <<>> => OfSession(NormalizeEvent(Head(calls)))
    PROVE  \/ /\ calls = <<>> \/ phase # "running"
              /\ stream' = <<>>
              /\ sessions' = sessions
              /\ HookCall(Dropped) /\ registry' = registry
              /\ page' = page
           \/ /\ calls # <<>>
              /\ phase = "running"
              /\ stream' = Tail(calls)
              /\ HookCall(NormalizeEvent(Head(calls)))
  <1>1. CASE calls = <<>> \/ phase # "running"
    <2>1. stream' = <<>> /\ Drop /\ UNCHANGED <<registry, inflight, waiting, discoveryVars, hostStatus>>
      BY <1>1 DEF Emit
    <2>2. HostNoise(Dropped) /\ OfSession(Dropped)
      BY <2>1 DEF HostNoise, Ignored, Dropped, OfSession
    <2>3. HookCall(Dropped)
      BY <2>2, HookCallHolds
    <2>4. QED
      BY <1>1, <2>1, <2>3 DEF Drop, MachineQuiet, discoveryVars
  <1>2. CASE ~(calls = <<>> \/ phase # "running")
    <2> DEFINE event == NormalizeEvent(Head(calls))
    <2>1. /\ stream' = Tail(calls)
          /\ HostNoise(event) \/ HostSignal(event) \/ HostLifecycle(event)
      BY <1>2 DEF Emit
    <2>2. OfSession(event)
      BY <1>2
    <2> HIDE DEF event
    <2>3. HookCall(event)
      BY <2>1, <2>2, HookCallHolds
    <2>4. QED
      BY <1>2, <2>1, <2>3 DEF event
  <1>3. QED
    BY <1>1, <1>2

-----------------------------------------------------------------------------
(* What each action preserves *)

\* The parts of the invariant that a hook call leaves to its caller.
LEMMA AfterCall ==
    ASSUME HookInv, NEW event, HookCall(event), UNCHANGED workload, phase' = phase, phase = "running",
           events' \in 0..workload.events,
           StreamInv', AwayInv',
           workload.v2 # {} => \A s \in Session : registry'[s] = "main" => s \in known'
    PROVE  HookInv' /\ EmitsMain /\ SettlesDebounce
  <1>1. /\ WaitingInv' /\ RecordsInv' /\ out' = {}
        /\ registry' \in [Session -> Entry] /\ inflight' \subseteq Session
        /\ \A s \in Session : sessions'[s] # NewState => registry'[s] = "main"
        /\ \A i \in DOMAIN waiting' : waiting'[i].verdict = "pending" => waiting'[i].event.session \in inflight'
        /\ ListingTypeOK'
    BY DEF HookCall
  <1>2. PipelineInv'
    BY <1>1 DEF PipelineInv, AwayInv
  <1>3. QED
    BY <1>1, <1>2 DEF HookInv, EmitsMain, SettlesDebounce

LEMMA OnEventHolds ==
    ASSUME HookInv, NEW raw \in workload.raws, OnEvent(raw)
    PROVE  HookInv' /\ EmitsMain /\ SettlesDebounce
  <1> DEFINE event == NormalizeEvent(raw)
  <1>1. /\ phase = "running" /\ events < workload.events
        /\ events' = events + 1
        /\ HostNoise(event) \/ HostSignal(event) \/ HostLifecycle(event)
        /\ UNCHANGED <<workload, phase, stream, known, away, strays>>
    BY DEF OnEvent, HookFree, v2Vars
  <1>2. /\ OfSession(event) /\ workload.v2 = {}
        /\ workload.events \in Nat
    BY PipelineAssumption DEF HookInv
  <1> HIDE DEF event
  <1>3. HookCall(event)
    BY <1>1, <1>2, HookCallHolds
  <1>4. events' \in 0..workload.events
    BY <1>1, <1>2 DEF HookInv, PipelineInv
  <1>5. StreamInv' /\ AwayInv'
    BY <1>1, <1>2 DEF HookInv, StreamInv, AwayInv
  <1>6. QED
    BY <1>1, <1>2, <1>3, <1>4, <1>5, AfterCall

LEMMA StreamEventHolds ==
    ASSUME HookInv, NEW event \in workload.v2, NEW answer, StreamEvent(event, answer)
    PROVE  HookInv' /\ EmitsMain /\ SettlesDebounce
  <1> DEFINE s == Field(event.data, "sessionID")
             asks == ~Foreign(event, Directory) /\ NeedsInfo(event, Directory)
             skipped == Foreign(event, Directory) \/ (asks /\ answer = "unknown")
             info == SessionInfo(s, answer)
             calls == IF skipped THEN <<>> ELSE Translate(event, Directory, known, info)
             moves == MovesAway(event, Directory)
             first == NormalizeEvent(Head(calls))
  <1>1. /\ phase = "running" /\ phase' = phase /\ workload' = workload
        /\ events < workload.events /\ events' = events + 1
        /\ away' = IF moves THEN away \cup {s} ELSE IF event.type = "session.moved" THEN away \ {s} ELSE away
        /\ answer \in (IF asks THEN InfoOf(s, away') ELSE {}) \cup {"unknown"}
        /\ Emit(calls)
        /\ known' = IF skipped THEN known
                    ELSE IF asks THEN known \cup {s}
                    ELSE IF event.type = "session.deleted" \/ moves THEN known \ {s}
                    ELSE known
        /\ strays' = IF event.type # "session.moved" THEN strays
                     ELSE IF moves /\ s \in page'.main THEN strays \cup {s}
                     ELSE strays \ {s}
    BY DEF StreamEvent
  <1>2. StreamOfSession(event) /\ workload.v2 # {} /\ workload.events \in Nat /\ s \in Session \cup {Missing}
    BY PipelineAssumption DEF HookInv, StreamOfSession
  <1>3. /\ asks => s \in Session /\ ~moves /\ event.type # "session.deleted"
        /\ moves => ~skipped /\ event.type = "session.moved"
    BY <1>2 DEF NeedsInfo, Foreign, MovesAway, Updates
  <1>4. asks /\ ~skipped => s \notin away'
    BY <1>1 DEF InfoOf
  <1>5. CallsFit(calls, event)
    <2>1. CASE skipped
      BY <2>1 DEF CallsFit
    <2>2. CASE ~skipped
      BY <1>2, <2>2, TranslateFits
    <2>3. QED
      BY <2>1, <2>2
  <1>6. /\ moves /\ s \in known => /\ calls # <<>> /\ first.kind = "deleted" /\ first.session = s
        /\ event.type = "session.deleted" /\ ~skipped /\ s \in Session
                => calls # <<>> /\ first.kind = "deleted" /\ first.session = s /\ ~Ignored(first)
        /\ moves /\ s \in known => ~Ignored(first)
    <2>1. ASSUME moves, s \in known
          PROVE  calls # <<>> /\ first.kind = "deleted" /\ first.session = s /\ ~Ignored(first)
      <3>1. s \in Session /\ ~skipped
        BY <1>3, <2>1 DEF HookInv, AwayInv
      <3>2. PICK call : /\ Translate(event, Directory, known, info) = <<call>>
                        /\ NormalizeEvent(call).kind = "deleted"
                        /\ NormalizeEvent(call).session = s
                        /\ ~Ignored(NormalizeEvent(call))
        BY <2>1, <3>1, MovedIsRemoved
      <3>3. calls = <<call>>
        BY <3>1, <3>2
      <3> HIDE DEF calls
      <3>4. QED
        BY <3>2, <3>3
    <2>2. ASSUME event.type = "session.deleted", ~skipped, s \in Session
          PROVE  calls # <<>> /\ first.kind = "deleted" /\ first.session = s /\ ~Ignored(first)
      <3>1. PICK call : /\ Translate(event, Directory, known, info) = <<call>>
                        /\ NormalizeEvent(call).kind = "deleted"
                        /\ NormalizeEvent(call).session = s
                        /\ ~Ignored(NormalizeEvent(call))
        BY <2>2, DeletedIsRemoved
      <3>2. calls = <<call>>
        BY <2>2, <3>1
      <3> HIDE DEF calls
      <3>3. QED
        BY <3>1, <3>2
    <2>3. QED
      BY <2>1, <2>2
  <1>7. skipped => calls = <<>>
    OBVIOUS
  <1> HIDE DEF calls, skipped, moves, info
  <1>8. /\ calls # <<>> => OfSession(first)
        /\ calls # <<>> /\ first.kind = "upsert" => asks /\ first.session = s
        /\ \/ calls = <<>>
           \/ \E call : calls = <<call>>
           \/ \E role, text : /\ calls = <<role, text>> /\ text.type = "message.part.updated"
                              /\ OfSession(NormalizeEvent(text))
    <2>1. CASE calls = <<>>
      BY <2>1
    <2>2. ASSUME NEW call, calls = <<call>>, OfSession(NormalizeEvent(call)),
                 NormalizeEvent(call).kind = "upsert"
                    => NeedsInfo(event, Directory) /\ NormalizeEvent(call).session = s
          PROVE  /\ OfSession(first)
                 /\ first.kind = "upsert" => asks /\ first.session = s
      <3>1. Head(calls) = call
        BY <2>2
      <3>2. ~Foreign(event, Directory)
        BY <1>7, <2>2 DEF skipped
      <3>3. QED
        BY <2>2, <3>1, <3>2
    <2>3. ASSUME NEW role, NEW text, calls = <<role, text>>, OfSession(NormalizeEvent(role)),
                 NormalizeEvent(role).kind # "upsert"
          PROVE  OfSession(first) /\ first.kind # "upsert"
      <3>1. Head(calls) = role
        BY <2>3
      <3>2. QED
        BY <2>3, <3>1
    <2>4. QED
      BY <1>5, <2>1, <2>2, <2>3 DEF CallsFit
  <1>9. PICK call : /\ HookCall(call)
                    /\ \/ stream' = <<>> /\ registry' = registry /\ calls = <<>>
                       \/ calls # <<>> /\ stream' = Tail(calls) /\ call = first
    BY <1>1, <1>8, EmitHolds
  <1> HIDE DEF first
  <1>10. /\ \A x \in Session : registry'[x] = "main" =>
                registry[x] = "main" \/ (x = s /\ asks /\ ~skipped)
         /\ calls # <<>> /\ first.kind = "deleted" /\ first.session = s /\ ~Ignored(first) /\ s \in Session
                => registry'[s] # "main"
         /\ page' \in {page, NoPage}
    <2>0. page' \in {page, NoPage}
      BY <1>9 DEF HookCall
    <2>1. CASE registry' = registry /\ calls = <<>>
      BY <2>0, <2>1
    <2>2. CASE calls # <<>> /\ call = first
      <3>1. \/ registry' = registry /\ (Ignored(first) \/ first.kind \notin {"upsert", "deleted"})
            \/ /\ first.kind \in {"upsert", "deleted"}
               /\ registry' = [registry EXCEPT ![first.session] = EntryOf(first)]
        BY <1>9, <2>2 DEF HookCall
      <3>2. DOMAIN registry = Session
        BY DEF HookInv, PipelineInv
      <3>3. ~skipped
        BY <1>7, <2>2
      <3>4. CASE registry' = registry /\ (Ignored(first) \/ first.kind \notin {"upsert", "deleted"})
        BY <2>0, <3>4
      <3>5. CASE first.kind = "deleted" /\ registry' = [registry EXCEPT ![first.session] = EntryOf(first)]
        BY <2>0, <3>2, <3>5, RemovalHides
      <3>6. CASE first.kind = "upsert" /\ registry' = [registry EXCEPT ![first.session] = EntryOf(first)]
        BY <1>8, <2>0, <2>2, <3>2, <3>3, <3>6
      <3>7. QED
        BY <3>1, <3>4, <3>5, <3>6
    <2>3. QED
      BY <1>9, <2>0, <2>1, <2>2
  <1>11. \A x \in Session : registry[x] = "main" => x \in known
    BY <1>2 DEF HookInv, PipelineInv
  <1>12. \A x \in Session : registry'[x] = "main" => x \in known'
    <2> SUFFICES ASSUME NEW x \in Session, registry'[x] = "main"
                 PROVE  x \in known'
      OBVIOUS
    <2>1. CASE x = s /\ asks /\ ~skipped
      BY <1>1, <2>1
    <2>2. CASE registry[x] = "main"
      <3>1. x \in known
        BY <1>11, <2>2
      <3>2. CASE x = s /\ ~skipped /\ ~asks /\ (event.type = "session.deleted" \/ moves)
        BY <1>6, <1>10, <3>1, <3>2
      <3>3. CASE ~(x = s /\ ~skipped /\ ~asks /\ (event.type = "session.deleted" \/ moves))
        BY <1>1, <3>1, <3>3
      <3>4. QED
        BY <3>2, <3>3
    <2>3. QED
      BY <1>10, <2>1, <2>2
  <1>13. AwayInv'
    <2>1. known' \subseteq Session
      BY <1>1, <1>3 DEF HookInv, AwayInv
    <2>2. ASSUME NEW x \in Session \cap away', x \notin strays'
          PROVE  registry'[x] # "main" /\ x \notin page'.main
      <3>1. registry'[x] = "main" => registry[x] = "main"
        BY <1>4, <1>10, <2>2
      <3>2. CASE moves /\ x = s
        <4>1. x \notin page'.main
          BY <1>1, <1>3, <2>2, <3>2
        <4>2. ASSUME registry'[x] = "main"
              PROVE  FALSE
          <5>1. x \in known
            BY <1>11, <2>2, <3>1, <4>2
          <5>2. QED
            BY <1>6, <1>10, <2>2, <3>2, <4>2, <5>1
        <4>3. QED
          BY <4>1, <4>2
      <3>3. CASE ~(moves /\ x = s)
        <4>1. x \in away /\ x \notin strays
          BY <1>1, <1>3, <2>2, <3>3
        <4>2. registry[x] # "main" /\ x \notin page.main
          BY <4>1, <2>2 DEF HookInv, AwayInv
        <4>3. QED
          BY <1>10, <3>1, <4>2 DEF NoPage
      <3>4. QED
        BY <3>2, <3>3
    <2>3. strays' \subseteq away'
      <3>1. strays \subseteq away
        BY DEF HookInv, AwayInv
      <3>2. QED
        BY <1>1, <1>3, <3>1
    <2>4. QED
      BY <1>1, <1>2, <2>1, <2>2, <2>3 DEF AwayInv
  <1>14. StreamInv'
    <2>1. stream' = <<>> \/ \E text : /\ stream' = <<text>> /\ text.type = "message.part.updated"
                                      /\ OfSession(NormalizeEvent(text))
      <3>1. CASE stream' = <<>>
        BY <3>1
      <3>2. ASSUME NEW one, calls = <<one>>, stream' = Tail(calls)
            PROVE  stream' = <<>>
        BY <3>2
      <3>3. ASSUME NEW role, NEW text, calls = <<role, text>>, stream' = Tail(calls)
            PROVE  stream' = <<text>>
        BY <3>3
      <3>4. QED
        BY <1>8, <1>9, <3>1, <3>2, <3>3
    <2>2. CASE stream' = <<>>
      BY <2>2 DEF StreamInv
    <2>3. ASSUME NEW text, stream' = <<text>>, text.type = "message.part.updated", OfSession(NormalizeEvent(text))
          PROVE  StreamInv'
      BY <2>3 DEF StreamInv
    <2>4. QED
      BY <2>1, <2>2, <2>3
  <1>15. events' \in 0..workload.events
    BY <1>1, <1>2 DEF HookInv, PipelineInv
  <1>16. QED
    BY <1>1, <1>9, <1>12, <1>13, <1>14, <1>15, AfterCall

LEMMA StreamGoesOnHolds ==
    ASSUME HookInv, StreamGoesOn
    PROVE  HookInv' /\ EmitsMain /\ SettlesDebounce
  <1> DEFINE first == NormalizeEvent(Head(stream))
             W == {stream[k] : k \in DOMAIN stream}
  <1>1. stream # <<>> /\ Emit(stream) /\ UNCHANGED <<workload, phase, events, known, away, strays>>
    BY DEF StreamGoesOn
  <1>2. stream \in Seq(W)
    BY DEF HookInv, StreamInv
  <1>3. /\ Head(stream) = stream[1] /\ 1 \in DOMAIN stream
        /\ Tail(stream) \in Seq(W) /\ Len(Tail(stream)) = Len(stream) - 1
        /\ \A k \in DOMAIN Tail(stream) : k + 1 \in DOMAIN stream /\ Tail(stream)[k] = stream[k + 1]
    BY <1>1, <1>2
  <1>4. Head(stream).type = "message.part.updated" /\ OfSession(first)
    BY <1>3 DEF HookInv, StreamInv
  <1>5. first.kind \notin {"upsert", "deleted"}
    <2>1. first = NormalizeMessagePart(Head(stream).properties)
      BY <1>4 DEF NormalizeEvent
    <2>2. NormalizeMessagePart(Head(stream).properties).kind \in {"text", "dropped"}
      BY DEF NormalizeMessagePart, Dropped
    <2>3. QED
      BY <2>1, <2>2
  <1> HIDE DEF first, W
  <1>6. StreamInv /\ AwayInv /\ RecordsInv /\ PipelineInv
    BY DEF HookInv
  <1>7. PICK call : /\ HookCall(call) /\ registry' = registry /\ page' \in {page, NoPage}
                    /\ stream' = <<>> \/ stream' = Tail(stream)
                    /\ phase = "running" \/ sessions' = sessions
    <2>1. \/ /\ stream' = <<>> /\ sessions' = sessions
             /\ HookCall(Dropped) /\ registry' = registry /\ page' = page
          \/ phase = "running" /\ stream' = Tail(stream) /\ HookCall(first)
      BY <1>1, <1>4, EmitHolds DEF first
    <2>2. HookCall(first) => registry' = registry /\ page' \in {page, NoPage}
      BY <1>5 DEF HookCall
    <2>3. QED
      BY <2>1, <2>2
  <1>8. StreamInv'
    <2>1. CASE stream' = <<>>
      BY <2>1 DEF StreamInv
    <2>2. CASE stream' = Tail(stream)
      <3>0. stream' \in Seq(W)
        BY <1>3, <2>2
      <3>1. stream' \in Seq({stream'[k] : k \in DOMAIN stream'})
        BY <3>0, OwnElements
      <3>2. \A k \in DOMAIN stream' : stream'[k].type = "message.part.updated" /\ OfSession(NormalizeEvent(stream'[k]))
        BY <1>3, <1>6, <2>2 DEF StreamInv
      <3>3. QED
        BY <3>1, <3>2 DEF StreamInv
    <2>3. QED
      BY <1>7, <2>1, <2>2
  <1>9. AwayInv'
    BY <1>1, <1>6, <1>7 DEF AwayInv, NoPage
  <1>10. WaitingInv' /\ RecordsInv' /\ out' = {}
    BY <1>7 DEF HookCall
  <1>11. PipelineInv'
    <2>1. \A s \in Session : sessions'[s] # NewState => registry'[s] = "main" /\ phase' # "stopped"
      <3>1. CASE phase = "running"
        BY <1>1, <1>7, <3>1 DEF HookCall
      <3>2. CASE sessions' = sessions
        BY <1>1, <1>6, <1>7, <3>2 DEF PipelineInv
      <3>3. QED
        BY <1>7, <3>1, <3>2
    <2>2. QED
      BY <1>1, <1>6, <1>7, <2>1 DEF PipelineInv, HookCall
  <1>12. SettlesDebounce
    BY <1>7 DEF SettlesDebounce
  <1>13. QED
    BY <1>1, <1>8, <1>9, <1>10, <1>11, <1>12 DEF HookInv, EmitsMain

LEMMA LookupReturnsHolds ==
    ASSUME HookInv, NEW s \in Session, NEW answer \in InfoOf(s, away) \cup {"unknown"}, LookupReturns(s, answer)
    PROVE  HookInv' /\ EmitsMain /\ SettlesDebounce
  <1> DEFINE entry == IF registry[s] = "absent" /\ answer # "unknown" THEN answer ELSE registry[s]
             told(call) == call.event.session = s /\ call.verdict = "pending"
  <1>1. /\ s \in inflight
        /\ registry' = [registry EXCEPT ![s] = entry]
        /\ waiting' = [i \in DOMAIN waiting |->
                IF told(waiting[i]) THEN [waiting[i] EXCEPT !.verdict = Verdict(entry)] ELSE waiting[i]]
        /\ inflight' = inflight \ {s}
        /\ known' = IF workload.v2 # {} /\ answer # "unknown" THEN known \cup {s} ELSE known
        /\ Drop
        /\ UNCHANGED <<workload, phase, events, stream, away, strays, discovery, page, late>>
    BY DEF LookupReturns, discoveryVars
  <1>2. WaitingInv /\ StreamInv /\ AwayInv /\ RecordsInv /\ PipelineInv
    BY DEF HookInv
  <1>3. registry \in [Session -> Entry] /\ inflight \subseteq Session
    BY <1>2 DEF PipelineInv
  <1>4. answer \in {"main", "child", "hidden", "unknown"} /\ (s \in away => answer = "unknown")
    BY DEF InfoOf
  <1>5. /\ entry \in Entry
        /\ registry[s] # "absent" => entry = registry[s]
        /\ entry = "main" => registry[s] = "main" \/ answer = "main"
    BY <1>3, <1>4 DEF Entry
  <1> HIDE DEF entry
  <1>6. out' = {} /\ sessions' = sessions /\ RecordsInv'
    BY <1>1, <1>2, DropQuiet
  <1>7. /\ registry' \in [Session -> Entry]
        /\ \A x \in Session : registry'[x] = IF x = s THEN entry ELSE registry[x]
        /\ \A x \in Session : registry[x] # "absent" => registry'[x] = registry[x]
    BY <1>1, <1>3, <1>5
  <1>8. Len(waiting) \in Nat /\ DOMAIN waiting = 1..Len(waiting)
    BY <1>2 DEF WaitingInv
  <1>9. waiting' \in Seq({waiting'[i] : i \in DOMAIN waiting'}) /\ DOMAIN waiting' = DOMAIN waiting
    BY <1>1, <1>8
  <1>10. ASSUME NEW i \in DOMAIN waiting
         PROVE  /\ waiting'[i] = [event |-> waiting'[i].event, verdict |-> waiting'[i].verdict]
                /\ waiting'[i].event.session \in Session
                /\ waiting'[i].verdict = "pending" => waiting'[i].event.session \in inflight'
                /\ waiting'[i].verdict = "main" => registry'[waiting'[i].event.session] # "absent"
    <2>1. PICK event, verdict : waiting[i] = [event |-> event, verdict |-> verdict]
      BY <1>2 DEF WaitingInv
    <2>2. /\ event.session \in Session
          /\ verdict = "pending" => event.session \in inflight
          /\ verdict = "main" => registry[event.session] # "absent"
      <3>1. waiting[i].event = event /\ waiting[i].verdict = verdict
        BY <2>1
      <3>2. QED
        BY <1>2, <3>1 DEF WaitingInv
    <2>3. CASE event.session = s /\ verdict = "pending"
      <3>1. told(waiting[i])
        BY <2>1, <2>3
      <3>2. waiting'[i] = [event |-> event, verdict |-> Verdict(entry)]
        BY <1>1, <2>1, <3>1
      <3>3. Verdict(entry) # "pending" /\ (Verdict(entry) = "main" => entry = "main")
        BY DEF Verdict
      <3>4. QED
        BY <1>7, <2>2, <2>3, <3>2, <3>3
    <2>4. CASE ~(event.session = s /\ verdict = "pending")
      <3>1. ~told(waiting[i])
        BY <2>1, <2>4
      <3>2. waiting'[i] = [event |-> event, verdict |-> verdict]
        BY <1>1, <2>1, <3>1
      <3>3. QED
        BY <1>1, <1>7, <2>2, <2>4, <3>2
    <2>5. QED
      BY <2>3, <2>4
  <1>11. WaitingInv'
    BY <1>9, <1>10 DEF WaitingInv
  <1>12. \A x \in Session : registry'[x] = "main" => registry[x] = "main" \/ (x = s /\ answer = "main")
    BY <1>5, <1>7
  <1>13. AwayInv'
    BY <1>1, <1>2, <1>4, <1>12 DEF AwayInv
  <1>14. StreamInv'
    BY <1>1, <1>2 DEF StreamInv
  <1>15. PipelineInv'
    <2>1. workload'.v2 # {} => \A x \in Session : registry'[x] = "main" => x \in known'
      BY <1>1, <1>2, <1>12 DEF PipelineInv
    <2>2. \A x \in Session : sessions'[x] # NewState => registry'[x] = "main" /\ phase' # "stopped"
      BY <1>1, <1>2, <1>6, <1>7 DEF PipelineInv
    <2>3. \A i \in DOMAIN waiting' : waiting'[i].verdict = "pending" => waiting'[i].event.session \in inflight'
      BY <1>9, <1>10
    <2>4. QED
      BY <1>1, <1>2, <1>7, <2>1, <2>2, <2>3 DEF PipelineInv, ListingTypeOK
  <1>16. QED
    BY <1>1, <1>6, <1>11, <1>13, <1>14, <1>15 DEF HookInv, EmitsMain, SettlesDebounce

\* OpenCode serves a listing, or the answer is lost: nothing but the page changes.
LEMMA ListingHolds ==
    ASSUME HookInv, NEW main \in SUBSET Session, NEW archived \in SUBSET Session, ListServed(main, archived) \/ ListLost
    PROVE  HookInv' /\ EmitsMain /\ SettlesDebounce
  <1>1. Drop /\ UNCHANGED <<workload, registry, inflight, waiting, phase, events, stream, known, away, strays>>
    BY DEF ListServed, ListLost, v2Vars
  <1>2. WaitingInv /\ StreamInv /\ AwayInv /\ RecordsInv /\ PipelineInv
    BY DEF HookInv
  <1>3. out' = {} /\ sessions' = sessions /\ RecordsInv'
    BY <1>1, <1>2, DropQuiet
  <1>4. ListingTypeOK' /\ page'.main \cap away = {}
    <2>1. CASE ListServed(main, archived)
      <3>1. discovery' = "served" /\ page' = [main |-> main, archived |-> archived] /\ late' = late /\ main \cap away = {}
        BY <2>1 DEF ListServed
      <3>2. QED
        BY <1>2, <3>1 DEF PipelineInv, ListingTypeOK
    <2>2. CASE ListLost
      BY <1>2, <2>2, OutdateKeeps DEF ListLost, PipelineInv, NoPage
    <2>3. QED
      BY <2>1, <2>2
  <1>5. WaitingInv' /\ StreamInv'
    BY <1>1, <1>2 DEF WaitingInv, StreamInv
  <1>6. AwayInv'
    BY <1>1, <1>2, <1>4 DEF AwayInv
  <1>7. PipelineInv'
    BY <1>1, <1>2, <1>3, <1>4 DEF PipelineInv
  <1>8. QED
    BY <1>1, <1>3, <1>5, <1>6, <1>7 DEF HookInv, EmitsMain, SettlesDebounce

\* The answer is received: what it calls main was here when it was served, or is a stray.
LEMMA ListReturnsHolds ==
    ASSUME HookInv, ListReturns
    PROVE  HookInv' /\ EmitsMain /\ SettlesDebounce
  <1>1. /\ registry' = [s \in Session |-> IF registry[s] # "absent" THEN registry[s]
                                          ELSE IF s \in page.main THEN "main"
                                          ELSE IF s \in page.archived THEN "hidden"
                                          ELSE "absent"]
        /\ known' = IF workload.v2 # {} THEN known \cup Listed(page) ELSE known
        /\ discovery' \in {"idle", "next"} /\ page' = NoPage /\ late' = late
        /\ Drop
        /\ UNCHANGED <<workload, inflight, waiting, phase, events, stream, away, strays>>
    BY DEF ListReturns
  <1>2. WaitingInv /\ StreamInv /\ AwayInv /\ RecordsInv /\ PipelineInv
    BY DEF HookInv
  <1>3. out' = {} /\ sessions' = sessions /\ RecordsInv'
    BY <1>1, <1>2, DropQuiet
  <1>4. /\ registry' \in [Session -> Entry]
        /\ \A x \in Session : registry[x] # "absent" => registry'[x] = registry[x]
        /\ \A x \in Session : registry'[x] = "main" => registry[x] = "main" \/ x \in page.main
    BY <1>1, <1>2 DEF PipelineInv, Entry
  <1>5. WaitingInv'
    BY <1>1, <1>2, <1>4, CallsStand
  <1>6. page.main \subseteq Session /\ Listed(page) \subseteq Session /\ page.main \subseteq Listed(page)
    BY <1>2 DEF PipelineInv, ListingTypeOK, Listed
  <1>7. AwayInv' /\ StreamInv'
    BY <1>1, <1>2, <1>4, <1>6 DEF AwayInv, StreamInv, NoPage
  <1>8. PipelineInv'
    <2>1. ListingTypeOK'
      BY <1>1, <1>2 DEF PipelineInv, ListingTypeOK, NoPage
    <2>2. workload'.v2 # {} => \A x \in Session : registry'[x] = "main" => x \in known'
      BY <1>1, <1>2, <1>4, <1>6 DEF PipelineInv
    <2>3. QED
      BY <1>1, <1>2, <1>3, <1>4, <2>1, <2>2 DEF PipelineInv
  <1>9. QED
    BY <1>1, <1>3, <1>5, <1>7, <1>8 DEF HookInv, EmitsMain, SettlesDebounce

\* Outdated answers only tell the plugin of more sessions.
LEMMA LateListingHolds ==
    ASSUME HookInv, NEW some, LateListing(some)
    PROVE  HookInv' /\ EmitsMain /\ SettlesDebounce
  <1>1. /\ some \subseteq late /\ known' = known \cup some /\ Drop
        /\ UNCHANGED <<workload, registry, inflight, waiting, phase, events, stream, away, strays, discovery, page, late>>
    BY DEF LateListing, discoveryVars
  <1>2. WaitingInv /\ StreamInv /\ AwayInv /\ RecordsInv /\ PipelineInv
    BY DEF HookInv
  <1>3. out' = {} /\ sessions' = sessions /\ RecordsInv'
    BY <1>1, <1>2, DropQuiet
  <1>4. WaitingInv' /\ StreamInv'
    BY <1>1, <1>2 DEF WaitingInv, StreamInv
  <1>5. AwayInv'
    BY <1>1, <1>2 DEF AwayInv, PipelineInv, ListingTypeOK
  <1>6. PipelineInv'
    BY <1>1, <1>2, <1>3 DEF PipelineInv, ListingTypeOK
  <1>7. QED
    BY <1>1, <1>3, <1>4, <1>5, <1>6 DEF HookInv, EmitsMain, SettlesDebounce

LEMMA ResumeHolds ==
    ASSUME HookInv, Resume
    PROVE  HookInv' /\ EmitsMain /\ SettlesDebounce
  <1>1. PICK i \in DOMAIN waiting :
            /\ waiting' = RemoveAt(waiting, i)
            /\ \/ /\ waiting[i].verdict = "main" /\ phase = "running" /\ ~Excluded(waiting[i].event.session)
                  /\ Dispatch(waiting[i].event)
               \/ Drop
            /\ UNCHANGED <<workload, registry, inflight, phase, events, stream, known, away, strays, discovery, page, late>>
    BY Zenon DEF Resume, v2Vars, discoveryVars
  <1> DEFINE event == waiting[i].event
             s == event.session
             W == {waiting[j] : j \in DOMAIN waiting}
  <1>2. WaitingInv /\ StreamInv /\ AwayInv /\ RecordsInv /\ PipelineInv
    BY DEF HookInv
  <1>3. /\ waiting' \in Seq(W)
        /\ \A j \in DOMAIN waiting' : \E k \in DOMAIN waiting : waiting'[j] = waiting[k]
    BY <1>1, <1>2, RemovedElements DEF WaitingInv
  <1> HIDE DEF W
  <1>4. waiting' \in Seq({waiting'[j] : j \in DOMAIN waiting'})
    BY <1>3, OwnElements
  <1>5. WaitingInv'
    BY <1>1, <1>2, <1>3, <1>4 DEF WaitingInv
  <1>6. AwayInv' /\ StreamInv'
    BY <1>1, <1>2 DEF AwayInv, StreamInv
  <1>7. s \in Session
    BY <1>2 DEF WaitingInv
  <1>8. CASE Drop
    <2>1. out' = {} /\ sessions' = sessions /\ RecordsInv'
      BY <1>2, <1>8, DropQuiet
    <2>2. PipelineInv'
      BY <1>1, <1>2, <1>5, <2>1 DEF PipelineInv, WaitingInv, ListingTypeOK
    <2>3. QED
      BY <1>1, <1>5, <1>6, <2>1, <2>2 DEF HookInv, EmitsMain, SettlesDebounce
  <1>9. CASE waiting[i].verdict = "main" /\ phase = "running" /\ ~Excluded(s) /\ Dispatch(event)
    <2>1. registry[s] = "main" /\ (s \in away => s \in strays)
      BY <1>2, <1>7, <1>9 DEF WaitingInv, PipelineInv, AwayInv, Excluded, Entry
    <2> HIDE DEF event
    <2>2. OnlyTouches(s)
      BY <1>2, <1>7, <1>9, MachineStepTouches DEF Dispatch
    <2>3. PipelineInv'
      <3>1. \A x \in Session : sessions'[x] # NewState => registry'[x] = "main" /\ phase' # "stopped"
        BY <1>1, <1>2, <1>9, <2>1, <2>2 DEF PipelineInv, OnlyTouches
      <3>2. QED
        BY <1>1, <1>2, <1>5, <3>1 DEF PipelineInv, WaitingInv, ListingTypeOK
    <2>4. EmitsMain
      BY <1>1, <2>1, <2>2 DEF EmitsMain, OnlyTouches
    <2>5. QED
      BY <1>1, <1>5, <1>6, <1>9, <2>2, <2>3, <2>4 DEF HookInv, SettlesDebounce, OnlyTouches
  <1>10. QED
    BY <1>1, <1>8, <1>9

LEMMA TimerFiresHolds ==
    ASSUME HookInv, NEW s \in Session, TimerFires(s)
    PROVE  HookInv' /\ EmitsMain /\ SettlesDebounce
  <1> DEFINE st == sessions[s]
  <1>1. /\ IdleTimerFires(s) \/ OnHeartbeatTick(s)
        /\ UNCHANGED <<workload, registry, inflight, waiting, phase, events, stream, known, away, strays, discovery, page, late>>
    BY DEF TimerFires, hookVars, v2Vars, discoveryVars
  <1>2. WaitingInv /\ StreamInv /\ AwayInv /\ RecordsInv /\ PipelineInv
    BY DEF HookInv
  <1>3. DOMAIN st = DOMAIN NewState /\ (st.idleTimer => ~st.terminalSent)
    BY <1>2 DEF RecordsInv
  <1>4. st # NewState
    BY <1>1 DEF IdleTimerFires, OnHeartbeatTick, NewState
  <1>5. registry[s] = "main" /\ phase # "stopped" /\ (s \in away => s \in strays)
    BY <1>2, <1>4 DEF PipelineInv, AwayInv
  <1> HIDE DEF st
  <1>6. OnlyTouches(s) /\ (st.idleTimer /\ ~sessions'[s].idleTimer => EndsRound(s, out'))
    <2>1. CASE IdleTimerFires(s)
      <3> DEFINE unarmed == [st EXCEPT !.idleTimer = FALSE]
      <3>1. /\ st.idleTimer
            /\ Step(s, Completed(unarmed), heard[s], CompletionOf(s, unarmed))
        BY <2>1 DEF IdleTimerFires, st
      <3>2. DOMAIN unarmed = DOMAIN NewState /\ unarmed.terminalSent = st.terminalSent /\ ~unarmed.idleTimer
        BY <1>3 DEF NewState
      <3> HIDE DEF unarmed
      <3>3. DOMAIN Completed(unarmed) = DOMAIN NewState /\ ~Completed(unarmed).idleTimer
        BY <3>2 DEF Completed, NewState
      <3>4. OnlyTouches(s)
        BY <1>2, <3>1, <3>3, CompletionShape, StepTouches
      <3>5. EndsRound(s, out')
        <4>1. out' = CompletionOf(s, unarmed)
          BY <3>1 DEF Step
        <4>2. EndsRound(s, CompletionOf(s, unarmed))
          BY <1>3, <3>1, <3>2, CompletionShape
        <4>3. QED
          BY <4>1, <4>2
      <3>6. QED
        BY <3>4, <3>5
    <2>2. CASE OnHeartbeatTick(s)
      <3> DEFINE active == st.busySince # Null /\ st.status # "idle"
                 kept == [st EXCEPT !.heartbeatTimer = active]
                 effects == IF active THEN {HeartbeatEvent(s, st.status, Elapsed(st.busySince, now))} ELSE {}
      <3>1. Step(s, kept, heard[s], effects)
        BY <2>2 DEF OnHeartbeatTick, st
      <3>2. \A e \in effects : e.session = s
        BY DEF HeartbeatEvent
      <3> HIDE DEF active, effects
      <3>3. DOMAIN kept = DOMAIN NewState /\ kept.idleTimer = st.idleTimer /\ kept.terminalSent = st.terminalSent
        BY <1>3 DEF NewState
      <3> HIDE DEF kept
      <3>4. OnlyTouches(s) /\ sessions'[s] = kept
        BY <1>2, <1>3, <3>1, <3>2, <3>3, StepTouches
      <3>5. QED
        BY <3>3, <3>4
    <2>3. QED
      BY <1>1, <2>1, <2>2
  <1>7. WaitingInv' /\ StreamInv' /\ AwayInv'
    BY <1>1, <1>2 DEF WaitingInv, StreamInv, AwayInv
  <1>8. PipelineInv'
    <2>1. \A x \in Session : sessions'[x] # NewState => registry'[x] = "main" /\ phase' # "stopped"
      BY <1>1, <1>2, <1>5, <1>6 DEF PipelineInv, OnlyTouches
    <2>2. QED
      BY <1>1, <1>2, <2>1 DEF PipelineInv, ListingTypeOK
  <1>9. EmitsMain
    BY <1>1, <1>5, <1>6 DEF EmitsMain, OnlyTouches
  <1>10. SettlesDebounce
    BY <1>6 DEF SettlesDebounce, OnlyTouches, st
  <1>11. QED
    BY <1>1, <1>2, <1>6, <1>7, <1>8, <1>9, <1>10 DEF HookInv, OnlyTouches

LEMMA BeginDisposeHolds ==
    ASSUME HookInv, BeginDispose
    PROVE  HookInv' /\ EmitsMain /\ SettlesDebounce
  <1>1. /\ phase' = "stopping" /\ Drop
        /\ UNCHANGED <<workload, registry, inflight, waiting, events, stream, known, away, strays, discovery, page, late>>
    BY DEF BeginDispose, v2Vars, discoveryVars
  <1>2. WaitingInv /\ StreamInv /\ AwayInv /\ RecordsInv /\ PipelineInv
    BY DEF HookInv
  <1>3. out' = {} /\ sessions' = sessions /\ RecordsInv'
    BY <1>1, <1>2, DropQuiet
  <1>4. WaitingInv' /\ StreamInv' /\ AwayInv'
    BY <1>1, <1>2 DEF WaitingInv, StreamInv, AwayInv
  <1>5. PipelineInv'
    BY <1>1, <1>2, <1>3 DEF PipelineInv, ListingTypeOK
  <1>6. QED
    BY <1>1, <1>3, <1>4, <1>5 DEF HookInv, EmitsMain, SettlesDebounce

LEMMA FinishDisposeHolds ==
    ASSUME HookInv, FinishDispose
    PROVE  HookInv' /\ EmitsMain /\ SettlesDebounce
  <1>1. /\ phase' = "stopped"
        /\ out' = UNION {CompletionOf(s, Unarmed(s)) : s \in Debouncing}
        /\ sessions' = [s \in Session |-> NewState]
        /\ UNCHANGED <<workload, registry, inflight, waiting, events, stream, known, away, strays, discovery, page, late>>
    BY DEF FinishDispose, v2Vars, discoveryVars
  <1>2. WaitingInv /\ StreamInv /\ AwayInv /\ RecordsInv /\ PipelineInv
    BY DEF HookInv
  <1>3. WaitingInv' /\ StreamInv' /\ AwayInv'
    BY <1>1, <1>2 DEF WaitingInv, StreamInv, AwayInv
  <1>4. RecordsInv'
    BY <1>1 DEF RecordsInv, NewState
  <1>5. PipelineInv'
    BY <1>1, <1>2 DEF PipelineInv, ListingTypeOK
  <1>6. ASSUME NEW s \in Debouncing
        PROVE  /\ s \in Session /\ sessions[s].idleTimer
               /\ registry[s] = "main" /\ (s \in away => s \in strays)
               /\ ~Unarmed(s).terminalSent
    <2>1. s \in Session /\ sessions[s].idleTimer
      BY DEF Debouncing
    <2>2. sessions[s] # NewState
      BY <2>1 DEF NewState
    <2>3. Unarmed(s).terminalSent = sessions[s].terminalSent
      BY <1>2, <2>1 DEF Unarmed, RecordsInv, NewState
    <2>4. QED
      BY <1>2, <2>1, <2>2, <2>3 DEF PipelineInv, AwayInv, RecordsInv
  <1>7. EmitsMain
    <2> SUFFICES ASSUME NEW e \in out'
                 PROVE  registry'[e.session] = "main" /\ (e.session \in away' => e.session \in strays')
      BY DEF EmitsMain
    <2>1. PICK s \in Debouncing : e \in CompletionOf(s, Unarmed(s))
      BY <1>1
    <2>2. e.session = s
      BY <1>6, <2>1, CompletionShape
    <2>3. QED
      BY <1>1, <1>6, <2>2
  <1>8. SettlesDebounce
    <2> SUFFICES ASSUME NEW s \in Session, sessions[s].idleTimer
                 PROVE  EndsRound(s, out')
      BY DEF SettlesDebounce
    <2>1. s \in Debouncing
      BY DEF Debouncing
    <2>2. EndsRound(s, CompletionOf(s, Unarmed(s)))
      BY <1>6, <2>1, CompletionShape
    <2>3. CompletionOf(s, Unarmed(s)) \subseteq out'
      BY <1>1, <2>1
    <2>4. QED
      BY <2>2, <2>3 DEF EndsRound
  <1>9. QED
    BY <1>1, <1>3, <1>4, <1>5, <1>7, <1>8 DEF HookInv

\* Clearing the cache concerns nothing here.
LEMMA RestHolds ==
    ASSUME HookInv, CacheCleared \/ UNCHANGED pvars
    PROVE  HookInv'
  <1>1. sessions' = sessions /\ UNCHANGED <<workload, registry, inflight, waiting, phase, events, stream, known, away, strays, discovery, page, late>>
    BY DEF CacheCleared, MachineQuiet, hookVars, v2Vars, discoveryVars, pvars, vars
  <1>2. QED
    BY <1>1 DEF HookInv, PipelineInv, WaitingInv, StreamInv, AwayInv, RecordsInv, ListingTypeOK

LEMMA CacheClearedSays ==
    ASSUME CacheCleared
    PROVE  EmitsMain /\ SettlesDebounce
  BY DEF CacheCleared, MachineQuiet, EmitsMain, SettlesDebounce

-----------------------------------------------------------------------------
(* Theorems *)

\* Every step keeps the invariant, and says only what it may.
LEMMA PipelineStep ==
    ASSUME HookInv, PipelineNext
    PROVE  HookInv' /\ EmitsMain /\ SettlesDebounce
  <1>1. ASSUME NEW raw \in workload.raws, OnEvent(raw)
        PROVE  HookInv' /\ EmitsMain /\ SettlesDebounce
    BY <1>1, OnEventHolds
  <1>2. ASSUME NEW event \in workload.v2, NEW answer, StreamEvent(event, answer)
        PROVE  HookInv' /\ EmitsMain /\ SettlesDebounce
    BY <1>2, StreamEventHolds
  <1>3. ASSUME NEW main \in SUBSET Session, NEW archived \in SUBSET Session, ListServed(main, archived)
        PROVE  HookInv' /\ EmitsMain /\ SettlesDebounce
    BY <1>3, ListingHolds
  <1>12. CASE ListLost
    BY <1>12, ListingHolds
  <1>13. CASE ListReturns
    BY <1>13, ListReturnsHolds
  <1>14. ASSUME NEW some \in SUBSET Session, LateListing(some)
         PROVE  HookInv' /\ EmitsMain /\ SettlesDebounce
    BY <1>14, LateListingHolds
  <1>4. ASSUME NEW s \in Session, NEW answer \in InfoOf(s, away) \cup {"unknown"}, LookupReturns(s, answer)
        PROVE  HookInv' /\ EmitsMain /\ SettlesDebounce
    BY <1>4, LookupReturnsHolds
  <1>5. ASSUME NEW s \in Session, TimerFires(s)
        PROVE  HookInv' /\ EmitsMain /\ SettlesDebounce
    BY <1>5, TimerFiresHolds
  <1>6. CASE BeginDispose
    BY <1>6, BeginDisposeHolds
  <1>7. CASE Resume
    BY <1>7, ResumeHolds
  <1>8. CASE StreamGoesOn
    BY <1>8, StreamGoesOnHolds
  <1>9. CASE FinishDispose
    BY <1>9, FinishDisposeHolds
  <1>10. CASE CacheCleared
    BY <1>10, RestHolds, CacheClearedSays
  <1>11. QED
    BY <1>1, <1>2, <1>3, <1>4, <1>5, <1>6, <1>7, <1>8, <1>9, <1>10, <1>12, <1>13, <1>14
    DEF PipelineNext, HostStep, PluginStep

\* The invariant of the hook is inductive.
THEOREM HookInductive ==
    /\ PipelineInit => HookInv
    /\ HookInv /\ [PipelineNext]_pvars => HookInv'
  <1>1. ASSUME PipelineInit
        PROVE  HookInv
    <2>1. /\ sessions = [s \in Session |-> NewState]
          /\ workload \in Workloads
          /\ registry = [s \in Session |-> "absent"] /\ inflight = {} /\ waiting = <<>>
          /\ phase = "running" /\ events = 0 /\ stream = <<>> /\ known = {} /\ away = {}
          /\ strays = {} /\ discovery \in {"idle", "due"} /\ page = NoPage /\ late = {}
      BY <1>1 DEF PipelineInit, Init
    <2>2. workload.events \in Nat
      BY <2>1, PipelineAssumption
    <2>3. PipelineInv
      BY <2>1, <2>2 DEF PipelineInv, Entry, ListingTypeOK, NoPage
    <2>4. WaitingInv /\ StreamInv
      BY <2>1 DEF WaitingInv, StreamInv
    <2>5. AwayInv /\ RecordsInv
      BY <2>1 DEF AwayInv, RecordsInv, NewState
    <2>6. QED
      BY <2>1, <2>3, <2>4, <2>5 DEF HookInv
  <1>2. ASSUME HookInv, [PipelineNext]_pvars
        PROVE  HookInv'
    BY <1>2, PipelineStep, RestHolds
  <1>3. QED
    BY <1>1, <1>2

\* It holds in every state of the plugin's life.
THEOREM HookInvariant == PipelineSpec => []HookInv
  BY HookInductive, PTL DEF PipelineSpec

\* Only a main session works, and only until the plugin is stopped; every call that
\* waits waits on a lookup in flight; the plugin has the info of every V2 session it
\* calls main (index.ts onEvent, session-registry.ts, v2.ts).
THEOREM HookKeepsItsSessions == PipelineSpec => []PipelineInv
  <1>1. HookInv => PipelineInv
    BY DEF HookInv
  <1>2. QED
    BY <1>1, HookInvariant, PTL

\* No effect is of a child, hidden or unknown session, nor of one that moved away, but a
\* stray (a listing served before the move and received after it had called it main),
\* whatever ran between an event and its dispatch or its timer (index.ts dispatch).
THEOREM NotificationsAreOfMainSessions == PipelineSpec => OnlyMainSessionsEmit
  <1>1. HookInv /\ [PipelineNext]_pvars => [\A e \in out' : registry'[e.session] = "main" /\ (e.session \in away' => e.session \in strays')]_pvars
    BY PipelineStep DEF EmitsMain
  <1>2. QED
    BY <1>1, HookInvariant, PTL DEF OnlyMainSessionsEmit, PipelineSpec

\* Once disposal has begun a pending debounce ends in its completion only
\* (index.ts dispose).
THEOREM ShutdownReports == PipelineSpec => ShutdownSettlesDebounce
  <1>1. HookInv /\ [PipelineNext]_pvars =>
            [\A s \in Session :
                phase # "running" /\ sessions[s].idleTimer /\ ~sessions'[s].idleTimer
                    => EndsRound(s, out')]_pvars
    BY PipelineStep DEF SettlesDebounce
  <1>2. QED
    BY <1>1, HookInvariant, PTL DEF ShutdownSettlesDebounce, PipelineSpec
=============================================================================
