----------------------------- MODULE RemoteEntry -----------------------------
(***************************************************************************)
(* When the plugin registers its directory with the gateway                *)
(* (packages/plugin/src/index.ts: startControl, stopEmptyControl,          *)
(* discoverRemoteEntry, scheduleDiscovery, the lifecycle part of onEvent   *)
(* and dispose), composed with the control channel it starts and stops.    *)
(*                                                                         *)
(* The channel should run while the directory has a main session.  The     *)
(* plugin learns of sessions from three sources that race: lifecycle       *)
(* events, other events of a session whose ancestry a lookup settles, and  *)
(* a paged listing whose answer may be older than an event handled since.  *)
(* directoryRevision outdates a listing: a discovery in flight here is     *)
(* `current' until the revision moves on.  stop() is followed by an await, *)
(* so a request to start may come while the channel is stopping.           *)
(*                                                                         *)
(* OpenCode 1 calls the hook with each event.  For OpenCode 2 the loop of  *)
(* packages/plugin/src/v2.ts reads one stream, an event at a time, reads   *)
(* the session an event names and calls the hook itself; what it reads no  *)
(* session for, or misses while it subscribes anew, is never told again.   *)
(***************************************************************************)
EXTENDS ControlChannel

CONSTANTS
    Session,    \* sessions of the directory that may change
    Setups,     \* how an execution is set up: configuration, archived history, bounds
    Limits      \* the page sizes of the listing, in order (1, 50 and 200 in the code)

VARIABLES
    v2,         \* the events come through v2.ts
    always,     \* the directory is one of config.remoteDirectories
    history,    \* archived sessions besides Session
    host,       \* OpenCode's sessions: "absent", "live", "archived", "internal"
    bus,        \* lifecycle events not yet delivered
    known,      \* v2.ts: sessions it holds
    missed,     \* history: sessions of whose latest change v2.ts told the hook nothing
    entry,      \* SessionRegistry: "absent", "main", "hidden"
    looking,    \* sessions with a hook call after its await on isMain
    scheduled,  \* setImmediate(discoverRemoteEntry) is pending
    finds,      \* discoverRemoteEntry calls in flight
    wanted,     \* controlWanted
    started,    \* controlStarted
    stopping,   \* controlStopping
    disposed,
    kept        \* history: the entry was retained because discovery could not tell

entryVars == <<v2, always, history, host, bus, known, missed, entry, looking, scheduled, finds, wanted,
               started, stopping, disposed, kept>>
rvars == <<cvars, entryVars>>

ASSUME EntryAssumption ==
    /\ Limits \in Seq(Nat \ {0}) /\ Limits # <<>>
    /\ Setups \subseteq [v2 : BOOLEAN, always : BOOLEAN, history : Nat, budget : Budget]
    /\ IsFiniteSet(Session)

-----------------------------------------------------------------------------
(* Starting and stopping the channel *)

Find == {f \in [page : DOMAIN Limits, served : BOOLEAN, size : Nat, seen : SUBSET Session,
                live : SUBSET Session, current : BOOLEAN] : f.live \subseteq f.seen}

\* directoryRevision++: no discovery in flight is current any more.
Outdated(fs) == {[f EXCEPT !.current = FALSE] : f \in fs}

\* fs are the discoveries the caller leaves in flight; busy: controlStopping.
StartControl(fs, busy) ==
    IF disposed
    THEN finds' = fs /\ UNCHANGED <<wanted, started, cvars>>
    ELSE /\ finds' = IF wanted THEN fs ELSE Outdated(fs)
         /\ wanted' = TRUE
         /\ IF started \/ busy
            THEN UNCHANGED <<started, cvars>>
            ELSE started' = TRUE /\ Start

\* stopEmptyControl up to its await; control.stop() runs at once.
StopEmptyControl(fs) ==
    /\ finds' = fs
    /\ wanted' = FALSE
    /\ kept' = FALSE
    /\ started' = FALSE
    /\ stopping' = (started \/ stopping)
    /\ IF started THEN Stop /\ UNCHANGED budget ELSE UNCHANGED cvars

\* stopEmptyControl after its await: the finally serves a start asked for meanwhile.
StopSettles ==
    /\ stopping
    /\ stopping' = FALSE
    /\ IF wanted THEN StartControl(finds, FALSE) ELSE UNCHANGED <<finds, wanted, started, cvars>>
    /\ UNCHANGED <<v2, always, history, host, bus, known, missed, entry, looking, scheduled, disposed, kept>>

-----------------------------------------------------------------------------
(* OpenCode *)

\* An event carries its session, or only names it; a move to another directory, like
\* a deletion, needs no more than the name.
Lifecycles == [session : Session, state : {"absent", "live", "archived", "internal"},
               kind : {"info", "notice", "moved"}]

\* An internal worker has its title from its creation on.
NextStates(s) ==
    CASE host[s] = "absent" -> {"live", "internal"}
      [] host[s] = "live" -> {"archived", "absent"}
      [] host[s] = "archived" -> {"live", "absent"}
      [] host[s] = "internal" -> {"absent"}

\* A session is created, renamed, archived, restored, deleted or moved, and an event
\* says so.
HostChanges(s, state, kind) ==
    /\ Spend("events")
    /\ state \in NextStates(s)
    /\ kind \in IF ~v2 THEN {"info"} ELSE IF state = "absent" THEN {"info", "moved"} ELSE {"notice"}
    /\ host' = [host EXCEPT ![s] = state]
    /\ bus' = Append(bus, [session |-> s, state |-> state, kind |-> kind])
    /\ UNCHANGED <<running, probes, version, socket, alive, closing, registered, timer, tunnelVars,
                   v2, always, history, known, missed, entry, looking, scheduled, finds, wanted, started,
                   stopping, disposed, kept>>

\* v2.ts takes its next event only when the hook is done with the last.
Idle == v2 => looking = {}

\* Any other event of a live session, up to the await on its ancestry.
HostSignal(s) ==
    /\ Spend("events")
    /\ host[s] = "live" /\ entry[s] # "hidden" /\ ~disposed /\ s \notin looking
    /\ Idle /\ (v2 => bus = <<>>)
    /\ looking' = looking \cup {s}
    /\ UNCHANGED <<running, probes, version, socket, alive, closing, registered, timer, tunnelVars,
                   v2, always, history, host, bus, known, missed, entry, scheduled, finds, wanted, started,
                   stopping, disposed, kept>>

-----------------------------------------------------------------------------
(* v2.ts: the stream *)

\* getSession answers for the session the next event names, with what it is by now.
SessionRead ==
    /\ bus # <<>> /\ Head(bus).kind = "notice" /\ Idle
    /\ host[Head(bus).session] # "absent"
    /\ bus' = <<[Head(bus) EXCEPT !.state = host[Head(bus).session], !.kind = "info"]>> \o Tail(bus)
    /\ UNCHANGED <<cvars, v2, always, history, host, known, missed, entry, looking, scheduled, finds, wanted, started,
                   stopping, disposed, kept>>

\* getSession throws, or the event passes while the loop subscribes anew.
EventDropped ==
    /\ v2 /\ bus # <<>> /\ Idle
    /\ bus' = Tail(bus)
    /\ missed' = missed \cup {Head(bus).session}
    /\ UNCHANGED <<cvars, v2, always, history, host, known, entry, looking, scheduled, finds, wanted, started,
                   stopping, disposed, kept>>

-----------------------------------------------------------------------------
(* onEvent *)

\* Whether the event leads to anything: a session that was hidden and is internal does not.
Matters(s, state) == state # "internal" \/ entry[s] # "hidden"

\* A defect: a session that appears does not outdate the listings in flight.
BugLifecycle(s, state) ==
    IF state = "live"
    THEN /\ entry' = [entry EXCEPT ![s] = "main"]
         /\ StartControl(finds, stopping)
         /\ UNCHANGED scheduled
    ELSE /\ entry' = [entry EXCEPT ![s] = "hidden"]
         /\ scheduled' = (scheduled \/ Matters(s, state))
         /\ finds' = IF Matters(s, state) THEN Outdated(finds) ELSE finds
         /\ UNCHANGED <<wanted, started, cvars>>

\* A session that may be notified wants the channel; one that no longer may asks
\* for a new listing.
Lifecycle(s, state) ==
    IF state = "live"
    THEN /\ entry' = [entry EXCEPT ![s] = "main"]
         /\ StartControl(Outdated(finds), stopping)
         /\ UNCHANGED scheduled
    ELSE /\ entry' = [entry EXCEPT ![s] = "hidden"]
         /\ scheduled' = (scheduled \/ Matters(s, state))
         /\ finds' = IF Matters(s, state) THEN Outdated(finds) ELSE finds
         /\ UNCHANGED <<wanted, started, cvars>>

\* What v2.ts holds once it has passed an event on.
Holding(s, state) ==
    IF ~v2 THEN known ELSE IF state = "absent" THEN known \ {s} ELSE known \cup {s}

\* A page is on its way that still shows the session as live.
Shown(s) == \E f \in finds : f.current /\ s \in f.live

\* The hook is called with the next lifecycle event; v2.ts passes on no move of a
\* session that it does not hold.
Deliver ==
    /\ bus # <<>> /\ Head(bus).kind # "notice" /\ Idle
    /\ bus' = Tail(bus)
    /\ LET s == Head(bus).session
           state == Head(bus).state
       IN  \/ /\ disposed
              /\ UNCHANGED <<known, missed, entry, scheduled, finds, wanted, started, cvars>>
           \/ /\ ~disposed /\ Head(bus).kind = "moved" /\ s \notin known
              /\ missed' = IF Shown(s) THEN missed \cup {s} ELSE missed
              /\ UNCHANGED <<known, entry, scheduled, finds, wanted, started, cvars>>
           \/ /\ ~disposed /\ ~(Head(bus).kind = "moved" /\ s \notin known)
              /\ Lifecycle(s, state)
              /\ known' = Holding(s, state)
              /\ missed' = IF Matters(s, state) THEN missed \ {s} ELSE missed
    /\ UNCHANGED <<v2, always, history, host, looking, stopping, disposed, kept>>

\* onEvent after its await.  The lookup answered with what the session was when the
\* event was sent or is now, or with nothing; an entry that exists wins.
CallResumes(s, answer) ==
    LET found == IF entry[s] # "absent" \/ answer = "unknown" THEN entry[s]
                 ELSE IF answer = "live" THEN "main" ELSE "hidden"
    IN  /\ s \in looking
        /\ answer \in {"live", "unknown", host[s]} \ {"absent"}
        /\ looking' = looking \ {s}
        /\ known' = IF v2 /\ entry[s] = "absent" /\ answer # "unknown" THEN known \cup {s} ELSE known
        /\ entry' = [entry EXCEPT ![s] = found]
        /\ IF found = "main"
           THEN StartControl(finds, stopping)
           ELSE UNCHANGED <<finds, wanted, started, cvars>>
        /\ UNCHANGED <<v2, always, history, host, bus, missed, scheduled, stopping, disposed, kept>>

-----------------------------------------------------------------------------
(* discoverRemoteEntry *)

NewFind(page) == [page |-> page, served |-> FALSE, size |-> 0, seen |-> {}, live |-> {}, current |-> TRUE]

\* The immediate runs: a configured directory is always registered, any other is listed.
DiscoveryRuns ==
    /\ scheduled
    /\ scheduled' = FALSE
    /\ IF always
       THEN StartControl(Outdated(finds), stopping)
       ELSE finds' = Outdated(finds) \cup {NewFind(1)} /\ UNCHANGED <<wanted, started, cvars>>
    /\ UNCHANGED <<v2, always, history, host, bus, known, missed, entry, looking, stopping, disposed, kept>>

\* OpenCode reads the page; its answer travels.
ListServed(f) ==
    LET roots == {s \in Session : host[s] # "absent"}
        size == Min({Limits[f.page], Cardinality(roots) + history})
    IN  /\ ~f.served
        /\ \E seen \in SUBSET roots :
            /\ Cardinality(seen) \in (size - Min({size, history}))..size
            /\ finds' = (finds \ {f}) \cup
                   {[f EXCEPT !.served = TRUE, !.size = size, !.seen = seen,
                              !.live = {s \in seen : host[s] = "live"}]}
        /\ UNCHANGED <<cvars, v2, always, history, host, bus, known, missed, entry, looking, scheduled,
                       wanted, started, stopping, disposed, kept>>

\* Unknown is not empty: the entry is retained.
Retain(fs) ==
    /\ StartControl(fs, stopping)
    /\ kept' = TRUE
    /\ UNCHANGED stopping

\* The page arrives at a current discovery.
Page(f, fs) ==
    \/ /\ f.live # {}
       /\ StartControl(fs, stopping)
       /\ UNCHANGED <<stopping, kept>>
    \/ /\ f.live = {} /\ f.size < Limits[f.page]
       /\ StopEmptyControl(fs)
    \/ /\ f.live = {} /\ f.size >= Limits[f.page]
       /\ IF f.page < Len(Limits)
          THEN finds' = fs \cup {NewFind(f.page + 1)} /\ UNCHANGED <<wanted, started, stopping, kept, cvars>>
          ELSE Retain(fs)

ListReturns(f) ==
    /\ f.served
    /\ known' = IF v2 THEN known \cup f.seen ELSE known
    /\ IF disposed \/ ~f.current
       THEN finds' = finds \ {f} /\ UNCHANGED <<entry, wanted, started, stopping, kept, cvars>>
       ELSE /\ entry' = [s \in Session |-> IF s \notin f.seen \/ entry[s] # "absent" THEN entry[s]
                                           ELSE IF s \in f.live THEN "main" ELSE "hidden"]
            /\ Page(f, finds \ {f})
    /\ UNCHANGED <<v2, always, history, host, bus, missed, looking, scheduled, disposed>>

\* The listing fails, is malformed, is aborted or times out.
ListFails(f) ==
    /\ IF disposed \/ ~f.current
       THEN finds' = finds \ {f} /\ UNCHANGED <<wanted, started, stopping, kept, cvars>>
       ELSE Retain(finds \ {f})
    /\ UNCHANGED <<v2, always, history, host, bus, known, missed, entry, looking, scheduled, disposed>>

\* dispose, as far as the entry goes.
Dispose ==
    /\ ~disposed
    /\ disposed' = TRUE
    /\ scheduled' = FALSE
    /\ Stop /\ UNCHANGED budget
    /\ UNCHANGED <<v2, always, history, host, bus, known, missed, entry, looking, finds, wanted,
                   started, stopping, kept>>

-----------------------------------------------------------------------------
EntryInit ==
    /\ ChannelInit
    /\ \E setup \in Setups : v2 = setup.v2 /\ always = setup.always /\ history = setup.history /\ budget = setup.budget
    /\ host \in [Session -> {"absent", "live", "archived"}]
    /\ bus = <<>> /\ known = {} /\ missed = {}
    /\ entry = [s \in Session |-> "absent"]
    /\ looking = {}
    /\ scheduled = TRUE
    /\ finds = {}
    /\ wanted = FALSE /\ started = FALSE /\ stopping = FALSE /\ disposed = FALSE /\ kept = FALSE

HostStep ==
    \/ \E s \in Session, state \in {"absent", "live", "archived", "internal"}, kind \in {"info", "notice", "moved"} :
         HostChanges(s, state, kind)
    \/ \E s \in Session : HostSignal(s)
    \/ \E f \in finds : ListServed(f)

ListSettles == \E f \in finds : ListReturns(f) \/ ListFails(f)

NextEvent == SessionRead \/ EventDropped \/ Deliver

CallSettles == \E s \in Session, answer \in {"live", "archived", "internal", "unknown"} : CallResumes(s, answer)

EntryStep ==
    \/ NextEvent \/ DiscoveryRuns \/ ListSettles \/ CallSettles \/ StopSettles \/ Dispose

EntryNext ==
    \/ HostStep \/ EntryStep
    \/ (ChannelStep \/ TunnelStep) /\ UNCHANGED entryVars

\* The event loop runs what is ready, a listing is bounded by its timeout and a
\* probe by its deadline, timers fire, and a frame that was sent arrives unless its
\* socket fails.  The gateway answers a handshake within the minute after which a
\* socket of unknown version is dropped, so that pair is strong.  OpenCode answers or
\* fails the read of one session, which the loop of v2.ts waits for without a timeout;
\* clients and upstream requests owe nothing.
EntrySpec ==
    /\ EntryInit /\ [][EntryNext]_rvars
    /\ WF_rvars(NextEvent) /\ WF_rvars(CallSettles)
    /\ WF_rvars(DiscoveryRuns) /\ WF_rvars(ListSettles) /\ WF_rvars(StopSettles)
    /\ WF_rvars(UNCHANGED entryVars /\ \E found \in {"known", "unknown"} : ProbeSettles("fresh", found))
    /\ WF_rvars(UNCHANGED entryVars /\ Reconnect)
    /\ WF_rvars(UNCHANGED entryVars /\ PluginReceives)
    /\ SF_rvars(UNCHANGED entryVars /\ SocketOpens)
    /\ SF_rvars(UNCHANGED entryVars /\ Registration)

-----------------------------------------------------------------------------
(* Properties *)

\* Types; a discovery is current only if it is the latest.
EntryTypeOK ==
    /\ entry \in [Session -> {"absent", "main", "hidden"}]
    /\ finds \subseteq Find /\ Cardinality({f \in finds : f.current}) <= 1
    /\ known \cup missed \subseteq Session /\ (~v2 => known \cup missed = {})
    /\ stopping => ~started
    /\ probes \in [fresh : 0..1, stale : 0..MaxStale]
    /\ alive \in 0..1 /\ closing \in 0..MaxStale
    /\ upstream \in [Req -> [state : {"none", "running", "aborted", "done"}, map : 0..Cardinality(Req)]]
    /\ timer => running /\ socket = "none" /\ probes.fresh = 0

\* A live session, and one that v2.ts left no change of untold.
LiveSession == \E s \in Session : host[s] = "live"
ToldLive == \E s \in Session \ missed : host[s] = "live"

\* Once every event has been handled and no discovery is under way, the channel has
\* been started exactly if the directory has a main session, is configured, or could
\* not be listed: no listing that was overtaken by an event, no start asked for while
\* the channel was stopping, leaves the entry up or down against the sessions.  The
\* sessions v2.ts told nothing of are excepted by name: one that it could not read,
\* or whose event passed while it subscribed anew (v2.ts:95, 124-129), and one that
\* moved away before v2.ts held it while a page still showed it (v2.ts:90-94).
EntryFollowsSessions ==
    bus = <<>> /\ ~scheduled /\ ~stopping /\ ~disposed /\ (\A f \in finds : ~f.current)
        => /\ started = wanted
           /\ ToldLive => wanted
           /\ wanted => LiveSession \/ kept \/ always \/ missed # {}

\* A channel that is stopped, by an empty directory, a refused key or dispose, is
\* down entirely: no probe, timer or close event that outlived it opens or leaves a
\* socket, and no Web UI request runs on except one that was sent after its tunnel's
\* close.  While it runs it holds the only socket there is.
DownMeansDown ==
    /\ disposed => ~running
    /\ alive = (IF socket = "none" THEN 0 ELSE 1)
    /\ ~running => /\ socket = "none" /\ ~timer /\ ~registered /\ probes.fresh = 0
                   /\ \A r \in Req : upstream[r].state = "running" => sent[r] = "late"

\* A directory with a main session gets registered, whatever listings, probes and
\* sockets failed on the way, unless the gateway refused the key or v2.ts never told
\* the hook of the session.
Refused == started /\ ~running
EntryComesUp == ToldLive ~> (registered \/ Refused \/ disposed \/ ~ToldLive)

\* "Closing either WebSocket closes that Gateway tunnel and cancels upstream
\* requests" (docs/api.md): once the tunnel is gone no request sent before its close
\* keeps running upstream.
UpstreamCancelled ==
    \A r \in Req : (tunnel = "closed" /\ sent[r] = "early") ~> (upstream[r].state # "running")
=============================================================================
