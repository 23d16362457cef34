--------------------------- MODULE ControlChannel ---------------------------
(***************************************************************************)
(* The plugin's outbound control channel and the Web UI tunnel it carries: *)
(* ControlChannel (packages/plugin/src/control-channel.ts), the gateway's  *)
(* side of a tunnel (apps/gateway/src/modules/control/                     *)
(* instance-registry.ts, addWebUiClient and receiveWebUiRequest) and the   *)
(* client that holds it (apps/client/lib/sessions/webui_tunnel.dart).      *)
(*                                                                         *)
(* connect() probes the OpenCode version before it opens a socket, with    *)
(* awaits in between: a probe that outlives the generation it started in   *)
(* must open nothing.  A socket the plugin has closed may still deliver    *)
(* its close event.  Frames to the plugin keep their order and are lost    *)
(* with the socket.  Upstream requests of the Web UI (SSE streams) may run *)
(* for ever unless they are aborted.                                       *)
(*                                                                         *)
(* Who calls start() and stop() is in RemoteEntry.                         *)
(***************************************************************************)
EXTENDS Naturals, Sequences, FiniteSets, FiniteSetsExt

CONSTANTS
    Req,        \* the HTTP requests a browser makes through the tunnel
    MaxStale    \* bound on the outlived probes and closed sockets that are told apart

VARIABLES
    running,      \* ControlChannel.running
    probes,       \* connect() calls in their probe: of this generation, of earlier ones
    version,      \* openCodeVersion: "none", "known" or "unknown"
    socket,       \* this.socket: "none", "connecting" or "open"
    alive,        \* sockets that neither side has closed
    closing,      \* sockets the plugin closed whose close event is still to come
    registered,   \* ControlChannel.registered
    timer,        \* the reconnect timer is armed
    budget,       \* what is left of the execution's bounds
    client,       \* the tunnel's client: "absent", "open", "closing" (close frame sent), "gone"
    tunnel,       \* the gateway's WebUiTunnel: "none", "open", "closed"
    link,         \* the control connection of the tunnel is still up
    pending,      \* tunnel.pendingRequests
    down,         \* Web UI frames on their way to the plugin
    upstream,     \* the plugin's webUiRequest calls: state, and the abort map each is in
    webUiAborts,  \* the abort map registered for the tunnel, 0 for none
    sent          \* history: requests the client sent before ("early") or after ("late") its close frame

socketVars == <<probes, version, socket, alive, closing, registered, timer, budget>>
tunnelVars == <<client, tunnel, link, pending, down, upstream, webUiAborts, sent>>
cvars == <<running, socketVars, tunnelVars>>

ASSUME ChannelAssumption == MaxStale \in Nat \ {0} /\ IsFiniteSet(Req)

\* The faults, tunnels and host events one execution may see.
Budget == [faults : Nat, tunnels : Nat, events : Nat]

Spend(what) == budget[what] > 0 /\ budget' = [budget EXCEPT ![what] = @ - 1]


-----------------------------------------------------------------------------
(* Closing tunnels *)

Active == {r \in Req : upstream[r].state \in {"running", "aborted"}}

\* The plugin's closeWebUiTunnel: the registered map goes, all it holds is aborted.
CloseTunnels ==
    /\ upstream' = [r \in Req |->
            IF webUiAborts # 0 /\ upstream[r].map = webUiAborts /\ upstream[r].state = "running"
            THEN [upstream[r] EXCEPT !.state = "aborted"]
            ELSE upstream[r]]
    /\ webUiAborts' = 0

\* The gateway's disconnect: the tunnels of the connection go with it, frames are lost.
Disconnect ==
    /\ tunnel' = IF link THEN "closed" ELSE tunnel
    /\ link' = FALSE
    /\ down' = <<>>

-----------------------------------------------------------------------------
(* start, connect, stop, drop *)

OpensSocket ==
    /\ socket' = "connecting"
    /\ alive' = alive + 1
    /\ registered' = FALSE
    /\ timer' = FALSE
    /\ UNCHANGED budget

\* The socket factory throws: scheduleReconnect.
FactoryFails ==
    /\ Spend("faults")
    /\ timer' = TRUE
    /\ UNCHANGED <<socket, alive, registered>>

\* connect() once the version is settled.
Dial == OpensSocket \/ FactoryFails

\* connect() from its start: an existing socket ends it, a known version needs no
\* probe, and any other version is probed again.
Connect ==
    \/ /\ socket # "none"
       /\ timer' = FALSE
       /\ UNCHANGED <<probes, version, socket, alive, registered, budget>>
    \/ /\ socket = "none" /\ version = "known"
       /\ Dial
       /\ UNCHANGED <<probes, version>>
    \/ /\ socket = "none" /\ version # "known"
       /\ version' = "none"
       /\ probes' = [probes EXCEPT !.fresh = @ + 1]
       /\ timer' = FALSE
       /\ UNCHANGED <<socket, alive, registered, budget>>

Start ==
    /\ running' = TRUE
    /\ \/ running /\ UNCHANGED socketVars
       \/ ~running /\ Connect /\ UNCHANGED closing
    /\ UNCHANGED tunnelVars

\* The plugin closes its socket, if it has one; a close event will follow.
Closes ==
    /\ socket' = "none"
    /\ registered' = FALSE
    /\ alive' = IF socket = "none" THEN alive ELSE alive - 1
    /\ closing' = IF socket = "none" THEN closing ELSE Min({closing + 1, MaxStale})

Stop ==
    /\ running' = FALSE
    /\ probes' = [fresh |-> 0, stale |-> Min({probes.stale + probes.fresh, MaxStale})]
    /\ timer' = FALSE
    /\ Closes
    /\ CloseTunnels
    /\ Disconnect
    /\ UNCHANGED <<version, client, pending, sent>>

\* drop: the socket goes, its tunnels too, and the reconnect timer is armed.
Drop ==
    /\ Closes
    /\ CloseTunnels
    /\ Disconnect
    /\ timer' = running
    /\ UNCHANGED <<running, probes, version, client, pending, sent>>

-----------------------------------------------------------------------------
(* The channel's callbacks *)

\* A defect: the probe does not look at its generation when it returns.
BugProbeSettles(of, found) ==
    /\ probes[of] > 0
    /\ probes' = [probes EXCEPT ![of] = @ - 1]
    /\ version' = found
    /\ Dial
    /\ UNCHANGED <<running, closing, tunnelVars>>

\* The version probe succeeds, or its deadline passes and the version is unknown.
\* A probe of an earlier generation opens nothing and leaves the version alone.
ProbeSettles(of, found) ==
    /\ probes[of] > 0
    /\ probes' = [probes EXCEPT ![of] = @ - 1]
    /\ IF of = "fresh" /\ running /\ socket = "none"
       THEN version' = found /\ Dial
       ELSE UNCHANGED <<version, socket, alive, registered, timer, budget>>
    /\ UNCHANGED <<running, closing, tunnelVars>>

SocketOpens ==
    /\ socket = "connecting"
    /\ socket' = "open"
    /\ UNCHANGED <<running, probes, version, alive, closing, registered, timer, budget, tunnelVars>>

\* The gateway's answer to the register frame.
Registration ==
    /\ socket = "open" /\ ~registered
    /\ registered' = TRUE
    /\ UNCHANGED <<running, probes, version, socket, alive, closing, timer, budget, tunnelVars>>

\* The peer closes the socket, or it fails: drop() and its reconnect timer.
SocketCloses ==
    /\ socket # "none" /\ Spend("faults")
    /\ Drop

\* Close code 4403, a revoked key: the channel stops for good.
KeyRefused ==
    /\ socket # "none" /\ Spend("faults")
    /\ Stop

\* A defect: the close event of an earlier socket drops the current one's reference.
BugOldSocketCloses ==
    /\ closing > 0
    /\ closing' = closing - 1
    /\ socket' = "none"
    /\ registered' = FALSE
    /\ timer' = running
    /\ CloseTunnels
    /\ Disconnect
    /\ UNCHANGED <<running, probes, version, alive, budget, client, pending, sent>>

\* The close event of a socket the plugin closed itself: not the current one.
OldSocketCloses ==
    /\ closing > 0
    /\ closing' = closing - 1
    /\ UNCHANGED <<running, probes, version, socket, alive, registered, timer, budget, tunnelVars>>

\* A socket registered with an unknown version is dropped after a minute, to probe again.
UnknownRetry ==
    /\ socket # "none" /\ version = "unknown"
    /\ Drop
    /\ UNCHANGED budget

\* A defect: the timer's callback does not connect.
BugReconnect ==
    /\ timer
    /\ timer' = FALSE
    /\ UNCHANGED <<running, probes, version, socket, alive, closing, registered, budget, tunnelVars>>

Reconnect ==
    /\ timer
    /\ Connect
    /\ UNCHANGED <<running, closing, tunnelVars>>

-----------------------------------------------------------------------------
(* The client and the gateway *)

Frame(kind, r) == [kind |-> kind, req |-> r]
Forward(frame) == down' = IF link THEN Append(down, frame) ELSE down

\* webui_tunnel_open of a controllable instance.
ClientOpens ==
    /\ client = "absent" /\ registered /\ Spend("tunnels")
    /\ client' = "open" /\ tunnel' = "open" /\ link' = TRUE
    /\ UNCHANGED <<running, probes, version, socket, alive, closing, registered, timer,
                   pending, down, upstream, webUiAborts, sent>>

\* receiveWebUiRequest: the gateway does not ask whether the tunnel still exists.
\* The client may have awaited a request's body while it closed, and sends it then.
ClientSends(r) ==
    /\ client \in {"open", "closing"} /\ sent[r] = "no"
    /\ sent' = [sent EXCEPT ![r] = IF client = "open" THEN "early" ELSE "late"]
    /\ pending' = pending \cup {r}
    /\ Forward(Frame("request", r))
    /\ UNCHANGED <<running, socketVars, client, tunnel, link, upstream, webUiAborts>>

\* The browser went away: webui_http_cancel.
ClientCancels(r) ==
    /\ client = "open" /\ r \in pending
    /\ pending' = pending \ {r}
    /\ Forward(Frame("cancel", r))
    /\ UNCHANGED <<running, socketVars, client, tunnel, link, upstream, webUiAborts, sent>>

\* The gateway's closeWebUiTunnel.
CloseWebUiTunnel ==
    /\ tunnel' = IF tunnel = "open" THEN "closed" ELSE tunnel
    /\ down' = IF tunnel = "open" /\ link THEN Append(down, [kind |-> "close"]) ELSE down

\* The client's close() sends webui_tunnel_close before it closes its socket.
ClientCloses ==
    /\ client = "open"
    /\ client' = "closing"
    /\ CloseWebUiTunnel
    /\ UNCHANGED <<running, socketVars, link, pending, upstream, webUiAborts, sent>>

\* The client's socket closes, expires or fails its heartbeat.
ClientGone ==
    /\ client \in {"open", "closing"}
    /\ client' = "gone"
    /\ CloseWebUiTunnel
    /\ UNCHANGED <<running, socketVars, link, pending, upstream, webUiAborts, sent>>

-----------------------------------------------------------------------------
(* The plugin's side of the tunnel *)

NewMap == 1 + Max({upstream[r].map : r \in Req} \cup {0})

\* A defect: every request registers a map of its own.
BugWebUiRequest(r) ==
    /\ upstream' = [upstream EXCEPT ![r] = [state |-> "running", map |-> NewMap]]
    /\ webUiAborts' = NewMap

\* webUiRequest up to its await: the request joins the tunnel's abort map.
WebUiRequest(r) ==
    LET map == IF webUiAborts = 0 THEN NewMap ELSE webUiAborts
    IN  /\ upstream' = [upstream EXCEPT ![r] = [state |-> "running", map |-> map]]
        /\ webUiAborts' = map

\* webui_http_cancel: a request that is not in the registered map is left alone.
CancelRequest(r) ==
    /\ upstream' = IF r \in Active /\ upstream[r].map = webUiAborts
                   THEN [upstream EXCEPT ![r].state = "aborted"] ELSE upstream
    /\ UNCHANGED webUiAborts

\* onServerFrame, for the Web UI frames.
PluginReceives ==
    /\ down # <<>>
    /\ LET frame == Head(down)
       IN  \/ frame.kind = "request" /\ WebUiRequest(frame.req)
           \/ frame.kind = "cancel" /\ CancelRequest(frame.req)
           \/ frame.kind = "close" /\ CloseTunnels
    /\ down' = Tail(down)
    /\ UNCHANGED <<running, socketVars, client, tunnel, link, pending, sent>>

\* handleWebUiResponse: a frame of an unknown request is dropped, and a client too
\* far behind loses its tunnel.
HandleWebUiResponse(r, last) ==
    \/ /\ pending' = IF last /\ link /\ tunnel = "open" THEN pending \ {r} ELSE pending
       /\ UNCHANGED <<client, tunnel, down>>
    \/ /\ link /\ tunnel = "open" /\ r \in pending
       /\ pending' = IF last THEN pending \ {r} ELSE pending
       /\ client' = "gone"
       /\ CloseWebUiTunnel

\* WebUiProxy.request: OpenCode has answered, and the start of the response or a
\* chunk of its body is on its way.
ResponseFrame(r) ==
    /\ upstream[r].state = "running"
    /\ HandleWebUiResponse(r, FALSE)
    /\ UNCHANGED <<running, socketVars, link, upstream, webUiAborts, sent>>

\* webUiRequest from its await on: the response, or the 502 of a failure, ends the
\* gateway's correlation, and the finally deletes the tunnel's map when the map the
\* request was in is empty, whichever map that is.
RequestEnds(r) ==
    LET others == {o \in Active \ {r} : upstream[o].map = upstream[r].map}
    IN  /\ r \in Active
        /\ upstream' = [upstream EXCEPT ![r].state = "done"]
        /\ webUiAborts' = IF others = {} THEN 0 ELSE webUiAborts
        /\ HandleWebUiResponse(r, TRUE)
        /\ UNCHANGED <<running, socketVars, link, sent>>

-----------------------------------------------------------------------------
ChannelInit ==
    /\ running = FALSE
    /\ probes = [fresh |-> 0, stale |-> 0]
    /\ version = "none"
    /\ socket = "none" /\ alive = 0 /\ closing = 0 /\ registered = FALSE
    /\ timer = FALSE
    /\ client = "absent" /\ tunnel = "none" /\ link = FALSE /\ pending = {} /\ down = <<>>
    /\ upstream = [r \in Req |-> [state |-> "none", map |-> 0]]
    /\ webUiAborts = 0
    /\ sent = [r \in Req |-> "no"]

ProbeStep == \E of \in {"fresh", "stale"}, found \in {"known", "unknown"} : ProbeSettles(of, found)

ChannelStep ==
    \/ ProbeStep
    \/ SocketOpens \/ Registration \/ SocketCloses \/ KeyRefused \/ OldSocketCloses
    \/ UnknownRetry \/ Reconnect

TunnelStep ==
    \/ ClientOpens \/ ClientCloses \/ ClientGone
    \/ \E r \in Req : ClientSends(r) \/ ClientCancels(r) \/ ResponseFrame(r) \/ RequestEnds(r)
    \/ PluginReceives
=============================================================================
