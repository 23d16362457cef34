-------------------------- MODULE InstanceRegistry --------------------------
(***************************************************************************)
(* The gateway's registry of plugin control connections                    *)
(* (apps/gateway/src/modules/control/instance-registry.ts, class           *)
(* InstanceRegistry): which plugin instance owns which project directory,  *)
(* for one user.  Records and ownership of different users never meet:     *)
(* both keys start with the user id.                                       *)
(*                                                                         *)
(* A connection is one accepted WebSocket and is never reused.  Its socket *)
(* is "open" while the plugin is behind it, "silent" when the plugin has   *)
(* abandoned it or the network has, and the gateway cannot tell, and       *)
(* "closed" when readyState is no longer OPEN, which happens before the    *)
(* close event is handled.  A handler runs to completion on the JavaScript *)
(* thread, its nested calls (disconnect, promote, send) included.          *)
(***************************************************************************)
EXTENDS Integers, FiniteSets

CONSTANTS
    Conn,           \* WebSocket connections
    Instance,       \* plugin instances, each with a stable instanceId
    Directory,      \* partition of Instance by machine and project directory (ownershipKey)
    Incompatible,   \* the instances that speak another protocol version
    Key,            \* plugin keys
    None            \* JavaScript undefined

VARIABLES
    phase,       \* of a connection, see Phase
    keyOf,       \* connection.auth
    inst,        \* connection.instanceId
    socket,      \* state of the connection's socket
    alive,       \* the live connections heard from since the last ping (connection.alive)
    records,     \* this.records
    ownership,   \* this.ownership
    nextSequence,
    revoked,     \* keys revoked in the database
    published    \* the last instance_presence frame, as <<instance, state>> pairs

rvars == <<phase, keyOf, inst, socket, alive, records, ownership, nextSequence, revoked, published>>

ASSUME RegistryAssumption ==
    /\ Directory \subseteq SUBSET Instance
    /\ \A i \in Instance : \E d \in Directory : i \in d
    /\ \A d, e \in Directory : d # e => d \cap e = {}
    /\ Incompatible \subseteq Instance
    /\ None \notin Conn \cup Instance \cup Key

-----------------------------------------------------------------------------
(* State *)

\* "verified": the upgrade's key check passed; "live": in this.connections;
\* "closing": the gateway called close() and frames already sent still arrive.
Phase == {"fresh", "verified", "live", "closing", "gone"}
Connected == {"controllable", "conflicting", "incompatible"}
Record == [state : Connected \cup {"absent", "offline"}, connection : Conn \cup {None}, sequence : Nat]
Absent == [state |-> "absent", connection |-> None, sequence |-> 0]

Live == {c \in Conn : phase[c] = "live"}
DirectoryOf(i) == CHOOSE d \in Directory : i \in d

Presence(recs, sock) ==
    {<<i, recs[i].state>> : i \in {j \in Instance : /\ recs[j].state \in Connected
                                                    /\ sock[recs[j].connection] # "closed"}}

-----------------------------------------------------------------------------
(* disconnect and promote *)

\* A defect: the record keeps its connection.
BugOffline(r) == [r EXCEPT !.state = "offline"]

Offline(r) == [r EXCEPT !.state = "offline", !.connection = None]

\* Contenders for directory d, given the records.
Contenders(d, recs) == {j \in d : recs[j].state = "conflicting" /\ recs[j].connection # None}

\* promote takes the contenders in sequence order and tells each in turn that it owns
\* d.  One that is live on a closed socket is disconnected by that, which promotes the
\* next; promotion ends with any other.  That may be one that registered late: send
\* finds its socket closed too, but disconnect returns at once for a connection that is
\* not in this.connections, so the record stays controllable, and owner.
Lasting(d, recs, sock) ==
    {j \in Contenders(d, recs) : recs[j].connection \notin Live \/ sock[recs[j].connection] # "closed"}

\* A defect: a disconnect does not promote.
BugNoHeir(d, recs, sock) == {}

\* A defect: the newest contender inherits.
BugHeir(d, recs, sock) ==
    {j \in Lasting(d, recs, sock) :
        \A k \in Lasting(d, recs, sock) : recs[j].sequence >= recs[k].sequence}

Heir(d, recs, sock) ==
    {j \in Lasting(d, recs, sock) :
        \A k \in Lasting(d, recs, sock) : recs[j].sequence <= recs[k].sequence}
PassedOver(d, recs, sock) ==
    {j \in Contenders(d, recs) :
        \A k \in Lasting(d, recs, sock) : recs[j].sequence < recs[k].sequence}

\* A defect: presence is published only when an owner leaves.
BugPublishAfter(gone, recs, sock) ==
    IF \A d \in Directory : ownership[d] \notin gone THEN published ELSE Presence(recs, sock)

\* publishSnapshot at the end of disconnect, if a record went offline.
PublishAfter(gone, recs, sock) == IF gone = {} THEN published ELSE Presence(recs, sock)

\* disconnect of the connections C, which leaves the sockets at sock: their
\* records go offline, the directories they owned pass on, presence is published.
\* After a graceful close() frames already sent still arrive.
Disconnect(C, sock, graceful) ==
    LET gone == {i \in Instance : records[i].connection \in C}
        recs == [i \in Instance |-> IF i \in gone THEN Offline(records[i]) ELSE records[i]]
        orphaned == {d \in Directory : ownership[d] \in gone}
        heirs == UNION {Heir(d, recs, sock) : d \in orphaned}
        lost == UNION {PassedOver(d, recs, sock) : d \in orphaned}
    IN  /\ records' = [i \in Instance |->
                IF i \in heirs THEN [recs[i] EXCEPT !.state = "controllable"]
                ELSE IF i \in lost THEN Offline(recs[i]) ELSE recs[i]]
        /\ ownership' = [d \in Directory |->
                IF d \notin orphaned THEN ownership[d]
                ELSE IF d \cap heirs = {} THEN None ELSE CHOOSE i \in d \cap heirs : TRUE]
        /\ phase' = [c \in Conn |->
                IF c \in {recs[i].connection : i \in lost} THEN "gone"
                ELSE IF c \notin C THEN phase[c]
                ELSE IF graceful /\ socket[c] = "open" THEN "closing" ELSE "gone"]
        /\ socket' = sock
        /\ published' = PublishAfter(gone, records', sock)
        /\ alive' = {c \in alive : phase'[c] = "live"}
        /\ UNCHANGED <<keyOf, inst, nextSequence>>

-----------------------------------------------------------------------------
(* Upgrade and registration *)

\* IngestKeyService.verify: the row is there and not revoked.  The secret is right.
ActiveKey(k) == k \notin revoked

\* preValidation: IngestKeyService.verify has read the key from the database.
Verify(c, k) ==
    /\ phase[c] = "fresh" /\ ActiveKey(k)
    /\ phase' = [phase EXCEPT ![c] = "verified"]
    /\ keyOf' = [keyOf EXCEPT ![c] = k]
    /\ UNCHANGED <<inst, socket, alive, records, ownership, nextSequence, revoked, published>>

\* add, once the upgrade is complete.
Add(c) ==
    /\ phase[c] = "verified"
    /\ phase' = [phase EXCEPT ![c] = "live"]
    /\ alive' = alive \cup {c}
    /\ UNCHANGED <<keyOf, inst, socket, records, ownership, nextSequence, revoked, published>>

\* A plugin has one socket: when it registers another it has abandoned those
\* the gateway may still hold for it.
Abandoned(i, c) == \A e \in Conn \ {c} : inst[e] = i /\ phase[e] = "live" => socket[e] # "open"

\* The records once the offline records of i's directory are pruned.
Pruned(i) ==
    [j \in Instance |-> IF j \in DirectoryOf(i) \ {i} /\ records[j].state = "offline" THEN Absent ELSE records[j]]

StateFor(i) ==
    IF i \in Incompatible THEN "incompatible"
    ELSE IF ownership[DirectoryOf(i)] \in {None, i} THEN "controllable" ELSE "conflicting"

\* register, when no other live connection is i's.  The record keeps its sequence.
Enter(c, i) ==
    LET known == records[i].state # "absent"
        state == StateFor(i)
        recs == [Pruned(i) EXCEPT ![i] =
                    [state |-> state, connection |-> c,
                     sequence |-> IF known THEN @.sequence ELSE nextSequence]]
    IN  /\ inst' = [inst EXCEPT ![c] = i]
        /\ records' = recs
        /\ ownership' = IF state = "controllable" THEN [ownership EXCEPT ![DirectoryOf(i)] = i] ELSE ownership
        /\ nextSequence' = IF known THEN nextSequence ELSE nextSequence + 1
        /\ published' = Presence(recs, socket)
    
Register(c, i) ==
    /\ phase[c] = "live" /\ socket[c] = "open" /\ inst[c] = None
    /\ Abandoned(i, c)
    /\ records[i].connection \notin Live
    /\ Enter(c, i)
    /\ alive' = alive \cup {c}
    /\ UNCHANGED <<phase, keyOf, socket, revoked>>

\* A register frame that was in flight when close() was called: the handler does
\* not look whether the connection is still one of this.connections.  Nothing will
\* disconnect this record again: see Lasting.
RegisterLate(c, i) ==
    /\ phase[c] = "closing" /\ inst[c] = None
    /\ Abandoned(i, c)
    /\ records[i].connection \notin Live
    /\ Enter(c, i)
    /\ phase' = [phase EXCEPT ![c] = "gone"]
    /\ UNCHANGED <<keyOf, socket, alive, revoked>>

\* The process ends: every in-memory structure is gone, every socket is closed.
ProcessEnds ==
    /\ phase' = [c \in Conn |-> IF phase[c] = "fresh" THEN "fresh" ELSE "gone"]
    /\ socket' = [c \in Conn |-> IF phase[c] = "fresh" THEN socket[c] ELSE "closed"]
    /\ records' = [i \in Instance |-> Absent]
    /\ ownership' = [d \in Directory |-> None]
    /\ nextSequence' = 0
    /\ published' = {}
    /\ alive' = {}
    /\ UNCHANGED <<keyOf, inst, revoked>>

\* register, when i is registered on another connection: disconnect clears the
\* very field the next statement reads (existing.connection.socket), and the
\* TypeError leaves the message handler uncaught, which ends the process.
RegisterReplacing(c, i) ==
    /\ phase[c] \in {"live", "closing"} /\ inst[c] = None
    /\ phase[c] = "live" => socket[c] = "open"
    /\ Abandoned(i, c)
    /\ records[i].connection \in Live
    /\ ProcessEnds

\* The register frame of a live connection.
RegisterFrame(c, i) == Register(c, i) \/ RegisterReplacing(c, i)

\* A second register frame or an invalid frame.  A plugin registers first.
BadFrame(c) ==
    /\ phase[c] = "live" /\ socket[c] = "open" /\ inst[c] # None
    /\ Disconnect({c}, [socket EXCEPT ![c] = "closed"], TRUE)
    /\ UNCHANGED revoked

-----------------------------------------------------------------------------
(* The connection's end *)

\* The network or the plugin abandons the socket, or it starts closing.
SocketFails(c, how) ==
    /\ phase[c] = "live" /\ socket[c] # "closed" /\ socket[c] # how
    /\ socket' = [socket EXCEPT ![c] = how]
    /\ UNCHANGED <<phase, keyOf, inst, alive, records, ownership, nextSequence, revoked, published>>

\* The close or error event, or a failed send.
CloseEvent(c) ==
    /\ phase[c] = "live" /\ socket[c] = "closed"
    /\ Disconnect({c}, socket, FALSE)
    /\ UNCHANGED revoked

\* A defect: an unanswered ping is not noticed.
BugHeartbeatDrops(c) ==
    /\ phase[c] = "live" /\ socket[c] = "closed"
    /\ Disconnect({c}, socket, FALSE)
    /\ UNCHANGED revoked

\* The heartbeat interval.
HeartbeatDrops(c) ==
    /\ phase[c] = "live"
    /\ socket[c] = "closed" \/ c \notin alive
    /\ Disconnect({c}, [socket EXCEPT ![c] = "closed"], FALSE)
    /\ UNCHANGED revoked

HeartbeatPings(c) ==
    /\ phase[c] = "live" /\ socket[c] # "closed" /\ c \in alive
    /\ alive' = alive \ {c}
    /\ UNCHANGED <<phase, keyOf, inst, socket, records, ownership, nextSequence, revoked, published>>

\* pong, ping or any message.
MarkAlive(c) ==
    /\ phase[c] = "live" /\ socket[c] = "open" /\ c \notin alive
    /\ alive' = alive \cup {c}
    /\ UNCHANGED <<phase, keyOf, inst, socket, records, ownership, nextSequence, revoked, published>>

-----------------------------------------------------------------------------
(* Management *)

\* DELETE /v1/instances/:id
ForgetOffline(i) ==
    /\ records[i].state = "offline" /\ records[i].connection = None
    /\ records' = [records EXCEPT ![i] = Absent]
    /\ published' = Presence(records', socket)
    /\ UNCHANGED <<phase, keyOf, inst, socket, alive, ownership, nextSequence, revoked>>

\* The repository's revoke: an active row gets its revokedAt.
Revoke(k) ==
    /\ ActiveKey(k)
    /\ revoked' = revoked \cup {k}

\* revokeKey disconnects the key's connections one after the other.  What one
\* promotes on the same key the next disconnects, so the directories pass to
\* contenders on other keys.
RevokeKey(k) ==
    LET C == {c \in Live : keyOf[c] = k}
    IN  Disconnect(C, [c \in Conn |-> IF c \in C THEN "closed" ELSE socket[c]], TRUE)

\* DELETE /v1/ingest-keys/:id: the row is revoked, then the connections go.
DeleteKey(k) == Revoke(k) /\ RevokeKey(k)

\* closeAll and a new process.
Restart ==
    /\ Live # {}
    /\ ProcessEnds

-----------------------------------------------------------------------------
RegistryInit ==
    /\ phase = [c \in Conn |-> "fresh"]
    /\ keyOf = [c \in Conn |-> None]
    /\ inst = [c \in Conn |-> None]
    /\ socket = [c \in Conn |-> "open"]
    /\ alive = {}
    /\ records = [i \in Instance |-> Absent]
    /\ ownership = [d \in Directory |-> None]
    /\ nextSequence = 0
    /\ revoked = {}
    /\ published = {}

RegistryNext ==
    \/ \E c \in Conn :
        \/ \E k \in Key : Verify(c, k)
        \/ Add(c)
        \/ \E i \in Instance : RegisterFrame(c, i) \/ RegisterLate(c, i)
        \/ BadFrame(c)
        \/ \E how \in {"silent", "closed"} : SocketFails(c, how)
        \/ CloseEvent(c)
        \/ HeartbeatDrops(c)
        \/ HeartbeatPings(c)
        \/ MarkAlive(c)
    \/ \E i \in Instance : ForgetOffline(i)
    \/ \E k \in Key : DeleteKey(k)
    \/ Restart

RegistrySpec == RegistryInit /\ [][RegistryNext]_rvars

\* The heartbeat interval keeps firing.  Nothing else is owed: the close event
\* of a dead peer may never come, and neither may any frame.
Heartbeats == \A c \in Conn : WF_rvars(HeartbeatDrops(c) \/ HeartbeatPings(c))

-----------------------------------------------------------------------------
(* Properties *)

\* Types, and the links between connections and records: a live registered
\* connection is its record's, a connected record's connection is live, unless
\* it registered late on a revoked key, and sequences tell records apart.
RegistryTypeOK ==
    /\ phase \in [Conn -> Phase]
    /\ socket \in [Conn -> {"open", "silent", "closed"}]
    /\ records \in [Instance -> Record]
    /\ ownership \in [Directory -> Instance \cup {None}]
    /\ \A c \in Live : inst[c] # None => records[inst[c]].connection = c
    /\ \A i \in Instance :
        LET c == records[i].connection
        IN  /\ records[i].state \in Connected <=> c # None
            /\ c # None => inst[c] = i /\ (c \in Live \/ keyOf[c] \in revoked)
    /\ \A i, j \in Instance :
        i # j /\ records[i].state # "absent" /\ records[j].state # "absent"
            => records[i].sequence # records[j].sequence

\* A directory has one controllable instance at most, which is its recorded
\* owner, and nobody is held back as conflicting in a directory without one:
\* whatever sequence of failures promote ran through.
OneOwnerPerDirectory ==
    \A i \in Instance :
        LET owner == ownership[DirectoryOf(i)]
        IN  /\ records[i].state = "controllable" <=> owner = i
            /\ records[i].state = "conflicting" => owner \notin {None, i}

\* The first registration wins: a directory changes hands only when its owner's
\* connection is gone (or the process is), and then passes to the contender that
\* registered first, of those that are still contenders afterwards.  The heir need not
\* be reachable: see Lasting.
OwnershipPasses ==
    [][\A d \in Directory :
        ownership[d] # None /\ ownership'[d] # ownership[d] =>
            /\ records'[ownership[d]].connection = None
            /\ \A i, j \in d :
                (/\ ownership'[d] = i
                 /\ records[j].state = "conflicting" /\ records'[j].state = "conflicting")
                    => records[i].sequence < records[j].sequence]_rvars

\* The presence last published is the current one: every reachable connected
\* instance is in it, with its state, and no instance with a state it has left.
PresenceCurrent ==
    /\ Presence(records, socket) \subseteq published
    /\ \A p \in published : records[p[1]].state = p[2]

\* An owner whose socket is dead, even silently, loses the directory, to whichever
\* contender; unless its connection had already left this.connections when it
\* registered.  Such an owner is dead from the start and keeps the directory, and the
\* live contenders out of it, until its instance registers again or the process ends.
RegisteredLate(i) == records[i].connection \notin Live

DeadOwnersYield ==
    \A d \in Directory :
        []<>(\A i \in d : ownership[d] = i => RegisteredLate(i) \/ socket[records[i].connection] = "open")

\* docs/api.md: "a later reconnect or OpenCode restart makes it appear again":
\* a register frame on a live connection puts its instance in the presence.
ReconnectAppears ==
    [][\A c \in Conn, i \in Instance : RegisterFrame(c, i) => \E p \in published' : p[1] = i]_rvars

\* docs/adr/0002: "revoking the key can immediately disable both capabilities":
\* no instance is controllable, over a connection that can still carry commands,
\* through a revoked key.
RevocationDisables ==
    \A i \in Instance :
        records[i].state = "controllable" /\ socket[records[i].connection] = "open"
            => keyOf[records[i].connection] \notin revoked
=============================================================================
