--------------------------- MODULE SessionControl ---------------------------
(***************************************************************************)
(* The two other services of the control connection, composed with the     *)
(* remote unblock loop of InteractionCommands: prompts that start a turn   *)
(* of a session, and the catalogue of the directory's sessions.  Gateway:  *)
(* instance-registry.ts (sendSessionPrompt, collectSessions) behind        *)
(* session-control.routes.ts; plugin: control-channel.ts with              *)
(* session-prompt-adapter.ts and session-catalog.ts.                       *)
(*                                                                         *)
(* All services share the connection and its frames.  A session is         *)
(* listable while it is a root session of the directory and not archived;  *)
(* an unlisted one exists but is archived, and OpenCode's listing still    *)
(* returns it.  Search terms, titles and statuses are left out.            *)
(***************************************************************************)
EXTENDS InteractionCommands

CONSTANTS
    Session,      \* the sessions OpenCode may have in the directory
    Limit,        \* the page size of the catalogue
    MaxBookmarks  \* how many bookmarked sessions a catalogue looks at: 50

VARIABLES
    prompts,      \* gateway: pendingPromptCommands
    promptCalls,  \* plugin: prompt requests OpenCode has not answered
    catalogs,     \* gateway: catalogRequests, as <<connection, request>>
    listings,     \* plugin: answerCatalog calls in progress
    sessions,     \* OpenCode: "none", "listable" or "archived"
    asked,        \* history: per catalogue request the bookmarks asked for, the
                  \* sessions listable at some time since and those listable throughout
    answered      \* what each catalogue request returned

promptVars == <<prompts, promptCalls>>
catalogVars == <<catalogs, listings, sessions, asked, answered>>
cvars == <<ivars, promptVars, catalogVars>>

ASSUME ControlAssumption == Limit \in Nat \ {0} /\ MaxBookmarks \in Nat

\* What the unblock loop keeps and no action below touches.
restVars == <<conn, projected, stale, queries, commands, outcomes, plug, collection, calls, openCodeVars, sent>>

-----------------------------------------------------------------------------
(* Prompts *)

\* How the route answers a prompt: the client's command id may be a repeat, which
\* is refused while the connection still waits for the first one's result.
PromptStatus(c) ==
    IF conn = None THEN 404 ELSE IF <<conn, c>> \in prompts THEN 409 ELSE 202

\* sendSessionPrompt.
SendPrompt(c) ==
    /\ left.prompts > 0 /\ PromptStatus(c) = 202
    /\ left' = [left EXCEPT !.prompts = @ - 1]
    /\ prompts' = prompts \cup {<<conn, c>>}
    /\ toPlugin' = Append(toPlugin, [type |-> "prompt", cmd |-> c, copy |-> left.prompts])
    /\ UNCHANGED <<restVars, toGateway, promptCalls, catalogVars>>

PromptTimesOut ==
    /\ \E x \in prompts : prompts' = prompts \ {x}
    /\ UNCHANGED <<ivars, promptCalls, catalogVars>>

\* handleSessionPromptResult: the status is not kept.
PromptResult ==
    /\ conn # None /\ toGateway # <<>> /\ Head(toGateway).type = "prompt"
    /\ prompts' = prompts \ {<<conn, Head(toGateway).cmd>>}
    /\ toGateway' = Tail(toGateway)
    /\ UNCHANGED <<restVars, toPlugin, left, promptCalls, catalogVars>>

\* onServerFrame, promptCommand: the prompt is sent to OpenCode.
PromptCommand ==
    /\ plug # None /\ toPlugin # <<>> /\ Head(toPlugin).type = "prompt"
    /\ promptCalls' = promptCalls \cup
            {[conn |-> plug, cmd |-> Head(toPlugin).cmd, copy |-> Head(toPlugin).copy, live |-> TRUE]}
    /\ toPlugin' = Tail(toPlugin)
    /\ UNCHANGED <<restVars, toGateway, left, prompts, catalogVars>>

\* runPrompt ends for the plugin; the result is sent if the socket is the same.
PromptEnds(x) ==
    IF x.live THEN Reply(x.conn, <<[type |-> "prompt", cmd |-> x.cmd]>>) ELSE UNCHANGED toGateway

\* The plugin's timeout aborts the request, which may have reached OpenCode.
PromptCallTimesOut(x) ==
    /\ x.live
    /\ PromptEnds(x)
    /\ promptCalls' = (promptCalls \ {x}) \cup {[x EXCEPT !.live = FALSE]}
    /\ UNCHANGED <<restVars, toPlugin, left, prompts, catalogVars>>

\* OpenCode answers the request, or it fails.  What the status says goes no
\* further than the gateway.
PromptAnswered(x) ==
    /\ promptCalls' = promptCalls \ {x}
    /\ PromptEnds(x)
    /\ UNCHANGED <<restVars, toPlugin, left, prompts, catalogVars>>

-----------------------------------------------------------------------------
(* The session catalogue: gateway *)

\* collectSessions, for the first page and some bookmarked sessions.
CollectSessions(bookmarks) ==
    /\ conn # None /\ left.catalogs > 0
    /\ left' = [left EXCEPT !.catalogs = @ - 1]
    /\ catalogs' = catalogs \cup {<<conn, left.catalogs>>}
    /\ toPlugin' = Append(toPlugin, [type |-> "catalog", request |-> left.catalogs, ids |-> bookmarks])
    /\ LET listable == {s \in Session : sessions[s] = "listable"}
       IN  asked' = [asked EXCEPT ![left.catalogs] =
                        [bookmarks |-> bookmarks, since |-> listable, throughout |-> listable]]
    /\ UNCHANGED <<restVars, toGateway, promptVars, listings, sessions, answered>>

Return(requests, result) ==
    answered' = [k \in DOMAIN answered |-> IF k \in requests THEN result ELSE answered[k]]

Failed(status) == [status |-> status, found |-> {}]

CatalogTimesOut ==
    /\ \E q \in catalogs : catalogs' = catalogs \ {q} /\ Return({q[2]}, Failed("timeout"))
    /\ UNCHANGED <<ivars, promptVars, listings, sessions, asked>>

\* A defect: the response goes to whatever request the connection waits for.
BugAwaited(frame) == {q \in catalogs : q[1] = conn}

\* The request a response is of; a late or foreign one has none.
Awaited(frame) == {q \in catalogs : q = <<conn, frame.request>>}

\* receive, session_catalog_response
CatalogResponse ==
    /\ conn # None /\ toGateway # <<>> /\ Head(toGateway).type = "catalog"
    /\ LET frame == Head(toGateway)
       IN  /\ catalogs' = catalogs \ Awaited(frame)
           /\ Return({q[2] : q \in Awaited(frame)}, [status |-> frame.status, found |-> frame.found])
    /\ toGateway' = Tail(toGateway)
    /\ UNCHANGED <<restVars, toPlugin, left, promptVars, listings, sessions, asked>>

\* disconnect: prompts are forgotten and catalogue requests answer not_found.
ConnectionLost ==
    /\ LoseConnection
    /\ prompts' = {x \in prompts : x[1] # conn}
    /\ catalogs' = {q \in catalogs : q[1] # conn}
    /\ Return({q[2] : q \in catalogs \ catalogs'}, Failed("not_found"))
    /\ UNCHANGED <<promptCalls, listings, sessions, asked>>

-----------------------------------------------------------------------------
(* The session catalogue: plugin *)

\* The bookmarks that are looked at, on the page or not: the first ones asked for.
Kept(ids) ==
    {kept \in SUBSET ids : IF Cardinality(ids) <= MaxBookmarks THEN kept = ids ELSE Cardinality(kept) = MaxBookmarks}

\* onServerFrame, answerCatalog: a listing of its own for each request.
AnswerCatalog ==
    /\ plug # None /\ toPlugin # <<>> /\ Head(toPlugin).type = "catalog"
    /\ \E kept \in Kept(Head(toPlugin).ids) :
         listings' = listings \cup {[conn |-> plug, request |-> Head(toPlugin).request,
                                    listed |-> FALSE, found |-> {}, ids |-> kept]}
    /\ toPlugin' = Tail(toPlugin)
    /\ UNCHANGED <<restVars, toGateway, left, promptVars, catalogs, sessions, asked, answered>>

Replaced(x, y) == listings' = (listings \ {x}) \cup {y}

\* SessionCatalogAdapter.list: the page, of which the listable sessions are kept.
ListPage(x, page) ==
    LET existing == {s \in Session : sessions[s] # "none"}
        found == {s \in page : sessions[s] = "listable"}
    IN  /\ ~x.listed
        /\ page \subseteq existing /\ Cardinality(page) = Min({Limit, Cardinality(existing)})
        /\ Replaced(x, [x EXCEPT !.listed = TRUE, !.found = found, !.ids = @ \ found])
        /\ UNCHANGED <<ivars, promptVars, catalogs, sessions, asked, answered>>

\* A bookmarked session that was not on the page is looked up on its own.
LookUp(x, s) ==
    /\ x.listed /\ s \in x.ids
    /\ Replaced(x, [x EXCEPT !.ids = @ \ {s}, !.found = IF sessions[s] = "listable" THEN @ \cup {s} ELSE @])
    /\ UNCHANGED <<ivars, promptVars, catalogs, sessions, asked, answered>>

\* The listing is complete, or it failed or ran into its deadline.
ListingEnds(x, status) ==
    /\ status = "ready" => x.listed /\ x.ids = {}
    /\ listings' = listings \ {x}
    /\ Reply(x.conn, <<[type |-> "catalog", request |-> x.request, status |-> status,
                        found |-> IF status = "ready" THEN x.found ELSE {}]>>)
    /\ UNCHANGED <<restVars, toPlugin, left, promptVars, catalogs, sessions, asked, answered>>

\* OpenCode: a session is created, archived, brought back or deleted.
SessionChanges(s, state) ==
    /\ left.changes > 0 /\ sessions[s] # state
    /\ left' = [left EXCEPT !.changes = @ - 1]
    /\ sessions' = [sessions EXCEPT ![s] = state]
    /\ asked' = [k \in DOMAIN asked |->
            IF \A q \in catalogs : q[2] # k THEN asked[k]
            ELSE IF state = "listable" THEN [asked[k] EXCEPT !.since = @ \cup {s}]
            ELSE [asked[k] EXCEPT !.throughout = @ \ {s}]]
    /\ UNCHANGED <<restVars, toPlugin, toGateway, promptVars, catalogs, listings, answered>>

-----------------------------------------------------------------------------
MaxPrompts == Max({b.prompts : b \in Budgets})
MaxCatalogs == Max({b.catalogs : b \in Budgets})

ControlInit ==
    /\ InteractionInit
    /\ prompts = {} /\ promptCalls = {}
    /\ catalogs = {} /\ listings = {}
    /\ sessions \in [Session -> {"none", "listable", "archived"}]
    /\ left.catalogs = 0 => \A s \in Session : sessions[s] = "none"
    /\ asked = [k \in 1..MaxCatalogs |-> [bookmarks |-> {}, since |-> {}, throughout |-> {}]]
    /\ answered = [k \in 1..MaxCatalogs |-> Failed("none")]

PromptStep ==
    \/ \E c \in 1..MaxPrompts : SendPrompt(c)
    \/ PromptTimesOut \/ PromptResult \/ PromptCommand
    \/ \E x \in promptCalls : PromptCallTimesOut(x) \/ PromptAnswered(x)

CatalogStep ==
    \/ \E bookmarks \in SUBSET Session : CollectSessions(bookmarks)
    \/ CatalogTimesOut \/ CatalogResponse \/ AnswerCatalog
    \/ \E x \in listings :
        \/ \E page \in SUBSET Session : ListPage(x, page)
        \/ \E s \in Session : LookUp(x, s)
        \/ \E status \in {"ready", "error"} : ListingEnds(x, status)
    \/ \E s \in Session, state \in {"none", "listable", "archived"} : SessionChanges(s, state)

ControlNext ==
    \/ ConnectionLost
    \/ InteractionStep /\ UNCHANGED <<promptVars, catalogVars>>
    \/ PromptStep
    \/ CatalogStep

\* Only the gateway's own timers are owed; the plugin and OpenCode may be silent.
ControlSpec ==
    /\ ControlInit /\ [][ControlNext]_cvars
    /\ WF_cvars(QueryTimesOut /\ UNCHANGED <<promptVars, catalogVars>>)
    /\ WF_cvars(CommandTimesOut /\ UNCHANGED <<promptVars, catalogVars>>)
    /\ WF_cvars(PromptTimesOut)
    /\ WF_cvars(CatalogTimesOut)

-----------------------------------------------------------------------------
(* Properties *)

\* Whatever the gateway waits for ends, by its own timers alone: the snapshot
\* query and the catalogue request return, the accepted command settles and the
\* prompt's entry goes, though the plugin may never answer and may reconnect.
RequestsEnd ==
    /\ []<>(queries = {}) /\ []<>(catalogs = {}) /\ []<>(prompts = {})
    /\ []<>(\A k \in DOMAIN outcomes : outcomes[k].status # "accepted")

\* A catalogue that is returned shows what the directory had while it was asked
\* for: every session in it was listable at some time since the request, and every
\* bookmarked one that was listable throughout is in it, unless more were asked for
\* than are looked at, though sessions come, go and are archived between the page and
\* the lookups, and although an answer may be another connection's or request's.
CatalogTruthful ==
    \A k \in DOMAIN answered :
        answered[k].status = "ready" =>
            /\ answered[k].found \subseteq asked[k].since
            /\ Cardinality(asked[k].bookmarks) <= MaxBookmarks =>
                 asked[k].bookmarks \cap asked[k].throughout \subseteq answered[k].found
=============================================================================
