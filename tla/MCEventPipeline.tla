--------------------------- MODULE MCEventPipeline ---------------------------
(***************************************************************************)
(* Instance of EventPipeline for TLC: what OpenCode does in each workload, *)
(* as raw events.                                                          *)
(***************************************************************************)
EXTENDS EventPipeline

Raw(type, properties) == [type |-> type, properties |-> properties]

StatusIs(s, type) == Raw("session.status", [sessionID |-> s, status |-> [type |-> type, attempt |-> 1, next |-> 1]])

RetryFor(s, p) ==
    Raw("session.status", [sessionID |-> s, status |->
        [type |-> "retry", attempt |-> 1, next |-> 1,
         action |-> [provider |-> p, title |-> "title", message |-> "message", label |-> "label"]]])

Error(s, name) == Raw("session.error", [sessionID |-> s, error |-> name])

Asked(s, r) ==
    {Raw("question.asked", [sessionID |-> s, id |-> r, questions |-> <<[question |-> "text"]>>]),
     Raw("permission.asked", [sessionID |-> s, id |-> r, permission |-> "edit"])}

Resolved(s, r) ==
    {Raw("question.replied", [sessionID |-> s, requestID |-> r]),
     Raw("permission.replied", [sessionID |-> s, permissionID |-> r])}

Created(s) == Raw("session.created", [info |-> [id |-> s, title |-> "title", directory |-> Directory]])
CreatedUnder(s, parent) == Raw("session.created", [info |-> [id |-> s, parentID |-> parent]])
Archived(s) == Raw("session.updated", [info |-> [id |-> s, archived |-> "time"]])
Deleted(s) == Raw("session.deleted", [id |-> s])
Internal(s) == Raw("session.updated", [info |-> [id |-> s, title |-> "internal"]])
Elsewhere(s) == Raw("session.created", [info |-> [id |-> s, directory |-> "elsewhere"]])

Role(s, m, role) == Raw("message.updated", [info |-> [sessionID |-> s, id |-> m, role |-> role]])
Aborted(s, m) ==
    Raw("message.updated", [info |-> [sessionID |-> s, id |-> m, role |-> "assistant", error |-> "AbortError"]])
NullError(s, m) ==
    Raw("message.updated", [info |-> [sessionID |-> s, id |-> m, role |-> "assistant", error |-> Missing]])
Text(s, m, text) ==
    Raw("message.part.updated", [part |-> [type |-> "text", sessionID |-> s, messageID |-> m, id |-> "part", text |-> text]])

\* A main and a child session with every round signal, ask and lifecycle event.
Rounds ==
    [children |-> {"s2"}, events |-> 3, control |-> FALSE, concurrent |-> TRUE, v2 |-> {}, includeSummary |-> FALSE,
     raws |-> Asked("s1", "r1") \cup Resolved("s1", "r1")
              \cup {StatusIs("s1", "busy"), StatusIs("s1", "retry"), Error("s1", "APIError"),
                    Created("s1"), Archived("s1"), StatusIs("s2", "busy"), CreatedUnder("s2", "s1")}
              \cup {Raw("session.idle", [sessionID |-> s]) : s \in Session}]

\* A directory listing among a main session's rounds, archival and removal.
Lists ==
    [children |-> {"s2"}, events |-> 3, control |-> TRUE, concurrent |-> TRUE, v2 |-> {}, includeSummary |-> FALSE,
     raws |-> {StatusIs("s1", "busy"), StatusIs("s1", "idle"), Created("s1"), Archived("s1"), Deleted("s1"),
               StatusIs("s2", "busy")}]

\* Roles and texts of a user's and two assistant messages, in every order, over
\* rounds, with a second session that evicts the first from the cache.
Messages ==
    [children |-> {}, events |-> 5, control |-> FALSE, concurrent |-> FALSE, v2 |-> {}, includeSummary |-> TRUE,
     raws |-> {StatusIs("s1", "idle"), Aborted("s1", "ma"),
               Role("s1", "mu", "user"), Role("s1", "ma", "assistant"), Role("s1", "mb", "assistant"),
               Text("s1", "mu", "text"), Text("s1", "ma", "text"), Text("s1", "mb", "text"),
               Text("s1", "ma", "blank"), Text("s2", "mc", "text")}]

\* Provider actions, removals, and what the hook ignores.
Odds ==
    [children |-> {}, events |-> 3, control |-> FALSE, concurrent |-> TRUE, v2 |-> {}, includeSummary |-> TRUE,
     raws |-> {StatusIs("s1", "busy"), RetryFor("s1", "p1"), NullError("s1", "ma"), Deleted("s1"), Internal("s1"), Elsewhere("s1"),
               Raw("session.error", [error |-> "APIError"]), Raw("session.status", [sessionID |-> "s1"]),
               Raw("message.part.updated", [part |-> [type |-> "file"]]), Raw("storage.write", [id |-> "s1"])}]

\* OpenCode 2, with every event the plugin translates and one of another directory.
V2(type, data) == [type |-> type, data |-> data]
Of(s) == [sessionID |-> s]
Form(kind, fields) == [form |-> [id |-> "r1", sessionID |-> "s1", kind |-> kind, fields |-> fields]]
Stream ==
    [children |-> {"s2"}, events |-> 4, control |-> TRUE, concurrent |-> FALSE, includeSummary |-> TRUE, raws |-> {},
     v2 |-> {V2("session.created", Of("s1")), V2("session.deleted", Of("s1")),
             V2("session.moved", [sessionID |-> "s1", target |-> "elsewhere"]),
             V2("session.moved", [sessionID |-> "s1", target |-> Directory]),
             V2("session.execution.started", Of("s1")), V2("session.execution.succeeded", Of("s1")),
             V2("session.execution.failed", Of("s1")), V2("session.execution.interrupted", Of("s1")),
             V2("session.status", [sessionID |-> "s1", status |-> [type |-> "busy"]]),
             V2("session.step.started", Of("s2")),
             V2("session.retry.scheduled", [sessionID |-> "s1", attempt |-> 1, at |-> 1]),
             V2("session.text.ended", [sessionID |-> "s1", assistantMessageID |-> "ma", ordinal |-> 1, text |-> "text"]),
             V2("form.created", Form("question", <<"ordered">>)), V2("form.created", Form("other", <<"ordered">>)),
             V2("form.replied", [sessionID |-> "s1", id |-> "r1"]),
             V2("permission.asked", [sessionID |-> "s1", id |-> "r1", action |-> "edit"]),
             V2("permission.replied", [sessionID |-> "s1", requestID |-> "r1"]),
             V2("session.compacted", Of("s1")),
             [type |-> "session.step.started", data |-> Of("s1"), location |-> "elsewhere"]}]

MCWorkloads == {Rounds, Lists, Messages, Odds, Stream}

\* Busy and idle of one session whose ancestry is not known yet.
OrderWorkloads ==
    {[children |-> {}, events |-> 3, control |-> FALSE, concurrent |-> TRUE, v2 |-> {}, includeSummary |-> TRUE,
      raws |-> {StatusIs("s1", "busy"), StatusIs("s1", "idle"), Created("s1")}]}
=============================================================================
