------------------------------- MODULE HostV2 -------------------------------
(***************************************************************************)
(* OpenCode 2: the plugin reads one event stream and feeds the same hook,  *)
(* which "still consumes V1-shaped events" (packages/plugin/src/v2.ts,     *)
(* packages/plugin/src/v2-api.ts).  Translate is that boundary.            *)
(*                                                                         *)
(* An event is a record of a type, its data and perhaps the directory it   *)
(* is of.  A form is abstracted to its kind and, per field, whether it has *)
(* the ordered-answer shape of the built-in question tool.                 *)
(***************************************************************************)
EXTENDS HostEvents

V1(type, properties) == [type |-> type, properties |-> properties]

StatusOf(s, status) == V1("session.status", [sessionID |-> s, status |-> status])
BusyOf(s) == StatusOf(s, [type |-> "busy"])

\* questionFromForm: Missing, unless the form is a question.
QuestionFromForm(form) ==
    IF form.kind = "question" /\ form.fields # <<>> /\ \A k \in DOMAIN form.fields : form.fields[k] = "ordered"
    THEN [id |-> form.id, sessionID |-> form.sessionID,
          questions |-> [k \in DOMAIN form.fields |-> [question |-> "text"]]]
    ELSE Missing

Updates == {"session.created", "session.renamed", "session.moved", "session.forked", "session.metadata.updated"}

MovesAway(event, here) == event.type = "session.moved" /\ Field(event.data, "target") \notin {Missing, here}

\* The event is of another directory.
Foreign(event, here) == Field(event, "location") \notin {Missing, here} /\ event.type # "session.moved"

\* The event needs the session's info, which ctx.session.get answers.
NeedsInfo(event, here) == event.type \in Updates /\ Field(event.data, "sessionID") # Missing /\ ~MovesAway(event, here)

\* The V1 events that one V2 event becomes, in order; info is the session's, if
\* the event needs it, and known the sessions the plugin has the info of.
Translate(event, here, known, info) ==
    LET d == event.data
        s == Field(d, "sessionID")
        m == Field(d, "assistantMessageID")
        is(types) == event.type \in types
        failed(name) == <<V1("session.error", [sessionID |-> s, error |-> name])>>
    IN  CASE is(Updates) /\ MovesAway(event, here) -> IF s \in known THEN <<V1("session.deleted", [info |-> [id |-> s]])>> ELSE <<>>
          [] is(Updates) /\ ~MovesAway(event, here) -> IF s # Missing THEN <<V1("session.updated", [info |-> info])>> ELSE <<>>
          [] is({"session.deleted"}) -> IF s # Missing THEN <<V1("session.deleted", [info |-> [id |-> s, directory |-> here]])>> ELSE <<>>
          [] is({"session.status"}) -> <<V1("session.status", d)>>
          [] is({"session.retry.scheduled"}) ->
                <<StatusOf(s, [type |-> "retry", attempt |-> Field(d, "attempt"), next |-> Field(d, "at")])>>
          [] is({"session.step.started", "session.execution.started"}) -> <<BusyOf(s)>>
          [] is({"session.execution.succeeded"}) -> <<StatusOf(s, [type |-> "idle"])>>
          [] is({"session.execution.failed"}) -> failed("V2ExecutionError")
          [] is({"session.execution.interrupted"}) -> failed("MessageAbortedError")
          [] is({"session.text.ended"}) ->
                <<V1("message.updated", [info |-> [id |-> m, sessionID |-> s, role |-> "assistant"]]),
                  V1("message.part.updated", [part |-> [id |-> <<m, Field(d, "ordinal")>>, messageID |-> m, sessionID |-> s,
                                                        type |-> "text", text |-> Field(d, "text")]])>>
          [] is({"form.created"}) ->
                IF QuestionFromForm(d.form) # Missing THEN <<V1("question.asked", QuestionFromForm(d.form))>> ELSE <<>>
          [] is({"form.replied", "form.cancelled"}) -> <<V1("question.replied", [sessionID |-> s, requestID |-> Field(d, "id")])>>
          [] is({"permission.asked"}) -> <<V1("permission.asked", [sessionID |-> s, id |-> Field(d, "id"), permission |-> Field(d, "action")])>>
          [] is({"permission.replied"}) -> <<V1("permission.replied", d)>>
          [] OTHER -> <<>>
=============================================================================
