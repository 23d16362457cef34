----------------------------- MODULE HostEvents -----------------------------
(***************************************************************************)
(* What the plugin makes of an event of OpenCode                           *)
(* (packages/plugin/src/events.ts): normalizeEvent is total, it reads      *)
(* every field defensively and drops what it does not know or cannot use.  *)
(*                                                                         *)
(* An event is a record of a type and its properties, as on the bus: a     *)
(* field that is missing, empty or of the wrong type is one that the       *)
(* record does not have, and an event without properties is one with none  *)
(* of their fields.  Identifiers are opaque, a text is "blank" or not, an  *)
(* error is known by its name.  The wording of summaries, question labels  *)
(* and provider messages is left out, with its truncation.                 *)
(***************************************************************************)
EXTENDS Sequences

CONSTANT Missing    \* JavaScript null or undefined

\* asNonEmptyString, asFiniteNumber
Field(record, name) == IF name \in DOMAIN record THEN record[name] ELSE Missing

FirstOf(a, b) == IF a # Missing THEN a ELSE b

Usable(required) == Missing \notin required

\* normalizeEvent's null.
Dropped == [kind |-> "dropped"]

ErrorOutcome(name) == IF name \in {"MessageAbortedError", "AbortError"} THEN "stopped" ELSE "failed"

-----------------------------------------------------------------------------
(* Sessions *)

\* readSessionInfo, normalizeSessionUpsert: session fields under `info' or, in
\* development versions, on the properties themselves.
NormalizeSession(kind, p) ==
    LET info == IF "info" \in DOMAIN p THEN p.info ELSE p
    IN  IF Field(info, "id") = Missing
        THEN Dropped
        ELSE [kind |-> kind, session |-> info.id, parent |-> Field(info, "parentID"),
              title |-> Field(info, "title"), directory |-> Field(info, "directory"),
              archived |-> Field(info, "archived") # Missing]

\* normalizeRetryAction: ignored unless every field the contract requires is there.
NormalizeRetryAction(status) ==
    LET action == Field(status, "action")
    IN  IF action # Missing /\ Usable({Field(action, f) : f \in {"provider", "title", "message", "label"}})
        THEN action.provider
        ELSE Missing

NormalizeSessionStatus(p) ==
    LET status == Field(p, "status")
        type == IF status = Missing THEN Missing ELSE Field(status, "type")
    IN  IF ~Usable({Field(p, "sessionID"), status}) THEN Dropped
        ELSE IF type \in {"busy", "idle"} THEN [kind |-> type, session |-> p.sessionID]
        ELSE IF type = "retry" /\ Usable({Field(status, "attempt"), Field(status, "next")})
        THEN [kind |-> "retry", session |-> p.sessionID, action |-> NormalizeRetryAction(status)]
        ELSE Dropped

NormalizeSessionIdle(p) ==
    IF Field(p, "sessionID") = Missing THEN Dropped ELSE [kind |-> "idle", session |-> p.sessionID]

\* An error of no session is passed on; the hook drops it.
NormalizeSessionError(p) ==
    [kind |-> ErrorOutcome(Field(p, "error")), session |-> Field(p, "sessionID")]

-----------------------------------------------------------------------------
(* Messages *)

\* Only an assistant's message carries an outcome, and any error field makes one, an
\* `error: null' (a field whose value is Missing) too.
NormalizeMessage(p) ==
    LET info == Field(p, "info")
    IN  IF info = Missing THEN Dropped
        ELSE IF ~Usable({Field(info, "sessionID"), Field(info, "id")}) THEN Dropped
        ELSE IF Field(info, "role") \notin {"user", "assistant"} THEN Dropped
        ELSE [kind |-> "message", session |-> info.sessionID, message |-> info.id, role |-> info.role,
              outcome |-> IF info.role = "assistant" /\ "error" \in DOMAIN info
                          THEN ErrorOutcome(info.error) ELSE Missing]

NormalizeMessagePart(p) ==
    LET part == Field(p, "part")
    IN  IF part = Missing THEN Dropped
        ELSE IF Field(part, "type") # "text" THEN Dropped
        ELSE IF ~Usable({Field(part, f) : f \in {"sessionID", "messageID", "id", "text"}}) THEN Dropped
        ELSE [kind |-> "text", session |-> part.sessionID, message |-> part.messageID, text |-> part.text]

-----------------------------------------------------------------------------
(* Requests *)

\* normalizeQuestionAsked, normalizeQuestion: at least one question must have a text.
NormalizeQuestionAsked(p) ==
    LET questions == IF "questions" \in DOMAIN p THEN p.questions ELSE <<>>
    IN  IF /\ Usable({Field(p, "sessionID"), Field(p, "id")})
           /\ \E k \in DOMAIN questions : Field(questions[k], "question") # Missing
        THEN [kind |-> "asked", session |-> p.sessionID, key |-> <<"question", p.id>>]
        ELSE Dropped

\* `permission' or, in SDK 1.18.15, `type'.  The summary, built from it, is never empty.
NormalizePermissionAsked(p) ==
    IF Usable({Field(p, "sessionID"), Field(p, "id"), FirstOf(Field(p, "permission"), Field(p, "type"))})
    THEN [kind |-> "asked", session |-> p.sessionID, key |-> <<"permission", p.id>>]
    ELSE Dropped

\* `requestID' or, in SDK 1.18.15, `permissionID'.
NormalizeResolved(kind, p) ==
    LET request == FirstOf(Field(p, "requestID"), Field(p, "permissionID"))
    IN  IF Usable({Field(p, "sessionID"), request})
        THEN [kind |-> "resolved", session |-> p.sessionID, key |-> <<kind, request>>]
        ELSE Dropped

-----------------------------------------------------------------------------
NormalizeEvent(event) ==
    LET p == event.properties
        is(types) == event.type \in types
    IN  CASE is({"session.created", "session.updated"}) -> NormalizeSession("upsert", p)
          [] is({"session.deleted"}) -> NormalizeSession("deleted", p)
          [] is({"session.status"}) -> NormalizeSessionStatus(p)
          [] is({"session.idle"}) -> NormalizeSessionIdle(p)
          [] is({"session.error"}) -> NormalizeSessionError(p)
          [] is({"message.updated"}) -> NormalizeMessage(p)
          [] is({"message.part.updated"}) -> NormalizeMessagePart(p)
          [] is({"question.asked"}) -> NormalizeQuestionAsked(p)
          [] is({"question.replied", "question.rejected"}) -> NormalizeResolved("question", p)
          [] is({"permission.asked", "permission.updated"}) -> NormalizePermissionAsked(p)
          [] is({"permission.replied"}) -> NormalizeResolved("permission", p)
          [] OTHER -> Dropped
=============================================================================
