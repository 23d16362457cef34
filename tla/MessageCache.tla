---------------------------- MODULE MessageCache ----------------------------
(***************************************************************************)
(* The assistant-only text cache (packages/plugin/src/message-cache.ts).   *)
(* Roles and texts of messages arrive as separate events in either order;  *)
(* the cache joins them, in least-recently-active order, and holds a       *)
(* bounded number of sessions and of messages of each.                     *)
(*                                                                         *)
(* A cache is a sequence of [session, records], oldest session first, the  *)
(* records a sequence of [message, role, text], most recently active last. *)
(* A text is "blank", another value, or NoText.                            *)
(***************************************************************************)
EXTENDS Integers, Sequences, SequencesExt

CONSTANTS
    MaxSessions,             \* maxSessions
    MaxMessagesPerSession    \* maxMessagesPerSession

ASSUME CacheAssumption == {MaxSessions, MaxMessagesPerSession} \subseteq Nat \ {0}

NoText == "no text"
NoMessage == "none"

\* The newest n elements.
Newest(seq, n) == SubSeq(seq, IF Len(seq) > n THEN Len(seq) - n + 1 ELSE 1, Len(seq))

RecordsOf(cache, s) == IF \E k \in DOMAIN cache : cache[k].session = s
                       THEN cache[SelectInSeq(cache, LAMBDA e : e.session = s)].records
                       ELSE <<>>

\* recordsFor: a session keeps its place; a new one evicts the oldest.
WithRecords(cache, s, records) ==
    LET k == SelectInSeq(cache, LAMBDA e : e.session = s)
    IN  IF k # 0 THEN [cache EXCEPT ![k].records = records]
        ELSE Newest(Append(cache, [session |-> s, records |-> records]), MaxSessions)

\* touch: the message's record, or a new one, becomes the most recent.
Touched(records, m) ==
    LET k == SelectInSeq(records, LAMBDA r : r.message = m)
        record == IF k = 0 THEN [message |-> m, role |-> "unknown", text |-> NoText] ELSE records[k]
    IN  Newest(Append(IF k = 0 THEN records ELSE RemoveAt(records, k), record), MaxMessagesPerSession)

\* A user's role deletes the text for good.
OnRole(cache, s, m, role) ==
    LET records == Touched(RecordsOf(cache, s), m)
        last == Len(records)
    IN  WithRecords(cache, s,
            [records EXCEPT ![last].role = role,
                            ![last].text = IF role = "user" THEN NoText ELSE @])

\* A full snapshot of the text, dropped if the message is known to be a user's.
OnText(cache, s, m, text) ==
    LET records == Touched(RecordsOf(cache, s), m)
        last == Len(records)
    IN  WithRecords(cache, s,
            [records EXCEPT ![last].text = IF records[last].role = "user" THEN @ ELSE text])

\* A defect: a text whose role has not arrived counts as the assistant's.
BugEligible(r) == r.role # "user" /\ r.text \notin {NoText, "blank"}

Eligible(r) == r.role = "assistant" /\ r.text \notin {NoText, "blank"}

\* summary: the message of the most recently active eligible record.
Summary(cache, s) ==
    LET records == RecordsOf(cache, s)
        k == SelectLastInSeq(records, Eligible)
    IN  IF k = 0 THEN NoMessage ELSE records[k].message

ClearSessions(cache, S) == SelectSeq(cache, LAMBDA e : e.session \notin S)
=============================================================================
