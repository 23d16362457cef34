---------------------------- MODULE AuthSessions ----------------------------
(***************************************************************************)
(* Accounts and sessions of the gateway: registration and e-mail codes,    *)
(* login, refresh-token rotation and logout (modules/auth), the operator   *)
(* and user administration (modules/admin).  One e-mail address and one    *)
(* operator: no statement touches the rows of another.                     *)
(*                                                                         *)
(* A request handler reads, awaits and then runs one transaction, so other *)
(* handlers come in between; `calls' holds what a handler has read.  A     *)
(* handler whose reads are only checked again by its transaction is one    *)
(* action.  Hashes and tokens are ideal: only a token that was issued can  *)
(* be presented, by its owner or by anyone else, any number of times.      *)
(***************************************************************************)
EXTENDS Integers, Sequences, FiniteSets

CONSTANTS
    Password,       \* the passwords a user may choose
    Call,           \* handlers that may be under way at once
    MaxCodes,       \* bound on the unused codes of a kind in the mailbox
    MaxFamilies,    \* bound on the sessions
    MaxTokens,      \* bound on the tokens of a session
    MaxChanges      \* bound on the changes of a password

VARIABLES
    user,       \* the row of users, and how often its password was changed
    allowed,    \* registration_whitelist: whether it has the address
    codes,      \* mailed, unused, unexpired codes
    families,   \* refresh_token_families with their refresh_tokens
    calls,      \* what each handler has read
    operator,   \* admin_users: the operator's password
    answered,   \* history: the tokens a rotation was answered for,
    replayed    \* and the families in which one was answered again

historyVars == <<answered, replayed>>
authVars == <<user, allowed, codes, families, calls, operator, historyVars>>

\* An absent row or account, which is no password.
None == "none"

ASSUME AuthAssumption ==
    /\ {MaxCodes, MaxFamilies, MaxTokens, MaxChanges} \subseteq Nat
    /\ None \notin Password

Idle == [stage |-> "idle"]
Family == 1..MaxFamilies
Token == Family \X (1..MaxTokens)

\* A new session: its tokens, in order, as whether each was rotated; and, as
\* history, how many password changes preceded it.
Session == [revoked |-> FALSE, rotated |-> <<FALSE>>, after |-> user.changes]

Issued == {t \in Token : t[1] <= Len(families) /\ t[2] <= Len(families[t[1]].rotated)}

Begins(c, read) == calls[c] = Idle /\ calls' = [calls EXCEPT ![c] = read]
Ends(c) == calls' = [calls EXCEPT ![c] = Idle]

-----------------------------------------------------------------------------
(* Registration and codes *)

\* register: the whitelist is read first.
RegisterChecks(c, pw) ==
    /\ allowed
    /\ Begins(c, [stage |-> "register", password |-> pw])
    /\ UNCHANGED <<user, allowed, codes, families, operator, historyVars>>

\* Then the user is created, unless the address is taken, also by a registration
\* that came first in between.
RegisterCreates(c) ==
    /\ calls[c].stage = "register"
    /\ IF user.password = None
       THEN /\ user' = [user EXCEPT !.password = calls[c].password]
            /\ calls' = [calls EXCEPT ![c] = [stage |-> "issue"]]
       ELSE Ends(c) /\ UNCHANGED user
    /\ UNCHANGED <<allowed, codes, families, operator, historyVars>>

\* resendVerification of an account that is not verified.
Resend(c) ==
    /\ user.password # None /\ ~user.verified
    /\ Begins(c, [stage |-> "issue"])
    /\ UNCHANGED <<user, allowed, codes, families, operator, historyVars>>

\* A code is stored and mailed; if the mail fails nobody ever knows the code.
Mailed(kind) ==
    \/ codes[kind] < MaxCodes /\ codes' = [codes EXCEPT ![kind] = @ + 1]
    \/ UNCHANGED codes

\* issueVerificationCode.
IssueVerificationCode(c) ==
    /\ calls[c].stage = "issue"
    /\ Mailed("verify")
    /\ Ends(c)
    /\ UNCHANGED <<user, allowed, families, operator, historyVars>>

\* verifyEmail: the code and the user change in one transaction.
VerifyEmail ==
    /\ user.password # None /\ codes.verify > 0
    /\ codes' = [codes EXCEPT !.verify = @ - 1]
    /\ user' = [user EXCEPT !.verified = TRUE]
    /\ UNCHANGED <<allowed, families, calls, operator, historyVars>>

ForgotPassword ==
    /\ user.password # None
    /\ Mailed("reset")
    /\ UNCHANGED <<user, allowed, families, calls, operator, historyVars>>

CodeExpires ==
    /\ \E kind \in {"verify", "reset"} : codes[kind] > 0 /\ codes' = [codes EXCEPT ![kind] = @ - 1]
    /\ UNCHANGED <<user, allowed, families, calls, operator, historyVars>>

\* A defect: the password changes and the sessions stay.
BugReplacePassword(pw) ==
    /\ user.changes < MaxChanges
    /\ user' = [user EXCEPT !.password = pw, !.changes = @ + 1]
    /\ UNCHANGED families

\* One transaction: the new password, and every live family of the user revoked.
ReplacePassword(pw) ==
    /\ user.changes < MaxChanges
    /\ user' = [user EXCEPT !.password = pw, !.changes = @ + 1]
    /\ families' = [f \in DOMAIN families |-> [families[f] EXCEPT !.revoked = TRUE]]

ResetPassword(pw) ==
    /\ user.password # None /\ codes.reset > 0
    /\ codes' = [codes EXCEPT !.reset = @ - 1]
    /\ ReplacePassword(pw)
    /\ UNCHANGED <<allowed, calls, operator, historyVars>>

-----------------------------------------------------------------------------
(* Sessions *)

\* A defect: the e-mail need not be verified.
BugLoginChecks(c, pw) ==
    /\ user.password = pw
    /\ Begins(c, [stage |-> "login"])
    /\ UNCHANGED <<user, allowed, codes, families, operator, historyVars>>

\* login: the row is read, then the password is verified against it, which takes
\* a while; then the e-mail must have been verified when the row was read.
LoginChecks(c, pw) ==
    /\ user.password = pw /\ user.verified
    /\ Begins(c, [stage |-> "login"])
    /\ UNCHANGED <<user, allowed, codes, families, operator, historyVars>>

\* createRefreshSession: the family and its first token.
LoginCreates(c) ==
    /\ calls[c].stage = "login" /\ Len(families) < MaxFamilies
    /\ families' = Append(families, Session)
    /\ Ends(c)
    /\ UNCHANGED <<user, allowed, codes, operator, historyVars>>

\* refresh of an issued token: refused if its family is revoked.
RefreshChecks(c, t) ==
    /\ t \in Issued
    /\ ~families[t[1]].revoked
    /\ Begins(c, [stage |-> "refresh", token |-> t])
    /\ UNCHANGED <<user, allowed, codes, families, operator, historyVars>>

\* The families with that of the presented token revoked.
Revoked(f) == [families EXCEPT ![f].revoked = TRUE]

\* A defect: the update is not conditional on the token being unrotated.
BugRotated(t) ==
    [families EXCEPT ![t[1]].rotated = Append([@ EXCEPT ![t[2]] = TRUE], FALSE)]

\* The token is marked and its successor inserted; a token that is marked
\* already is a replay, or lost a race, and the family is revoked.
Rotated(t) ==
    IF families[t[1]].rotated[t[2]]
    THEN Revoked(t[1])
    ELSE [families EXCEPT ![t[1]].rotated = Append([@ EXCEPT ![t[2]] = TRUE], FALSE)]

\* rotateRefreshToken.
RefreshRotates(c) ==
    /\ calls[c].stage = "refresh"
    /\ LET t == calls[c].token
       IN  /\ families[t[1]].rotated[t[2]] \/ Len(families[t[1]].rotated) < MaxTokens
           /\ families' = Rotated(t)
           /\ answered' = answered \cup {t}
           /\ replayed' = IF t \in answered THEN replayed \cup {t[1]} ELSE replayed
    /\ Ends(c)
    /\ UNCHANGED <<user, allowed, codes, operator>>

\* logout: nothing for a revoked family.
LogoutChecks(c, t) ==
    /\ t \in Issued /\ ~families[t[1]].revoked
    /\ Begins(c, [stage |-> "logout", token |-> t])
    /\ UNCHANGED <<user, allowed, codes, families, operator, historyVars>>

LogoutRevokes(c) ==
    /\ calls[c].stage = "logout"
    /\ families' = Revoked(calls[c].token[1])
    /\ Ends(c)
    /\ UNCHANGED <<user, allowed, codes, operator, historyVars>>

-----------------------------------------------------------------------------
(* Administration *)

\* login of the operator counts the rows first, to seed an empty table.
OperatorChecks(c) ==
    /\ operator = None
    /\ Begins(c, [stage |-> "seed"])
    /\ UNCHANGED <<user, allowed, codes, families, operator, historyVars>>

\* ensureAdminAccount: on conflict do nothing.
Seed == operator' = IF operator = None THEN "seed" ELSE operator

OperatorSeeds(c) ==
    /\ calls[c].stage = "seed"
    /\ Seed
    /\ Ends(c)
    /\ UNCHANGED <<user, allowed, codes, families, historyVars>>

\* changePasswordFor: verified against what was read, then stored.
OperatorVerifies(c) ==
    /\ operator # None
    /\ Begins(c, [stage |-> "operator"])
    /\ UNCHANGED <<user, allowed, codes, families, operator, historyVars>>

OperatorChanges(c) ==
    /\ calls[c].stage = "operator"
    /\ operator' = "changed"
    /\ Ends(c)
    /\ UNCHANGED <<user, allowed, codes, families, historyVars>>

\* The operator, once logged in: the whitelist is replaced, an account is created
\* verified, or a user's password is replaced.
ReplaceWhitelist ==
    /\ operator # None
    /\ allowed' = ~allowed
    /\ UNCHANGED <<user, codes, families, calls, operator, historyVars>>

CreateVerifiedUser(pw) ==
    /\ operator # None /\ user.password = None
    /\ user' = [user EXCEPT !.password = pw, !.verified = TRUE]
    /\ UNCHANGED <<allowed, codes, families, calls, operator, historyVars>>

SetUserPassword(pw) ==
    /\ operator # None /\ user.password # None
    /\ ReplacePassword(pw)
    /\ UNCHANGED <<allowed, codes, calls, operator, historyVars>>

-----------------------------------------------------------------------------
AuthInit ==
    /\ user = [password |-> None, verified |-> FALSE, changes |-> 0]
    /\ allowed = FALSE
    /\ codes = [verify |-> 0, reset |-> 0]
    /\ families = <<>>
    /\ calls = [c \in Call |-> Idle]
    /\ operator = None
    /\ answered = {} /\ replayed = {}

AccountSteps ==
    \/ VerifyEmail \/ ForgotPassword \/ CodeExpires \/ ReplaceWhitelist
    \/ \E pw \in Password : ResetPassword(pw) \/ CreateVerifiedUser(pw) \/ SetUserPassword(pw)
    \/ \E c \in Call :
        \/ RegisterCreates(c) \/ Resend(c) \/ IssueVerificationCode(c)
        \/ OperatorChecks(c) \/ OperatorSeeds(c) \/ OperatorVerifies(c) \/ OperatorChanges(c)
        \/ \E pw \in Password : RegisterChecks(c, pw)

SessionSteps ==
    \E c \in Call :
        \/ LoginCreates(c) \/ RefreshRotates(c) \/ LogoutRevokes(c)
        \/ \E pw \in Password : LoginChecks(c, pw)
        \/ \E t \in Token : RefreshChecks(c, t) \/ LogoutChecks(c, t)

AuthNext == AccountSteps \/ SessionSteps

AuthSpec == AuthInit /\ [][AuthNext]_authVars

-----------------------------------------------------------------------------
(* Properties *)

Reads ==
    [stage : {"idle", "issue", "login", "seed", "operator"}]
    \cup [stage : {"register"}, password : Password]
    \cup [stage : {"refresh", "logout"}, token : Token]

\* Types; sessions and codes exist only for an account.
AuthTypeOK ==
    /\ user \in [password : Password \cup {None}, verified : BOOLEAN, changes : 0..MaxChanges]
    /\ allowed \in BOOLEAN
    /\ codes \in [verify : 0..MaxCodes, reset : 0..MaxCodes]
    /\ calls \in [Call -> Reads]
    /\ operator \in {None, "seed", "changed"}
    /\ Len(families) <= MaxFamilies
    /\ \A c \in Call : calls[c].stage \in {"refresh", "logout"} => calls[c].token \in Issued
    /\ families # <<>> => user.password # None /\ user.verified

\* A session never forks.  In every family all tokens but the newest are rotated,
\* however refreshes of one token overlap (auth.repository.ts: "exactly one wins").
\* And when two rotations of one token have been answered, whoever asked for them
\* and in whatever order, the family is revoked, with the successor that the first
\* was given ("the winner's concurrently issued successor is dead too").
FamiliesNeverFork ==
    /\ \A f \in DOMAIN families :
        LET r == families[f].rotated IN \A k \in DOMAIN r : r[k] <=> k < Len(r)
    /\ \A f \in replayed : families[f].revoked

\* A change of a password, by a reset code or by the operator, sticks: every live
\* session was stored after it (perhaps by a login that had verified the old
\* password, since the code does not look again), a revoked session stays revoked,
\* and the seed never takes back a password the operator has chosen, though the
\* count that decides on seeding is stale when the seed is stored.
PasswordChangesStick ==
    [][/\ \A f \in DOMAIN families : families[f].revoked => families'[f].revoked
       /\ \A f \in DOMAIN families' : ~families'[f].revoked => families'[f].after = user'.changes
       /\ operator = "changed" => operator' = "changed"]_authVars
=============================================================================
