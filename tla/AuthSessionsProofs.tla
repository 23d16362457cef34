------------------------- MODULE AuthSessionsProofs -------------------------
(***************************************************************************)
(* Proofs about AuthSessions, for every set of passwords, number of        *)
(* overlapping handlers and bound on codes, sessions, tokens and changes.  *)
(***************************************************************************)
EXTENDS AuthSessions, SequenceTheorems, TLAPS

-----------------------------------------------------------------------------
(* The inductive invariant *)

Sessions == [revoked : BOOLEAN, rotated : Seq(BOOLEAN), after : Nat]

\* A session that is not revoked was stored after the last change of the password.
LiveAreCurrent ==
    \A f \in DOMAIN families : ~families[f].revoked => families[f].after = user.changes

\* A token a rotation was answered for is marked, so that a second rotation of it
\* can only be the one that revokes.
AnsweredAreRotated ==
    /\ \A t \in answered : t \in Issued /\ families[t[1]].rotated[t[2]]
    /\ replayed \subseteq DOMAIN families

\* What a handler has read and relies on is still so: a login has an account that
\* is verified (its password may be another by now).
ReadHolds(r) == r.stage = "login" => user.password # None /\ user.verified

AuthInv ==
    /\ AuthTypeOK
    /\ families \in Seq(Sessions)
    /\ FamiliesNeverFork
    /\ LiveAreCurrent
    /\ AnsweredAreRotated
    /\ \A c \in Call : ReadHolds(calls[c])

-----------------------------------------------------------------------------
(* What the operations on families do *)

\* The families fs, with those in R revoked.
RevokedIn(fs, R) ==
    [f \in DOMAIN fs |-> IF f \in R THEN [fs[f] EXCEPT !.revoked = TRUE] ELSE fs[f]]

\* Every sequence of the module stays one when members are revoked.
LEMMA RevokedInType ==
    ASSUME NEW fs \in Seq(Sessions), NEW R
    PROVE  /\ RevokedIn(fs, R) \in Seq(Sessions)
           /\ Len(RevokedIn(fs, R)) = Len(fs)
           /\ DOMAIN RevokedIn(fs, R) = DOMAIN fs
           /\ \A f \in DOMAIN fs :
                /\ RevokedIn(fs, R)[f].rotated = fs[f].rotated
                /\ RevokedIn(fs, R)[f].after = fs[f].after
                /\ RevokedIn(fs, R)[f].revoked <=> (f \in R \/ fs[f].revoked)
  <1>1. DOMAIN fs = 1..Len(fs) /\ Len(fs) \in Nat /\ \A f \in DOMAIN fs : fs[f] \in Sessions
    OBVIOUS
  <1>2. ASSUME NEW f \in DOMAIN fs
        PROVE  /\ RevokedIn(fs, R)[f] \in Sessions
               /\ RevokedIn(fs, R)[f].rotated = fs[f].rotated
               /\ RevokedIn(fs, R)[f].after = fs[f].after
               /\ RevokedIn(fs, R)[f].revoked <=> (f \in R \/ fs[f].revoked)
    <2>1. fs[f] \in Sessions
      BY <1>1, <1>2
    <2>2. CASE f \in R
      <3>1. RevokedIn(fs, R)[f] = [fs[f] EXCEPT !.revoked = TRUE]
        BY <2>2, <1>2 DEF RevokedIn
      <3>2. QED
        BY <3>1, <2>1, <2>2 DEF Sessions
    <2>3. CASE f \notin R
      BY <2>3, <2>1, <1>2 DEF RevokedIn
    <2>4. QED
      BY <2>2, <2>3
  <1>3. DOMAIN RevokedIn(fs, R) = 1..Len(fs)
    BY <1>1 DEF RevokedIn
  <1>4. RevokedIn(fs, R) \in [1..Len(fs) -> Sessions]
    BY <1>1, <1>2 DEF RevokedIn
  <1>5. RevokedIn(fs, R) \in Seq(Sessions)
    BY <1>4, <1>1
  <1>6. Len(RevokedIn(fs, R)) = Len(fs)
    BY <1>3, <1>1, <1>5
  <1>7. QED
    BY <1>1, <1>2, <1>3, <1>5, <1>6

\* Revoking one family is the model's Revoked.
LEMMA RevokedIsRevokedIn ==
    ASSUME families \in Seq(Sessions), NEW f \in DOMAIN families
    PROVE  Revoked(f) = RevokedIn(families, {f})
  <1>1. DOMAIN families = 1..Len(families) /\ \A g \in DOMAIN families : families[g] \in Sessions
    OBVIOUS
  <1>2. [families[f] EXCEPT !.revoked = TRUE] = [families EXCEPT ![f].revoked = TRUE][f]
    BY <1>1
  <1>3. QED
    BY <1>1 DEF Revoked, RevokedIn

\* A presented token has its family, and its place there.
LEMMA IssuedPlace ==
    ASSUME families \in Seq(Sessions), NEW t \in Issued
    PROVE  /\ t[1] \in DOMAIN families
           /\ families[t[1]] \in Sessions
           /\ t[2] \in DOMAIN families[t[1]].rotated
           /\ families[t[1]].rotated[t[2]] \in BOOLEAN
  <1>1. t[1] \in 1..MaxFamilies /\ t[2] \in 1..MaxTokens
    BY DEF Issued, Token, Family
  <1>2. t[1] \in 1..Len(families) /\ DOMAIN families = 1..Len(families)
    BY <1>1, AuthAssumption DEF Issued
  <1>3. families[t[1]] \in Sessions
    BY <1>2
  <1>4. families[t[1]].rotated \in Seq(BOOLEAN)
    BY <1>3 DEF Sessions
  <1>5. t[2] \in 1..Len(families[t[1]].rotated)
    BY <1>1, <1>4, AuthAssumption DEF Issued
  <1>6. QED
    BY <1>2, <1>3, <1>4, <1>5

\* What every step does to the families that are there: none goes away, none is
\* taken back from being revoked, and no token is taken back from being rotated.
Advances ==
    /\ families' \in Seq(Sessions)
    /\ Len(families) <= Len(families')
    /\ \A f \in DOMAIN families :
        /\ families[f].revoked => families'[f].revoked
        /\ Len(families[f].rotated) <= Len(families'[f].rotated)
        /\ \A k \in DOMAIN families[f].rotated : families[f].rotated[k] => families'[f].rotated[k]

\* So what was issued remains issued, and what is remembered of it true.
LEMMA AdvancesKeeps ==
    ASSUME families \in Seq(Sessions), Advances
    PROVE  /\ Issued \subseteq Issued'
           /\ DOMAIN families \subseteq DOMAIN families'
           /\ \A t \in Issued : families[t[1]].rotated[t[2]] => families'[t[1]].rotated[t[2]]
           /\ \A f \in DOMAIN families : families[f].revoked => families'[f].revoked
  <1>1. DOMAIN families = 1..Len(families) /\ DOMAIN families' = 1..Len(families')
    BY DEF Advances
  <1>2. DOMAIN families \subseteq DOMAIN families'
    BY <1>1 DEF Advances
  <1>3. ASSUME NEW t \in Issued
        PROVE  t \in Issued' /\ (families[t[1]].rotated[t[2]] => families'[t[1]].rotated[t[2]])
    <2>1. t[1] \in DOMAIN families /\ t[2] \in DOMAIN families[t[1]].rotated /\ t \in Token
      BY IssuedPlace DEF Issued
    <2>2. t[1] \in Nat /\ t[2] \in Nat
      BY <2>1, AuthAssumption DEF Token, Family
    <2>3. families[t[1]].rotated \in Seq(BOOLEAN) /\ families'[t[1]].rotated \in Seq(BOOLEAN)
      <3>1. families'[t[1]] \in Sessions
        BY <1>2, <2>1 DEF Advances
      <3>2. QED
        BY <3>1, IssuedPlace DEF Sessions
    <2>4. t \in Issued'
      BY <1>1, <2>1, <2>2, <2>3 DEF Issued, Advances, Token, Family
    <2>5. QED
      BY <2>1, <2>4 DEF Advances
  <1>4. QED
    BY <1>2, <1>3 DEF Advances

\* Revoking is such a step, and forks nothing.
LEMMA RevokingAdvances ==
    ASSUME families \in Seq(Sessions), NEW R, families' = RevokedIn(families, R)
    PROVE  Advances /\ Len(families') = Len(families) /\ DOMAIN families' = DOMAIN families
  <1>1. /\ families' \in Seq(Sessions) /\ Len(families') = Len(families)
        /\ DOMAIN families' = DOMAIN families
        /\ \A f \in DOMAIN families : /\ families'[f].rotated = families[f].rotated
                                      /\ families[f].revoked => families'[f].revoked
    BY RevokedInType
  <1>2. Len(families) \in Nat /\ \A f \in DOMAIN families : Len(families[f].rotated) \in Nat
    BY DEF Sessions
  <1>3. QED
    BY <1>1, <1>2 DEF Advances

-----------------------------------------------------------------------------
(* Every action preserves it *)

UserType == [password : Password \cup {None}, verified : BOOLEAN, changes : 0..MaxChanges]

\* No account is deleted and no e-mail unverified.
UserStays ==
    /\ user' \in UserType
    /\ user.password # None => user'.password # None
    /\ user.verified => user'.verified

\* The rows without sessions keep their types.
RowsTyped ==
    /\ allowed' \in BOOLEAN
    /\ codes' \in [verify : 0..MaxCodes, reset : 0..MaxCodes]
    /\ operator' \in {None, "seed", "changed"}

\* A handler begins with what is so, goes on with what it has, or ends.
CallsFollow ==
    /\ calls' \in [Call -> Reads]
    /\ \A c \in Call :
        \/ calls'[c] = calls[c]
        \/ /\ ReadHolds(calls'[c])
           /\ calls'[c].stage \in {"refresh", "logout"} => calls'[c].token \in Issued

\* The whole invariant, from what a step does to each row.
LEMMA StepKeeps ==
    ASSUME AuthInv, UserStays, RowsTyped, CallsFollow, Advances,
           Len(families') <= MaxFamilies,
           families = <<>> => families' = <<>> \/ (user.password # None /\ user.verified),
           FamiliesNeverFork', LiveAreCurrent', AnsweredAreRotated'
    PROVE  AuthInv'
  <1>1. Issued \subseteq Issued'
    BY AdvancesKeeps DEF AuthInv
  <1>2. ASSUME NEW c \in Call
        PROVE  /\ ReadHolds(calls[c])'
               /\ calls'[c].stage \in {"refresh", "logout"} => calls'[c].token \in Issued'
    BY <1>1, <1>2 DEF AuthInv, AuthTypeOK, UserStays, CallsFollow, ReadHolds
  <1>3. families' # <<>> => user'.password # None /\ user'.verified
    BY DEF AuthInv, AuthTypeOK, UserStays
  <1>4. AuthTypeOK'
    BY <1>2, <1>3 DEF AuthTypeOK, UserStays, UserType, RowsTyped, CallsFollow
  <1>5. QED
    BY <1>2, <1>4 DEF AuthInv, Advances

\* A step that touches no session and no password of an account.
LEMMA SessionsUntouched ==
    ASSUME AuthInv, UserStays, RowsTyped, CallsFollow,
           user'.changes = user.changes, UNCHANGED <<families, historyVars>>
    PROVE  AuthInv'
  <1>1. families' = families /\ answered' = answered /\ replayed' = replayed
    BY DEF historyVars
  <1>2. Advances
    <2>1. Len(families) \in Nat /\ \A f \in DOMAIN families : Len(families[f].rotated) \in Nat
      BY DEF AuthInv, Sessions
    <2>2. QED
      BY <1>1, <2>1 DEF Advances, AuthInv
  <1>3. FamiliesNeverFork' /\ LiveAreCurrent' /\ AnsweredAreRotated'
    BY <1>1 DEF AuthInv, FamiliesNeverFork, LiveAreCurrent, AnsweredAreRotated, Issued
  <1>4. Len(families') <= MaxFamilies
    BY <1>1 DEF AuthInv, AuthTypeOK
  <1>5. QED
    BY <1>1, <1>2, <1>3, <1>4, StepKeeps

\* A handler begins.
LEMMA BeginsFollow ==
    ASSUME AuthInv, NEW c \in Call, NEW r \in Reads, Begins(c, r), ReadHolds(r),
           r.stage \in {"refresh", "logout"} => r.token \in Issued,
           UNCHANGED user
    PROVE  CallsFollow
  <1>1. calls \in [Call -> Reads] /\ calls' = [calls EXCEPT ![c] = r]
    BY DEF AuthInv, AuthTypeOK, Begins
  <1>2. calls' \in [Call -> Reads]
    BY <1>1
  <1>3. QED
    BY <1>1, <1>2 DEF CallsFollow, ReadHolds

\* A handler ends.
LEMMA EndsFollow ==
    ASSUME AuthInv, NEW c \in Call, Ends(c)
    PROVE  CallsFollow
  <1>1. calls \in [Call -> Reads] /\ calls' = [calls EXCEPT ![c] = Idle]
    BY DEF AuthInv, AuthTypeOK, Ends
  <1>2. Idle \in Reads /\ Idle.stage = "idle"
    BY DEF Idle, Reads
  <1>3. calls' \in [Call -> Reads]
    BY <1>1, <1>2
  <1>4. QED
    BY <1>1, <1>2, <1>3 DEF CallsFollow, ReadHolds

\* A handler that leaves `calls' alone.
LEMMA CallsStay ==
    ASSUME AuthInv, UNCHANGED calls
    PROVE  CallsFollow
  BY DEF AuthInv, AuthTypeOK, CallsFollow

\* A stage's reading.
LEMMA ReadsOf ==
    ASSUME NEW r \in Reads
    PROVE  /\ r.stage = "register" => r.password \in Password
           /\ r.stage \in {"refresh", "logout"} => r.token \in Token
  BY DEF Reads

\* Codes are mailed up to their bound.
LEMMA MailedType ==
    ASSUME codes \in [verify : 0..MaxCodes, reset : 0..MaxCodes], NEW kind \in {"verify", "reset"},
           Mailed(kind)
    PROVE  codes' \in [verify : 0..MaxCodes, reset : 0..MaxCodes]
  <1>1. MaxCodes \in Nat
    BY AuthAssumption
  <1>2. CASE UNCHANGED codes
    BY <1>2
  <1>3. CASE codes[kind] < MaxCodes /\ codes' = [codes EXCEPT ![kind] = @ + 1]
    <2>1. CASE kind = "verify"
      BY <1>1, <1>3, <2>1
    <2>2. CASE kind = "reset"
      BY <1>1, <1>3, <2>2
    <2>3. QED
      BY <2>1, <2>2
  <1>4. QED
    BY <1>2, <1>3 DEF Mailed

\* Registration, e-mail codes, and what the operator does to himself and the
\* whitelist: no session is touched.
LEMMA AccountStepKeeps ==
    ASSUME AuthInv, NEW c \in Call,
           \/ \E pw \in Password : RegisterChecks(c, pw)
           \/ RegisterCreates(c) \/ Resend(c) \/ IssueVerificationCode(c)
           \/ OperatorChecks(c) \/ OperatorSeeds(c) \/ OperatorVerifies(c) \/ OperatorChanges(c)
    PROVE  AuthInv'
  <1> USE DEF UserStays, RowsTyped, UserType
  <1>1. /\ user \in UserType /\ allowed \in BOOLEAN
        /\ codes \in [verify : 0..MaxCodes, reset : 0..MaxCodes]
        /\ operator \in {None, "seed", "changed"} /\ calls[c] \in Reads
    BY DEF AuthInv, AuthTypeOK
  <1>2. ASSUME NEW pw \in Password, RegisterChecks(c, pw)
        PROVE  AuthInv'
    <2>1. [stage |-> "register", password |-> pw] \in Reads
      BY DEF Reads
    <2>2. CallsFollow
      BY <1>2, <2>1, BeginsFollow DEF RegisterChecks, ReadHolds
    <2>3. QED
      BY <1>1, <1>2, <2>2, SessionsUntouched DEF RegisterChecks
  <1>3. CASE RegisterCreates(c)
    <2>1. calls[c].password \in Password
      BY <1>1, <1>3, ReadsOf DEF RegisterCreates
    <2>2. CASE user.password = None
      <3>1. [stage |-> "issue"] \in Reads
        BY DEF Reads
      <3>2. calls' = [calls EXCEPT ![c] = [stage |-> "issue"]]
        BY <1>3, <2>2 DEF RegisterCreates
      <3>3. CallsFollow
        BY <3>1, <3>2 DEF CallsFollow, AuthInv, AuthTypeOK, ReadHolds
      <3>4. user' \in UserType /\ user'.changes = user.changes /\ user'.verified = user.verified
        BY <1>1, <1>3, <2>1, <2>2 DEF RegisterCreates
      <3>5. QED
        BY <1>1, <1>3, <2>2, <3>3, <3>4, SessionsUntouched DEF RegisterCreates
    <2>3. CASE user.password # None
      <3>1. CallsFollow
        BY <1>3, <2>3, EndsFollow DEF RegisterCreates
      <3>2. QED
        BY <1>1, <1>3, <2>3, <3>1, SessionsUntouched DEF RegisterCreates
    <2>4. QED
      BY <2>2, <2>3
  <1>4. CASE Resend(c)
    <2>1. [stage |-> "issue"] \in Reads
      BY DEF Reads
    <2>2. CallsFollow
      BY <1>4, <2>1, BeginsFollow DEF Resend, ReadHolds
    <2>3. QED
      BY <1>1, <1>4, <2>2, SessionsUntouched DEF Resend
  <1>5. CASE IssueVerificationCode(c)
    <2>1. CallsFollow
      BY <1>5, EndsFollow DEF IssueVerificationCode
    <2>2. codes' \in [verify : 0..MaxCodes, reset : 0..MaxCodes]
      BY <1>1, <1>5, MailedType DEF IssueVerificationCode
    <2>3. QED
      BY <1>1, <1>5, <2>1, <2>2, SessionsUntouched DEF IssueVerificationCode
  <1>6. CASE OperatorChecks(c)
    <2>1. [stage |-> "seed"] \in Reads
      BY DEF Reads
    <2>2. CallsFollow
      BY <1>6, <2>1, BeginsFollow DEF OperatorChecks, ReadHolds
    <2>3. QED
      BY <1>1, <1>6, <2>2, SessionsUntouched DEF OperatorChecks
  <1>7. CASE OperatorSeeds(c)
    <2>1. CallsFollow
      BY <1>7, EndsFollow DEF OperatorSeeds
    <2>2. QED
      BY <1>1, <1>7, <2>1, SessionsUntouched DEF OperatorSeeds, Seed
  <1>8. CASE OperatorVerifies(c)
    <2>1. [stage |-> "operator"] \in Reads
      BY DEF Reads
    <2>2. CallsFollow
      BY <1>8, <2>1, BeginsFollow DEF OperatorVerifies, ReadHolds
    <2>3. QED
      BY <1>1, <1>8, <2>2, SessionsUntouched DEF OperatorVerifies
  <1>9. CASE OperatorChanges(c)
    <2>1. CallsFollow
      BY <1>9, EndsFollow DEF OperatorChanges
    <2>2. QED
      BY <1>1, <1>9, <2>1, SessionsUntouched DEF OperatorChanges
  <1>10. QED
    BY <1>2, <1>3, <1>4, <1>5, <1>6, <1>7, <1>8, <1>9

\* The requests that are one transaction each and change no password.
LEMMA TransactionKeeps ==
    ASSUME AuthInv, VerifyEmail \/ ForgotPassword \/ CodeExpires \/ ReplaceWhitelist
                    \/ (\E pw \in Password : CreateVerifiedUser(pw))
    PROVE  AuthInv'
  <1> USE DEF UserStays, RowsTyped, UserType
  <1>1. /\ user \in UserType /\ allowed \in BOOLEAN
        /\ codes \in [verify : 0..MaxCodes, reset : 0..MaxCodes]
        /\ operator \in {None, "seed", "changed"} /\ MaxCodes \in Nat
    BY AuthAssumption DEF AuthInv, AuthTypeOK
  <1>2. CASE VerifyEmail
    <2>1. codes' \in [verify : 0..MaxCodes, reset : 0..MaxCodes]
      BY <1>1, <1>2 DEF VerifyEmail
    <2>2. user' \in UserType /\ user'.password = user.password /\ user'.verified
          /\ user'.changes = user.changes
      BY <1>1, <1>2 DEF VerifyEmail
    <2>3. QED
      BY <1>1, <1>2, <2>1, <2>2, SessionsUntouched, CallsStay DEF VerifyEmail
  <1>3. CASE ForgotPassword
    <2>1. codes' \in [verify : 0..MaxCodes, reset : 0..MaxCodes]
      BY <1>1, <1>3, MailedType DEF ForgotPassword
    <2>2. QED
      BY <1>1, <1>3, <2>1, SessionsUntouched, CallsStay DEF ForgotPassword
  <1>4. CASE CodeExpires
    <2>1. codes' \in [verify : 0..MaxCodes, reset : 0..MaxCodes]
      BY <1>1, <1>4 DEF CodeExpires
    <2>2. QED
      BY <1>1, <1>4, <2>1, SessionsUntouched, CallsStay DEF CodeExpires
  <1>5. CASE ReplaceWhitelist
    BY <1>1, <1>5, SessionsUntouched, CallsStay DEF ReplaceWhitelist
  <1>6. ASSUME NEW pw \in Password, CreateVerifiedUser(pw)
        PROVE  AuthInv'
    <2>1. user' \in UserType /\ user'.password = pw /\ user'.verified /\ user'.changes = user.changes
      BY <1>1, <1>6 DEF CreateVerifiedUser
    <2>2. UserStays
      BY <2>1, AuthAssumption
    <2>3. QED
      BY <1>1, <1>6, <2>1, <2>2, SessionsUntouched, CallsStay DEF CreateVerifiedUser
  <1>7. QED
    BY <1>2, <1>3, <1>4, <1>5, <1>6

\* Revoking families forks none, and leaves what is remembered of the others true.
LEMMA RevokingKeeps ==
    ASSUME AuthInv, NEW R, families' = RevokedIn(families, R), UNCHANGED historyVars
    PROVE  /\ Advances /\ FamiliesNeverFork' /\ AnsweredAreRotated'
           /\ Len(families') <= MaxFamilies
           /\ families = <<>> => families' = <<>>
  <1>1. families \in Seq(Sessions) /\ Len(families) \in Nat
    BY DEF AuthInv
  <1>2. Advances /\ Len(families') = Len(families) /\ DOMAIN families' = DOMAIN families
    BY <1>1, RevokingAdvances
  <1>3. \A f \in DOMAIN families : families'[f].rotated = families[f].rotated
    BY <1>1, RevokedInType
  <1>4. FamiliesNeverFork'
    BY <1>1, <1>2, <1>3, AdvancesKeeps
        DEF AuthInv, FamiliesNeverFork, AnsweredAreRotated, historyVars
  <1>5. AnsweredAreRotated'
    BY <1>1, <1>2, AdvancesKeeps DEF AuthInv, AnsweredAreRotated, historyVars
  <1>6. families = <<>> => families' = <<>>
    <2>1. families' \in Seq(Sessions)
      BY <1>2 DEF Advances
    <2>2. QED
      BY <1>2, <2>1
  <1>7. QED
    BY <1>2, <1>4, <1>5, <1>6 DEF AuthInv, AuthTypeOK

\* A change of the password revokes every family.
LEMMA ReplacePasswordKeeps ==
    ASSUME AuthInv, NEW pw \in Password, ReplacePassword(pw),
           RowsTyped, UNCHANGED <<calls, historyVars>>
    PROVE  AuthInv'
  <1>1. user \in UserType /\ families \in Seq(Sessions) /\ MaxChanges \in Nat
    BY AuthAssumption DEF AuthInv, AuthTypeOK, UserType
  <1>2. /\ user' \in UserType /\ user'.password = pw /\ user'.verified = user.verified
    <2>1. user.changes < MaxChanges /\ user' = [user EXCEPT !.password = pw, !.changes = @ + 1]
      BY DEF ReplacePassword
    <2>2. user.changes + 1 \in 0..MaxChanges
      BY <1>1, <2>1 DEF UserType
    <2>3. QED
      BY <1>1, <2>1, <2>2 DEF UserType
  <1>3. families' = RevokedIn(families, DOMAIN families)
    BY DEF ReplacePassword, RevokedIn
  <1>4. /\ Advances /\ FamiliesNeverFork' /\ AnsweredAreRotated'
        /\ Len(families') <= MaxFamilies
        /\ families = <<>> => families' = <<>>
    BY <1>3, RevokingKeeps
  <1>5. LiveAreCurrent'
    BY <1>1, <1>3, RevokedInType DEF LiveAreCurrent
  <1>6. UserStays
    BY <1>2, AuthAssumption DEF UserStays
  <1>7. QED
    BY <1>4, <1>5, <1>6, StepKeeps, CallsStay

\* The two ways to change it.
LEMMA PasswordStepKeeps ==
    ASSUME AuthInv, NEW pw \in Password, ResetPassword(pw) \/ SetUserPassword(pw)
    PROVE  AuthInv'
  <1>1. /\ allowed \in BOOLEAN /\ codes \in [verify : 0..MaxCodes, reset : 0..MaxCodes]
        /\ operator \in {None, "seed", "changed"} /\ MaxCodes \in Nat
    BY AuthAssumption DEF AuthInv, AuthTypeOK
  <1>2. CASE ResetPassword(pw)
    <2>1. codes' \in [verify : 0..MaxCodes, reset : 0..MaxCodes]
      BY <1>1, <1>2 DEF ResetPassword
    <2>2. QED
      BY <1>1, <1>2, <2>1, ReplacePasswordKeeps DEF ResetPassword, RowsTyped
  <1>3. CASE SetUserPassword(pw)
    BY <1>1, <1>3, ReplacePasswordKeeps DEF SetUserPassword, RowsTyped
  <1>4. QED
    BY <1>2, <1>3

\* What a step on sessions leaves alone.
LEMMA RowsStay ==
    ASSUME AuthInv, UNCHANGED <<user, allowed, codes, operator>>
    PROVE  UserStays /\ RowsTyped
  BY DEF AuthInv, AuthTypeOK, UserStays, UserType, RowsTyped

\* The reads that begin a login, a refresh or a logout.
LEMMA ChecksKeep ==
    ASSUME AuthInv, NEW c \in Call,
           \/ \E pw \in Password : LoginChecks(c, pw)
           \/ \E t \in Token : RefreshChecks(c, t) \/ LogoutChecks(c, t)
    PROVE  AuthInv'
  <1>1. ASSUME NEW pw \in Password, LoginChecks(c, pw)
        PROVE  AuthInv'
    <2>1. [stage |-> "login"] \in Reads
      BY DEF Reads
    <2>2. user.password # None /\ user.verified
      BY <1>1, AuthAssumption DEF LoginChecks
    <2>3. CallsFollow
      BY <1>1, <2>1, <2>2, BeginsFollow DEF LoginChecks, ReadHolds
    <2>4. QED
      BY <1>1, <2>3, RowsStay, SessionsUntouched DEF LoginChecks
  <1>2. ASSUME NEW t \in Token, RefreshChecks(c, t)
        PROVE  AuthInv'
    <2>1. [stage |-> "refresh", token |-> t] \in Reads
      BY DEF Reads
    <2>2. CallsFollow
      BY <1>2, <2>1, BeginsFollow DEF RefreshChecks, ReadHolds
    <2>3. QED
      BY <1>2, <2>2, RowsStay, SessionsUntouched DEF RefreshChecks
  <1>3. ASSUME NEW t \in Token, LogoutChecks(c, t)
        PROVE  AuthInv'
    <2>1. [stage |-> "logout", token |-> t] \in Reads
      BY DEF Reads
    <2>2. CallsFollow
      BY <1>3, <2>1, BeginsFollow DEF LogoutChecks, ReadHolds
    <2>3. QED
      BY <1>3, <2>2, RowsStay, SessionsUntouched DEF LogoutChecks
  <1>4. QED
    BY <1>1, <1>2, <1>3

\* A family revoked by logout, or by the replay of a token.
LEMMA LogoutKeeps ==
    ASSUME AuthInv, NEW c \in Call, LogoutRevokes(c)
    PROVE  AuthInv'
  <1>1. families \in Seq(Sessions) /\ calls[c].token \in Issued
    BY DEF AuthInv, AuthTypeOK, LogoutRevokes
  <1>2. families' = RevokedIn(families, {calls[c].token[1]})
    BY <1>1, IssuedPlace, RevokedIsRevokedIn DEF LogoutRevokes
  <1>3. /\ Advances /\ FamiliesNeverFork' /\ AnsweredAreRotated'
        /\ Len(families') <= MaxFamilies
        /\ families = <<>> => families' = <<>>
    BY <1>2, RevokingKeeps DEF LogoutRevokes
  <1>4. LiveAreCurrent'
    BY <1>1, <1>2, RevokedInType DEF LiveAreCurrent, AuthInv, LogoutRevokes
  <1>5. QED
    BY <1>3, <1>4, StepKeeps, EndsFollow, RowsStay DEF LogoutRevokes

\* The row of tokens a session begins with.
LEMMA OneToken ==
    /\ <<FALSE>> \in Seq(BOOLEAN)
    /\ \A k \in DOMAIN <<FALSE>> : <<FALSE>>[k] <=> k < Len(<<FALSE>>)
  <1>1. <<FALSE>> \in Seq(BOOLEAN) /\ Len(<<FALSE>>) = 1 /\ DOMAIN <<FALSE>> = 1..1
    OBVIOUS
  <1>2. ~(<<FALSE>>[1])
    OBVIOUS
  <1>3. \A k \in DOMAIN <<FALSE>> : k = 1
    BY <1>1
  <1>4. ASSUME NEW k \in DOMAIN <<FALSE>>
        PROVE  <<FALSE>>[k] <=> k < Len(<<FALSE>>)
    <2>1. k = 1
      BY <1>3
    <2>2. ~(1 < Len(<<FALSE>>))
      BY <1>1
    <2>3. QED
      BY <1>2, <2>1, <2>2
  <1>5. QED
    BY <1>1, <1>4

\* A login appends a session with one token.
LEMMA LoginKeeps ==
    ASSUME AuthInv, NEW c \in Call, LoginCreates(c)
    PROVE  AuthInv' /\ Advances
  <1>1. /\ families \in Seq(Sessions) /\ Len(families) \in Nat /\ DOMAIN families = 1..Len(families)
        /\ families' = Append(families, Session) /\ user.changes \in Nat
        /\ user.password # None /\ user.verified /\ user' = user
    BY AuthAssumption DEF AuthInv, AuthTypeOK, LoginCreates, ReadHolds
  <1>2. /\ Session \in Sessions /\ Session.rotated = <<FALSE>>
        /\ Session.after = user.changes /\ ~Session.revoked
    <2>1. <<FALSE>> \in Seq(BOOLEAN)
      BY OneToken
    <2>2. QED
      BY <1>1, <2>1, Zenon DEF Session, Sessions
  <1>3. /\ families' \in Seq(Sessions) /\ Len(families') = Len(families) + 1
        /\ DOMAIN families' = DOMAIN families \cup {Len(families) + 1}
        /\ families'[Len(families) + 1] = Session
        /\ \A f \in DOMAIN families : families'[f] = families[f]
    BY <1>1, <1>2
  <1>4. Advances
    <2>1. \A f \in DOMAIN families : Len(families[f].rotated) \in Nat
      BY <1>1 DEF Sessions
    <2>2. QED
      BY <1>1, <1>3, <2>1 DEF Advances
  <1>5. FamiliesNeverFork'
    <2>1. \A k \in DOMAIN Session.rotated : Session.rotated[k] <=> k < Len(Session.rotated)
      BY <1>2, OneToken
    <2>2. \A f \in replayed : families'[f].revoked
      BY <1>3 DEF AuthInv, FamiliesNeverFork, AnsweredAreRotated
    <2>3. \A f \in DOMAIN families' :
            LET r == families'[f].rotated IN \A k \in DOMAIN r : r[k] <=> k < Len(r)
      BY <1>3, <2>1 DEF AuthInv, FamiliesNeverFork
    <2>4. replayed' = replayed
      BY DEF LoginCreates, historyVars
    <2>5. QED
      BY <2>2, <2>3, <2>4 DEF FamiliesNeverFork
  <1>6. LiveAreCurrent'
    BY <1>1, <1>2, <1>3 DEF AuthInv, LiveAreCurrent
  <1>7. AnsweredAreRotated'
    BY <1>1, <1>4, AdvancesKeeps DEF AuthInv, AnsweredAreRotated, LoginCreates, historyVars
  <1>8. Len(families') <= MaxFamilies
    BY <1>1, <1>3, AuthAssumption DEF LoginCreates
  <1>9. QED
    BY <1>1, <1>4, <1>5, <1>6, <1>7, <1>8, StepKeeps, EndsFollow, RowsStay DEF LoginCreates

\* What appending an unrotated token to a row does.
LEMMA AppendUnrotated ==
    ASSUME NEW m \in Seq(BOOLEAN)
    PROVE  LET s == Append(m, FALSE)
           IN  /\ s \in Seq(BOOLEAN) /\ Len(s) = Len(m) + 1 /\ DOMAIN s = 1..(Len(m) + 1)
               /\ ~s[Len(m) + 1] /\ \A j \in 1..Len(m) : s[j] = m[j]
  <1> DEFINE s == Append(m, FALSE)
  <1>1. s \in Seq(BOOLEAN) /\ Len(s) = Len(m) + 1
    OBVIOUS
  <1>2. DOMAIN s = 1..Len(s)
    <2> HIDE DEF s
    <2>1. QED
      BY <1>1
  <1>3. ~s[Len(m) + 1]
    OBVIOUS
  <1>4. \A j \in 1..Len(m) : s[j] = m[j]
    BY AppendProperties
  <1>5. QED
    <2> HIDE DEF s
    <2>1. QED
      BY <1>1, <1>2, <1>3, <1>4 DEF s

\* A token marked, and its successor appended: all but the newest were marked, so
\* the marked one was the newest.
LEMMA RotatingKeepsRow ==
    ASSUME NEW r \in Seq(BOOLEAN), NEW k \in DOMAIN r, ~r[k],
           \A j \in DOMAIN r : r[j] <=> j < Len(r)
    PROVE  LET s == Append([r EXCEPT ![k] = TRUE], FALSE)
           IN  /\ s \in Seq(BOOLEAN)
               /\ Len(s) = Len(r) + 1
               /\ s[k]
               /\ \A j \in DOMAIN r : r[j] => s[j]
               /\ \A j \in DOMAIN s : s[j] <=> j < Len(s)
  <1> DEFINE m == [r EXCEPT ![k] = TRUE]
             s == Append(m, FALSE)
  <1>1. Len(r) \in Nat /\ DOMAIN r = 1..Len(r) /\ k = Len(r)
    OBVIOUS
  <1>2. m \in [1..Len(r) -> BOOLEAN]
    BY <1>1
  <1>3. m \in Seq(BOOLEAN) /\ Len(m) = Len(r)
    <2>1. m \in Seq(BOOLEAN)
      BY <1>1, <1>2
    <2>2. DOMAIN m = 1..Len(r)
      BY <1>2
    <2>3. QED
      BY <1>1, <2>1, <2>2
  <1>4. \A j \in 1..Len(r) : m[j]
    BY <1>1
  <1>5. /\ s \in Seq(BOOLEAN) /\ Len(s) = Len(r) + 1 /\ DOMAIN s = 1..(Len(r) + 1)
        /\ ~s[Len(r) + 1] /\ \A j \in 1..Len(r) : s[j] = m[j]
    <2> HIDE DEF m
    <2>1. QED
      BY <1>1, <1>3, AppendUnrotated
  <1>6. \A j \in DOMAIN s : s[j] <=> j < Len(s)
    <2> HIDE DEF s, m
    <2>1. QED
      BY <1>1, <1>4, <1>5
  <1>7. QED
    <2> HIDE DEF s, m
    <2>1. s[k] /\ \A j \in DOMAIN r : r[j] => s[j]
      BY <1>1, <1>4, <1>5
    <2>2. QED
      BY <1>5, <1>6, <2>1 DEF s, m

\* A rotation: of a token marked already, the family is revoked; else the token is
\* marked and has a successor.
LEMMA RotatedKeeps ==
    ASSUME AuthInv, NEW t \in Issued, families' = Rotated(t), answered' = answered \cup {t},
           replayed' = IF t \in answered THEN replayed \cup {t[1]} ELSE replayed,
           UNCHANGED user
    PROVE  /\ Advances /\ FamiliesNeverFork' /\ AnsweredAreRotated' /\ LiveAreCurrent'
           /\ Len(families') = Len(families)
  <1> DEFINE g == t[1]
             k == t[2]
             r == families[g].rotated
             n == Append([r EXCEPT ![k] = TRUE], FALSE)
  <1>1. /\ families \in Seq(Sessions) /\ DOMAIN families = 1..Len(families) /\ Len(families) \in Nat
        /\ g \in DOMAIN families /\ families[g] \in Sessions
        /\ k \in DOMAIN r /\ r \in Seq(BOOLEAN) /\ r[k] \in BOOLEAN
        /\ \A j \in DOMAIN r : r[j] <=> j < Len(r)
    BY IssuedPlace DEF AuthInv, Sessions, FamiliesNeverFork
  <1>2. CASE r[k]
    <2>1. families' = RevokedIn(families, {g})
      BY <1>1, <1>2, RevokedIsRevokedIn DEF Rotated
    <2>2. /\ DOMAIN families' = DOMAIN families /\ Len(families') = Len(families)
          /\ families'[g].revoked
          /\ \A f \in DOMAIN families : /\ families'[f].rotated = families[f].rotated
                                        /\ families'[f].after = families[f].after
                                        /\ families[f].revoked => families'[f].revoked
      BY <1>1, <2>1, RevokedInType
    <2>3. Advances
      BY <1>1, <2>1, RevokingAdvances
    <2>4. FamiliesNeverFork'
      BY <1>1, <2>2 DEF AuthInv, FamiliesNeverFork, AnsweredAreRotated
    <2>5. AnsweredAreRotated'
      BY <1>1, <1>2, <2>2, <2>3, AdvancesKeeps DEF AuthInv, AnsweredAreRotated
    <2>6. LiveAreCurrent'
      BY <2>2 DEF AuthInv, LiveAreCurrent
    <2>7. QED
      BY <2>2, <2>3, <2>4, <2>5, <2>6
  <1>3. CASE ~r[k]
    <2>1. /\ n \in Seq(BOOLEAN) /\ Len(n) = Len(r) + 1 /\ n[k]
          /\ \A j \in DOMAIN r : r[j] => n[j]
          /\ \A j \in DOMAIN n : n[j] <=> j < Len(n)
      BY <1>1, <1>3, RotatingKeepsRow
    <2> HIDE DEF n
    <2>2. families' = [families EXCEPT ![g].rotated = n]
      BY <1>3 DEF Rotated, n
    <2>3. /\ DOMAIN families' = DOMAIN families
          /\ families'[g] = [families[g] EXCEPT !.rotated = n]
          /\ \A f \in DOMAIN families \ {g} : families'[f] = families[f]
      BY <1>1, <2>2
    <2>4. /\ families'[g] \in Sessions /\ families'[g].rotated = n
          /\ families'[g].revoked = families[g].revoked /\ families'[g].after = families[g].after
      BY <1>1, <2>1, <2>3 DEF Sessions
    <2>5. families' \in Seq(Sessions) /\ Len(families') = Len(families)
      <3>1. families' \in [1..Len(families) -> Sessions]
        BY <1>1, <2>2, <2>3, <2>4
      <3>2. families' \in Seq(Sessions)
        BY <1>1, <3>1
      <3>3. QED
        BY <1>1, <2>3, <3>2
    <2>6. Advances
      <3>1. \A f \in DOMAIN families : Len(families[f].rotated) \in Nat
        BY <1>1 DEF Sessions
      <3>2. ASSUME NEW f \in DOMAIN families
            PROVE  /\ families[f].revoked => families'[f].revoked
                   /\ Len(families[f].rotated) <= Len(families'[f].rotated)
                   /\ \A j \in DOMAIN families[f].rotated :
                        families[f].rotated[j] => families'[f].rotated[j]
        <4>1. CASE f = g
          BY <1>1, <2>1, <2>4, <3>1, <4>1
        <4>2. CASE f # g
          BY <2>3, <3>1, <4>2
        <4>3. QED
          BY <4>1, <4>2
      <3>3. QED
        BY <1>1, <2>5, <3>2 DEF Advances
    <2>7. t \notin answered
      BY <1>3 DEF AuthInv, AnsweredAreRotated
    <2>8. FamiliesNeverFork'
      BY <2>1, <2>3, <2>4, <2>7 DEF AuthInv, FamiliesNeverFork, AnsweredAreRotated
    <2>9. AnsweredAreRotated'
      <3>1. t \in Issued' /\ families'[t[1]].rotated[t[2]]
        BY <1>1, <2>1, <2>4, <2>6, AdvancesKeeps
      <3>2. QED
        BY <1>1, <2>6, <2>7, <3>1, AdvancesKeeps DEF AuthInv, AnsweredAreRotated
    <2>10. LiveAreCurrent'
      <3>1. \A f \in DOMAIN families : /\ families'[f].after = families[f].after
                                       /\ families'[f].revoked = families[f].revoked
        BY <2>3, <2>4
      <3>2. QED
        BY <2>3, <3>1 DEF AuthInv, LiveAreCurrent
    <2>11. QED
      BY <2>5, <2>6, <2>8, <2>9, <2>10
  <1>4. QED
    BY <1>1, <1>2, <1>3

\* So a refresh keeps it.
LEMMA RefreshKeeps ==
    ASSUME AuthInv, NEW c \in Call, RefreshRotates(c)
    PROVE  AuthInv'
  <1>1. calls[c].token \in Issued /\ families \in Seq(Sessions)
    BY DEF AuthInv, AuthTypeOK, RefreshRotates
  <1>2. /\ Advances /\ FamiliesNeverFork' /\ AnsweredAreRotated' /\ LiveAreCurrent'
        /\ Len(families') = Len(families)
    BY <1>1, RotatedKeeps DEF RefreshRotates
  <1>3. families # <<>>
    BY <1>1, IssuedPlace
  <1>4. user.password # None /\ user.verified /\ Len(families') <= MaxFamilies
    BY <1>2, <1>3 DEF AuthInv, AuthTypeOK
  <1>5. QED
    BY <1>2, <1>3, <1>4, StepKeeps, EndsFollow, RowsStay DEF RefreshRotates

-----------------------------------------------------------------------------
(* The theorems *)

\* The inductive invariant holds of the initial state and is kept by every step.
THEOREM AuthInductive ==
    /\ AuthInit => AuthInv
    /\ AuthInv /\ [AuthNext]_authVars => AuthInv'
  <1>1. ASSUME AuthInit
        PROVE  AuthInv
    <2>1. families \in Seq(Sessions) /\ Len(families) = 0 /\ DOMAIN families = {}
      BY <1>1 DEF AuthInit
    <2>2. Idle \in Reads /\ Idle.stage = "idle"
      BY DEF Idle, Reads
    <2>3. AuthTypeOK
      <3>1. 0 \in 0..MaxChanges /\ 0 \in 0..MaxCodes /\ 0 <= MaxFamilies
        BY AuthAssumption
      <3>2. user \in [password : Password \cup {None}, verified : BOOLEAN, changes : 0..MaxChanges]
        BY <1>1, <3>1 DEF AuthInit
      <3>3. codes \in [verify : 0..MaxCodes, reset : 0..MaxCodes]
        BY <1>1, <3>1 DEF AuthInit
      <3>4. /\ calls \in [Call -> Reads]
            /\ \A c \in Call : calls[c].stage = "idle"
        BY <1>1, <2>2 DEF AuthInit
      <3>5. QED
        BY <1>1, <2>1, <3>1, <3>2, <3>3, <3>4 DEF AuthInit, AuthTypeOK
    <2>4. QED
      BY <1>1, <2>1, <2>2, <2>3
          DEF AuthInit, AuthInv, FamiliesNeverFork, LiveAreCurrent, AnsweredAreRotated, ReadHolds
  <1>2. ASSUME AuthInv, AuthNext
        PROVE  AuthInv'
    <2>1. CASE AccountSteps
      BY <1>2, <2>1, TransactionKeeps, PasswordStepKeeps, AccountStepKeeps DEF AccountSteps
    <2>2. CASE SessionSteps
      BY <1>2, <2>2, ChecksKeep, LoginKeeps, RefreshKeeps, LogoutKeeps DEF SessionSteps
    <2>3. QED
      BY <1>2, <2>1, <2>2 DEF AuthNext
  <1>3. ASSUME AuthInv, UNCHANGED authVars
        PROVE  AuthInv'
    BY <1>3, SessionsUntouched, CallsStay, RowsStay DEF authVars
  <1>4. QED
    BY <1>1, <1>2, <1>3

\* AuthSpec always satisfies it.
THEOREM AuthInvariant == AuthSpec => []AuthInv
  BY AuthInductive, PTL DEF AuthSpec

\* Type correctness: a handler never holds a token that was not issued, and sessions
\* exist only for an account that is verified.
THEOREM AuthTypeCorrect == AuthSpec => []AuthTypeOK
  <1>1. AuthInv => AuthTypeOK
    BY DEF AuthInv
  <1>2. QED
    BY <1>1, AuthInvariant, PTL

\* No session forks, and a token that was answered twice has its family revoked,
\* however many refreshes of it overlap (rotateRefreshToken).
THEOREM NoFamilyForks == AuthSpec => []FamiliesNeverFork
  <1>1. AuthInv => FamiliesNeverFork
    BY DEF AuthInv
  <1>2. QED
    BY <1>1, AuthInvariant, PTL

\* No step takes a session, a revocation or a rotation back.
LEMMA StepsAdvance ==
    ASSUME AuthInv, AuthNext
    PROVE  Advances
  <1>1. families \in Seq(Sessions)
    BY DEF AuthInv
  <1>2. CASE UNCHANGED families
    <2>1. Len(families) \in Nat /\ \A f \in DOMAIN families : Len(families[f].rotated) \in Nat
      BY <1>1 DEF Sessions
    <2>2. QED
      BY <1>1, <1>2, <2>1 DEF Advances
  <1>3. ASSUME NEW pw \in Password, ReplacePassword(pw)
        PROVE  Advances
    <2>1. families' = RevokedIn(families, DOMAIN families)
      BY <1>3 DEF ReplacePassword, RevokedIn
    <2>2. QED
      BY <1>1, <2>1, RevokingAdvances
  <1>4. ASSUME NEW c \in Call, LogoutRevokes(c)
        PROVE  Advances
    <2>1. calls[c].token \in Issued
      BY <1>4 DEF AuthInv, AuthTypeOK, LogoutRevokes
    <2>2. families' = RevokedIn(families, {calls[c].token[1]})
      BY <1>1, <1>4, <2>1, IssuedPlace, RevokedIsRevokedIn DEF LogoutRevokes
    <2>3. QED
      BY <1>1, <2>2, RevokingAdvances
  <1>5. ASSUME NEW c \in Call, RefreshRotates(c)
        PROVE  Advances
    <2>1. calls[c].token \in Issued
      BY <1>5 DEF AuthInv, AuthTypeOK, RefreshRotates
    <2>2. QED
      BY <1>5, <2>1, RotatedKeeps DEF RefreshRotates
  <1>6. CASE AccountSteps
    BY <1>2, <1>3, <1>6 DEF AccountSteps, VerifyEmail, ForgotPassword, CodeExpires, ReplaceWhitelist,
        ResetPassword, CreateVerifiedUser, SetUserPassword, RegisterCreates, Resend,
        IssueVerificationCode, OperatorChecks, OperatorSeeds, OperatorVerifies, OperatorChanges,
        RegisterChecks
  <1>7. CASE SessionSteps
    BY <1>2, <1>4, <1>5, <1>7, LoginKeeps DEF SessionSteps, LoginChecks, RefreshChecks, LogoutChecks
  <1>8. QED
    BY <1>6, <1>7 DEF AuthNext

\* Nor the operator's chosen password: the late seed finds a row and does nothing.
LEMMA OperatorStays ==
    ASSUME AuthNext, operator = "changed"
    PROVE  operator' = "changed"
  <1>1. CASE AccountSteps
    BY <1>1 DEF AccountSteps, VerifyEmail, ForgotPassword, CodeExpires, ReplaceWhitelist,
        ResetPassword, CreateVerifiedUser, SetUserPassword, RegisterCreates, Resend,
        IssueVerificationCode, OperatorChecks, OperatorSeeds, Seed, None, OperatorVerifies,
        OperatorChanges, RegisterChecks
  <1>2. CASE SessionSteps
    BY <1>2 DEF SessionSteps, LoginCreates, RefreshRotates, LogoutRevokes, LoginChecks,
        RefreshChecks, LogoutChecks
  <1>3. QED
    BY <1>1, <1>2 DEF AuthNext

\* No step takes back a revocation or the operator's password, and after every step
\* the live sessions are those stored since the last change of the password.
THEOREM PasswordChangesHold == AuthSpec => PasswordChangesStick
  <1>1. ASSUME AuthInv, AuthInv', AuthNext
        PROVE  /\ \A f \in DOMAIN families : families[f].revoked => families'[f].revoked
               /\ \A f \in DOMAIN families' :
                    ~families'[f].revoked => families'[f].after = user'.changes
               /\ operator = "changed" => operator' = "changed"
    BY <1>1, StepsAdvance, OperatorStays, AdvancesKeeps DEF AuthInv, LiveAreCurrent
  <1>2. AuthInv /\ AuthInv' /\ [AuthNext]_authVars
          => [/\ \A f \in DOMAIN families : families[f].revoked => families'[f].revoked
              /\ \A f \in DOMAIN families' :
                    ~families'[f].revoked => families'[f].after = user'.changes
              /\ operator = "changed" => operator' = "changed"]_authVars
    BY <1>1
  <1>3. QED
    BY <1>2, AuthInvariant, PTL DEF AuthSpec, PasswordChangesStick
=============================================================================
