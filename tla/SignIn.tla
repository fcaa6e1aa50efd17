------------------------------- MODULE SignIn -------------------------------
(***************************************************************************)
(* Signing in to one account (identity.service.ts): the password with its  *)
(* lockout, the second factor with its challenges, enrolment, and the      *)
(* throttle of rate-limit.service.ts.  The user row is read, awaited on    *)
(* and written by id; challenges and the throttle live in the memory of    *)
(* the process.  What a successful sign-in opens is in SessionRotation.    *)
(***************************************************************************)
EXTENDS Naturals, FiniteSets

CONSTANTS
    Requests,     \* requests that may be in progress at once
    Challenges,   \* the challenge ids that may be outstanding at once
    Codes,        \* the recovery codes of one enrolment
    LockAt,       \* failed attempts that lock the account
    MaxGuesses,   \* wrong codes that a challenge survives, plus one
    MaxFailures,  \* loginMaxFailures of the throttle
    Null

SignInAssumption ==
    /\ LockAt \in Nat \ {0} /\ MaxGuesses \in Nat \ {0} /\ MaxFailures \in Nat \ {0}
    /\ IsFiniteSet(Requests) /\ Requests # {} /\ Null \notin Challenges

VARIABLES
    user,        \* the sign-in columns of the user row
    codes,       \* the recovery codes that are not used
    challenge,   \* mfaChallenges: the entry, and what requests still hold of it
    failures,    \* the failures in the window of the throttle
    pending,     \* what each request is in the middle of
    missed,      \* history: was a failure written since no request was in progress?
    rounds       \* history: how often that was so, up to LockAt, since a right or a
                 \* new password

tally == <<missed, rounds>>
signInVars == <<user, codes, challenge, failures, pending, tally>>
-----------------------------------------------------------------------------
\* The count of failures is not told apart from LockAt on; lockedUntil is
\* NULL, in the future or past.
UserRow == [failed: 0..LockAt, locked: {"no", "yes", "past"},
            secret: BOOLEAN, enabled: BOOLEAN]
Entry == [live: BOOLEAN, fresh: BOOLEAN, attempts: Nat]
Unissued == [live |-> FALSE, fresh |-> FALSE, attempts |-> 0]

Stages == {"idle", "admitted", "verify", "failing", "verified", "cleared",
           "mfa", "mfaRead", "mfaWrong", "mfaWritten", "recovery", "recovered",
           "enrol", "enrolRead", "confirm", "confirmRead", "confirmed",
           "self", "disable"}
Pending == [at: Stages, holds: Challenges \cup {Null}, seen: UserRow \cup {Null}]
Idle == [at |-> "idle", holds |-> Null, seen |-> Null]

Init ==
    /\ user = [failed |-> 0, locked |-> "no", secret |-> FALSE, enabled |-> FALSE]
    /\ codes = {} /\ failures = 0
    /\ challenge = [c \in Challenges |-> Unissued]
    /\ pending = [r \in Requests |-> Idle]
    /\ missed = FALSE /\ rounds = 0

At(r, stage) == pending[r].at = stage
Goto(r, stage) == pending' = [pending EXCEPT ![r].at = stage]
Read(r, stage) == pending' = [pending EXCEPT ![r].at = stage, ![r].seen = user]
End(r) == pending' = [pending EXCEPT ![r] = Idle]
Seen(r) == pending[r].seen

Bump(n) == IF n < LockAt THEN n + 1 ELSE n
Delete(c) == challenge' = [challenge EXCEPT ![c].live = FALSE]
Usable(c) == challenge[c].live /\ challenge[c].fresh

\* A round ends when a request begins and no other is in progress.
Begin ==
    LET quiet == \A r \in Requests : At(r, "idle") IN
    /\ rounds' = IF quiet /\ missed THEN Bump(rounds) ELSE rounds
    /\ missed' = (missed /\ ~quiet)
Miss == missed' = TRUE /\ UNCHANGED rounds
Forgive == missed' = FALSE /\ rounds' = 0
-----------------------------------------------------------------------------
\* login: assertLoginAllowed, on the failures recorded so far.
BeginLogin(r) ==
    /\ At(r, "idle") /\ failures < MaxFailures
    /\ Goto(r, "admitted") /\ Begin
    /\ UNCHANGED <<user, codes, challenge, failures>>

\* Wrong variant: a locked account goes on to the password check.
ReadLoginUnlocked(r) ==
    /\ At(r, "admitted") /\ Read(r, "verify")
    /\ UNCHANGED <<user, codes, challenge, failures>>

\* The row is read; a locked account is refused.
ReadLogin(r) ==
    /\ At(r, "admitted")
    /\ IF user.locked = "yes" THEN End(r) ELSE Read(r, "verify")
    /\ UNCHANGED <<user, codes, challenge, failures>>

\* A wrong password is first recorded in memory, then in the row read before.
WrongPassword(r) ==
    /\ At(r, "verify")
    /\ failures' = failures + 1
    /\ Goto(r, "failing")
    /\ UNCHANGED <<user, codes, challenge>>

\* Wrong variant: the count begins anew when a lock has run out.
CommitFailureAnew(r) ==
    /\ At(r, "failing")
    /\ LET n == IF Seen(r).locked = "past" THEN 1 ELSE Bump(Seen(r).failed) IN
       user' = [user EXCEPT !.failed = n, !.locked = IF n >= LockAt THEN "yes" ELSE "no"]
    /\ End(r) /\ Miss
    /\ UNCHANGED <<codes, challenge, failures>>

CommitFailure(r) ==
    /\ At(r, "failing")
    /\ LET n == Bump(Seen(r).failed) IN
       user' = [user EXCEPT !.failed = n, !.locked = IF n >= LockAt THEN "yes" ELSE "no"]
    /\ End(r) /\ Miss
    /\ UNCHANGED <<codes, challenge, failures>>

RightPassword(r) ==
    /\ At(r, "verify")
    /\ user' = [user EXCEPT !.failed = 0, !.locked = "no"]
    /\ Goto(r, "verified") /\ Forgive
    /\ UNCHANGED <<codes, challenge, failures>>

ClearFailures(r) ==
    /\ At(r, "verified")
    /\ failures' = 0
    /\ Goto(r, "cleared")
    /\ UNCHANGED <<user, codes, challenge>>

\* A challenge is due when the row that was read has a second factor, or a
\* membership read now carries a role that mandates one (an input).
Challenge(r, c) ==
    /\ At(r, "cleared")
    /\ ~challenge[c].live /\ \A q \in Requests : pending[q].holds # c
    /\ challenge' = [challenge EXCEPT ![c] = [live |-> TRUE, fresh |-> TRUE, attempts |-> 0]]
    /\ End(r)
    /\ UNCHANGED <<user, codes, failures>>

SignedIn(r) ==
    /\ At(r, "cleared") /\ ~(Seen(r).secret /\ Seen(r).enabled)
    /\ End(r)
    /\ UNCHANGED <<user, codes, challenge, failures>>
-----------------------------------------------------------------------------
\* verifyMfa and the two enrolment endpoints get hold of a challenge.  An
\* expired one is dropped; so is every entry that a request finds expired.
Hold(r, c, stage) ==
    /\ At(r, "idle") /\ Usable(c)
    /\ pending' = [pending EXCEPT ![r].at = stage, ![r].holds = c]
    /\ Begin
    /\ UNCHANGED <<user, codes, challenge, failures>>
DropExpired(c) ==
    /\ challenge[c].live /\ ~challenge[c].fresh
    /\ Delete(c)
    /\ UNCHANGED <<user, codes, failures, pending>>

ReadMfa(r) ==
    /\ At(r, "mfa")
    /\ IF user.secret THEN Read(r, "mfaRead") ELSE End(r)
    /\ UNCHANGED <<user, codes, challenge, failures>>

RightCode(r) ==
    /\ At(r, "mfaRead")
    /\ Delete(pending[r].holds)
    /\ End(r)
    /\ UNCHANGED <<user, codes, failures>>

\* A code of the other format is looked up among the unused ones, marked used
\* by id, and the challenge is dropped when that has returned.
FindRecovery(r) ==
    /\ At(r, "mfaRead") /\ codes # {}
    /\ Goto(r, "recovery")
    /\ UNCHANGED <<user, codes, challenge, failures>>
UseRecovery(r, x) ==
    /\ At(r, "recovery")
    /\ codes' = codes \ {x}
    /\ Goto(r, "recovered")
    /\ UNCHANGED <<user, challenge, failures>>
Recovered(r) ==
    /\ At(r, "recovered")
    /\ Delete(pending[r].holds)
    /\ End(r)
    /\ UNCHANGED <<user, codes, failures>>

\* A wrong code counts on the entry at once, on the row later, and the entry
\* is dropped after that.
WrongCode(r) ==
    /\ At(r, "mfaRead")
    /\ challenge' = [challenge EXCEPT ![pending[r].holds].attempts = @ + 1]
    /\ Goto(r, "mfaWrong")
    /\ UNCHANGED <<user, codes, failures>>

\* Wrong variant: the failed codes are counted but never lock.
CommitWrongCodeCounted(r) ==
    /\ At(r, "mfaWrong")
    /\ user' = [user EXCEPT !.failed = Bump(Seen(r).failed), !.locked = Seen(r).locked]
    /\ Goto(r, "mfaWritten") /\ Miss
    /\ UNCHANGED <<codes, challenge, failures>>

CommitWrongCode(r) ==
    /\ At(r, "mfaWrong")
    /\ LET n == Bump(Seen(r).failed) IN
       user' = [user EXCEPT !.failed = n,
                            !.locked = IF n >= LockAt THEN "yes" ELSE Seen(r).locked]
    /\ Goto(r, "mfaWritten") /\ Miss
    /\ UNCHANGED <<codes, challenge, failures>>
DropSpent(r) ==
    /\ At(r, "mfaWritten")
    /\ LET c == pending[r].holds IN
       challenge' = [challenge EXCEPT ![c].live = @ /\ challenge[c].attempts < MaxGuesses]
    /\ End(r)
    /\ UNCHANGED <<user, codes, failures>>
-----------------------------------------------------------------------------
\* enrolForChallenge: a secret for an account whose factor is not enabled.
ReadEnrol(r) ==
    /\ At(r, "enrol")
    /\ IF user.secret /\ user.enabled THEN End(r) ELSE Goto(r, "enrolRead")
    /\ UNCHANGED <<user, codes, challenge, failures>>
NewSecret == user' = [user EXCEPT !.secret = TRUE, !.enabled = FALSE]
CommitEnrol(r) ==
    /\ At(r, "enrolRead") /\ NewSecret /\ End(r)
    /\ UNCHANGED <<codes, challenge, failures>>

\* confirmEnrolmentForChallenge.  Enabling stores ten more recovery codes.
ReadConfirm(r) ==
    /\ At(r, "confirm")
    /\ IF user.secret /\ ~user.enabled THEN Goto(r, "confirmRead") ELSE End(r)
    /\ UNCHANGED <<user, codes, challenge, failures>>
Enable == user' = [user EXCEPT !.enabled = TRUE] /\ codes' = Codes
ConfirmEnrol(r) ==
    /\ At(r, "confirmRead") /\ Enable /\ Goto(r, "confirmed")
    /\ UNCHANGED <<challenge, failures>>
EnrolledSignIn(r) ==
    /\ At(r, "confirmed")
    /\ Delete(pending[r].holds)
    /\ End(r)
    /\ UNCHANGED <<user, codes, failures>>

\* Wrong variant: a wrong code never uses the challenge up.
WrongConfirmKept(r) ==
    /\ At(r, "confirmRead")
    /\ challenge' = [challenge EXCEPT ![pending[r].holds].attempts = @ + 1]
    /\ End(r)
    /\ UNCHANGED <<user, codes, failures>>

WrongConfirm(r) ==
    /\ At(r, "confirmRead")
    /\ LET c == pending[r].holds
           n == challenge[c].attempts + 1 IN
       challenge' = [challenge EXCEPT ![c].attempts = n, ![c].live = @ /\ n < MaxGuesses]
    /\ End(r)
    /\ UNCHANGED <<user, codes, failures>>

\* enrolMfa, confirmMfa and disableMfa of a signed-in user.
EnrolMfa ==
    /\ NewSecret
    /\ UNCHANGED <<codes, challenge, failures, pending>>
ReadConfirmMfa(r) ==
    /\ At(r, "idle") /\ user.secret /\ Goto(r, "self") /\ Begin
    /\ UNCHANGED <<user, codes, challenge, failures>>
CommitConfirmMfa(r) ==
    /\ At(r, "self") /\ Enable /\ End(r)
    /\ UNCHANGED <<challenge, failures>>
ReadDisableMfa(r) ==
    /\ At(r, "idle") /\ Goto(r, "disable") /\ Begin
    /\ UNCHANGED <<user, codes, challenge, failures>>
CommitDisableMfa(r) ==
    /\ At(r, "disable")
    /\ user' = [user EXCEPT !.secret = FALSE, !.enabled = FALSE]
    /\ codes' = {}
    /\ End(r)
    /\ UNCHANGED <<challenge, failures>>
-----------------------------------------------------------------------------
\* resetPassword lifts the lock; time runs a lock, a challenge or a failure in
\* the window out; the process restarts.
ResetPassword ==
    /\ user' = [user EXCEPT !.failed = 0, !.locked = "no"] /\ Forgive
    /\ UNCHANGED <<codes, challenge, failures, pending>>
LockExpires ==
    /\ user.locked = "yes" /\ user' = [user EXCEPT !.locked = "past"]
    /\ UNCHANGED <<codes, challenge, failures, pending>>
ChallengeExpires(c) ==
    /\ challenge[c].fresh /\ challenge' = [challenge EXCEPT ![c].fresh = FALSE]
    /\ UNCHANGED <<user, codes, failures, pending>>
FailureAges ==
    /\ failures > 0 /\ failures' = failures - 1
    /\ UNCHANGED <<user, codes, challenge, pending>>
Restart ==
    /\ challenge' = [c \in Challenges |-> Unissued] /\ failures' = 0
    /\ pending' = [r \in Requests |-> Idle]
    /\ UNCHANGED <<user, codes>>

Login(r) ==
    \/ BeginLogin(r) \/ CommitFailure(r) \/ RightPassword(r)
    \/ /\ UNCHANGED tally
       /\ \/ ReadLogin(r) \/ WrongPassword(r) \/ ClearFailures(r) \/ SignedIn(r)
          \/ \E c \in Challenges : Challenge(r, c)
SecondFactor(r) ==
    \/ CommitWrongCode(r)
    \/ \E c \in Challenges, stage \in {"mfa", "enrol", "confirm"} : Hold(r, c, stage)
    \/ /\ UNCHANGED tally
       /\ \/ ReadMfa(r) \/ RightCode(r) \/ FindRecovery(r) \/ Recovered(r) \/ WrongCode(r)
          \/ DropSpent(r) \/ \E x \in Codes : UseRecovery(r, x)
Enrolment(r) ==
    \/ ReadConfirmMfa(r) \/ ReadDisableMfa(r)
    \/ /\ UNCHANGED tally
       /\ \/ ReadEnrol(r) \/ CommitEnrol(r) \/ ReadConfirm(r) \/ ConfirmEnrol(r)
          \/ EnrolledSignIn(r) \/ WrongConfirm(r)
          \/ CommitConfirmMfa(r) \/ CommitDisableMfa(r)

Next ==
    \/ \E r \in Requests : Login(r) \/ SecondFactor(r) \/ Enrolment(r)
    \/ ResetPassword
    \/ /\ UNCHANGED tally
       /\ \/ \E c \in Challenges : DropExpired(c) \/ ChallengeExpires(c)
          \/ EnrolMfa \/ LockExpires \/ FailureAges \/ Restart

Spec == Init /\ [][Next]_signInVars
-----------------------------------------------------------------------------
TypeOK ==
    /\ user \in UserRow /\ codes \subseteq Codes
    /\ challenge \in [Challenges -> Entry]
    /\ failures \in Nat
    /\ pending \in [Requests -> Pending]
    /\ missed \in BOOLEAN /\ rounds \in 0..LockAt

Overlap == Cardinality(Requests) - 1

\* The check of a limit and the count towards it are apart by an await, yet
\* no limit is exceeded by more than the other requests in progress: neither
\* that on wrong codes per challenge nor that on failed sign-ins.
GuessesBounded ==
    /\ \A c \in Challenges : challenge[c].attempts <= MaxGuesses + Overlap
    /\ failures <= MaxFailures + Overlap

\* The count is read, and written after an await, so failures that overlap may
\* count as one, and one that read long ago takes back what others counted.  Yet
\* nothing is taken back of what was counted before the requests in progress
\* began: the account is locked, or was until the lock ran out, once LockAt times
\* a failure fell between two moments at which no request was in progress, and no
\* right password and no new one since.
FailuresLock == rounds >= LockAt => user.locked # "no"

AttemptsCounted == GuessesBounded /\ FailuresLock

\* A lock is lifted by time, by a new password, or by a request that passed
\* the check of the lock before it was set: never by one that began after.
LockStands ==
    [][ user.locked = "yes" /\ user'.locked # "yes" =>
          \/ LockExpires \/ ResetPassword
          \/ \E r \in Requests : /\ Seen(r) # Null /\ pending'[r].at # pending[r].at
                                 /\ Seen(r).locked # "yes" ]_signInVars
=============================================================================
