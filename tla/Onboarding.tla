----------------------------- MODULE Onboarding -----------------------------
(***************************************************************************)
(* How one person comes to an account and to a seat in one organisation:   *)
(* registration and the verification link (identity.service.ts),           *)
(* invitations, memberships, roles and deactivation (tenancy.service.ts).  *)
(* Registering and accepting an invitation both create the row of the      *)
(* email; nothing but its unique index keeps them apart.                   *)
(***************************************************************************)
EXTENDS Naturals

CONSTANTS
    Requests,      \* requests that may be in progress at once
    Links,         \* the verification tokens
    Invitations,   \* the invitation rows
    Roles,         \* the roles of the organisation
    Mandatory,     \* those of them that mandate a second factor
    Null

ASSUME OnboardingAssumption ==
    Mandatory \subseteq Roles /\ Null \notin Roles \cup Links \cup Invitations

VARIABLES
    account,      \* the user row
    link,         \* password_reset_token rows of purpose VERIFY_EMAIL
    invitation,   \* the invitation rows
    seat,         \* the membership row of this person and organisation
    step          \* what each request is in the middle of

onboardingVars == <<account, link, invitation, seat, step>>
-----------------------------------------------------------------------------
AccountRow == [status: {"NONE", "INVITED", "ACTIVE", "DISABLED"},
               verified: BOOLEAN, deleted: BOOLEAN, factor: BOOLEAN]
InvitationRow == [status: {"NONE", "PENDING", "ACCEPTED", "REVOKED"},
                  expired: BOOLEAN, role: Roles \cup {Null}]
SeatRow == [status: {"NONE", "LIVE", "DELETED"}, role: Roles \cup {Null}]

NoAccount == [status |-> "NONE", verified |-> FALSE, deleted |-> FALSE, factor |-> FALSE]
NoInvitation == [status |-> "NONE", expired |-> FALSE, role |-> Null]

\* A request is at a stage, with the row it is about and what it saw there.
Stages == {"idle", "register", "issue", "write", "verify", "invite",
           "accept", "create", "join", "seat", "accepted", "disable"}
Step == [at: Stages, link: Links \cup {Null}, invitation: Invitations \cup {Null},
         role: Roles \cup {Null}, found: BOOLEAN]
Idle == [at |-> "idle", link |-> Null, invitation |-> Null, role |-> Null, found |-> FALSE]

Init ==
    /\ account = NoAccount
    /\ link = [l \in Links |-> "none"]
    /\ invitation = [i \in Invitations |-> NoInvitation]
    /\ seat = [status |-> "NONE", role |-> Null]
    /\ step = [r \in Requests |-> Idle]

At(r, stage) == step[r].at = stage
Goto(r, stage) == step' = [step EXCEPT ![r].at = stage]
End(r) == step' = [step EXCEPT ![r] = Idle]
Start(r, next) ==
    /\ At(r, "idle")
    /\ step' = [step EXCEPT ![r] = next]
    /\ UNCHANGED <<account, link, invitation, seat>>
-----------------------------------------------------------------------------
\* register: is there a row for the email?
BeginRegister(r) ==
    Start(r, [Idle EXCEPT !.at = "register", !.found = account.status # "NONE"])

\* Wrong variant: the insert replaces the row that another request created.
CreateRegisteredOver(r) ==
    /\ At(r, "register")
    /\ IF step[r].found THEN UNCHANGED account
       ELSE account' = [NoAccount EXCEPT !.status = "INVITED"]
    /\ Goto(r, "issue")
    /\ UNCHANGED <<link, invitation, seat>>

\* If there was none it is created; the index refuses a second row, and with it
\* the request.
CreateRegistered(r) ==
    /\ At(r, "register")
    /\ CASE step[r].found -> Goto(r, "issue") /\ UNCHANGED account
         [] ~step[r].found /\ account.status = "NONE" ->
              account' = [NoAccount EXCEPT !.status = "INVITED"] /\ Goto(r, "issue")
         [] OTHER -> End(r) /\ UNCHANGED account
    /\ UNCHANGED <<link, invitation, seat>>

\* issueEmailVerification, also by resendVerification: nothing for an account
\* that is verified; else a token, which is stored when its hash is ready.
BeginResend(r) == Start(r, [Idle EXCEPT !.at = "issue"])
ReadForLink(r) ==
    /\ At(r, "issue")
    /\ IF account.status = "NONE" \/ account.verified THEN End(r) ELSE Goto(r, "write")
    /\ UNCHANGED <<account, link, invitation, seat>>
WriteLink(r, l) ==
    /\ At(r, "write") /\ link[l] = "none"
    /\ link' = [link EXCEPT ![l] = "unused"]
    /\ End(r)
    /\ UNCHANGED <<account, invitation, seat>>

\* verifyEmail: the token is found among the unused ones, and used later, by id,
\* in the transaction that activates the account whatever its status was.
BeginVerify(r, l) ==
    /\ link[l] = "unused"
    /\ Start(r, [Idle EXCEPT !.at = "verify", !.link = l])
CommitVerify(r) ==
    /\ At(r, "verify")
    /\ account' = [account EXCEPT !.status = "ACTIVE", !.verified = TRUE]
    /\ link' = [link EXCEPT ![step[r].link] = "used"]
    /\ End(r)
    /\ UNCHANGED <<invitation, seat>>
LinkExpires(l) ==
    /\ link[l] = "unused" /\ link' = [link EXCEPT ![l] = "expired"]
    /\ UNCHANGED <<account, invitation, seat, step>>
-----------------------------------------------------------------------------
\* inviteUser: a role that mandates a second factor needs an account that has
\* one; the permissions of the inviter are taken to suffice.
BeginInvite(r, role) ==
    /\ role \in Mandatory => account.factor
    /\ Start(r, [Idle EXCEPT !.at = "invite", !.role = role])
CreateInvitation(r, i) ==
    /\ At(r, "invite") /\ invitation[i].status = "NONE"
    /\ invitation' = [invitation EXCEPT ![i] = [status |-> "PENDING", expired |-> FALSE,
                                                role |-> step[r].role]]
    /\ End(r)
    /\ UNCHANGED <<account, link, seat>>

\* resendInvitation: a fresh token, and PENDING again whatever it was.
Resend(i) ==
    /\ invitation[i].status # "NONE"
    /\ invitation' = [invitation EXCEPT ![i].status = "PENDING", ![i].expired = FALSE]
    /\ UNCHANGED <<account, link, seat, step>>
Revoke(i) ==
    /\ invitation[i].status # "NONE"
    /\ invitation' = [invitation EXCEPT ![i].status = "REVOKED"]
    /\ UNCHANGED <<account, link, seat, step>>
InvitationExpires(i) ==
    /\ invitation[i].status # "NONE" /\ ~invitation[i].expired
    /\ invitation' = [invitation EXCEPT ![i].expired = TRUE]
    /\ UNCHANGED <<account, link, seat, step>>

\* acceptInvitation, statement by statement: it has no transaction.
BeginAccept(r, i) ==
    /\ invitation[i].status = "PENDING" /\ ~invitation[i].expired
    /\ Start(r, [Idle EXCEPT !.at = "accept", !.invitation = i, !.role = invitation[i].role])
ReadAccount(r) ==
    /\ At(r, "accept")
    /\ Goto(r, IF account.status = "NONE" THEN "create" ELSE "join")
    /\ UNCHANGED <<account, link, invitation, seat>>
CreateInvited(r) ==
    /\ At(r, "create")
    /\ IF account.status # "NONE" THEN End(r) /\ UNCHANGED account
       ELSE /\ account' = [NoAccount EXCEPT !.status = "ACTIVE", !.verified = TRUE]
            /\ Goto(r, "join")
    /\ UNCHANGED <<link, invitation, seat>>

\* The seat is looked up: a live one is a conflict.
ReadSeat(r) ==
    /\ At(r, "join")
    /\ IF seat.status = "LIVE" THEN End(r)
       ELSE step' = [step EXCEPT ![r].at = "seat", ![r].found = seat.status # "NONE"]
    /\ UNCHANGED <<account, link, invitation, seat>>

\* Wrong variant: a deleted seat is left as it is, a missing one not created.
JoinNowhere(r) ==
    /\ At(r, "seat") /\ Goto(r, "accepted")
    /\ UNCHANGED <<account, link, invitation, seat>>

\* A deleted seat is revived by id, whatever it is now; a new one is refused by
\* the index on user and organisation if there is one by now.
Join(r) ==
    /\ At(r, "seat")
    /\ IF ~step[r].found /\ seat.status # "NONE" THEN End(r) /\ UNCHANGED seat
       ELSE seat' = [status |-> "LIVE", role |-> step[r].role] /\ Goto(r, "accepted")
    /\ UNCHANGED <<account, link, invitation>>

\* Wrong variant: the status of a token is written into the invitation.
MarkUsed(r) ==
    /\ At(r, "accepted")
    /\ invitation' = [invitation EXCEPT ![step[r].invitation].status = "USED"]
    /\ End(r)
    /\ UNCHANGED <<account, link, seat>>
MarkAccepted(r) ==
    /\ At(r, "accepted")
    /\ invitation' = [invitation EXCEPT ![step[r].invitation].status = "ACCEPTED"]
    /\ End(r)
    /\ UNCHANGED <<account, link, seat>>

\* A request fails, or the process dies, between two statements.
Abandon(r) ==
    /\ ~At(r, "idle") /\ End(r)
    /\ UNCHANGED <<account, link, invitation, seat>>
-----------------------------------------------------------------------------
RemoveMember ==
    /\ seat.status = "LIVE" /\ seat' = [seat EXCEPT !.status = "DELETED"]
    /\ UNCHANGED <<account, link, invitation, step>>
ChangeRole(role) ==
    /\ seat.status = "LIVE" /\ seat' = [seat EXCEPT !.role = role]
    /\ UNCHANGED <<account, link, invitation, step>>

\* deactivateUser: one transaction for the account and its seats.
Deactivate ==
    /\ account.status # "NONE" /\ ~account.deleted
    /\ account' = [account EXCEPT !.status = "DISABLED", !.deleted = TRUE]
    /\ seat' = [seat EXCEPT !.status = IF @ = "LIVE" THEN "DELETED" ELSE @]
    /\ UNCHANGED <<link, invitation, step>>

\* The second factor is confirmed, is enrolled anew (and not yet confirmed), or
\* is disabled, which a role that mandates it forbids when it is checked.
ConfirmFactor ==
    /\ account.status = "ACTIVE" /\ ~account.deleted
    /\ account' = [account EXCEPT !.factor = TRUE]
    /\ UNCHANGED <<link, invitation, seat, step>>
EnrolAgain ==
    /\ account.factor /\ ~account.deleted
    /\ account' = [account EXCEPT !.factor = FALSE]
    /\ UNCHANGED <<link, invitation, seat, step>>
BeginDisable(r) ==
    /\ account.factor /\ ~account.deleted
    /\ seat.status = "LIVE" => seat.role \notin Mandatory
    /\ Start(r, [Idle EXCEPT !.at = "disable"])
CommitDisable(r) ==
    /\ At(r, "disable")
    /\ account' = [account EXCEPT !.factor = FALSE]
    /\ End(r)
    /\ UNCHANGED <<link, invitation, seat>>

Next ==
    \/ \E r \in Requests :
          \/ BeginRegister(r) \/ CreateRegistered(r) \/ BeginResend(r) \/ ReadForLink(r)
          \/ \E l \in Links : WriteLink(r, l) \/ BeginVerify(r, l)
          \/ CommitVerify(r)
          \/ \E role \in Roles : BeginInvite(r, role)
          \/ \E i \in Invitations : CreateInvitation(r, i) \/ BeginAccept(r, i)
          \/ ReadAccount(r) \/ CreateInvited(r) \/ ReadSeat(r) \/ Join(r)
          \/ MarkAccepted(r) \/ Abandon(r)
          \/ BeginDisable(r) \/ CommitDisable(r)
    \/ \E i \in Invitations : Resend(i) \/ Revoke(i) \/ InvitationExpires(i)
    \/ \E l \in Links : LinkExpires(l)
    \/ \E role \in Roles : ChangeRole(role)
    \/ RemoveMember \/ Deactivate \/ ConfirmFactor \/ EnrolAgain

Spec == Init /\ [][Next]_onboardingVars
-----------------------------------------------------------------------------
TypeOK ==
    /\ account \in AccountRow
    /\ link \in [Links -> {"none", "unused", "used", "expired"}]
    /\ invitation \in [Invitations -> InvitationRow]
    /\ seat \in SeatRow
    /\ step \in [Requests -> Step]

\* Whichever way a person came in, through registrations, links and acceptances
\* that overlap: an active account has a verified address, and an accepted
\* invitation has left a seat that belongs to an existing account.
Admitted ==
    /\ account.status = "ACTIVE" => account.verified
    /\ \A i \in Invitations : invitation[i].status = "ACCEPTED" => seat.status # "NONE"
    /\ seat.status # "NONE" => account.status # "NONE"

\* A registration that overlaps an acceptance never takes back what that gave:
\* an account is never lost, and one that is verified never waits for its
\* verification again.
NeverDemoted ==
    [][ /\ account.status # "NONE" => account'.status # "NONE"
        /\ account.verified => account'.verified /\ account'.status # "INVITED" ]_onboardingVars
=============================================================================
