--------------------------- MODULE AccountsProofs ---------------------------
(***************************************************************************)
(* Proofs about the parts of MCAccounts: becoming a member, signing in,    *)
(* staying signed in, the gate that closes the program for maintenance,    *)
(* and what the browser makes of it.  Each is for any number of requests   *)
(* that overlap and any value of the limits.                               *)
(***************************************************************************)
EXTENDS MCAccounts, FiniteSetTheorems, SequenceTheorems, TLAPS

-----------------------------------------------------------------------------
(***************************************************************************)
(* Becoming a member.  acceptInvitation has no transaction: what makes its *)
(* result right is what a request that is halfway through may rely on.     *)
(***************************************************************************)
\* An account that does not exist, or waits for its verification, is unverified.
Waits == account.status \in {"NONE", "INVITED"} => ~account.verified

\* A request that is past the account has one, and one past the seat has a seat.
Halfway ==
    \A r \in Requests :
        /\ step[r].at \in {"join", "seat", "accepted"} => account.status # "NONE"
        /\ step[r].at = "accepted" => seat.status # "NONE"

\* A request keeps hold of the row that its stage is about.
InHand ==
    \A r \in Requests :
        /\ step[r].at = "verify" => step[r].link \in Links
        /\ step[r].at \in {"accept", "create", "join", "seat", "accepted"} =>
              step[r].invitation \in Invitations
        /\ step[r].at = "invite" => step[r].role \in Roles

OnboardingIInv == TypeOK /\ Admitted /\ Waits /\ Halfway /\ InHand

\* What one step may do to the account and the seat of a person.
Grows ==
    /\ account.status # "NONE" => account'.status # "NONE"
    /\ account.verified => account'.verified /\ account'.status # "INVITED"
    /\ seat.status # "NONE" => seat'.status # "NONE"
-----------------------------------------------------------------------------
LEMMA OnboardingInit == Init => OnboardingIInv
<1> SUFFICES ASSUME Init PROVE OnboardingIInv
  OBVIOUS
<1>1. /\ account = NoAccount /\ seat = [status |-> "NONE", role |-> Null]
      /\ invitation = [i \in Invitations |-> NoInvitation]
      /\ \A r \in Requests : step[r] = Idle
  BY DEF Init
<1>2. TypeOK
  BY DEF Init, TypeOK, AccountRow, NoAccount, InvitationRow, NoInvitation, SeatRow,
         Step, Idle, Stages
<1>3. Admitted /\ Waits
  BY <1>1 DEF Admitted, Waits, NoAccount, NoInvitation
<1>4. Halfway /\ InHand
  BY <1>1 DEF Halfway, InHand, Idle
<1> QED BY <1>2, <1>3, <1>4 DEF OnboardingIInv

\* A step that leaves the rows alone and moves one request on, or ends it.
LEMMA RequestStep ==
    ASSUME OnboardingIInv, NEW r \in Requests, NEW next \in Step,
           step' = [step EXCEPT ![r] = next],
           UNCHANGED <<account, link, invitation, seat>>,
           next.at \in {"join", "seat", "accepted"} => account.status # "NONE",
           next.at = "accepted" => seat.status # "NONE",
           next.at = "verify" => next.link \in Links,
           next.at \in {"accept", "create", "join", "seat", "accepted"} =>
              next.invitation \in Invitations,
           next.at = "invite" => next.role \in Roles
    PROVE  OnboardingIInv' /\ Grows
<1>1. /\ step \in [Requests -> Step] /\ step' \in [Requests -> Step]
      /\ \A q \in Requests : step'[q] = IF q = r THEN next ELSE step[q]
  BY DEF OnboardingIInv, TypeOK
<1>2. TypeOK'
  BY <1>1 DEF OnboardingIInv, TypeOK
<1>3. Admitted' /\ Waits' /\ Grows
  BY DEF OnboardingIInv, Admitted, Waits, Grows
<1>4. Halfway' /\ InHand'
  BY <1>1 DEF OnboardingIInv, Halfway, InHand
<1> QED BY <1>2, <1>3, <1>4 DEF OnboardingIInv

\* A step in which no request gets further than it is, whatever rows it writes,
\* keeps what the requests rely on: they move to a stage that relies on nothing,
\* or on the row that this step writes.
LEMMA RowStep ==
    ASSUME OnboardingIInv, Grows, TypeOK', Admitted', Waits',
           \A q \in Requests :
              \/ step'[q] = step[q]
              \/ step'[q].at \in {"idle", "issue"}
              \/ /\ step'[q].at \in {"join", "accepted"}
                 /\ step'[q].invitation \in Invitations
                 /\ account'.status # "NONE"
                 /\ step'[q].at = "accepted" => seat'.status # "NONE"
    PROVE  OnboardingIInv'
<1>1. Halfway'
  BY DEF OnboardingIInv, Grows, Halfway
<1>2. InHand'
  BY DEF OnboardingIInv, InHand
<1> QED BY <1>1, <1>2 DEF OnboardingIInv

LEMMA StagesOfRequests ==
    ASSUME OnboardingIInv, NEW r \in Requests
    PROVE  /\ step \in [Requests -> Step] /\ step[r] \in Step /\ Idle \in Step
           /\ Idle.at = "idle" /\ [step EXCEPT ![r] = Idle] \in [Requests -> Step]
           /\ \A s \in Stages :
                 LET next == [step[r] EXCEPT !.at = s] IN
                 /\ next \in Step /\ next.at = s
                 /\ next.link = step[r].link /\ next.invitation = step[r].invitation
                 /\ [step EXCEPT ![r].at = s] = [step EXCEPT ![r] = next]
                 /\ [step EXCEPT ![r].at = s] \in [Requests -> Step]
<1>1. step \in [Requests -> Step] /\ step[r] \in Step
  BY DEF OnboardingIInv, TypeOK
<1>2. Idle \in Step /\ Idle.at = "idle"
  BY DEF Step, Idle, Stages
<1>3. ASSUME NEW s \in Stages
      PROVE  LET next == [step[r] EXCEPT !.at = s] IN
             /\ next \in Step /\ next.at = s
             /\ next.link = step[r].link /\ next.invitation = step[r].invitation
             /\ [step EXCEPT ![r].at = s] = [step EXCEPT ![r] = next]
             /\ [step EXCEPT ![r].at = s] \in [Requests -> Step]
  <2> DEFINE next == [step[r] EXCEPT !.at = s]
  <2>1. /\ next.at = s /\ next.link = step[r].link
        /\ next.invitation = step[r].invitation
    BY <1>1 DEF Step
  <2>2. next \in Step
    BY <1>1 DEF Step
  <2>3. [step EXCEPT ![r].at = s] = [step EXCEPT ![r] = next]
    BY <1>1
  <2> QED BY <1>1, <2>1, <2>2, <2>3
<1> QED BY <1>1, <1>2, <1>3

-----------------------------------------------------------------------------
\* Registration and the verification link.
LEMMA RegistrationStep ==
    ASSUME OnboardingIInv, NEW r \in Requests,
           \/ BeginRegister(r) \/ CreateRegistered(r) \/ BeginResend(r) \/ ReadForLink(r)
           \/ \E l \in Links : WriteLink(r, l) \/ BeginVerify(r, l)
           \/ CommitVerify(r)
    PROVE  OnboardingIInv' /\ Grows
<1>1. CASE BeginRegister(r)
  <2> DEFINE next == [Idle EXCEPT !.at = "register", !.found = account.status # "NONE"]
  <2>1. next \in Step /\ next.at = "register"
    BY DEF Step, Idle, Stages
  <2> QED BY <1>1, <2>1, RequestStep DEF BeginRegister, Start
<1>2. CASE CreateRegistered(r)
  <2>1. /\ UNCHANGED <<link, invitation, seat>>
        /\ step' = [step EXCEPT ![r].at = "issue"] \/ step' = [step EXCEPT ![r] = Idle]
        /\ \/ account' = account
           \/ /\ account.status = "NONE"
              /\ account' = [NoAccount EXCEPT !.status = "INVITED"]
    BY <1>2 DEF CreateRegistered, Goto, End
  <2>2. account \in AccountRow /\ account' \in AccountRow
    BY <2>1 DEF OnboardingIInv, TypeOK, AccountRow, NoAccount
  <2>3. Grows /\ Admitted' /\ Waits'
    BY <2>1, <2>2 DEF OnboardingIInv, Grows, Admitted, Waits, NoAccount
  <2>4. "issue" \in Stages
    BY DEF Stages
  <2>5. TypeOK'
    BY <2>1, <2>2, <2>4, StagesOfRequests DEF OnboardingIInv, TypeOK
  <2>6. \A q \in Requests : step'[q] = step[q] \/ step'[q].at \in {"idle", "issue"}
    BY <2>1, StagesOfRequests DEF OnboardingIInv, TypeOK, Step
  <2> QED BY <2>3, <2>5, <2>6, RowStep
<1>3. CASE BeginResend(r)
  <2> DEFINE next == [Idle EXCEPT !.at = "issue"]
  <2>1. next \in Step /\ next.at = "issue"
    BY DEF Step, Idle, Stages
  <2> QED BY <1>3, <2>1, RequestStep DEF BeginResend, Start
<1>4. CASE ReadForLink(r)
  <2> DEFINE next == [step[r] EXCEPT !.at = "write"]
  <2>1. next \in Step /\ next.at = "write" /\ Idle \in Step /\ Idle.at = "idle"
    BY StagesOfRequests DEF Stages, Step
  <2>2. \/ step' = [step EXCEPT ![r] = Idle]
        \/ step' = [step EXCEPT ![r] = next]
    BY <1>4, StagesOfRequests DEF ReadForLink, Goto, End, Stages
  <2>3. UNCHANGED <<account, link, invitation, seat>>
    BY <1>4 DEF ReadForLink
  <2> HIDE DEF next
  <2> QED BY <2>1, <2>2, <2>3, RequestStep
<1>5. ASSUME NEW l \in Links, WriteLink(r, l) PROVE OnboardingIInv' /\ Grows
  <2>1. /\ UNCHANGED <<account, invitation, seat>>
        /\ link' = [link EXCEPT ![l] = "unused"] /\ step' = [step EXCEPT ![r] = Idle]
    BY <1>5 DEF WriteLink, End
  <2>2. TypeOK'
    BY <2>1, StagesOfRequests DEF OnboardingIInv, TypeOK
  <2>3. Grows /\ Admitted' /\ Waits'
    BY <2>1 DEF OnboardingIInv, Grows, Admitted, Waits
  <2>4. \A q \in Requests : step'[q] = step[q] \/ step'[q].at = "idle"
    BY <2>1, StagesOfRequests
  <2> QED BY <2>2, <2>3, <2>4, RowStep
<1>6. ASSUME NEW l \in Links, BeginVerify(r, l) PROVE OnboardingIInv' /\ Grows
  <2> DEFINE next == [Idle EXCEPT !.at = "verify", !.link = l]
  <2>1. next \in Step /\ next.at = "verify" /\ next.link \in Links
    BY DEF Step, Idle, Stages
  <2> QED BY <1>6, <2>1, RequestStep DEF BeginVerify, Start
<1>7. CASE CommitVerify(r)
  <2>1. /\ UNCHANGED <<invitation, seat>>
        /\ account' = [account EXCEPT !.status = "ACTIVE", !.verified = TRUE]
        /\ link' = [link EXCEPT ![step[r].link] = "used"]
        /\ step' = [step EXCEPT ![r] = Idle]
    BY <1>7 DEF CommitVerify, End
  <2>2. account \in AccountRow /\ account' \in AccountRow
        /\ account'.status = "ACTIVE" /\ account'.verified
    BY <2>1 DEF OnboardingIInv, TypeOK, AccountRow
  <2>3. step[r].link \in Links
    BY <1>7 DEF CommitVerify, At, OnboardingIInv, InHand
  <2>4. TypeOK'
    BY <2>1, <2>2, <2>3, StagesOfRequests DEF OnboardingIInv, TypeOK
  <2>5. Grows /\ Admitted' /\ Waits'
    BY <2>1, <2>2 DEF OnboardingIInv, Grows, Admitted, Waits
  <2>6. \A q \in Requests : step'[q] = step[q] \/ step'[q].at = "idle"
    BY <2>1, StagesOfRequests
  <2> QED BY <2>4, <2>5, <2>6, RowStep
<1> QED BY <1>1, <1>2, <1>3, <1>4, <1>5, <1>6, <1>7
-----------------------------------------------------------------------------
\* Invitations and their acceptance, statement by statement.
LEMMA InvitationStep ==
    ASSUME OnboardingIInv, NEW r \in Requests,
           \/ \E role \in Roles : BeginInvite(r, role)
           \/ \E i \in Invitations : CreateInvitation(r, i) \/ BeginAccept(r, i)
           \/ ReadAccount(r) \/ CreateInvited(r) \/ ReadSeat(r) \/ Join(r)
           \/ MarkAccepted(r) \/ Abandon(r)
    PROVE  OnboardingIInv' /\ Grows
<1>1. ASSUME NEW role \in Roles, BeginInvite(r, role) PROVE OnboardingIInv' /\ Grows
  <2> DEFINE next == [Idle EXCEPT !.at = "invite", !.role = role]
  <2>1. next \in Step /\ next.at = "invite" /\ next.role \in Roles
    BY DEF Step, Idle, Stages
  <2> QED BY <1>1, <2>1, RequestStep DEF BeginInvite, Start
<1>2. ASSUME NEW i \in Invitations, CreateInvitation(r, i) PROVE OnboardingIInv' /\ Grows
  <2>1. /\ UNCHANGED <<account, link, seat>> /\ step' = [step EXCEPT ![r] = Idle]
        /\ invitation' = [invitation EXCEPT ![i] =
              [status |-> "PENDING", expired |-> FALSE, role |-> step[r].role]]
    BY <1>2 DEF CreateInvitation, End
  <2>2. step[r].role \in Roles
    BY <1>2 DEF CreateInvitation, At, OnboardingIInv, InHand
  <2>3. TypeOK'
    BY <2>1, <2>2, StagesOfRequests DEF OnboardingIInv, TypeOK, InvitationRow
  <2>4. \A j \in Invitations : invitation'[j].status = "ACCEPTED" =>
                               invitation[j].status = "ACCEPTED"
    BY <2>1 DEF OnboardingIInv, TypeOK
  <2>5. Grows /\ Admitted' /\ Waits'
    BY <2>1, <2>4 DEF OnboardingIInv, Grows, Admitted, Waits
  <2>6. \A q \in Requests : step'[q] = step[q] \/ step'[q].at = "idle"
    BY <2>1, StagesOfRequests
  <2> QED BY <2>3, <2>5, <2>6, RowStep
<1>3. ASSUME NEW i \in Invitations, BeginAccept(r, i) PROVE OnboardingIInv' /\ Grows
  <2> DEFINE next == [Idle EXCEPT !.at = "accept", !.invitation = i,
                                  !.role = invitation[i].role]
  <2>1. next \in Step /\ next.at = "accept" /\ next.invitation \in Invitations
    BY DEF OnboardingIInv, TypeOK, InvitationRow, Step, Idle, Stages
  <2> QED BY <1>3, <2>1, RequestStep DEF BeginAccept, Start
<1>4. CASE ReadAccount(r)
  <2> DEFINE s == IF account.status = "NONE" THEN "create" ELSE "join"
             next == [step[r] EXCEPT !.at = s]
  <2>1. s \in Stages
    BY DEF Stages
  <2>2. next \in Step /\ next.at = s /\ next.invitation = step[r].invitation
    BY <2>1, StagesOfRequests
  <2>3. step' = [step EXCEPT ![r] = next] /\ UNCHANGED <<account, link, invitation, seat>>
    BY <1>4, <2>1, StagesOfRequests DEF ReadAccount, Goto
  <2>4. step[r].invitation \in Invitations
    BY <1>4 DEF ReadAccount, At, OnboardingIInv, InHand
  <2>5. /\ s # "accepted" /\ s # "verify" /\ s # "invite"
        /\ s \in {"join", "seat", "accepted"} => account.status # "NONE"
    OBVIOUS
  <2> HIDE DEF next, s
  <2> QED BY <2>2, <2>3, <2>4, <2>5, RequestStep
<1>5. CASE CreateInvited(r)
  <2>1. step[r].invitation \in Invitations
    BY <1>5 DEF CreateInvited, At, OnboardingIInv, InHand
  <2>2. CASE account.status # "NONE"
    <3>1. step' = [step EXCEPT ![r] = Idle] /\ UNCHANGED <<account, link, invitation, seat>>
      BY <1>5, <2>2 DEF CreateInvited, End
    <3> QED BY <3>1, StagesOfRequests, RequestStep
  <2>3. CASE account.status = "NONE"
    <3>1. /\ UNCHANGED <<link, invitation, seat>> /\ step' = [step EXCEPT ![r].at = "join"]
          /\ account' = [NoAccount EXCEPT !.status = "ACTIVE", !.verified = TRUE]
      BY <1>5, <2>3 DEF CreateInvited, Goto
    <3>2. account' \in AccountRow /\ account'.status = "ACTIVE" /\ account'.verified
      BY <3>1 DEF AccountRow, NoAccount
    <3>3. /\ step' = [step EXCEPT ![r] = [step[r] EXCEPT !.at = "join"]]
          /\ step' \in [Requests -> Step]
      BY <3>1, StagesOfRequests DEF Stages
    <3>4. TypeOK'
      BY <3>1, <3>2, <3>3 DEF OnboardingIInv, TypeOK
    <3>5. Grows /\ Admitted' /\ Waits'
      BY <3>1, <3>2 DEF OnboardingIInv, Grows, Admitted, Waits
    <3>6. \A q \in Requests : \/ step'[q] = step[q]
                              \/ step'[q].at = "join" /\ step'[q].invitation \in Invitations
      BY <2>1, <3>3, StagesOfRequests DEF Stages
    <3> QED BY <3>2, <3>4, <3>5, <3>6, RowStep
  <2> QED BY <2>2, <2>3
<1>6. CASE ReadSeat(r)
  <2> DEFINE next == [step[r] EXCEPT !.at = "seat", !.found = seat.status # "NONE"]
  <2>1. /\ next \in Step /\ next.at = "seat"
        /\ next.invitation = step[r].invitation
    <3>1. step[r] \in Step /\ "seat" \in Stages /\ (seat.status # "NONE") \in BOOLEAN
      BY StagesOfRequests DEF Stages
    <3> QED BY <3>1 DEF Step
  <2>2. step[r].invitation \in Invitations /\ account.status # "NONE"
    BY <1>6 DEF ReadSeat, At, OnboardingIInv, InHand, Halfway
  <2>3. /\ \/ step' = [step EXCEPT ![r] = Idle]
           \/ step' = [step EXCEPT ![r] = next]
        /\ UNCHANGED <<account, link, invitation, seat>>
    BY <1>6, StagesOfRequests DEF ReadSeat, End
  <2> HIDE DEF next
  <2> QED BY <2>1, <2>2, <2>3, StagesOfRequests, RequestStep
<1>7. CASE Join(r)
  <2>1. step[r].invitation \in Invitations /\ account.status # "NONE"
    BY <1>7 DEF Join, At, OnboardingIInv, InHand, Halfway
  <2>2. CASE ~step[r].found /\ seat.status # "NONE"
    <3>1. step' = [step EXCEPT ![r] = Idle] /\ UNCHANGED <<account, link, invitation, seat>>
      BY <1>7, <2>2 DEF Join, End
    <3> QED BY <3>1, StagesOfRequests, RequestStep
  <2>3. CASE ~(~step[r].found /\ seat.status # "NONE")
    <3>1. /\ UNCHANGED <<account, link, invitation>>
          /\ step' = [step EXCEPT ![r].at = "accepted"]
          /\ seat' = [status |-> "LIVE", role |-> step[r].role]
      BY <1>7, <2>3 DEF Join, Goto
    <3>2. seat' \in SeatRow /\ seat'.status = "LIVE"
      BY <3>1, StagesOfRequests DEF SeatRow, Step
    <3>3. /\ step' = [step EXCEPT ![r] = [step[r] EXCEPT !.at = "accepted"]]
          /\ step' \in [Requests -> Step]
      BY <3>1, StagesOfRequests DEF Stages
    <3>4. TypeOK'
      BY <3>1, <3>2, <3>3 DEF OnboardingIInv, TypeOK
    <3>5. Grows /\ Admitted' /\ Waits'
      BY <2>1, <3>1, <3>2 DEF OnboardingIInv, Grows, Admitted, Waits
    <3>6. \A q \in Requests :
             \/ step'[q] = step[q]
             \/ step'[q].at = "accepted" /\ step'[q].invitation \in Invitations
      BY <2>1, <3>3, StagesOfRequests DEF Stages
    <3> QED BY <2>1, <3>1, <3>2, <3>4, <3>5, <3>6, RowStep
  <2> QED BY <2>2, <2>3
<1>8. CASE MarkAccepted(r)
  <2>1. /\ UNCHANGED <<account, link, seat>> /\ step' = [step EXCEPT ![r] = Idle]
        /\ invitation' = [invitation EXCEPT ![step[r].invitation].status = "ACCEPTED"]
    BY <1>8 DEF MarkAccepted, End
  <2>2. step[r].invitation \in Invitations /\ seat.status # "NONE"
    BY <1>8 DEF MarkAccepted, At, OnboardingIInv, InHand, Halfway
  <2>3. TypeOK'
    BY <2>1, <2>2, StagesOfRequests DEF OnboardingIInv, TypeOK, InvitationRow
  <2>4. Grows /\ Admitted' /\ Waits'
    BY <2>1, <2>2 DEF OnboardingIInv, Grows, Admitted, Waits
  <2>5. \A q \in Requests : step'[q] = step[q] \/ step'[q].at = "idle"
    BY <2>1, StagesOfRequests
  <2> QED BY <2>3, <2>4, <2>5, RowStep
<1>9. CASE Abandon(r)
  <2> QED BY <1>9, StagesOfRequests, RequestStep DEF Abandon, End
<1> QED BY <1>1, <1>2, <1>3, <1>4, <1>5, <1>6, <1>7, <1>8, <1>9
-----------------------------------------------------------------------------
\* What happens to the rows in one statement, and the second factor.
LEMMA AdministrationStep ==
    ASSUME OnboardingIInv,
           \/ \E i \in Invitations : Resend(i) \/ Revoke(i) \/ InvitationExpires(i)
           \/ \E l \in Links : LinkExpires(l)
           \/ \E role \in Roles : ChangeRole(role)
           \/ RemoveMember \/ Deactivate
    PROVE  OnboardingIInv' /\ Grows
<1>1. step' = step
  BY DEF Resend, Revoke, InvitationExpires, LinkExpires, ChangeRole, RemoveMember, Deactivate
<1>2. SUFFICES TypeOK' /\ Grows /\ Admitted' /\ Waits'
  BY <1>1, RowStep
<1>3. ASSUME NEW i \in Invitations, Resend(i) \/ Revoke(i) \/ InvitationExpires(i)
      PROVE  TypeOK' /\ Grows /\ Admitted' /\ Waits'
  <2>1. /\ UNCHANGED <<account, link, seat, step>>
        /\ \E s \in {"PENDING", "REVOKED", invitation[i].status}, e \in BOOLEAN :
              invitation' = [invitation EXCEPT ![i].status = s, ![i].expired = e]
    <3>1. invitation[i] \in InvitationRow /\ invitation \in [Invitations -> InvitationRow]
      BY DEF OnboardingIInv, TypeOK
    <3>2. CASE Resend(i)
      BY <3>2 DEF Resend
    <3>3. CASE Revoke(i)
      <4> DEFINE e == invitation[i].expired
      <4>1. e \in BOOLEAN
        BY <3>1 DEF InvitationRow
      <4>2. [invitation EXCEPT ![i].status = "REVOKED"]
            = [invitation EXCEPT ![i].status = "REVOKED", ![i].expired = e]
        BY <3>1 DEF InvitationRow
      <4> HIDE DEF e
      <4> QED BY <3>3, <4>1, <4>2 DEF Revoke
    <3>4. CASE InvitationExpires(i)
      BY <3>1, <3>4 DEF InvitationExpires, InvitationRow
    <3> QED BY <1>3, <3>2, <3>3, <3>4
  <2>2. PICK s \in {"PENDING", "REVOKED", invitation[i].status}, e \in BOOLEAN :
           invitation' = [invitation EXCEPT ![i].status = s, ![i].expired = e]
    BY <2>1
  <2>3. /\ invitation' \in [Invitations -> InvitationRow]
        /\ \A j \in Invitations : invitation'[j].status = "ACCEPTED" =>
                                  invitation[j].status = "ACCEPTED"
    BY <2>2 DEF OnboardingIInv, TypeOK, InvitationRow
  <2> QED BY <2>1, <2>3 DEF OnboardingIInv, TypeOK, Grows, Admitted, Waits
<1>4. ASSUME NEW l \in Links, LinkExpires(l)
      PROVE  TypeOK' /\ Grows /\ Admitted' /\ Waits'
  BY <1>4 DEF LinkExpires, OnboardingIInv, TypeOK, Grows, Admitted, Waits
<1>5. ASSUME RemoveMember \/ \E role \in Roles : ChangeRole(role)
      PROVE  TypeOK' /\ Grows /\ Admitted' /\ Waits'
  <2>1. /\ UNCHANGED <<account, link, invitation, step>>
        /\ seat.status # "NONE" /\ seat' \in SeatRow /\ seat'.status # "NONE"
    BY <1>5 DEF RemoveMember, ChangeRole, OnboardingIInv, TypeOK, SeatRow
  <2> QED BY <2>1 DEF OnboardingIInv, TypeOK, Grows, Admitted, Waits
<1>6. CASE Deactivate
  <2>1. /\ UNCHANGED <<link, invitation, step>> /\ account.status # "NONE"
        /\ account' = [account EXCEPT !.status = "DISABLED", !.deleted = TRUE]
        /\ seat' = [seat EXCEPT !.status = IF @ = "LIVE" THEN "DELETED" ELSE @]
    BY <1>6 DEF Deactivate
  <2>2. /\ account' \in AccountRow /\ account'.status = "DISABLED"
        /\ account'.verified = account.verified
    BY <2>1 DEF OnboardingIInv, TypeOK, AccountRow
  <2>3. seat' \in SeatRow /\ (seat'.status = "NONE" <=> seat.status = "NONE")
    BY <2>1 DEF OnboardingIInv, TypeOK, SeatRow
  <2> QED BY <2>1, <2>2, <2>3 DEF OnboardingIInv, TypeOK, Grows, Admitted, Waits
<1> QED BY <1>3, <1>4, <1>5, <1>6

LEMMA FactorStep ==
    ASSUME OnboardingIInv,
           \/ ConfirmFactor \/ EnrolAgain
           \/ \E r \in Requests : BeginDisable(r) \/ CommitDisable(r)
    PROVE  OnboardingIInv' /\ Grows
<1>1. ASSUME NEW r \in Requests, BeginDisable(r) PROVE OnboardingIInv' /\ Grows
  <2> DEFINE next == [Idle EXCEPT !.at = "disable"]
  <2>1. next \in Step /\ next.at = "disable"
    BY DEF Step, Idle, Stages
  <2> QED BY <1>1, <2>1, RequestStep DEF BeginDisable, Start
<1>2. ASSUME ConfirmFactor \/ EnrolAgain \/ \E r \in Requests : CommitDisable(r)
      PROVE  OnboardingIInv' /\ Grows
  <2>1. /\ UNCHANGED <<link, invitation, seat>>
        /\ \/ account' = [account EXCEPT !.factor = TRUE]
           \/ account' = [account EXCEPT !.factor = FALSE]
    BY <1>2 DEF ConfirmFactor, EnrolAgain, CommitDisable
  <2>2. /\ step' \in [Requests -> Step]
        /\ \A q \in Requests : step'[q] = step[q] \/ step'[q].at = "idle"
    <3>1. CASE step' = step
      BY <3>1 DEF OnboardingIInv, TypeOK
    <3>2. ASSUME NEW r \in Requests, CommitDisable(r)
          PROVE  /\ step' \in [Requests -> Step]
                 /\ \A q \in Requests : step'[q] = step[q] \/ step'[q].at = "idle"
      BY <3>2, StagesOfRequests DEF CommitDisable, End
    <3> QED BY <1>2, <3>1, <3>2 DEF ConfirmFactor, EnrolAgain
  <2>3. /\ account' \in AccountRow /\ account'.status = account.status
        /\ account'.verified = account.verified
    BY <2>1 DEF OnboardingIInv, TypeOK, AccountRow
  <2>4. TypeOK' /\ Grows /\ Admitted' /\ Waits'
    BY <2>1, <2>2, <2>3 DEF OnboardingIInv, TypeOK, Grows, Admitted, Waits
  <2> QED BY <2>2, <2>4, RowStep
<1> QED BY <1>1, <1>2

LEMMA OnboardingNext == OnboardingIInv /\ [Next]_onboardingVars => OnboardingIInv' /\ Grows
<1> SUFFICES ASSUME OnboardingIInv, [Next]_onboardingVars PROVE OnboardingIInv' /\ Grows
  OBVIOUS
<1>1. CASE UNCHANGED onboardingVars
  BY <1>1 DEF onboardingVars, OnboardingIInv, TypeOK, Admitted, Waits, Halfway, InHand, Grows
<1>2. CASE Next
  BY <1>2, RegistrationStep, InvitationStep, AdministrationStep, FactorStep DEF Next
<1> QED BY <1>1, <1>2

LEMMA OnboardingInvariant == Spec => []OnboardingIInv
<1>1. Init => OnboardingIInv
  BY OnboardingInit
<1>2. OnboardingIInv /\ [Next]_onboardingVars => OnboardingIInv'
  BY OnboardingNext
<1> QED BY <1>1, <1>2, PTL DEF Spec
-----------------------------------------------------------------------------
\* The rows and the requests keep their types, for any number of requests.
THEOREM OnboardingTypeOK == Spec => []TypeOK
<1>1. OnboardingIInv => TypeOK
  BY DEF OnboardingIInv
<1> QED BY <1>1, OnboardingInvariant, PTL

\* However registrations, verifications, invitations and acceptances of one
\* person overlap, and whatever fails halfway: an active account is verified, an
\* accepted invitation left a seat, and a seat has an account.
THEOREM PeopleAreAdmitted == Spec => []Admitted
<1>1. OnboardingIInv => Admitted
  BY DEF OnboardingIInv
<1> QED BY <1>1, OnboardingInvariant, PTL

\* No request, however late it writes, loses an account or its verification.
THEOREM NobodyIsDemoted == Spec => NeverDemoted
<1>1. OnboardingIInv /\ [Next]_onboardingVars =>
         [/\ account.status # "NONE" => account'.status # "NONE"
          /\ account.verified => account'.verified /\ account'.status # "INVITED"
         ]_onboardingVars
  BY OnboardingNext DEF Grows
<1> QED BY <1>1, OnboardingInvariant, PTL DEF Spec, NeverDemoted

\* The other parts leave these rows alone.
LEMMA OnboardingStays == MCSpec => []OnboardingIInv
<1>1. OnboardingIInv /\ [MCNext]_vars => OnboardingIInv'
  <2>1. [MCNext]_vars => [Next]_onboardingVars
    BY DEF MCNext, vars, people
  <2> QED BY <2>1, OnboardingNext
<1>2. MCInit => OnboardingIInv
  BY OnboardingInit DEF MCInit
<1> QED BY <1>1, <1>2, PTL DEF MCSpec

\* The same while the other parts are followed.
THEOREM PeopleStayAdmitted == MCSpec => []Admitted
<1>1. OnboardingIInv => Admitted
  BY DEF OnboardingIInv
<1> QED BY <1>1, OnboardingStays, PTL
-----------------------------------------------------------------------------
(***************************************************************************)
(* Signing in.  Both limits are checked at one time and counted towards at  *)
(* another, so the invariant counts the requests in between: those that are *)
(* past the check of the throttle, and those that are past finding their    *)
(* challenge, may each still add one.                                       *)
(***************************************************************************)
SignInConstants == S!SignInAssumption /\ Null \notin S!UserRow

\* Past the throttle; past the challenge; counted on it, before it is dropped.
ToTry == {"admitted", "verify"}
ToGuess == {"mfa", "mfaRead", "confirm", "confirmRead"}
ToDrop == {"mfaWrong", "mfaWritten"}
Trying == {r \in Requests : pending[r].at \in ToTry}
Guessing(c) == {r \in Requests : pending[r].holds = c /\ pending[r].at \in ToGuess}
Wrong(c) == {r \in Requests : pending[r].holds = c /\ pending[r].at \in ToDrop}

FailuresFit == failures + Cardinality(Trying) <= MaxFailures + S!Overlap
GuessesFit == \A c \in Challenges :
                 challenge[c].attempts + Cardinality(Guessing(c)) <= MaxGuesses + S!Overlap
SpentIsDropped == \A c \in Challenges :
                 challenge[c].live => challenge[c].attempts < MaxGuesses + Cardinality(Wrong(c))

\* A request on a challenge holds one, and one that has read the row has a row;
\* a sign-in that goes on to the password has read an account that was not locked.
Prepared(p) ==
    /\ p.at \in {"mfa", "mfaRead", "mfaWrong", "mfaWritten", "recovery", "recovered",
                 "enrol", "enrolRead", "confirm", "confirmRead", "confirmed"}
       => p.holds \in Challenges
    /\ p.at \in {"verify", "failing", "verified", "cleared", "mfaRead", "mfaWrong"}
       => p.seen \in S!UserRow
    /\ p.at \in {"verify", "failing"} => p.seen.locked # "yes"

SignInTypes ==
    /\ user \in S!UserRow /\ codes \subseteq Codes /\ failures \in Nat
    /\ challenge \in [Challenges -> S!Entry] /\ pending \in [Requests -> S!Pending]
CountLocks == user.failed >= LockAt => user.locked # "no"
SignInInv == SignInTypes /\ CountLocks /\ \A r \in Requests : Prepared(pending[r])
CountInv == FailuresFit /\ GuessesFit /\ SpentIsDropped
-----------------------------------------------------------------------------
\* The counts are of finite sets of requests.
LEMMA CountsOfRequests ==
    ASSUME SignInConstants
    PROVE  /\ MaxGuesses \in Nat \ {0} /\ MaxFailures \in Nat \ {0} /\ LockAt \in Nat \ {0}
           /\ S!Overlap \in Nat /\ Cardinality(Requests) = S!Overlap + 1
           /\ \A A \in SUBSET Requests : IsFiniteSet(A) /\ Cardinality(A) \in Nat
           /\ \A A, A2 \in SUBSET Requests : A \subseteq A2 => Cardinality(A) <= Cardinality(A2)
<1>1. IsFiniteSet(Requests) /\ Requests # {} /\ MaxGuesses \in Nat \ {0}
      /\ MaxFailures \in Nat \ {0} /\ LockAt \in Nat \ {0}
  BY DEF SignInConstants, S!SignInAssumption, S!IsFiniteSet, IsFiniteSet
<1>2. Cardinality(Requests) \in Nat /\ Cardinality(Requests) # 0
  BY <1>1, FS_CardinalityType, FS_EmptySet
<1>3. S!Overlap = Cardinality(Requests) - 1
  BY DEF S!Overlap, S!Cardinality, Cardinality
<1>4. \A A \in SUBSET Requests : IsFiniteSet(A) /\ Cardinality(A) \in Nat
  BY <1>1, FS_Subset, FS_CardinalityType
<1>5. \A A, A2 \in SUBSET Requests : A \subseteq A2 => Cardinality(A) <= Cardinality(A2)
  BY <1>4, FS_Subset
<1> QED BY <1>1, <1>2, <1>3, <1>4, <1>5

\* One more request, or one less, of a kind.
LEMMA OneMore ==
    ASSUME SignInConstants, NEW A \in SUBSET Requests, NEW r \in Requests
    PROVE  /\ r \notin A => Cardinality(A \cup {r}) = Cardinality(A) + 1
           /\ r \in A => Cardinality(A \ {r}) = Cardinality(A) - 1
BY CountsOfRequests, FS_AddElement, FS_RemoveElement

LEMMA SignInInit == ASSUME SignInConstants, S!Init PROVE SignInInv /\ CountInv
<1>1. S!Idle \in S!Pending /\ S!Idle.at = "idle"
  BY DEF S!Idle, S!Pending, S!Stages
<1>2. S!Unissued \in S!Entry /\ S!Unissued.attempts = 0 /\ ~S!Unissued.live
  BY DEF S!Unissued, S!Entry
<1>3. [failed |-> 0, locked |-> "no", secret |-> FALSE, enabled |-> FALSE] \in S!UserRow
  BY CountsOfRequests DEF S!UserRow
<1>4. SignInTypes
  BY <1>1, <1>2, <1>3 DEF S!Init, SignInTypes
<1>5. CountLocks
  BY CountsOfRequests DEF S!Init, CountLocks
<1>6. \A r \in Requests : pending[r].at = "idle"
  BY <1>1 DEF S!Init
<1>7. \A r \in Requests : Prepared(pending[r])
  BY <1>6 DEF Prepared
<1>8. Trying = {} /\ \A c \in Challenges : Guessing(c) = {}
  BY <1>6 DEF Trying, Guessing, ToTry, ToGuess
<1>9. failures = 0 /\ \A c \in Challenges : challenge[c].attempts = 0 /\ ~challenge[c].live
  BY <1>2 DEF S!Init
<1>10. CountInv
  <2>1. Cardinality({}) = 0
    BY FS_EmptySet
  <2> QED BY <1>8, <1>9, <2>1, CountsOfRequests DEF CountInv, FailuresFit, GuessesFit, SpentIsDropped
<1> QED BY <1>4, <1>5, <1>7, <1>10 DEF SignInInv

\* What keeps the counts: no request more that may add to them, and no challenge
\* found again.
LEMMA NothingAdded ==
    ASSUME SignInConstants, SignInInv, CountInv, SignInInv',
           failures' <= failures, Trying' \subseteq Trying,
           \A c \in Challenges :
              /\ challenge'[c].attempts <= challenge[c].attempts
              /\ Guessing(c)' \subseteq Guessing(c)
              /\ challenge'[c].live => challenge[c].live /\ Wrong(c) \subseteq Wrong(c)'
    PROVE  CountInv'
<1>1. failures \in Nat /\ failures' \in Nat
  BY DEF SignInInv, SignInTypes
<1>2. \A c \in Challenges : challenge[c].attempts \in Nat /\ challenge'[c].attempts \in Nat
  BY DEF SignInInv, SignInTypes, S!Entry
<1>3. FailuresFit'
  <2>1. Trying \in SUBSET Requests /\ Trying' \in SUBSET Requests
    BY DEF Trying
  <2>2. Cardinality(Trying') <= Cardinality(Trying)
    BY <2>1, CountsOfRequests
  <2> QED BY <1>1, <2>1, <2>2, CountsOfRequests DEF CountInv, FailuresFit
<1>4. ASSUME NEW c \in Challenges
      PROVE  /\ challenge'[c].attempts + Cardinality(Guessing(c)') <= MaxGuesses + S!Overlap
             /\ challenge'[c].live => challenge'[c].attempts < MaxGuesses + Cardinality(Wrong(c)')
  <2>1. Guessing(c) \in SUBSET Requests /\ Guessing(c)' \in SUBSET Requests
    BY DEF Guessing
  <2>2. Cardinality(Guessing(c)') <= Cardinality(Guessing(c))
    BY <2>1, CountsOfRequests
  <2>3. Wrong(c) \in SUBSET Requests /\ Wrong(c)' \in SUBSET Requests
    BY DEF Wrong
  <2>4. challenge'[c].live => challenge[c].live /\ Cardinality(Wrong(c)) <= Cardinality(Wrong(c)')
    BY <2>3, CountsOfRequests
  <2>5. challenge[c].attempts + Cardinality(Guessing(c)) <= MaxGuesses + S!Overlap
    BY DEF CountInv, GuessesFit
  <2>6. challenge[c].live => challenge[c].attempts < MaxGuesses + Cardinality(Wrong(c))
    BY DEF CountInv, SpentIsDropped
  <2>7. challenge'[c].attempts + Cardinality(Guessing(c)') <= MaxGuesses + S!Overlap
    BY <1>2, <2>1, <2>2, <2>5, CountsOfRequests
  <2>8. ASSUME challenge'[c].live
        PROVE  challenge'[c].attempts < MaxGuesses + Cardinality(Wrong(c)')
    <3>1. Cardinality(Wrong(c)) <= Cardinality(Wrong(c)')
      BY <2>4, <2>8
    <3>2. challenge[c].attempts < MaxGuesses + Cardinality(Wrong(c))
      BY <2>4, <2>6, <2>8
    <3> QED BY <1>2, <2>3, <3>1, <3>2, CountsOfRequests
  <2> QED BY <2>7, <2>8
<1>5. GuessesFit' /\ SpentIsDropped'
  BY <1>4, CountsOfRequests DEF GuessesFit, SpentIsDropped
<1> QED BY <1>3, <1>5 DEF CountInv

\* A request that moves on, or ends, adding to none of the counts.
LEMMA RequestMoves ==
    ASSUME SignInConstants, SignInInv, CountInv, NEW r \in Requests, NEW next \in S!Pending,
           pending' = [pending EXCEPT ![r] = next], Prepared(next),
           user' \in S!UserRow, codes' \subseteq Codes, failures' \in Nat,
           challenge' \in [Challenges -> S!Entry], CountLocks'
    PROVE  /\ SignInInv'
           /\ /\ next.at \in ToTry => pending[r].at \in ToTry
              /\ next.at \in ToGuess => pending[r].at \in ToGuess /\ next.holds = pending[r].holds
              /\ pending[r].at \in ToDrop => next.at \in ToDrop /\ next.holds = pending[r].holds
              /\ failures' <= failures
              /\ \A c \in Challenges : /\ challenge'[c].attempts = challenge[c].attempts
                                       /\ challenge'[c].live => challenge[c].live
              => CountInv'
<1>1. pending \in [Requests -> S!Pending] /\ \A q \in Requests : Prepared(pending[q])
  BY DEF SignInInv, SignInTypes
<1>2. \A q \in Requests : pending'[q] = IF q = r THEN next ELSE pending[q]
  BY <1>1
<1>3. SignInInv'
  <2>1. SignInTypes'
    BY <1>1 DEF SignInTypes
  <2>2. ASSUME NEW q \in Requests PROVE Prepared(pending'[q])
    BY <1>1, <1>2
  <2>3. \A q \in Requests : Prepared(pending'[q])
    BY <2>2
  <2>4. (\A q \in Requests : Prepared(pending[q]))'
    BY <2>3 DEF Prepared, S!UserRow
  <2> QED BY <2>1, <2>4 DEF SignInInv
<1>4. ASSUME next.at \in ToTry => pending[r].at \in ToTry,
             next.at \in ToGuess => pending[r].at \in ToGuess /\ next.holds = pending[r].holds,
             pending[r].at \in ToDrop => next.at \in ToDrop /\ next.holds = pending[r].holds,
             failures' <= failures,
             \A c \in Challenges : /\ challenge'[c].attempts = challenge[c].attempts
                                   /\ challenge'[c].live => challenge[c].live
      PROVE  CountInv'
  <2>1. Trying' \subseteq Trying
    BY <1>2, <1>4 DEF Trying
  <2>2. ASSUME NEW c \in Challenges
        PROVE  /\ challenge'[c].attempts <= challenge[c].attempts
               /\ Guessing(c)' \subseteq Guessing(c)
               /\ challenge'[c].live => challenge[c].live /\ Wrong(c) \subseteq Wrong(c)'
    <3>1. Guessing(c)' \subseteq Guessing(c)
      BY <1>2, <1>4 DEF Guessing
    <3>2. Wrong(c) \subseteq Wrong(c)'
      BY <1>2, <1>4 DEF Wrong
    <3>3. challenge[c].attempts \in Nat /\ challenge'[c].attempts = challenge[c].attempts
      BY <1>4 DEF SignInInv, SignInTypes, S!Entry
    <3> QED BY <1>4, <3>1, <3>2, <3>3
  <2> QED BY <1>3, <1>4, <2>1, <2>2, NothingAdded
<1> QED BY <1>3, <1>4

\* What a step may do to the rest while a request moves on so.
Calm ==
    /\ user' \in S!UserRow /\ codes' \subseteq Codes /\ CountLocks'
    /\ failures' \in Nat /\ failures' <= failures
    /\ challenge' \in [Challenges -> S!Entry]
    /\ \A c \in Challenges : /\ challenge'[c].attempts = challenge[c].attempts
                             /\ challenge'[c].live => challenge[c].live

LEMMA RestIsCalm ==
    ASSUME SignInInv, UNCHANGED <<user, codes, challenge, failures>>
    PROVE  Calm
BY DEF Calm, SignInInv, SignInTypes, CountLocks

LEMMA DeletingIsCalm ==
    ASSUME SignInInv, NEW d, S!Delete(d), UNCHANGED <<user, codes, failures>>
    PROVE  Calm
<1> DEFINE gone == [challenge[d] EXCEPT !.live = FALSE]
<1>1. \A c \in Challenges : challenge[c] \in S!Entry
  BY DEF SignInInv, SignInTypes
<1>2. \A c \in Challenges : challenge'[c] = IF c = d THEN gone ELSE challenge[c]
  BY DEF SignInInv, SignInTypes, S!Delete
<1>3. d \in Challenges => gone \in S!Entry /\ ~gone.live /\ gone.attempts = challenge[d].attempts
  BY <1>1 DEF S!Entry
<1> HIDE DEF gone
<1>4. challenge' \in [Challenges -> S!Entry]
  BY <1>1, <1>2, <1>3 DEF SignInInv, SignInTypes, S!Delete
<1>5. \A c \in Challenges : /\ challenge'[c].attempts = challenge[c].attempts
                            /\ challenge'[c].live => challenge[c].live
  BY <1>2, <1>3
<1> QED BY <1>4, <1>5 DEF Calm, SignInInv, SignInTypes, CountLocks

LEMMA RequestEnds ==
    ASSUME SignInConstants, SignInInv, CountInv, NEW r \in Requests, S!End(r), Calm,
           pending[r].at \notin ToDrop
    PROVE  SignInInv' /\ CountInv'
<1>1. S!Idle \in S!Pending /\ S!Idle.at = "idle"
  BY DEF S!Idle, S!Pending, S!Stages
<1>2. Prepared(S!Idle) /\ S!Idle.at \notin ToTry \cup ToGuess
  BY <1>1 DEF Prepared, ToTry, ToGuess
<1> QED BY <1>1, <1>2, RequestMoves DEF S!End, Calm

LEMMA RequestGoesOn ==
    ASSUME SignInConstants, SignInInv, CountInv, NEW r \in Requests, NEW stage \in S!Stages,
           S!Goto(r, stage), Calm, Prepared([pending[r] EXCEPT !.at = stage]),
           stage \in ToTry => pending[r].at \in ToTry,
           stage \in ToGuess => pending[r].at \in ToGuess,
           pending[r].at \in ToDrop => stage \in ToDrop
    PROVE  SignInInv' /\ CountInv'
<1> DEFINE next == [pending[r] EXCEPT !.at = stage]
<1>1. pending[r] \in S!Pending /\ pending' = [pending EXCEPT ![r] = next]
  BY DEF SignInInv, SignInTypes, S!Goto
<1>2. next \in S!Pending /\ next.at = stage /\ next.holds = pending[r].holds
  BY <1>1 DEF S!Pending
<1> HIDE DEF next
<1>3. Prepared(next)
  BY DEF next
<1> QED BY <1>1, <1>2, <1>3, RequestMoves DEF Calm

LEMMA RequestReads ==
    ASSUME SignInConstants, SignInInv, CountInv, NEW r \in Requests, NEW stage \in S!Stages,
           S!Read(r, stage), UNCHANGED <<user, codes, challenge, failures>>,
           stage \in {"verify", "mfaRead"},
           stage = "verify" => pending[r].at = "admitted" /\ user.locked # "yes",
           stage = "mfaRead" => pending[r].at = "mfa"
    PROVE  SignInInv' /\ CountInv'
<1> DEFINE next == [pending[r] EXCEPT !.at = stage, !.seen = user]
<1>1. pending[r] \in S!Pending /\ pending' = [pending EXCEPT ![r] = next] /\ user \in S!UserRow
      /\ Prepared(pending[r])
  BY DEF SignInInv, SignInTypes, S!Read
<1>2. /\ next \in S!Pending /\ next.at = stage
      /\ next.holds = pending[r].holds /\ next.seen = user
  BY <1>1 DEF S!Pending
<1> HIDE DEF next
<1>3. Prepared(next)
  BY <1>1, <1>2 DEF Prepared
<1>4. Calm
  BY RestIsCalm
<1>5. /\ stage \in ToTry => pending[r].at \in ToTry
      /\ stage \in ToGuess => pending[r].at \in ToGuess
      /\ pending[r].at \notin ToDrop
  BY DEF ToTry, ToGuess, ToDrop
<1> QED BY <1>1, <1>2, <1>3, <1>4, <1>5, RequestMoves DEF Calm

\* The rows that are written: a failure counted on the row that was read, and
\* the second factor set.
LEMMA FailureCounted ==
    ASSUME SignInConstants, NEW seen \in S!UserRow
    PROVE  S!Bump(seen.failed) \in 0..LockAt
<1>1. seen.failed \in 0..LockAt /\ LockAt \in Nat
  BY CountsOfRequests DEF S!UserRow
<1> QED BY <1>1 DEF S!Bump

LEMMA RowWritten ==
    ASSUME SignInConstants, SignInInv, NEW failed \in 0..LockAt,
           NEW locked \in {"no", "yes", "past"}, failed >= LockAt => locked # "no",
           user' = [user EXCEPT !.failed = failed, !.locked = locked],
           codes' \subseteq Codes, UNCHANGED challenge, failures' \in Nat, failures' <= failures
    PROVE  Calm
<1>1. user \in S!UserRow /\ challenge \in [Challenges -> S!Entry]
  BY DEF SignInInv, SignInTypes
<1>2. user' \in S!UserRow /\ user'.failed = failed /\ user'.locked = locked
  BY <1>1 DEF S!UserRow
<1> QED BY <1>1, <1>2 DEF Calm, CountLocks

LEMMA FactorWritten ==
    ASSUME SignInConstants, SignInInv, NEW secret \in BOOLEAN, NEW enabled \in BOOLEAN,
           user' = [user EXCEPT !.secret = secret, !.enabled = enabled],
           codes' \subseteq Codes, UNCHANGED challenge, UNCHANGED failures
    PROVE  Calm
<1>1. user \in S!UserRow /\ challenge \in [Challenges -> S!Entry] /\ failures \in Nat
  BY DEF SignInInv, SignInTypes
<1>2. user' \in S!UserRow /\ user'.failed = user.failed /\ user'.locked = user.locked
  BY <1>1 DEF S!UserRow
<1>3. CountLocks'
  BY <1>2 DEF SignInInv, CountLocks
<1> QED BY <1>1, <1>2, <1>3 DEF Calm

LEMMA RequestsStay ==
    ASSUME SignInConstants, SignInInv, CountInv, Calm, UNCHANGED pending
    PROVE  SignInInv' /\ CountInv'
<1>1. SignInInv'
  BY DEF SignInInv, SignInTypes, Calm, Prepared, S!UserRow
<1>2. \A c \in Challenges : challenge[c].attempts \in Nat
  BY DEF SignInInv, SignInTypes, S!Entry
<1>3. Trying' = Trying /\ \A c \in Challenges : Guessing(c)' = Guessing(c) /\ Wrong(c)' = Wrong(c)
  BY DEF Trying, Guessing, Wrong
<1>4. \A c \in Challenges :
         /\ challenge'[c].attempts <= challenge[c].attempts
         /\ Guessing(c)' \subseteq Guessing(c)
         /\ challenge'[c].live => challenge[c].live /\ Wrong(c) \subseteq Wrong(c)'
  BY <1>2, <1>3 DEF Calm
<1> QED BY <1>1, <1>3, <1>4, NothingAdded DEF Calm

LEMMA SignInPasswords ==
    ASSUME SignInConstants, SignInInv, CountInv, NEW r \in Requests, S!Login(r)
    PROVE  SignInInv' /\ CountInv'
<1> USE DEF S!At, S!Seen
<1>1. /\ user \in S!UserRow /\ codes \subseteq Codes /\ failures \in Nat
      /\ challenge \in [Challenges -> S!Entry] /\ pending[r] \in S!Pending
      /\ Prepared(pending[r])
  BY DEF SignInInv, SignInTypes
<1>2. CASE S!ReadLogin(r)
  <2>1. CASE user.locked = "yes"
    BY <1>2, <2>1, RestIsCalm, RequestEnds DEF S!ReadLogin, ToDrop
  <2>2. CASE user.locked # "yes"
    <3>1. "verify" \in S!Stages
      BY DEF S!Stages
    <3> QED BY <1>2, <2>2, <3>1, RequestReads DEF S!ReadLogin
  <2> QED BY <2>1, <2>2
<1>3. CASE S!CommitFailure(r)
  <2> DEFINE n == S!Bump(pending[r].seen.failed)
  <2>1. n \in 0..LockAt
    BY <1>1, <1>3, FailureCounted DEF S!CommitFailure, Prepared
  <2>2. /\ user' = [user EXCEPT !.failed = n, !.locked = IF n >= LockAt THEN "yes" ELSE "no"]
        /\ UNCHANGED <<codes, challenge, failures>> /\ S!End(r)
    BY <1>3 DEF S!CommitFailure
  <2> HIDE DEF n
  <2>3. failures' <= failures
    BY <1>1, <2>2
  <2>4. Calm
    BY <1>1, <2>1, <2>2, <2>3, RowWritten
  <2> QED BY <1>3, <2>2, <2>4, RequestEnds DEF S!CommitFailure, ToDrop
<1>4. CASE S!RightPassword(r)
  <2>1. Calm
    <3>1. 0 \in 0..LockAt /\ ~(0 >= LockAt) /\ failures <= failures
      BY <1>1, CountsOfRequests
    <3>2. /\ user' = [user EXCEPT !.failed = 0, !.locked = "no"]
          /\ UNCHANGED <<codes, challenge, failures>>
      BY <1>4 DEF S!RightPassword
    <3> QED BY <1>1, <3>1, <3>2, RowWritten
  <2>2. Prepared([pending[r] EXCEPT !.at = "verified"])
    BY <1>1, <1>4 DEF S!RightPassword, Prepared, S!Pending
  <2>3. "verified" \in S!Stages
    BY DEF S!Stages
  <2> QED BY <1>4, <2>1, <2>2, <2>3, RequestGoesOn DEF S!RightPassword, ToTry, ToGuess, ToDrop
<1>5. CASE S!ClearFailures(r)
  <2>1. Calm
    BY <1>1, <1>5 DEF S!ClearFailures, Calm, SignInInv, CountLocks
  <2>2. Prepared([pending[r] EXCEPT !.at = "cleared"])
    BY <1>1, <1>5 DEF S!ClearFailures, Prepared, S!Pending
  <2>3. "cleared" \in S!Stages
    BY DEF S!Stages
  <2> QED BY <1>5, <2>1, <2>2, <2>3, RequestGoesOn DEF S!ClearFailures, ToTry, ToGuess, ToDrop
<1>6. CASE S!SignedIn(r)
  BY <1>6, RestIsCalm, RequestEnds DEF S!SignedIn, ToDrop
\* Admitted while there were fewer failures than the limit.
<1>7. CASE S!BeginLogin(r)
  <2> DEFINE next == [pending[r] EXCEPT !.at = "admitted"]
  <2>1. pending' = [pending EXCEPT ![r] = next] /\ UNCHANGED <<user, codes, challenge, failures>>
    BY <1>7 DEF S!BeginLogin, S!Goto
  <2>2. next \in S!Pending /\ next.at = "admitted" /\ next.holds = pending[r].holds
    BY <1>1 DEF S!Pending, S!Stages
  <2> HIDE DEF next
  <2>3. Prepared(next) /\ Calm
    BY <2>1, <2>2, RestIsCalm DEF Prepared
  <2>4. SignInInv'
    BY <2>1, <2>2, <2>3, RequestMoves DEF Calm
  <2>5. /\ Trying' = Trying \cup {r} /\ r \notin Trying
        /\ \A c : Guessing(c)' = Guessing(c) /\ Wrong(c)' = Wrong(c)
    BY <1>7, <2>1, <2>2 DEF S!BeginLogin, Trying, Guessing, Wrong, ToTry, ToGuess, ToDrop,
       SignInInv, SignInTypes
  <2>6. GuessesFit' /\ SpentIsDropped'
    BY <2>1, <2>5 DEF CountInv, GuessesFit, SpentIsDropped
  <2>7. Trying \cup {r} \in SUBSET Requests /\ Trying \in SUBSET Requests
    BY DEF Trying
  <2>8. Cardinality(Trying \cup {r}) <= S!Overlap + 1
    BY <2>7, CountsOfRequests
  <2>9. failures < MaxFailures
    BY <1>7 DEF S!BeginLogin
  <2>10. FailuresFit'
    BY <1>1, <2>1, <2>5, <2>7, <2>8, <2>9, CountsOfRequests DEF FailuresFit
  <2> QED BY <2>4, <2>6, <2>10 DEF CountInv
\* The failure is counted by the request that was past the throttle.
<1>8. CASE S!WrongPassword(r)
  <2> DEFINE next == [pending[r] EXCEPT !.at = "failing"]
  <2>1. /\ pending' = [pending EXCEPT ![r] = next] /\ UNCHANGED <<user, codes, challenge>>
        /\ failures' = failures + 1
    BY <1>8 DEF S!WrongPassword, S!Goto
  <2>2. next \in S!Pending /\ next.at = "failing" /\ next.seen = pending[r].seen
    BY <1>1 DEF S!Pending, S!Stages
  <2> HIDE DEF next
  <2>3. Prepared(next)
    BY <1>1, <1>8, <2>2 DEF Prepared, S!WrongPassword
  <2>4. SignInInv'
    <3>1. failures' \in Nat
      BY <1>1, <2>1
    <3>2. CountLocks'
      BY <2>1 DEF SignInInv, CountLocks
    <3> QED BY <1>1, <2>1, <2>2, <2>3, <3>1, <3>2, RequestMoves
  <2>5. /\ Trying' = Trying \ {r} /\ r \in Trying
        /\ \A c : Guessing(c)' = Guessing(c) /\ Wrong(c)' = Wrong(c)
    BY <1>8, <2>1, <2>2 DEF S!WrongPassword, Trying, Guessing, Wrong, ToTry, ToGuess, ToDrop,
       SignInInv, SignInTypes
  <2>6. GuessesFit' /\ SpentIsDropped'
    BY <2>1, <2>5 DEF CountInv, GuessesFit, SpentIsDropped
  <2>7. Trying \in SUBSET Requests
    BY DEF Trying
  <2>8. Cardinality(Trying \ {r}) = Cardinality(Trying) - 1
    BY <2>5, <2>7, OneMore
  <2>9. FailuresFit'
    BY <1>1, <2>1, <2>5, <2>7, <2>8, CountsOfRequests DEF FailuresFit, CountInv
  <2> QED BY <2>4, <2>6, <2>9 DEF CountInv
\* A challenge is issued that nobody holds.
<1>9. ASSUME NEW c \in Challenges, S!Challenge(r, c) PROVE SignInInv' /\ CountInv'
  <2>1. S!Idle \in S!Pending /\ S!Idle.at = "idle"
    BY DEF S!Idle, S!Pending, S!Stages
  <2>2. /\ challenge' = [challenge EXCEPT ![c] = [live |-> TRUE, fresh |-> TRUE, attempts |-> 0]]
        /\ pending' = [pending EXCEPT ![r] = S!Idle] /\ UNCHANGED <<user, codes, failures>>
    BY <1>9 DEF S!Challenge, S!End
  <2>3. [live |-> TRUE, fresh |-> TRUE, attempts |-> 0] \in S!Entry
    BY DEF S!Entry
  <2>4. challenge' \in [Challenges -> S!Entry] /\ challenge'[c].attempts = 0
        /\ \A d \in Challenges : d # c => challenge'[d] = challenge[d]
    BY <1>1, <2>2, <2>3
  <2>5. Prepared(S!Idle)
    BY <2>1 DEF Prepared
  <2>6. SignInInv'
    BY <1>1, <2>1, <2>2, <2>4, <2>5, RequestMoves DEF SignInInv, CountLocks
  <2>7. /\ Trying' \subseteq Trying
        /\ \A d : Guessing(d)' \subseteq Guessing(d) /\ Wrong(d)' = Wrong(d)
    BY <1>9, <2>1, <2>2 DEF S!Challenge, Trying, Guessing, Wrong, ToTry, ToGuess, ToDrop,
       SignInInv, SignInTypes
  <2>8. Guessing(c) = {} /\ Guessing(c)' = {}
    BY <1>9, <2>7 DEF S!Challenge, Guessing
  <2>9. FailuresFit'
    <3>1. Trying \in SUBSET Requests /\ Trying' \in SUBSET Requests
      BY DEF Trying
    <3>2. Cardinality(Trying') <= Cardinality(Trying)
      BY <2>7, <3>1, CountsOfRequests
    <3> QED BY <1>1, <2>2, <3>1, <3>2, CountsOfRequests DEF FailuresFit, CountInv
  <2>10. ASSUME NEW d \in Challenges
         PROVE  /\ challenge'[d].attempts + Cardinality(Guessing(d)') <= MaxGuesses + S!Overlap
                /\ challenge'[d].live => challenge'[d].attempts < MaxGuesses + Cardinality(Wrong(d)')
    <3>1. /\ Guessing(d) \in SUBSET Requests /\ Guessing(d)' \in SUBSET Requests
          /\ Wrong(d) \in SUBSET Requests /\ challenge[d].attempts \in Nat
      BY <1>1 DEF Guessing, Wrong, S!Entry
    <3>2. Cardinality(Guessing(d)') <= Cardinality(Guessing(d))
      BY <2>7, <3>1, CountsOfRequests
    <3>3. CASE d = c
      <4>1. Cardinality(Guessing(c)') = 0
        BY <2>8, FS_EmptySet
      <4>2. Cardinality(Wrong(c)') \in Nat
        BY <2>7, <3>1, <3>3, CountsOfRequests
      <4> QED BY <2>4, <3>3, <4>1, <4>2, CountsOfRequests
    <3>4. CASE d # c
      <4>1. challenge'[d] = challenge[d] /\ Wrong(d)' = Wrong(d)
        BY <2>4, <2>7, <3>4
      <4>2. /\ challenge[d].attempts + Cardinality(Guessing(d)) <= MaxGuesses + S!Overlap
            /\ challenge[d].live => challenge[d].attempts < MaxGuesses + Cardinality(Wrong(d))
        BY DEF CountInv, GuessesFit, SpentIsDropped
      <4>3. challenge'[d].attempts + Cardinality(Guessing(d)') <= MaxGuesses + S!Overlap
        BY <3>1, <3>2, <4>1, <4>2, CountsOfRequests
      <4> QED BY <4>1, <4>2, <4>3
    <3> QED BY <3>3, <3>4
  <2>11. GuessesFit' /\ SpentIsDropped'
    BY <2>10, CountsOfRequests DEF GuessesFit, SpentIsDropped
  <2> QED BY <2>6, <2>9, <2>11 DEF CountInv
<1> QED BY <1>2, <1>3, <1>4, <1>5, <1>6, <1>7, <1>8, <1>9 DEF S!Login

\* A step of a request that is about the challenge it holds.
LEMMA OneChallengeTouched ==
    ASSUME SignInConstants, SignInInv, CountInv, NEW r \in Requests, NEW next \in S!Pending,
           pending' = [pending EXCEPT ![r] = next], NEW c \in Challenges,
           UNCHANGED failures, next.at \notin ToTry,
           next.holds = c \/ next.at = "idle", pending[r].holds = c \/ pending[r].at = "idle",
           \A d \in Challenges : d # c => challenge'[d] = challenge[d],
           challenge'[c].attempts + Cardinality(Guessing(c)') <= MaxGuesses + S!Overlap,
           challenge'[c].live => challenge'[c].attempts < MaxGuesses + Cardinality(Wrong(c)')
    PROVE  CountInv'
<1>1. pending \in [Requests -> S!Pending]
  BY DEF SignInInv, SignInTypes
<1>2. \A q \in Requests : pending'[q] = IF q = r THEN next ELSE pending[q]
  BY <1>1
<1>3. Trying' \subseteq Trying /\ Trying \in SUBSET Requests /\ Trying' \in SUBSET Requests
  BY <1>2 DEF Trying
<1>4. Cardinality(Trying') <= Cardinality(Trying)
  BY <1>3, CountsOfRequests
<1>5. FailuresFit'
  BY <1>3, <1>4, CountsOfRequests DEF FailuresFit, CountInv, SignInInv, SignInTypes
<1>6. ASSUME NEW d \in Challenges, d # c
      PROVE  Guessing(d)' = Guessing(d) /\ Wrong(d)' = Wrong(d)
  BY <1>2, <1>6 DEF Guessing, Wrong, ToGuess, ToDrop
<1>7. ASSUME NEW d \in Challenges
      PROVE  /\ challenge'[d].attempts + Cardinality(Guessing(d)') <= MaxGuesses + S!Overlap
             /\ challenge'[d].live => challenge'[d].attempts < MaxGuesses + Cardinality(Wrong(d)')
  <2>1. CASE d = c
    BY <2>1
  <2>2. CASE d # c
    <3>1. /\ challenge[d].attempts + Cardinality(Guessing(d)) <= MaxGuesses + S!Overlap
          /\ challenge[d].live => challenge[d].attempts < MaxGuesses + Cardinality(Wrong(d))
      BY DEF CountInv, GuessesFit, SpentIsDropped
    <3> QED BY <1>6, <2>2, <3>1
  <2> QED BY <2>1, <2>2
<1>8. GuessesFit' /\ SpentIsDropped'
  BY <1>7, CountsOfRequests DEF GuessesFit, SpentIsDropped
<1> QED BY <1>5, <1>8 DEF CountInv

LEMMA SignInHolds ==
    ASSUME SignInConstants, SignInInv, CountInv, NEW r \in Requests, NEW c \in Challenges,
           NEW stage \in {"mfa", "enrol", "confirm"}, S!Hold(r, c, stage)
    PROVE  SignInInv' /\ CountInv'
<1> DEFINE next == [pending[r] EXCEPT !.at = stage, !.holds = c]
<1>1. /\ pending' = [pending EXCEPT ![r] = next] /\ UNCHANGED <<user, codes, challenge, failures>>
      /\ pending[r].at = "idle" /\ challenge[c].live
  BY DEF S!Hold, S!At, S!Usable, SignInInv, SignInTypes, S!Pending
<1>2. pending[r] \in S!Pending /\ challenge[c] \in S!Entry
  BY DEF SignInInv, SignInTypes
<1>3. next \in S!Pending /\ next.at = stage /\ next.holds = c
  BY <1>2 DEF S!Pending, S!Stages
<1> HIDE DEF next
<1>4. Prepared(next) /\ Calm
  BY <1>1, <1>3, RestIsCalm DEF Prepared
<1>5. SignInInv'
  BY <1>1, <1>3, <1>4, RequestMoves DEF Calm
<1>6. /\ Guessing(c)' \subseteq Guessing(c) \cup {r} /\ Wrong(c)' = Wrong(c)
      /\ r \notin Guessing(c) /\ r \notin Wrong(c) /\ Guessing(c) \cap Wrong(c) = {}
  BY <1>1, <1>2, <1>3 DEF Guessing, Wrong, ToGuess, ToDrop, SignInInv, SignInTypes
<1>7. /\ Guessing(c) \in SUBSET Requests /\ Guessing(c)' \in SUBSET Requests
      /\ Wrong(c) \in SUBSET Requests
  BY DEF Guessing, Wrong
<1>8. Cardinality(Guessing(c) \cup {r}) + Cardinality(Wrong(c)) <= S!Overlap + 1
  <2>1. Guessing(c) \cup {r} \in SUBSET Requests /\ (Guessing(c) \cup {r}) \cap Wrong(c) = {}
    BY <1>6, <1>7
  <2>2. Cardinality((Guessing(c) \cup {r}) \cup Wrong(c)) =
           Cardinality(Guessing(c) \cup {r}) + Cardinality(Wrong(c)) - Cardinality({})
    BY <1>7, <2>1, CountsOfRequests, FS_Union
  <2>3. Cardinality((Guessing(c) \cup {r}) \cup Wrong(c)) <= Cardinality(Requests)
    BY <1>7, <2>1, CountsOfRequests
  <2> QED BY <1>7, <2>1, <2>2, <2>3, CountsOfRequests, FS_EmptySet
<1>9. Cardinality(Guessing(c)') <= Cardinality(Guessing(c) \cup {r})
  BY <1>6, <1>7, CountsOfRequests
<1>10. challenge[c].attempts < MaxGuesses + Cardinality(Wrong(c))
  BY <1>1 DEF CountInv, SpentIsDropped
<1>11. challenge'[c].attempts + Cardinality(Guessing(c)') <= MaxGuesses + S!Overlap
  <2>1. Guessing(c) \cup {r} \in SUBSET Requests
    BY <1>7
  <2>2. challenge[c].attempts \in Nat /\ challenge'[c].attempts = challenge[c].attempts
    BY <1>1, <1>2 DEF S!Entry
  <2> QED BY <1>7, <1>8, <1>9, <1>10, <2>1, <2>2, CountsOfRequests
<1>12. challenge'[c].live => challenge'[c].attempts < MaxGuesses + Cardinality(Wrong(c)')
  BY <1>1, <1>6, <1>10
<1> QED BY <1>1, <1>3, <1>5, <1>11, <1>12, OneChallengeTouched DEF ToTry

\* A wrong code is counted by a request that was past the check, and the entry is
\* there while the request that spent it is on its way to dropping it.
LEMMA SignInWrongCode ==
    ASSUME SignInConstants, SignInInv, CountInv, NEW r \in Requests, S!WrongCode(r)
    PROVE  SignInInv' /\ CountInv'
<1> DEFINE next == [pending[r] EXCEPT !.at = "mfaWrong"]
           c == pending[r].holds
           entry2 == [challenge[c] EXCEPT !.attempts = challenge[c].attempts + 1]
<1>1. /\ pending[r] \in S!Pending /\ Prepared(pending[r])
      /\ challenge \in [Challenges -> S!Entry] /\ user \in S!UserRow /\ codes \subseteq Codes
      /\ failures \in Nat
  BY DEF SignInInv, SignInTypes
<1>2. /\ pending[r].at = "mfaRead" /\ c \in Challenges
      /\ pending' = [pending EXCEPT ![r] = next]
      /\ challenge' = [challenge EXCEPT ![c] = entry2]
      /\ UNCHANGED <<user, codes, failures>>
  BY <1>1 DEF S!WrongCode, S!At, S!Goto, Prepared
<1>3. /\ next \in S!Pending /\ next.at = "mfaWrong" /\ next.holds = c
      /\ next.seen = pending[r].seen
  BY <1>1 DEF S!Pending, S!Stages
<1>4. challenge[c] \in S!Entry
  BY <1>1, <1>2
<1>5. entry2 \in S!Entry /\ entry2.attempts = challenge[c].attempts + 1 /\ entry2.live = challenge[c].live
  BY <1>4 DEF S!Entry
<1>6. PICK h : h = c
  OBVIOUS
<1> HIDE DEF next, entry2, c
<1>7. Prepared(next)
  BY <1>1, <1>2, <1>3 DEF Prepared
<1>8. challenge' \in [Challenges -> S!Entry]
  BY <1>1, <1>2, <1>5
<1>9. SignInInv'
  BY <1>1, <1>2, <1>3, <1>7, <1>8, RequestMoves DEF SignInInv, CountLocks
<1>10. /\ challenge'[h].attempts = challenge[h].attempts + 1 /\ challenge'[h].live = challenge[h].live
       /\ \A d \in Challenges : d # h => challenge'[d] = challenge[d]
       /\ challenge[h].attempts \in Nat /\ h \in Challenges
  BY <1>1, <1>2, <1>4, <1>5, <1>6 DEF S!Entry
<1>11. pending[r].holds = h /\ next.holds = h
  BY <1>3, <1>6 DEF c
<1>12. /\ Guessing(h)' = Guessing(h) \ {r} /\ r \in Guessing(h)
       /\ Wrong(h)' = Wrong(h) \cup {r} /\ r \notin Wrong(h)
  BY <1>2, <1>3, <1>11 DEF Guessing, Wrong, ToGuess, ToDrop, SignInInv, SignInTypes
<1>13. Guessing(h) \in SUBSET Requests /\ Wrong(h) \in SUBSET Requests
  BY DEF Guessing, Wrong
<1>14. /\ Cardinality(Guessing(h)') = Cardinality(Guessing(h)) - 1
       /\ Cardinality(Wrong(h)') = Cardinality(Wrong(h)) + 1
  BY <1>12, <1>13, OneMore
<1>15. /\ challenge[h].attempts + Cardinality(Guessing(h)) <= MaxGuesses + S!Overlap
       /\ challenge[h].live => challenge[h].attempts < MaxGuesses + Cardinality(Wrong(h))
  BY <1>10 DEF CountInv, GuessesFit, SpentIsDropped
<1>16. challenge'[h].attempts + Cardinality(Guessing(h)') <= MaxGuesses + S!Overlap
  BY <1>10, <1>13, <1>14, <1>15, CountsOfRequests
<1>17. ASSUME challenge'[h].live
       PROVE  challenge'[h].attempts < MaxGuesses + Cardinality(Wrong(h)')
  <2>1. challenge[h].attempts < MaxGuesses + Cardinality(Wrong(h))
    BY <1>10, <1>15, <1>17
  <2> QED BY <1>10, <1>13, <1>14, <2>1, CountsOfRequests
<1> QED BY <1>2, <1>3, <1>9, <1>10, <1>11, <1>16, <1>17, OneChallengeTouched DEF ToTry

\* The request ends and the entry, counted on or not, is dropped at its limit.
LEMMA LimitApplied ==
    ASSUME SignInConstants, SignInInv, CountInv, NEW r \in Requests, NEW c \in Challenges,
           pending[r].holds = c, S!End(r), UNCHANGED <<user, codes, failures>>,
           NEW n \in Nat, NEW live \in BOOLEAN,
           challenge' = [challenge EXCEPT ![c].attempts = n, ![c].live = live],
           n + Cardinality(Guessing(c) \ {r}) <= MaxGuesses + S!Overlap,
           live => n < MaxGuesses
    PROVE  SignInInv' /\ CountInv'
<1> DEFINE entry2 == [challenge[c] EXCEPT !.attempts = n, !.live = live]
<1>1. /\ pending[r] \in S!Pending /\ challenge \in [Challenges -> S!Entry]
      /\ user \in S!UserRow /\ codes \subseteq Codes /\ failures \in Nat
  BY DEF SignInInv, SignInTypes
<1>2. S!Idle \in S!Pending /\ S!Idle.at = "idle"
  BY DEF S!Idle, S!Pending, S!Stages
<1>3. entry2 \in S!Entry /\ entry2.attempts = n /\ entry2.live = live
  BY <1>1 DEF S!Entry
<1>4. challenge' = [challenge EXCEPT ![c] = entry2]
  BY <1>1
<1> HIDE DEF entry2
<1>5. /\ challenge' \in [Challenges -> S!Entry]
      /\ challenge'[c].attempts = n /\ challenge'[c].live = live
      /\ \A d \in Challenges : d # c => challenge'[d] = challenge[d]
  <2>1. challenge \in [Challenges -> S!Entry]
    BY <1>1
  <2>2. [challenge EXCEPT ![c] = entry2] \in [Challenges -> S!Entry]
    BY <1>3, <2>1, Zenon
  <2>3. /\ [challenge EXCEPT ![c] = entry2][c] = entry2
        /\ \A d \in Challenges : d # c => [challenge EXCEPT ![c] = entry2][d] = challenge[d]
    BY <2>1, Zenon
  <2> QED BY <1>3, <1>4, <2>2, <2>3, Zenon
<1>6. pending' = [pending EXCEPT ![r] = S!Idle] /\ Prepared(S!Idle)
  BY <1>2 DEF S!End, Prepared
<1>7. SignInInv'
  BY <1>1, <1>2, <1>5, <1>6, RequestMoves DEF SignInInv, CountLocks
<1>8. Guessing(c)' \subseteq Guessing(c) \ {r}
  BY <1>2, <1>6 DEF Guessing, ToGuess, SignInInv, SignInTypes
<1>9. /\ Guessing(c) \ {r} \in SUBSET Requests /\ Guessing(c)' \in SUBSET Requests
      /\ Wrong(c)' \in SUBSET Requests
  BY DEF Guessing, Wrong
<1>10. Cardinality(Guessing(c)') <= Cardinality(Guessing(c) \ {r})
  BY <1>8, <1>9, CountsOfRequests
<1>11. challenge'[c].attempts + Cardinality(Guessing(c)') <= MaxGuesses + S!Overlap
  BY <1>5, <1>9, <1>10, CountsOfRequests
<1>12. ASSUME challenge'[c].live
       PROVE  challenge'[c].attempts < MaxGuesses + Cardinality(Wrong(c)')
  <2>1. n < MaxGuesses
    BY <1>5, <1>12
  <2> QED BY <1>5, <1>9, <2>1, CountsOfRequests
<1>13. S!Idle.at \notin ToTry
  BY <1>2 DEF ToTry
<1>14. CountInv'
  <2>1. /\ UNCHANGED failures /\ pending[r].holds = c
        /\ pending' = [pending EXCEPT ![r] = S!Idle] /\ S!Idle.at = "idle" /\ S!Idle \in S!Pending
        /\ \A d \in Challenges : d # c => challenge'[d] = challenge[d]
    BY <1>2, <1>5, <1>6
  <2> QED BY <1>11, <1>12, <1>13, <2>1, OneChallengeTouched, Zenon
<1> QED BY <1>7, <1>14

LEMMA SignInSecondFactor ==
    ASSUME SignInConstants, SignInInv, CountInv, NEW r \in Requests, S!SecondFactor(r)
    PROVE  SignInInv' /\ CountInv'
<1> USE DEF S!At, S!Seen
<1>1. /\ user \in S!UserRow /\ codes \subseteq Codes /\ failures \in Nat
      /\ challenge \in [Challenges -> S!Entry] /\ pending[r] \in S!Pending
      /\ Prepared(pending[r])
  BY DEF SignInInv, SignInTypes
<1>2. CASE S!ReadMfa(r)
  <2>1. CASE user.secret
    <3>1. "mfaRead" \in S!Stages
      BY DEF S!Stages
    <3> QED BY <1>2, <2>1, <3>1, RequestReads DEF S!ReadMfa
  <2>2. CASE ~user.secret
    BY <1>2, <2>2, RestIsCalm, RequestEnds DEF S!ReadMfa, ToDrop
  <2> QED BY <2>1, <2>2
<1>3. CASE S!RightCode(r)
  BY <1>3, DeletingIsCalm, RequestEnds DEF S!RightCode, ToDrop
<1>4. CASE S!FindRecovery(r)
  <2>1. "recovery" \in S!Stages
    BY DEF S!Stages
  <2>2. Prepared([pending[r] EXCEPT !.at = "recovery"])
    BY <1>1, <1>4 DEF S!FindRecovery, Prepared, S!Pending
  <2> QED BY <1>4, <2>1, <2>2, RestIsCalm, RequestGoesOn DEF S!FindRecovery, ToTry, ToGuess, ToDrop
<1>5. ASSUME NEW x \in Codes, S!UseRecovery(r, x) PROVE SignInInv' /\ CountInv'
  <2>1. "recovered" \in S!Stages
    BY DEF S!Stages
  <2>2. Prepared([pending[r] EXCEPT !.at = "recovered"])
    BY <1>1, <1>5 DEF S!UseRecovery, Prepared, S!Pending
  <2>3. failures <= failures
    BY <1>1
  <2>4. Calm
    BY <1>1, <1>5, <2>3 DEF S!UseRecovery, Calm, SignInInv, CountLocks
  <2> QED BY <1>5, <2>1, <2>2, <2>4, RequestGoesOn DEF S!UseRecovery, ToTry, ToGuess, ToDrop
<1>6. CASE S!Recovered(r)
  BY <1>6, DeletingIsCalm, RequestEnds DEF S!Recovered, ToDrop
<1>7. CASE S!WrongCode(r)
  BY <1>7, SignInWrongCode
<1>8. CASE S!CommitWrongCode(r)
  <2> DEFINE n == S!Bump(pending[r].seen.failed)
             locked == IF n >= LockAt THEN "yes" ELSE pending[r].seen.locked
  <2>0. pending[r].seen \in S!UserRow
    BY <1>1, <1>8 DEF S!CommitWrongCode, Prepared
  <2>1. n \in 0..LockAt
    BY <2>0, FailureCounted
  <2>2. locked \in {"no", "yes", "past"} /\ (n >= LockAt => locked # "no")
    BY <2>0 DEF S!UserRow
  <2>3. /\ user' = [user EXCEPT !.failed = n, !.locked = locked]
        /\ UNCHANGED <<codes, challenge, failures>> /\ S!Goto(r, "mfaWritten")
    BY <1>8 DEF S!CommitWrongCode
  <2> HIDE DEF n, locked
  <2>4. failures' <= failures
    BY <1>1, <2>3
  <2>5. Calm
    BY <1>1, <2>1, <2>2, <2>3, <2>4, RowWritten
  <2>6. "mfaWritten" \in S!Stages
    BY DEF S!Stages
  <2>7. Prepared([pending[r] EXCEPT !.at = "mfaWritten"])
    BY <1>1, <1>8 DEF S!CommitWrongCode, Prepared, S!Pending
  <2> QED BY <2>3, <2>5, <2>6, <2>7, RequestGoesOn DEF ToTry, ToGuess, ToDrop
<1>9. CASE S!DropSpent(r)
  <2>1. PICK c \in Challenges : c = pending[r].holds
    BY <1>1, <1>9 DEF S!DropSpent, Prepared
  <2>2. PICK n \in Nat : n = challenge[c].attempts
    BY <1>1 DEF S!Entry
  <2>3. PICK live \in BOOLEAN : live = (challenge[c].live /\ n < MaxGuesses)
    OBVIOUS
  <2>4. challenge[c] \in S!Entry
    BY <1>1
  <2>5. [challenge[c] EXCEPT !.live = live] = [challenge[c] EXCEPT !.attempts = n, !.live = live]
    BY <2>2, <2>4 DEF S!Entry
  <2>6. challenge' = [challenge EXCEPT ![c].live = live]
    BY <1>1, <1>9, <2>1, <2>2, <2>3 DEF S!DropSpent
  <2>7. challenge' = [challenge EXCEPT ![c].attempts = n, ![c].live = live]
    BY <1>1, <2>5, <2>6
  <2>8. Guessing(c) \ {r} \in SUBSET Requests /\ Guessing(c) \in SUBSET Requests
    BY DEF Guessing
  <2>9. Cardinality(Guessing(c) \ {r}) <= Cardinality(Guessing(c))
    BY <2>8, CountsOfRequests
  <2>10. n + Cardinality(Guessing(c)) <= MaxGuesses + S!Overlap
    BY <2>2 DEF CountInv, GuessesFit
  <2>11. n + Cardinality(Guessing(c) \ {r}) <= MaxGuesses + S!Overlap
    BY <2>8, <2>9, <2>10, CountsOfRequests
  <2> QED BY <1>9, <2>1, <2>3, <2>7, <2>11, LimitApplied DEF S!DropSpent
<1> QED BY <1>2, <1>3, <1>4, <1>5, <1>6, <1>7, <1>8, <1>9, SignInHolds DEF S!SecondFactor

LEMMA SignInEnrolment ==
    ASSUME SignInConstants, SignInInv, CountInv, NEW r \in Requests, S!Enrolment(r)
    PROVE  SignInInv' /\ CountInv'
<1> USE DEF S!At, S!Seen
<1>1. /\ user \in S!UserRow /\ codes \subseteq Codes /\ failures \in Nat
      /\ challenge \in [Challenges -> S!Entry] /\ pending[r] \in S!Pending
      /\ Prepared(pending[r])
  BY DEF SignInInv, SignInTypes
<1>2. CASE S!ReadEnrol(r)
  <2>1. CASE user.secret /\ user.enabled
    BY <1>2, <2>1, RestIsCalm, RequestEnds DEF S!ReadEnrol, ToDrop
  <2>2. CASE ~(user.secret /\ user.enabled)
    <3>1. "enrolRead" \in S!Stages
      BY DEF S!Stages
    <3>2. Prepared([pending[r] EXCEPT !.at = "enrolRead"])
      BY <1>1, <1>2 DEF S!ReadEnrol, Prepared, S!Pending
    <3> QED BY <1>2, <2>2, <3>1, <3>2, RestIsCalm, RequestGoesOn
            DEF S!ReadEnrol, ToTry, ToGuess, ToDrop
  <2> QED BY <2>1, <2>2
<1>3. CASE S!CommitEnrol(r)
  BY <1>1, <1>3, FactorWritten, RequestEnds DEF S!CommitEnrol, S!NewSecret, ToDrop
<1>4. CASE S!ReadConfirm(r)
  <2>1. CASE user.secret /\ ~user.enabled
    <3>1. "confirmRead" \in S!Stages
      BY DEF S!Stages
    <3>2. Prepared([pending[r] EXCEPT !.at = "confirmRead"])
      BY <1>1, <1>4 DEF S!ReadConfirm, Prepared, S!Pending
    <3> QED BY <1>4, <2>1, <3>1, <3>2, RestIsCalm, RequestGoesOn
            DEF S!ReadConfirm, ToTry, ToGuess, ToDrop
  <2>2. CASE ~(user.secret /\ ~user.enabled)
    BY <1>4, <2>2, RestIsCalm, RequestEnds DEF S!ReadConfirm, ToDrop
  <2> QED BY <2>1, <2>2
<1>5. ASSUME S!Enable, UNCHANGED <<challenge, failures>> PROVE Calm
  <2>1. user.secret \in BOOLEAN /\ user' = [user EXCEPT !.secret = user.secret, !.enabled = TRUE]
    BY <1>1, <1>5 DEF S!Enable, S!UserRow
  <2>2. codes' \subseteq Codes
    BY <1>5 DEF S!Enable
  <2> QED BY <1>5, <2>1, <2>2, FactorWritten
<1>6. CASE S!ConfirmEnrol(r)
  <2>1. "confirmed" \in S!Stages
    BY DEF S!Stages
  <2>2. Prepared([pending[r] EXCEPT !.at = "confirmed"])
    BY <1>1, <1>6 DEF S!ConfirmEnrol, Prepared, S!Pending
  <2> QED BY <1>5, <1>6, <2>1, <2>2, RequestGoesOn DEF S!ConfirmEnrol, ToTry, ToGuess, ToDrop
<1>7. CASE S!EnrolledSignIn(r)
  BY <1>7, DeletingIsCalm, RequestEnds DEF S!EnrolledSignIn, ToDrop
<1>8. CASE S!WrongConfirm(r)
  <2>1. PICK c \in Challenges : c = pending[r].holds
    BY <1>1, <1>8 DEF S!WrongConfirm, Prepared
  <2>2. challenge[c] \in S!Entry /\ challenge[c].attempts \in Nat
    BY <1>1 DEF S!Entry
  <2>3. PICK n \in Nat : n = challenge[c].attempts + 1
    BY <2>2
  <2>4. PICK live \in BOOLEAN : live = (challenge[c].live /\ n < MaxGuesses)
    OBVIOUS
  <2>5. challenge' = [challenge EXCEPT ![c].attempts = n, ![c].live = live]
    BY <1>1, <1>8, <2>1, <2>2, <2>3, <2>4 DEF S!WrongConfirm, S!Entry
  <2>6. Guessing(c) \in SUBSET Requests /\ r \in Guessing(c)
    BY <1>8, <2>1 DEF S!WrongConfirm, Guessing, ToGuess
  <2>7. Cardinality(Guessing(c) \ {r}) = Cardinality(Guessing(c)) - 1
    BY <2>6, OneMore
  <2>8. challenge[c].attempts + Cardinality(Guessing(c)) <= MaxGuesses + S!Overlap
    BY DEF CountInv, GuessesFit
  <2>9. n + Cardinality(Guessing(c) \ {r}) <= MaxGuesses + S!Overlap
    BY <2>2, <2>3, <2>6, <2>7, <2>8, CountsOfRequests
  <2> QED BY <1>8, <2>1, <2>4, <2>5, <2>9, LimitApplied DEF S!WrongConfirm
<1>9. CASE S!ReadConfirmMfa(r)
  <2>1. "self" \in S!Stages
    BY DEF S!Stages
  <2>2. Prepared([pending[r] EXCEPT !.at = "self"])
    BY <1>1 DEF Prepared, S!Pending
  <2> QED BY <1>9, <2>1, <2>2, RestIsCalm, RequestGoesOn DEF S!ReadConfirmMfa, ToTry, ToGuess, ToDrop
<1>10. CASE S!CommitConfirmMfa(r)
  BY <1>5, <1>10, RequestEnds DEF S!CommitConfirmMfa, ToDrop
<1>11. CASE S!ReadDisableMfa(r)
  <2>1. "disable" \in S!Stages
    BY DEF S!Stages
  <2>2. Prepared([pending[r] EXCEPT !.at = "disable"])
    BY <1>1 DEF Prepared, S!Pending
  <2> QED BY <1>11, <2>1, <2>2, RestIsCalm, RequestGoesOn DEF S!ReadDisableMfa, ToTry, ToGuess, ToDrop
<1>12. CASE S!CommitDisableMfa(r)
  BY <1>1, <1>12, FactorWritten, RequestEnds DEF S!CommitDisableMfa, ToDrop
<1> QED BY <1>2, <1>3, <1>4, <1>6, <1>7, <1>8, <1>9, <1>10, <1>11, <1>12 DEF S!Enrolment

LEMMA SignInOthers ==
    ASSUME SignInConstants, SignInInv, CountInv,
           \/ \E c \in Challenges : S!DropExpired(c) \/ S!ChallengeExpires(c)
           \/ S!EnrolMfa \/ S!ResetPassword \/ S!LockExpires \/ S!FailureAges \/ S!Restart
    PROVE  SignInInv' /\ CountInv'
<1>1. /\ user \in S!UserRow /\ codes \subseteq Codes /\ failures \in Nat
      /\ challenge \in [Challenges -> S!Entry] /\ failures <= failures
  BY DEF SignInInv, SignInTypes
<1>2. ASSUME NEW c \in Challenges, S!DropExpired(c) PROVE SignInInv' /\ CountInv'
  BY <1>2, DeletingIsCalm, RequestsStay DEF S!DropExpired
<1>3. ASSUME NEW c \in Challenges, S!ChallengeExpires(c) PROVE SignInInv' /\ CountInv'
  <2> DEFINE entry2 == [challenge[c] EXCEPT !.fresh = FALSE]
  <2>1. challenge' = [challenge EXCEPT ![c] = entry2] /\ UNCHANGED <<user, codes, failures, pending>>
    BY <1>3 DEF S!ChallengeExpires
  <2>2. /\ entry2 \in S!Entry /\ entry2.attempts = challenge[c].attempts
        /\ entry2.live = challenge[c].live
    BY <1>1 DEF S!Entry
  <2> HIDE DEF entry2
  <2>3. Calm
    BY <1>1, <2>1, <2>2 DEF Calm, SignInInv, CountLocks
  <2> QED BY <2>1, <2>3, RequestsStay
<1>4. CASE S!EnrolMfa
  BY <1>1, <1>4, FactorWritten, RequestsStay DEF S!EnrolMfa, S!NewSecret
<1>5. CASE S!ResetPassword
  <2>1. 0 \in 0..LockAt /\ ~(0 >= LockAt)
    BY CountsOfRequests
  <2>2. user' = [user EXCEPT !.failed = 0, !.locked = "no"] /\ UNCHANGED <<codes, challenge, failures, pending>>
    BY <1>5 DEF S!ResetPassword
  <2>3. Calm
    BY <1>1, <2>1, <2>2, RowWritten
  <2> QED BY <2>2, <2>3, RequestsStay
<1>6. CASE S!LockExpires
  <2>1. user.failed \in 0..LockAt /\ user' = [user EXCEPT !.failed = user.failed, !.locked = "past"]
    BY <1>1, <1>6 DEF S!LockExpires, S!UserRow
  <2>2. UNCHANGED <<codes, challenge, failures, pending>>
    BY <1>6 DEF S!LockExpires
  <2>3. Calm
    BY <1>1, <2>1, <2>2, RowWritten
  <2> QED BY <2>2, <2>3, RequestsStay
<1>7. CASE S!FailureAges
  <2>1. failures' \in Nat /\ failures' <= failures
    BY <1>1, <1>7 DEF S!FailureAges
  <2>2. UNCHANGED <<user, codes, challenge, pending>>
    BY <1>7 DEF S!FailureAges
  <2>3. Calm
    BY <1>1, <2>1, <2>2 DEF Calm, SignInInv, CountLocks
  <2> QED BY <2>2, <2>3, RequestsStay
<1>8. CASE S!Restart
  <2>1. S!Idle \in S!Pending /\ S!Idle.at = "idle"
    BY DEF S!Idle, S!Pending, S!Stages
  <2>2. S!Unissued \in S!Entry /\ S!Unissued.attempts = 0 /\ ~S!Unissued.live
    BY DEF S!Unissued, S!Entry
  <2>3. /\ \A r \in Requests : pending'[r] = S!Idle
        /\ \A c \in Challenges : challenge'[c] = S!Unissued
        /\ failures' = 0 /\ UNCHANGED <<user, codes>>
    BY <1>8 DEF S!Restart
  <2>4. SignInTypes'
    BY <1>1, <1>8, <2>1, <2>2 DEF S!Restart, SignInTypes
  <2>5. (\A r \in Requests : Prepared(pending[r]))'
    BY <2>1, <2>3 DEF Prepared
  <2>6. CountLocks'
    BY <2>3 DEF SignInInv, CountLocks
  <2>7. Trying' = {} /\ \A c : Guessing(c)' = {}
    BY <2>1, <2>3 DEF Trying, Guessing, ToTry, ToGuess
  <2>8. Cardinality({}) = 0
    BY FS_EmptySet
  <2>9. FailuresFit'
    BY <2>3, <2>7, <2>8, CountsOfRequests DEF FailuresFit
  <2>10. GuessesFit'
    BY <2>2, <2>3, <2>7, <2>8, CountsOfRequests DEF GuessesFit
  <2>11. SpentIsDropped'
    BY <2>2, <2>3 DEF SpentIsDropped
  <2> QED BY <2>4, <2>5, <2>6, <2>9, <2>10, <2>11 DEF SignInInv, CountInv
<1> QED BY <1>2, <1>3, <1>4, <1>5, <1>6, <1>7, <1>8

LEMMA SignInNext ==
    ASSUME SignInConstants, SignInInv, CountInv, [S!Next]_S!signInVars
    PROVE  SignInInv' /\ CountInv'
<1>1. CASE UNCHANGED S!signInVars
  <2>1. UNCHANGED <<user, codes, challenge, failures>> /\ UNCHANGED pending
    BY <1>1 DEF S!signInVars
  <2> QED BY <2>1, RestIsCalm, RequestsStay
<1>2. CASE S!Next
  BY <1>2, SignInPasswords, SignInSecondFactor, SignInEnrolment, SignInOthers DEF S!Next
<1> QED BY <1>1, <1>2

\* Who lifts a lock: only the writes of a password check, and of a wrong code,
\* touch the column, and they go by the row that their request has read.
LEMMA LockLifted ==
    ASSUME SignInConstants, SignInInv, [S!Next]_S!signInVars,
           user.locked = "yes", user'.locked # "yes"
    PROVE  \/ S!LockExpires \/ S!ResetPassword
           \/ \E r \in Requests : /\ S!Seen(r) # Null /\ pending'[r].at # pending[r].at
                                  /\ S!Seen(r).locked # "yes"
<1> USE DEF S!At, S!Seen
<1>1. user \in S!UserRow /\ pending \in [Requests -> S!Pending]
  BY DEF SignInInv, SignInTypes
<1>2. S!Next
  BY DEF S!signInVars
<1>3. \A s \in S!UserRow : s # Null
  BY DEF SignInConstants
<1> DEFINE Lifted(r) == /\ pending[r].seen # Null /\ pending'[r].at # pending[r].at
                        /\ pending[r].seen.locked # "yes"
<1>4. \A r \in Requests : Prepared(pending[r])
  BY DEF SignInInv
<1>5. ASSUME NEW r \in Requests, S!Login(r) PROVE Lifted(r)
  <2>1. S!CommitFailure(r) \/ S!RightPassword(r)
    BY <1>5 DEF S!Login, S!BeginLogin, S!ReadLogin, S!WrongPassword, S!ClearFailures, S!SignedIn,
       S!Challenge
  <2>2. pending[r].seen \in S!UserRow /\ pending[r].seen.locked # "yes"
    BY <1>4, <2>1 DEF S!CommitFailure, S!RightPassword, Prepared
  <2>3. pending'[r].at # pending[r].at
    BY <1>1, <2>1 DEF S!CommitFailure, S!RightPassword, S!End, S!Goto, S!Idle, S!Pending
  <2> QED BY <1>3, <2>2, <2>3
<1>6. ASSUME NEW r \in Requests, S!SecondFactor(r) PROVE Lifted(r)
  <2>1. S!CommitWrongCode(r)
    BY <1>6 DEF S!SecondFactor, S!ReadMfa, S!RightCode, S!FindRecovery, S!Recovered, S!WrongCode,
       S!DropSpent, S!UseRecovery, S!Hold
  <2>2. pending[r].seen \in S!UserRow
    BY <1>4, <2>1 DEF S!CommitWrongCode, Prepared
  <2>3. pending[r].seen.locked # "yes"
    BY <1>1, <2>1 DEF S!CommitWrongCode, S!UserRow
  <2>4. pending'[r].at # pending[r].at
    BY <1>1, <2>1 DEF S!CommitWrongCode, S!Goto, S!Pending
  <2> QED BY <1>3, <2>2, <2>3, <2>4
<1>7. ASSUME NEW r \in Requests, S!Enrolment(r) PROVE FALSE
  <2>1. S!CommitEnrol(r) \/ S!ConfirmEnrol(r) \/ S!CommitConfirmMfa(r) \/ S!CommitDisableMfa(r)
    BY <1>7 DEF S!Enrolment, S!ReadEnrol, S!ReadConfirm, S!EnrolledSignIn, S!WrongConfirm,
       S!ReadConfirmMfa, S!ReadDisableMfa
  <2>2. user'.locked = user.locked
    BY <1>1, <2>1 DEF S!CommitEnrol, S!ConfirmEnrol, S!CommitConfirmMfa, S!CommitDisableMfa,
       S!NewSecret, S!Enable, S!UserRow
  <2> QED BY <2>2
<1>9. ASSUME NEW c \in Challenges, S!DropExpired(c) \/ S!ChallengeExpires(c) PROVE FALSE
  BY <1>9 DEF S!DropExpired, S!ChallengeExpires
<1>10. S!EnrolMfa \/ S!FailureAges \/ S!Restart => FALSE
  BY <1>1 DEF S!EnrolMfa, S!NewSecret, S!FailureAges, S!Restart, S!UserRow
<1> QED BY <1>2, <1>5, <1>6, <1>7, <1>9, <1>10 DEF S!Next
-----------------------------------------------------------------------------
(***************************************************************************)
(* The failures that count one by one: each is written over a row that the *)
(* round before it had left, so the count of the row keeps up with them.   *)
(***************************************************************************)
Remembers == {"verify", "failing", "mfaRead", "mfaWrong"}
TallyInv ==
    /\ missed \in BOOLEAN /\ rounds \in 0..LockAt
    /\ rounds <= user.failed
    /\ missed => S!Bump(rounds) <= user.failed
    /\ \A r \in Requests : pending[r].at \in Remembers => rounds <= pending[r].seen.failed

LEMMA TallyInit == ASSUME SignInConstants, S!Init PROVE TallyInv
<1>1. missed = FALSE /\ rounds = 0 /\ user.failed = 0 /\ 0 \in 0..LockAt
  BY CountsOfRequests DEF S!Init
<1>2. \A r \in Requests : pending[r].at \notin Remembers
  BY DEF S!Init, S!Idle, Remembers
<1>3. missed \in BOOLEAN /\ ~missed
  BY <1>1
<1>4. rounds \in 0..LockAt /\ rounds <= user.failed
  BY <1>1
<1> QED BY <1>2, <1>3, <1>4 DEF TallyInv

LEMMA BumpRises ==
    ASSUME SignInConstants, NEW m \in 0..LockAt, NEW n \in 0..LockAt, m <= n
    PROVE  /\ S!Bump(m) \in 0..LockAt /\ S!Bump(n) \in 0..LockAt
           /\ m <= S!Bump(m) /\ S!Bump(m) <= S!Bump(n)
BY CountsOfRequests DEF S!Bump

\* A step that leaves the tally and the count alone: who remembers a row after it
\* remembered it before, or has read the row as it is.
LEMMA TallyStays ==
    ASSUME SignInInv, TallyInv, UNCHANGED <<missed, rounds>>, user'.failed = user.failed,
           \A q \in Requests : pending'[q].at \in Remembers =>
              \/ pending[q].at \in Remembers /\ pending'[q].seen = pending[q].seen
              \/ pending'[q].seen = user
    PROVE  TallyInv'
<1>1. ASSUME NEW q \in Requests, pending'[q].at \in Remembers
      PROVE  rounds <= pending'[q].seen.failed
  BY <1>1 DEF TallyInv
<1> QED BY <1>1 DEF TallyInv, S!Bump

LEMMA TallyEnds ==
    ASSUME SignInInv, TallyInv, NEW r \in Requests, S!End(r),
           UNCHANGED <<missed, rounds>>, user'.failed = user.failed
    PROVE  TallyInv'
<1>1. S!Idle.at \notin Remembers
  BY DEF S!Idle, Remembers
<1>2. \A q \in Requests : pending'[q] = IF q = r THEN S!Idle ELSE pending[q]
  BY DEF S!End, SignInInv, SignInTypes
<1> QED BY <1>1, <1>2, TallyStays

LEMMA TallyGoesOn ==
    ASSUME SignInInv, TallyInv, NEW r \in Requests, NEW stage, S!Goto(r, stage),
           stage \in Remembers => pending[r].at \in Remembers,
           UNCHANGED <<missed, rounds>>, user'.failed = user.failed
    PROVE  TallyInv'
<1>1. \A q \in Requests : pending[q] \in S!Pending
  BY DEF SignInInv, SignInTypes
<1>2. /\ pending'[r].at = stage /\ pending'[r].seen = pending[r].seen
      /\ \A q \in Requests : q # r => pending'[q] = pending[q]
  BY <1>1 DEF S!Goto, SignInInv, SignInTypes, S!Pending
<1>3. \A q \in Requests : pending'[q].at \in Remembers =>
         pending[q].at \in Remembers /\ pending'[q].seen = pending[q].seen
  BY <1>2
<1> QED BY <1>3, TallyStays

LEMMA TallyReads ==
    ASSUME SignInInv, TallyInv, NEW r \in Requests, NEW stage, S!Read(r, stage),
           UNCHANGED <<missed, rounds>>, UNCHANGED user
    PROVE  TallyInv'
<1>1. \A q \in Requests : pending[q] \in S!Pending
  BY DEF SignInInv, SignInTypes
<1>2. /\ pending'[r].seen = user
      /\ \A q \in Requests : q # r => pending'[q] = pending[q]
  BY <1>1 DEF S!Read, SignInInv, SignInTypes, S!Pending
<1>3. \A q \in Requests : pending'[q].at \in Remembers =>
         \/ pending[q].at \in Remembers /\ pending'[q].seen = pending[q].seen
         \/ pending'[q].seen = user
  BY <1>2
<1> QED BY <1>3, TallyStays

\* A round ends when no request remembers a row.
LEMMA TallyBegins ==
    ASSUME SignInConstants, SignInInv, TallyInv, NEW r \in Requests, S!Begin, UNCHANGED user,
           NEW next, pending' = [pending EXCEPT ![r] = next], next.at \notin Remembers
    PROVE  TallyInv'
<1> DEFINE quiet == \A q \in Requests : pending[q].at = "idle"
<1>1. /\ rounds' = IF quiet /\ missed THEN S!Bump(rounds) ELSE rounds
      /\ missed' = (missed /\ ~quiet)
  BY DEF S!Begin, S!At
<1>2. \A q \in Requests : pending'[q] = IF q = r THEN next ELSE pending[q]
  BY DEF SignInInv, SignInTypes
<1> HIDE DEF quiet
<1>3. user.failed \in 0..LockAt
  BY DEF SignInInv, SignInTypes, S!UserRow
<1>4. CASE quiet /\ missed
  <2>1. rounds' = S!Bump(rounds) /\ missed' = FALSE
    BY <1>1, <1>4
  <2>2. rounds' \in 0..LockAt /\ rounds' <= user.failed
    BY <2>1, <1>3, <1>4, BumpRises DEF TallyInv
  <2>3. \A q \in Requests : pending'[q].at \notin Remembers
    BY <1>2, <1>4 DEF quiet, Remembers
  <2> QED BY <2>1, <2>2, <2>3 DEF TallyInv
<1>5. CASE ~(quiet /\ missed)
  <2>1. rounds' = rounds /\ missed' \in BOOLEAN /\ (missed' => missed)
    BY <1>1, <1>5 DEF TallyInv
  <2>2. ASSUME NEW q \in Requests, pending'[q].at \in Remembers
        PROVE  rounds <= pending'[q].seen.failed
    BY <1>2, <2>2 DEF TallyInv
  <2>3. S!Bump(rounds)' = S!Bump(rounds) /\ user'.failed = user.failed
    BY <2>1 DEF S!Bump
  <2> QED BY <2>1, <2>2, <2>3 DEF TallyInv
<1> QED BY <1>4, <1>5

\* A failure is written over the row that was read.
LEMMA TallyMisses ==
    ASSUME SignInConstants, SignInInv, TallyInv, NEW r \in Requests, S!Miss,
           pending[r].at \in {"failing", "mfaWrong"},
           user'.failed = S!Bump(pending[r].seen.failed),
           S!End(r) \/ S!Goto(r, "mfaWritten")
    PROVE  TallyInv'
<1>1. \A q \in Requests : pending[q] \in S!Pending
  BY DEF SignInInv, SignInTypes
<1>2. \A q \in Requests : pending'[q].at \in Remembers => pending'[q] = pending[q]
  <2>1. \A q \in Requests : q # r => pending'[q] = pending[q]
    BY DEF S!End, S!Goto, SignInInv, SignInTypes
  <2>2. pending'[r].at \notin Remembers
    BY <1>1 DEF S!End, S!Goto, S!Idle, SignInInv, SignInTypes, S!Pending, Remembers
  <2> QED BY <2>1, <2>2
<1>3. pending[r].seen \in S!UserRow /\ rounds <= pending[r].seen.failed
  BY DEF SignInInv, Prepared, TallyInv, Remembers
<1>4. pending[r].seen.failed \in 0..LockAt /\ rounds \in 0..LockAt
  BY <1>3 DEF S!UserRow, TallyInv
<1>5. /\ S!Bump(rounds) <= user'.failed /\ rounds <= S!Bump(rounds)
      /\ S!Bump(rounds) \in Nat /\ user'.failed \in Nat /\ rounds \in Nat
  BY <1>3, <1>4, BumpRises
<1>6. rounds <= user'.failed
  BY <1>5
<1>7. missed' = TRUE /\ rounds' = rounds /\ S!Bump(rounds)' = S!Bump(rounds)
  BY DEF S!Miss, S!Bump
<1>8. ASSUME NEW q \in Requests, pending'[q].at \in Remembers
      PROVE  rounds <= pending'[q].seen.failed
  BY <1>2, <1>8 DEF TallyInv
<1> QED BY <1>4, <1>5, <1>6, <1>7, <1>8 DEF TallyInv

\* A right or a new password begins the tally anew.
LEMMA TallyForgives ==
    ASSUME SignInConstants, SignInInv, TallyInv, S!Forgive, user'.failed = 0,
           \A q \in Requests : pending'[q].at \in Remembers => pending'[q] = pending[q]
    PROVE  TallyInv'
<1>1. missed' = FALSE /\ rounds' = 0 /\ 0 \in 0..LockAt /\ 0 <= 0
  BY CountsOfRequests DEF S!Forgive
<1>2. ASSUME NEW q \in Requests, pending'[q].at \in Remembers
      PROVE  0 <= pending'[q].seen.failed
  <2>1. pending'[q].seen \in S!UserRow
    BY <1>2 DEF SignInInv, Prepared, Remembers
  <2> QED BY <2>1, CountsOfRequests DEF S!UserRow
<1> QED BY <1>1, <1>2 DEF TallyInv

LEMMA TallyOfRequests ==
    ASSUME SignInConstants, SignInInv, TallyInv, NEW r \in Requests,
           S!Login(r) \/ S!SecondFactor(r) \/ S!Enrolment(r)
    PROVE  TallyInv'
<1> USE DEF S!At, S!Seen
<1>1. /\ user \in S!UserRow /\ pending[r] \in S!Pending
      /\ pending \in [Requests -> S!Pending]
  BY DEF SignInInv, SignInTypes
<1>2. ASSUME NEW stage \in {"admitted", "mfa", "enrol", "confirm", "self", "disable"},
             NEW holder \in Challenges \cup {Null}, S!Begin, UNCHANGED user,
             pending' = [pending EXCEPT ![r].at = stage, ![r].holds = holder]
      PROVE  TallyInv'
  <2> DEFINE next == [pending[r] EXCEPT !.at = stage, !.holds = holder]
  <2>1. pending' = [pending EXCEPT ![r] = next] /\ next.at = stage
    BY <1>1, <1>2 DEF S!Pending
  <2>2. next.at \notin Remembers
    BY <2>1 DEF Remembers
  <2> HIDE DEF next
  <2> QED BY <1>2, <2>1, <2>2, TallyBegins
<1>3. ASSUME NEW stage \in {"admitted", "self", "disable"}, S!Begin, UNCHANGED user, S!Goto(r, stage)
      PROVE  TallyInv'
  <2>1. pending' = [pending EXCEPT ![r].at = stage, ![r].holds = pending[r].holds]
        /\ pending[r].holds \in Challenges \cup {Null}
    BY <1>1, <1>3 DEF S!Goto, S!Pending
  <2> QED BY <1>2, <1>3, <2>1
<1>4. CASE S!BeginLogin(r) \/ S!ReadConfirmMfa(r) \/ S!ReadDisableMfa(r)
  BY <1>3, <1>4 DEF S!BeginLogin, S!ReadConfirmMfa, S!ReadDisableMfa
<1>5. ASSUME NEW c \in Challenges, NEW stage \in {"mfa", "enrol", "confirm"}, S!Hold(r, c, stage)
      PROVE  TallyInv'
  BY <1>2, <1>5 DEF S!Hold
<1>6. CASE S!CommitFailure(r)
  <2>1. user'.failed = S!Bump(pending[r].seen.failed)
    BY <1>1, <1>6 DEF S!CommitFailure, S!UserRow
  <2> QED BY <1>6, <2>1, TallyMisses DEF S!CommitFailure
<1>7. CASE S!CommitWrongCode(r)
  <2>1. user'.failed = S!Bump(pending[r].seen.failed)
    BY <1>1, <1>7 DEF S!CommitWrongCode, S!UserRow
  <2> QED BY <1>7, <2>1, TallyMisses DEF S!CommitWrongCode
<1>8. CASE S!RightPassword(r)
  <2>1. user'.failed = 0
    BY <1>1, <1>8 DEF S!RightPassword, S!UserRow
  <2>2. \A q \in Requests : pending'[q].at \in Remembers => pending'[q] = pending[q]
    BY <1>1, <1>8 DEF S!RightPassword, S!Goto, S!Pending, Remembers
  <2> QED BY <1>8, <2>1, <2>2, TallyForgives DEF S!RightPassword
<1>9. UNCHANGED S!tally => UNCHANGED <<missed, rounds>>
  BY DEF S!tally
<1>10. ASSUME UNCHANGED S!tally,
              \/ S!ReadLogin(r) \/ S!WrongPassword(r) \/ S!ClearFailures(r) \/ S!SignedIn(r)
              \/ \E c \in Challenges : S!Challenge(r, c)
       PROVE  TallyInv'
  <2>1. UNCHANGED user
    BY <1>10 DEF S!ReadLogin, S!WrongPassword, S!ClearFailures, S!SignedIn, S!Challenge
  <2>2. \/ S!End(r) \/ S!Read(r, "verify") \/ S!Goto(r, "cleared")
        \/ S!Goto(r, "failing") /\ pending[r].at = "verify"
    BY <1>10 DEF S!ReadLogin, S!WrongPassword, S!ClearFailures, S!SignedIn, S!Challenge
  <2> QED BY <1>9, <1>10, <2>1, <2>2, TallyEnds, TallyReads, TallyGoesOn DEF Remembers
<1>11. ASSUME UNCHANGED S!tally,
              \/ S!ReadMfa(r) \/ S!RightCode(r) \/ S!FindRecovery(r) \/ S!Recovered(r)
              \/ S!WrongCode(r) \/ S!DropSpent(r) \/ \E x \in Codes : S!UseRecovery(r, x)
       PROVE  TallyInv'
  <2>1. UNCHANGED user
    BY <1>11 DEF S!ReadMfa, S!RightCode, S!FindRecovery, S!Recovered, S!WrongCode, S!DropSpent,
       S!UseRecovery
  <2>2. \/ S!End(r) \/ S!Read(r, "mfaRead") \/ S!Goto(r, "recovery") \/ S!Goto(r, "recovered")
        \/ S!Goto(r, "mfaWrong") /\ pending[r].at = "mfaRead"
    BY <1>11 DEF S!ReadMfa, S!RightCode, S!FindRecovery, S!Recovered, S!WrongCode, S!DropSpent,
       S!UseRecovery
  <2> QED BY <1>9, <1>11, <2>1, <2>2, TallyEnds, TallyReads, TallyGoesOn DEF Remembers
<1>12. ASSUME UNCHANGED S!tally,
              \/ S!ReadEnrol(r) \/ S!CommitEnrol(r) \/ S!ReadConfirm(r) \/ S!ConfirmEnrol(r)
              \/ S!EnrolledSignIn(r) \/ S!WrongConfirm(r)
              \/ S!CommitConfirmMfa(r) \/ S!CommitDisableMfa(r)
       PROVE  TallyInv'
  <2>1. CASE S!ReadEnrol(r) \/ S!ReadConfirm(r) \/ S!EnrolledSignIn(r) \/ S!WrongConfirm(r)
    <3>1. UNCHANGED user /\ (S!End(r) \/ S!Goto(r, "enrolRead") \/ S!Goto(r, "confirmRead"))
      BY <2>1 DEF S!ReadEnrol, S!ReadConfirm, S!EnrolledSignIn, S!WrongConfirm
    <3> QED BY <1>9, <1>12, <3>1, TallyEnds, TallyGoesOn DEF Remembers
  <2>2. CASE S!CommitEnrol(r) \/ S!ConfirmEnrol(r) \/ S!CommitConfirmMfa(r) \/ S!CommitDisableMfa(r)
    <3>1. user'.failed = user.failed
      BY <1>1, <2>2 DEF S!CommitEnrol, S!ConfirmEnrol, S!CommitConfirmMfa, S!CommitDisableMfa,
         S!NewSecret, S!Enable, S!UserRow
    <3>2. S!End(r) \/ S!Goto(r, "confirmed")
      BY <2>2 DEF S!CommitEnrol, S!ConfirmEnrol, S!CommitConfirmMfa, S!CommitDisableMfa
    <3> QED BY <1>9, <1>12, <3>1, <3>2, TallyEnds, TallyGoesOn DEF Remembers
  <2> QED BY <1>12, <2>1, <2>2
<1> QED BY <1>4, <1>5, <1>6, <1>7, <1>8, <1>10, <1>11, <1>12
        DEF S!Login, S!SecondFactor, S!Enrolment

LEMMA TallyNext ==
    ASSUME SignInConstants, SignInInv, TallyInv, [S!Next]_S!signInVars
    PROVE  TallyInv'
<1>1. user \in S!UserRow
  BY DEF SignInInv, SignInTypes
<1>2. CASE UNCHANGED S!signInVars
  <2>1. UNCHANGED <<user, pending, missed, rounds>>
    BY <1>2 DEF S!signInVars, S!tally
  <2> QED BY <2>1, TallyStays
<1>3. CASE S!ResetPassword
  <2>1. user'.failed = 0 /\ UNCHANGED pending /\ S!Forgive
    BY <1>1, <1>3 DEF S!ResetPassword, S!UserRow
  <2> QED BY <2>1, TallyForgives
<1>4. ASSUME UNCHANGED S!tally,
             \/ \E c \in Challenges : S!DropExpired(c) \/ S!ChallengeExpires(c)
             \/ S!EnrolMfa \/ S!LockExpires \/ S!FailureAges
      PROVE  TallyInv'
  <2>1. user'.failed = user.failed /\ UNCHANGED pending
    BY <1>1, <1>4 DEF S!DropExpired, S!ChallengeExpires, S!EnrolMfa, S!NewSecret, S!LockExpires,
       S!FailureAges, S!UserRow
  <2>2. UNCHANGED <<missed, rounds>>
    BY <1>4 DEF S!tally
  <2> QED BY <2>1, <2>2, TallyStays
<1>5. ASSUME UNCHANGED S!tally, S!Restart PROVE TallyInv'
  <2>1. \A q \in Requests : pending'[q].at \notin Remembers
    BY <1>5 DEF S!Restart, S!Idle, Remembers
  <2>2. UNCHANGED <<missed, rounds>> /\ UNCHANGED user
    BY <1>5 DEF S!tally, S!Restart
  <2> QED BY <2>1, <2>2, TallyStays
<1> QED BY <1>2, <1>3, <1>4, <1>5, TallyOfRequests DEF S!Next
-----------------------------------------------------------------------------
LEMMA SignInStays ==
    ASSUME SignInConstants PROVE MCSpec => [](SignInInv /\ CountInv /\ TallyInv)
<1>1. MCInit => SignInInv /\ CountInv /\ TallyInv
  BY SignInInit, TallyInit DEF MCInit
<1>2. SignInInv /\ CountInv /\ TallyInv /\ [MCNext]_vars => (SignInInv /\ CountInv /\ TallyInv)'
  <2>1. [MCNext]_vars => [S!Next]_S!signInVars
    BY DEF MCNext, vars, people, signIn, S!signInVars, S!tally
  <2> QED BY <2>1, SignInNext, TallyNext
<1> QED BY <1>1, <1>2, PTL DEF MCSpec

\* For any number of requests, challenges and codes, and any limits: neither the
\* wrong codes of a challenge nor the failures in the window exceed their limit by
\* more than the other requests in progress, and an account on which LockAt
\* failures fell that did not all overlap, with no right or new password since, is
\* locked or has been until the lock ran out.
THEOREM AttemptsStayCounted == ASSUME SignInConstants PROVE MCSpec => []AttemptsCounted
<1>1. SignInInv /\ CountInv /\ TallyInv => AttemptsCounted
  <2> SUFFICES ASSUME SignInInv, CountInv, TallyInv PROVE S!GuessesBounded /\ S!FailuresLock
    BY DEF AttemptsCounted, S!AttemptsCounted
  <2>1. Cardinality(Trying) \in Nat /\ failures \in Nat
    BY CountsOfRequests DEF Trying, SignInInv, SignInTypes
  <2>2. failures <= MaxFailures + S!Overlap
    BY <2>1, CountsOfRequests DEF CountInv, FailuresFit
  <2>3. ASSUME NEW c \in Challenges PROVE challenge[c].attempts <= MaxGuesses + S!Overlap
    <3>1. Cardinality(Guessing(c)) \in Nat /\ challenge[c].attempts \in Nat
      BY CountsOfRequests DEF Guessing, SignInInv, SignInTypes, S!Entry
    <3> QED BY <3>1, CountsOfRequests DEF CountInv, GuessesFit
  <2>4. rounds \in 0..LockAt /\ rounds <= user.failed /\ user.failed \in 0..LockAt
    BY DEF TallyInv, SignInInv, SignInTypes, S!UserRow
  <2>5. S!FailuresLock
    BY <2>4, CountsOfRequests DEF S!FailuresLock, SignInInv, CountLocks
  <2> QED BY <2>2, <2>3, <2>5 DEF S!GuessesBounded
<1> QED BY <1>1, SignInStays, PTL

\* A lock is lifted by time, by a new password, or by a request that has read the
\* row before the lock was set.
THEOREM LocksStand == ASSUME SignInConstants PROVE MCSpec => LockStands
<1> DEFINE Stands == user.locked = "yes" /\ user'.locked # "yes" =>
              \/ S!LockExpires \/ S!ResetPassword
              \/ \E r \in Requests : /\ S!Seen(r) # Null /\ pending'[r].at # pending[r].at
                                     /\ S!Seen(r).locked # "yes"
<1>1. [MCNext]_vars => [S!Next]_S!signInVars
  BY DEF MCNext, vars, people, signIn, S!signInVars, S!tally
<1>2. SignInInv /\ CountInv /\ [MCNext]_vars => [Stands]_S!signInVars
  BY <1>1, LockLifted
<1> QED BY <1>2, SignInStays, PTL DEF MCSpec, LockStands, S!LockStands
-----------------------------------------------------------------------------
(***************************************************************************)
(* Refresh tokens.  The server looks a token up before it exchanges it, and *)
(* relies on the browser for sending it once, so the invariant is about     *)
(* both: what the store and the requests in flight hold, and which sessions *)
(* of their family can be live.                                             *)
(***************************************************************************)
RotationConstants == R!RotationAssumption

\* Tokens are of sessions that exist, and so are families.
Known(s) == s \in R!Sessions /\ session[s].state # "absent"
TokensKnown ==
    /\ store # Null => Known(store)
    /\ \A l \in lost : Known(l)
    /\ \A s \in R!Sessions : Known(s) => Known(session[s].family)

\* A refresh that nobody waits for has its token among the lost; the session it
\* has opened is in nobody's hands yet.
RefreshKnown == \A f \in Refreshes :
    /\ refresh[f].at # "idle" => Known(refresh[f].token)
    /\ refresh[f].at = "done" => /\ Known(refresh[f].next) /\ refresh[f].next # store
                                 /\ session[refresh[f].next].state # "exchanged"
    /\ refresh[f].at # "done" => refresh[f].next = Null
    /\ refresh[f].tab # Null => refresh[f].at # "idle"
    /\ refresh[f].at # "idle" /\ refresh[f].tab = Null => refresh[f].token \in lost
RefreshesApart == \A f, g \in Refreshes :
    /\ f # g /\ refresh[f].tab # Null => refresh[f].tab # refresh[g].tab
    /\ refresh[f].at = "done" /\ refresh[g].at # "idle" => refresh[g].token # refresh[f].next
    /\ f # g /\ refresh[f].at = "done" /\ refresh[g].at = "done" =>
          refresh[f].next # refresh[g].next

\* A family has one live session, which is none when it is about to get the next, and
\* one refresh at work; a token is on its way once, and is not sent again once it is
\* exchanged.
Mourned(s) == \E l \in lost : session[l].family = session[s].family
HeadsAlone == \A s, r \in R!Live :
    s # r /\ session[s].family = session[r].family => Mourned(s)
TurnsAlone == \A f \in Refreshes, s \in R!Live :
    /\ refresh[f].at = "revoked" \/ (refresh[f].at = "live" /\ s # refresh[f].token)
    /\ session[s].family = session[refresh[f].token].family
    => Mourned(s)
TokensApart == \A f, g \in Refreshes :
    f # g /\ refresh[f].at # "idle" /\ refresh[g].at # "idle" /\ refresh[f].token = refresh[g].token
    => refresh[f].token \in lost
WorkAlone == \A f, g \in Refreshes :
    /\ f # g /\ refresh[f].at \in {"live", "revoked"} /\ refresh[g].at \in {"live", "revoked"}
    /\ session[refresh[f].token].family = session[refresh[g].token].family
    => Mourned(refresh[f].token)
SentOnce == \A f \in Refreshes :
    /\ refresh[f].at \in {"sent", "live"} /\ session[refresh[f].token].state = "exchanged"
          => refresh[f].token \in lost
    /\ refresh[f].at = "reused"
          => refresh[f].token \in lost \/ session[refresh[f].token].state = "ended"
StoreWaits ==
    store # Null /\ session[store].state = "exchanged" =>
        \/ store \in lost
        \/ \E f \in Refreshes : /\ refresh[f].tab # Null /\ refresh[f].token = store
                                /\ refresh[f].at \in {"revoked", "done"}
ChainInv ==
    HeadsAlone /\ TurnsAlone /\ TokensApart /\ WorkAlone /\ SentOnce /\ StoreWaits

RotationIInv == R!TypeOK /\ TokensKnown /\ RefreshKnown /\ RefreshesApart /\ ChainInv
-----------------------------------------------------------------------------
LEMMA RotationNumbers ==
    ASSUME RotationConstants
    PROVE  /\ R!Sessions \subseteq Nat /\ Null \notin R!Sessions /\ Null \notin Windows
           /\ TabOf \in [Calls -> Windows] /\ MaxSessions \in Nat
<1>1. /\ MaxSessions \in Nat /\ TabOf \in [Calls -> Windows] /\ Null \notin Windows
      /\ Null \notin Nat
  BY DEF RotationConstants, R!RotationAssumption
<1>2. R!Sessions \subseteq Nat
  BY <1>1 DEF R!Sessions
<1> QED BY <1>1, <1>2

LEMMA RotationInit == ASSUME RotationConstants, R!Init PROVE RotationIInv
<1>1. /\ R!NoRefresh.at = "idle" /\ R!NoRefresh.tab = Null /\ R!NoRefresh.next = Null
      /\ R!NoRefresh \in R!RefreshState /\ R!NoCall \in R!CallState
      /\ R!NoPage("loading") \in R!Page
  BY DEF R!NoRefresh, R!RefreshState, R!Token, R!NoCall, R!CallState, R!NoPage, R!Page
<1>2. \A s \in R!Sessions : session[s].state = "absent"
  BY DEF R!Init
<1>3. R!TypeOK
  <2>1. \A s \in R!Sessions : [state |-> "absent", family |-> s] \in
           [state: {"absent", "live", "exchanged", "ended"}, family: R!Sessions]
    OBVIOUS
  <2> QED BY <1>1, <2>1 DEF R!Init, R!TypeOK, R!Token
<1>4. R!Live = {} /\ store = Null /\ lost = {} /\ \A f \in Refreshes : refresh[f] = R!NoRefresh
  BY <1>2 DEF R!Init, R!Live
<1>5. TokensKnown /\ RefreshKnown /\ RefreshesApart
  BY <1>1, <1>2, <1>4 DEF TokensKnown, RefreshKnown, RefreshesApart, Known
<1>6. ChainInv
  BY <1>1, <1>4 DEF ChainInv, HeadsAlone, TurnsAlone, TokensApart, WorkAlone, SentOnce, StoreWaits
<1> QED BY <1>3, <1>5, <1>6 DEF RotationIInv
-----------------------------------------------------------------------------
\* Steps in which sessions and requests only come to an end: what a step may do to
\* a session, and to a refresh.
SessionEnds(s) ==
    /\ session'[s].family = session[s].family
    /\ session'[s].state = session[s].state
       \/ (session[s].state = "live" /\ session'[s].state = "ended")
RefreshEnds(f) ==
    \/ refresh'[f] = refresh[f]
    \/ /\ refresh[f].at = "failed" \/ (refresh[f].at = "done" /\ refresh[f].tab = Null)
       /\ refresh'[f] = R!NoRefresh
    \/ /\ refresh[f].tab # Null /\ refresh[f].token \in lost'
       /\ refresh'[f] = [refresh[f] EXCEPT !.tab = Null]
    \/ /\ refresh[f].at \in {"sent", "reused", "live", "revoked"}
       /\ refresh[f].at = "revoked" => refresh[f].token \in lost'
       /\ refresh'[f] = [refresh[f] EXCEPT !.at = "failed"]
Fades ==
    /\ session' \in [R!Sessions -> [state: {"absent", "live", "exchanged", "ended"},
                                    family: R!Sessions]]
    /\ \A s \in R!Sessions : SessionEnds(s)
    /\ refresh' \in [Refreshes -> R!RefreshState] /\ \A f \in Refreshes : RefreshEnds(f)
    /\ page' \in [Windows -> R!Page] /\ call' \in [Calls -> R!CallState]
    /\ disabled' \in BOOLEAN /\ store' \in {store, Null}
    /\ lost \subseteq lost'
    /\ \A l \in lost' : l \in lost \/ \E f \in Refreshes : refresh[f].at # "idle" /\ l = refresh[f].token

\* What is left of a refresh after such a step.
LEMMA RefreshLeft ==
    ASSUME RotationConstants, RotationIInv, NEW f \in Refreshes, RefreshEnds(f)
    PROVE  /\ refresh'[f].at # "idle" =>
                 /\ refresh[f].at # "idle" /\ refresh'[f].token = refresh[f].token
                 /\ refresh'[f].next = refresh[f].next
                 /\ refresh'[f].at = refresh[f].at
                    \/ (refresh'[f].at = "failed" /\ refresh[f].at # "done")
                 /\ refresh'[f].tab = Null => refresh[f].tab = Null \/ refresh[f].token \in lost'
           /\ refresh'[f].at = "idle" => refresh'[f].tab = Null /\ refresh'[f].next = Null
           /\ refresh'[f].tab # Null => refresh'[f].tab = refresh[f].tab
           /\ refresh[f].tab # Null /\ refresh[f].at \in {"revoked", "done"} =>
                 \/ refresh[f].token \in lost'
                 \/ refresh'[f] = refresh[f]
<1>1. refresh[f] \in R!RefreshState
  BY DEF RotationIInv, R!TypeOK
<1>2. /\ refresh[f].at # "done" => refresh[f].next = Null
      /\ refresh[f].tab # Null => refresh[f].at # "idle"
  BY DEF RotationIInv, RefreshKnown
<1>3. CASE refresh'[f] = refresh[f]
  BY <1>2, <1>3
<1>4. CASE /\ refresh[f].at = "failed" \/ (refresh[f].at = "done" /\ refresh[f].tab = Null)
           /\ refresh'[f] = R!NoRefresh
  BY <1>4 DEF R!NoRefresh
<1>5. CASE /\ refresh[f].tab # Null /\ refresh[f].token \in lost'
           /\ refresh'[f] = [refresh[f] EXCEPT !.tab = Null]
  <2>1. /\ refresh'[f].at = refresh[f].at /\ refresh'[f].token = refresh[f].token
        /\ refresh'[f].next = refresh[f].next /\ refresh'[f].tab = Null
    BY <1>1, <1>5 DEF R!RefreshState
  <2> QED BY <1>2, <1>5, <2>1
<1>6. CASE /\ refresh[f].at \in {"sent", "reused", "live", "revoked"}
           /\ refresh[f].at = "revoked" => refresh[f].token \in lost'
           /\ refresh'[f] = [refresh[f] EXCEPT !.at = "failed"]
  <2>1. /\ refresh'[f].at = "failed" /\ refresh'[f].token = refresh[f].token
        /\ refresh'[f].next = refresh[f].next /\ refresh'[f].tab = refresh[f].tab
    BY <1>1, <1>6 DEF R!RefreshState
  <2> QED BY <1>2, <1>6, <2>1
<1> QED BY <1>3, <1>4, <1>5, <1>6 DEF RefreshEnds

LEMMA FadingIsSafe == ASSUME RotationConstants, RotationIInv, Fades PROVE RotationIInv'
<1>1. \A s \in R!Sessions :
         /\ session'[s].family = session[s].family
         /\ session'[s].state = session[s].state
            \/ (session[s].state = "live" /\ session'[s].state = "ended")
  BY DEF Fades, SessionEnds
<1>2. \A f \in Refreshes :
           /\ refresh'[f].at # "idle" =>
                 /\ refresh[f].at # "idle" /\ refresh'[f].token = refresh[f].token
                 /\ refresh'[f].next = refresh[f].next
                 /\ refresh'[f].at = refresh[f].at
                    \/ (refresh'[f].at = "failed" /\ refresh[f].at # "done")
                 /\ refresh'[f].tab = Null => refresh[f].tab = Null \/ refresh[f].token \in lost'
           /\ refresh'[f].at = "idle" => refresh'[f].tab = Null /\ refresh'[f].next = Null
           /\ refresh'[f].tab # Null => refresh'[f].tab = refresh[f].tab
           /\ refresh[f].tab # Null /\ refresh[f].at \in {"revoked", "done"} =>
                 \/ refresh[f].token \in lost'
                 \/ refresh'[f] = refresh[f]
  BY RefreshLeft DEF Fades
<1>3. \A s \in R!Sessions : session[s] \in [state: {"absent", "live", "exchanged", "ended"}, family: R!Sessions]
  BY DEF RotationIInv, R!TypeOK
<1>4. Null \notin R!Sessions
  BY RotationNumbers
<1>5. \A s : Known(s) => s \in R!Sessions /\ s # Null /\ session'[s].state # "absent"
  BY <1>1, <1>4 DEF Known
<1>6. \A l \in lost' : Known(l)
  BY DEF Fades, RotationIInv, TokensKnown, RefreshKnown
<1>7. R!TypeOK'
  <2>1. lost' \subseteq R!Sessions
    BY <1>6 DEF Known
  <2>2. store' \in R!Token
    BY DEF Fades, RotationIInv, R!TypeOK, R!Token
  <2> QED BY <2>1, <2>2 DEF Fades, R!TypeOK
<1>8. TokensKnown'
  <2>1. store' # Null => store' \in R!Sessions /\ session'[store'].state # "absent"
    BY <1>5 DEF Fades, RotationIInv, TokensKnown
  <2>2. \A l \in lost' : l \in R!Sessions /\ session'[l].state # "absent"
    BY <1>5, <1>6
  <2>3. ASSUME NEW s \in R!Sessions, session'[s].state # "absent"
        PROVE  session'[s].family \in R!Sessions /\ session'[session'[s].family].state # "absent"
    <3>1. Known(s)
      BY <1>1, <2>3 DEF Known
    <3>2. Known(session[s].family)
      BY <3>1 DEF RotationIInv, TokensKnown
    <3> QED BY <1>1, <1>5, <3>2
  <2> QED BY <2>1, <2>2, <2>3 DEF TokensKnown, Known
<1>9. RefreshKnown'
  <2>1. ASSUME NEW f \in Refreshes
        PROVE  /\ refresh'[f].at # "idle" => /\ refresh'[f].token \in R!Sessions
                                             /\ session'[refresh'[f].token].state # "absent"
               /\ refresh'[f].at = "done" =>
                     /\ refresh'[f].next \in R!Sessions /\ refresh'[f].next # store'
                     /\ session'[refresh'[f].next].state # "absent"
                     /\ session'[refresh'[f].next].state # "exchanged"
               /\ refresh'[f].at # "done" => refresh'[f].next = Null
               /\ refresh'[f].tab # Null => refresh'[f].at # "idle"
               /\ refresh'[f].at # "idle" /\ refresh'[f].tab = Null => refresh'[f].token \in lost'
    <3>1. refresh'[f].at # "idle" => /\ refresh'[f].token \in R!Sessions
                                    /\ session'[refresh'[f].token].state # "absent"
      BY <1>2, <1>5 DEF RotationIInv, RefreshKnown
    <3>2. refresh'[f].at = "done" =>
                     /\ refresh'[f].next \in R!Sessions /\ refresh'[f].next # store'
                     /\ session'[refresh'[f].next].state # "absent"
                     /\ session'[refresh'[f].next].state # "exchanged"
      <4> SUFFICES ASSUME refresh'[f].at = "done"
                   PROVE  /\ refresh'[f].next \in R!Sessions /\ refresh'[f].next # store'
                          /\ session'[refresh'[f].next].state # "absent"
                          /\ session'[refresh'[f].next].state # "exchanged"
        OBVIOUS
      <4>1. refresh[f].at = "done" /\ refresh'[f].next = refresh[f].next
        BY <1>2
      <4>2. /\ Known(refresh[f].next) /\ refresh[f].next # store
            /\ session[refresh[f].next].state # "exchanged"
        BY <4>1 DEF RotationIInv, RefreshKnown
      <4>3. refresh[f].next \in R!Sessions /\ refresh[f].next # Null
        BY <1>5, <4>2
      <4> QED BY <1>1, <1>5, <4>1, <4>2, <4>3 DEF Fades
    <3>3. refresh'[f].at # "done" => refresh'[f].next = Null
      BY <1>2 DEF RotationIInv, RefreshKnown
    <3>4. refresh'[f].tab # Null => refresh'[f].at # "idle"
      BY <1>2
    <3>5. refresh'[f].at # "idle" /\ refresh'[f].tab = Null => refresh'[f].token \in lost'
      BY <1>2 DEF RotationIInv, RefreshKnown, Fades
    <3> QED BY <3>1, <3>2, <3>3, <3>4, <3>5
  <2> QED BY <2>1 DEF RefreshKnown, Known
<1>10. RefreshesApart'
  <2>1. ASSUME NEW f \in Refreshes, NEW g \in Refreshes
        PROVE  /\ f # g /\ refresh'[f].tab # Null => refresh'[f].tab # refresh'[g].tab
               /\ refresh'[f].at = "done" /\ refresh'[g].at # "idle" =>
                     refresh'[g].token # refresh'[f].next
               /\ f # g /\ refresh'[f].at = "done" /\ refresh'[g].at = "done" =>
                     refresh'[f].next # refresh'[g].next
    BY <1>2 DEF RotationIInv, RefreshesApart
  <2> QED BY <2>1 DEF RefreshesApart
<1>11. (HeadsAlone /\ TurnsAlone /\ TokensApart /\ WorkAlone /\ SentOnce /\ StoreWaits)'
  <2>1. HeadsAlone /\ TurnsAlone /\ TokensApart /\ WorkAlone /\ SentOnce /\ StoreWaits
    BY DEF RotationIInv, ChainInv
  <2>2. /\ R!Live' \subseteq R!Live /\ R!Live \subseteq R!Sessions
        /\ R!Live' = {s \in R!Sessions : session'[s].state = "live"}
    BY <1>1 DEF R!Live
  <2>3. ASSUME NEW s \in R!Sessions, Mourned(s)
        PROVE  \E l \in lost' : session'[l].family = session'[s].family
    <3>1. PICK l \in lost : session[l].family = session[s].family
      BY <2>3 DEF Mourned
    <3>2. l \in lost' /\ l \in R!Sessions
      BY DEF Fades, RotationIInv, R!TypeOK
    <3> QED BY <1>1, <3>1, <3>2
  <2>4. HeadsAlone'
    <3>1. ASSUME NEW s \in R!Live', NEW r \in R!Live', s # r, session'[s].family = session'[r].family
          PROVE  \E l \in lost' : session'[l].family = session'[s].family
      <4>1. s \in R!Live /\ r \in R!Live /\ s \in R!Sessions /\ r \in R!Sessions
        BY <2>2
      <4> QED BY <1>1, <2>1, <2>3, <3>1, <4>1 DEF HeadsAlone
    <3> QED BY <3>1 DEF HeadsAlone, Mourned
  <2>5. TurnsAlone'
    <3>1. ASSUME NEW f \in Refreshes, NEW s \in R!Live',
                 refresh'[f].at = "revoked" \/ (refresh'[f].at = "live" /\ s # refresh'[f].token),
                 session'[s].family = session'[refresh'[f].token].family
          PROVE  \E l \in lost' : session'[l].family = session'[s].family
      <4>1. s \in R!Live /\ s \in R!Sessions
        BY <2>2
      <4>2. refresh'[f].token = refresh[f].token /\ refresh'[f].at = refresh[f].at
        BY <1>2, <3>1
      <4>3. Known(refresh[f].token)
        BY <3>1, <4>2 DEF RotationIInv, RefreshKnown
      <4>4. session'[refresh[f].token].family = session[refresh[f].token].family
        BY <1>1, <1>5, <4>3
      <4> QED BY <1>1, <2>1, <2>3, <3>1, <4>1, <4>2, <4>4 DEF TurnsAlone
    <3> QED BY <3>1 DEF TurnsAlone, Mourned
  <2>6. SentOnce'
    <3>1. ASSUME NEW f \in Refreshes
          PROVE  /\ refresh'[f].at \in {"sent", "live"} /\ session'[refresh'[f].token].state = "exchanged"
                        => refresh'[f].token \in lost'
                 /\ refresh'[f].at = "reused"
                        => \/ refresh'[f].token \in lost'
                           \/ session'[refresh'[f].token].state = "ended"
      <4> SUFFICES ASSUME refresh'[f].at \in {"sent", "live", "reused"}
                   PROVE  /\ refresh'[f].at \in {"sent", "live"} /\ session'[refresh'[f].token].state = "exchanged"
                                => refresh'[f].token \in lost'
                          /\ refresh'[f].at = "reused"
                                => \/ refresh'[f].token \in lost'
                                   \/ session'[refresh'[f].token].state = "ended"
        OBVIOUS
      <4>1. refresh'[f].token = refresh[f].token /\ refresh'[f].at = refresh[f].at
        BY <1>2
      <4>2. Known(refresh[f].token)
        BY <4>1 DEF RotationIInv, RefreshKnown
      <4> QED BY <1>1, <1>5, <2>1, <4>1, <4>2 DEF SentOnce, Fades
    <3> QED BY <3>1 DEF SentOnce
  <2>7. StoreWaits'
    <3>1. ASSUME store' # Null, session'[store'].state = "exchanged"
          PROVE  \/ store' \in lost'
                 \/ \E f \in Refreshes : /\ refresh'[f].tab # Null /\ refresh'[f].token = store'
                                         /\ refresh'[f].at \in {"revoked", "done"}
      <4>1. store' = store /\ Known(store)
        BY <3>1 DEF Fades, RotationIInv, TokensKnown
      <4>2. session[store].state = "exchanged"
        BY <1>1, <1>5, <3>1, <4>1
      <4>3. CASE store \in lost
        BY <4>1, <4>3 DEF Fades
      <4>4. ASSUME NEW f \in Refreshes, refresh[f].tab # Null, refresh[f].token = store,
                   refresh[f].at \in {"revoked", "done"}
            PROVE  store' \in lost' \/ refresh'[f] = refresh[f]
        BY <1>2, <4>1, <4>4
      <4> QED BY <2>1, <3>1, <4>1, <4>2, <4>3, <4>4 DEF StoreWaits
    <3> QED BY <3>1 DEF StoreWaits
  <2>8. TokensApart'
    BY <1>2, <2>1 DEF TokensApart, Fades
  <2>9. WorkAlone'
    <3>1. ASSUME NEW f \in Refreshes, NEW g \in Refreshes, f # g,
                 refresh'[f].at \in {"live", "revoked"}, refresh'[g].at \in {"live", "revoked"},
                 session'[refresh'[f].token].family = session'[refresh'[g].token].family
          PROVE  \E l \in lost' : session'[l].family = session'[refresh'[f].token].family
      <4>1. /\ refresh'[f].token = refresh[f].token /\ refresh'[f].at = refresh[f].at
            /\ refresh'[g].token = refresh[g].token /\ refresh'[g].at = refresh[g].at
        BY <1>2, <3>1
      <4>2. Known(refresh[f].token) /\ Known(refresh[g].token)
        BY <3>1, <4>1 DEF RotationIInv, RefreshKnown
      <4>3. session[refresh[f].token].family = session[refresh[g].token].family
        BY <1>1, <1>5, <3>1, <4>1, <4>2
      <4>4. Mourned(refresh[f].token)
        BY <2>1, <3>1, <4>1, <4>3 DEF WorkAlone
      <4> QED BY <1>5, <2>3, <4>1, <4>2, <4>4
    <3> QED BY <3>1 DEF WorkAlone, Mourned
  <2> QED BY <2>4, <2>5, <2>6, <2>7, <2>8, <2>9
<1>12. ChainInv'
  BY <1>11 DEF ChainInv
<1> QED BY <1>7, <1>8, <1>9, <1>10, <1>12 DEF RotationIInv

\* A session stays as it is, or ends if it is live.
LEMMA EndingSessions ==
    ASSUME RotationConstants, RotationIInv, NEW ending \in SUBSET R!Live, session' = R!Ended(ending)
    PROVE  /\ session' \in [R!Sessions -> [state: {"absent", "live", "exchanged", "ended"},
                                          family: R!Sessions]]
           /\ \A s \in R!Sessions : SessionEnds(s)
<1>1. \A s \in R!Sessions : session[s] \in [state: {"absent", "live", "exchanged", "ended"}, family: R!Sessions]
  BY DEF RotationIInv, R!TypeOK
<1>2. ASSUME NEW s \in R!Sessions
      PROVE  /\ session'[s] \in [state: {"absent", "live", "exchanged", "ended"}, family: R!Sessions]
             /\ SessionEnds(s)
  <2>1. CASE s \in ending
    <3>1. session[s].state = "live" /\ session'[s] = [session[s] EXCEPT !.state = "ended"]
      BY <2>1 DEF R!Ended, R!Live
    <3> QED BY <1>1, <3>1 DEF SessionEnds
  <2>2. CASE s \notin ending
    <3>1. session'[s] = session[s]
      BY <2>2 DEF R!Ended
    <3> QED BY <1>1, <3>1 DEF SessionEnds
  <2> QED BY <2>1, <2>2
<1> QED BY <1>2 DEF R!Ended

LEMMA StillSessions ==
    ASSUME RotationIInv, UNCHANGED session
    PROVE  /\ session' \in [R!Sessions -> [state: {"absent", "live", "exchanged", "ended"},
                                          family: R!Sessions]]
           /\ \A s \in R!Sessions : SessionEnds(s)
BY DEF RotationIInv, R!TypeOK, SessionEnds

LEMMA StillRefreshes ==
    ASSUME RotationIInv, UNCHANGED refresh
    PROVE  refresh' \in [Refreshes -> R!RefreshState] /\ \A f \in Refreshes : RefreshEnds(f)
BY DEF RotationIInv, R!TypeOK, RefreshEnds

LEMMA OneRefreshEnds ==
    ASSUME RotationIInv, NEW f \in Refreshes, NEW next \in R!RefreshState,
           refresh' = [refresh EXCEPT ![f] = next],
           \/ /\ refresh[f].at = "failed" \/ (refresh[f].at = "done" /\ refresh[f].tab = Null)
              /\ next = R!NoRefresh
           \/ /\ refresh[f].tab # Null /\ refresh[f].token \in lost'
              /\ next = [refresh[f] EXCEPT !.tab = Null]
           \/ /\ refresh[f].at \in {"sent", "reused", "live", "revoked"}
              /\ refresh[f].at = "revoked" => refresh[f].token \in lost'
              /\ next = [refresh[f] EXCEPT !.at = "failed"]
    PROVE  refresh' \in [Refreshes -> R!RefreshState] /\ \A g \in Refreshes : RefreshEnds(g)
<1>1. refresh \in [Refreshes -> R!RefreshState]
  BY DEF RotationIInv, R!TypeOK
<1>2. \A g \in Refreshes : g # f => refresh'[g] = refresh[g]
  BY <1>1
<1>3. refresh'[f] = next
  BY <1>1
<1>4. RefreshEnds(f)
  BY <1>3 DEF RefreshEnds
<1>5. \A g \in Refreshes : RefreshEnds(g)
  BY <1>2, <1>4 DEF RefreshEnds
<1> QED BY <1>1, <1>5

LEMMA RotationPages ==
    ASSUME RotationConstants, RotationIInv, NEW t \in Windows,
           \/ \E inTime \in BOOLEAN : R!Load(t, inTime) \/ R!Adopt(t, inTime)
           \/ R!BeginLogout(t) \/ R!ServerLogout(t) \/ R!FinishLogout(t)
    PROVE  RotationIInv'
<1>1. /\ page \in [Windows -> R!Page] /\ page[t] \in R!Page /\ store \in R!Token
      /\ call \in [Calls -> R!CallState] /\ disabled \in BOOLEAN
  BY DEF RotationIInv, R!TypeOK
<1>2. Null \in R!Token /\ R!Live \subseteq R!Sessions
  BY DEF R!Token, R!Live
<1>3. ASSUME NEW at \in {"loading", "signedOut", "adopting", "signedIn", "leaving"}, NEW kept \in R!Token
      PROVE  [at |-> at, token |-> kept] \in R!Page
  BY <1>3 DEF R!Page
<1>4. \A at \in {"loading", "signedOut", "adopting", "signedIn", "leaving"} :
         [page EXCEPT ![t].at = at] \in [Windows -> R!Page]
  BY <1>1 DEF R!Page
<1>5. page' \in [Windows -> R!Page] /\ store' \in {store, Null}
  <2>1. ASSUME NEW inTime \in BOOLEAN, R!Load(t, inTime)
        PROVE  page' \in [Windows -> R!Page] /\ store' \in {store, Null}
    BY <1>4, <2>1 DEF R!Load
  <2>2. ASSUME NEW inTime \in BOOLEAN, R!Adopt(t, inTime)
        PROVE  page' \in [Windows -> R!Page] /\ store' \in {store, Null}
    BY <1>4, <2>2 DEF R!Adopt
  <2>3. CASE R!BeginLogout(t)
    BY <1>1, <1>3, <2>3 DEF R!BeginLogout
  <2>4. CASE R!ServerLogout(t)
    BY <1>1, <1>2, <2>4 DEF R!ServerLogout, R!Page
  <2>5. CASE R!FinishLogout(t)
    BY <1>1, <1>2, <1>3, <2>5 DEF R!FinishLogout, R!NoPage
  <2> QED BY <2>1, <2>2, <2>3, <2>4, <2>5
<1>6. \/ UNCHANGED session
      \/ \E ending \in SUBSET R!Live : session' = R!Ended(ending)
  BY DEF R!Load, R!Adopt, R!BeginLogout, R!ServerLogout, R!FinishLogout, R!serverVars, R!Passes
<1>7. UNCHANGED <<disabled, call, refresh, lost>>
  BY DEF R!Load, R!Adopt, R!BeginLogout, R!ServerLogout, R!FinishLogout, R!serverVars
<1>8. Fades
  BY <1>1, <1>5, <1>6, <1>7, StillSessions, EndingSessions, StillRefreshes DEF Fades
<1> QED BY <1>8, FadingIsSafe

LEMMA RotationReload ==
    ASSUME RotationConstants, RotationIInv, NEW t \in Windows, R!Reload(t)
    PROVE  RotationIInv'
<1>1. /\ page \in [Windows -> R!Page] /\ store \in R!Token /\ refresh \in [Refreshes -> R!RefreshState]
      /\ call \in [Calls -> R!CallState] /\ disabled \in BOOLEAN
  BY DEF RotationIInv, R!TypeOK
<1>2. R!NoCall \in R!CallState /\ R!NoPage("loading") \in R!Page
  BY DEF R!NoCall, R!CallState, R!NoPage, R!Page, R!Token
<1>3. page' \in [Windows -> R!Page] /\ call' \in [Calls -> R!CallState]
  BY <1>1, <1>2 DEF R!Reload
<1>4. t # Null
  BY RotationNumbers
<1>5. /\ lost' = lost \cup {refresh[f].token : f \in {g \in Refreshes : refresh[g].tab = t}}
      /\ refresh' = [f \in Refreshes |->
                       [refresh[f] EXCEPT !.tab = IF refresh[f].tab = t THEN Null ELSE refresh[f].tab]]
      /\ UNCHANGED <<session, disabled, store>>
  BY DEF R!Reload, R!serverVars
<1>6. ASSUME NEW f \in Refreshes
      PROVE  refresh'[f] \in R!RefreshState /\ RefreshEnds(f)
  <2>1. CASE refresh[f].tab = t
    <3>1. refresh'[f] = [refresh[f] EXCEPT !.tab = Null] /\ refresh[f].token \in lost'
      BY <1>5, <2>1
    <3> QED BY <1>1, <1>4, <2>1, <3>1 DEF RefreshEnds, R!RefreshState
  <2>2. CASE refresh[f].tab # t
    <3>1. refresh'[f] = [refresh[f] EXCEPT !.tab = refresh[f].tab]
      BY <1>5, <2>2
    <3>2. refresh'[f] = refresh[f]
      BY <1>1, <3>1 DEF R!RefreshState
    <3> QED BY <1>1, <3>2 DEF RefreshEnds
  <2> QED BY <2>1, <2>2
<1>7. refresh' \in [Refreshes -> R!RefreshState]
  BY <1>5, <1>6
<1>8. \A l \in lost' : l \in lost \/ \E f \in Refreshes : refresh[f].at # "idle" /\ l = refresh[f].token
  BY <1>4, <1>5 DEF RotationIInv, RefreshKnown
<1>9. Fades
  BY <1>1, <1>3, <1>5, <1>6, <1>7, <1>8, StillSessions DEF Fades
<1> QED BY <1>9, FadingIsSafe

LEMMA RotationCalls ==
    ASSUME RotationConstants, RotationIInv, NEW c \in Calls,
           R!Send(c) \/ (\E inTime \in BOOLEAN : R!Answer(c, inTime)) \/ R!JoinRefresh(c)
    PROVE  RotationIInv'
<1>1. /\ page \in [Windows -> R!Page] /\ store \in R!Token /\ call[c] \in R!CallState
      /\ call \in [Calls -> R!CallState] /\ disabled \in BOOLEAN
  BY DEF RotationIInv, R!TypeOK
<1>2. /\ R!NoCall \in R!CallState /\ [at |-> "rejected", token |-> Null] \in R!CallState
      /\ [at |-> "sent", token |-> store] \in R!CallState
      /\ [call[c] EXCEPT !.at = "waiting"] \in R!CallState
  BY <1>1 DEF R!NoCall, R!CallState, R!Token
<1>3. call' \in [Calls -> R!CallState]
  <2>1. CASE R!Send(c)
    BY <1>1, <1>2, <2>1 DEF R!Send
  <2>2. ASSUME NEW inTime \in BOOLEAN, R!Answer(c, inTime) PROVE call' \in [Calls -> R!CallState]
    BY <1>1, <1>2, <2>2 DEF R!Answer
  <2>3. CASE R!JoinRefresh(c)
    BY <1>1, <1>2, <2>3 DEF R!JoinRefresh
  <2> QED BY <2>1, <2>2, <2>3
<1>4. UNCHANGED <<session, disabled, store, page, refresh, lost>>
  BY DEF R!Send, R!Answer, R!JoinRefresh, R!serverVars
<1>5. Fades
  BY <1>1, <1>3, <1>4, StillSessions, StillRefreshes DEF Fades
<1> QED BY <1>5, FadingIsSafe

LEMMA RotationWoken ==
    ASSUME RotationIInv, NEW t, NEW again \in R!CallState
    PROVE  R!Woken(t, again) \in [Calls -> R!CallState]
BY DEF R!Woken, RotationIInv, R!TypeOK

LEMMA RotationRefreshEnds ==
    ASSUME RotationConstants, RotationIInv, NEW f \in Refreshes,
           R!RevokeFamily(f) \/ R!Disconnect(f) \/ R!Forget(f) \/ R!Die(f)
    PROVE  RotationIInv'
<1>1. /\ page \in [Windows -> R!Page] /\ store \in R!Token /\ refresh[f] \in R!RefreshState
      /\ call \in [Calls -> R!CallState] /\ disabled \in BOOLEAN
      /\ refresh[f].tab # Null => refresh[f].at # "idle"
  BY DEF RotationIInv, R!TypeOK, RefreshKnown
<1>2. R!NoCall \in R!CallState /\ R!NoRefresh \in R!RefreshState
  BY DEF R!NoCall, R!CallState, R!Token, R!NoRefresh, R!RefreshState
<1>3. /\ [refresh[f] EXCEPT !.at = "failed"] \in R!RefreshState
      /\ [refresh[f] EXCEPT !.tab = Null] \in R!RefreshState
  BY <1>1 DEF R!RefreshState
<1>4. CASE R!RevokeFamily(f)
  <2>1. \E ending \in SUBSET R!Live : session' = R!Ended(ending)
    BY <1>4 DEF R!RevokeFamily
  <2>2. /\ refresh' = [refresh EXCEPT ![f] = [refresh[f] EXCEPT !.at = "failed"]]
        /\ refresh[f].at = "reused" /\ UNCHANGED <<disabled, store, page, call, lost>>
    BY <1>4 DEF R!RevokeFamily
  <2>3. refresh' \in [Refreshes -> R!RefreshState] /\ \A g \in Refreshes : RefreshEnds(g)
    BY <1>3, <2>2, OneRefreshEnds
  <2>4. Fades
    BY <1>1, <2>1, <2>2, <2>3, EndingSessions DEF Fades
  <2> QED BY <2>4, FadingIsSafe
<1>5. CASE R!Disconnect(f)
  <2>1. /\ refresh' = [refresh EXCEPT ![f] = [refresh[f] EXCEPT !.tab = Null]]
        /\ refresh[f].tab # Null /\ lost' = lost \cup {refresh[f].token}
        /\ call' = R!Woken(refresh[f].tab, R!NoCall)
        /\ UNCHANGED <<session, disabled, store, page>>
    BY <1>5 DEF R!Disconnect, R!serverVars
  <2>2. refresh' \in [Refreshes -> R!RefreshState] /\ \A g \in Refreshes : RefreshEnds(g)
    BY <1>3, <2>1, OneRefreshEnds
  <2>3. Fades
    BY <1>1, <1>2, <2>1, <2>2, StillSessions, RotationWoken DEF Fades
  <2> QED BY <2>3, FadingIsSafe
<1>6. CASE R!Forget(f)
  <2>1. /\ refresh' = [refresh EXCEPT ![f] = R!NoRefresh]
        /\ refresh[f].at \in {"done", "failed"} /\ refresh[f].tab = Null
        /\ UNCHANGED <<session, disabled, store, page, call, lost>>
    BY <1>6 DEF R!Forget, R!serverVars
  <2>2. refresh' \in [Refreshes -> R!RefreshState] /\ \A g \in Refreshes : RefreshEnds(g)
    BY <1>2, <2>1, OneRefreshEnds
  <2>3. Fades
    BY <1>1, <2>1, <2>2, StillSessions DEF Fades
  <2> QED BY <2>3, FadingIsSafe
<1>7. CASE R!Die(f)
  <2>1. /\ refresh' = [refresh EXCEPT ![f] = [refresh[f] EXCEPT !.at = "failed"]]
        /\ refresh[f].at \in {"sent", "reused", "live", "revoked"}
        /\ lost' = lost \cup {refresh[f].token}
        /\ UNCHANGED <<session, disabled, store, page, call>>
    BY <1>7 DEF R!Die, R!serverVars
  <2>2. refresh' \in [Refreshes -> R!RefreshState] /\ \A g \in Refreshes : RefreshEnds(g)
    BY <1>3, <2>1, OneRefreshEnds
  <2>3. Fades
    BY <1>1, <2>1, <2>2, StillSessions DEF Fades
  <2> QED BY <2>3, FadingIsSafe
<1> QED BY <1>4, <1>5, <1>6, <1>7

LEMMA RotationRevoked ==
    ASSUME RotationConstants, RotationIInv,
           \/ \E s \in R!Sessions : R!RevokeSession(s)
           \/ \E deactivate \in BOOLEAN : R!RevokeAll(deactivate)
    PROVE  RotationIInv'
<1>1. /\ page \in [Windows -> R!Page] /\ call \in [Calls -> R!CallState] /\ disabled \in BOOLEAN
  BY DEF RotationIInv, R!TypeOK
<1>2. \E ending \in SUBSET R!Live : session' = R!Ended(ending)
  BY DEF R!RevokeSession, R!RevokeAll
<1>3. disabled' \in BOOLEAN
  BY <1>1 DEF R!RevokeSession, R!RevokeAll
<1>4. UNCHANGED <<store, page, call, refresh, lost>>
  BY DEF R!RevokeSession, R!RevokeAll
<1>5. Fades
  BY <1>1, <1>2, <1>3, <1>4, EndingSessions, StillRefreshes DEF Fades
<1> QED BY <1>5, FadingIsSafe
-----------------------------------------------------------------------------
\* A new session: nothing was about it before.
LEMMA SessionOpened ==
    ASSUME RotationConstants, RotationIInv, NEW s \in R!Sessions, R!NextRow(s),
           NEW family \in R!Sessions, family = s \/ Known(family),
           session' = R!Opened(s, family)
    PROVE  /\ session' \in [R!Sessions -> [state: {"absent", "live", "exchanged", "ended"},
                                          family: R!Sessions]]
           /\ ~Known(s) /\ session'[s].state = "live" /\ session'[s].family = family
           /\ \A r \in R!Sessions : r # s => session'[r] = session[r]
           /\ \A r : Known(r) => r \in R!Sessions /\ r # s /\ r # Null /\ session[r].family # s
           /\ \A r \in R!Sessions : session'[r].state # "absent" =>
                 /\ session'[r].family \in R!Sessions
                 /\ session'[session'[r].family].state # "absent"
           /\ R!Live' = R!Live \cup {s} /\ \A r \in R!Live : Known(r)
<1>1. session \in [R!Sessions -> [state: {"absent", "live", "exchanged", "ended"}, family: R!Sessions]]
  BY DEF RotationIInv, R!TypeOK
<1>2. session' = [session EXCEPT ![s] = [state |-> "live", family |-> family]]
  BY DEF R!Opened
<1>3. /\ session' \in [R!Sessions -> [state: {"absent", "live", "exchanged", "ended"}, family: R!Sessions]]
      /\ session'[s].state = "live" /\ session'[s].family = family
      /\ \A r \in R!Sessions : r # s => session'[r] = session[r]
  BY <1>1, <1>2
<1>4. ~Known(s)
  BY DEF R!NextRow, Known
<1>5. \A r : Known(r) => r \in R!Sessions /\ r # s /\ r # Null /\ session[r].family # s
  BY <1>4, RotationNumbers DEF Known, RotationIInv, TokensKnown
<1>6. ASSUME NEW r \in R!Sessions, session'[r].state # "absent"
      PROVE  session'[r].family \in R!Sessions /\ session'[session'[r].family].state # "absent"
  <2>1. CASE r = s
    <3>1. family # s => session'[family] = session[family] /\ session[family].state # "absent"
      BY <1>3, <1>4 DEF Known
    <3> QED BY <1>3, <2>1, <3>1
  <2>2. CASE r # s
    <3>1. Known(r) /\ session'[r] = session[r]
      BY <1>3, <1>6, <2>2 DEF Known
    <3>2. Known(session[r].family)
      BY <3>1 DEF RotationIInv, TokensKnown
    <3> QED BY <1>3, <1>5, <3>1, <3>2 DEF Known
  <2> QED BY <2>1, <2>2
<1>7. R!Live' = R!Live \cup {s} /\ \A r \in R!Live : Known(r)
  BY <1>3, <1>4 DEF R!Live, Known
<1> QED BY <1>3, <1>4, <1>5, <1>6, <1>7

LEMMA RotationSignIn ==
    ASSUME RotationConstants, RotationIInv, NEW t \in Windows, NEW s \in R!Sessions, R!SignIn(t, s)
    PROVE  RotationIInv'
<1>1. /\ session' = R!Opened(s, s) /\ R!NextRow(s) /\ store' = s
      /\ page' = [page EXCEPT ![t].at = "adopting"] /\ UNCHANGED <<disabled, call, refresh, lost>>
  BY DEF R!SignIn
<1>2. /\ session' \in [R!Sessions -> [state: {"absent", "live", "exchanged", "ended"},
                                     family: R!Sessions]]
      /\ ~Known(s) /\ session'[s].state = "live" /\ session'[s].family = s
      /\ \A r \in R!Sessions : r # s => session'[r] = session[r]
      /\ \A r : Known(r) => r \in R!Sessions /\ r # s /\ r # Null /\ session[r].family # s
      /\ \A r \in R!Sessions : session'[r].state # "absent" =>
            /\ session'[r].family \in R!Sessions
            /\ session'[session'[r].family].state # "absent"
      /\ R!Live' = R!Live \cup {s} /\ \A r \in R!Live : Known(r)
  BY <1>1, SessionOpened
<1>3. \A r : Known(r) => session'[r] = session[r] /\ session'[r].state # "absent"
  BY <1>2 DEF Known
<1>4. R!TypeOK'
  <2>1. page' \in [Windows -> R!Page]
    BY <1>1 DEF RotationIInv, R!TypeOK, R!Page
  <2>2. store' \in R!Token
    BY <1>1 DEF R!Token
  <2> QED BY <1>1, <1>2, <2>1, <2>2 DEF RotationIInv, R!TypeOK
<1>5. \A l \in lost : Known(l)
  BY DEF RotationIInv, TokensKnown
<1>6. TokensKnown'
  <2>1. \A l \in lost' : l \in R!Sessions /\ session'[l].state # "absent"
    BY <1>1, <1>2, <1>3, <1>5
  <2> QED BY <1>1, <1>2, <2>1 DEF TokensKnown, Known
<1>7. RefreshKnown /\ RefreshesApart
  BY DEF RotationIInv
<1>8. RefreshKnown'
  <2>1. ASSUME NEW f \in Refreshes
        PROVE  /\ refresh[f].at # "idle" => /\ refresh[f].token \in R!Sessions
                                            /\ session'[refresh[f].token].state # "absent"
               /\ refresh[f].at = "done" =>
                     /\ refresh[f].next \in R!Sessions /\ refresh[f].next # s
                     /\ session'[refresh[f].next].state # "absent"
                     /\ session'[refresh[f].next].state # "exchanged"
    BY <1>2, <1>3, <1>7 DEF RefreshKnown
  <2> QED BY <1>1, <1>7, <2>1 DEF RefreshKnown, Known
<1>9. RefreshesApart'
  BY <1>1, <1>7 DEF RefreshesApart
<1>10. (HeadsAlone /\ TurnsAlone /\ TokensApart /\ WorkAlone /\ SentOnce /\ StoreWaits)'
  <2>1. HeadsAlone /\ TurnsAlone /\ TokensApart /\ WorkAlone /\ SentOnce /\ StoreWaits
    BY DEF RotationIInv, ChainInv
  <2>2. ASSUME NEW r, Known(r), Mourned(r)
        PROVE  \E l \in lost' : session'[l].family = session'[r].family
    BY <1>1, <1>2, <1>3, <1>5, <2>2 DEF Mourned
  <2>3. HeadsAlone'
    <3>1. ASSUME NEW q \in R!Live', NEW r \in R!Live', q # r, session'[q].family = session'[r].family
          PROVE  \E l \in lost' : session'[l].family = session'[q].family
      <4>1. q # s /\ r # s
        BY <1>2, <1>3, <3>1
      <4>2. q \in R!Live /\ r \in R!Live
        BY <1>2, <4>1
      <4> QED BY <1>2, <1>3, <2>1, <2>2, <3>1, <4>2 DEF HeadsAlone
    <3> QED BY <3>1 DEF HeadsAlone, Mourned
  <2>4. TurnsAlone'
    <3>1. ASSUME NEW f \in Refreshes, NEW r \in R!Live',
                 refresh[f].at = "revoked" \/ (refresh[f].at = "live" /\ r # refresh[f].token),
                 session'[r].family = session'[refresh[f].token].family
          PROVE  \E l \in lost' : session'[l].family = session'[r].family
      <4>1. Known(refresh[f].token)
        BY <1>7, <3>1 DEF RefreshKnown
      <4>2. r # s
        BY <1>2, <1>3, <3>1, <4>1
      <4>3. r \in R!Live
        BY <1>2, <4>2
      <4> QED BY <1>2, <1>3, <2>1, <2>2, <3>1, <4>1, <4>3 DEF TurnsAlone
    <3> QED BY <1>1, <3>1 DEF TurnsAlone, Mourned
  <2>5. SentOnce'
    <3>1. \A f \in Refreshes : refresh[f].at # "idle" =>
             session'[refresh[f].token] = session[refresh[f].token]
      BY <1>3, <1>7 DEF RefreshKnown
    <3> QED BY <1>1, <2>1, <3>1 DEF SentOnce
  <2>6. StoreWaits'
    BY <1>1, <1>2 DEF StoreWaits
  <2>7. TokensApart'
    BY <1>1, <2>1 DEF TokensApart
  <2>8. WorkAlone'
    <3>1. ASSUME NEW f \in Refreshes, NEW g \in Refreshes, f # g,
                 refresh[f].at \in {"live", "revoked"}, refresh[g].at \in {"live", "revoked"},
                 session'[refresh[f].token].family = session'[refresh[g].token].family
          PROVE  \E l \in lost' : session'[l].family = session'[refresh[f].token].family
      <4>1. Known(refresh[f].token) /\ Known(refresh[g].token)
        BY <1>7, <3>1 DEF RefreshKnown
      <4>2. Mourned(refresh[f].token)
        BY <1>3, <2>1, <3>1, <4>1 DEF WorkAlone
      <4> QED BY <2>2, <4>1, <4>2
    <3> QED BY <1>1, <3>1 DEF WorkAlone, Mourned
  <2> QED BY <2>3, <2>4, <2>5, <2>6, <2>7, <2>8
<1>11. ChainInv'
  BY <1>10 DEF ChainInv
<1> QED BY <1>4, <1>6, <1>8, <1>9, <1>11 DEF RotationIInv

LEMMA RotationOpenNext ==
    ASSUME RotationConstants, RotationIInv, NEW f \in Refreshes, NEW s \in R!Sessions,
           R!OpenNext(f, s)
    PROVE  RotationIInv'
<1> DEFINE shown == refresh[f].token
           family == session[shown].family
           done == [refresh[f] EXCEPT !.at = "done", !.next = s]
<1>1. /\ session' = R!Opened(s, family) /\ R!NextRow(s) /\ refresh[f].at = "revoked"
      /\ refresh' = [refresh EXCEPT ![f].at = "done", ![f].next = s]
      /\ UNCHANGED <<disabled, store, page, call, lost>>
  BY DEF R!OpenNext
<1>2. RefreshKnown /\ RefreshesApart /\ \A l \in lost : Known(l)
  BY DEF RotationIInv, TokensKnown
<1>3. Known(shown) /\ Known(family) /\ family \in R!Sessions
  BY <1>1, <1>2 DEF RefreshKnown, RotationIInv, TokensKnown, Known
<1>4. refresh \in [Refreshes -> R!RefreshState] /\ refresh[f] \in R!RefreshState
  BY DEF RotationIInv, R!TypeOK
<1>5. refresh' = [refresh EXCEPT ![f] = done]
  BY <1>1, <1>4
<1>6. /\ done \in R!RefreshState /\ done.at = "done" /\ done.next = s
      /\ done.token = shown /\ done.tab = refresh[f].tab
  BY <1>4 DEF R!RefreshState, R!Token
<1> HIDE DEF shown, family, done
<1>7. /\ session' \in [R!Sessions -> [state: {"absent", "live", "exchanged", "ended"},
                                     family: R!Sessions]]
      /\ ~Known(s) /\ session'[s].state = "live" /\ session'[s].family = family
      /\ \A r \in R!Sessions : r # s => session'[r] = session[r]
      /\ \A r : Known(r) => r \in R!Sessions /\ r # s /\ r # Null /\ session[r].family # s
      /\ \A r \in R!Sessions : session'[r].state # "absent" =>
            /\ session'[r].family \in R!Sessions
            /\ session'[session'[r].family].state # "absent"
      /\ R!Live' = R!Live \cup {s} /\ \A r \in R!Live : Known(r)
  BY <1>1, <1>3, SessionOpened
<1>8. \A r : Known(r) => session'[r] = session[r] /\ session'[r].state # "absent"
  BY <1>7 DEF Known
<1>9. refresh'[f] = done /\ \A g \in Refreshes : g # f => refresh'[g] = refresh[g]
  BY <1>4, <1>5
<1>10. R!TypeOK'
  <2>1. refresh' \in [Refreshes -> R!RefreshState]
    BY <1>4, <1>5, <1>6
  <2> QED BY <1>1, <1>7, <2>1 DEF RotationIInv, R!TypeOK
<1>11. TokensKnown'
  <2>1. \A l \in lost' : l \in R!Sessions /\ session'[l].state # "absent"
    BY <1>1, <1>2, <1>7, <1>8
  <2>2. store' # Null => store' \in R!Sessions /\ session'[store'].state # "absent"
    BY <1>1, <1>7, <1>8 DEF RotationIInv, TokensKnown
  <2> QED BY <1>7, <2>1, <2>2 DEF TokensKnown, Known
<1>12. store # s /\ \A g \in Refreshes :
           /\ refresh[g].at # "idle" => refresh[g].token # s
           /\ refresh[g].at = "done" => refresh[g].next # s
  BY <1>2, <1>7, RotationNumbers DEF RefreshKnown, RotationIInv, TokensKnown
<1>13. RefreshKnown'
  <2>1. ASSUME NEW g \in Refreshes
        PROVE  /\ refresh'[g].at # "idle" => /\ refresh'[g].token \in R!Sessions
                                             /\ session'[refresh'[g].token].state # "absent"
               /\ refresh'[g].at = "done" =>
                     /\ refresh'[g].next \in R!Sessions /\ refresh'[g].next # store
                     /\ session'[refresh'[g].next].state # "absent"
                     /\ session'[refresh'[g].next].state # "exchanged"
               /\ refresh'[g].at # "done" => refresh'[g].next = Null
               /\ refresh'[g].tab # Null => refresh'[g].at # "idle"
               /\ refresh'[g].at # "idle" /\ refresh'[g].tab = Null => refresh'[g].token \in lost
    <3>1. CASE g = f
      <4>1. refresh[f].tab = Null => shown \in lost
        BY <1>1, <1>2 DEF RefreshKnown, shown
      <4> QED BY <1>3, <1>6, <1>7, <1>8, <1>9, <1>12, <3>1, <4>1
    <3>2. CASE g # f
      <4>1. refresh'[g] = refresh[g]
        BY <1>9, <3>2
      <4> QED BY <1>2, <1>7, <1>8, <4>1 DEF RefreshKnown
    <3> QED BY <3>1, <3>2
  <2> QED BY <1>1, <2>1 DEF RefreshKnown, Known
<1>14. RefreshesApart'
  <2>1. ASSUME NEW g \in Refreshes, NEW h \in Refreshes
        PROVE  /\ g # h /\ refresh'[g].tab # Null => refresh'[g].tab # refresh'[h].tab
               /\ refresh'[g].at = "done" /\ refresh'[h].at # "idle" =>
                     refresh'[h].token # refresh'[g].next
               /\ g # h /\ refresh'[g].at = "done" /\ refresh'[h].at = "done" =>
                     refresh'[g].next # refresh'[h].next
    <3>1. refresh'[g].tab = refresh[g].tab /\ refresh'[h].tab = refresh[h].tab
      BY <1>6, <1>9
    <3>2. refresh'[h].at # "idle" => refresh[h].at # "idle" /\ refresh'[h].token = refresh[h].token
      BY <1>1, <1>6, <1>9 DEF shown
    <3>3. refresh'[g].at = "done" => \/ (refresh'[g].next = s /\ g = f)
                                     \/ (refresh[g].at = "done" /\ refresh'[g] = refresh[g])
      BY <1>6, <1>9
    <3>4. refresh'[h].at = "done" => \/ (refresh'[h].next = s /\ h = f)
                                     \/ (refresh[h].at = "done" /\ refresh'[h] = refresh[h])
      BY <1>6, <1>9
    <3> QED BY <1>2, <1>12, <3>1, <3>2, <3>3, <3>4 DEF RefreshesApart
  <2> QED BY <2>1 DEF RefreshesApart
<1>15. (HeadsAlone /\ TurnsAlone /\ TokensApart /\ WorkAlone /\ SentOnce /\ StoreWaits)'
  <2>1. HeadsAlone /\ TurnsAlone /\ TokensApart /\ WorkAlone /\ SentOnce /\ StoreWaits
    BY DEF RotationIInv, ChainInv
  <2>2. ASSUME NEW r, Known(r), Mourned(r)
        PROVE  \E l \in lost' : session'[l].family = session'[r].family
    BY <1>1, <1>2, <1>7, <1>8, <2>2 DEF Mourned
  \* The family of the token had no live session left.
  <2>3. ASSUME NEW r \in R!Live, session'[r].family = family
        PROVE  \E l \in lost' : session'[l].family = family
    <3>1. session[r].family = session[refresh[f].token].family
      BY <1>7, <1>8, <2>3 DEF shown, family
    <3>2. Mourned(r)
      BY <1>1, <2>1, <3>1 DEF TurnsAlone
    <3> QED BY <1>7, <2>2, <2>3, <3>2
  <2>4. HeadsAlone'
    <3>1. ASSUME NEW q \in R!Live', NEW r \in R!Live', q # r, session'[q].family = session'[r].family
          PROVE  \E l \in lost' : session'[l].family = session'[q].family
      <4>1. CASE q = s
        <5>1. r \in R!Live /\ session'[r].family = family
          BY <1>7, <3>1, <4>1
        <5> QED BY <1>7, <2>3, <4>1, <5>1
      <4>2. CASE r = s
        <5>1. q \in R!Live /\ session'[q].family = family
          BY <1>7, <3>1, <4>2
        <5> QED BY <2>3, <5>1
      <4>3. CASE q # s /\ r # s
        <5>1. q \in R!Live /\ r \in R!Live
          BY <1>7, <4>3
        <5> QED BY <1>7, <1>8, <2>1, <2>2, <3>1, <5>1 DEF HeadsAlone
      <4> QED BY <4>1, <4>2, <4>3
    <3> QED BY <3>1 DEF HeadsAlone, Mourned
  \* What else is at work on the same family is so in vain.
  <2>5. TurnsAlone'
    <3>1. ASSUME NEW g \in Refreshes, NEW r \in R!Live',
                 refresh'[g].at = "revoked" \/ (refresh'[g].at = "live" /\ r # refresh'[g].token),
                 session'[r].family = session'[refresh'[g].token].family
          PROVE  \E l \in lost' : session'[l].family = session'[r].family
      <4>1. g # f /\ refresh'[g] = refresh[g]
        BY <1>6, <1>9, <3>1
      <4>2. Known(refresh[g].token)
        BY <1>2, <3>1, <4>1 DEF RefreshKnown
      <4>3. CASE r = s
        <5>1. session[refresh[g].token].family = family
          BY <1>7, <1>8, <3>1, <4>1, <4>2, <4>3
        <5>2. Mourned(shown)
          BY <1>1, <2>1, <3>1, <4>1, <5>1 DEF WorkAlone, shown, family
        <5>3. session'[shown].family = family
          BY <1>3, <1>8 DEF family
        <5> QED BY <1>3, <1>7, <2>2, <4>3, <5>2, <5>3
      <4>4. CASE r # s
        <5>1. r \in R!Live
          BY <1>7, <4>4
        <5> QED BY <1>7, <1>8, <2>1, <2>2, <3>1, <4>1, <4>2, <5>1 DEF TurnsAlone
      <4> QED BY <4>3, <4>4
    <3> QED BY <3>1 DEF TurnsAlone, Mourned
  <2>6. SentOnce'
    <3>1. ASSUME NEW g \in Refreshes, refresh'[g].at \in {"sent", "live", "reused"}
          PROVE  refresh'[g] = refresh[g] /\ session'[refresh[g].token] = session[refresh[g].token]
      <4>1. refresh'[g] = refresh[g]
        BY <1>6, <1>9, <3>1
      <4> QED BY <1>2, <1>8, <3>1, <4>1 DEF RefreshKnown
    <3>2. ASSUME NEW g \in Refreshes
          PROVE  /\ refresh'[g].at \in {"sent", "live"} /\ session'[refresh'[g].token].state = "exchanged"
                        => refresh'[g].token \in lost
                 /\ refresh'[g].at = "reused"
                        => refresh'[g].token \in lost \/ session'[refresh'[g].token].state = "ended"
      <4>1. CASE refresh'[g].at \in {"sent", "live", "reused"}
        <5>1. refresh'[g] = refresh[g] /\ session'[refresh[g].token] = session[refresh[g].token]
          BY <3>1, <4>1
        <5> QED BY <2>1, <5>1 DEF SentOnce
      <4> QED BY <4>1
    <3> QED BY <1>1, <3>2 DEF SentOnce
  <2>7. StoreWaits'
    <3>1. ASSUME store # Null, session'[store].state = "exchanged"
          PROVE  \/ store \in lost
                 \/ \E g \in Refreshes : /\ refresh'[g].tab # Null /\ refresh'[g].token = store
                                         /\ refresh'[g].at \in {"revoked", "done"}
      <4>1. session[store].state = "exchanged"
        BY <1>8, <3>1 DEF RotationIInv, TokensKnown
      <4>2. \A g \in Refreshes : refresh[g].at \in {"revoked", "done"} =>
               /\ refresh'[g].tab = refresh[g].tab /\ refresh'[g].token = refresh[g].token
               /\ refresh'[g].at \in {"revoked", "done"}
        BY <1>6, <1>9 DEF shown
      <4> QED BY <2>1, <3>1, <4>1, <4>2 DEF StoreWaits
    <3> QED BY <1>1, <3>1 DEF StoreWaits
  <2>8. TokensApart'
    <3>1. \A g \in Refreshes : refresh'[g].at # "idle" =>
             refresh[g].at # "idle" /\ refresh'[g].token = refresh[g].token
      BY <1>1, <1>6, <1>9 DEF shown
    <3>2. ASSUME NEW g \in Refreshes, NEW h \in Refreshes, g # h, refresh'[g].at # "idle",
                 refresh'[h].at # "idle", refresh'[g].token = refresh'[h].token
          PROVE  refresh'[g].token \in lost
      <4>1. /\ refresh[g].at # "idle" /\ refresh'[g].token = refresh[g].token
            /\ refresh[h].at # "idle" /\ refresh'[h].token = refresh[h].token
        BY <3>1, <3>2
      <4> QED BY <2>1, <3>2, <4>1 DEF TokensApart
    <3> QED BY <1>1, <3>2 DEF TokensApart
  <2>9. WorkAlone'
    <3>1. ASSUME NEW g \in Refreshes, NEW h \in Refreshes, g # h,
                 refresh'[g].at \in {"live", "revoked"}, refresh'[h].at \in {"live", "revoked"},
                 session'[refresh'[g].token].family = session'[refresh'[h].token].family
          PROVE  \E l \in lost' : session'[l].family = session'[refresh'[g].token].family
      <4>1. refresh'[g] = refresh[g] /\ refresh'[h] = refresh[h]
        BY <1>6, <1>9, <3>1
      <4>2. Known(refresh[g].token) /\ Known(refresh[h].token)
        BY <1>2, <3>1, <4>1 DEF RefreshKnown
      <4>3. Mourned(refresh[g].token)
        BY <1>8, <2>1, <3>1, <4>1, <4>2 DEF WorkAlone
      <4> QED BY <2>2, <4>1, <4>2, <4>3
    <3> QED BY <3>1 DEF WorkAlone, Mourned
  <2> QED BY <2>4, <2>5, <2>6, <2>7, <2>8, <2>9
<1>16. ChainInv'
  BY <1>15 DEF ChainInv
<1> QED BY <1>10, <1>11, <1>13, <1>14, <1>16 DEF RotationIInv

LEMMA RotationStart ==
    ASSUME RotationConstants, RotationIInv, NEW c \in Calls, NEW f \in Refreshes, R!StartRefresh(c, f)
    PROVE  RotationIInv'
<1> DEFINE begun == [at |-> "sent", token |-> store, tab |-> TabOf[c], next |-> Null]
<1>1. /\ refresh' = [refresh EXCEPT ![f] = begun] /\ refresh[f].at = "idle" /\ store # Null
      /\ call' = [call EXCEPT ![c].at = "waiting"] /\ ~R!InFlight(TabOf[c])
      /\ UNCHANGED <<session, disabled, store, page>>
      /\ lost' = lost \cup R!SentElsewhere(TabOf[c])
  BY DEF R!StartRefresh, R!serverVars
<1>2. /\ refresh \in [Refreshes -> R!RefreshState] /\ store \in R!Token /\ Known(store)
      /\ RefreshKnown /\ RefreshesApart
  BY <1>1 DEF RotationIInv, R!TypeOK, TokensKnown
<1>3. TabOf[c] \in Windows /\ TabOf[c] # Null
  BY RotationNumbers
<1>4. /\ begun \in R!RefreshState /\ begun.at = "sent" /\ begun.token = store
      /\ begun.tab = TabOf[c] /\ begun.next = Null
  BY <1>2, <1>3 DEF R!RefreshState, R!Token
<1> HIDE DEF begun
<1>5. refresh'[f] = begun /\ \A g \in Refreshes : g # f => refresh'[g] = refresh[g]
  BY <1>1, <1>2
<1>6. \A g \in Refreshes : refresh[g].tab # TabOf[c]
  BY <1>1 DEF R!InFlight
<1>7. /\ lost \subseteq lost' /\ lost' \subseteq lost \cup {store}
      /\ \A g \in Refreshes : refresh[g].token = store /\ refresh[g].tab # Null => store \in lost'
  BY <1>1, <1>6 DEF R!SentElsewhere
<1>8. R!TypeOK'
  <2>1. refresh' \in [Refreshes -> R!RefreshState]
    BY <1>1, <1>2, <1>4
  <2>2. call' \in [Calls -> R!CallState]
    BY <1>1 DEF RotationIInv, R!TypeOK, R!CallState
  <2>3. lost' \subseteq R!Sessions
    BY <1>2, <1>7 DEF RotationIInv, R!TypeOK, Known
  <2> QED BY <1>1, <2>1, <2>2, <2>3 DEF RotationIInv, R!TypeOK
<1>9. TokensKnown'
  BY <1>1, <1>2, <1>7 DEF RotationIInv, TokensKnown, Known
<1>10. RefreshKnown'
  <2>1. ASSUME NEW g \in Refreshes
        PROVE  /\ refresh'[g].at # "idle" => Known(refresh'[g].token)
               /\ refresh'[g].at = "done" => /\ Known(refresh'[g].next) /\ refresh'[g].next # store
                                             /\ session[refresh'[g].next].state # "exchanged"
               /\ refresh'[g].at # "done" => refresh'[g].next = Null
               /\ refresh'[g].tab # Null => refresh'[g].at # "idle"
               /\ refresh'[g].at # "idle" /\ refresh'[g].tab = Null => refresh'[g].token \in lost'
    <3>1. CASE g = f
      BY <1>2, <1>3, <1>4, <1>5, <3>1
    <3>2. CASE g # f
      BY <1>2, <1>5, <1>7, <3>2 DEF RefreshKnown
    <3> QED BY <3>1, <3>2
  <2> QED BY <1>1, <2>1 DEF RefreshKnown, Known
<1>11. RefreshesApart'
  <2>1. ASSUME NEW g \in Refreshes, NEW h \in Refreshes
        PROVE  /\ g # h /\ refresh'[g].tab # Null => refresh'[g].tab # refresh'[h].tab
               /\ refresh'[g].at = "done" /\ refresh'[h].at # "idle" =>
                     refresh'[h].token # refresh'[g].next
               /\ g # h /\ refresh'[g].at = "done" /\ refresh'[h].at = "done" =>
                     refresh'[g].next # refresh'[h].next
    <3>1. g # h /\ refresh'[g].tab # Null => refresh'[g].tab # refresh'[h].tab
      BY <1>2, <1>4, <1>5, <1>6 DEF RefreshesApart
    <3>2. \A i \in Refreshes : refresh'[i].at = "done" => refresh'[i] = refresh[i]
      BY <1>4, <1>5
    <3>3. refresh'[g].at = "done" /\ refresh'[h].at # "idle" => refresh'[h].token # refresh'[g].next
      <4>1. CASE h = f
        BY <1>2, <1>4, <1>5, <3>2, <4>1 DEF RefreshKnown
      <4>2. CASE h # f
        BY <1>2, <1>5, <3>2, <4>2 DEF RefreshesApart
      <4> QED BY <4>1, <4>2
    <3> QED BY <1>2, <3>1, <3>2, <3>3 DEF RefreshesApart
  <2> QED BY <2>1 DEF RefreshesApart
<1>12. (HeadsAlone /\ TurnsAlone /\ TokensApart /\ WorkAlone /\ SentOnce /\ StoreWaits)'
  <2>1. HeadsAlone /\ TurnsAlone /\ TokensApart /\ WorkAlone /\ SentOnce /\ StoreWaits
    BY DEF RotationIInv, ChainInv
  <2>2. R!Live' = R!Live
    BY <1>1 DEF R!Live
  <2>3. ASSUME NEW s, Mourned(s)
        PROVE  \E l \in lost' : session'[l].family = session'[s].family
    BY <1>1, <1>7, <2>3 DEF Mourned
  <2>4. HeadsAlone'
    BY <1>1, <2>1, <2>2, <2>3 DEF HeadsAlone, Mourned
  <2>5. \A g \in Refreshes : refresh'[g].at \in {"live", "revoked", "reused", "done"} =>
           refresh'[g] = refresh[g]
    BY <1>4, <1>5
  <2>6. TurnsAlone'
    <3>1. ASSUME NEW g \in Refreshes, NEW s \in R!Live',
                 refresh'[g].at = "revoked" \/ (refresh'[g].at = "live" /\ s # refresh'[g].token),
                 session'[s].family = session'[refresh'[g].token].family
          PROVE  \E l \in lost' : session'[l].family = session'[s].family
      BY <1>1, <2>1, <2>2, <2>3, <2>5, <3>1 DEF TurnsAlone
    <3> QED BY <3>1 DEF TurnsAlone, Mourned
  \* Nobody is on the way with the token of the store, unless it is lost.
  <2>7. ASSUME NEW g \in Refreshes, refresh[g].at # "idle", refresh[g].token = store
        PROVE  store \in lost'
    <3>1. CASE refresh[g].tab = Null
      BY <1>2, <1>7, <2>7, <3>1 DEF RefreshKnown
    <3>2. CASE refresh[g].tab # Null
      BY <1>7, <2>7, <3>2
    <3> QED BY <3>1, <3>2
  <2>8. TokensApart'
    <3>1. ASSUME NEW g \in Refreshes, NEW h \in Refreshes, g # h, refresh'[g].at # "idle",
                 refresh'[h].at # "idle", refresh'[g].token = refresh'[h].token
          PROVE  refresh'[g].token \in lost'
      <4>1. CASE g = f
        BY <1>4, <1>5, <2>7, <3>1, <4>1
      <4>2. CASE h = f
        BY <1>4, <1>5, <2>7, <3>1, <4>2
      <4>3. CASE g # f /\ h # f
        BY <1>5, <1>7, <2>1, <3>1, <4>3 DEF TokensApart
      <4> QED BY <4>1, <4>2, <4>3
    <3> QED BY <3>1 DEF TokensApart
  <2>9. WorkAlone'
    <3>1. ASSUME NEW g \in Refreshes, NEW h \in Refreshes, g # h,
                 refresh'[g].at \in {"live", "revoked"}, refresh'[h].at \in {"live", "revoked"},
                 session'[refresh'[g].token].family = session'[refresh'[h].token].family
          PROVE  \E l \in lost' : session'[l].family = session'[refresh'[g].token].family
      <4>1. Mourned(refresh[g].token) /\ refresh'[g] = refresh[g]
        BY <1>1, <2>1, <2>5, <3>1 DEF WorkAlone
      <4> QED BY <2>3, <4>1
    <3> QED BY <3>1 DEF WorkAlone, Mourned
  <2>10. session[store].state = "exchanged" => store \in lost'
    BY <1>1, <1>7, <2>1, <2>7 DEF StoreWaits
  <2>11. SentOnce'
    <3>1. ASSUME NEW g \in Refreshes
          PROVE  /\ refresh'[g].at \in {"sent", "live"} /\ session[refresh'[g].token].state = "exchanged"
                        => refresh'[g].token \in lost'
                 /\ refresh'[g].at = "reused"
                        => refresh'[g].token \in lost' \/ session[refresh'[g].token].state = "ended"
      <4>1. CASE g = f
        BY <1>4, <1>5, <2>10, <4>1
      <4>2. CASE g # f
        <5>1. refresh'[g] = refresh[g]
          BY <1>5, <4>2
        <5> QED BY <1>7, <2>1, <5>1 DEF SentOnce
      <4> QED BY <4>1, <4>2
    <3> QED BY <1>1, <3>1 DEF SentOnce
  <2>12. StoreWaits'
    BY <1>1, <2>10 DEF StoreWaits
  <2> QED BY <2>4, <2>6, <2>8, <2>9, <2>11, <2>12
<1>13. ChainInv'
  BY <1>12 DEF ChainInv
<1> QED BY <1>8, <1>9, <1>10, <1>11, <1>13 DEF RotationIInv

LEMMA RotationDeliver ==
    ASSUME RotationConstants, RotationIInv, NEW f \in Refreshes, R!Deliver(f)
    PROVE  RotationIInv'
<1>1. /\ refresh' = [refresh EXCEPT ![f] = R!NoRefresh]
      /\ refresh[f].at \in {"done", "failed"} /\ refresh[f].tab # Null
      /\ UNCHANGED <<session, disabled, page, lost>>
  BY DEF R!Deliver, R!serverVars
<1>2. /\ refresh \in [Refreshes -> R!RefreshState] /\ RefreshKnown /\ RefreshesApart
      /\ refresh[f] \in R!RefreshState
      /\ page \in [Windows -> R!Page] /\ call \in [Calls -> R!CallState] /\ disabled \in BOOLEAN
  BY DEF RotationIInv, R!TypeOK
<1>3. /\ R!NoRefresh \in R!RefreshState /\ R!NoCall \in R!CallState
      /\ R!NoRefresh.at = "idle" /\ R!NoRefresh.tab = Null /\ R!NoRefresh.next = Null
  BY DEF R!NoRefresh, R!NoCall, R!RefreshState, R!CallState, R!Token
<1>4. CASE refresh[f].next = Null
  <2>1. refresh[f].at = "failed"
    BY <1>1, <1>2, <1>4, RotationNumbers DEF RefreshKnown, Known
  <2>2. refresh' \in [Refreshes -> R!RefreshState] /\ \A g \in Refreshes : RefreshEnds(g)
    BY <1>1, <1>3, <2>1, OneRefreshEnds
  <2>3. store' = store /\ call' = R!Woken(refresh[f].tab, R!NoCall)
    BY <1>4 DEF R!Deliver
  <2>4. Fades
    BY <1>1, <1>2, <1>3, <2>2, <2>3, StillSessions, RotationWoken DEF Fades
  <2> QED BY <2>4, FadingIsSafe
<1>5. CASE refresh[f].next # Null
  <2>1. PICK next \in R!Sessions : next = refresh[f].next
    BY <1>2, <1>5 DEF R!RefreshState, R!Token
  <2>2. refresh[f].at = "done" /\ Known(next) /\ session[next].state # "exchanged"
    BY <1>1, <1>2, <1>5, <2>1 DEF RefreshKnown
  <2>3. store' = next /\ call' = R!Woken(refresh[f].tab, [at |-> "sent", token |-> next])
    BY <1>5, <2>1 DEF R!Deliver
  <2>4. [at |-> "sent", token |-> next] \in R!CallState
    BY DEF R!CallState, R!Token
  <2>5. R!TypeOK'
    <3>1. store' \in R!Token /\ call' \in [Calls -> R!CallState]
      BY <2>3, <2>4, RotationWoken DEF R!Token
    <3>2. refresh' \in [Refreshes -> R!RefreshState]
      BY <1>1, <1>2, <1>3
    <3> QED BY <1>1, <3>1, <3>2 DEF RotationIInv, R!TypeOK
  <2>6. TokensKnown'
    BY <1>1, <2>2, <2>3 DEF RotationIInv, TokensKnown, Known
  <2>7. \A g \in Refreshes : \/ (g = f /\ refresh'[g] = R!NoRefresh)
                             \/ (g # f /\ refresh'[g] = refresh[g])
    BY <1>1, <1>2
  <2>8. RefreshKnown'
    <3>1. ASSUME NEW g \in Refreshes
          PROVE  /\ refresh'[g].at # "idle" => Known(refresh'[g].token)
                 /\ refresh'[g].at = "done" => /\ Known(refresh'[g].next) /\ refresh'[g].next # next
                                               /\ session[refresh'[g].next].state # "exchanged"
                 /\ refresh'[g].at # "done" => refresh'[g].next = Null
                 /\ refresh'[g].tab # Null => refresh'[g].at # "idle"
                 /\ refresh'[g].at # "idle" /\ refresh'[g].tab = Null => refresh'[g].token \in lost
      <4>1. CASE g = f
        BY <1>3, <2>7, <4>1
      <4>2. CASE g # f
        <5>1. refresh'[g] = refresh[g]
          BY <2>7, <4>2
        <5>2. refresh[g].at = "done" => refresh[g].next # next
          BY <1>2, <2>1, <2>2, <4>2 DEF RefreshesApart
        <5> QED BY <1>2, <5>1, <5>2 DEF RefreshKnown
      <4> QED BY <4>1, <4>2
    <3> QED BY <1>1, <2>3, <3>1 DEF RefreshKnown, Known
  <2>9. RefreshesApart'
    <3>1. ASSUME NEW g \in Refreshes, NEW h \in Refreshes
          PROVE  /\ g # h /\ refresh'[g].tab # Null => refresh'[g].tab # refresh'[h].tab
                 /\ refresh'[g].at = "done" /\ refresh'[h].at # "idle" =>
                       refresh'[h].token # refresh'[g].next
                 /\ g # h /\ refresh'[g].at = "done" /\ refresh'[h].at = "done" =>
                       refresh'[g].next # refresh'[h].next
      BY <1>2, <1>3, <2>7 DEF RefreshesApart
    <3> QED BY <3>1 DEF RefreshesApart
  <2>10. (HeadsAlone /\ TurnsAlone /\ TokensApart /\ WorkAlone /\ SentOnce /\ StoreWaits)'
    <3>1. HeadsAlone /\ TurnsAlone /\ TokensApart /\ WorkAlone /\ SentOnce /\ StoreWaits
      BY DEF RotationIInv, ChainInv
    <3>2. R!Live' = R!Live
      BY <1>1 DEF R!Live
    <3>3. \A g \in Refreshes : refresh'[g].at # "idle" => refresh'[g] = refresh[g]
      BY <1>3, <2>7
    <3>4. HeadsAlone'
      BY <1>1, <3>1, <3>2 DEF HeadsAlone, Mourned
    <3>5. TurnsAlone'
      BY <1>1, <3>1, <3>2, <3>3 DEF TurnsAlone, Mourned
    <3>6. SentOnce'
      BY <1>1, <3>1, <3>3 DEF SentOnce
    <3>7. StoreWaits'
      BY <1>1, <2>2, <2>3 DEF StoreWaits
    <3>8. TokensApart'
      BY <1>1, <3>1, <3>3 DEF TokensApart
    <3>9. WorkAlone'
      BY <1>1, <3>1, <3>3 DEF WorkAlone, Mourned
    <3> QED BY <3>4, <3>5, <3>6, <3>7, <3>8, <3>9
  <2>11. ChainInv'
    BY <2>10 DEF ChainInv
  <2> QED BY <2>5, <2>6, <2>8, <2>9, <2>11 DEF RotationIInv
<1> QED BY <1>4, <1>5

\* What is found revoked was ended by somebody, or is lost, as nobody has exchanged
\* a token that is on its way; what is found live is alone.
LEMMA RotationReadToken ==
    ASSUME RotationConstants, RotationIInv, NEW f \in Refreshes, NEW inTime \in BOOLEAN,
           R!ReadToken(f, inTime)
    PROVE  RotationIInv'
<1>1. PICK at \in {"reused", "live", "failed"} :
          at = IF refresh[f].token \notin R!Live THEN "reused"
               ELSE IF inTime THEN "live" ELSE "failed"
  OBVIOUS
<1> DEFINE read == [refresh[f] EXCEPT !.at = at]
<1>2. /\ refresh' = [refresh EXCEPT ![f] = read] /\ refresh[f].at = "sent"
      /\ UNCHANGED <<session, disabled, store, page, call, lost>>
  BY <1>1 DEF R!ReadToken, R!serverVars
<1>3. /\ refresh \in [Refreshes -> R!RefreshState] /\ RefreshKnown /\ RefreshesApart
      /\ refresh[f] \in R!RefreshState
      /\ page \in [Windows -> R!Page] /\ call \in [Calls -> R!CallState] /\ disabled \in BOOLEAN
  BY DEF RotationIInv, R!TypeOK
<1>4. /\ read \in R!RefreshState /\ read.at = at /\ read.token = refresh[f].token
      /\ read.tab = refresh[f].tab /\ read.next = refresh[f].next
  BY <1>3 DEF R!RefreshState
<1>5. Known(refresh[f].token)
  BY <1>2, <1>3 DEF RefreshKnown
<1>6. CASE at = "failed"
  <2>1. refresh' \in [Refreshes -> R!RefreshState] /\ \A g \in Refreshes : RefreshEnds(g)
    BY <1>2, <1>4, <1>6, OneRefreshEnds
  <2>2. Fades
    BY <1>2, <1>3, <2>1, StillSessions DEF Fades
  <2> QED BY <2>2, FadingIsSafe
<1> HIDE DEF read
<1>7. refresh'[f] = read /\ \A g \in Refreshes : g # f => refresh'[g] = refresh[g]
  BY <1>2, <1>3
<1>8. CASE at # "failed"
  <2>0. \A g \in Refreshes :
           /\ refresh'[g].token = refresh[g].token /\ refresh'[g].tab = refresh[g].tab
           /\ refresh'[g].next = refresh[g].next
           /\ (refresh'[g].at # "idle") = (refresh[g].at # "idle")
           /\ (refresh'[g].at = "done") = (refresh[g].at = "done")
    BY <1>2, <1>4, <1>7, <1>8
  <2>1. R!TypeOK'
    <3>1. refresh' \in [Refreshes -> R!RefreshState]
      BY <1>2, <1>3, <1>4
    <3> QED BY <1>2, <3>1 DEF RotationIInv, R!TypeOK
  <2>2. TokensKnown'
    BY <1>2 DEF RotationIInv, TokensKnown, Known
  <2>3. RefreshKnown'
    BY <1>2, <1>3, <2>0 DEF RefreshKnown, Known
  <2>4. RefreshesApart'
    BY <1>3, <2>0 DEF RefreshesApart
  <2>5. (HeadsAlone /\ TurnsAlone /\ TokensApart /\ WorkAlone /\ SentOnce /\ StoreWaits)'
    <3>1. HeadsAlone /\ TurnsAlone /\ TokensApart /\ WorkAlone /\ SentOnce /\ StoreWaits
      BY DEF RotationIInv, ChainInv
    <3>2. R!Live' = R!Live
      BY <1>2 DEF R!Live
    <3>3. HeadsAlone'
      BY <1>2, <3>1, <3>2 DEF HeadsAlone, Mourned
    <3>4. TurnsAlone'
      <4>1. ASSUME NEW g \in Refreshes, NEW s \in R!Live,
                   refresh'[g].at = "revoked" \/ (refresh'[g].at = "live" /\ s # refresh'[g].token),
                   session[s].family = session[refresh'[g].token].family
            PROVE  Mourned(s)
        <5>1. CASE g = f
          <6>1. refresh[f].token \in R!Live /\ s # refresh[f].token
            BY <1>1, <1>4, <1>7, <4>1, <5>1
          <6> QED BY <2>0, <3>1, <4>1, <5>1, <6>1 DEF HeadsAlone
        <5>2. CASE g # f
          <6>1. refresh'[g] = refresh[g]
            BY <1>7, <5>2
          <6> QED BY <3>1, <4>1, <6>1 DEF TurnsAlone
        <5> QED BY <5>1, <5>2
      <4> QED BY <1>2, <3>2, <4>1 DEF TurnsAlone, Mourned
    <3>5. SentOnce'
      <4>1. ASSUME NEW g \in Refreshes
            PROVE  /\ refresh'[g].at \in {"sent", "live"} /\ session[refresh'[g].token].state = "exchanged"
                          => refresh'[g].token \in lost
                   /\ refresh'[g].at = "reused"
                          => refresh'[g].token \in lost \/ session[refresh'[g].token].state = "ended"
        <5>1. CASE g = f
          <6>1. session[refresh[f].token].state = "exchanged" => refresh[f].token \in lost
            BY <1>2, <3>1 DEF SentOnce
          <6>2. at = "reused" => session[refresh[f].token].state \in {"exchanged", "ended"}
            <7>1. session[refresh[f].token] \in
                     [state: {"absent", "live", "exchanged", "ended"}, family: R!Sessions]
              BY <1>5 DEF Known, RotationIInv, R!TypeOK
            <7>2. session[refresh[f].token].state # "absent"
              BY <1>5 DEF Known
            <7>3. at = "reused" => session[refresh[f].token].state # "live"
              BY <1>1, <1>5 DEF R!Live, Known
            <7> QED BY <7>1, <7>2, <7>3
          <6> QED BY <1>4, <1>7, <5>1, <6>1, <6>2
        <5>2. CASE g # f
          <6>1. refresh'[g] = refresh[g]
            BY <1>7, <5>2
          <6> QED BY <3>1, <6>1 DEF SentOnce
        <5> QED BY <5>1, <5>2
      <4> QED BY <1>2, <4>1 DEF SentOnce
    <3>6. StoreWaits'
      <4>1. \A g \in Refreshes : refresh[g].at \in {"revoked", "done"} => refresh'[g] = refresh[g]
        BY <1>2, <1>7
      <4> QED BY <1>2, <3>1, <4>1 DEF StoreWaits
    <3>7. TokensApart'
      BY <1>2, <2>0, <3>1 DEF TokensApart
    \* What is at work on the family already has this token, too, or another.
    <3>8. WorkAlone'
      <4>1. ASSUME NEW h \in Refreshes, h # f, at = "live", refresh[h].at \in {"live", "revoked"},
                   session[refresh[h].token].family = session[refresh[f].token].family
            PROVE  Mourned(refresh[f].token)
        <5>1. refresh[f].token \in R!Live
          BY <1>1, <4>1
        <5>2. CASE refresh[h].token = refresh[f].token
          <6>1. refresh[f].token \in lost
            BY <1>2, <3>1, <4>1, <5>2 DEF TokensApart
          <6> QED BY <6>1 DEF Mourned
        <5>3. CASE refresh[h].token # refresh[f].token
          BY <3>1, <4>1, <5>1, <5>3 DEF TurnsAlone
        <5> QED BY <5>2, <5>3
      <4>2. ASSUME NEW g \in Refreshes, NEW h \in Refreshes, g # h,
                   refresh'[g].at \in {"live", "revoked"}, refresh'[h].at \in {"live", "revoked"},
                   session[refresh[g].token].family = session[refresh[h].token].family
            PROVE  Mourned(refresh[g].token)
        <5>1. CASE g = f
          <6>1. at = "live" /\ refresh[h].at \in {"live", "revoked"}
            BY <1>4, <1>7, <4>2, <5>1
          <6> QED BY <4>1, <4>2, <5>1, <6>1
        <5>2. CASE h = f
          <6>1. at = "live" /\ refresh[g].at \in {"live", "revoked"}
            BY <1>4, <1>7, <4>2, <5>2
          <6>2. Mourned(refresh[f].token)
            BY <4>1, <4>2, <5>2, <6>1
          <6> QED BY <4>2, <5>2, <6>2 DEF Mourned
        <5>3. CASE g # f /\ h # f
          <6>1. refresh'[g] = refresh[g] /\ refresh'[h] = refresh[h]
            BY <1>7, <5>3
          <6> QED BY <3>1, <4>2, <6>1 DEF WorkAlone
        <5> QED BY <5>1, <5>2, <5>3
      <4> QED BY <1>2, <2>0, <4>2 DEF WorkAlone, Mourned
    <3> QED BY <3>3, <3>4, <3>5, <3>6, <3>7, <3>8
  <2>6. ChainInv'
    BY <2>5 DEF ChainInv
  <2> QED BY <2>1, <2>2, <2>3, <2>4, <2>6 DEF RotationIInv
<1> QED BY <1>6, <1>8

LEMMA RotationRotate ==
    ASSUME RotationConstants, RotationIInv, NEW f \in Refreshes, R!Rotate(f)
    PROVE  RotationIInv'
<1> DEFINE shown == refresh[f].token
           spent == [session[shown] EXCEPT !.state = IF session[shown].state = "ended" THEN "ended"
                                                     ELSE "exchanged"]
           turned == [refresh[f] EXCEPT !.at = "revoked"]
<1>1. /\ refresh[f].at = "live" /\ UNCHANGED <<disabled, store, page, call, lost>>
      /\ refresh' = [refresh EXCEPT ![f] = turned]
  BY DEF R!Rotate
<1>2. /\ refresh \in [Refreshes -> R!RefreshState] /\ RefreshKnown /\ RefreshesApart
      /\ refresh[f] \in R!RefreshState
      /\ session \in [R!Sessions -> [state: {"absent", "live", "exchanged", "ended"}, family: R!Sessions]]
  BY DEF RotationIInv, R!TypeOK
<1>3. Known(shown) /\ shown \in R!Sessions /\ session[shown].state # "absent"
  BY <1>1, <1>2 DEF RefreshKnown, Known
<1>4. session' = [session EXCEPT ![shown] = spent]
  BY <1>2, <1>3 DEF R!Rotate
<1>5. /\ turned \in R!RefreshState /\ turned.at = "revoked" /\ turned.token = shown
      /\ turned.tab = refresh[f].tab /\ turned.next = refresh[f].next
  BY <1>2 DEF R!RefreshState
<1>6. /\ spent \in [state: {"absent", "live", "exchanged", "ended"}, family: R!Sessions]
      /\ spent.family = session[shown].family /\ spent.state \in {"ended", "exchanged"}
      /\ session[shown].state = "ended" => spent.state = "ended"
  BY <1>2, <1>3
<1>7. PICK old : old = shown
  OBVIOUS
<1> HIDE DEF shown, spent, turned
<1>8. /\ refresh'[f] = turned /\ \A g \in Refreshes : g # f => refresh'[g] = refresh[g]
      /\ session'[old] = spent /\ \A s \in R!Sessions : s # old => session'[s] = session[s]
      /\ old \in R!Sessions
  BY <1>1, <1>2, <1>3, <1>4, <1>7
<1>9. \A s \in R!Sessions :
         /\ session'[s].family = session[s].family
         /\ session'[s].state # "absent" <=> session[s].state # "absent"
         /\ session'[s].state = "live" <=> session[s].state = "live" /\ s # old
         /\ session'[s].state = "exchanged" => session[s].state = "exchanged" \/ s = old
         /\ session[s].state = "ended" => session'[s].state = "ended"
  <2>1. ASSUME NEW s \in R!Sessions
        PROVE  /\ session'[s].family = session[s].family
               /\ session'[s].state # "absent" <=> session[s].state # "absent"
               /\ session'[s].state = "live" <=> session[s].state = "live" /\ s # old
               /\ session'[s].state = "exchanged" => session[s].state = "exchanged" \/ s = old
               /\ session[s].state = "ended" => session'[s].state = "ended"
    <3>1. CASE s = old
      BY <1>3, <1>6, <1>7, <1>8, <3>1
    <3>2. CASE s # old
      BY <1>8, <3>2
    <3> QED BY <3>1, <3>2
  <2> QED BY <2>1
<1>10. \A s : Known(s) => s \in R!Sessions /\ s # Null /\ session'[s].state # "absent"
  BY <1>9, RotationNumbers DEF Known
<1>11. \A g \in Refreshes :
          /\ refresh'[g].token = refresh[g].token /\ refresh'[g].tab = refresh[g].tab
          /\ refresh'[g].next = refresh[g].next
          /\ (refresh'[g].at # "idle") = (refresh[g].at # "idle")
          /\ (refresh'[g].at = "done") = (refresh[g].at = "done")
  BY <1>1, <1>5, <1>8 DEF shown
<1>12. R!TypeOK'
  <2>1. refresh' \in [Refreshes -> R!RefreshState]
    BY <1>1, <1>2, <1>5
  <2>2. session' \in [R!Sessions -> [state: {"absent", "live", "exchanged", "ended"}, family: R!Sessions]]
    BY <1>2, <1>4, <1>6
  <2> QED BY <1>1, <2>1, <2>2 DEF RotationIInv, R!TypeOK
<1>13. TokensKnown'
  <2>1. store' # Null => store' \in R!Sessions /\ session'[store'].state # "absent"
    BY <1>1, <1>10 DEF RotationIInv, TokensKnown
  <2>2. \A l \in lost' : l \in R!Sessions /\ session'[l].state # "absent"
    BY <1>1, <1>10 DEF RotationIInv, TokensKnown
  <2>3. ASSUME NEW s \in R!Sessions, session'[s].state # "absent"
        PROVE  session'[s].family \in R!Sessions /\ session'[session'[s].family].state # "absent"
    <3>1. Known(session[s].family)
      BY <1>9, <2>3 DEF RotationIInv, TokensKnown, Known
    <3> QED BY <1>9, <1>10, <3>1
  <2> QED BY <2>1, <2>2, <2>3 DEF TokensKnown, Known
\* Nobody holds what an answer is about to bring.
<1>14. \A g \in Refreshes : refresh[g].at = "done" => refresh[g].next # old
  BY <1>1, <1>2, <1>7 DEF RefreshesApart, shown
<1>15. RefreshKnown'
  <2>1. ASSUME NEW g \in Refreshes
        PROVE  /\ refresh'[g].at # "idle" => /\ refresh'[g].token \in R!Sessions
                                             /\ session'[refresh'[g].token].state # "absent"
               /\ refresh'[g].at = "done" =>
                     /\ refresh'[g].next \in R!Sessions /\ refresh'[g].next # store
                     /\ session'[refresh'[g].next].state # "absent"
                     /\ session'[refresh'[g].next].state # "exchanged"
               /\ refresh'[g].at # "done" => refresh'[g].next = Null
               /\ refresh'[g].tab # Null => refresh'[g].at # "idle"
               /\ refresh'[g].at # "idle" /\ refresh'[g].tab = Null => refresh'[g].token \in lost
    <3>1. refresh[g].at # "idle" => Known(refresh[g].token)
      BY <1>2 DEF RefreshKnown
    <3>2. refresh[g].at = "done" => /\ Known(refresh[g].next) /\ refresh[g].next # store
                                   /\ session[refresh[g].next].state # "exchanged"
      BY <1>2 DEF RefreshKnown
    <3>3. /\ refresh[g].at # "done" => refresh[g].next = Null
          /\ refresh[g].tab # Null => refresh[g].at # "idle"
          /\ refresh[g].at # "idle" /\ refresh[g].tab = Null => refresh[g].token \in lost
      BY <1>2 DEF RefreshKnown
    <3>4. refresh[g].at = "done" => session'[refresh[g].next].state # "exchanged"
      BY <1>9, <1>10, <1>14, <3>2
    <3> QED BY <1>10, <1>11, <3>1, <3>2, <3>3, <3>4
  <2> QED BY <1>1, <2>1 DEF RefreshKnown, Known
<1>16. RefreshesApart'
  BY <1>2, <1>11 DEF RefreshesApart
<1>17. (HeadsAlone /\ TurnsAlone /\ TokensApart /\ WorkAlone /\ SentOnce /\ StoreWaits)'
  <2>1. HeadsAlone /\ TurnsAlone /\ TokensApart /\ WorkAlone /\ SentOnce /\ StoreWaits
    BY DEF RotationIInv, ChainInv
  <2>2. R!Live' \subseteq R!Live /\ old \notin R!Live' /\ R!Live \subseteq R!Sessions
    BY <1>9 DEF R!Live
  <2>3. ASSUME NEW s \in R!Sessions, Mourned(s)
        PROVE  \E l \in lost' : session'[l].family = session'[s].family
    <3>1. PICK l \in lost : session[l].family = session[s].family
      BY <2>3 DEF Mourned
    <3>2. l \in lost' /\ l \in R!Sessions
      BY <1>1 DEF RotationIInv, R!TypeOK
    <3> QED BY <1>9, <3>1, <3>2
  <2>4. HeadsAlone'
    <3>1. ASSUME NEW s \in R!Live', NEW r \in R!Live', s # r, session'[s].family = session'[r].family
          PROVE  \E l \in lost' : session'[l].family = session'[s].family
      <4>1. s \in R!Live /\ r \in R!Live /\ s \in R!Sessions /\ r \in R!Sessions
        BY <2>2
      <4> QED BY <1>9, <2>1, <2>3, <3>1, <4>1 DEF HeadsAlone
    <3> QED BY <3>1 DEF HeadsAlone, Mourned
  <2>5. TurnsAlone'
    <3>1. ASSUME NEW g \in Refreshes, NEW s \in R!Live',
                 refresh'[g].at = "revoked" \/ (refresh'[g].at = "live" /\ s # refresh'[g].token),
                 session'[s].family = session'[refresh'[g].token].family
          PROVE  \E l \in lost' : session'[l].family = session'[s].family
      <4>1. s \in R!Live /\ s \in R!Sessions /\ s # old
        BY <2>2
      <4>2. Known(refresh[g].token) /\ refresh'[g].token = refresh[g].token
        BY <1>2, <1>11, <3>1 DEF RefreshKnown
      <4>3. session[s].family = session[refresh[g].token].family
        BY <1>9, <1>10, <3>1, <4>1, <4>2
      <4>4. CASE g = f
        BY <1>1, <1>7, <2>1, <2>3, <4>1, <4>3, <4>4 DEF TurnsAlone, shown
      <4>5. CASE g # f
        <5>1. refresh'[g] = refresh[g]
          BY <1>8, <4>5
        <5> QED BY <2>1, <2>3, <3>1, <4>1, <4>3, <5>1 DEF TurnsAlone
      <4> QED BY <4>4, <4>5
    <3> QED BY <3>1 DEF TurnsAlone, Mourned
  \* If somebody else has this token on the way, it is lost.
  <2>6. SentOnce'
    <3>1. ASSUME NEW g \in Refreshes
          PROVE  /\ refresh'[g].at \in {"sent", "live"} /\ session'[refresh'[g].token].state = "exchanged"
                        => refresh'[g].token \in lost
                 /\ refresh'[g].at = "reused"
                        => refresh'[g].token \in lost \/ session'[refresh'[g].token].state = "ended"
      <4>1. CASE g = f
        BY <1>5, <1>8, <4>1
      <4>2. CASE g # f /\ refresh[g].at \in {"sent", "live", "reused"}
        <5>1. refresh'[g] = refresh[g] /\ Known(refresh[g].token)
          BY <1>2, <1>8, <4>2 DEF RefreshKnown
        <5>2. CASE refresh[g].token = old
          <6>1. old \in lost
            BY <1>1, <1>7, <2>1, <4>2, <5>2 DEF TokensApart, shown
          <6> QED BY <5>1, <5>2, <6>1
        <5>3. CASE refresh[g].token # old
          BY <1>8, <1>10, <2>1, <5>1, <5>3 DEF SentOnce
        <5> QED BY <5>2, <5>3
      <4>3. CASE g # f /\ refresh[g].at \notin {"sent", "live", "reused"}
        BY <1>8, <4>3
      <4> QED BY <4>1, <4>2, <4>3
    <3> QED BY <1>1, <3>1 DEF SentOnce
  <2>7. StoreWaits'
    <3>1. ASSUME store # Null, session'[store].state = "exchanged"
          PROVE  \/ store \in lost
                 \/ \E g \in Refreshes : /\ refresh'[g].tab # Null /\ refresh'[g].token = store
                                         /\ refresh'[g].at \in {"revoked", "done"}
      <4>1. CASE store = old
        <5>1. CASE refresh[f].tab = Null
          BY <1>1, <1>2, <1>7, <4>1, <5>1 DEF RefreshKnown, shown
        <5>2. CASE refresh[f].tab # Null
          BY <1>5, <1>7, <1>8, <4>1, <5>2
        <5> QED BY <5>1, <5>2
      <4>2. CASE store # old
        <5>1. session[store].state = "exchanged"
          BY <1>9, <1>10, <3>1, <4>2 DEF RotationIInv, TokensKnown
        <5>2. \A g \in Refreshes : refresh[g].at \in {"revoked", "done"} => refresh'[g] = refresh[g]
          BY <1>1, <1>8
        <5> QED BY <2>1, <3>1, <5>1, <5>2 DEF StoreWaits
      <4> QED BY <4>1, <4>2
    <3> QED BY <1>1, <3>1 DEF StoreWaits
  <2>8. TokensApart'
    BY <1>1, <1>11, <2>1 DEF TokensApart
  <2>9. WorkAlone'
    <3>1. ASSUME NEW g \in Refreshes, NEW h \in Refreshes, g # h,
                 refresh'[g].at \in {"live", "revoked"}, refresh'[h].at \in {"live", "revoked"},
                 session'[refresh'[g].token].family = session'[refresh'[h].token].family
          PROVE  \E l \in lost' : session'[l].family = session'[refresh'[g].token].family
      <4>1. refresh[g].at \in {"live", "revoked"} /\ refresh[h].at \in {"live", "revoked"}
        BY <1>1, <1>8, <3>1
      <4>2. Known(refresh[g].token) /\ Known(refresh[h].token)
        BY <1>2, <4>1 DEF RefreshKnown
      <4>3. session[refresh[g].token].family = session[refresh[h].token].family
        BY <1>9, <1>10, <1>11, <3>1, <4>2
      <4>4. Mourned(refresh[g].token)
        BY <2>1, <3>1, <4>1, <4>3 DEF WorkAlone
      <4> QED BY <1>10, <1>11, <2>3, <4>2, <4>4
    <3> QED BY <3>1 DEF WorkAlone, Mourned
  <2> QED BY <2>4, <2>5, <2>6, <2>7, <2>8, <2>9
<1>18. ChainInv'
  BY <1>17 DEF ChainInv
<1> QED BY <1>12, <1>13, <1>15, <1>16, <1>18 DEF RotationIInv

LEMMA RotationNext ==
    ASSUME RotationConstants, RotationIInv, [R!Next]_R!rotationVars
    PROVE  RotationIInv'
<1>1. CASE UNCHANGED R!rotationVars
  <2>1. /\ page \in [Windows -> R!Page] /\ call \in [Calls -> R!CallState] /\ disabled \in BOOLEAN
    BY DEF RotationIInv, R!TypeOK
  <2>2. UNCHANGED <<session, disabled, store, page, call, refresh, lost>>
    BY <1>1 DEF R!rotationVars
  <2>3. Fades
    BY <2>1, <2>2, StillSessions, StillRefreshes DEF Fades
  <2> QED BY <2>3, FadingIsSafe
<1>2. CASE R!Next
  BY <1>2, RotationPages, RotationReload, RotationSignIn, RotationCalls, RotationStart,
     RotationDeliver, RotationReadToken, RotationRotate, RotationOpenNext, RotationRefreshEnds,
     RotationRevoked DEF R!Next
<1> QED BY <1>1, <1>2
-----------------------------------------------------------------------------
LEMMA RotationStays == ASSUME RotationConstants PROVE MCSpec => []RotationIInv
<1>1. MCInit => RotationIInv
  BY RotationInit DEF MCInit
<1>2. RotationIInv /\ [MCNext]_vars => RotationIInv'
  <2>1. [MCNext]_vars => [R!Next]_R!rotationVars
    BY DEF MCNext, vars, people, sessions, R!rotationVars
  <2> QED BY <2>1, RotationNext
<1> QED BY <1>1, <1>2, PTL DEF MCSpec

\* For any number of sessions, tabs, calls and refreshes: a family has one live
\* session, unless the answer to one of its refreshes was lost or two tabs sent one
\* token at once, and a token is not taken for reused unless somebody ended its session
\* or that happened to it.
THEOREM ChainsStaySound == ASSUME RotationConstants PROVE MCSpec => []ChainsSound
<1>1. RotationIInv => ChainsSound
  <2> SUFFICES ASSUME RotationIInv
               PROVE  /\ \A s, r \in R!Live : s # r /\ session[s].family = session[r].family =>
                            \E l \in lost : session[l].family = session[s].family
                      /\ \A f \in Refreshes : refresh[f].at = "reused" =>
                            refresh[f].token \in lost \/ session[refresh[f].token].state = "ended"
    BY DEF ChainsSound, R!OneHead, R!AlarmsHaveCause
  <2>1. HeadsAlone /\ SentOnce
    BY DEF RotationIInv, ChainInv
  <2> QED BY <2>1 DEF HeadsAlone, SentOnce, Mourned
<1> QED BY <1>1, RotationStays, PTL
-----------------------------------------------------------------------------
(***************************************************************************)
(* The maintenance gate.  A query takes its snapshot somewhere in its life, *)
(* and the value it brings back is kept for a while: whoever has not seen   *)
(* the column change for longer than both knows what the gate holds.        *)
(***************************************************************************)
GateConstants == CacheTicks \in Nat /\ ReadTicks \in Nat

\* An editor that is about to write has read a row.
EditorsHaveRead == \A e \in Editors : edit[e].at # "idle" => edit[e].read \in G!Settings

\* A snapshot is no older than the query it belongs to.
SnapshotsFollow ==
    \A v \in Visitors : visit[v].at = "answer" /\ unchanged > visit[v].age =>
        visit[v].on = G!On(settings)

\* What is cached was that old when it came.
CacheFollows ==
    gate.age <= CacheTicks /\ unchanged > gate.age + ReadTicks => gate.on = G!On(settings)

GateIInv == G!TypeOK /\ EditorsHaveRead /\ SnapshotsFollow /\ CacheFollows
-----------------------------------------------------------------------------
LEMMA AgesAreNumbers ==
    ASSUME GateConstants
    PROVE  /\ G!Longest \in Nat /\ G!Longest = CacheTicks + ReadTicks + 1
           /\ \A n \in 0..G!Longest : G!Older(n) \in 0..G!Longest
           /\ \A n \in 0..G!Longest : G!Older(n) = n + 1 \/ (G!Older(n) = n /\ n = G!Longest)
<1>1. G!Longest = CacheTicks + ReadTicks + 1 /\ G!Longest \in Nat
  BY DEF GateConstants, G!Longest
<1>2. ASSUME NEW n \in 0..G!Longest
      PROVE  G!Older(n) \in 0..G!Longest /\ (G!Older(n) = n + 1 \/ (G!Older(n) = n /\ n = G!Longest))
  <2>1. n \in Nat /\ n <= G!Longest
    BY <1>1
  <2>2. CASE n < G!Longest
    <3>1. G!Older(n) = n + 1
      BY <2>2 DEF G!Older
    <3>2. n + 1 \in 0..G!Longest
      BY <1>1, <2>1, <2>2
    <3> QED BY <3>1, <3>2
  <2>3. CASE ~(n < G!Longest)
    <3>1. G!Older(n) = n /\ n = G!Longest
      BY <1>1, <2>1, <2>3 DEF G!Older
    <3> QED BY <3>1
  <2> QED BY <2>2, <2>3
<1> QED BY <1>1, <1>2

LEMMA GateInit == ASSUME GateConstants, G!Init PROVE GateIInv
<1>1. G!TypeOK
  <2>1. G!NoEdit \in G!Edit /\ G!NoVisit \in G!Visit
    BY DEF G!NoEdit, G!Edit, G!NoVisit, G!Visit, GateConstants
  <2> QED BY <2>1, AgesAreNumbers DEF G!Init, G!TypeOK, G!Settings, G!Gate
<1>2. EditorsHaveRead /\ SnapshotsFollow
  BY DEF G!Init, G!NoEdit, G!NoVisit, EditorsHaveRead, SnapshotsFollow
<1>3. CacheFollows
  BY AgesAreNumbers DEF G!Init, CacheFollows, GateConstants
<1> QED BY <1>1, <1>2, <1>3 DEF GateIInv

\* Whoever writes the column may only start the count anew.
LEMMA ColumnWritten ==
    ASSUME GateConstants, GateIInv, NEW s \in G!Settings, G!Write(s),
           UNCHANGED <<gate, visit>>, status' \in {"ACTIVE", "SUSPENDED"},
           \/ UNCHANGED edit
           \/ \E e \in Editors : edit' = [edit EXCEPT ![e] = G!NoEdit]
    PROVE  GateIInv'
<1> USE DEF GateIInv
<1>1. edit' \in [Editors -> G!Edit] /\ EditorsHaveRead'
  <2>1. G!NoEdit \in G!Edit
    BY DEF G!NoEdit, G!Edit
  <2> QED BY <2>1 DEF G!TypeOK, EditorsHaveRead, G!NoEdit
<1>2. settings' = s /\ unchanged' \in 0..G!Longest
  BY AgesAreNumbers DEF G!Write, G!TypeOK
<1>3. G!TypeOK'
  BY <1>1, <1>2 DEF G!TypeOK
<1>4. \/ unchanged' = 0
      \/ unchanged' = unchanged /\ G!On(settings)' = G!On(settings)
  BY <1>2 DEF G!Write, G!On
<1>5. gate.age \in Nat /\ \A v \in Visitors : visit[v].age \in Nat
  BY AgesAreNumbers DEF G!TypeOK, G!Gate, G!Visit, GateConstants
<1>6. SnapshotsFollow'
  BY <1>4, <1>5 DEF SnapshotsFollow
<1>7. CacheFollows'
  BY <1>4, <1>5 DEF CacheFollows, GateConstants
<1> QED BY <1>1, <1>3, <1>6, <1>7

LEMMA GateEdits ==
    ASSUME GateConstants, GateIInv,
           \/ \E e \in Editors :
                 \/ \E kind \in {"settings", "flags"} : G!BeginEdit(e, kind)
                 \/ \E value \in {"kept", "on", "off"} :
                       G!PutSettings(e, value) \/ G!PutFlags(e, value)
           \/ \E s \in G!Settings : G!UpdateOrganization(s)
           \/ G!SuspendOrganization \/ G!ReactivateOrganization
    PROVE  GateIInv'
<1>0. settings \in G!Settings /\ status \in {"ACTIVE", "SUSPENDED"}
  BY DEF GateIInv, G!TypeOK
<1>1. ASSUME NEW e \in Editors, NEW kind \in {"settings", "flags"}, G!BeginEdit(e, kind)
      PROVE  GateIInv'
  <2>1. [at |-> kind, read |-> settings] \in G!Edit
    BY <1>0 DEF G!Edit
  <2>2. edit' \in [Editors -> G!Edit] /\ EditorsHaveRead'
    BY <1>0, <1>1, <2>1 DEF G!BeginEdit, GateIInv, G!TypeOK, EditorsHaveRead
  <2> QED BY <1>1, <2>2 DEF G!BeginEdit, GateIInv, G!TypeOK, SnapshotsFollow, CacheFollows, G!On
<1>2. ASSUME NEW e \in Editors, NEW value \in {"kept", "on", "off"}, G!PutSettings(e, value)
      PROVE  GateIInv'
  <2>1. edit[e].read \in G!Settings
    BY <1>2 DEF G!PutSettings, GateIInv, EditorsHaveRead
  <2>2. [maintenance |-> G!Merged(edit[e].read, value), rest |-> "sent"] \in G!Settings
    BY <2>1 DEF G!Merged, G!Settings
  <2> QED BY <1>0, <1>2, <2>2, ColumnWritten DEF G!PutSettings
<1>3. ASSUME NEW e \in Editors, NEW value \in {"kept", "on", "off"}, G!PutFlags(e, value)
      PROVE  GateIInv'
  <2>1. edit[e].read \in G!Settings
    BY <1>3 DEF G!PutFlags, GateIInv, EditorsHaveRead
  <2>2. [edit[e].read EXCEPT !.maintenance = G!Merged(edit[e].read, value)] \in G!Settings
    BY <2>1 DEF G!Merged, G!Settings
  <2> QED BY <1>0, <1>3, <2>2, ColumnWritten DEF G!PutFlags
<1>4. ASSUME NEW s \in G!Settings, G!UpdateOrganization(s) PROVE GateIInv'
  BY <1>0, <1>4, ColumnWritten DEF G!UpdateOrganization
<1>5. ASSUME G!SuspendOrganization PROVE GateIInv'
  <2>1. [maintenance |-> "unset", rest |-> "sent"] \in G!Settings
    BY DEF G!Settings
  <2> QED BY <1>5, <2>1, ColumnWritten DEF G!SuspendOrganization
<1>6. ASSUME G!ReactivateOrganization PROVE GateIInv'
  BY <1>6 DEF G!ReactivateOrganization, GateIInv, G!TypeOK, EditorsHaveRead, SnapshotsFollow,
              CacheFollows, G!On
<1> QED BY <1>1, <1>2, <1>3, <1>4, <1>5, <1>6

LEMMA GateAsked ==
    ASSUME GateConstants, GateIInv, NEW v \in Visitors, G!Query(v) \/ G!Snapshot(v) \/ G!Cache(v)
    PROVE  GateIInv'
<1> USE DEF GateIInv
<1>0. \A w \in Visitors : visit[w] \in G!Visit
  BY DEF G!TypeOK
<1>1. CASE G!Query(v)
  <2>1. [at |-> "query", on |-> FALSE, age |-> 0] \in G!Visit
    BY DEF G!Visit, GateConstants
  <2>2. G!TypeOK'
    BY <1>1, <2>1 DEF G!Query, G!TypeOK
  <2> QED BY <1>1, <2>2 DEF G!Query, G!TypeOK, EditorsHaveRead, SnapshotsFollow, CacheFollows, G!On
<1>2. CASE G!Snapshot(v)
  <2> DEFINE next == [visit[v] EXCEPT !.at = "answer", !.on = G!On(settings)]
  <2>1. visit' = [visit EXCEPT ![v] = next]
    BY <1>0, <1>2 DEF G!Snapshot, G!TypeOK, G!Visit
  <2>2. next \in G!Visit /\ next.at = "answer" /\ next.on = G!On(settings)
    BY <1>0 DEF G!Visit, G!On
  <2> HIDE DEF next
  <2>3. UNCHANGED <<settings, status, edit, gate, unchanged>>
    BY <1>2 DEF G!Snapshot
  <2>4. G!TypeOK'
    BY <2>1, <2>2, <2>3 DEF G!TypeOK
  <2>5. EditorsHaveRead' /\ CacheFollows'
    BY <2>3 DEF EditorsHaveRead, CacheFollows, G!On
  <2>6. ASSUME NEW w \in Visitors, visit'[w].at = "answer", unchanged' > visit'[w].age
        PROVE  visit'[w].on = G!On(settings')
    <3>1. CASE w = v
      BY <2>1, <2>2, <2>3, <3>1 DEF G!TypeOK
    <3>2. CASE w # v
      <4>1. visit'[w] = visit[w]
        BY <2>1, <3>2 DEF G!TypeOK
      <4> QED BY <2>3, <2>6, <4>1 DEF SnapshotsFollow
    <3> QED BY <3>1, <3>2
  <2>7. SnapshotsFollow'
    BY <2>6 DEF SnapshotsFollow, G!On
  <2> QED BY <2>4, <2>5, <2>7
<1>3. CASE G!Cache(v)
  <2>1. G!NoVisit \in G!Visit /\ [on |-> visit[v].on, age |-> 0] \in G!Gate
    BY <1>0, AgesAreNumbers DEF G!NoVisit, G!Visit, G!Gate, GateConstants
  <2>2. G!TypeOK'
    BY <1>3, <2>1 DEF G!Cache, G!TypeOK
  <2>3. EditorsHaveRead' /\ SnapshotsFollow'
    BY <1>3 DEF G!Cache, G!TypeOK, EditorsHaveRead, SnapshotsFollow, G!NoVisit, G!On
  <2>4. visit[v].age \in 0..ReadTicks /\ unchanged \in Nat
    BY <1>0, AgesAreNumbers DEF G!Visit, G!TypeOK
  <2>5. unchanged > ReadTicks => visit[v].on = G!On(settings)
    BY <1>3, <2>4 DEF G!Cache, SnapshotsFollow, GateConstants
  <2>6. gate'.on = visit[v].on /\ gate'.age = 0 /\ UNCHANGED <<settings, unchanged>>
    BY <1>3 DEF G!Cache
  <2>7. CacheFollows'
    BY <2>4, <2>5, <2>6 DEF CacheFollows, G!On, GateConstants
  <2> QED BY <2>2, <2>3, <2>7
<1> QED BY <1>1, <1>2, <1>3

LEMMA GateAges ==
    ASSUME GateConstants, GateIInv, G!Tick
    PROVE  GateIInv'
<1> USE DEF GateIInv
<1>1. gate \in G!Gate /\ unchanged \in 0..G!Longest /\ \A w \in Visitors : visit[w] \in G!Visit
  BY DEF G!TypeOK
<1>2. UNCHANGED <<settings, status, edit>> /\ unchanged' = G!Older(unchanged)
  BY DEF G!Tick
<1>3. gate' = [on |-> gate.on, age |-> G!Older(gate.age)]
  BY <1>1 DEF G!Tick, G!Gate
<1>4. ASSUME NEW w \in Visitors
      PROVE  /\ visit'[w] \in G!Visit /\ visit'[w].at = visit[w].at /\ visit'[w].on = visit[w].on
             /\ visit[w].at # "idle" => visit'[w].age = visit[w].age + 1
  <2>1. visit[w].at # "idle" => visit[w].age < ReadTicks
    BY DEF G!Tick
  <2>2. CASE visit[w].at = "idle"
    BY <1>1, <2>2 DEF G!Tick
  <2>3. CASE visit[w].at # "idle"
    <3>1. visit'[w] = [visit[w] EXCEPT !.age = visit[w].age + 1]
      BY <2>3 DEF G!Tick
    <3>2. visit[w].age + 1 \in 0..ReadTicks
      BY <1>1, <2>1, <2>3 DEF G!Visit, GateConstants
    <3> QED BY <1>1, <3>1, <3>2 DEF G!Visit
  <2> QED BY <2>2, <2>3
<1>5. G!TypeOK'
  <2>1. visit' \in [Visitors -> G!Visit]
    BY <1>4 DEF G!Tick
  <2>2. gate' \in G!Gate /\ unchanged' \in 0..G!Longest
    BY <1>1, <1>2, <1>3, AgesAreNumbers DEF G!Gate
  <2> QED BY <1>2, <2>1, <2>2 DEF G!TypeOK
<1>6. EditorsHaveRead'
  BY <1>2 DEF EditorsHaveRead
<1>7. ASSUME NEW w \in Visitors, visit'[w].at = "answer", unchanged' > visit'[w].age
      PROVE  visit'[w].on = G!On(settings')
  <2>1. visit[w].at = "answer" /\ visit'[w].age = visit[w].age + 1 /\ visit[w].age \in 0..ReadTicks
    BY <1>1, <1>4, <1>7 DEF G!Visit
  <2>2. visit[w].age < ReadTicks
    BY <2>1 DEF G!Tick
  <2>3. unchanged > visit[w].age
    BY <1>1, <1>2, <1>7, <2>1, <2>2, AgesAreNumbers DEF GateConstants
  <2> QED BY <1>2, <1>4, <2>1, <2>3 DEF SnapshotsFollow
<1>8. SnapshotsFollow'
  BY <1>7 DEF SnapshotsFollow, G!On
<1>9. CacheFollows'
  <2>1. gate.age \in 0..G!Longest /\ gate'.age = G!Older(gate.age) /\ gate'.on = gate.on
    BY <1>1, <1>3 DEF G!Gate
  <2>2. gate'.age <= CacheTicks /\ unchanged' > gate'.age + ReadTicks =>
           gate.age <= CacheTicks /\ unchanged > gate.age + ReadTicks
    BY <1>1, <1>2, <2>1, AgesAreNumbers DEF GateConstants
  <2> QED BY <1>2, <2>1, <2>2 DEF CacheFollows, G!On
<1> QED BY <1>5, <1>6, <1>8, <1>9

LEMMA GateNext == ASSUME GateConstants, GateIInv, [G!Next]_G!settingsVars PROVE GateIInv'
<1>1. CASE UNCHANGED G!settingsVars
  BY <1>1 DEF G!settingsVars, GateIInv, G!TypeOK, EditorsHaveRead, SnapshotsFollow, CacheFollows, G!On
<1>2. CASE G!Next
  <2>1. CASE G!Restart
    <3>1. G!NoEdit \in G!Edit /\ G!NoVisit \in G!Visit
      BY DEF G!NoEdit, G!Edit, G!NoVisit, G!Visit, GateConstants
    <3>2. G!TypeOK'
      BY <2>1, <3>1, AgesAreNumbers DEF G!Restart, GateIInv, G!TypeOK, G!Gate
    <3>3. EditorsHaveRead' /\ SnapshotsFollow'
      BY <2>1 DEF G!Restart, G!NoEdit, G!NoVisit, EditorsHaveRead, SnapshotsFollow
    <3>4. gate'.age = G!Longest
      BY <2>1 DEF G!Restart, GateIInv, G!TypeOK, G!Gate
    <3>5. CacheFollows'
      BY <3>4, AgesAreNumbers DEF CacheFollows, GateConstants
    <3> QED BY <3>2, <3>3, <3>5 DEF GateIInv
  <2>2. CASE G!Serve
    BY <2>2 DEF G!Serve, G!settingsVars, GateIInv, G!TypeOK, EditorsHaveRead, SnapshotsFollow,
                CacheFollows, G!On
  <2> QED BY <1>2, <2>1, <2>2, GateEdits, GateAsked, GateAges DEF G!Next
<1> QED BY <1>1, <1>2
-----------------------------------------------------------------------------
LEMMA GateStays == ASSUME GateConstants PROVE MCSpec => []GateIInv
<1>1. MCInit => GateIInv
  BY GateInit DEF MCInit
<1>2. GateIInv /\ [MCNext]_vars => GateIInv'
  <2>1. [MCNext]_vars => [G!Next]_G!settingsVars
    BY DEF MCNext, vars, people, organization, G!settingsVars
  <2> QED BY <2>1, GateNext
<1> QED BY <1>1, <1>2, PTL DEF MCSpec

\* For any delays: what the gate serves is behind the column by the age of the
\* cache and one query at most, however edits overlap and lose each other's keys.
THEOREM GateStaysBehind == ASSUME GateConstants PROVE MCSpec => []GateFollows
<1>1. GateIInv => GateFollows
  <2>1. GateIInv => gate.age \in Nat /\ unchanged \in Nat
    BY AgesAreNumbers DEF GateIInv, G!TypeOK, G!Gate
  <2> QED BY <2>1 DEF GateIInv, CacheFollows, GateFollows, G!GateFollows, G!Stale, GateConstants
<1> QED BY <1>1, GateStays, PTL
-----------------------------------------------------------------------------
(***************************************************************************)
(* What a tab believes.  The tabs of a browser share the organisation that *)
(* is written down; with one tab that is the one on display, and a request *)
(* names it whenever it is sent, a second time too.                        *)
(***************************************************************************)
Organisation == Orgs \cup {Null}
TabState ==
    [status: {"loading", "authenticated", "unauthenticated"}, orgs: SUBSET Orgs,
     active: Organisation]
LoadState ==
    [step: {"asked", "answered"}, origin: {"start", "login", "again"},
     token: C!Credential, org: Organisation, orgs: SUBSET Orgs,
     kind: {"none", "ok", "unauthorized", "forbidden", "failed"}]
AskedState ==
    [step: {"asked", "answered"}, token: C!Credential, org: Organisation,
     during: SUBSET Organisation, of: Organisation]

ClientTypes ==
    /\ member \subseteq Orgs /\ granted \in BOOLEAN
    /\ token \in C!Credential /\ chosen \in Organisation
    /\ tab \in [Tabs -> TabState]
    /\ load \in [Tabs -> LoadState \cup {C!NoLoad}]
    /\ asked \in [Tabs -> AskedState \cup {C!NoRequest}]

\* A page asks for something only while its tab has a profile; a tab that starts
\* shows nothing yet.
PagesAskSignedIn == \A t \in Tabs :
    /\ asked[t].step # "idle" => tab[t].status = "authenticated"
    /\ load[t].step # "idle" => (load[t].origin = "start" => tab[t].status = "loading")

\* With one tab, what is written down is on display, and so is what a request names,
\* unless it names none.
Solo == \A t, u \in Tabs : t = u
ChosenIsShown == Solo => \A t \in Tabs :
    /\ tab[t].status = "authenticated" => tab[t].active = chosen
    /\ asked[t].step # "idle" =>
         /\ tab[t].active \in asked[t].during /\ asked[t].org \in asked[t].during
    /\ asked[t].step = "answered" =>
         asked[t].of \in asked[t].during \/ Null \in asked[t].during

ClientIInv == ClientTypes /\ PagesAskSignedIn /\ ChosenIsShown
-----------------------------------------------------------------------------
LEMMA UsualIsOne ==
    ASSUME C!ClientAssumption, NEW orgs \in SUBSET Orgs
    PROVE  C!Usual(orgs) \in Organisation
<1>1. CASE Home \in orgs
  BY <1>1 DEF C!Usual, C!ClientAssumption, Organisation
<1>2. CASE Home \notin orgs /\ orgs = {}
  BY <1>2 DEF C!Usual, Organisation
<1>3. CASE Home \notin orgs /\ orgs # {}
  <2>1. (CHOOSE o \in orgs : TRUE) \in orgs
    BY <1>3
  <2> QED BY <1>3, <2>1 DEF C!Usual, Organisation
<1> QED BY <1>1, <1>2, <1>3

LEMMA GuardAnswers ==
    ASSUME C!ClientAssumption, ClientTypes, NEW credential, NEW org \in Organisation
    PROVE  /\ C!Guarded(credential, org).kind \in {"unauthorized", "forbidden", "ok"}
           /\ C!Guarded(credential, org).kind = "ok" =>
                 /\ C!Guarded(credential, org).of \in Organisation
                 /\ org # Null => C!Guarded(credential, org).of = org
<1>1. C!Usual(member) \in Organisation
  BY UsualIsOne DEF ClientTypes
<1>2. CASE credential # "fresh" \/ ~granted
  BY <1>2 DEF C!Guarded
<1>3. CASE ~(credential # "fresh" \/ ~granted) /\ org # Null /\ org \notin member
  BY <1>3 DEF C!Guarded
<1>4. CASE ~(credential # "fresh" \/ ~granted) /\ ~(org # Null /\ org \notin member)
  BY <1>1, <1>4 DEF C!Guarded
<1> QED BY <1>2, <1>3, <1>4

\* What becomes of a request when its tab shows an organisation.
LEMMA Shown ==
    ASSUME ClientTypes, NEW t \in Tabs, NEW o \in Organisation
    PROVE  /\ C!Displayed(t, o) \in [Tabs -> AskedState \cup {C!NoRequest}]
           /\ \A u \in Tabs : u # t => C!Displayed(t, o)[u] = asked[u]
           /\ C!Displayed(t, o)[t].step = asked[t].step
           /\ asked[t].step # "idle" =>
                /\ C!Displayed(t, o)[t].during = asked[t].during \cup {o}
                /\ C!Displayed(t, o)[t].org = asked[t].org /\ C!Displayed(t, o)[t].of = asked[t].of
<1> DEFINE now == IF asked[t] = C!NoRequest THEN asked[t]
                  ELSE [asked[t] EXCEPT !.during = asked[t].during \cup {o}]
<1>1. C!Displayed(t, o) = [asked EXCEPT ![t] = now]
  BY Zenon DEF C!Displayed
<1>2. asked[t] \in AskedState \cup {C!NoRequest} /\ asked \in [Tabs -> AskedState \cup {C!NoRequest}]
  BY DEF ClientTypes
<1>3. CASE asked[t] = C!NoRequest
  <2>1. now = asked[t] /\ asked[t].step = "idle"
    BY <1>3 DEF C!NoRequest
  <2> QED BY <1>1, <1>2, <2>1
<1>4. CASE asked[t] # C!NoRequest
  <2>1. asked[t] \in AskedState /\ now = [asked[t] EXCEPT !.during = asked[t].during \cup {o}]
    BY <1>2, <1>4
  <2>2. /\ now \in AskedState /\ now.step = asked[t].step
        /\ now.during = asked[t].during \cup {o} /\ now.org = asked[t].org /\ now.of = asked[t].of
    BY <2>1 DEF AskedState
  <2> HIDE DEF now
  <2> QED BY <1>1, <1>2, <2>2
<1> QED BY <1>3, <1>4

LEMMA ClientInit == ASSUME C!ClientAssumption, C!Init PROVE ClientIInv
<1> USE DEF C!Init
<1>1. C!SignedOut \in TabState /\ C!SignedOut.status = "unauthenticated"
  BY DEF C!SignedOut, TabState, Organisation
<1>2. ClientTypes
  BY <1>1 DEF ClientTypes, C!Credential, Organisation
<1>3. PagesAskSignedIn /\ ChosenIsShown
  BY <1>1 DEF PagesAskSignedIn, ChosenIsShown, C!NoRequest, C!NoLoad
<1> QED BY <1>2, <1>3 DEF ClientIInv

\* The account and its session change elsewhere.
LEMMA ClientElsewhere ==
    ASSUME C!ClientAssumption, ClientIInv,
           \/ C!Expire \/ C!Revoke
           \/ \E orgs \in SUBSET Orgs : C!ChangeMember(orgs)
    PROVE  ClientIInv'
<1>1. UNCHANGED <<chosen, tab, load, asked>>
  BY DEF C!Expire, C!Revoke, C!ChangeMember
<1>2. ClientTypes'
  BY <1>1 DEF ClientIInv, ClientTypes, C!Expire, C!Revoke, C!ChangeMember, C!Credential
<1>3. PagesAskSignedIn' /\ ChosenIsShown'
  BY <1>1 DEF ClientIInv, PagesAskSignedIn, ChosenIsShown
<1> QED BY <1>2, <1>3 DEF ClientIInv

\* A profile is asked for, answered or missed.
LEMMA ClientProfile ==
    ASSUME C!ClientAssumption, ClientIInv, NEW t \in Tabs,
           \/ C!OpenTab(t) \/ C!Adopt(t) \/ C!ReadAgain(t)
           \/ C!AnswerProfile(t) \/ C!LoseProfile(t) \/ C!MissProfile(t)
    PROVE  ClientIInv'
<1> USE DEF ClientIInv
<1>1. ASSUME NEW origin \in {"start", "login", "again"}, NEW credential \in C!Credential
      PROVE  /\ C!Reading(origin, credential) \in LoadState
             /\ C!Reading(origin, credential).origin = origin
  BY DEF C!Reading, LoadState, ClientTypes
<1>2. /\ C!SignedOut \in TabState /\ C!SignedOut.status = "unauthenticated"
      /\ C!Loading \in TabState /\ C!Loading.status = "loading"
      /\ C!NoLoad.step = "idle" /\ C!NoRequest.step = "idle"
  BY DEF C!SignedOut, C!Loading, C!NoLoad, C!NoRequest, TabState, Organisation
<1>3. /\ tab \in [Tabs -> TabState] /\ load \in [Tabs -> LoadState \cup {C!NoLoad}]
      /\ asked \in [Tabs -> AskedState \cup {C!NoRequest}] /\ token \in C!Credential
  BY DEF ClientTypes
<1>4. CASE C!OpenTab(t)
  <2>1. PICK view \in {C!SignedOut, C!Loading}, read \in LoadState \cup {C!NoLoad} :
           /\ tab' = [tab EXCEPT ![t] = view] /\ load' = [load EXCEPT ![t] = read]
           /\ read = C!NoLoad \/ view = C!Loading
    BY <1>1, <1>3, <1>4 DEF C!OpenTab
  <2>2. asked' = [asked EXCEPT ![t] = C!NoRequest] /\ UNCHANGED <<member, granted, token, chosen>>
    BY <1>4 DEF C!OpenTab
  <2>3. view \in TabState /\ view.status # "authenticated"
    BY <1>2, <2>1
  <2>4. ClientTypes'
    BY <1>3, <2>1, <2>2, <2>3 DEF ClientTypes
  <2>5. /\ \A u \in Tabs : u # t => tab'[u] = tab[u] /\ load'[u] = load[u] /\ asked'[u] = asked[u]
        /\ tab'[t] = view /\ load'[t] = read /\ asked'[t] = C!NoRequest
    BY <1>3, <2>1, <2>2
  <2>6. PagesAskSignedIn'
    BY <1>2, <2>1, <2>5 DEF PagesAskSignedIn
  <2>7. ChosenIsShown'
    BY <1>2, <2>2, <2>3, <2>5 DEF ChosenIsShown, Solo
  <2> QED BY <2>4, <2>6, <2>7
<1>5. CASE C!Adopt(t) \/ C!ReadAgain(t)
  <2>1. PICK read \in LoadState : load' = [load EXCEPT ![t] = read] /\ read.origin # "start"
    <3>1. "fresh" \in C!Credential
      BY DEF C!Credential
    <3>2. CASE C!Adopt(t)
      BY <1>1, <3>1, <3>2 DEF C!Adopt
    <3>3. CASE C!ReadAgain(t)
      BY <1>1, <1>3, <3>3 DEF C!ReadAgain
    <3> QED BY <1>5, <3>2, <3>3
  <2>2. UNCHANGED <<member, chosen, tab, asked>>
    BY <1>5 DEF C!Adopt, C!ReadAgain
  <2>3. granted' \in BOOLEAN /\ token' \in C!Credential
    BY <1>5, <1>3 DEF C!Adopt, C!ReadAgain, C!Credential, ClientTypes
  <2>4. ClientTypes'
    BY <1>3, <2>1, <2>2, <2>3 DEF ClientTypes
  <2>5. \A u \in Tabs : load'[u] = IF u = t THEN read ELSE load[u]
    BY <1>3, <2>1
  <2>6. PagesAskSignedIn'
    BY <2>1, <2>2, <2>5 DEF PagesAskSignedIn
  <2>7. ChosenIsShown'
    BY <2>2 DEF ChosenIsShown
  <2> QED BY <2>4, <2>6, <2>7
<1>6. CASE C!AnswerProfile(t) \/ C!LoseProfile(t)
  <2>1. load[t].step = "asked" /\ load[t] \in LoadState
    BY <1>3, <1>6 DEF C!AnswerProfile, C!LoseProfile, C!NoLoad
  <2>2. PICK k \in {"unauthorized", "forbidden", "ok", "failed"}, orgs \in SUBSET Orgs :
           load' = [load EXCEPT ![t] = [load[t] EXCEPT !.step = "answered", !.kind = k, !.orgs = orgs]]
    <3>1. CASE C!AnswerProfile(t)
      <4> DEFINE reply == C!Guarded(load[t].token, load[t].org)
                 orgs == IF reply.kind = "ok" THEN member ELSE {}
      <4>1. load' = [load EXCEPT ![t] = [load[t] EXCEPT !.step = "answered", !.kind = reply.kind, !.orgs = orgs]]
        BY <3>1 DEF C!AnswerProfile
      <4>2. load[t].org \in Organisation
        BY <2>1 DEF LoadState
      <4>3. reply.kind \in {"unauthorized", "forbidden", "ok"}
        BY <4>2, GuardAnswers
      <4>4. orgs \in SUBSET Orgs
        BY DEF ClientTypes
      <4> HIDE DEF reply, orgs
      <4> QED BY <4>1, <4>3, <4>4
    <3>2. CASE C!LoseProfile(t)
      <4>1. load' = [load EXCEPT ![t] = [load[t] EXCEPT !.step = "answered", !.kind = "failed"]]
        BY <3>2 DEF C!LoseProfile
      <4>2. [load[t] EXCEPT !.step = "answered", !.kind = "failed", !.orgs = load[t].orgs]
               = [load[t] EXCEPT !.step = "answered", !.kind = "failed"] /\ load[t].orgs \in SUBSET Orgs
        BY <2>1 DEF LoadState
      <4> QED BY <4>1, <4>2
    <3> QED BY <1>6, <3>1, <3>2
  <2> DEFINE read == [load[t] EXCEPT !.step = "answered", !.kind = k, !.orgs = orgs]
  <2>3. read \in LoadState /\ read.origin = load[t].origin
    BY <2>1 DEF LoadState
  <2>4. UNCHANGED <<member, granted, token, chosen, tab, asked>>
    BY <1>6 DEF C!AnswerProfile, C!LoseProfile
  <2>5. load' = [load EXCEPT ![t] = read]
    BY <2>2
  <2> HIDE DEF read
  <2>6. ClientTypes'
    BY <1>3, <2>3, <2>4, <2>5 DEF ClientTypes
  <2>7. \A u \in Tabs : load'[u] = IF u = t THEN read ELSE load[u]
    BY <1>3, <2>5
  <2>8. PagesAskSignedIn'
    BY <2>1, <2>3, <2>4, <2>7 DEF PagesAskSignedIn
  <2>9. ChosenIsShown'
    BY <2>4 DEF ChosenIsShown
  <2> QED BY <2>6, <2>8, <2>9
<1>7. CASE C!MissProfile(t)
  <2>1. /\ load[t].step = "answered" /\ load' = [load EXCEPT ![t] = C!NoLoad]
        /\ UNCHANGED <<member, granted, chosen, asked>>
    BY <1>7 DEF C!MissProfile
  <2>2. token' \in C!Credential
    BY <1>3, <1>7 DEF C!MissProfile, C!Credential
  <2>3. PICK view \in TabState :
           /\ tab' = [tab EXCEPT ![t] = view]
           /\ view = tab[t] \/ (load[t].origin = "start" /\ view = C!SignedOut)
    <3>1. tab' = [tab EXCEPT ![t] = IF load[t].origin = "start" THEN C!SignedOut ELSE tab[t]]
      BY <1>7 DEF C!MissProfile
    <3> QED BY <1>2, <1>3, <3>1
  <2>4. ClientTypes'
    BY <1>3, <2>1, <2>2, <2>3 DEF ClientTypes
  <2>5. /\ \A u \in Tabs : u # t => tab'[u] = tab[u] /\ load'[u] = load[u]
        /\ tab'[t] = view /\ load'[t] = C!NoLoad
    BY <1>3, <2>1, <2>3
  <2>6. view = C!SignedOut => asked[t].step = "idle" \/ view = tab[t]
    BY <2>1, <2>3 DEF PagesAskSignedIn
  <2>7. PagesAskSignedIn'
    BY <1>2, <2>1, <2>3, <2>5, <2>6 DEF PagesAskSignedIn
  <2>8. ChosenIsShown'
    BY <1>2, <2>1, <2>3, <2>5, <2>6 DEF ChosenIsShown
  <2> QED BY <2>4, <2>7, <2>8
<1> QED BY <1>4, <1>5, <1>6, <1>7

\* Another organisation comes on display and is written down, or none.
LEMMA ClientShows ==
    ASSUME C!ClientAssumption, ClientIInv, NEW t \in Tabs,
           \/ C!TakeProfile(t)
           \/ \E o \in Orgs : C!SwitchOrganization(t, o)
    PROVE  ClientIInv'
<1> USE DEF ClientIInv
<1>1. /\ tab \in [Tabs -> TabState] /\ load \in [Tabs -> LoadState \cup {C!NoLoad}]
      /\ asked \in [Tabs -> AskedState \cup {C!NoRequest}]
  BY DEF ClientTypes
<1>2. PICK o \in Organisation, view \in TabState, read \in LoadState \cup {C!NoLoad} :
         /\ view.status = "authenticated" /\ view.active = o
         /\ chosen' = o /\ tab' = [tab EXCEPT ![t] = view] /\ asked' = C!Displayed(t, o)
         /\ load' = [load EXCEPT ![t] = read]
         /\ read = C!NoLoad \/ (read = load[t] /\ tab[t].status = "authenticated")
  <2>1. CASE C!TakeProfile(t)
    <3>1. load[t] \in LoadState
      BY <1>1, <2>1 DEF C!TakeProfile, C!NoLoad
    <3> DEFINE o == C!Valid(load[t].orgs)
               view == [status |-> "authenticated", orgs |-> load[t].orgs, active |-> o]
    <3>2. load[t].orgs \in SUBSET Orgs
      BY <3>1 DEF LoadState
    <3>3. o \in Organisation
      BY <3>2, UsualIsOne DEF C!Valid, ClientTypes
    <3>4. /\ tab' = [tab EXCEPT ![t] = view] /\ chosen' = o
          /\ load' = [load EXCEPT ![t] = C!NoLoad] /\ asked' = C!Displayed(t, chosen')
      BY <2>1 DEF C!TakeProfile
    <3> HIDE DEF o
    <3>5. view \in TabState /\ view.status = "authenticated" /\ view.active = o
      BY <3>2, <3>3 DEF TabState
    <3> HIDE DEF view
    <3>6. asked' = C!Displayed(t, o)
      BY <3>4
    <3> QED BY <3>3, <3>4, <3>5, <3>6
  <2>2. ASSUME NEW o \in Orgs, C!SwitchOrganization(t, o)
        PROVE  \E view \in TabState, read \in LoadState \cup {C!NoLoad} :
                 /\ view.status = "authenticated" /\ view.active = o
                 /\ chosen' = o /\ tab' = [tab EXCEPT ![t] = view] /\ asked' = C!Displayed(t, o)
                 /\ load' = [load EXCEPT ![t] = read]
                 /\ read = load[t] /\ tab[t].status = "authenticated"
    <3> DEFINE view == [tab[t] EXCEPT !.active = o]
    <3>1. /\ tab[t].status = "authenticated" /\ chosen' = o
          /\ tab' = [tab EXCEPT ![t] = view] /\ asked' = C!Displayed(t, o) /\ load' = load
      BY <2>2 DEF C!SwitchOrganization
    <3>2. view \in TabState /\ view.status = "authenticated" /\ view.active = o
      BY <1>1, <3>1 DEF TabState, Organisation
    <3> HIDE DEF view
    <3>3. load[t] \in LoadState \cup {C!NoLoad} /\ load' = [load EXCEPT ![t] = load[t]]
      BY <1>1, <3>1
    <3> QED BY <3>1, <3>2, <3>3
  <2> QED BY <2>1, <2>2 DEF Organisation
<1>3. UNCHANGED <<member, granted, token>>
  BY DEF C!TakeProfile, C!SwitchOrganization
<1>4. ClientTypes'
  <2>1. C!Displayed(t, o) \in [Tabs -> AskedState \cup {C!NoRequest}]
    BY Shown
  <2> QED BY <1>1, <1>2, <1>3, <2>1 DEF ClientTypes
<1>5. /\ \A u \in Tabs : u # t => /\ tab'[u] = tab[u] /\ load'[u] = load[u]
                                  /\ asked'[u] = asked[u]
      /\ tab'[t] = view /\ load'[t] = read /\ asked'[t].step = asked[t].step
  <2>1. /\ \A u \in Tabs : u # t => C!Displayed(t, o)[u] = asked[u]
        /\ C!Displayed(t, o)[t].step = asked[t].step
    BY Shown
  <2>2. /\ \A u \in Tabs : u # t => asked'[u] = asked[u]
        /\ asked'[t].step = asked[t].step
    BY <1>2, <2>1
  <2> QED BY <1>1, <1>2, <2>2
<1>6. PagesAskSignedIn'
  <2>1. C!NoLoad.step = "idle"
    BY DEF C!NoLoad
  <2> QED BY <1>2, <1>5, <2>1 DEF PagesAskSignedIn
<1>7. ChosenIsShown'
  <2> SUFFICES ASSUME Solo
               PROVE  /\ tab'[t].active = chosen'
                      /\ asked'[t].step # "idle" =>
                           /\ tab'[t].active \in asked'[t].during
                           /\ asked'[t].org \in asked'[t].during
                      /\ asked'[t].step = "answered" =>
                           asked'[t].of \in asked'[t].during \/ Null \in asked'[t].during
    BY DEF ChosenIsShown, Solo
  <2>1. asked[t].step # "idle" =>
          /\ asked'[t].during = asked[t].during \cup {o}
          /\ asked'[t].org = asked[t].org /\ asked'[t].of = asked[t].of
    BY <1>2, Shown
  <2> QED BY <1>2, <1>5, <2>1 DEF ChosenIsShown
<1> QED BY <1>4, <1>6, <1>7

LEMMA ClientPages ==
    ASSUME C!ClientAssumption, ClientIInv, NEW t \in Tabs,
           \/ \E heard \in BOOLEAN : C!Logout(t, heard)
           \/ C!Send(t) \/ C!Answer(t) \/ C!AnswerUnauthorized(t) \/ C!Show(t)
    PROVE  ClientIInv'
<1> USE DEF ClientIInv
<1>1. /\ tab \in [Tabs -> TabState] /\ load \in [Tabs -> LoadState \cup {C!NoLoad}]
      /\ asked \in [Tabs -> AskedState \cup {C!NoRequest}] /\ token \in C!Credential
      /\ chosen \in Organisation /\ C!NoRequest.step = "idle"
  BY DEF ClientTypes, C!NoRequest
<1>2. ASSUME NEW next \in AskedState \cup {C!NoRequest}, asked' = [asked EXCEPT ![t] = next],
             UNCHANGED <<member, granted, chosen, tab, load>>, token' \in C!Credential,
             next.step # "idle" => tab[t].status = "authenticated",
             Solo /\ next.step # "idle" => /\ tab[t].active \in next.during
                                            /\ next.org \in next.during,
             Solo /\ next.step = "answered" => next.of \in next.during \/ Null \in next.during
      PROVE  ClientIInv'
  <2>1. \A u \in Tabs : asked'[u] = IF u = t THEN next ELSE asked[u]
    BY <1>1, <1>2
  <2>2. ClientTypes'
    BY <1>1, <1>2 DEF ClientTypes
  <2>3. PagesAskSignedIn'
    BY <1>2, <2>1 DEF PagesAskSignedIn
  <2>4. ChosenIsShown'
    BY <1>2, <2>1 DEF ChosenIsShown
  <2> QED BY <2>2, <2>3, <2>4
<1>3. ASSUME NEW heard \in BOOLEAN, C!Logout(t, heard)
      PROVE  ClientIInv'
  <2>1. /\ granted' = (granted /\ ~heard) /\ token' = "none" /\ chosen' = Null
        /\ tab' = [tab EXCEPT ![t] = C!SignedOut] /\ asked' = [asked EXCEPT ![t] = C!NoRequest]
        /\ tab[t].status = "authenticated" /\ UNCHANGED <<member, load>>
    BY <1>3 DEF C!Logout
  <2>2. C!SignedOut \in TabState /\ C!SignedOut.status = "unauthenticated"
    BY DEF C!SignedOut, TabState, Organisation
  <2>3. granted' \in BOOLEAN /\ token' \in C!Credential /\ chosen' \in Organisation
    BY <2>1 DEF C!Credential, Organisation
  <2>4. ClientTypes'
    BY <1>1, <2>1, <2>2, <2>3 DEF ClientTypes
  <2>5. /\ \A u \in Tabs : u # t => tab'[u] = tab[u] /\ asked'[u] = asked[u]
        /\ tab'[t] = C!SignedOut /\ asked'[t] = C!NoRequest
    BY <1>1, <2>1
  <2>6. PagesAskSignedIn'
    BY <1>1, <2>1, <2>5 DEF PagesAskSignedIn
  <2>7. ChosenIsShown'
    BY <1>1, <2>2, <2>5 DEF ChosenIsShown, Solo
  <2> QED BY <2>4, <2>6, <2>7
<1>4. CASE C!Send(t)
  <2> DEFINE next == [step |-> "asked", token |-> token, org |-> chosen,
                      during |-> {tab[t].active}, of |-> Null]
  <2>1. /\ tab[t].status = "authenticated" /\ asked' = [asked EXCEPT ![t] = next]
        /\ UNCHANGED <<member, granted, token, chosen, tab, load>>
    BY <1>4 DEF C!Send
  <2>2. tab[t].active \in Organisation
    BY <1>1 DEF TabState
  <2>3. next \in AskedState
    BY <1>1, <2>2 DEF AskedState, Organisation
  <2>4. /\ next.step = "asked" /\ next.org = chosen /\ next.during = {tab[t].active}
    OBVIOUS
  <2>5. Solo => tab[t].active = chosen
    BY <2>1 DEF ChosenIsShown
  <2> HIDE DEF next
  <2> QED BY <1>1, <1>2, <2>1, <2>3, <2>4, <2>5
<1>5. CASE C!Answer(t)
  <2> DEFINE reply == C!Guarded(asked[t].token, asked[t].org)
             next == IF reply.kind = "ok" THEN [asked[t] EXCEPT !.step = "answered", !.of = reply.of]
                     ELSE C!NoRequest
  <2>1. /\ asked[t].step = "asked" /\ asked' = [asked EXCEPT ![t] = next]
        /\ UNCHANGED <<member, granted, token, chosen, tab, load>>
    BY <1>5 DEF C!Answer
  <2>2. asked[t] \in AskedState /\ tab[t].status = "authenticated"
    BY <1>1, <2>1 DEF PagesAskSignedIn
  <2>3. asked[t].org \in Organisation
    BY <2>2 DEF AskedState
  <2>4. reply.kind = "ok" => reply.of \in Organisation /\ (asked[t].org # Null => reply.of = asked[t].org)
    BY <2>3, GuardAnswers
  <2> HIDE DEF reply
  <2>5. CASE reply.kind = "ok"
    <3>1. /\ next \in AskedState /\ next.during = asked[t].during
          /\ next.org = asked[t].org /\ next.of = reply.of /\ next.step = "answered"
      BY <2>2, <2>4, <2>5 DEF AskedState
    <3>2. Solo => tab[t].active \in asked[t].during /\ asked[t].org \in asked[t].during
      BY <2>1 DEF ChosenIsShown
    <3>3. Solo => next.of \in next.during \/ Null \in next.during
      BY <2>4, <2>5, <3>1, <3>2
    <3> HIDE DEF next
    <3> QED BY <1>1, <1>2, <2>1, <2>2, <3>1, <3>2, <3>3
  <2>6. CASE reply.kind # "ok"
    <3>1. next = C!NoRequest
      BY <2>6
    <3> HIDE DEF next
    <3> QED BY <1>1, <1>2, <2>1, <3>1
  <2> QED BY <2>5, <2>6
<1>6. CASE C!AnswerUnauthorized(t)
  <2> DEFINE next == IF granted /\ token # "none"
                       THEN [asked[t] EXCEPT !.token = "fresh", !.org = chosen] ELSE C!NoRequest
  <2>1. /\ asked[t].step = "asked" /\ asked' = [asked EXCEPT ![t] = next]
        /\ UNCHANGED <<member, granted, chosen, tab, load>>
    BY <1>6 DEF C!AnswerUnauthorized
  <2>2. token' \in C!Credential
    BY <1>1, <1>6 DEF C!AnswerUnauthorized, C!Credential
  <2>3. asked[t] \in AskedState /\ tab[t].status = "authenticated"
    BY <1>1, <2>1 DEF PagesAskSignedIn
  <2>4. CASE granted /\ token # "none"
    <3>1. /\ next \in AskedState /\ next.during = asked[t].during
          /\ next.org = chosen /\ next.step = "asked"
      BY <1>1, <2>1, <2>3, <2>4 DEF AskedState, C!Credential
    <3>2. Solo => tab[t].active \in asked[t].during /\ tab[t].active = chosen
      BY <2>1, <2>3 DEF ChosenIsShown
    <3> HIDE DEF next
    <3> QED BY <1>2, <2>1, <2>2, <2>3, <3>1, <3>2
  <2>5. CASE ~(granted /\ token # "none")
    <3>1. next = C!NoRequest
      BY <2>5
    <3> HIDE DEF next
    <3> QED BY <1>1, <1>2, <2>1, <2>2, <3>1
  <2> QED BY <2>4, <2>5
<1>7. CASE C!Show(t)
  <2>1. /\ asked' = [asked EXCEPT ![t] = C!NoRequest]
        /\ UNCHANGED <<member, granted, token, chosen, tab, load>>
    BY <1>7 DEF C!Show
  <2> QED BY <1>1, <1>2, <2>1
<1> QED BY <1>3, <1>4, <1>5, <1>6, <1>7

LEMMA ClientNext == ASSUME C!ClientAssumption, ClientIInv, [C!Next]_client PROVE ClientIInv'
<1>1. CASE UNCHANGED client
  BY <1>1 DEF client, ClientIInv, ClientTypes, PagesAskSignedIn, ChosenIsShown
<1>2. CASE C!Next
  BY <1>2, ClientElsewhere, ClientProfile, ClientShows, ClientPages DEF C!Next
<1> QED BY <1>1, <1>2

LEMMA ClientStays == ASSUME C!ClientAssumption PROVE MCSpec => []ClientIInv
<1>1. MCInit => ClientIInv
  BY ClientInit DEF MCInit
<1>2. ClientIInv /\ [MCNext]_vars => ClientIInv'
  <2>1. [MCNext]_vars => [C!Next]_client
    BY DEF MCNext, vars, browser
  <2> QED BY <2>1, ClientNext
<1> QED BY <1>1, <1>2, PTL DEF MCSpec

\* With one tab, what a page shows belongs to an organisation that was on display
\* while the page waited for it, unless none was: through sign-ins, switches,
\* refreshes, reloads and changes of the memberships.
THEOREM PagesAnswerForSelection ==
    ASSUME C!ClientAssumption, Solo PROVE MCSpec => []AnsweredForSelection
<1>1. ClientIInv => AnsweredForSelection
  BY DEF ClientIInv, ChosenIsShown, AnsweredForSelection, C!AnsweredForSelection
<1> QED BY <1>1, ClientStays, PTL
-----------------------------------------------------------------------------
(***************************************************************************)
(* The bell.  The stream sends the count only when it differs and a row    *)
(* only when it is new, so what it keeps silent about has to follow from   *)
(* what it said before.  Unless it acts in an odd order one tick at a time *)
(* is under way, and nothing changes between its two answers.              *)
(***************************************************************************)
BellConstants == MaxRows \in Nat

BellState ==
    [shown: SUBSET B!Rows, loaded: BOOLEAN, fetch: {"idle", "asked", "answered"},
     brings: SUBSET B!Rows, due: BOOLEAN, late: BOOLEAN]
Count == Cardinality(unread)
TickState ==
    [step: {"asking"}, count: 0..MaxRows, latest: 0..MaxRows, counted: BOOLEAN, found: BOOLEAN]

BellTypes ==
    /\ B!TypeOK
    /\ tick \in [Ticks -> TickState \cup {B!Idle}]
    /\ announced \in [B!Rows -> Nat]
    /\ ~stream.up => stream = B!Closed
    /\ \A k \in Ticks : tick[k] # B!Idle => stream.up

OneTick == \A j, k \in Ticks : tick[j] # B!Idle /\ tick[k] # B!Idle => j = k

\* What was announced is known to the stream, or to the tick that asks.
AnnouncedOfKnown == \A r \in B!Rows : announced[r] # 0 =>
    /\ announced[r] = 1 /\ r <= rows
    /\ stream.lastUnread # 0 => r <= stream.lastCreated

\* What a tick has found reaches as far as the rows it has seen, or the stream
\* was as far before.
TicksFollow == \A k \in Ticks : tick[k] # B!Idle =>
    /\ tick[k].latest # 0 => tick[k].found /\ stream.lastCreated < tick[k].latest
    /\ tick[k].found => \A r \in B!Rows : announced[r] # 0 =>
         r <= tick[k].latest \/ r <= stream.lastCreated
    /\ tick[k].counted /\ ~tick[k].found => tick[k].count = Count
    /\ tick[k].found /\ ~tick[k].counted => rows <= tick[k].latest \/ rows <= stream.lastCreated
    /\ tick[k].counted /\ tick[k].found /\ (rows <= tick[k].latest \/ rows <= stream.lastCreated)
         => Count <= tick[k].count

\* A tick that was asked since the last change knows the rows as they are.
NewsFollows ==
    /\ news # "changed" => \A k \in Ticks : tick[k] # B!Idle =>
         /\ tick[k].counted => tick[k].count = Count
         /\ tick[k].found => rows <= tick[k].latest \/ rows <= stream.lastCreated
    /\ news = "seen" => stream.lastUnread = Count + 1 /\ rows <= stream.lastCreated

\* As long as no row is new the unread rows are among those that were unread when
\* the browser's list was read, and these are no more than it was told of.
Complete(shown) == \E whole \in SUBSET B!Rows :
    shown = B!Newest(whole) /\ unread \subseteq whole /\ Cardinality(whole) + 1 <= stream.lastUnread
BellFollows == stream.lastUnread # 0 /\ rows <= stream.lastCreated =>
    /\ Count + 1 <= stream.lastUnread
    /\ ~told /\ ~bell.late /\ bell.fetch = "answered" => Complete(bell.brings)
    /\ ~told /\ ~bell.late /\ bell.fetch = "idle" /\ ~bell.due => Complete(bell.shown)

InOrder == OneTick /\ AnnouncedOfKnown /\ TicksFollow /\ NewsFollows /\ BellFollows
BellIInv == BellTypes /\ (odd \/ InOrder)
-----------------------------------------------------------------------------
LEMMA BellNumbers ==
    ASSUME BellConstants, BellTypes
    PROVE  /\ IsFiniteSet(B!Rows) /\ IsFiniteSet(unread) /\ Count \in 0..MaxRows
           /\ \A s \in SUBSET B!Rows : IsFiniteSet(s) /\ Cardinality(s) \in 0..MaxRows
           /\ rows \in 0..MaxRows /\ unread \subseteq B!Rows /\ young \subseteq B!Rows
           /\ B!Cardinality(unread) = Count
<1>1. rows \in 0..MaxRows /\ unread \subseteq 1..rows /\ young \subseteq 1..rows
  BY DEF BellTypes, B!TypeOK
<1>2. unread \subseteq B!Rows /\ young \subseteq B!Rows
  BY <1>1 DEF B!Rows, BellConstants
<1>3. IsFiniteSet(B!Rows) /\ Cardinality(B!Rows) = MaxRows
  BY FS_Interval DEF B!Rows, BellConstants
<1>4. ASSUME NEW s \in SUBSET B!Rows
      PROVE  IsFiniteSet(s) /\ Cardinality(s) \in 0..MaxRows
  <2>1. IsFiniteSet(s) /\ Cardinality(s) <= MaxRows
    BY <1>3, FS_Subset
  <2>2. Cardinality(s) \in Nat
    BY <2>1, FS_CardinalityType
  <2> QED BY <2>1, <2>2 DEF BellConstants
<1> QED BY <1>1, <1>2, <1>3, <1>4 DEF Count, B!Cardinality, Cardinality

LEMMA BellInit == ASSUME BellConstants, B!Init PROVE BellIInv
<1> USE DEF B!Init, BellConstants
<1>1. BellTypes
  <2>1. B!Closed \in [up: BOOLEAN, lastUnread: 0..MaxRows + 1, lastCreated: 0..0] /\ ~B!Closed.up
    BY DEF B!Closed
  <2>2. /\ announced \in [B!Rows -> Nat] /\ tick \in [Ticks -> TickState \cup {B!Idle}]
        /\ \A k \in Ticks : tick[k] = B!Idle
    OBVIOUS
  <2>3. bell \in [shown: SUBSET B!Rows, loaded: BOOLEAN, fetch: {"idle", "asked", "answered"},
                  brings: SUBSET B!Rows, due: BOOLEAN, late: BOOLEAN]
    OBVIOUS
  <2>4. \A r \in B!Rows : announced[r] \in Nat
    BY <2>2
  <2>5. rows \in 0..MaxRows /\ unread \subseteq 1..rows /\ young \subseteq 1..rows
    OBVIOUS
  <2>6. B!TypeOK
    BY <2>1, <2>2, <2>3, <2>4, <2>5 DEF B!TypeOK
  <2> QED BY <2>2, <2>6 DEF BellTypes
<1>2. OneTick /\ TicksFollow
  BY DEF OneTick, TicksFollow
<1>3. AnnouncedOfKnown /\ NewsFollows /\ BellFollows
  BY DEF AnnouncedOfKnown, NewsFollows, BellFollows, B!Closed
<1> QED BY <1>1, <1>2, <1>3 DEF BellIInv, InOrder

\* The rows of the user: a change is seen by no tick, or by all it asks.
LEMMA BellRows ==
    ASSUME BellConstants, BellIInv, ~odd,
           \/ B!Create
           \/ \E r \in B!Rows : B!GrowOld(r)
           \/ \E here \in BOOLEAN : B!MarkRead(unread, here) \/ \E r \in unread : B!MarkRead({r}, here)
    PROVE  BellIInv'
<1> USE DEF BellConstants
<1>1. BellTypes /\ InOrder
  BY DEF BellIInv
<1>2. /\ rows \in 0..MaxRows /\ unread \subseteq 1..rows /\ young \subseteq 1..rows
      /\ stream \in [up: BOOLEAN, lastUnread: 0..MaxRows + 1, lastCreated: 0..rows]
      /\ tick \in [Ticks -> TickState \cup {B!Idle}]
      /\ announced \in [B!Rows -> Nat] /\ news \in {"changed", "asked", "seen"}
  BY <1>1 DEF BellTypes, B!TypeOK
<1>3. CASE B!Create
  <2>1. /\ rows < MaxRows /\ rows' = rows + 1
        /\ unread' = unread \cup {rows + 1} /\ young' = young \cup {rows + 1}
        /\ news' = "changed" /\ odd' = (odd \/ B!HalfAnswered)
        /\ UNCHANGED <<stream, tick, told, own, bell, announced>>
    BY <1>3 DEF B!Create
  <2>2. /\ rows' \in 0..MaxRows /\ unread' \subseteq 1..rows' /\ young' \subseteq 1..rows'
        /\ stream' \in [up: BOOLEAN, lastUnread: 0..MaxRows + 1, lastCreated: 0..rows']
    BY <1>2, <2>1
  <2>3. odd' \in BOOLEAN
    BY <2>1
  <2>4. B!TypeOK'
    <3>1. \A k \in Ticks :
            \/ tick[k] = B!Idle
            \/ tick[k] \in [step: {"asking"}, count: 0..MaxRows, latest: 0..rows',
                            counted: BOOLEAN, found: BOOLEAN]
      BY <1>1, <1>2, <2>1 DEF BellTypes, B!TypeOK
    <3> QED BY <1>1, <2>1, <2>2, <2>3, <3>1 DEF BellTypes, B!TypeOK
  <2>5. BellTypes'
    BY <1>1, <2>1, <2>4 DEF BellTypes
  <2>6. ASSUME ~B!HalfAnswered
        PROVE  InOrder'
    <3>1. \A k \in Ticks : tick[k] # B!Idle => (tick[k].counted <=> tick[k].found)
      BY <1>2, <2>6 DEF B!HalfAnswered, TickState
    <3>2. OneTick'
      BY <1>1, <2>1 DEF InOrder, OneTick
    <3>3. AnnouncedOfKnown'
      BY <1>1, <1>2, <2>1 DEF InOrder, AnnouncedOfKnown, B!Rows
    <3>4. TicksFollow'
      <4> SUFFICES ASSUME NEW k \in Ticks, tick[k] # B!Idle
                   PROVE  /\ tick[k].latest # 0 => tick[k].found /\ stream.lastCreated < tick[k].latest
                          /\ tick[k].found => \A r \in B!Rows : announced[r] # 0 =>
                               r <= tick[k].latest \/ r <= stream.lastCreated
                          /\ ~(tick[k].counted /\ ~tick[k].found)
                          /\ ~(tick[k].found /\ ~tick[k].counted)
                          /\ ~(rows + 1 <= tick[k].latest \/ rows + 1 <= stream.lastCreated)
        BY <2>1 DEF TicksFollow
      <4>1. tick[k].latest \in 0..rows
        BY <1>1 DEF BellTypes, B!TypeOK
      <4> QED BY <1>1, <1>2, <3>1, <4>1 DEF InOrder, TicksFollow
    <3>5. NewsFollows'
      BY <2>1 DEF NewsFollows
    <3>6. BellFollows'
      BY <1>2, <2>1 DEF BellFollows
    <3> QED BY <3>2, <3>3, <3>4, <3>5, <3>6 DEF InOrder
  <2> QED BY <2>1, <2>5, <2>6 DEF BellIInv
<1>4. ASSUME NEW r \in B!Rows, B!GrowOld(r)
      PROVE  BellIInv'
  <2>1. /\ young' = young \ {r}
        /\ UNCHANGED <<rows, unread, stream, tick, told, own, bell, announced, news, odd>>
    BY <1>4 DEF B!GrowOld
  <2>2. BellTypes'
    BY <1>1, <2>1 DEF BellTypes, B!TypeOK
  <2>3. InOrder'
    BY <1>1, <2>1 DEF InOrder, OneTick, AnnouncedOfKnown, TicksFollow, NewsFollows, BellFollows, Complete, Count
  <2> QED BY <2>2, <2>3 DEF BellIInv
<1>5. ASSUME NEW read \in SUBSET unread, NEW here \in BOOLEAN, B!MarkRead(read, here)
      PROVE  BellIInv'
  <2>1. /\ unread' = unread \ read /\ own' = (own \/ here) /\ odd' = (odd \/ B!HalfAnswered)
        /\ news' = "changed" /\ UNCHANGED <<rows, young, stream, tick, told, bell, announced>>
    BY <1>5 DEF B!MarkRead
  <2>2. odd' \in BOOLEAN /\ own' \in BOOLEAN
    BY <2>1
  <2>3. BellTypes'
    BY <1>1, <2>1, <2>2 DEF BellTypes, B!TypeOK
  <2>4. unread' \subseteq unread /\ Count' \in Nat /\ Count \in Nat /\ Count' <= Count
    <3>1. IsFiniteSet(unread) /\ Count \in Nat
      BY <1>1, BellNumbers
    <3>2. unread' \subseteq unread
      BY <2>1
    <3>3. PICK left : left = unread'
      OBVIOUS
    <3>4. IsFiniteSet(left) /\ Cardinality(left) <= Cardinality(unread) /\ Cardinality(left) \in Nat
      BY <3>1, <3>2, <3>3, FS_Subset, FS_CardinalityType
    <3> QED BY <3>1, <3>2, <3>3, <3>4 DEF Count
  <2>5. ASSUME ~B!HalfAnswered
        PROVE  InOrder'
    <3>1. \A k \in Ticks : tick[k] # B!Idle => (tick[k].counted <=> tick[k].found)
      BY <1>2, <2>5 DEF B!HalfAnswered, TickState
    <3>2. OneTick' /\ AnnouncedOfKnown'
      BY <1>1, <2>1 DEF InOrder, OneTick, AnnouncedOfKnown
    <3>3. TicksFollow'
      <4> SUFFICES ASSUME NEW k \in Ticks, tick[k] # B!Idle
                   PROVE  /\ tick[k].latest # 0 => tick[k].found /\ stream.lastCreated < tick[k].latest
                          /\ tick[k].found => \A r \in B!Rows : announced[r] # 0 =>
                               r <= tick[k].latest \/ r <= stream.lastCreated
                          /\ ~(tick[k].counted /\ ~tick[k].found)
                          /\ ~(tick[k].found /\ ~tick[k].counted)
                          /\ tick[k].counted /\ tick[k].found
                               /\ (rows <= tick[k].latest \/ rows <= stream.lastCreated)
                             => Count' <= tick[k].count
        BY <2>1 DEF TicksFollow
      <4>1. tick[k].counted /\ tick[k].found
              /\ (rows <= tick[k].latest \/ rows <= stream.lastCreated) => Count <= tick[k].count
        BY <1>1 DEF InOrder, TicksFollow
      <4>2. tick[k].count \in Nat
        BY <1>2 DEF TickState
      <4> QED BY <1>1, <2>4, <3>1, <4>1, <4>2 DEF InOrder, TicksFollow
    <3>4. NewsFollows'
      BY <2>1 DEF NewsFollows
    <3>5. BellFollows'
      <4>1. stream.lastUnread # 0 /\ rows <= stream.lastCreated => Count' + 1 <= stream.lastUnread
        BY <1>1, <1>2, <2>4 DEF InOrder, BellFollows
      <4> QED BY <1>1, <2>1, <2>4, <4>1 DEF InOrder, BellFollows, Complete
    <3> QED BY <3>2, <3>3, <3>4, <3>5 DEF InOrder
  <2> QED BY <2>1, <2>3, <2>5 DEF BellIInv
<1> QED BY <1>3, <1>4, <1>5

\* The connection.
LEMMA BellStream ==
    ASSUME BellConstants, BellIInv, ~odd, B!Connect \/ B!Drop
    PROVE  BellIInv'
<1> USE DEF BellConstants
<1>1. BellTypes /\ InOrder
  BY DEF BellIInv
<1>2. /\ rows \in 0..MaxRows /\ B!Closed.lastUnread = 0 /\ B!Closed.lastCreated = 0
      /\ B!Opened.lastUnread = 0 /\ B!Opened.lastCreated = 0
      /\ B!Closed \in [up: BOOLEAN, lastUnread: 0..MaxRows + 1, lastCreated: 0..rows]
      /\ B!Opened \in [up: BOOLEAN, lastUnread: 0..MaxRows + 1, lastCreated: 0..rows]
      /\ B!Opened.up /\ ~B!Closed.up
  <2>1. rows \in 0..MaxRows
    BY <1>1 DEF BellTypes, B!TypeOK
  <2>2. 0 \in 0..MaxRows + 1 /\ 0 \in 0..rows
    BY <2>1
  <2>3. /\ B!Closed \in [up: BOOLEAN, lastUnread: 0..MaxRows + 1, lastCreated: 0..rows]
        /\ B!Closed.lastUnread = 0 /\ B!Closed.lastCreated = 0 /\ ~B!Closed.up
    BY <2>2 DEF B!Closed
  <2>4. B!Opened = [B!Closed EXCEPT !.up = TRUE]
    BY DEF B!Opened
  <2>5. /\ B!Opened \in [up: BOOLEAN, lastUnread: 0..MaxRows + 1, lastCreated: 0..rows]
        /\ B!Opened.lastUnread = 0 /\ B!Opened.lastCreated = 0 /\ B!Opened.up
    BY <2>3, <2>4
  <2> QED BY <2>1, <2>3, <2>5
<1>3. CASE B!Connect
  <2>1. /\ stream = B!Closed /\ stream' = B!Opened
        /\ UNCHANGED <<rows, unread, young, tick, told, own, bell, announced, news, odd>>
    BY <1>1, <1>3 DEF B!Connect, BellTypes
  <2>2. stream.lastUnread = stream'.lastUnread /\ stream.lastCreated = stream'.lastCreated
    BY <1>2, <2>1
  <2>3. BellTypes'
    BY <1>1, <1>2, <2>1 DEF BellTypes, B!TypeOK
  <2>4. OneTick' /\ AnnouncedOfKnown'
    BY <1>1, <2>1, <2>2 DEF InOrder, OneTick, AnnouncedOfKnown
  <2>5. TicksFollow'
    BY <1>1, <2>1, <2>2 DEF InOrder, TicksFollow, Count
  <2>6. NewsFollows' /\ BellFollows'
    BY <1>1, <1>2, <2>1, <2>2 DEF InOrder, NewsFollows, BellFollows, Count
  <2> QED BY <2>3, <2>4, <2>5, <2>6 DEF InOrder, BellIInv
<1>4. CASE B!Drop
  <2>1. /\ stream' = B!Closed /\ tick' = [k \in Ticks |-> B!Idle] /\ told' = FALSE
        /\ news' = "changed" /\ UNCHANGED <<rows, unread, young, own, bell, announced, odd>>
    BY <1>4 DEF B!Drop
  <2>2. BellTypes'
    BY <1>1, <1>2, <2>1 DEF BellTypes, B!TypeOK
  <2>3. \A k \in Ticks : tick'[k] = B!Idle
    BY <2>1
  <2>4. OneTick' /\ AnnouncedOfKnown' /\ TicksFollow'
    BY <1>1, <1>2, <2>1, <2>3 DEF InOrder, OneTick, AnnouncedOfKnown, TicksFollow
  <2>5. NewsFollows' /\ BellFollows'
    BY <1>2, <2>1 DEF NewsFollows, BellFollows
  <2> QED BY <2>2, <2>4, <2>5 DEF InOrder, BellIInv
<1> QED BY <1>3, <1>4

\* One tick of the stream, from its questions to what it says.
LEMMA BellAsks ==
    ASSUME BellConstants, BellIInv, ~odd, NEW k \in Ticks,
           B!BeginTick(k) \/ B!Count(k) \/ B!Find(k) \/ B!TickFails(k)
    PROVE  BellIInv'
<1> USE DEF BellConstants
<1>1. BellTypes /\ InOrder
  BY DEF BellIInv
<1>2. /\ rows \in 0..MaxRows /\ stream \in [up: BOOLEAN, lastUnread: 0..MaxRows + 1, lastCreated: 0..rows]
      /\ tick \in [Ticks -> TickState \cup {B!Idle}]
      /\ announced \in [B!Rows -> Nat] /\ news \in {"changed", "asked", "seen"}
      /\ Count \in 0..MaxRows /\ B!Cardinality(unread) = Count
  BY <1>1, BellNumbers DEF BellTypes, B!TypeOK
<1>3. UNCHANGED <<rows, unread, young, stream, told, own, bell, announced>>
  BY DEF B!BeginTick, B!Count, B!Find, B!TickFails
<1>4. Count' = Count
  BY <1>3 DEF Count
<1>5. ASSUME NEW next \in TickState \cup {B!Idle}, tick' = [tick EXCEPT ![k] = next],
             news' \in {"changed", "asked", "seen"}, odd' \in BOOLEAN,
             next # B!Idle => next.latest \in 0..rows /\ stream.up
      PROVE  BellTypes'
  <2>1. tick' \in [Ticks -> TickState \cup {B!Idle}]
    BY <1>2, <1>5
  <2>2. \A j \in Ticks : tick'[j] = IF j = k THEN next ELSE tick[j]
    BY <1>2, <1>5
  <2>3. ASSUME NEW j \in Ticks
        PROVE  \/ tick'[j] = B!Idle
               \/ tick'[j] \in [step: {"asking"}, count: 0..MaxRows, latest: 0..rows,
                                counted: BOOLEAN, found: BOOLEAN]
    BY <1>1, <1>5, <2>2 DEF BellTypes, B!TypeOK, TickState
  <2>4. B!TypeOK'
    BY <1>1, <1>3, <1>5, <2>3 DEF BellTypes, B!TypeOK
  <2> QED BY <1>1, <1>3, <1>5, <2>1, <2>2, <2>4 DEF BellTypes
<1>6. AnnouncedOfKnown' /\ BellFollows'
  BY <1>1, <1>3, <1>4 DEF InOrder, AnnouncedOfKnown, BellFollows, Complete
<1>7. ASSUME NEW next \in TickState, tick' = [tick EXCEPT ![k] = next],
             \A j \in Ticks : tick[j] # B!Idle => j = k,
             news' # "changed" =>
                /\ next.counted => next.count = Count
                /\ next.found => rows <= next.latest \/ rows <= stream.lastCreated,
             next.latest # 0 => next.found /\ stream.lastCreated < next.latest,
             next.found => \A r \in B!Rows : announced[r] # 0 => r <= next.latest \/ r <= stream.lastCreated,
             next.counted /\ ~next.found => next.count = Count,
             next.found /\ ~next.counted => rows <= next.latest \/ rows <= stream.lastCreated,
             next.counted /\ next.found /\ (rows <= next.latest \/ rows <= stream.lastCreated)
                => Count <= next.count,
             news' = "seen" => news = "seen"
      PROVE  InOrder'
  <2>1. \A j \in Ticks : tick'[j] = IF j = k THEN next ELSE tick[j]
    BY <1>2, <1>7
  <2>2. \A j \in Ticks : tick'[j] # B!Idle => j = k /\ tick'[j] = next
    BY <1>7, <2>1
  <2>3. OneTick'
    BY <2>2 DEF OneTick
  <2>4. TicksFollow'
    BY <1>3, <1>4, <1>7, <2>2 DEF TicksFollow
  <2>5. NewsFollows'
    BY <1>1, <1>3, <1>4, <1>7, <2>2 DEF InOrder, NewsFollows
  <2> QED BY <1>6, <2>3, <2>4, <2>5 DEF InOrder
<1>8. CASE B!BeginTick(k)
  <2>1. /\ tick[k] = B!Idle /\ tick' = [tick EXCEPT ![k] = B!Asking]
        /\ odd' = (odd \/ \E j \in Ticks : tick[j] # B!Idle)
        /\ news' = IF news = "changed" THEN "asked" ELSE news
    BY <1>8 DEF B!BeginTick
  <2>2. B!Asking \in TickState /\ ~B!Asking.counted /\ ~B!Asking.found /\ B!Asking.latest = 0
    BY DEF B!Asking, TickState
  <2>3. odd' \in BOOLEAN /\ news' \in {"changed", "asked", "seen"} /\ (news' = "seen" => news = "seen")
    BY <1>2, <2>1
  <2>4. BellTypes'
    <3>1. stream.up /\ 0 \in 0..rows
      BY <1>2, <1>8 DEF B!BeginTick
    <3> QED BY <1>5, <2>1, <2>2, <2>3, <3>1
  <2>5. ASSUME \A j \in Ticks : tick[j] = B!Idle
        PROVE  InOrder'
    <3>1. \A j \in Ticks : tick[j] # B!Idle => j = k
      BY <2>5
    <3> QED BY <1>7, <2>1, <2>2, <2>3, <3>1
  <2> QED BY <2>1, <2>4, <2>5 DEF BellIInv
<1>9. CASE B!Count(k) \/ B!Find(k)
  <2>1. /\ tick[k].step = "asking" /\ UNCHANGED <<news, odd>>
    BY <1>9 DEF B!Count, B!Find
  <2>2. tick[k] # B!Idle /\ tick[k] \in TickState /\ tick[k].latest \in 0..rows /\ stream.up
    BY <1>1, <1>2, <2>1 DEF B!Idle, BellTypes, B!TypeOK
  <2>3. \A j \in Ticks : tick[j] # B!Idle => j = k
    BY <1>1, <2>2 DEF InOrder, OneTick
  <2>4. news' \in {"changed", "asked", "seen"} /\ odd' \in BOOLEAN
    BY <1>1, <2>1 DEF BellTypes, B!TypeOK
  <2>5. CASE B!Count(k)
    <3> DEFINE next == [tick[k] EXCEPT !.count = Count, !.counted = TRUE]
    <3>1. tick' = [tick EXCEPT ![k] = next] /\ ~tick[k].counted
      BY <1>2, <2>5 DEF B!Count
    <3>2. /\ next \in TickState /\ next.latest = tick[k].latest /\ next.found = tick[k].found
          /\ next.counted /\ next.count = Count
      BY <1>2, <2>2 DEF TickState
    <3> HIDE DEF next
    <3>3. BellTypes'
      BY <1>5, <2>2, <2>4, <3>1, <3>2
    <3>4. /\ next.latest # 0 => next.found /\ stream.lastCreated < next.latest
          /\ next.found => \A r \in B!Rows : announced[r] # 0 => r <= next.latest \/ r <= stream.lastCreated
      BY <1>1, <2>2, <3>2 DEF InOrder, TicksFollow
    <3>5. next.found => rows <= next.latest \/ rows <= stream.lastCreated
      BY <1>1, <2>2, <3>1, <3>2 DEF InOrder, TicksFollow
    <3>6. Count <= next.count
      BY <1>2, <3>2
    <3>7. InOrder'
      BY <1>7, <2>1, <2>3, <3>1, <3>2, <3>4, <3>5, <3>6
    <3> QED BY <3>3, <3>7 DEF BellIInv
  <2>6. CASE B!Find(k)
    <3> DEFINE latest == IF rows > stream.lastCreated THEN rows ELSE 0
               next == [tick[k] EXCEPT !.latest = latest, !.found = TRUE]
    <3>1. tick' = [tick EXCEPT ![k] = next] /\ ~tick[k].found
      BY <2>6 DEF B!Find
    <3>2. /\ latest \in 0..MaxRows /\ latest \in 0..rows
          /\ latest # 0 => stream.lastCreated < latest
          /\ rows <= latest \/ rows <= stream.lastCreated
      BY <1>2
    <3> HIDE DEF latest
    <3>3. /\ next \in TickState /\ next.latest = latest /\ next.found
          /\ next.counted = tick[k].counted /\ next.count = tick[k].count
      BY <2>2, <3>2 DEF TickState
    <3> HIDE DEF next
    <3>4. BellTypes'
      BY <1>5, <2>2, <2>4, <3>1, <3>2, <3>3
    <3>5. ASSUME NEW r \in B!Rows, announced[r] # 0
          PROVE  r <= next.latest \/ r <= stream.lastCreated
      <4>1. r <= rows /\ r \in Nat /\ next.latest \in Nat /\ stream.lastCreated \in Nat
        BY <1>1, <1>2, <3>2, <3>3, <3>5 DEF InOrder, AnnouncedOfKnown, B!Rows
      <4> QED BY <1>2, <3>2, <3>3, <4>1
    <3>6. next.counted => next.count = Count
      BY <1>1, <2>2, <3>1, <3>3 DEF InOrder, TicksFollow
    <3>7. next.counted => Count <= next.count
      BY <1>2, <3>6
    <3>8. InOrder'
      BY <1>7, <2>1, <2>3, <3>1, <3>2, <3>3, <3>5, <3>6, <3>7
    <3> QED BY <3>4, <3>8 DEF BellIInv
  <2> QED BY <1>9, <2>5, <2>6
<1>10. CASE B!TickFails(k)
  <2>1. /\ tick[k] # B!Idle /\ tick' = [tick EXCEPT ![k] = B!Idle] /\ odd' = odd
        /\ news' = IF news = "asked" THEN "changed" ELSE news
    BY <1>10 DEF B!TickFails
  <2>2. news' \in {"changed", "asked", "seen"} /\ odd' \in BOOLEAN /\ (news' # "changed" => news' = news)
    BY <1>1, <2>1 DEF BellTypes, B!TypeOK
  <2>3. BellTypes'
    BY <1>5, <2>1, <2>2
  <2>4. \A j \in Ticks : tick'[j] = B!Idle
    BY <1>1, <1>2, <2>1 DEF InOrder, OneTick
  <2>5. OneTick' /\ TicksFollow'
    BY <2>4 DEF OneTick, TicksFollow
  <2>6. NewsFollows'
    BY <1>1, <1>3, <1>4, <2>2, <2>4 DEF InOrder, NewsFollows
  <2> QED BY <1>6, <2>3, <2>5, <2>6 DEF InOrder, BellIInv
<1> QED BY <1>8, <1>9, <1>10

LEMMA BellTells ==
    ASSUME BellConstants, BellIInv, ~odd, NEW k \in Ticks, B!EndTick(k)
    PROVE  BellIInv'
<1> USE DEF BellConstants
<1>1. BellTypes /\ InOrder
  BY DEF BellIInv
<1> DEFINE t == tick[k]
           created == IF t.latest # 0 THEN t.latest ELSE stream.lastCreated
           counted == IF B!Counts(t) THEN t.count + 1 ELSE stream.lastUnread
<1>2. /\ rows \in 0..MaxRows /\ stream \in [up: BOOLEAN, lastUnread: 0..MaxRows + 1, lastCreated: 0..rows]
      /\ tick \in [Ticks -> TickState \cup {B!Idle}]
      /\ announced \in [B!Rows -> Nat] /\ news \in {"changed", "asked", "seen"}
      /\ Count \in 0..MaxRows /\ told \in BOOLEAN
  BY <1>1, BellNumbers DEF BellTypes, B!TypeOK
<1>3. /\ t.step = "asking" /\ t.counted /\ t.found
      /\ tick' = [tick EXCEPT ![k] = B!Idle]
      /\ stream' = [stream EXCEPT !.lastCreated = created, !.lastUnread = counted]
      /\ told' = (told \/ B!Announces(t) \/ B!Counts(t))
      /\ announced' = IF B!Announces(t) THEN [announced EXCEPT ![t.latest] = announced[t.latest] + 1]
                      ELSE announced
      /\ news' = IF news = "asked" THEN "seen" ELSE news
      /\ odd' = (odd \/ B!KeepsSilent(t))
      /\ UNCHANGED <<rows, unread, young, own, bell>>
  BY DEF B!EndTick
<1>4. /\ t # B!Idle /\ t \in TickState /\ t.latest \in 0..rows
  BY <1>1, <1>2, <1>3 DEF B!Idle, BellTypes, B!TypeOK
<1>5. /\ t.latest # 0 => stream.lastCreated < t.latest
      /\ \A r \in B!Rows : announced[r] # 0 => r <= t.latest \/ r <= stream.lastCreated
      /\ rows <= t.latest \/ rows <= stream.lastCreated => Count <= t.count
  BY <1>1, <1>3, <1>4 DEF InOrder, TicksFollow
<1>6. /\ t.count \in 0..MaxRows /\ stream.lastUnread \in 0..MaxRows + 1
      /\ stream.lastCreated \in 0..rows
  BY <1>2, <1>4 DEF TickState
<1>7. counted = t.count + 1 /\ counted \in 0..MaxRows + 1 /\ created \in 0..rows /\ counted # 0
  BY <1>4, <1>6 DEF B!Counts
<1>8. created = t.latest \/ created = stream.lastCreated
  OBVIOUS
<1>9. /\ t.latest <= created /\ stream.lastCreated <= created
  BY <1>4, <1>5, <1>6
<1>10. B!Counts(t) <=> t.count + 1 # stream.lastUnread
  BY DEF B!Counts
<1>11. /\ B!Announces(t) <=> t.latest # 0 /\ stream.lastUnread # 0 /\ t.latest \in young
       /\ B!KeepsSilent(t) <=> t.latest # 0 /\ stream.lastUnread # 0 /\ ~B!Announces(t)
  BY DEF B!Announces, B!KeepsSilent
<1>12. t.latest # 0 => created = t.latest
  OBVIOUS
<1>13. t.latest = 0 => created = stream.lastCreated
  OBVIOUS
<1> PICK row : row = t.latest
  OBVIOUS
<1>14. PICK size : size = t.count
  OBVIOUS
<1>15. PICK last : last = created
  OBVIOUS
<1>16. /\ stream'.lastCreated = last /\ stream'.lastUnread = size + 1 /\ stream'.up = stream.up
       /\ stream' \in [up: BOOLEAN, lastUnread: 0..MaxRows + 1, lastCreated: 0..rows]
  BY <1>2, <1>3, <1>7, <1>14, <1>15
<1>17. \A j \in Ticks : tick'[j] = B!Idle
  BY <1>1, <1>2, <1>3, <1>4 DEF InOrder, OneTick
<1>18. announced' \in [B!Rows -> Nat]
  <2>1. t.latest # 0 => t.latest \in B!Rows
    BY <1>2, <1>4 DEF B!Rows
  <2>2. CASE B!Announces(t)
    BY <1>2, <1>3, <1>11, <2>1, <2>2
  <2>3. CASE ~B!Announces(t)
    BY <1>2, <1>3, <2>3
  <2> QED BY <2>2, <2>3
<1>19. BellTypes'
  <2>1. told' \in BOOLEAN /\ odd' \in BOOLEAN /\ news' \in {"changed", "asked", "seen"}
    BY <1>2, <1>3
  <2>2. tick' \in [Ticks -> TickState \cup {B!Idle}]
    BY <1>2, <1>3
  <2>3. B!TypeOK'
    BY <1>1, <1>3, <1>16, <1>17, <1>18, <2>1 DEF BellTypes, B!TypeOK
  <2>4. stream.up
    BY <1>1, <1>4 DEF BellTypes
  <2> QED BY <1>16, <1>17, <1>18, <2>2, <2>3, <2>4 DEF BellTypes
<1>20. ASSUME ~B!KeepsSilent(t)
       PROVE  InOrder'
  <2>0. stream.lastUnread # 0 /\ ~B!Announces(t) => t.latest = 0
    BY <1>11, <1>20
  <2>1. OneTick' /\ TicksFollow'
    BY <1>17 DEF OneTick, TicksFollow
  <2>2. AnnouncedOfKnown'
    <3>1. \A r \in B!Rows : r \in Nat
      BY DEF B!Rows
    <3>2. CASE B!Announces(t)
      <4>1. /\ t.latest # 0 /\ stream.lastUnread # 0 /\ t.latest \in B!Rows /\ created = t.latest
            /\ announced' = [announced EXCEPT ![t.latest] = announced[t.latest] + 1]
        BY <1>2, <1>3, <1>4, <1>11, <3>2 DEF B!Rows
      <4>2. announced[t.latest] = 0
        BY <1>1, <1>2, <1>4, <1>5, <1>6, <4>1 DEF InOrder, AnnouncedOfKnown
      <4>3. \A r \in B!Rows : announced'[r] = IF r = t.latest THEN 1 ELSE announced[r]
        BY <1>2, <4>1, <4>2
      <4>4. ASSUME NEW r \in B!Rows, announced'[r] # 0
            PROVE  announced'[r] = 1 /\ r <= rows /\ r <= last
        <5>1. CASE r = t.latest
          BY <1>2, <1>4, <1>15, <3>1, <4>1, <4>3, <5>1
        <5>2. CASE r # t.latest
          <6>1. announced[r] # 0 /\ announced'[r] = announced[r]
            BY <4>3, <4>4, <5>2
          <6>2. announced[r] = 1 /\ r <= rows /\ r <= stream.lastCreated
            BY <1>1, <4>1, <6>1 DEF InOrder, AnnouncedOfKnown
          <6>3. r <= last
            BY <1>6, <1>7, <1>9, <1>15, <3>1, <6>2
          <6> QED BY <6>1, <6>2, <6>3
        <5> QED BY <5>1, <5>2
      <4> QED BY <1>3, <1>16, <4>4 DEF AnnouncedOfKnown
    <3>3. CASE ~B!Announces(t)
      <4>1. announced' = announced
        BY <1>3, <3>3
      <4>2. ASSUME NEW r \in B!Rows, announced[r] # 0
            PROVE  announced[r] = 1 /\ r <= rows /\ r <= last
        BY <1>1, <1>4, <1>5, <1>6, <1>7, <1>9, <1>15, <3>1, <4>2 DEF InOrder, AnnouncedOfKnown
      <4> QED BY <1>3, <1>16, <4>1, <4>2 DEF AnnouncedOfKnown
    <3> QED BY <3>2, <3>3
  <2>3. rows <= last => Count <= size
    BY <1>5, <1>8, <1>14, <1>15
  <2>4. NewsFollows'
    <3>1. news # "changed" => size = Count /\ rows <= last
      <4>1. news # "changed" => t.count = Count /\ (rows <= t.latest \/ rows <= stream.lastCreated)
        BY <1>1, <1>3, <1>4 DEF InOrder, NewsFollows
      <4> QED BY <1>2, <1>4, <1>6, <1>7, <1>9, <1>14, <1>15, <4>1
    <3>2. news' = "seen" => stream'.lastUnread = Count + 1 /\ rows <= stream'.lastCreated
      BY <1>2, <1>3, <1>16, <3>1
    <3>3. Count' = Count /\ rows' = rows
      BY <1>3 DEF Count
    <3> QED BY <1>17, <3>2, <3>3 DEF NewsFollows
  <2>5. BellFollows'
    <3>1. UNCHANGED <<rows, unread, bell>> /\ Count' = Count
      BY <1>3 DEF Count
    <3>2. rows <= last => Count + 1 <= size + 1
      BY <1>2, <1>6, <1>14, <2>3
    <3>3. ~told' => stream.lastUnread # 0 /\ stream.lastUnread = size + 1
                    /\ stream.lastCreated = last /\ ~told
      <4>1. ~told' => ~told /\ ~B!Announces(t) /\ ~B!Counts(t)
        BY <1>3
      <4>2. ~B!Counts(t) => stream.lastUnread = size + 1 /\ stream.lastUnread # 0
        BY <1>6, <1>10, <1>14
      <4>3. stream.lastUnread # 0 /\ ~B!Announces(t) => stream.lastCreated = last
        BY <1>13, <1>15, <2>0
      <4> QED BY <4>1, <4>2, <4>3
    <3> QED BY <1>1, <1>16, <3>1, <3>2, <3>3 DEF InOrder, BellFollows, Complete
  <2> QED BY <2>1, <2>2, <2>4, <2>5 DEF InOrder
<1> QED BY <1>3, <1>19, <1>20 DEF BellIInv

\* The list in the browser.
LEMMA BellFeed ==
    ASSUME BellConstants, BellIInv, ~odd,
           B!Invalidate \/ B!Poll \/ B!FeedReads \/ B!FeedArrives \/ B!FeedFails
    PROVE  BellIInv'
<1> USE DEF BellConstants
<1>1. BellTypes /\ InOrder
  BY DEF BellIInv
<1>2. UNCHANGED <<rows, unread, young, stream, tick, announced, news, odd>>
  BY DEF B!Invalidate, B!Poll, B!FeedReads, B!FeedArrives, B!FeedFails
<1>3. /\ bell \in BellState
      /\ unread \in SUBSET B!Rows /\ told \in BOOLEAN /\ own \in BOOLEAN
  BY <1>1, BellNumbers DEF BellTypes, B!TypeOK, BellState
<1>4. told' \in BOOLEAN /\ own' \in BOOLEAN /\ (B!Invalidate \/ told' = told)
  BY <1>3 DEF B!Invalidate, B!Poll, B!FeedReads, B!FeedArrives, B!FeedFails
<1>5. /\ bell' \in BellState
      /\ bell'.fetch = "answered" /\ ~bell'.late => bell'.brings = B!Newest(unread)
      /\ bell'.fetch = "idle" /\ ~bell'.due /\ ~bell'.late =>
           bell.fetch = "answered" /\ ~bell.late /\ bell'.shown = bell.brings /\ told' = told
  <2>1. CASE bell' = B!Started
    BY <1>3, <2>1 DEF B!Started, BellState
  <2>2. CASE bell.fetch # "idle" /\ ~bell.loaded /\ bell' = B!Joined
    BY <1>3, <2>2 DEF B!Joined, BellState
  <2>3. CASE B!FeedReads
    <3>1. B!Newest(unread) \in SUBSET B!Rows
      BY <1>3 DEF B!Newest
    <3> QED BY <1>3, <2>3, <3>1 DEF B!FeedReads, BellState
  <2>4. CASE B!FeedArrives
    BY <1>3, <2>4 DEF B!FeedArrives, BellState
  <2>5. CASE B!FeedFails
    BY <1>3, <2>5 DEF B!FeedFails, BellState
  <2>6. B!Refetched = B!Started \/ (bell.fetch # "idle" /\ ~bell.loaded /\ B!Refetched = B!Joined)
    BY <1>3 DEF B!Refetched, BellState
  <2> QED BY <2>1, <2>2, <2>3, <2>4, <2>5, <2>6 DEF B!Invalidate, B!Poll
<1>6. BellTypes'
  BY <1>1, <1>2, <1>4, <1>5 DEF BellTypes, B!TypeOK, BellState
<1>7. Count' = Count
  BY <1>2 DEF Count
<1>8. OneTick' /\ AnnouncedOfKnown' /\ TicksFollow' /\ NewsFollows'
  BY <1>1, <1>2, <1>7 DEF InOrder, OneTick, AnnouncedOfKnown, TicksFollow, NewsFollows
<1>9. BellFollows'
  <2> SUFFICES ASSUME stream.lastUnread # 0, rows <= stream.lastCreated
               PROVE  /\ Count + 1 <= stream.lastUnread
                      /\ bell'.fetch = "answered" /\ ~bell'.late => Complete(bell'.brings)
                      /\ ~told' /\ bell'.fetch = "idle" /\ ~bell'.due /\ ~bell'.late
                           => Complete(bell'.shown)
    BY <1>2, <1>7 DEF BellFollows, Complete
  <2>1. /\ Count + 1 <= stream.lastUnread
        /\ ~told /\ ~bell.late /\ bell.fetch = "answered" => Complete(bell.brings)
    BY <1>1 DEF InOrder, BellFollows
  <2>2. Complete(B!Newest(unread))
    BY <1>3, <2>1 DEF Complete, Count
  <2> QED BY <1>5, <2>1, <2>2
<1> QED BY <1>2, <1>6, <1>8, <1>9 DEF BellIInv, InOrder

LEMMA BellNext == ASSUME BellConstants, BellIInv, ~odd, B!Next PROVE BellIInv'
  BY BellRows, BellStream, BellAsks, BellTells, BellFeed DEF B!Next

LEMMA BellIsHeld == ASSUME BellConstants, BellIInv, UNCHANGED bells PROVE BellIInv'
<1>1. UNCHANGED <<rows, unread, young, stream, tick, told, own, bell, announced, news, odd>>
  BY DEF bells
<1>2. BellTypes'
  BY <1>1 DEF BellIInv, BellTypes, B!TypeOK
<1>3. odd \/ InOrder => odd' \/ InOrder'
  BY <1>1 DEF InOrder, OneTick, AnnouncedOfKnown, TicksFollow, NewsFollows, BellFollows, Complete, Count
<1> QED BY <1>2, <1>3 DEF BellIInv

LEMMA BellStays == ASSUME BellConstants PROVE MCSpec => []BellIInv
<1>1. MCInit => BellIInv
  BY BellInit DEF MCInit
<1>2. BellIInv /\ [MCNext]_vars => BellIInv'
  <2>1. [MCNext]_vars => UNCHANGED bells \/ (~odd /\ B!Next)
    BY DEF MCNext, vars, browser
  <2> QED BY <2>1, BellNext, BellIsHeld
<1> QED BY <1>1, <1>2, PTL DEF MCSpec

LEMMA BellAtRest ==
    ASSUME BellConstants, BellIInv
    PROVE  B!BellIsTrue /\ B!AnnouncedOnce
<1>1. ASSUME ~odd, B!Settled, ~bell.late
      PROVE  bell.shown = B!Newest(unread)
  <2>1. /\ stream.lastUnread = Count + 1 /\ rows <= stream.lastCreated
        /\ stream.lastUnread # 0 /\ rows <= stream.lastCreated => Complete(bell.shown)
    BY <1>1 DEF BellIInv, InOrder, NewsFollows, BellFollows, B!Settled
  <2>2. Count \in Nat
    BY BellNumbers DEF BellIInv, BellConstants
  <2>3. PICK whole \in SUBSET B!Rows :
          /\ bell.shown = B!Newest(whole) /\ unread \subseteq whole
          /\ Cardinality(whole) + 1 <= stream.lastUnread
    BY <2>1, <2>2 DEF Complete
  <2>4. IsFiniteSet(whole) /\ Cardinality(whole) \in Nat
    BY BellNumbers DEF BellIInv, BellConstants
  <2>5. Cardinality(whole) <= Count
    BY <2>1, <2>2, <2>3, <2>4
  <2>6. unread = whole
    <3>1. IsFiniteSet(unread) /\ Count <= Cardinality(whole)
      BY <2>3, <2>4, FS_Subset DEF Count
    <3>2. Cardinality(unread) = Cardinality(whole)
      BY <2>2, <2>4, <2>5, <3>1 DEF Count
    <3> QED BY <2>3, <2>4, <3>2, FS_Subset
  <2> QED BY <2>3, <2>6
<1>2. odd \/ \A r \in B!Rows : announced[r] <= 1
  <2>1. ASSUME NEW r \in B!Rows, ~odd
        PROVE  announced[r] <= 1
    BY <2>1 DEF BellIInv, BellTypes, InOrder, AnnouncedOfKnown
  <2> QED BY <2>1
<1> QED BY <1>1, <1>2 DEF B!BellIsTrue, B!AnnouncedOnce
-----------------------------------------------------------------------------
(***************************************************************************)
(* A list of a page.  What the user saw succeed has a refetch behind it    *)
(* until a read of the database that came later has brought it.            *)
(***************************************************************************)
PageConstants == MaxChanges \in Nat \ {0} /\ "nobody" \notin Orgs

\* Whoever is asked for, or asks for a change, is somebody.
AskersKnown ==
    /\ entry.fetch = "asked" => entry.asker \in Orgs
    /\ sent # P!NoCall => sent.by \in Orgs

\* What was written is in the database, and in the browser or on the way there.
WroteOnItsWay ==
    /\ wrote <= server[identity]
    /\ wrote # 0 =>
         /\ entry.fetch = "asked" => entry.asker = identity
         /\ entry.fetch = "answered" => wrote <= entry.brings
         /\ entry.fetch = "idle" /\ ~entry.due => wrote <= entry.data

PageIInv == part = "pages" => P!TypeOK /\ AskersKnown /\ WroteOnItsWay
-----------------------------------------------------------------------------
LEMMA EntryUpdates ==
    ASSUME PageConstants, P!TypeOK
    PROVE  /\ P!Fetched \in P!Entry /\ P!Fetched.fetch = "asked" /\ P!Fetched.asker = identity
           /\ P!Fetched.data = entry.data /\ P!Fetched.due = entry.due
           /\ [entry EXCEPT !.due = TRUE] \in P!Entry
           /\ P!Invalidated \in P!Entry /\ P!Invalidated.due = TRUE
           /\ P!Invalidated = [entry EXCEPT !.due = TRUE] \/
              (P!Invalidated.fetch = "asked" /\ P!Invalidated.asker = identity)
           /\ (P!OnDisplay /\ entry.data # 0) =>
                 P!Invalidated.fetch = "asked" /\ P!Invalidated.asker = identity
<1> USE DEF PageConstants
<1>1. /\ entry \in P!Entry /\ identity \in P!Asker /\ 0 \in 0..MaxChanges
  BY DEF P!TypeOK, P!Asker
<1>2. /\ P!Fetched \in P!Entry /\ P!Fetched.fetch = "asked" /\ P!Fetched.asker = identity
      /\ P!Fetched.data = entry.data /\ P!Fetched.due = entry.due
  BY <1>1 DEF P!Fetched, P!Entry
<1>3. [entry EXCEPT !.due = TRUE] \in P!Entry
  BY <1>1 DEF P!Entry
<1>4. PICK start : start = P!Fetched
  OBVIOUS
<1>5. /\ start \in P!Entry /\ start.fetch = "asked" /\ start.asker = identity
  BY <1>2, <1>4
<1>6. P!Invalidated = [(IF P!OnDisplay /\ (entry.data # 0 \/ entry.fetch = "idle")
                          THEN start ELSE entry) EXCEPT !.due = TRUE]
  BY <1>4 DEF P!Invalidated
<1>7. CASE P!OnDisplay /\ (entry.data # 0 \/ entry.fetch = "idle")
  <2>1. P!Invalidated = [start EXCEPT !.due = TRUE]
    BY <1>6, <1>7
  <2>2. /\ P!Invalidated \in P!Entry /\ P!Invalidated.due = TRUE
        /\ P!Invalidated.fetch = "asked" /\ P!Invalidated.asker = identity
    BY <1>5, <2>1 DEF P!Entry
  <2> QED BY <1>2, <1>3, <2>2
<1>8. CASE ~(P!OnDisplay /\ (entry.data # 0 \/ entry.fetch = "idle"))
  <2>1. P!Invalidated = [entry EXCEPT !.due = TRUE]
    BY <1>6, <1>8
  <2>2. P!Invalidated.due = TRUE
    BY <1>1, <2>1 DEF P!Entry
  <2> QED BY <1>2, <1>3, <1>8, <2>1, <2>2
<1> QED BY <1>7, <1>8

LEMMA PageInit == ASSUME PageConstants, P!Init PROVE P!TypeOK /\ AskersKnown /\ WroteOnItsWay
<1> USE DEF PageConstants, P!Init
<1>1. /\ entry \in P!Entry /\ entry.fetch = "idle" /\ sent = P!NoCall
      /\ 0 \in 0..MaxChanges /\ 1 \in 1..MaxChanges
  BY DEF P!Empty, P!Entry, P!Asker
<1>2. P!TypeOK
  BY <1>1 DEF P!TypeOK, P!NoCall, P!Asker
<1>3. AskersKnown
  BY <1>1 DEF AskersKnown
<1>4. WroteOnItsWay
  BY <1>1 DEF WroteOnItsWay
<1> QED BY <1>2, <1>3, <1>4

\* The cache and the pages on display: what is fetched was asked for.
LEMMA PageFetches ==
    ASSUME PageConstants, P!TypeOK, AskersKnown, WroteOnItsWay,
           \/ \E p \in P!Pages : P!Open(p)
           \/ P!Age \/ P!Poll \/ P!ServerReads \/ P!Arrive \/ P!FetchFails
    PROVE  P!TypeOK' /\ AskersKnown' /\ WroteOnItsWay'
<1> USE DEF PageConstants
<1>1. UNCHANGED <<deed, list, server, sent, identity, wrote>>
  BY DEF P!Open, P!Age, P!Poll, P!ServerReads, P!Arrive, P!FetchFails
<1>2. screen' \in P!Pages \cup {"login"}
  BY DEF P!TypeOK, P!Open, P!Age, P!Poll, P!ServerReads, P!Arrive, P!FetchFails, P!Places
<1>3. /\ entry \in P!Entry /\ identity \in Orgs /\ server \in [Orgs -> 1..MaxChanges]
      /\ wrote \in 0..MaxChanges /\ 0 \in 0..MaxChanges
  BY DEF P!TypeOK
<1>4. SUFFICES /\ entry' \in P!Entry
               /\ entry'.fetch = "asked" => entry'.asker \in Orgs
               /\ wrote # 0 =>
                    /\ entry'.fetch = "asked" => entry'.asker = identity
                    /\ entry'.fetch = "answered" => wrote <= entry'.brings
                    /\ entry'.fetch = "idle" /\ ~entry'.due => wrote <= entry'.data
  BY <1>1, <1>2 DEF P!TypeOK, AskersKnown, WroteOnItsWay
<1>5. CASE entry' = entry
  BY <1>3, <1>5 DEF AskersKnown, WroteOnItsWay
<1>6. CASE entry' = P!Fetched
  BY <1>3, <1>6, EntryUpdates
<1>7. CASE P!Age
  <2>1. entry' = [entry EXCEPT !.due = TRUE]
    BY <1>7 DEF P!Age
  <2>2. entry' \in P!Entry /\ entry'.fetch = entry.fetch /\ entry'.asker = entry.asker
        /\ entry'.brings = entry.brings /\ entry'.due = TRUE
    BY <1>3, <2>1 DEF P!Entry
  <2> QED BY <2>2 DEF AskersKnown, WroteOnItsWay
<1>8. CASE P!ServerReads
  <2>1. entry.fetch = "asked" /\ entry' = [entry EXCEPT !.fetch = "answered", !.brings = server[entry.asker]]
    BY <1>8 DEF P!ServerReads
  <2>2. entry.asker \in Orgs /\ server[entry.asker] \in 0..MaxChanges
    BY <1>3, <2>1 DEF AskersKnown
  <2>3. entry' \in P!Entry /\ entry'.fetch = "answered" /\ entry'.brings = server[entry.asker]
    BY <1>3, <2>1, <2>2 DEF P!Entry
  <2>4. wrote # 0 => entry.asker = identity
    BY <2>1 DEF WroteOnItsWay
  <2> QED BY <2>3, <2>4 DEF WroteOnItsWay
<1>9. CASE P!Arrive
  <2>1. /\ entry.fetch = "answered"
        /\ entry' = [P!Empty EXCEPT !.data = entry.brings, !.of = entry.asker, !.due = FALSE]
    BY <1>9 DEF P!Arrive
  <2>2. entry' \in P!Entry /\ entry'.fetch = "idle" /\ entry'.data = entry.brings
    BY <1>3, <2>1 DEF P!Entry, P!Empty, P!Asker
  <2> QED BY <2>1, <2>2 DEF WroteOnItsWay
<1>10. CASE P!FetchFails
  <2>1. entry' = [P!Empty EXCEPT !.data = entry.data, !.of = entry.of]
    BY <1>10 DEF P!FetchFails
  <2>2. entry' \in P!Entry /\ entry'.fetch = "idle" /\ entry'.due = TRUE
    BY <1>3, <2>1 DEF P!Entry, P!Empty, P!Asker
  <2> QED BY <2>2
<1>11. CASE \E p \in P!Pages : P!Open(p)
  BY <1>5, <1>6, <1>11 DEF P!Open
<1>12. CASE P!Poll
  BY <1>6, <1>12 DEF P!Poll
<1> QED BY <1>7, <1>8, <1>9, <1>10, <1>11, <1>12

\* The database only goes on.
LEMMA PageChanged ==
    ASSUME PageConstants, P!TypeOK, AskersKnown, WroteOnItsWay, NEW i \in Orgs,
           server[i] < MaxChanges, P!Changed(i), UNCHANGED <<deed, list, entry, screen, identity, wrote>>,
           sent' \in [step: {"none", "sent", "made"}, by: P!Asker],
           sent' # P!NoCall => sent'.by \in Orgs
    PROVE  P!TypeOK' /\ AskersKnown' /\ WroteOnItsWay'
<1> USE DEF PageConstants
<1>1. server' = [server EXCEPT ![i] = server[i] + 1] /\ server[i] + 1 \in 1..MaxChanges
  BY DEF P!Changed, P!TypeOK
<1>2. /\ server' \in [Orgs -> 1..MaxChanges]
      /\ server[identity] <= server'[identity]
      /\ wrote \in Nat /\ server[identity] \in Nat /\ server'[identity] \in Nat
  BY <1>1 DEF P!TypeOK
<1>3. P!TypeOK'
  BY <1>2 DEF P!TypeOK
<1>4. AskersKnown'
  BY DEF AskersKnown
<1>5. wrote' <= server'[identity']
  BY <1>2 DEF WroteOnItsWay
<1>6. WroteOnItsWay'
  BY <1>5 DEF WroteOnItsWay
<1> QED BY <1>3, <1>4, <1>6

LEMMA PageCalls ==
    ASSUME PageConstants, P!TypeOK, AskersKnown, WroteOnItsWay,
           P!Submit \/ P!ServerChanges \/ P!CallFails \/ P!Succeed
    PROVE  P!TypeOK' /\ AskersKnown' /\ WroteOnItsWay'
<1> USE DEF PageConstants
<1>1. P!NoCall \in [step: {"none", "sent", "made"}, by: P!Asker]
  BY DEF P!NoCall, P!Asker
<1>2. CASE P!Submit
  <2>1. /\ sent' = [step |-> "sent", by |-> identity] /\ identity \in Orgs
        /\ UNCHANGED <<deed, list, server, entry, screen, identity, wrote>>
    BY <1>2 DEF P!Submit, P!TypeOK
  <2>2. sent' \in [step: {"none", "sent", "made"}, by: P!Asker] /\ sent'.by \in Orgs
    BY <2>1 DEF P!Asker
  <2> QED BY <2>1, <2>2 DEF P!TypeOK, AskersKnown, WroteOnItsWay
<1>3. CASE P!ServerChanges
  <2>1. /\ sent.step = "sent" /\ sent' = [sent EXCEPT !.step = "made"]
        /\ server[sent.by] < MaxChanges /\ P!Changed(sent.by)
        /\ UNCHANGED <<deed, list, entry, screen, identity, wrote>>
    BY <1>3 DEF P!ServerChanges
  <2>2. sent.by \in Orgs
    BY <2>1 DEF AskersKnown, P!NoCall
  <2>3. sent' \in [step: {"none", "sent", "made"}, by: P!Asker] /\ sent'.by \in Orgs
    BY <2>1, <2>2 DEF P!TypeOK
  <2> QED BY <2>1, <2>2, <2>3, PageChanged
<1>4. CASE P!CallFails
  <2>1. sent' = P!NoCall /\ UNCHANGED <<deed, list, server, entry, screen, identity, wrote>>
    BY <1>4 DEF P!CallFails
  <2> QED BY <1>1, <2>1 DEF P!TypeOK, AskersKnown, WroteOnItsWay
<1>5. CASE P!Succeed
  <2>1. /\ sent' = P!NoCall /\ entry' = P!Invalidated
        /\ wrote' = IF P!OnDisplay /\ entry.data # 0 /\ sent.by = identity THEN server[identity] ELSE wrote
        /\ UNCHANGED <<deed, list, server, screen, identity>>
    BY <1>5 DEF P!Succeed
  <2>2. identity \in Orgs /\ server[identity] \in 1..MaxChanges
    BY DEF P!TypeOK
  <2>3. /\ wrote' \in 0..MaxChanges /\ wrote' <= server'[identity']
    BY <2>1, <2>2 DEF P!TypeOK, WroteOnItsWay
  <2>4. P!TypeOK'
    BY <1>1, <2>1, <2>3, EntryUpdates DEF P!TypeOK
  <2>5. CASE entry'.fetch = "asked" /\ entry'.asker = identity
    BY <2>1, <2>2, <2>3, <2>4, <2>5 DEF AskersKnown, WroteOnItsWay
  <2>6. CASE ~(entry'.fetch = "asked" /\ entry'.asker = identity)
    <3>1. entry' = [entry EXCEPT !.due = TRUE] /\ wrote' = wrote
      BY <2>1, <2>6, EntryUpdates
    <3>2. /\ entry'.fetch = entry.fetch /\ entry'.asker = entry.asker
          /\ entry'.brings = entry.brings /\ entry'.due = TRUE
      BY <3>1 DEF P!TypeOK, P!Entry
    <3> QED BY <2>1, <2>3, <2>4, <3>1, <3>2 DEF AskersKnown, WroteOnItsWay
  <2> QED BY <2>5, <2>6
<1> QED BY <1>2, <1>3, <1>4, <1>5

LEMMA PageNext ==
    ASSUME PageConstants, P!TypeOK, AskersKnown, WroteOnItsWay, P!Next
    PROVE  P!TypeOK' /\ AskersKnown' /\ WroteOnItsWay'
<1> USE DEF PageConstants
<1>1. ASSUME NEW i \in Orgs, P!OthersChange(i)
      PROVE  P!TypeOK' /\ AskersKnown' /\ WroteOnItsWay'
  <2>1. /\ server[i] < MaxChanges /\ P!Changed(i)
        /\ UNCHANGED <<deed, list, entry, screen, sent, identity, wrote>>
    BY <1>1 DEF P!OthersChange
  <2>2. /\ sent' \in [step: {"none", "sent", "made"}, by: P!Asker]
        /\ sent' # P!NoCall => sent'.by \in Orgs
    BY <2>1 DEF P!TypeOK, AskersKnown
  <2> QED BY <2>1, <2>2, PageChanged
<1>2. ASSUME NEW i \in Orgs, P!SwitchOrganization(i) \/ P!Logout(i)
      PROVE  P!TypeOK' /\ AskersKnown' /\ WroteOnItsWay'
  <2>1. /\ identity' = i /\ wrote' = 0 /\ screen' \in P!Pages \cup {"login"}
        /\ UNCHANGED <<deed, list, server, entry, sent>>
    BY <1>2 DEF P!SwitchOrganization, P!Logout, P!TypeOK
  <2>2. server[i] \in 1..MaxChanges /\ 0 \in 0..MaxChanges
    BY DEF P!TypeOK
  <2> QED BY <2>1, <2>2 DEF P!TypeOK, AskersKnown, WroteOnItsWay
<1> QED BY <1>1, <1>2, PageFetches, PageCalls DEF P!Next

LEMMA PagesStay ==
    ASSUME PageConstants
    PROVE  MCSpec => []PageIInv
<1>1. MCInit => PageIInv
  BY PageInit DEF MCInit, PageIInv
<1>2. PageIInv /\ [MCNext]_vars => PageIInv'
  <2> SUFFICES ASSUME PageIInv, [MCNext]_vars, part' = "pages"
               PROVE  P!TypeOK' /\ AskersKnown' /\ WroteOnItsWay'
    BY DEF PageIInv
  <2>1. part = "pages" /\ P!TypeOK /\ AskersKnown /\ WroteOnItsWay
    BY DEF MCNext, vars, PageIInv
  <2>2. CASE UNCHANGED pages
    BY <2>1, <2>2 DEF pages, P!TypeOK, AskersKnown, WroteOnItsWay
  <2>3. CASE P!Next
    BY <2>1, <2>3, PageNext
  <2> QED BY <2>1, <2>2, <2>3 DEF MCNext, vars, browser
<1> QED BY <1>1, <1>2, PTL DEF MCSpec

\* At rest the browser shows what the database holds: the bell counts the rows
\* that are unread, no row is announced twice, and a list has what the user saw
\* succeed in it, unless ticks of the stream have acted out of order.
THEOREM ScreensStayTruthful ==
    ASSUME BellConstants, PageConstants PROVE MCSpec => []ScreensTruthful
<1>1. PageIInv /\ part = "pages" => P!OwnChangesShown
  BY DEF PageIInv, WroteOnItsWay, P!OwnChangesShown, P!TypeOK, P!Entry, PageConstants
<1>2. BellIInv /\ PageIInv => ScreensTruthful
  BY <1>1, BellAtRest DEF ScreensTruthful
<1> QED BY <1>2, BellStays, PagesStay, PTL
-----------------------------------------------------------------------------
(***************************************************************************)
(* The pages of a role: a page asks for nothing but what its table lists.  *)
(***************************************************************************)
LEMMA AreasApart ==
    /\ \A role \in M!RoleCodes : role # "cases" /\ role # "none"
    /\ M!Nowhere \notin M!Places /\ M!Nowhere \notin M!QueueLinks
    /\ \A at \in M!QueueLinks : at \notin M!Places
<1>1. M!RoleCodes = {"Visitor", "Client", "Partner", "Agent", "Manager", "Admin", "Super"}
  BY DEF M!RoleCodes, M!Permissions
<1>2. M!Nowhere.area = "none" /\ \A at \in M!QueueLinks : at.area = "cases"
  BY DEF M!Nowhere, M!QueueLinks, M!InArea
<1>3. \A at \in M!Places : at.area \in M!RoleCodes
  BY DEF M!Places, M!Areas
<1> QED BY <1>1, <1>2, <1>3

\* A link names a place of the program, or is one of the two of the queue of cases.
LEMMA LinksNamePlaces ==
    ASSUME NEW at \in M!Places, NEW role, NEW target \in M!LinksOn(at, role)
    PROVE  target \in M!Places \cup M!QueueLinks
<1>1. at.area \in M!Areas /\ M!Menu(at.area, role) \subseteq M!StaffItems
  <2>1. at.area \in M!Areas
    BY DEF M!Places
  <2>2. M!MenuItems(at.area) \subseteq M!StaffItems
    BY DEF M!MenuItems, M!StaffItems, M!PortalItems
  <2> QED BY <2>1, <2>2 DEF M!Menu
<1>2. "Admin" \in M!Areas /\ {"cases", "users", "reports", "invoices"} \subseteq M!StaffItems
  BY DEF M!Areas, M!RoleCodes, M!Permissions, M!StaffItems, M!PortalItems
<1>3. ASSUME NEW area \in M!Areas, NEW some \in SUBSET M!StaffItems
      PROVE  M!InArea(area, some) \subseteq M!Places
  BY <1>3 DEF M!InArea, M!Places
<1>4. M!InArea(at.area, M!Menu(at.area, role)) \subseteq M!Places
  BY <1>1, <1>3
<1>5. M!HeaderLinks(at.area) \subseteq M!Places
  BY <1>1, <1>2, <1>3 DEF M!HeaderLinks
<1>6. M!DashboardLinks(at.area) \subseteq M!Places \cup M!QueueLinks
  BY <1>1, <1>2, <1>3 DEF M!DashboardLinks
<1> QED BY <1>4, <1>5, <1>6 DEF M!LinksOn

LEMMA HomeIsPlace == ASSUME NEW role \in M!RoleCodes PROVE M!HomeOf(role) \in M!Places
BY DEF M!HomeOf, M!Places, M!Areas, M!StaffItems, M!PortalItems

LEMMA MenuInit == ASSUME M!Init PROVE M!TypeOK
<1>1. M!Overview(holds) = M!Loads(holds, "overview", holds)
  BY DEF M!Loads
<1>2. place = M!HomeOf(holds) /\ place \in M!Places /\ place # M!Nowhere
  BY HomeIsPlace, AreasApart DEF M!Init
<1>3. place.area = holds /\ place.page = "overview"
  BY <1>2 DEF M!HomeOf
<1> QED BY <1>1, <1>2, <1>3 DEF M!Init, M!TypeOK

LEMMA MenuNext == ASSUME M!TypeOK, [M!Next]_menus PROVE M!TypeOK'
<1> USE DEF M!TypeOK
<1>1. CASE UNCHANGED menus
  BY <1>1 DEF menus
<1>2. ASSUME NEW at \in M!Places \cup {M!Nowhere}, NEW role \in M!RoleCodes,
             M!Displayed(at, role), profile' = role, holds' \in M!RoleCodes,
             outdated' \in BOOLEAN, offered' \in M!Places \cup M!QueueLinks \cup {M!Nowhere}
      PROVE  M!TypeOK'
  <2>1. place' = at /\ refused' = {} /\ misled' = {}
    BY <1>2 DEF M!Displayed
  <2>2. waiting' \subseteq IF at = M!Nowhere THEN {} ELSE M!Loads(at.area, at.page, role)
    BY <1>2 DEF M!Displayed
  <2> QED BY <1>2, <2>1, <2>2
<1>3. ASSUME NEW area \in M!Areas, NEW at \in M!InArea(area, M!StaffItems), M!Enter(at)
      PROVE  M!TypeOK'
  <2>1. at \in M!Places
    BY DEF M!InArea, M!Places
  <2> QED BY <1>2, <1>3, <2>1 DEF M!Enter
<1>4. ASSUME NEW target, M!Follow(target)
      PROVE  M!TypeOK'
  <2>1. place \in M!Places /\ target \in M!LinksOn(place, profile)
    BY <1>4 DEF M!Follow
  <2>2. target \in M!Places \cup M!QueueLinks
    BY <2>1, LinksNamePlaces
  <2>3. M!Reached(target, profile) \in M!Places \cup {M!Nowhere}
    BY <2>2, HomeIsPlace DEF M!Reached
  <2> QED BY <1>2, <1>4, <2>2, <2>3 DEF M!Follow
<1>5. ASSUME NEW role \in M!RoleCodes, M!ChangeRole(role)
      PROVE  M!TypeOK'
  BY <1>5 DEF M!ChangeRole
<1>6. ASSUME NEW request, M!Answer(request)
      PROVE  M!TypeOK'
  <2>1. request \in waiting /\ waiting' = waiting \ {request}
    BY <1>6 DEF M!Answer
  <2>2. misled' \subseteq misled \cup {request} /\ refused' \subseteq refused \cup {request}
    BY <1>6 DEF M!Answer
  <2>3. UNCHANGED <<holds, profile, place, offered, outdated>>
    BY <1>6 DEF M!Answer
  <2> QED BY <2>1, <2>2, <2>3
<1> QED BY <1>1, <1>3, <1>4, <1>5, <1>6 DEF M!Next
-----------------------------------------------------------------------------
(***************************************************************************)
(* The handler of a request is the first of all routes that takes it.  The *)
(* routes come controller by controller, and what one begins with says     *)
(* which controllers do not take it.                                       *)
(***************************************************************************)
\* A list of routes, with a length.
Listed(s) == \E n \in Nat : s = [k \in 1..n |-> s[k]]

\* A route takes a request, or is the first of a list to take it.
NoneTakes(s, request) == \A k \in DOMAIN s : ~M!Takes(s[k], request)
FirstTakes(s, request, route) ==
    \E k \in DOMAIN s : /\ s[k] = route /\ M!Takes(s[k], request)
                        /\ \A m \in DOMAIN s : M!Takes(s[m], request) => k <= m
\* If some route of the list takes the request, this is the first.
Leads(s, request, route) == NoneTakes(s, request) \/ FirstTakes(s, request, route)

LEMMA ListedSeq ==
    ASSUME NEW s, Listed(s) PROVE \E T : s \in Seq(T) /\ Len(s) \in Nat /\ DOMAIN s = 1..Len(s)
<1>1. PICK n \in Nat : s = [k \in 1..n |-> s[k]]
  BY DEF Listed
<1> DEFINE T == {s[k] : k \in 1..n}
<1>2. s \in [1..n -> T]
  BY <1>1
<1>3. s \in Seq(T)
  BY <1>2, SeqDef
<1> QED BY <1>3, LenProperties

\* Two lists, one after the other.
LEMMA Joined ==
    ASSUME NEW s, NEW t, Listed(s), Listed(t)
    PROVE  /\ Listed(s \o t) /\ DOMAIN s = 1..Len(s) /\ DOMAIN t = 1..Len(t)
           /\ Len(s) \in Nat /\ Len(t) \in Nat
           /\ DOMAIN (s \o t) = 1..(Len(s) + Len(t))
           /\ \A k \in 1..Len(s) : (s \o t)[k] = s[k]
           /\ \A k \in 1..Len(t) : (s \o t)[Len(s) + k] = t[k]
           /\ \A k \in 1..(Len(s) + Len(t)) :
                 k \in 1..Len(s) \/ \E j \in 1..Len(t) : k = Len(s) + j
<1>1. PICK A : s \in Seq(A) /\ Len(s) \in Nat /\ DOMAIN s = 1..Len(s)
  BY ListedSeq
<1>2. PICK B1 : t \in Seq(B1) /\ Len(t) \in Nat /\ DOMAIN t = 1..Len(t)
  BY ListedSeq
<1> DEFINE U == A \cup B1
<1>3. s \in Seq(U)
  BY <1>1, SeqMonotonic, A \subseteq U
<1>4. t \in Seq(U)
  BY <1>2, SeqMonotonic, B1 \subseteq U
<1> HIDE DEF U
<1>5. /\ s \o t \in Seq(U) /\ Len(s \o t) = Len(s) + Len(t)
      /\ \A k \in 1 .. Len(s) + Len(t) :
            (s \o t)[k] = IF k <= Len(s) THEN s[k] ELSE t[k - Len(s)]
  BY <1>3, <1>4, ConcatProperties
<1>6. s \o t \in [1..Len(s \o t) -> U] /\ Len(s \o t) \in Nat /\ DOMAIN (s \o t) = 1..Len(s \o t)
  BY <1>5, LenProperties
<1>7. Listed(s \o t)
  <2>1. s \o t = [k \in 1..Len(s \o t) |-> (s \o t)[k]]
    BY <1>6
  <2> QED BY <1>6, <2>1 DEF Listed
<1>8. \A k \in 1..Len(s) : (s \o t)[k] = s[k]
  BY <1>1, <1>2, <1>5
<1>9. \A k \in 1..Len(t) : (s \o t)[Len(s) + k] = t[k]
  BY <1>1, <1>2, <1>5
<1>10. ASSUME NEW k \in 1..(Len(s) + Len(t)), k \notin 1..Len(s)
       PROVE  \E j \in 1..Len(t) : k = Len(s) + j
  <2>1. k - Len(s) \in 1..Len(t) /\ k = Len(s) + (k - Len(s))
    BY <1>1, <1>2, <1>10
  <2> QED BY <2>1
<1> QED BY <1>1, <1>2, <1>5, <1>6, <1>7, <1>8, <1>9, <1>10

LEMMA JoinedLeads ==
    ASSUME NEW s, NEW t, Listed(s), Listed(t), NEW q, NEW h, Leads(s, q, h), Leads(t, q, h)
    PROVE  /\ Listed(s \o t) /\ Leads(s \o t, q, h)
           /\ NoneTakes(s \o t, q) => NoneTakes(s, q) /\ NoneTakes(t, q)
<1> DEFINE u == s \o t
           a == Len(s)
           b == Len(t)
<1>1. /\ Listed(u) /\ DOMAIN s = 1..a /\ DOMAIN t = 1..b /\ a \in Nat /\ b \in Nat
      /\ DOMAIN u = 1..(a + b)
  BY Joined
<1>2. \A k \in 1..a : u[k] = s[k]
  BY Joined
<1>3. \A k \in 1..b : u[a + k] = t[k]
  BY Joined
<1>4. \A k \in 1..(a + b) : k \in 1..a \/ \E j \in 1..b : k = a + j
  BY Joined
<1> HIDE DEF u, a, b
<1>5. NoneTakes(u, q) => NoneTakes(s, q) /\ NoneTakes(t, q)
  <2>1. \A k \in 1..a : k \in DOMAIN u
    BY <1>1
  <2>2. \A k \in 1..b : a + k \in DOMAIN u
    BY <1>1
  <2> QED BY <1>1, <1>2, <1>3, <2>1, <2>2, Zenon DEF NoneTakes
<1>6. ASSUME FirstTakes(s, q, h) PROVE FirstTakes(u, q, h)
  <2>1. PICK k \in DOMAIN s : /\ s[k] = h /\ M!Takes(s[k], q)
                              /\ \A m \in DOMAIN s : M!Takes(s[m], q) => k <= m
    BY <1>6 DEF FirstTakes
  <2>2. k \in 1..a /\ k \in DOMAIN u /\ u[k] = h /\ M!Takes(u[k], q)
    BY <1>1, <1>2, <2>1
  <2>3. ASSUME NEW m \in DOMAIN u, M!Takes(u[m], q) PROVE k <= m
    <3>1. CASE m \in 1..a
      BY <1>1, <1>2, <2>1, <2>3, <3>1
    <3>2. CASE m \notin 1..a
      BY <1>1, <2>2, <3>2
    <3> QED BY <3>1, <3>2
  <2> QED BY <2>2, <2>3 DEF FirstTakes
<1>7. ASSUME NoneTakes(s, q), FirstTakes(t, q, h) PROVE FirstTakes(u, q, h)
  <2>1. PICK k \in DOMAIN t : /\ t[k] = h /\ M!Takes(t[k], q)
                              /\ \A m \in DOMAIN t : M!Takes(t[m], q) => k <= m
    BY <1>7 DEF FirstTakes
  <2>2. a + k \in DOMAIN u /\ u[a + k] = h /\ M!Takes(u[a + k], q)
    BY <1>1, <1>3, <2>1
  <2>3. ASSUME NEW m \in DOMAIN u, M!Takes(u[m], q) PROVE a + k <= m
    <3>1. m \notin 1..a
      BY <1>1, <1>2, <1>7, <2>3 DEF NoneTakes
    <3>2. PICK j \in 1..b : m = a + j
      BY <1>1, <1>4, <3>1
    <3>3. M!Takes(t[j], q)
      BY <1>3, <2>3, <3>2
    <3>4. k <= j /\ k \in Nat /\ j \in Nat
      BY <1>1, <2>1, <3>3
    <3> QED BY <1>1, <3>2, <3>4
  <2> QED BY <2>2, <2>3 DEF FirstTakes
<1>8. ASSUME NoneTakes(s, q), NoneTakes(t, q) PROVE NoneTakes(u, q)
  <2>1. ASSUME NEW k \in DOMAIN u PROVE ~M!Takes(u[k], q)
    <3>1. CASE k \in 1..a
      BY <1>1, <1>2, <1>8, <3>1, Zenon DEF NoneTakes
    <3>2. CASE \E j \in 1..b : k = a + j
      BY <1>1, <1>3, <1>8, <3>2, Zenon DEF NoneTakes
    <3> QED BY <1>1, <1>4, <3>1, <3>2
  <2> QED BY <2>1 DEF NoneTakes
<1>9. Leads(u, q, h)
  BY <1>6, <1>7, <1>8 DEF Leads
<1> QED BY <1>1, <1>5, <1>9 DEF u

LEMMA RoutesListed ==
    /\ Listed(M!AppRoutes)
    /\ Listed(M!CasesRoutes)
    /\ Listed(M!CaseTypesRoutes)
    /\ Listed(M!WorkflowRoutes)
    /\ Listed(M!IdentityRoutes)
    /\ Listed(M!TenancyRoutes)
    /\ Listed(M!CrmRoutes)
    /\ Listed(M!DocumentsRoutes)
    /\ Listed(M!FinanceRoutes)
    /\ Listed(M!NotificationsRoutes)
    /\ Listed(M!ReportsRoutes)
    /\ Listed(M!AdminRoutes)
    /\ Listed(M!PublicRoutes)
<1>1. M!AppRoutes = [k \in 1..1 |-> M!AppRoutes[k]]
  BY DEF M!AppRoutes
<1>2. M!CasesRoutes = [k \in 1..17 |-> M!CasesRoutes[k]]
  BY DEF M!CasesRoutes
<1>3. M!CaseTypesRoutes = [k \in 1..2 |-> M!CaseTypesRoutes[k]]
  BY DEF M!CaseTypesRoutes
<1>4. M!WorkflowRoutes = [k \in 1..18 |-> M!WorkflowRoutes[k]]
  BY DEF M!WorkflowRoutes
<1>5. M!IdentityRoutes = [k \in 1..17 |-> M!IdentityRoutes[k]]
  BY DEF M!IdentityRoutes
<1>6. M!TenancyRoutes = [k \in 1..20 |-> M!TenancyRoutes[k]]
  BY DEF M!TenancyRoutes
<1>7. M!CrmRoutes = [k \in 1..14 |-> M!CrmRoutes[k]]
  BY DEF M!CrmRoutes
<1>8. M!DocumentsRoutes = [k \in 1..12 |-> M!DocumentsRoutes[k]]
  BY DEF M!DocumentsRoutes
<1>9. M!FinanceRoutes = [k \in 1..15 |-> M!FinanceRoutes[k]]
  BY DEF M!FinanceRoutes
<1>10. M!NotificationsRoutes = [k \in 1..8 |-> M!NotificationsRoutes[k]]
  BY DEF M!NotificationsRoutes
<1>11. M!ReportsRoutes = [k \in 1..5 |-> M!ReportsRoutes[k]]
  BY DEF M!ReportsRoutes
<1>12. M!AdminRoutes = [k \in 1..18 |-> M!AdminRoutes[k]]
  BY DEF M!AdminRoutes
<1>13. M!PublicRoutes = [k \in 1..1 |-> M!PublicRoutes[k]]
  BY DEF M!PublicRoutes
<1> QED BY <1>1, <1>2, <1>3, <1>4, <1>5, <1>6, <1>7, <1>8, <1>9, <1>10, <1>11, <1>12, <1>13 DEF Listed

\* A controller takes nothing that begins as none of its paths does.
LEMMA Elsewhere ==
    ASSUME NEW s, NEW roots, "*" \notin roots, NEW q, q[2] \notin roots,
           \A k \in DOMAIN s : 2 \in DOMAIN s[k] /\ s[k][2] \in roots
    PROVE  NoneTakes(s, q)
BY Zenon DEF NoneTakes, M!Takes

LEMMA OthersTake ==
    ASSUME NEW q, Len(q) # 1, q[1] = "GET"
    PROVE  /\ NoneTakes(M!AppRoutes, q)
           /\ q[2] \notin {"cases"} => NoneTakes(M!CasesRoutes, q)
           /\ q[2] \notin {"case-types"} => NoneTakes(M!CaseTypesRoutes, q)
           /\ q[2] \notin {"tasks", "approvals", "process-templates", "escalation-rules", "escalations"} =>
                 NoneTakes(M!WorkflowRoutes, q)
           /\ q[2] \notin {"auth"} => NoneTakes(M!IdentityRoutes, q)
           /\ q[2] \notin {"organizations", "invitations", "memberships", "users", "roles"} =>
                 NoneTakes(M!TenancyRoutes, q)
           /\ q[2] \notin {"organisations", "clients", "partners", "contacts", "crm", "search"} =>
                 NoneTakes(M!CrmRoutes, q)
           /\ q[2] \notin {"documents", "signature-requests", "webhooks"} =>
                 NoneTakes(M!DocumentsRoutes, q)
           /\ q[2] \notin {"invoices", "finance", "webhooks", "clients", "payments"} =>
                 NoneTakes(M!FinanceRoutes, q)
           /\ q[2] \notin {"notifications", "notification-preferences"} =>
                 NoneTakes(M!NotificationsRoutes, q)
           /\ q[2] \notin {"reports", "jobs"} => NoneTakes(M!ReportsRoutes, q)
           /\ q[2] \notin {"admin", "integrations", "health"} => NoneTakes(M!AdminRoutes, q)
           /\ q[2] \notin {"public"} => NoneTakes(M!PublicRoutes, q)
<1>1. NoneTakes(M!AppRoutes, q)
  BY DEF NoneTakes, M!Takes, M!AppRoutes
<1>2. q[2] # "case-types" => NoneTakes(M!CaseTypesRoutes, q)
  BY DEF NoneTakes, M!Takes, M!CaseTypesRoutes
<1>3. q[2] \notin {"cases"} => NoneTakes(M!CasesRoutes, q)
  <2>1. \A k \in DOMAIN M!CasesRoutes :
           /\ 2 \in DOMAIN M!CasesRoutes[k]
           /\ M!CasesRoutes[k][2] \in {"cases"}
    BY DEF M!CasesRoutes
  <2> QED BY <2>1, Elsewhere
<1>4. q[2] \notin {"tasks", "approvals", "process-templates", "escalation-rules", "escalations"} =>
         NoneTakes(M!WorkflowRoutes, q)
  <2>1. \A k \in DOMAIN M!WorkflowRoutes :
           /\ 2 \in DOMAIN M!WorkflowRoutes[k]
           /\ M!WorkflowRoutes[k][2] \in {"tasks", "approvals", "process-templates", "escalation-rules", "escalations"}
    BY DEF M!WorkflowRoutes
  <2> QED BY <2>1, Elsewhere
<1>5. q[2] \notin {"auth"} => NoneTakes(M!IdentityRoutes, q)
  <2>1. \A k \in DOMAIN M!IdentityRoutes :
           /\ 2 \in DOMAIN M!IdentityRoutes[k]
           /\ M!IdentityRoutes[k][2] \in {"auth"}
    BY DEF M!IdentityRoutes
  <2> QED BY <2>1, Elsewhere
<1>6. q[2] \notin {"organizations", "invitations", "memberships", "users", "roles"} =>
         NoneTakes(M!TenancyRoutes, q)
  <2>1. \A k \in DOMAIN M!TenancyRoutes :
           /\ 2 \in DOMAIN M!TenancyRoutes[k]
           /\ M!TenancyRoutes[k][2] \in {"organizations", "invitations", "memberships", "users", "roles"}
    BY DEF M!TenancyRoutes
  <2> QED BY <2>1, Elsewhere
<1>7. q[2] \notin {"organisations", "clients", "partners", "contacts", "crm", "search"} =>
         NoneTakes(M!CrmRoutes, q)
  <2>1. \A k \in DOMAIN M!CrmRoutes :
           /\ 2 \in DOMAIN M!CrmRoutes[k]
           /\ M!CrmRoutes[k][2] \in {"organisations", "clients", "partners", "contacts", "crm", "search"}
    BY DEF M!CrmRoutes
  <2> QED BY <2>1, Elsewhere
<1>8. q[2] \notin {"documents", "signature-requests", "webhooks"} =>
         NoneTakes(M!DocumentsRoutes, q)
  <2>1. \A k \in DOMAIN M!DocumentsRoutes :
           /\ 2 \in DOMAIN M!DocumentsRoutes[k]
           /\ M!DocumentsRoutes[k][2] \in {"documents", "signature-requests", "webhooks"}
    BY DEF M!DocumentsRoutes
  <2> QED BY <2>1, Elsewhere
<1>9. q[2] \notin {"invoices", "finance", "webhooks", "clients", "payments"} =>
         NoneTakes(M!FinanceRoutes, q)
  <2>1. \A k \in DOMAIN M!FinanceRoutes :
           /\ 2 \in DOMAIN M!FinanceRoutes[k]
           /\ M!FinanceRoutes[k][2] \in {"invoices", "finance", "webhooks", "clients", "payments"}
    BY DEF M!FinanceRoutes
  <2> QED BY <2>1, Elsewhere
<1>10. q[2] \notin {"notifications", "notification-preferences"} =>
         NoneTakes(M!NotificationsRoutes, q)
  <2>1. \A k \in DOMAIN M!NotificationsRoutes :
           /\ 2 \in DOMAIN M!NotificationsRoutes[k]
           /\ M!NotificationsRoutes[k][2] \in {"notifications", "notification-preferences"}
    BY DEF M!NotificationsRoutes
  <2> QED BY <2>1, Elsewhere
<1>11. q[2] \notin {"reports", "jobs"} => NoneTakes(M!ReportsRoutes, q)
  <2>1. \A k \in DOMAIN M!ReportsRoutes :
           /\ 2 \in DOMAIN M!ReportsRoutes[k]
           /\ M!ReportsRoutes[k][2] \in {"reports", "jobs"}
    BY DEF M!ReportsRoutes
  <2> QED BY <2>1, Elsewhere
<1>12. q[2] \notin {"admin", "integrations", "health"} => NoneTakes(M!AdminRoutes, q)
  <2>1. \A k \in DOMAIN M!AdminRoutes :
           /\ 2 \in DOMAIN M!AdminRoutes[k]
           /\ M!AdminRoutes[k][2] \in {"admin", "integrations", "health"}
    BY DEF M!AdminRoutes
  <2> QED BY <2>1, Elsewhere
<1>13. q[2] \notin {"public"} => NoneTakes(M!PublicRoutes, q)
  <2>1. \A k \in DOMAIN M!PublicRoutes :
           /\ 2 \in DOMAIN M!PublicRoutes[k]
           /\ M!PublicRoutes[k][2] \in {"public"}
    BY DEF M!PublicRoutes
  <2> QED BY <2>1, Elsewhere
<1> QED BY <1>1, <1>2, <1>3, <1>4, <1>5, <1>6, <1>7, <1>8, <1>9, <1>10, <1>11, <1>12, <1>13

\* The controllers, as AppModule has them.
Lists ==
    {M!AppRoutes, M!CasesRoutes, M!CaseTypesRoutes, M!WorkflowRoutes, M!IdentityRoutes,
     M!TenancyRoutes, M!CrmRoutes, M!DocumentsRoutes, M!FinanceRoutes, M!NotificationsRoutes,
     M!ReportsRoutes, M!AdminRoutes, M!PublicRoutes}

\* The first route of all is the first of the list that has one.
LEMMA Handled ==
    ASSUME NEW q, NEW h, NEW taker \in Lists, FirstTakes(taker, q, h),
           \A s \in Lists : NoneTakes(s, q) \/ s = taker
    PROVE  M!Handler(q) = h
<1>l. \A s \in Lists : Listed(s) /\ Leads(s, q, h)
  BY RoutesListed DEF Lists, Leads
<1>n. ~NoneTakes(taker, q)
  BY DEF FirstTakes, NoneTakes
<1> DEFINE a0 == M!AppRoutes
<1>0. Listed(a0) /\ Leads(a0, q, h)
  BY <1>l DEF Lists
<1> HIDE DEF a0
<1> DEFINE a1 == a0 \o M!CasesRoutes
<1>1. /\ Listed(a1) /\ Leads(a1, q, h)
      /\ NoneTakes(a1, q) => NoneTakes(a0, q) /\ NoneTakes(M!CasesRoutes, q)
  BY <1>l, <1>0, JoinedLeads DEF Lists
<1> HIDE DEF a1
<1> DEFINE a2 == a1 \o M!CaseTypesRoutes
<1>2. /\ Listed(a2) /\ Leads(a2, q, h)
      /\ NoneTakes(a2, q) => NoneTakes(a1, q) /\ NoneTakes(M!CaseTypesRoutes, q)
  BY <1>l, <1>1, JoinedLeads DEF Lists
<1> HIDE DEF a2
<1> DEFINE a3 == a2 \o M!WorkflowRoutes
<1>3. /\ Listed(a3) /\ Leads(a3, q, h)
      /\ NoneTakes(a3, q) => NoneTakes(a2, q) /\ NoneTakes(M!WorkflowRoutes, q)
  BY <1>l, <1>2, JoinedLeads DEF Lists
<1> HIDE DEF a3
<1> DEFINE a4 == a3 \o M!IdentityRoutes
<1>4. /\ Listed(a4) /\ Leads(a4, q, h)
      /\ NoneTakes(a4, q) => NoneTakes(a3, q) /\ NoneTakes(M!IdentityRoutes, q)
  BY <1>l, <1>3, JoinedLeads DEF Lists
<1> HIDE DEF a4
<1> DEFINE a5 == a4 \o M!TenancyRoutes
<1>5. /\ Listed(a5) /\ Leads(a5, q, h)
      /\ NoneTakes(a5, q) => NoneTakes(a4, q) /\ NoneTakes(M!TenancyRoutes, q)
  BY <1>l, <1>4, JoinedLeads DEF Lists
<1> HIDE DEF a5
<1> DEFINE a6 == a5 \o M!CrmRoutes
<1>6. /\ Listed(a6) /\ Leads(a6, q, h)
      /\ NoneTakes(a6, q) => NoneTakes(a5, q) /\ NoneTakes(M!CrmRoutes, q)
  BY <1>l, <1>5, JoinedLeads DEF Lists
<1> HIDE DEF a6
<1> DEFINE a7 == a6 \o M!DocumentsRoutes
<1>7. /\ Listed(a7) /\ Leads(a7, q, h)
      /\ NoneTakes(a7, q) => NoneTakes(a6, q) /\ NoneTakes(M!DocumentsRoutes, q)
  BY <1>l, <1>6, JoinedLeads DEF Lists
<1> HIDE DEF a7
<1> DEFINE a8 == a7 \o M!FinanceRoutes
<1>8. /\ Listed(a8) /\ Leads(a8, q, h)
      /\ NoneTakes(a8, q) => NoneTakes(a7, q) /\ NoneTakes(M!FinanceRoutes, q)
  BY <1>l, <1>7, JoinedLeads DEF Lists
<1> HIDE DEF a8
<1> DEFINE a9 == a8 \o M!NotificationsRoutes
<1>9. /\ Listed(a9) /\ Leads(a9, q, h)
      /\ NoneTakes(a9, q) => NoneTakes(a8, q) /\ NoneTakes(M!NotificationsRoutes, q)
  BY <1>l, <1>8, JoinedLeads DEF Lists
<1> HIDE DEF a9
<1> DEFINE a10 == a9 \o M!ReportsRoutes
<1>10. /\ Listed(a10) /\ Leads(a10, q, h)
       /\ NoneTakes(a10, q) => NoneTakes(a9, q) /\ NoneTakes(M!ReportsRoutes, q)
  BY <1>l, <1>9, JoinedLeads DEF Lists
<1> HIDE DEF a10
<1> DEFINE a11 == a10 \o M!AdminRoutes
<1>11. /\ Listed(a11) /\ Leads(a11, q, h)
       /\ NoneTakes(a11, q) => NoneTakes(a10, q) /\ NoneTakes(M!AdminRoutes, q)
  BY <1>l, <1>10, JoinedLeads DEF Lists
<1> HIDE DEF a11
<1> DEFINE a12 == a11 \o M!PublicRoutes
<1>12. /\ Listed(a12) /\ Leads(a12, q, h)
       /\ NoneTakes(a12, q) => NoneTakes(a11, q) /\ NoneTakes(M!PublicRoutes, q)
  BY <1>l, <1>11, JoinedLeads DEF Lists
<1> HIDE DEF a12
<1>13. M!Routes = a12
  BY DEF M!Routes, a0, a1, a2, a3, a4, a5, a6, a7, a8, a9, a10, a11, a12
<1>14. ~NoneTakes(a12, q)
  BY <1>1, <1>2, <1>3, <1>4, <1>5, <1>6, <1>7, <1>8, <1>9, <1>10, <1>11, <1>12, <1>n DEF Lists, a0
<1>15. FirstTakes(M!Routes, q, h)
  BY <1>12, <1>13, <1>14 DEF Leads
<1>16. PICK k \in DOMAIN M!Routes :
          /\ M!Routes[k] = h /\ M!Takes(M!Routes[k], q)
          /\ \A m \in DOMAIN M!Routes : M!Takes(M!Routes[m], q) => k <= m
  BY <1>15 DEF FirstTakes
<1> DEFINE taking == {n \in DOMAIN M!Routes : M!Takes(M!Routes[n], q)}
<1>17. k \in taking /\ \A m \in taking : k <= m
  BY <1>16
<1>18. DOMAIN M!Routes \subseteq Nat
  <2>1. PICK n \in Nat : M!Routes = [i \in 1..n |-> M!Routes[i]]
    BY <1>12, <1>13 DEF Listed
  <2> QED BY <2>1
<1>19. \A j \in taking : (\A m \in taking : j <= m) => j = k
  BY <1>17, <1>18
<1>20. (CHOOSE n \in taking : \A m \in taking : n <= m) = k
  <2> HIDE DEF taking
  <2> QED BY <1>17, <1>19
<1> QED BY <1>16, <1>17, <1>20 DEF M!Handler

\* Each request that a page sends when it is opened has the handler it is meant for.
PageRequests ==
    {<<"GET", "cases">>, <<"GET", "case-types">>, <<"GET", "tasks">>, <<"GET", "approvals">>,
     <<"GET", "escalation-rules">>, <<"GET", "users">>, <<"GET", "clients">>,
     <<"GET", "partners">>, <<"GET", "documents">>, <<"GET", "invoices">>,
     <<"GET", "notifications">>, <<"GET", "reports", "dashboard">>, <<"GET", "integrations">>,
     <<"GET", "admin", "settings">>, <<"GET", "admin", "flags">>,
     <<"GET", "admin", "reference", "tax-rates">>}

LEMMA RequestsReach == ASSUME NEW q \in PageRequests PROVE M!Handler(q) = M!MeantFor(q)
<1>1. q # <<"GET", "admin", "reference", "tax-rates">> => M!MeantFor(q) = q
  BY DEF PageRequests, M!MeantFor
<1>2. q = <<"GET", "admin", "reference", "tax-rates">> =>
         M!MeantFor(q) = <<"GET", "admin", "reference", "*">>
  BY DEF M!MeantFor
<1>3. q[1] = "GET" /\ Len(q) # 1
  BY DEF PageRequests
<1>4. CASE q = <<"GET", "cases">>
  <2>1. FirstTakes(M!CasesRoutes, q, q)
    BY <1>4 DEF FirstTakes, M!Takes, M!CasesRoutes
  <2>2. \A s \in Lists : NoneTakes(s, q) \/ s = M!CasesRoutes
    BY <1>3, <1>4, OthersTake DEF Lists
  <2> QED BY <1>1, <1>2, <1>4, <2>1, <2>2, Handled DEF Lists
<1>5. CASE q = <<"GET", "case-types">>
  <2>1. FirstTakes(M!CaseTypesRoutes, q, q)
    BY <1>5 DEF FirstTakes, M!Takes, M!CaseTypesRoutes
  <2>2. \A s \in Lists : NoneTakes(s, q) \/ s = M!CaseTypesRoutes
    BY <1>3, <1>5, OthersTake DEF Lists
  <2> QED BY <1>1, <1>2, <1>5, <2>1, <2>2, Handled DEF Lists
<1>6. CASE q \in {<<"GET", "tasks">>, <<"GET", "approvals">>, <<"GET", "escalation-rules">>}
  <2>1. FirstTakes(M!WorkflowRoutes, <<"GET", "tasks">>, <<"GET", "tasks">>)
    BY DEF FirstTakes, M!Takes, M!WorkflowRoutes
  <2>2. FirstTakes(M!WorkflowRoutes, <<"GET", "approvals">>, <<"GET", "approvals">>)
    BY DEF FirstTakes, M!Takes, M!WorkflowRoutes
  <2>3. FirstTakes(M!WorkflowRoutes, <<"GET", "escalation-rules">>, <<"GET", "escalation-rules">>)
    BY DEF FirstTakes, M!Takes, M!WorkflowRoutes
  <2>4. \A s \in Lists : NoneTakes(s, q) \/ s = M!WorkflowRoutes
    BY <1>3, <1>6, OthersTake DEF Lists
  <2>5. FirstTakes(M!WorkflowRoutes, q, q)
    BY <1>6, <2>1, <2>2, <2>3
  <2> QED BY <1>1, <1>2, <1>6, <2>4, <2>5, Handled DEF Lists
<1>7. CASE q = <<"GET", "users">>
  <2>1. FirstTakes(M!TenancyRoutes, q, q)
    BY <1>7 DEF FirstTakes, M!Takes, M!TenancyRoutes
  <2>2. \A s \in Lists : NoneTakes(s, q) \/ s = M!TenancyRoutes
    BY <1>3, <1>7, OthersTake DEF Lists
  <2> QED BY <1>1, <1>2, <1>7, <2>1, <2>2, Handled DEF Lists
<1>8. CASE q \in {<<"GET", "clients">>, <<"GET", "partners">>}
  <2>1. FirstTakes(M!CrmRoutes, <<"GET", "clients">>, <<"GET", "clients">>)
    BY DEF FirstTakes, M!Takes, M!CrmRoutes
  <2>2. FirstTakes(M!CrmRoutes, <<"GET", "partners">>, <<"GET", "partners">>)
    BY DEF FirstTakes, M!Takes, M!CrmRoutes
  <2>3. NoneTakes(M!FinanceRoutes, <<"GET", "clients">>)
    BY DEF NoneTakes, M!Takes, M!FinanceRoutes
  <2>4. NoneTakes(M!FinanceRoutes, <<"GET", "partners">>)
    BY DEF NoneTakes, M!Takes, M!FinanceRoutes
  <2>5. \A s \in Lists : NoneTakes(s, q) \/ s = M!CrmRoutes
    BY <1>3, <1>8, <2>3, <2>4, OthersTake DEF Lists
  <2>6. FirstTakes(M!CrmRoutes, q, q)
    BY <1>8, <2>1, <2>2
  <2> QED BY <1>1, <1>2, <1>8, <2>5, <2>6, Handled DEF Lists
<1>9. CASE q = <<"GET", "documents">>
  <2>1. FirstTakes(M!DocumentsRoutes, q, q)
    BY <1>9 DEF FirstTakes, M!Takes, M!DocumentsRoutes
  <2>2. \A s \in Lists : NoneTakes(s, q) \/ s = M!DocumentsRoutes
    BY <1>3, <1>9, OthersTake DEF Lists
  <2> QED BY <1>1, <1>2, <1>9, <2>1, <2>2, Handled DEF Lists
<1>10. CASE q = <<"GET", "invoices">>
  <2>1. FirstTakes(M!FinanceRoutes, q, q)
    BY <1>10 DEF FirstTakes, M!Takes, M!FinanceRoutes
  <2>2. \A s \in Lists : NoneTakes(s, q) \/ s = M!FinanceRoutes
    BY <1>3, <1>10, OthersTake DEF Lists
  <2> QED BY <1>1, <1>2, <1>10, <2>1, <2>2, Handled DEF Lists
<1>11. CASE q = <<"GET", "notifications">>
  <2>1. FirstTakes(M!NotificationsRoutes, q, q)
    BY <1>11 DEF FirstTakes, M!Takes, M!NotificationsRoutes
  <2>2. \A s \in Lists : NoneTakes(s, q) \/ s = M!NotificationsRoutes
    BY <1>3, <1>11, OthersTake DEF Lists
  <2> QED BY <1>1, <1>2, <1>11, <2>1, <2>2, Handled DEF Lists
<1>12. CASE q = <<"GET", "reports", "dashboard">>
  <2>1. FirstTakes(M!ReportsRoutes, q, q)
    BY <1>12 DEF FirstTakes, M!Takes, M!ReportsRoutes
  <2>2. \A s \in Lists : NoneTakes(s, q) \/ s = M!ReportsRoutes
    BY <1>3, <1>12, OthersTake DEF Lists
  <2> QED BY <1>1, <1>2, <1>12, <2>1, <2>2, Handled DEF Lists
<1>13. CASE q \in {<<"GET", "integrations">>, <<"GET", "admin", "settings">>,
                 <<"GET", "admin", "flags">>}
  <2>1. FirstTakes(M!AdminRoutes, <<"GET", "integrations">>, <<"GET", "integrations">>)
    BY DEF FirstTakes, M!Takes, M!AdminRoutes
  <2>2. FirstTakes(M!AdminRoutes, <<"GET", "admin", "settings">>, <<"GET", "admin", "settings">>)
    BY DEF FirstTakes, M!Takes, M!AdminRoutes
  <2>3. FirstTakes(M!AdminRoutes, <<"GET", "admin", "flags">>, <<"GET", "admin", "flags">>)
    BY DEF FirstTakes, M!Takes, M!AdminRoutes
  <2>4. \A s \in Lists : NoneTakes(s, q) \/ s = M!AdminRoutes
    BY <1>3, <1>13, OthersTake DEF Lists
  <2>5. FirstTakes(M!AdminRoutes, q, q)
    BY <1>13, <2>1, <2>2, <2>3
  <2> QED BY <1>1, <1>2, <1>13, <2>4, <2>5, Handled DEF Lists
<1>14. CASE q = <<"GET", "admin", "reference", "tax-rates">>
  <2>1. FirstTakes(M!AdminRoutes, q, <<"GET", "admin", "reference", "*">>)
    BY <1>14 DEF FirstTakes, M!Takes, M!AdminRoutes
  <2>2. \A s \in Lists : NoneTakes(s, q) \/ s = M!AdminRoutes
    BY <1>3, <1>14, OthersTake DEF Lists
  <2> QED BY <1>1, <1>2, <1>14, <2>1, <2>2, Handled DEF Lists
<1> QED BY <1>4, <1>5, <1>6, <1>7, <1>8, <1>9, <1>10, <1>11, <1>12, <1>13, <1>14 DEF PageRequests

LEMMA PagesAsk ==
    ASSUME NEW area \in M!Areas, NEW shown \in M!StaffItems, NEW role
    PROVE  M!Loads(area, shown, role) \subseteq PageRequests
<1>1. M!Overview(area) \subseteq PageRequests
  BY DEF M!Overview, M!Areas, M!RoleCodes, M!Permissions, M!VisitorDashboard, M!ClientDashboard,
         M!PartnerDashboard, M!AgentDashboard, M!ManagerDashboard, M!AdminDashboard,
         M!SuperDashboard, M!CaseList, M!TaskList, M!ApprovalList, M!ReportStats, M!UserList,
         M!NotificationList, PageRequests
<1> QED
  BY <1>1 DEF M!Loads, M!StaffItems, M!PortalItems, M!CaseList, M!TaskList, M!ApprovalList,
              M!ReportStats, M!UserList, M!NotificationList, PageRequests

\* What a link of an area leads to, for a role.
Offered(area, shown, role) ==
    \/ shown = "overview" \/ shown \in M!Menu(area, role)
    \/ area \in {"Visitor", "Client"} /\ shown = "cases"
    \/ area = "Partner" /\ shown = "reports"
    \/ area = "Manager" /\ shown = "invoices"
    \/ area = "Admin" /\ shown = "users"

GiveUpLists ==
    {M!CaseList, M!UserList, <<"GET", "invoices">>, M!TaskList, M!ApprovalList,
     <<"GET", "documents">>}

LEMMA OfferedOpens ==
    ASSUME NEW role \in M!RoleCodes, role # "Super", NEW shown, Offered(role, shown, role)
    PROVE  /\ ~M!Can(role, "*") /\ M!GateOpens(shown, role)
           /\ M!GivesUp(shown) =>
                \A q \in M!Loads(role, shown, role) \cap GiveUpLists :
                    M!Serves(role, M!MeantFor(q))
<1>1. ~M!Can(role, "*")
  BY DEF M!Can, M!RoleCodes, M!Permissions, M!Staff
<1>2. M!GateOpens(shown, role)
  BY DEF Offered, M!Menu, M!GateOpens, M!Asks, M!Can, M!RoleCodes, M!Permissions, M!Staff
<1>3. ASSUME NEW q \in GiveUpLists PROVE M!MeantFor(q) = q
  BY DEF GiveUpLists, M!CaseList, M!UserList, M!TaskList, M!ApprovalList, M!MeantFor
<1>4. M!Loads(role, "cases", role) \cap GiveUpLists \subseteq {M!CaseList}
  BY DEF M!Loads, GiveUpLists, M!CaseList, M!UserList, M!TaskList, M!ApprovalList
<1>5. Offered(role, "cases", role) => M!Serves(role, M!CaseList)
  <2>1. Offered(role, "cases", role) => role \in M!RoleCodes \ {"Super", "Partner"}
    BY DEF Offered, M!Menu, M!Asks, M!Can, M!RoleCodes, M!Permissions
  <2>2. role \in M!RoleCodes \ {"Super", "Partner"} =>
          M!Permissions[role] \cap {"case.read.org", "case.read.own"} # {}
    BY DEF M!RoleCodes, M!Permissions, M!Staff
  <2> QED BY <2>1, <2>2 DEF M!Serves, M!CaseList, M!UserList
<1>6. M!Can(role, "user.read") => M!Serves(role, M!UserList)
  BY DEF M!Serves, M!CaseList, M!UserList
<1>7. M!Can(role, "finance.read") => M!Serves(role, <<"GET", "invoices">>)
  BY DEF M!Serves, M!CaseList, M!UserList
<1>8. M!Can(role, "document.read") => M!Serves(role, <<"GET", "documents">>)
  BY DEF M!Serves, M!CaseList, M!UserList
<1>9. M!Serves(role, M!TaskList) /\ M!Serves(role, M!ApprovalList)
  BY DEF M!Serves, M!CaseList, M!UserList, M!TaskList, M!ApprovalList
<1>10. /\ M!Loads(role, "users", role) = {M!UserList}
       /\ M!Loads(role, "invoices", role) = {<<"GET", "invoices">>}
       /\ M!Loads(role, "documents", role) = {<<"GET", "documents">>}
       /\ M!Loads(role, "tasks", role) = {M!TaskList}
       /\ M!Loads(role, "approvals", role) = {M!ApprovalList}
  BY DEF M!Loads
<1>11. /\ shown = "users" => M!Can(role, "user.read")
       /\ shown = "invoices" => M!Can(role, "finance.read")
       /\ shown = "documents" => M!Can(role, "document.read")
  BY <1>2 DEF M!GateOpens, M!Asks
<1>12. ASSUME M!GivesUp(shown), NEW q \in M!Loads(role, shown, role) \cap GiveUpLists
       PROVE  M!Serves(role, M!MeantFor(q))
  <2>1. M!MeantFor(q) = q
    BY <1>3
  <2>2. shown \in {"cases", "users", "invoices", "tasks", "approvals", "documents"}
    BY <1>12 DEF M!GivesUp
  <2>3. M!Serves(role, q)
    BY <1>4, <1>5, <1>6, <1>7, <1>8, <1>9, <1>10, <1>11, <1>12, <2>2
  <2> QED BY <2>1, <2>3
<1> QED BY <1>1, <1>2, <1>12

\* The links that a role finds in its own area.
LEMMA OwnLinks ==
    ASSUME NEW role \in M!RoleCodes, role # "Super", NEW at, at.area = role,
           NEW target \in M!LinksOn(at, role), target \notin M!QueueLinks
    PROVE  target.area = role /\ Offered(role, target.page, role)
<1>1. CASE target \in M!InArea(role, M!Menu(role, role))
  BY <1>1 DEF M!InArea, Offered
<1>2. CASE target \in M!HeaderLinks(role)
  <2>1. M!HeaderLinks(role) \subseteq
          {[area |-> role, page |-> p] : p \in {q \in {"cases", "users"} :
              \/ role \in {"Visitor", "Client"} /\ q = "cases"
              \/ role = "Admin" /\ q = "users"}}
    BY DEF M!HeaderLinks, M!InArea, M!RoleCodes, M!Permissions
  <2> QED BY <1>2, <2>1 DEF Offered
<1>3. CASE target \in M!DashboardLinks(role)
  <2>1. CASE role \in {"Visitor", "Client"}
    BY <1>3, <2>1 DEF M!DashboardLinks, M!InArea, Offered
  <2>2. CASE role = "Partner"
    BY <1>3, <2>2 DEF M!DashboardLinks, M!InArea, Offered
  <2>3. CASE role = "Manager"
    BY <1>3, <2>3 DEF M!DashboardLinks, M!InArea, Offered
  <2>4. CASE role = "Admin"
    BY <1>3, <2>4 DEF M!DashboardLinks, M!InArea, Offered
  <2>5. CASE role \notin {"Visitor", "Client", "Partner", "Manager", "Admin"}
    BY <1>3, <2>5 DEF M!DashboardLinks
  <2> QED BY <2>1, <2>2, <2>3, <2>4, <2>5
<1> QED BY <1>1, <1>2, <1>3 DEF M!LinksOn

\* Where a link has led a profile, and what an answer has said of it.
LinkFollowed == offered # M!Nowhere =>
    /\ place = M!Reached(offered, profile)
    /\ place # M!Nowhere /\ profile # "Super" =>
         place.area = profile /\ Offered(profile, place.page, profile)
MenuIInv ==
    /\ M!TypeOK /\ misled = {} /\ LinkFollowed
    /\ ~outdated => /\ profile = holds
                    /\ \A q \in refused : ~M!Serves(profile, M!MeantFor(q))

LEMMA MenuIInit == ASSUME M!Init PROVE MenuIInv
<1>1. M!TypeOK
  BY MenuInit
<1> QED BY <1>1 DEF M!Init, MenuIInv, LinkFollowed

LEMMA MenuINext == ASSUME MenuIInv, [M!Next]_menus PROVE MenuIInv'
<1>t. M!TypeOK'
  BY MenuNext DEF MenuIInv
<1>1. CASE UNCHANGED menus
  <2>1. LinkFollowed'
    BY <1>1 DEF menus, MenuIInv, LinkFollowed, Offered, M!Menu, M!Can, M!Reached, M!HomeOf
  <2> QED BY <1>1, <1>t, <2>1 DEF menus, MenuIInv
<1>2. ASSUME NEW at, M!Enter(at)
      PROVE  MenuIInv'
  BY <1>2, <1>t DEF MenuIInv, M!Enter, M!Displayed, LinkFollowed
<1>3. ASSUME NEW target, M!Follow(target)
      PROVE  MenuIInv'
  <2>1. /\ place # M!Nowhere /\ M!AreaOpens(place.area, profile) /\ target \in M!LinksOn(place, profile)
        /\ UNCHANGED <<holds, profile, outdated>> /\ offered' = target
        /\ place' = M!Reached(target, profile) /\ refused' = {} /\ misled' = {}
    BY <1>3 DEF M!Follow, M!Displayed
  <2>2. ASSUME place' # M!Nowhere, profile # "Super"
        PROVE  place'.area = profile /\ Offered(profile, place'.page, profile)
    <3>1. profile \in M!RoleCodes
      BY DEF MenuIInv, M!TypeOK
    <3>2. ~M!Can(profile, "*")
      BY <2>2, <3>1 DEF M!Can, M!RoleCodes, M!Permissions, M!Staff
    <3>3. place.area = profile
      BY <2>1, <3>2 DEF M!AreaOpens
    <3>4. CASE target \in M!QueueLinks
      <4>1. place' = M!HomeOf(profile)
        BY <2>1, <2>2, <3>4 DEF M!Reached
      <4> QED BY <4>1 DEF M!HomeOf, Offered
    <3>5. CASE target \notin M!QueueLinks
      BY <2>1, <2>2, <3>1, <3>3, <3>5, OwnLinks DEF M!Reached
    <3> QED BY <3>4, <3>5
  <2>3. LinkFollowed'
    <3>1. M!Reached(target, profile) = M!Reached(offered, profile)'
      BY <2>1 DEF M!Reached, M!HomeOf
    <3>2. Offered(profile, place'.page, profile) = Offered(profile, place.page, profile)'
      BY <2>1 DEF Offered, M!Menu, M!Can
    <3> QED BY <2>1, <2>2, <3>1, <3>2 DEF LinkFollowed
  <2> QED BY <1>t, <2>1, <2>3 DEF MenuIInv
<1>4. ASSUME NEW role \in M!RoleCodes, M!ChangeRole(role)
      PROVE  MenuIInv'
  <2>1. LinkFollowed'
    BY <1>4 DEF MenuIInv, M!ChangeRole, LinkFollowed, Offered, M!Menu, M!Can, M!Reached, M!HomeOf
  <2> QED BY <1>4, <1>t, <2>1 DEF MenuIInv, M!ChangeRole
<1>5. ASSUME NEW q \in waiting, M!Answer(q)
      PROVE  MenuIInv'
  <2>1. q \in PageRequests
    <3>1. place \in M!Places
      BY DEF MenuIInv, M!TypeOK
    <3>2. place.area \in M!Areas /\ place.page \in M!StaffItems
      BY <3>1 DEF M!Places
    <3>3. q \in M!Loads(place.area, place.page, profile)
      BY DEF MenuIInv, M!TypeOK
    <3> QED BY <3>2, <3>3, PagesAsk
  <2>2. M!Handler(q) = M!MeantFor(q)
    BY <2>1, RequestsReach
  <2>3. /\ misled' = misled /\ UNCHANGED <<holds, profile, place, offered, outdated>>
        /\ refused' = IF M!Serves(holds, M!MeantFor(q)) THEN refused ELSE refused \cup {q}
    BY <1>5, <2>2 DEF M!Answer
  <2>4. LinkFollowed'
    BY <2>3 DEF MenuIInv, LinkFollowed, Offered, M!Menu, M!Can, M!Reached, M!HomeOf
  <2> QED BY <1>t, <2>3, <2>4 DEF MenuIInv
<1> QED BY <1>1, <1>2, <1>3, <1>4, <1>5 DEF M!Next

LEMMA MenuClaims == ASSUME MenuIInv PROVE M!LinksOpen
<1>1. misled = {}
  BY DEF MenuIInv
<1>2. ASSUME offered # M!Nowhere, ~outdated, profile # "Super", place # M!Nowhere
      PROVE  ~M!NoAccess
  <2>1. profile \in M!RoleCodes /\ refused \subseteq M!Loads(place.area, place.page, profile)
    BY <1>2 DEF MenuIInv, M!TypeOK
  <2>2. place.area = profile /\ Offered(profile, place.page, profile)
    BY <1>2 DEF MenuIInv, LinkFollowed
  <2>3. M!AreaOpens(place.area, profile)
    BY <2>2 DEF M!AreaOpens
  <2>4. M!GateOpens(place.page, profile)
    BY <1>2, <2>1, <2>2, OfferedOpens
  <2>5. ASSUME M!GivesUp(place.page), NEW q \in GiveUpLists PROVE q \notin refused
    <3>1. q \in refused => M!Serves(profile, M!MeantFor(q))
      BY <1>2, <2>1, <2>2, <2>5, OfferedOpens
    <3> QED BY <1>2, <3>1 DEF MenuIInv
  <2> QED BY <2>3, <2>4, <2>5 DEF M!NoAccess, GiveUpLists
<1>3. ASSUME offered # M!Nowhere
      PROVE  place = offered <=> offered \notin M!QueueLinks
  <2>1. place = M!Reached(offered, profile) /\ profile \in M!RoleCodes
    BY <1>3 DEF MenuIInv, LinkFollowed, M!TypeOK
  <2>2. M!HomeOf(profile) \in M!Places
    BY <2>1, HomeIsPlace
  <2> QED BY <2>1, <2>2, AreasApart DEF M!Reached
<1>4. place = M!Nowhere => ~M!NoAccess
  BY DEF M!NoAccess
<1> QED BY <1>1, <1>2, <1>3, <1>4 DEF M!LinksOpen

LEMMA MenusStay == MCSpec => []MenuIInv
<1>1. MCInit => MenuIInv
  BY MenuIInit DEF MCInit
<1>2. MenuIInv /\ [MCNext]_vars => MenuIInv'
  <2>1. [MCNext]_vars => [M!Next]_menus
    BY DEF MCNext, vars, browser
  <2> QED BY <2>1, MenuINext
<1> QED BY <1>1, <1>2, PTL DEF MCSpec

\* For a role that names its permissions every link of the menu, the header and the
\* dashboards leads to the page that it names, and that page opens, but for the two
\* links of the queue of cases, which never do; and every request of a page, of
\* whatever role, gets to the handler it is meant for: the routes that are registered
\* before that one do not take it.
THEOREM LinksStayOpen == MCSpec => []LinksOpen
<1>1. MenuIInv => LinksOpen
  BY MenuClaims DEF LinksOpen
<1> QED BY <1>1, MenusStay, PTL
-----------------------------------------------------------------------------
\* Every part keeps its types, for all values of the constants that make sense.
THEOREM TypesHold ==
    ASSUME SignInConstants, RotationConstants, GateConstants, C!ClientAssumption,
           BellConstants, PageConstants
    PROVE  MCSpec => []TypesOK
<1>1. OnboardingIInv /\ SignInInv /\ TallyInv /\ RotationIInv /\ GateIInv =>
         TypeOK /\ S!TypeOK /\ R!TypeOK /\ G!TypeOK
  BY DEF OnboardingIInv, SignInInv, SignInTypes, TallyInv, S!TypeOK, RotationIInv, GateIInv
<1>2. ClientIInv => C!TypeOK
  BY DEF ClientIInv, ClientTypes, C!TypeOK, TabState, LoadState, AskedState, Organisation
<1>3. BellIInv /\ PageIInv => B!TypeOK /\ (part = "pages" => P!TypeOK)
  BY DEF BellIInv, BellTypes, PageIInv
<1>4. S!SignInAssumption /\ R!RotationAssumption
  BY DEF SignInConstants, RotationConstants
<1>5. OnboardingIInv /\ SignInInv /\ TallyInv /\ RotationIInv /\ GateIInv /\ ClientIInv /\ BellIInv
        /\ PageIInv /\ MenuIInv => TypesOK
  BY <1>1, <1>2, <1>3, <1>4 DEF TypesOK, MenuIInv
<1> QED BY <1>5, OnboardingStays, SignInStays, RotationStays, GateStays, ClientStays,
           BellStays, PagesStay, MenusStay, PTL
=============================================================================
