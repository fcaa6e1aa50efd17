--------------------------- MODULE ClientSession ---------------------------
(***************************************************************************)
(* Who the web client believes to be signed in, and for which organisation *)
(* (auth-provider.tsx, api.ts).  The tabs of a browser share the tokens    *)
(* and the chosen organisation in its storage; each holds a profile of its *)
(* own, read when the page is loaded and when somebody signs in.  The API  *)
(* (auth.guard.ts) answers a request for the organisation that it names,   *)
(* refuses one of which the account is no member, and takes the default    *)
(* one where none is named.                                                *)
(***************************************************************************)
EXTENDS Naturals

CONSTANTS
    Tabs, Orgs,
    Home,     \* the organisation of the default membership
    Null

\* What the constants must satisfy.
ClientAssumption == Home \in Orgs /\ Null \notin Orgs

VARIABLES
    member,     \* the organisations of the account, in the database
    granted,    \* the session lives: its refresh token would be taken
    token,      \* the access token in the storage
    chosen,     \* the organisation in the storage
    tab,        \* what each tab believes
    load,       \* the profile each tab is reading
    asked       \* the request of a page of each tab

clientVars == <<member, granted, token, chosen, tab, load, asked>>
-----------------------------------------------------------------------------
\* The default membership, or the first one.
Usual(orgs) ==
    IF Home \in orgs THEN Home ELSE IF orgs = {} THEN Null ELSE CHOOSE o \in orgs : TRUE

SignedOut == [status |-> "unauthenticated", orgs |-> {}, active |-> Null]
Loading == [SignedOut EXCEPT !.status = "loading"]
NoLoad == [step |-> "idle"]
NoRequest == [step |-> "idle"]

Init ==
    /\ member \in SUBSET Orgs
    /\ granted = FALSE /\ token = "none" /\ chosen = Null
    /\ tab = [t \in Tabs |-> SignedOut]
    /\ load = [t \in Tabs |-> NoLoad] /\ asked = [t \in Tabs |-> NoRequest]

\* What the guard makes of a request: refused, or answered for an organisation.
Guarded(sent, org) ==
    IF sent # "fresh" \/ ~granted THEN [kind |-> "unauthorized"]
    ELSE IF org # Null /\ org \notin member THEN [kind |-> "forbidden"]
    ELSE [kind |-> "ok", of |-> IF org # Null THEN org ELSE Usual(member)]
-----------------------------------------------------------------------------
\* The account and its session change elsewhere.
Expire ==
    /\ token = "fresh" /\ token' = "expired"
    /\ UNCHANGED <<member, granted, chosen, tab, load, asked>>

Revoke ==
    /\ granted /\ granted' = FALSE
    /\ UNCHANGED <<member, token, chosen, tab, load, asked>>

ChangeMember(orgs) ==
    /\ orgs # member /\ member' = orgs
    /\ UNCHANGED <<granted, token, chosen, tab, load, asked>>
-----------------------------------------------------------------------------
\* apiFetch("/auth/me") with what the storage holds.
Reading(origin, sent) ==
    [step |-> "asked", origin |-> origin, token |-> sent, org |-> chosen, kind |-> "none", orgs |-> {}]

\* History: the tab shows another organisation while its request is under way.
Displayed(t, o) ==
    [asked EXCEPT ![t] = IF @ = NoRequest THEN @
                         ELSE [@ EXCEPT !.during = asked[t].during \cup {o}]]

\* A tab is opened or loaded again; without tokens there is nothing to ask.
OpenTab(t) ==
    /\ tab' = [tab EXCEPT ![t] = IF token = "none" THEN SignedOut ELSE Loading]
    /\ load' = [load EXCEPT ![t] = IF token = "none" THEN NoLoad ELSE Reading("start", token)]
    /\ asked' = [asked EXCEPT ![t] = NoRequest]
    /\ UNCHANGED <<member, granted, token, chosen>>

\* adoptSession: somebody has signed in; the profile is yet to be read.
Adopt(t) ==
    /\ tab[t].status = "unauthenticated" /\ load[t] = NoLoad
    /\ granted' = TRUE /\ token' = "fresh"
    /\ load' = [load EXCEPT ![t] = Reading("login", "fresh")]
    /\ UNCHANGED <<member, chosen, tab, asked>>

\* confirmMfa and disableMfa read the profile again.
ReadAgain(t) ==
    /\ tab[t].status = "authenticated" /\ load[t] = NoLoad
    /\ load' = [load EXCEPT ![t] = Reading("again", token)]
    /\ UNCHANGED <<member, granted, token, chosen, tab, asked>>

\* A path under /auth/ is never sent again with a refreshed token.
AnswerProfile(t) ==
    LET reply == Guarded(load[t].token, load[t].org) IN
    /\ load[t].step = "asked"
    /\ load' = [load EXCEPT ![t].step = "answered", ![t].kind = reply.kind,
                            ![t].orgs = IF reply.kind = "ok" THEN member ELSE {}]
    /\ UNCHANGED <<member, granted, token, chosen, tab, asked>>

\* The network, or the server, fails.
LoseProfile(t) ==
    /\ load[t].step = "asked"
    /\ load' = [load EXCEPT ![t].step = "answered", ![t].kind = "failed"]
    /\ UNCHANGED <<member, granted, token, chosen, tab, asked>>

\* loadMe: the organisation in the storage if the account is still in it.
Valid(orgs) == IF chosen \in orgs THEN chosen ELSE Usual(orgs)

TakeProfile(t) ==
    /\ load[t].step = "answered" /\ load[t].kind = "ok"
    /\ tab' = [tab EXCEPT ![t] = [status |-> "authenticated", orgs |-> load[t].orgs,
                                  active |-> Valid(load[t].orgs)]]
    /\ chosen' = Valid(load[t].orgs)
    /\ load' = [load EXCEPT ![t] = NoLoad]
    /\ asked' = Displayed(t, chosen')
    /\ UNCHANGED <<member, granted, token>>

\* A start that fails for whatever reason forgets the tokens; a sign-in or a
\* change of the profile that fails only says so.
MissProfile(t) ==
    LET starts == load[t].origin = "start" IN
    /\ load[t].step = "answered" /\ load[t].kind # "ok"
    /\ tab' = [tab EXCEPT ![t] = IF starts THEN SignedOut ELSE @]
    /\ token' = IF starts THEN "none" ELSE token
    /\ load' = [load EXCEPT ![t] = NoLoad]
    /\ UNCHANGED <<member, granted, chosen, asked>>
-----------------------------------------------------------------------------
\* Wrong variant: the choice is kept by the tab and not written down.
SwitchHere(t, o) ==
    /\ tab[t].status = "authenticated" /\ o \in tab[t].orgs
    /\ tab' = [tab EXCEPT ![t].active = o] /\ asked' = Displayed(t, o)
    /\ UNCHANGED <<member, granted, token, chosen, load>>

SwitchOrganization(t, o) ==
    /\ tab[t].status = "authenticated" /\ o \in tab[t].orgs
    /\ chosen' = o /\ tab' = [tab EXCEPT ![t].active = o] /\ asked' = Displayed(t, o)
    /\ UNCHANGED <<member, granted, token, load>>

\* The tokens are forgotten whether or not the server hears of it.
Logout(t, heard) ==
    /\ tab[t].status = "authenticated"
    /\ granted' = (granted /\ ~heard)
    /\ token' = "none" /\ chosen' = Null
    /\ tab' = [tab EXCEPT ![t] = SignedOut]
    /\ asked' = [asked EXCEPT ![t] = NoRequest]
    /\ UNCHANGED <<member, load>>
-----------------------------------------------------------------------------
\* apiFetch for a page; "during" has what is on display.
Send(t) ==
    /\ tab[t].status = "authenticated" /\ asked[t].step = "idle"
    /\ asked' = [asked EXCEPT ![t] = [step |-> "asked", token |-> token, org |-> chosen,
                                      during |-> {tab[t].active}, of |-> Null]]
    /\ UNCHANGED <<member, granted, token, chosen, tab, load>>

Answer(t) ==
    LET reply == Guarded(asked[t].token, asked[t].org) IN
    /\ asked[t].step = "asked" /\ reply.kind # "unauthorized"
    /\ asked' = [asked EXCEPT ![t] = IF reply.kind = "ok"
                                       THEN [@ EXCEPT !.step = "answered", !.of = reply.of]
                                       ELSE NoRequest]
    /\ UNCHANGED <<member, granted, token, chosen, tab, load>>

\* Refresh, and send again with what the storage holds by then; where that is
\* not to be had the page shows an error, and nobody is signed out.
AnswerUnauthorized(t) ==
    LET renewed == granted /\ token # "none" IN
    /\ asked[t].step = "asked" /\ Guarded(asked[t].token, asked[t].org).kind = "unauthorized"
    /\ token' = IF renewed THEN "fresh" ELSE token
    /\ asked' = [asked EXCEPT ![t] = IF renewed
                                       THEN [@ EXCEPT !.token = "fresh", !.org = chosen]
                                       ELSE NoRequest]
    /\ UNCHANGED <<member, granted, chosen, tab, load>>

Show(t) ==
    /\ asked[t].step = "answered"
    /\ asked' = [asked EXCEPT ![t] = NoRequest]
    /\ UNCHANGED <<member, granted, token, chosen, tab, load>>

Next ==
    \/ Expire \/ Revoke \/ \E orgs \in SUBSET Orgs : ChangeMember(orgs)
    \/ \E t \in Tabs :
         \/ OpenTab(t) \/ Adopt(t) \/ ReadAgain(t)
         \/ AnswerProfile(t) \/ LoseProfile(t) \/ TakeProfile(t) \/ MissProfile(t)
         \/ \E o \in Orgs : SwitchOrganization(t, o)
         \/ \E heard \in BOOLEAN : Logout(t, heard)
         \/ Send(t) \/ Answer(t) \/ AnswerUnauthorized(t) \/ Show(t)

Spec == Init /\ [][Next]_clientVars
-----------------------------------------------------------------------------
Credential == {"none", "fresh", "expired"}
TypeOK ==
    /\ member \subseteq Orgs /\ granted \in BOOLEAN
    /\ token \in Credential /\ chosen \in Orgs \cup {Null}
    /\ \A t \in Tabs :
         /\ tab[t] \in [status: {"loading", "authenticated", "unauthenticated"},
                        orgs: SUBSET Orgs, active: Orgs \cup {Null}]
         /\ load[t] = NoLoad \/
              load[t] \in [step: {"asked", "answered"}, origin: {"start", "login", "again"},
                           token: Credential, org: Orgs \cup {Null}, orgs: SUBSET Orgs,
                           kind: {"none", "ok", "unauthorized", "forbidden", "failed"}]
         /\ asked[t] = NoRequest \/
              asked[t] \in [step: {"asked", "answered"}, token: Credential,
                            org: Orgs \cup {Null}, during: SUBSET (Orgs \cup {Null}),
                            of: Orgs \cup {Null}]

\* US-1.3: what a page shows belongs to an organisation that was on display while the
\* page waited for it, through sign-ins, switches, refreshes and changes of the
\* memberships.
AnsweredForSelection ==
    \A t \in Tabs :
        asked[t].step = "answered" /\ Null \notin asked[t].during
            => asked[t].of \in asked[t].during

\* The error codes of the specification: "Missing or expired access token.
\* Refresh once, then sign the user out."  Nobody is signed out over an access
\* token while the session could still renew it.
RefreshedFirst ==
    [][\A t \in Tabs :
         load[t].step = "answered" /\ load[t].kind = "unauthorized" /\ tab[t].status = "loading"
             /\ tab'[t].status = "unauthenticated"
           => ~granted \/ token = "none"]_clientVars
=============================================================================
