-------------------------- MODULE SessionRotation --------------------------
(***************************************************************************)
(* The sessions of one user (identity.service.ts, auth.guard.ts) together  *)
(* with the browser that holds their tokens (web/lib/api.ts and            *)
(* auth-provider.tsx).  The access and the refresh token of a session live *)
(* and die with its row; a refresh revokes the row and opens the next one  *)
(* of its family.  The tabs of the browser share one store of tokens, but  *)
(* each has a refreshPromise of its own.                                   *)
(***************************************************************************)
EXTENDS Naturals, FiniteSets

CONSTANTS
    MaxSessions,   \* bound on the session rows
    Tabs,          \* the open tabs
    Calls,         \* calls of apiFetch that may be in progress
    TabOf,         \* the tab a call belongs to
    Refreshes,     \* refresh requests that may be in progress
    Null

RotationAssumption ==
    /\ MaxSessions \in Nat \ {0} /\ TabOf \in [Calls -> Tabs]
    /\ Null \notin Tabs \cup Nat

Sessions == 1..MaxSessions

VARIABLES
    session,    \* the rows: family, and how a revoked one came to be revoked
    disabled,   \* is the user deactivated?
    store,      \* the tokens in localStorage, as the session they are of
    page,       \* what each tab shows, and the logout it is in
    call,       \* the calls in progress
    refresh,    \* the refresh requests in progress
    lost        \* history: the sessions of which a refresh was given up, or that a
                \* second tab sent while the first was at it

rotationVars == <<session, disabled, store, page, call, refresh, lost>>
serverVars == <<session, disabled>>
-----------------------------------------------------------------------------
Token == Sessions \cup {Null}
Page == [at: {"loading", "signedOut", "adopting", "signedIn", "leaving"}, token: Token]
CallState == [at: {"idle", "sent", "rejected", "waiting"}, token: Token]
RefreshState == [at: {"idle", "sent", "reused", "live", "revoked", "done", "failed"},
                 token: Token, tab: Tabs \cup {Null}, next: Token]
NoPage(at) == [at |-> at, token |-> Null]
NoCall == [at |-> "idle", token |-> Null]
NoRefresh == [at |-> "idle", token |-> Null, tab |-> Null, next |-> Null]

Init ==
    /\ session = [s \in Sessions |-> [state |-> "absent", family |-> s]]
    /\ disabled = FALSE /\ store = Null
    /\ page = [t \in Tabs |-> NoPage("loading")]
    /\ call = [c \in Calls |-> NoCall]
    /\ refresh = [f \in Refreshes |-> NoRefresh]
    /\ lost = {}

Live == {s \in Sessions : session[s].state = "live"}
Ended(S) == [s \in Sessions |-> IF s \in S THEN [session[s] EXCEPT !.state = "ended"]
                                ELSE session[s]]
NextRow(s) == session[s].state = "absent" /\ \A r \in 1..(s - 1) : session[r].state # "absent"

\* generateTokens: a row and two tokens of it, in a given family or a new one.
Opened(s, family) == [session EXCEPT ![s] = [state |-> "live", family |-> family]]

\* The guard: a user who is not disabled, a session that is not revoked, and an
\* access token that is still in time, which is an input of the actions below.
Passes(token, inTime) == token \in Live /\ ~disabled /\ inTime
-----------------------------------------------------------------------------
\* The page mounts, or is reloaded, and asks who is signed in; any failure
\* clears the store.  Paths under /auth/ are never refreshed.
Load(t, inTime) ==
    /\ page[t].at = "loading"
    /\ IF Passes(store, inTime) THEN page' = [page EXCEPT ![t].at = "signedIn"] /\ UNCHANGED store
       ELSE page' = [page EXCEPT ![t].at = "signedOut"] /\ store' = Null
    /\ UNCHANGED <<serverVars, call, refresh, lost>>

\* A sign-in opens the first session of a family; adoptSession stores its
\* tokens and asks again, but clears nothing.
SignIn(t, s) ==
    /\ page[t].at = "signedOut" /\ ~disabled /\ NextRow(s)
    /\ session' = Opened(s, s) /\ store' = s
    /\ page' = [page EXCEPT ![t].at = "adopting"]
    /\ UNCHANGED <<disabled, call, refresh, lost>>
Adopt(t, inTime) ==
    /\ page[t].at = "adopting"
    /\ page' = [page EXCEPT ![t].at = IF Passes(store, inTime) THEN "signedIn" ELSE "signedOut"]
    /\ UNCHANGED <<serverVars, store, call, refresh, lost>>

\* logout: the tokens are read, the server revokes the session if its guard
\* lets the call pass, and the store is cleared in any case.
BeginLogout(t) ==
    /\ page[t].at = "signedIn"
    /\ page' = [page EXCEPT ![t] = [at |-> "leaving", token |-> store]]
    /\ UNCHANGED <<serverVars, store, call, refresh, lost>>
ServerLogout(t) ==
    /\ page[t].at = "leaving" /\ Passes(page[t].token, TRUE)
    /\ session' = Ended({page[t].token})
    /\ page' = [page EXCEPT ![t].token = Null]
    /\ UNCHANGED <<disabled, store, call, refresh, lost>>
FinishLogout(t) ==
    /\ page[t].at = "leaving"
    /\ store' = Null
    /\ page' = [page EXCEPT ![t] = NoPage("signedOut")]
    /\ UNCHANGED <<serverVars, call, refresh, lost>>
-----------------------------------------------------------------------------
\* apiFetch sends what the store holds.
Send(c) ==
    /\ call[c].at = "idle" /\ page[TabOf[c]].at = "signedIn"
    /\ call' = [call EXCEPT ![c] = [at |-> "sent", token |-> store]]
    /\ UNCHANGED <<serverVars, store, page, refresh, lost>>
Answer(c, inTime) ==
    /\ call[c].at = "sent"
    /\ call' = [call EXCEPT ![c] = IF Passes(call[c].token, inTime) THEN NoCall
                                   ELSE [at |-> "rejected", token |-> Null]]
    /\ UNCHANGED <<serverVars, store, page, refresh, lost>>

InFlight(t) == \E f \in Refreshes : refresh[f].tab = t

\* The token is lost to a tab that sends it while a refresh of another tab has it.
SentElsewhere(t) ==
    IF \E f \in Refreshes : refresh[f].token = store /\ refresh[f].tab \notin {Null, t}
    THEN {store} ELSE {}

\* Wrong variant: every rejected call starts a refresh of its own.
StartRefreshAlways(c, f) ==
    /\ call[c].at = "rejected" /\ refresh[f].at = "idle" /\ store # Null
    /\ refresh' = [refresh EXCEPT ![f] = [at |-> "sent", token |-> store,
                                          tab |-> TabOf[c], next |-> Null]]
    /\ call' = [call EXCEPT ![c].at = "waiting"]
    /\ lost' = lost \cup SentElsewhere(TabOf[c])
    /\ UNCHANGED <<serverVars, store, page>>

\* refreshTokens: the first rejected call of a tab sends the refresh token,
\* those after it wait for the same promise; without a token the call fails.
StartRefresh(c, f) ==
    /\ call[c].at = "rejected" /\ ~InFlight(TabOf[c]) /\ refresh[f].at = "idle" /\ store # Null
    /\ refresh' = [refresh EXCEPT ![f] = [at |-> "sent", token |-> store,
                                          tab |-> TabOf[c], next |-> Null]]
    /\ call' = [call EXCEPT ![c].at = "waiting"]
    /\ lost' = lost \cup SentElsewhere(TabOf[c])
    /\ UNCHANGED <<serverVars, store, page>>
JoinRefresh(c) ==
    /\ call[c].at = "rejected" /\ (InFlight(TabOf[c]) \/ store = Null)
    /\ call' = [call EXCEPT ![c] = IF InFlight(TabOf[c]) THEN [@ EXCEPT !.at = "waiting"]
                                   ELSE NoCall]
    /\ UNCHANGED <<serverVars, store, page, refresh, lost>>

\* The calls that wait on the promise of a tab: sent again, or failed.
Woken(t, again) ==
    [c \in Calls |-> IF call[c].at = "waiting" /\ TabOf[c] = t THEN again ELSE call[c]]

Deliver(f) ==
    /\ refresh[f].at \in {"done", "failed"} /\ refresh[f].tab # Null
    /\ LET next == refresh[f].next IN
       IF next # Null
       THEN /\ store' = next
            /\ call' = Woken(refresh[f].tab, [at |-> "sent", token |-> next])
       ELSE /\ call' = Woken(refresh[f].tab, NoCall) /\ UNCHANGED store
    /\ refresh' = [refresh EXCEPT ![f] = NoRefresh]
    /\ UNCHANGED <<serverVars, page, lost>>

\* The connection breaks, or the tab is reloaded: nobody waits for the answer
\* any more, while the server goes on.
Disconnect(f) ==
    /\ refresh[f].tab # Null
    /\ refresh' = [refresh EXCEPT ![f].tab = Null]
    /\ lost' = lost \cup {refresh[f].token}
    /\ call' = Woken(refresh[f].tab, NoCall)
    /\ UNCHANGED <<serverVars, store, page>>
Reload(t) ==
    /\ page[t].at # "loading"
    /\ page' = [page EXCEPT ![t] = NoPage("loading")]
    /\ call' = [c \in Calls |-> IF TabOf[c] = t THEN NoCall ELSE call[c]]
    /\ refresh' = [f \in Refreshes |-> [refresh[f] EXCEPT !.tab = IF @ = t THEN Null ELSE @]]
    /\ lost' = lost \cup {refresh[f].token : f \in {g \in Refreshes : refresh[g].tab = t}}
    /\ UNCHANGED <<serverVars, store>>
Forget(f) ==
    /\ refresh[f].at \in {"done", "failed"} /\ refresh[f].tab = Null
    /\ refresh' = [refresh EXCEPT ![f] = NoRefresh]
    /\ UNCHANGED <<serverVars, store, page, call, lost>>
-----------------------------------------------------------------------------
\* The server's refresh: the row is looked up; one that is revoked means reuse,
\* one whose 30 days are over is refused.
ReadToken(f, inTime) ==
    /\ refresh[f].at = "sent"
    /\ refresh' = [refresh EXCEPT ![f].at =
                      IF refresh[f].token \notin Live THEN "reused"
                      ELSE IF inTime THEN "live" ELSE "failed"]
    /\ UNCHANGED <<serverVars, store, page, call, lost>>
RevokeFamily(f) ==
    /\ refresh[f].at = "reused"
    /\ LET kin == {s \in Live : session[s].family = session[refresh[f].token].family} IN
       session' = Ended(kin)
    /\ refresh' = [refresh EXCEPT ![f].at = "failed"]
    /\ UNCHANGED <<disabled, store, page, call, lost>>

\* Wrong variant: the session that was exchanged is not revoked.
RotateKept(f) ==
    /\ refresh[f].at = "live"
    /\ refresh' = [refresh EXCEPT ![f].at = "revoked"]
    /\ UNCHANGED <<serverVars, store, page, call, lost>>

\* Otherwise it is revoked, by id, and the next session of the family opened.
Rotate(f) ==
    /\ refresh[f].at = "live"
    /\ session' = [session EXCEPT ![refresh[f].token].state =
                      IF @ = "ended" THEN @ ELSE "exchanged"]
    /\ refresh' = [refresh EXCEPT ![f].at = "revoked"]
    /\ UNCHANGED <<disabled, store, page, call, lost>>
OpenNext(f, s) ==
    /\ refresh[f].at = "revoked" /\ NextRow(s)
    /\ session' = Opened(s, session[refresh[f].token].family)
    /\ refresh' = [refresh EXCEPT ![f].at = "done", ![f].next = s]
    /\ UNCHANGED <<disabled, store, page, call, lost>>

\* A statement fails, or the process dies, between two statements.
Die(f) ==
    /\ refresh[f].at \in {"sent", "reused", "live", "revoked"}
    /\ refresh' = [refresh EXCEPT ![f].at = "failed"]
    /\ lost' = lost \cup {refresh[f].token}
    /\ UNCHANGED <<serverVars, store, page, call>>

\* revokeSession from another device; removeMember, resetPassword and (with the
\* account) deactivateUser end every session.
RevokeSession(s) ==
    /\ s \in Live
    /\ session' = Ended({s})
    /\ UNCHANGED <<disabled, store, page, call, refresh, lost>>
RevokeAll(deactivate) ==
    /\ Live # {}
    /\ session' = Ended(Live)
    /\ disabled' = (disabled \/ deactivate)
    /\ UNCHANGED <<store, page, call, refresh, lost>>
Next ==
    \/ \E t \in Tabs :
          \/ \E inTime \in BOOLEAN : Load(t, inTime) \/ Adopt(t, inTime)
          \/ BeginLogout(t) \/ ServerLogout(t) \/ FinishLogout(t)
          \/ Reload(t) \/ \E s \in Sessions : SignIn(t, s)
    \/ \E c \in Calls :
          \/ Send(c) \/ \E inTime \in BOOLEAN : Answer(c, inTime)
          \/ JoinRefresh(c) \/ \E f \in Refreshes : StartRefresh(c, f)
    \/ \E f \in Refreshes :
          \/ \E inTime \in BOOLEAN : ReadToken(f, inTime)
          \/ RevokeFamily(f) \/ Rotate(f) \/ Deliver(f) \/ Disconnect(f)
          \/ Forget(f) \/ Die(f) \/ \E s \in Sessions : OpenNext(f, s)
    \/ \E s \in Sessions : RevokeSession(s)
    \/ \E deactivate \in BOOLEAN : RevokeAll(deactivate)

Spec == Init /\ [][Next]_rotationVars
-----------------------------------------------------------------------------
TypeOK ==
    /\ session \in [Sessions -> [state: {"absent", "live", "exchanged", "ended"}, family: Sessions]]
    /\ disabled \in BOOLEAN /\ store \in Token
    /\ page \in [Tabs -> Page] /\ call \in [Calls -> CallState]
    /\ refresh \in [Refreshes -> RefreshState]
    /\ lost \subseteq Sessions

\* The single use of refresh tokens needs the browser's help, because the
\* server looks a token up before it revokes it: however the calls of the tabs
\* overlap, a family has one live session at a time, unless an answer was lost
\* and the token sent again, or two tabs sent it at once.
OneHead ==
    \A s, r \in Live : s # r /\ session[s].family = session[r].family =>
        \E l \in lost : session[l].family = session[s].family

\* No false alarm: a family is revoked for the reuse of a token only when the
\* token is of a session that somebody had ended, of a refresh whose answer was
\* lost, or of one that another tab had begun.
AlarmsHaveCause ==
    \A f \in Refreshes : refresh[f].at = "reused" =>
        refresh[f].token \in lost \/ session[refresh[f].token].state = "ended"
=============================================================================
