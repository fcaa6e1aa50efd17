----------------------------- MODULE MCAccounts -----------------------------
(***************************************************************************)
(* The parts that decide who may use the program, and what the browser of  *)
(* that person shows, in one model: the first state chooses the part that  *)
(* this behaviour follows, the others stand still.                         *)
(***************************************************************************)
EXTENDS Onboarding, TLC

CONSTANTS
    Challenges, Codes, LockAt, MaxGuesses, MaxFailures,
    MaxSessions, Windows, Calls, TabOf, Refreshes,
    Tabs,
    Editors, Visitors, CacheTicks, ReadTicks,
    Ticks, FeedLimit, MaxRows,
    Orgs, Home, MaxChanges

VARIABLES
    part,
    user, codes, challenge, failures, pending, missed, rounds,
    session, disabled, store, page, call, refresh, lost,
    settings, status, edit, gate, visit, unchanged,
    rows, unread, young, stream, tick, told, own, bell, announced, news, odd,
    deed, list, server, entry, screen, sent, identity, wrote,
    member, granted, token, chosen, tab, load, asked,
    holds, profile, place, offered, waiting, refused, misled, outdated

S == INSTANCE SignIn
R == INSTANCE SessionRotation WITH Tabs <- Windows
G == INSTANCE OrganizationSettings
B == INSTANCE NotificationBell
P == INSTANCE PageCache WITH Identities <- Orgs, page <- screen, call <- sent
C == INSTANCE ClientSession
M == INSTANCE RolePages

signIn == <<user, codes, challenge, failures, pending, missed, rounds>>
sessions == <<session, disabled, store, page, call, refresh, lost>>
organization == <<settings, status, edit, gate, visit, unchanged>>
bells == <<rows, unread, young, stream, tick, told, own, bell, announced, news, odd>>
pages == <<deed, list, server, entry, screen, sent, identity, wrote>>
client == <<member, granted, token, chosen, tab, load, asked>>
menus == <<holds, profile, place, offered, waiting, refused, misled, outdated>>
people == <<onboardingVars, signIn, sessions, organization>>
browser == <<bells, pages, client, menus>>
vars == <<part, people, browser>>

\* What does not move is fixed where the first states of a part are many.
MCInit ==
    /\ part \in {"onboarding", "signIn", "sessions", "settings",
                 "bell", "pages", "client", "menus"}
    /\ Init /\ S!Init /\ R!Init /\ G!Init /\ B!Init
    /\ IF part = "pages" THEN P!Init
       ELSE deed = <<>> /\ list = "" /\ server = <<>> /\ entry = <<>> /\ screen = ""
            /\ sent = <<>> /\ identity = "" /\ wrote = 0
    /\ C!Init /\ (part # "client" => member = {})
    /\ M!Init /\ (part # "menus" => holds = "Visitor")

MCNext ==
    /\ UNCHANGED part
    /\ \/ /\ part = "onboarding" /\ Next
          /\ UNCHANGED <<signIn, sessions, organization, browser>>
       \/ /\ part = "signIn" /\ S!Next
          /\ UNCHANGED <<onboardingVars, sessions, organization, browser>>
       \/ /\ part = "sessions" /\ R!Next
          /\ UNCHANGED <<onboardingVars, signIn, organization, browser>>
       \/ /\ part = "settings" /\ G!Next
          /\ UNCHANGED <<onboardingVars, signIn, sessions, browser>>
       \* Nothing is claimed of the bell once the stream has acted out of order.
       \/ /\ part = "bell" /\ IF odd THEN UNCHANGED bells ELSE B!Next
          /\ UNCHANGED <<people, pages, client, menus>>
       \/ /\ part = "pages" /\ P!Next
          /\ UNCHANGED <<people, bells, client, menus>>
       \/ /\ part = "client" /\ C!Next
          /\ UNCHANGED <<people, bells, pages, menus>>
       \/ /\ part = "menus" /\ M!Next
          /\ UNCHANGED <<people, bells, pages, client>>

MCSpec == MCInit /\ [][MCNext]_vars
-----------------------------------------------------------------------------
\* For TLC.  All calls of the sessions part but one are made by one of its tabs.  The
\* other tab is signed in by the first and stays so, and a deactivated user is
\* followed no further.
CONSTANTS OtherTab, OtherCall

MCTabOf ==
    [c \in Calls |-> IF c = OtherCall THEN OtherTab
                     ELSE CHOOSE w \in Windows : w # OtherTab]
MCQuietTab ==
    part = "sessions" =>
        page[OtherTab].at \in {"loading", "signedIn"} /\ ~disabled

\* A behaviour follows one part, so the pairs of all parts are swapped together.
MCPairs == {Requests, Visitors, Ticks, Refreshes}
MCSwaps ==
    {f \in Permutations(UNION MCPairs) :
        \E swapped \in BOOLEAN : \A p \in MCPairs : \A x \in p :
            f[x] \in p /\ (f[x] # x) = swapped}
MCSymmetry == MCSwaps \cup Permutations(Calls \ {OtherCall})
-----------------------------------------------------------------------------
\* Each property is about the behaviours that follow its part; in the others
\* that part is where it starts.
AttemptsCounted == part = "signIn" => S!AttemptsCounted
GateFollows == part = "settings" => G!GateFollows
AnsweredForSelection == part = "client" => C!AnsweredForSelection
LinksOpen == part = "menus" => M!LinksOpen
LockStands == S!LockStands
RefreshedFirst == C!RefreshedFirst
SwitchDiscards == part = "pages" => P!SwitchDiscards

\* A chain of refresh tokens has one head, and the alarm that ends all sessions
\* of a user has a cause.
ChainsSound == part = "sessions" => R!OneHead /\ R!AlarmsHaveCause

\* What the browser shows at rest is what the database holds.
ScreensTruthful ==
    /\ part = "bell" => B!BellIsTrue /\ B!AnnouncedOnce
    /\ part = "pages" => P!OwnChangesShown

\* Every part keeps its types and its constants make sense.
TypesOK ==
    /\ part = "onboarding" => TypeOK
    /\ part = "signIn" => S!SignInAssumption /\ S!TypeOK
    /\ part = "sessions" => R!RotationAssumption /\ R!TypeOK
    /\ part = "settings" => G!TypeOK
    /\ part = "bell" => B!TypeOK
    /\ part = "pages" => P!TypeOK
    /\ part = "client" => C!ClientAssumption /\ C!TypeOK
    /\ part = "menus" => M!TypeOK
=============================================================================
