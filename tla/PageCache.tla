----------------------------- MODULE PageCache -----------------------------
(***************************************************************************)
(* The lists that the pages of apps/web show and the requests that change  *)
(* them.  A page reads a list through a cache that it shares with the      *)
(* other pages (query-provider.tsx); when a request of the user's succeeds *)
(* the page invalidates the lists it names.  Requests of the cache and of  *)
(* the user overlap, fail, and are answered late; the user moves between   *)
(* pages, organisations and accounts meanwhile.  A behaviour follows one   *)
(* kind of request and one of the lists it concerns; what a list holds is  *)
(* the number of the last change made to it.  The cache itself (TanStack   *)
(* Query) is external.                                                     *)
(***************************************************************************)
EXTENDS Naturals

CONSTANTS
    Identities,   \* the organisations and accounts the user works under
    MaxChanges    \* bound: changes of one list

VARIABLES
    deed,       \* the request the user makes in this behaviour
    list,       \* the list that is followed
    server,     \* that list in the database, under each identity
    entry,      \* that list in the browser
    page,       \* the page on display
    call,       \* how far the user's request is, and under which identity
    identity,   \* the active organisation of the account signed in
    wrote       \* history: the change the user saw succeed

pageVars == <<deed, list, server, entry, page, call, identity, wrote>>
-----------------------------------------------------------------------------
\* What the pages show.
TasksPage == {"tasks"}
ApprovalsPage == {"approvals"}
CasesPage == {"cases"}
CasePage == {"case", "history", "comments"}
InvoicesPage == {"invoices"}
DocumentsPage == {"documents"}
UsersPage == {"users"}
EscalationsPage == {"queue", "rules"}
AdminPage == {"settings", "reference", "flags"}
ProfilePage == {"sessions"}
Dashboard == {"cases", "tasks", "approvals", "report"}
NotificationsPage == {"notifications"}

Shows ==
    [tasks |-> TasksPage, approvals |-> ApprovalsPage, cases |-> CasesPage,
     case |-> CasePage, invoices |-> InvoicesPage, documents |-> DocumentsPage,
     users |-> UsersPage, escalations |-> EscalationsPage, admin |-> AdminPage,
     me |-> ProfilePage, dashboard |-> Dashboard, notifications |-> NotificationsPage]
Pages == DOMAIN Shows
Lists == UNION {Shows[p] : p \in Pages}

\* The lists that are asked for again every half minute while on display.
Polled == {"notifications", "queue"}
-----------------------------------------------------------------------------
\* What the user does: on which page, and the lists that it invalidates when the
\* request has succeeded.
Deed(where, refreshes) == [page |-> where, refreshes |-> refreshes]

ClaimTask == Deed("tasks", {"tasks"})
CompleteTask == Deed("tasks", {"tasks", "approvals"})
CompleteMyTask == Deed("dashboard", {"tasks"})
DecideApproval == Deed("approvals", {"approvals", "cases"})
DecideInInbox == Deed("dashboard", {"approvals", "cases"})
CreateCase == Deed("cases", {"cases"})
ActOnCase == Deed("case", {"case", "history", "comments", "cases"})
AddComment == Deed("case", {"comments"})
CreateDraft == Deed("invoices", {"invoices"})
IssueInvoice == Deed("invoices", {"invoices"})
RecordPayment == Deed("invoices", {"invoices"})
UploadDocument == Deed("documents", {"documents"})
InviteMember == Deed("users", {"users"})
DeactivateMember == Deed("users", {"users"})
RunSweep == Deed("escalations", {"queue", "cases"})
AddRule == Deed("escalations", {"rules"})
ToggleRule == Deed("escalations", {"rules"})
SaveFlags == Deed("admin", {"flags"})
ToggleMaintenance == Deed("admin", {"flags"})
SaveSettings == Deed("admin", {"settings"})
SaveReference == Deed("admin", {"reference"})
RevokeSession == Deed("me", {"sessions"})
MarkRead == Deed("notifications", {"notifications"})

Deeds ==
    {ClaimTask, CompleteTask, CompleteMyTask, DecideApproval, DecideInInbox, CreateCase,
     ActOnCase, AddComment, CreateDraft, IssueInvoice, RecordPayment, UploadDocument,
     InviteMember, DeactivateMember, RunSweep, AddRule, ToggleRule, SaveFlags,
     ToggleMaintenance, SaveSettings, SaveReference, RevokeSession, MarkRead}

\* The pages that show the list, and the one the user acts on.
Places == {p \in Pages : p = deed.page \/ list \in Shows[p]}
-----------------------------------------------------------------------------
\* What the browser has: the change it shows (0 is nothing yet), under which
\* identity it was asked for, whether it is due for a refetch, and the refetch
\* in flight with what that will bring.
Asker == Identities \cup {"nobody"}
Entry ==
    [data: 0..MaxChanges, of: Asker, due: BOOLEAN,
     fetch: {"idle", "asked", "answered"}, brings: 0..MaxChanges, asker: Asker]

Empty == [data |-> 0, of |-> "nobody", due |-> TRUE,
          fetch |-> "idle", brings |-> 0, asker |-> "nobody"]
NoCall == [step |-> "none", by |-> "nobody"]

Init ==
    /\ deed \in Deeds /\ list \in deed.refreshes
    /\ server = [i \in Identities |-> 1]
    /\ entry = Empty
    /\ page = "login" /\ call = NoCall
    /\ identity \in Identities
    /\ wrote = 0

OnDisplay == page \in Pages /\ list \in Shows[page]

\* A fetch that starts abandons the one in flight.
Fetched == [entry EXCEPT !.fetch = "asked", !.brings = 0, !.asker = identity]

\* A page that opens asks for a list that is due, unless that is under way.
Open(p) ==
    /\ p \in Places /\ p # page
    /\ page' = p
    /\ entry' = IF list \in Shows[p] /\ entry.due /\ entry.fetch = "idle" THEN Fetched ELSE entry
    /\ UNCHANGED <<deed, list, server, call, identity, wrote>>

\* Fifteen seconds pass since the list was read.
Age ==
    /\ entry.data # 0 /\ ~entry.due
    /\ entry' = [entry EXCEPT !.due = TRUE]
    /\ UNCHANGED <<deed, list, server, page, call, identity, wrote>>

Poll ==
    /\ list \in Polled /\ OnDisplay /\ entry.fetch = "idle"
    /\ entry' = Fetched
    /\ UNCHANGED <<deed, list, server, page, call, identity, wrote>>

ServerReads ==
    /\ entry.fetch = "asked"
    /\ entry' = [entry EXCEPT !.fetch = "answered", !.brings = server[entry.asker]]
    /\ UNCHANGED <<deed, list, server, page, call, identity, wrote>>

Arrive ==
    /\ entry.fetch = "answered"
    /\ entry' = [Empty EXCEPT !.data = entry.brings, !.of = entry.asker, !.due = FALSE]
    /\ UNCHANGED <<deed, list, server, page, call, identity, wrote>>

\* No retry: the list stays as it was, due for a refetch when it is next opened.
FetchFails ==
    /\ entry.fetch # "idle"
    /\ entry' = [Empty EXCEPT !.data = entry.data, !.of = entry.of]
    /\ UNCHANGED <<deed, list, server, page, call, identity, wrote>>

Changed(i) == server' = [server EXCEPT ![i] = @ + 1]

OthersChange(i) ==
    /\ server[i] < MaxChanges /\ Changed(i)
    /\ UNCHANGED <<deed, list, entry, page, call, identity, wrote>>
-----------------------------------------------------------------------------
Submit ==
    /\ page = deed.page /\ call = NoCall
    /\ call' = [step |-> "sent", by |-> identity]
    /\ UNCHANGED <<deed, list, server, entry, page, identity, wrote>>

ServerChanges ==
    /\ call.step = "sent" /\ server[call.by] < MaxChanges /\ Changed(call.by)
    /\ call' = [call EXCEPT !.step = "made"]
    /\ UNCHANGED <<deed, list, entry, page, identity, wrote>>

\* The request fails, before the change or after it: nothing is invalidated.
CallFails ==
    /\ call # NoCall
    /\ call' = NoCall
    /\ UNCHANGED <<deed, list, server, entry, page, identity, wrote>>

\* Wrong variant: what is in flight for the page on display is awaited.
InvalidatedKept ==
    IF OnDisplay /\ entry.fetch = "idle" THEN [Fetched EXCEPT !.due = TRUE]
    ELSE [entry EXCEPT !.due = TRUE]

\* A list that is invalidated is due, and fetched afresh where on display: but a
\* first fetch, which nothing is on display before, is never abandoned.
Invalidated ==
    [(IF OnDisplay /\ (entry.data # 0 \/ entry.fetch = "idle") THEN Fetched ELSE entry)
        EXCEPT !.due = TRUE]

\* onSuccess.  The outcome shows where the list is on display and was read.
Succeed ==
    /\ call.step = "made"
    /\ call' = NoCall
    /\ entry' = Invalidated
    /\ wrote' = IF OnDisplay /\ entry.data # 0 /\ call.by = identity THEN server[identity] ELSE wrote
    /\ UNCHANGED <<deed, list, server, page, identity>>
-----------------------------------------------------------------------------
\* switchOrganization writes down which organisation is active, and nothing else.
SwitchOrganization(i) ==
    /\ page \in Pages /\ i # identity
    /\ identity' = i /\ wrote' = 0
    /\ UNCHANGED <<deed, list, server, entry, page, call>>

\* logout, and somebody signs in without reloading the page.
Logout(i) ==
    /\ page \in Pages
    /\ page' = "login" /\ identity' = i /\ wrote' = 0
    /\ UNCHANGED <<deed, list, server, entry, call>>

Next ==
    \/ \E p \in Pages : Open(p)
    \/ Age \/ Poll \/ ServerReads \/ Arrive \/ FetchFails
    \/ Submit \/ ServerChanges \/ CallFails \/ Succeed
    \/ \E i \in Identities : OthersChange(i) \/ SwitchOrganization(i) \/ Logout(i)

Spec == Init /\ [][Next]_pageVars
-----------------------------------------------------------------------------
TypeOK ==
    /\ deed \in Deeds /\ list \in deed.refreshes
    /\ server \in [Identities -> 1..MaxChanges]
    /\ entry \in Entry
    /\ page \in Pages \cup {"login"}
    /\ call \in [step: {"none", "sent", "made"}, by: Asker]
    /\ identity \in Identities
    /\ wrote \in 0..MaxChanges

\* Once a list has come to rest it shows what the user saw succeed in it,
\* whatever was in flight when the change was made and wherever the user went
\* since: a decision taken does not stay on the page to be taken again.
OwnChangesShown ==
    entry.fetch = "idle" /\ ~entry.due => entry.data >= wrote

\* US-1.3: "Given I switch, then cached queries for A are discarded, not merely
\* hidden."
SwitchDiscards == entry.data # 0 => entry.of = identity
=============================================================================
