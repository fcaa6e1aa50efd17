----------------------------- MODULE RolePages -----------------------------
(***************************************************************************)
(* What a role may open: the permissions of the seed, the menu and the     *)
(* shortcuts that apps/web offers to a role, what a page asks for when it  *)
(* is opened, and what the API answers.  The client decides with the       *)
(* profile it has read, the API with the role the user holds by then.      *)
(* Permissions that no page, menu or list asks about are left out.         *)
(***************************************************************************)
EXTENDS ApiRoutes

VARIABLES
    holds,      \* the role of the user, in the database
    profile,    \* the role that the browser has read, if any
    place,      \* the area and the page on display
    offered,    \* the place that the link last followed names, or Nowhere
    waiting,    \* requests of the page not answered yet
    refused,    \* requests of the page that the API has refused
    misled,     \* requests of the page that another handler has answered
    outdated    \* history: the role has changed since the profile was read

rolePageVars == <<holds, profile, place, offered, waiting, refused, misled, outdated>>
-----------------------------------------------------------------------------
Staff ==
    {"user.read", "crm.read", "case.read.org", "case.read.own", "case.create", "task.read",
     "approval.read", "document.read", "finance.read", "report.read", "notification.read"}

\* The roles of the seed.
Permissions ==
    [Visitor |-> {"notification.read", "case.create", "case.read.own"},
     Client |-> {"case.read.own", "case.create", "document.read", "crm.read", "finance.read",
                 "notification.read"},
     Partner |-> {"case.read.own", "document.read", "report.read", "notification.read"},
     Agent |-> Staff,
     Manager |-> Staff \cup {"org.settings.manage"},
     Admin |-> Staff \cup {"org.settings.manage", "admin.reference.manage"},
     Super |-> {"*"}]

RoleCodes == DOMAIN Permissions

\* The area of a role has its name.
Areas == RoleCodes

Can(role, permission) == {permission, "*"} \cap Permissions[role] # {}
-----------------------------------------------------------------------------
\* The permission without which an item of the menu is left out.
Asks(page) ==
    CASE page \in {"cases", "escalations"} -> {"case.read.org"}
      [] page = "tasks" -> {"task.read"}
      [] page = "approvals" -> {"approval.read"}
      [] page = "invoices" -> {"finance.read"}
      [] page = "documents" -> {"document.read"}
      [] page = "clients" -> {"crm.read"}
      [] page = "admin" -> {"org.settings.manage"}
      [] page = "reports" -> {"report.read"}
      [] page = "users" -> {"user.read"}
      [] page = "notifications" -> {"notification.read"}
      [] OTHER -> {}

PortalItems == {"overview", "cases", "documents", "notifications"}
StaffItems ==
    PortalItems \cup {"tasks", "approvals", "escalations", "invoices", "users", "clients",
                      "admin", "reports"}

MenuItems(area) ==
    CASE area = "Visitor" -> PortalItems \ {"documents"}
      [] area = "Client" -> PortalItems
      [] area = "Partner" -> PortalItems \cup {"reports"}
      [] area = "Agent" -> StaffItems \ {"escalations", "invoices", "users", "admin"}
      [] OTHER -> StaffItems

Menu(area, role) == {page \in MenuItems(area) : \A p \in Asks(page) : Can(role, p)}

\* A place is an area and a page of it.  An address that no page has shows none.
Nowhere == [area |-> "none", page |-> "none"]
HomeOf(role) == [area |-> role, page |-> "overview"]
InArea(area, pages) == {[area |-> area, page |-> page] : page \in pages}

\* The header is on every page of an area, and the same one for Admin and Super.
HeaderLinks(area) ==
    CASE area \in {"Visitor", "Client"} -> InArea(area, {"cases"})
      [] area \in {"Admin", "Super"} -> InArea("Admin", {"users"})
      [] OTHER -> {}

\* The queue of cases on every dashboard links to a case, and to all of them, by an
\* address without an area.
QueueLinks == InArea("cases", {"overview", "case"})

DashboardLinks(area) ==
    CASE area \in {"Visitor", "Client"} -> InArea(area, {"cases"}) \cup QueueLinks
      [] area = "Partner" -> InArea(area, {"reports"}) \cup QueueLinks
      [] area = "Manager" -> InArea(area, {"invoices"}) \cup QueueLinks
      [] area = "Admin" -> InArea(area, {"users"}) \cup QueueLinks
      [] OTHER -> QueueLinks

\* What a page offers.  The links from the rows of a list, and to the user's own page,
\* are left out.
LinksOn(at, role) ==
    InArea(at.area, Menu(at.area, role)) \cup HeaderLinks(at.area) \cup
    (IF at.page = "overview" THEN DashboardLinks(at.area) ELSE {})

\* An area that is no role's is redirected to the home of the user, but for a page
\* that it does not have.
Reached(target, role) ==
    IF target \notin QueueLinks THEN target
    ELSE IF target.page = "overview" THEN HomeOf(role) ELSE Nowhere
-----------------------------------------------------------------------------
CaseList == <<"GET", "cases">>
TaskList == <<"GET", "tasks">>
ApprovalList == <<"GET", "approvals">>
ReportStats == <<"GET", "reports", "dashboard">>
UserList == <<"GET", "users">>

NotificationList == <<"GET", "notifications">>

\* The dashboards, by what their widgets ask for.
VisitorDashboard == {<<"GET", "case-types">>, CaseList, NotificationList}
ClientDashboard == {<<"GET", "case-types">>, CaseList, NotificationList}
PartnerDashboard == {CaseList}
AgentDashboard == {ReportStats, CaseList, TaskList, ApprovalList}
ManagerDashboard == {ReportStats, ApprovalList, CaseList, TaskList}
AdminDashboard == {ReportStats, UserList, ApprovalList, CaseList}
SuperDashboard == {ReportStats, <<"GET", "integrations">>, ApprovalList, CaseList}

Overview(area) ==
    CASE area = "Visitor" -> VisitorDashboard
      [] area = "Client" -> ClientDashboard
      [] area = "Partner" -> PartnerDashboard
      [] area = "Agent" -> AgentDashboard
      [] area = "Manager" -> ManagerDashboard
      [] area = "Admin" -> AdminDashboard
      [] area = "Super" -> SuperDashboard

\* What a page asks for when it is opened, with what its role lets it ask.
Loads(area, page, role) ==
    CASE page = "overview" -> Overview(area)
      [] page = "cases" ->
           {CaseList} \cup (IF Can(role, "case.create") THEN {<<"GET", "case-types">>} ELSE {})
      [] page = "tasks" -> {TaskList}
      [] page = "approvals" -> {ApprovalList}
      [] page = "invoices" -> {<<"GET", "invoices">>}
      [] page = "documents" -> {<<"GET", "documents">>}
      [] page = "clients" -> {<<"GET", "clients">>, <<"GET", "partners">>}
      [] page = "users" -> {UserList}
      [] page = "reports" -> {ReportStats}
      [] page = "notifications" -> {NotificationList}
      [] page = "escalations" ->
           {CaseList} \cup (IF Can(role, "admin.reference.manage")
                              THEN {<<"GET", "escalation-rules">>} ELSE {})
      [] page = "admin" ->
           {<<"GET", "admin", "settings">>, <<"GET", "admin", "reference", "tax-rates">>,
            <<"GET", "admin", "flags">>}

\* The handler for which a request is meant.
MeantFor(request) == [k \in DOMAIN request |-> IF request[k] = "tax-rates" THEN "*" ELSE request[k]]

\* Wrong variant: the list of cases is for the members of the organisation.
ServesMembers(role, route) ==
    CASE route = CaseList -> "case.read.org" \in Permissions[role]
      [] OTHER -> TRUE

\* A list is one of the permissions that the API wants by name, or the permission
\* that stands for all of them where the service takes that.
Serves(role, route) ==
    CASE route = CaseList -> Permissions[role] \cap {"case.read.org", "case.read.own"} # {}
      [] route = UserList -> Can(role, "user.read")
      [] route = <<"GET", "invoices">> -> Can(role, "finance.read")
      [] route = <<"GET", "documents">> ->
           role \in {"Client", "Visitor"} \/ Can(role, "document.read")
      [] route \in {<<"GET", "clients">>, <<"GET", "partners">>} -> Can(role, "crm.read")
      [] route \in {<<"GET", "escalation-rules">>, <<"GET", "admin", "reference", "*">>} ->
           Can(role, "admin.reference.manage")
      [] route \in {<<"GET", "admin", "settings">>, <<"GET", "admin", "flags">>} ->
           Can(role, "org.settings.manage")
      [] OTHER -> TRUE
-----------------------------------------------------------------------------
\* The layout opens an area for its own role, and every area for the role of all
\* permissions.
AreaOpens(area, role) == area = role \/ Can(role, "*")

\* What a page wants of the profile before it shows anything: what its item wants,
\* but for the cases, the overview and the notifications.
GateOpens(page, role) ==
    page \in {"cases", "overview", "notifications"} \/ \A p \in Asks(page) : Can(role, p)

\* The pages that give up when their list is refused; the others go on without.
GivesUp(page) == page \in {"cases", "users", "invoices", "tasks", "approvals", "documents"}

NoAccess ==
    /\ place # Nowhere
    /\ \/ ~AreaOpens(place.area, profile) \/ ~GateOpens(place.page, profile)
       \/ GivesUp(place.page) /\ {CaseList, UserList, <<"GET", "invoices">>, TaskList, ApprovalList,
                                  <<"GET", "documents">>} \cap refused # {}

Init ==
    /\ holds \in RoleCodes /\ profile = holds
    /\ place = HomeOf(holds) /\ offered = Nowhere
    /\ waiting = Overview(holds) /\ refused = {} /\ misled = {}
    /\ outdated = FALSE

Displayed(at, role) ==
    /\ place' = at
    /\ waiting' = IF at # Nowhere /\ AreaOpens(at.area, role)
                  THEN Loads(at.area, at.page, role) ELSE {}
    /\ refused' = {} /\ misled' = {}

\* An address is typed, or the page loaded again: the profile is read afresh.
Enter(at) ==
    /\ profile' = holds /\ outdated' = FALSE /\ offered' = Nowhere
    /\ Displayed(at, holds)
    /\ UNCHANGED holds

\* A link of the page on display.
Follow(target) ==
    /\ place # Nowhere /\ AreaOpens(place.area, profile)
    /\ target \in LinksOn(place, profile)
    /\ offered' = target
    /\ Displayed(Reached(target, profile), profile)
    /\ UNCHANGED <<holds, profile, outdated>>

\* changeRole, by an administrator.
ChangeRole(role) ==
    /\ role # holds
    /\ holds' = role /\ outdated' = TRUE
    /\ UNCHANGED <<profile, place, offered, waiting, refused, misled>>

Answer(request) ==
    /\ request \in waiting /\ waiting' = waiting \ {request}
    /\ LET handler == Handler(request) IN
         /\ misled' = IF handler # MeantFor(request) THEN misled \cup {request} ELSE misled
         /\ refused' = IF Serves(holds, handler) THEN refused ELSE refused \cup {request}
    /\ UNCHANGED <<holds, profile, place, offered, outdated>>

Next ==
    \/ \E area \in Areas : \E at \in InArea(area, StaffItems) : Enter(at)
    \/ \E target \in LinksOn(place, profile) : Follow(target)
    \/ \E role \in RoleCodes : ChangeRole(role)
    \/ \E request \in waiting : Answer(request)

Spec == Init /\ [][Next]_rolePageVars
-----------------------------------------------------------------------------
Places == [area: Areas, page: StaffItems]

TypeOK ==
    /\ holds \in RoleCodes /\ profile \in RoleCodes /\ outdated \in BOOLEAN
    /\ place \in Places \cup {Nowhere} /\ offered \in Places \cup QueueLinks \cup {Nowhere}
    /\ waiting \cup refused \cup misled \subseteq
         IF place = Nowhere THEN {} ELSE Loads(place.area, place.page, profile)

\* The comment of the layout says of its menu: "users never even see links they
\* cannot use".  Of the menu, the header and the dashboards: for a role that names
\* its permissions a link leads to the page it names and that page opens, but for
\* the two links of the queue of cases, which name no area and lead to no page or
\* back home; and each request of a page is answered by the handler it is meant
\* for.  Unless the role has changed since the profile was read.
LinksOpen ==
    /\ misled = {}
    /\ offered # Nowhere /\ ~outdated /\ profile # "Super" =>
         ~NoAccess /\ (place = offered <=> offered \notin QueueLinks)
=============================================================================
