----------------------------- MODULE ApiRoutes -----------------------------
(***************************************************************************)
(* The routes of the API, controller by controller in the order in which   *)
(* the framework registers them: a request is handled by the first route   *)
(* that matches it, so the order of two handlers of one controller, and of *)
(* two modules of the application, is part of what they do.  The framework *)
(* (NestJS over Express) is external.                                      *)
(***************************************************************************)
EXTENDS Naturals, Sequences

\* A route and a request are a verb and the segments of a path; a segment "*" of
\* a route stands for a parameter and takes any segment.
CasesRoutes ==
    << <<"GET", "cases">>, <<"POST", "cases">>, <<"POST", "cases", "bulk", "assign">>,
       <<"POST", "cases", "export">>, <<"GET", "cases", "*">>, <<"PATCH", "cases", "*">>,
       <<"POST", "cases", "*", "submit">>, <<"POST", "cases", "*", "qualify">>,
       <<"POST", "cases", "*", "assign">>, <<"POST", "cases", "*", "hold">>,
       <<"POST", "cases", "*", "resume">>, <<"POST", "cases", "*", "close">>,
       <<"POST", "cases", "*", "reopen">>, <<"GET", "cases", "*", "history">>,
       <<"GET", "cases", "*", "comments">>, <<"POST", "cases", "*", "comments">>,
       <<"POST", "cases", "*", "transition">> >>

CaseTypesRoutes ==
    << <<"GET", "case-types">>, <<"POST", "admin", "reference", "case-types">> >>

WorkflowRoutes ==
    << <<"GET", "tasks">>, <<"POST", "tasks">>, <<"PATCH", "tasks", "*">>,
       <<"POST", "tasks", "*", "claim">>, <<"POST", "tasks", "*", "reassign">>,
       <<"POST", "tasks", "*", "complete">>, <<"POST", "tasks", "*", "block">>,
       <<"GET", "approvals">>, <<"POST", "approvals", "*", "decide">>,
       <<"POST", "approvals", "*", "delegate">>, <<"POST", "approvals", "*", "override">>,
       <<"GET", "process-templates">>, <<"POST", "process-templates">>,
       <<"GET", "escalation-rules">>, <<"PUT", "escalation-rules", "*">>,
       <<"POST", "escalation-rules">>, <<"POST", "escalations", "sweep">>,
       <<"POST", "tasks", "reminders", "run">> >>

IdentityRoutes ==
    << <<"POST", "auth", "register">>, <<"POST", "auth", "verify-email">>,
       <<"POST", "auth", "resend-verification">>, <<"POST", "auth", "password", "forgot">>,
       <<"POST", "auth", "password", "reset">>, <<"POST", "auth", "login">>,
       <<"POST", "auth", "mfa", "verify">>, <<"POST", "auth", "mfa", "enrol", "challenge">>,
       <<"POST", "auth", "mfa", "confirm", "challenge">>, <<"POST", "auth", "refresh">>,
       <<"POST", "auth", "logout">>, <<"GET", "auth", "me">>, <<"GET", "auth", "sessions">>,
       <<"DELETE", "auth", "sessions", "*">>, <<"POST", "auth", "mfa", "enrol">>,
       <<"POST", "auth", "mfa", "confirm">>, <<"DELETE", "auth", "mfa">> >>

TenancyRoutes ==
    << <<"GET", "organizations">>, <<"POST", "organizations">>,
       <<"GET", "organizations", "*">>, <<"PATCH", "organizations", "*">>,
       <<"POST", "organizations", "*", "suspend">>,
       <<"POST", "organizations", "*", "reactivate">>,
       <<"GET", "organizations", "*", "members">>,
       <<"POST", "organizations", "*", "invitations">>,
       <<"POST", "invitations", "*", "resend">>, <<"POST", "invitations", "*", "revoke">>,
       <<"POST", "invitations", "*", "accept">>, <<"DELETE", "memberships", "*">>,
       <<"PATCH", "memberships", "*">>, <<"GET", "users">>, <<"GET", "users", "*">>,
       <<"PATCH", "users", "*">>, <<"POST", "users", "*", "deactivate">>,
       <<"GET", "roles">>, <<"POST", "roles">>, <<"PATCH", "roles", "*">> >>

CrmRoutes ==
    << <<"POST", "organisations">>, <<"GET", "clients">>, <<"GET", "partners">>,
       <<"GET", "clients", "*", "overview">>, <<"GET", "contacts">>, <<"POST", "contacts">>,
       <<"PATCH", "contacts", "*">>, <<"DELETE", "contacts", "*">>,
       <<"POST", "contacts", "*", "consents">>, <<"POST", "contacts", "*", "portal-access">>,
       <<"GET", "crm", "segments">>, <<"POST", "crm", "export">>, <<"GET", "search">>,
       <<"POST", "crm", "compliance", "sweep">> >>

DocumentsRoutes ==
    << <<"GET", "documents">>, <<"POST", "documents", "upload-sessions">>,
       <<"POST", "documents", "upload-sessions", "*", "complete">>,
       <<"GET", "documents", "*", "download-url">>, <<"GET", "documents", "*", "download">>,
       <<"GET", "documents", "*", "versions">>, <<"POST", "documents", "*", "versions">>,
       <<"PATCH", "documents", "*">>, <<"DELETE", "documents", "*">>,
       <<"POST", "documents", "*", "signature-requests">>,
       <<"GET", "signature-requests", "*">>, <<"POST", "webhooks", "esign">> >>

FinanceRoutes ==
    << <<"POST", "invoices">>, <<"PATCH", "invoices", "*">>, <<"GET", "invoices">>,
       <<"POST", "invoices", "*", "issue">>, <<"GET", "invoices", "*", "pdf-url">>,
       <<"GET", "invoices", "*", "pdf">>, <<"POST", "invoices", "*", "payment-intents">>,
       <<"GET", "finance", "reconciliation">>, <<"POST", "finance", "reconciliation", "match">>,
       <<"POST", "webhooks", "payment">>, <<"GET", "clients", "*", "statement">>,
       <<"POST", "invoices", "*", "payments">>, <<"POST", "payments", "*", "refund">>,
       <<"POST", "invoices", "*", "void">>, <<"POST", "finance", "overdue-sweep">> >>

NotificationsRoutes ==
    << <<"GET", "notifications">>, <<"POST", "notifications", "*", "read">>,
       <<"POST", "notifications", "read-all">>, <<"POST", "notifications", "delivery", "run">>,
       <<"GET", "notifications", "stream">>, <<"POST", "notifications", "flush-held">>,
       <<"GET", "notification-preferences">>, <<"PUT", "notification-preferences">> >>

\* Wrong variant: the report named in the path is matched before the dashboard.
ReportsRoutesByCodeFirst ==
    << <<"GET", "reports", "*">>, <<"GET", "reports", "dashboard">>,
       <<"GET", "reports", "catalogue">>, <<"POST", "reports", "export">>, <<"GET", "jobs", "*">> >>

ReportsRoutes ==
    << <<"GET", "reports", "dashboard">>, <<"GET", "reports", "catalogue">>,
       <<"GET", "reports", "*">>, <<"POST", "reports", "export">>, <<"GET", "jobs", "*">> >>

AdminRoutes ==
    << <<"GET", "admin", "audit">>, <<"POST", "admin", "audit", "append-only-check">>,
       <<"POST", "admin", "audit", "export">>, <<"POST", "admin", "impersonate">>,
       <<"POST", "admin", "impersonate", "stop">>, <<"GET", "integrations">>,
       <<"PUT", "integrations", "*">>, <<"POST", "integrations", "*", "test">>,
       <<"GET", "admin", "settings">>, <<"PUT", "admin", "settings">>,
       <<"GET", "admin", "reference", "*">>, <<"PUT", "admin", "reference", "*">>,
       <<"GET", "admin", "flags">>, <<"PUT", "admin", "flags">>,
       <<"GET", "admin", "reference", "notification-templates">>,
       <<"PUT", "admin", "reference", "notification-templates", "*">>,
       <<"GET", "health">>, <<"GET", "health", "ready">> >>

PublicRoutes == << <<"POST", "public", "requests">> >>

AppRoutes == << <<"GET">> >>

\* The modules as AppModule imports them, its own controller first.
Routes ==
    AppRoutes \o CasesRoutes \o CaseTypesRoutes \o WorkflowRoutes \o IdentityRoutes
      \o TenancyRoutes \o CrmRoutes \o DocumentsRoutes \o FinanceRoutes \o NotificationsRoutes
      \o ReportsRoutes \o AdminRoutes \o PublicRoutes
-----------------------------------------------------------------------------
Takes(route, request) ==
    /\ Len(route) = Len(request)
    /\ \A k \in DOMAIN route : route[k] \in {"*", request[k]}

\* The first route that takes the request; <<>> where none does.
Handler(request) ==
    LET taking == {n \in DOMAIN Routes : Takes(Routes[n], request)} IN
    IF taking = {} THEN <<>> ELSE Routes[CHOOSE n \in taking : \A m \in taking : n <= m]
=============================================================================
