------------------------ MODULE OrganizationSettings ------------------------
(***************************************************************************)
(* The settings of the internal organisation: one JSON column that four    *)
(* endpoints write (admin.controller.ts, tenancy.service.ts), two of them  *)
(* after merging into what they read, and the maintenance gate of          *)
(* auth.guard.ts, which keeps its value for five seconds.                  *)
(***************************************************************************)
EXTENDS Naturals

CONSTANTS
    Editors,      \* writing requests that may be in progress at once
    Visitors,     \* requests that the gate checks
    CacheTicks,   \* the age up to which the cached value is served
    ReadTicks,    \* what a query of the gate takes at most
    Null

VARIABLES
    settings,     \* the column: maintenance, and the other keys
    status,       \* the status of the organisation
    edit,         \* what an editor has read
    gate,         \* maintenanceCache: its value and its age; too old is as good as none
    visit,        \* the queries of the gate in progress
    unchanged     \* history: how long maintenance has had its value

settingsVars == <<settings, status, edit, gate, visit, unchanged>>
-----------------------------------------------------------------------------
\* "unset" is read as off; the other keys are one value, the last that was sent.
Settings == [maintenance: {"unset", "on", "off"}, rest: {"unset", "sent"}]
On(s) == s.maintenance = "on"

\* Ages beyond the longest that matters are not told apart.
Longest == CacheTicks + ReadTicks + 1
Older(n) == IF n < Longest THEN n + 1 ELSE n

Edit == [at: {"idle", "settings", "flags"}, read: Settings \cup {Null}]
NoEdit == [at |-> "idle", read |-> Null]
Gate == [on: BOOLEAN, age: 0..Longest]
Visit == [at: {"idle", "query", "answer"}, on: BOOLEAN, age: 0..ReadTicks]
NoVisit == [at |-> "idle", on |-> FALSE, age |-> 0]

Init ==
    /\ settings = [maintenance |-> "unset", rest |-> "unset"] /\ status = "ACTIVE"
    /\ edit = [e \in Editors |-> NoEdit]
    /\ gate = [on |-> FALSE, age |-> Longest]
    /\ visit = [v \in Visitors |-> NoVisit]
    /\ unchanged = Longest

Write(s) ==
    /\ settings' = s
    /\ unchanged' = IF On(s) = On(settings) THEN unchanged ELSE 0
-----------------------------------------------------------------------------
\* putSettings and putFlags read the column and write it back, merged with the
\* keys of the request, of which maintenance may be one in both.
BeginEdit(e, kind) ==
    /\ edit[e].at = "idle"
    /\ edit' = [edit EXCEPT ![e] = [at |-> kind, read |-> settings]]
    /\ UNCHANGED <<settings, status, gate, visit, unchanged>>
Merged(read, value) == IF value = "kept" THEN read.maintenance ELSE value
PutSettings(e, value) ==
    /\ edit[e].at = "settings"
    /\ Write([maintenance |-> Merged(edit[e].read, value), rest |-> "sent"])
    /\ edit' = [edit EXCEPT ![e] = NoEdit]
    /\ UNCHANGED <<status, gate, visit>>
PutFlags(e, value) ==
    /\ edit[e].at = "flags"
    /\ Write([edit[e].read EXCEPT !.maintenance = Merged(edit[e].read, value)])
    /\ edit' = [edit EXCEPT ![e] = NoEdit]
    /\ UNCHANGED <<status, gate, visit>>

\* updateOrganization and suspendOrganization replace the column.
UpdateOrganization(s) ==
    /\ Write(s)
    /\ UNCHANGED <<status, edit, gate, visit>>
SuspendOrganization ==
    /\ status' = "SUSPENDED"
    /\ Write([maintenance |-> "unset", rest |-> "sent"])
    /\ UNCHANGED <<edit, gate, visit>>
ReactivateOrganization ==
    /\ status' = "ACTIVE"
    /\ UNCHANGED <<settings, edit, gate, visit, unchanged>>
-----------------------------------------------------------------------------
\* checkMaintenance: a cached value that is young enough is served and changes
\* nothing; otherwise the row is queried, and the answer cached when it is back.
Stale == gate.age > CacheTicks

\* Wrong variant: the value that is served is as good as new.
ServeAnew ==
    /\ ~Stale
    /\ gate' = [gate EXCEPT !.age = 0]
    /\ UNCHANGED <<settings, status, edit, visit, unchanged>>
Serve ==
    /\ ~Stale
    /\ UNCHANGED settingsVars

Query(v) ==
    /\ visit[v].at = "idle" /\ Stale
    /\ visit' = [visit EXCEPT ![v] = [at |-> "query", on |-> FALSE, age |-> 0]]
    /\ UNCHANGED <<settings, status, edit, gate, unchanged>>
Snapshot(v) ==
    /\ visit[v].at = "query"
    /\ visit' = [visit EXCEPT ![v].at = "answer", ![v].on = On(settings)]
    /\ UNCHANGED <<settings, status, edit, gate, unchanged>>
Cache(v) ==
    /\ visit[v].at = "answer"
    /\ gate' = [on |-> visit[v].on, age |-> 0]
    /\ visit' = [visit EXCEPT ![v] = NoVisit]
    /\ UNCHANGED <<settings, status, edit, unchanged>>

\* Time passes, for a query in progress no longer than ReadTicks.
Tick ==
    /\ \A v \in Visitors : visit[v].at # "idle" => visit[v].age < ReadTicks
    /\ visit' = [v \in Visitors |-> IF visit[v].at = "idle" THEN visit[v]
                                    ELSE [visit[v] EXCEPT !.age = @ + 1]]
    /\ gate' = [gate EXCEPT !.age = Older(@)]
    /\ unchanged' = Older(unchanged)
    /\ UNCHANGED <<settings, status, edit>>
Restart ==
    /\ gate' = [gate EXCEPT !.age = Longest]
    /\ edit' = [e \in Editors |-> NoEdit]
    /\ visit' = [v \in Visitors |-> NoVisit]
    /\ UNCHANGED <<settings, status, unchanged>>

Next ==
    \/ \E e \in Editors :
          \/ \E kind \in {"settings", "flags"} : BeginEdit(e, kind)
          \/ \E value \in {"kept", "on", "off"} : PutSettings(e, value) \/ PutFlags(e, value)
    \/ \E s \in Settings : UpdateOrganization(s)
    \/ SuspendOrganization \/ ReactivateOrganization
    \/ \E v \in Visitors : Query(v) \/ Snapshot(v) \/ Cache(v)
    \/ Serve \/ Tick \/ Restart

Spec == Init /\ [][Next]_settingsVars
-----------------------------------------------------------------------------
TypeOK ==
    /\ settings \in Settings /\ status \in {"ACTIVE", "SUSPENDED"}
    /\ edit \in [Editors -> Edit] /\ visit \in [Visitors -> Visit]
    /\ gate \in Gate /\ unchanged \in 0..Longest

\* However edits overlap and lose each other's keys, what the gate serves is at
\* most the age of the cache and one query behind the column: a value it still
\* serves after that is the one the column holds.
GateFollows ==
    ~Stale /\ unchanged > CacheTicks + ReadTicks => gate.on = On(settings)
=============================================================================
