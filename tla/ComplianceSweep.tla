-------------------------- MODULE ComplianceSweep --------------------------
(***************************************************************************)
(* crm.service.ts sweepCompliance, for one client organisation and the     *)
(* documents of one category: the task and the notice for a document that  *)
(* expires within 30 days, the status AT_RISK of the organisation while no *)
(* document is valid, and the tasks closed when there is no more concern.  *)
(* Organisations are read when a sweep starts, documents when it comes to  *)
(* the organisation; each answer is acted on statement by statement.       *)
(***************************************************************************)
EXTENDS Naturals, FiniteSets

CONSTANTS
    Sweepers,   \* sweeps that may run at once
    Documents   \* the documents of the category, present or not

VARIABLES
    document,    \* each document: its expiry as of now, or absent
    compliance,  \* organization.complianceStatus
    managed,     \* has the organisation anybody to tell?
    tasks,       \* open DOC_EXPIRY tasks of each document that were never done
    finished,    \* the documents of which a task was ever done
    reopened,    \* the documents of which such a task is open again
    noticed,     \* notices of each document that DOCUMENTS_EXPIRING finds
    alarmed,     \* does COMPLIANCE_AT_RISK find a notice for the category?
    sweeping,    \* what each sweep has read and where it is
    calm         \* history: sweeps during which no other ran, no document changed
                 \* and no task was opened again

assignments == <<tasks, finished, reopened>>
complianceVars == <<document, compliance, managed, assignments, noticed, alarmed, sweeping, calm>>
-----------------------------------------------------------------------------
Expiry == {"absent", "valid", "soon", "expired", "deleted"}
Sweeping == [at: {"idle", "orgs", "warn", "assign", "ask", "notify", "judge", "close"},
             risk: BOOLEAN, seen: [Documents -> Expiry],
             todo: SUBSET Documents, now: SUBSET Documents]
Nothing == [at |-> "idle", risk |-> FALSE, seen |-> [d \in Documents |-> "absent"],
            todo |-> {}, now |-> {}]

Init ==
    /\ document = [d \in Documents |-> "absent"]
    /\ compliance = "COMPLIANT" /\ managed \in BOOLEAN
    /\ tasks = [d \in Documents |-> 0] /\ finished = {} /\ reopened = {}
    /\ noticed = [d \in Documents |-> 0]
    /\ sweeping = [s \in Sweepers |-> Nothing] /\ calm = {} /\ alarmed = FALSE

Kept(seen) == {d \in Documents : seen[d] \notin {"absent", "deleted"}}
HasValid(seen) == \E d \in Documents : seen[d] \in {"valid", "soon"}
Lapsed(seen) == ~HasValid(seen) /\ \E d \in Documents : seen[d] = "expired"

At(s, stage) == sweeping[s].at = stage
Step(s, next) == sweeping' = [sweeping EXCEPT ![s] = next]
-----------------------------------------------------------------------------
BeginSweep(s) ==
    /\ At(s, "idle")
    /\ Step(s, [Nothing EXCEPT !.at = "orgs", !.risk = (compliance = "AT_RISK")])
    /\ calm' = IF \A other \in Sweepers : At(other, "idle") THEN {s} ELSE {}
    /\ UNCHANGED <<document, compliance, managed, assignments, noticed, alarmed>>
ReadDocuments(s) ==
    /\ At(s, "orgs")
    /\ Step(s, [sweeping[s] EXCEPT !.at = "warn", !.seen = document,
                                   !.todo = {d \in Documents : document[d] = "soon"}])
    /\ UNCHANGED <<document, compliance, managed, assignments, noticed, alarmed, calm>>

\* 1. For each document that expires soon: is there an open task, and is there a
\* notice?  Without anybody to tell neither is written.
Warn(s, d) ==
    /\ At(s, "warn") /\ d \in sweeping[s].todo
    /\ Step(s, [sweeping[s] EXCEPT !.todo = @ \ {d}, !.now = {d},
                   !.at = IF managed /\ tasks[d] = 0 /\ d \notin reopened
                          THEN "assign" ELSE "ask"])
    /\ UNCHANGED <<document, compliance, managed, assignments, noticed, alarmed, calm>>
Assign(s) ==
    /\ At(s, "assign")
    /\ tasks' = [d \in Documents |-> IF d \in sweeping[s].now THEN tasks[d] + 1 ELSE tasks[d]]
    /\ Step(s, [sweeping[s] EXCEPT !.at = "ask"])
    /\ UNCHANGED <<document, compliance, managed, finished, reopened, noticed, alarmed, calm>>

\* Wrong variant: a notice is sent whether there is one or not.
AskNothing(s) ==
    /\ At(s, "ask")
    /\ Step(s, [sweeping[s] EXCEPT !.at = IF managed THEN "notify" ELSE "warn"])
    /\ UNCHANGED <<document, compliance, managed, assignments, noticed, alarmed, calm>>

Ask(s) ==
    /\ At(s, "ask")
    /\ Step(s, [sweeping[s] EXCEPT !.at =
                   IF managed /\ \A d \in sweeping[s].now : noticed[d] = 0 THEN "notify" ELSE "warn"])
    /\ UNCHANGED <<document, compliance, managed, assignments, noticed, alarmed, calm>>
\* As its template and the preferences have it, notify stores a row that the next
\* sweep finds, or one under another code, or none.
Notify(s) ==
    /\ At(s, "notify")
    /\ \/ noticed' = [d \in Documents |->
                         IF d \in sweeping[s].now THEN noticed[d] + 1 ELSE noticed[d]]
       \/ UNCHANGED noticed
    /\ Step(s, [sweeping[s] EXCEPT !.at = "warn"])
    /\ UNCHANGED <<document, compliance, managed, assignments, alarmed, calm>>

\* Wrong variant: an organisation stays at risk once it was.
JudgeForGood(s) ==
    /\ At(s, "warn") /\ sweeping[s].todo = {}
    /\ compliance' = IF Lapsed(sweeping[s].seen) /\ ~sweeping[s].risk THEN "AT_RISK" ELSE compliance
    /\ alarmed' \in {alarmed, alarmed \/ (managed /\ Lapsed(sweeping[s].seen))}
    /\ Step(s, [sweeping[s] EXCEPT !.at = "close"])
    /\ UNCHANGED <<document, managed, assignments, noticed, calm>>

\* 2. and 3. The status is compared with the one read at the start.  Of a lapse
\* there is a notice unless there ever was one for the same categories.
Judge(s) ==
    /\ At(s, "warn") /\ sweeping[s].todo = {}
    /\ compliance' = CASE Lapsed(sweeping[s].seen) /\ ~sweeping[s].risk -> "AT_RISK"
                       [] ~Lapsed(sweeping[s].seen) /\ sweeping[s].risk -> "COMPLIANT"
                       [] OTHER -> compliance
    /\ alarmed' \in {alarmed, alarmed \/ (managed /\ Lapsed(sweeping[s].seen))}
    /\ Step(s, [sweeping[s] EXCEPT !.at = "close"])
    /\ UNCHANGED <<document, managed, assignments, noticed, calm>>

\* Wrong variant: a task that was opened again is passed over.
CloseNew(s) ==
    /\ At(s, "close")
    /\ LET seen == sweeping[s].seen
           over == {d \in Kept(seen) : seen[d] = "valid" \/ (seen[d] = "expired" /\ HasValid(seen))} IN
       /\ tasks' = [d \in Documents |-> IF d \in over THEN 0 ELSE tasks[d]]
       /\ finished' = finished \cup {d \in over : tasks[d] > 0}
    /\ Step(s, Nothing)
    /\ calm' = calm \ {s}
    /\ UNCHANGED <<document, compliance, managed, reopened, noticed, alarmed>>

\* 4. The open tasks of the documents that were read are closed, of those that
\* expired with another one valid, and those that expire later than soon.
Close(s) ==
    /\ At(s, "close")
    /\ LET seen == sweeping[s].seen
           over == {d \in Kept(seen) : seen[d] = "valid" \/ (seen[d] = "expired" /\ HasValid(seen))} IN
       /\ tasks' = [d \in Documents |-> IF d \in over THEN 0 ELSE tasks[d]]
       /\ reopened' = reopened \ over
       /\ finished' = finished \cup {d \in over : tasks[d] > 0 \/ d \in reopened}
    /\ Step(s, Nothing)
    /\ calm' = calm \ {s}
    /\ UNCHANGED <<document, compliance, managed, noticed, alarmed>>

\* The sweep fails, or the process dies.
Die(s) ==
    /\ ~At(s, "idle") /\ Step(s, Nothing) /\ calm' = calm \ {s}
    /\ UNCHANGED <<document, compliance, managed, assignments, noticed, alarmed>>
-----------------------------------------------------------------------------
\* A document is uploaded, given another date, runs towards its expiry, or is
\* deleted; a task is done; people come and go.
ChangeDocument(d, to) ==
    /\ document[d] # "deleted" /\ document' = [document EXCEPT ![d] = to]
    /\ calm' = {}
    /\ UNCHANGED <<compliance, managed, assignments, noticed, alarmed, sweeping>>
CompleteTask(d) ==
    /\ \/ tasks[d] > 0 /\ tasks' = [tasks EXCEPT ![d] = @ - 1] /\ UNCHANGED reopened
       \/ d \in reopened /\ reopened' \in {reopened, reopened \ {d}} /\ UNCHANGED tasks
    /\ finished' = finished \cup {d}
    /\ UNCHANGED <<document, compliance, managed, noticed, alarmed, sweeping, calm>>

\* blockTask writes BLOCKED, which is open, whatever the task is by now.
BlockTask(d) ==
    /\ d \in finished /\ reopened' = reopened \cup {d}
    /\ calm' = {}
    /\ UNCHANGED <<document, compliance, managed, tasks, finished, noticed, alarmed, sweeping>>
ChangeManagers ==
    /\ managed' = ~managed
    /\ UNCHANGED <<document, compliance, assignments, noticed, alarmed, sweeping, calm>>

Next ==
    \/ \E s \in Sweepers :
          \/ BeginSweep(s) \/ ReadDocuments(s) \/ Assign(s) \/ Ask(s) \/ Notify(s)
          \/ Judge(s) \/ Close(s) \/ Die(s)
          \/ \E d \in Documents : Warn(s, d)
    \/ \E d \in Documents :
          \/ CompleteTask(d) \/ BlockTask(d)
          \/ \E to \in Expiry \ {"absent"} : ChangeDocument(d, to)
    \/ ChangeManagers

Spec == Init /\ [][Next]_complianceVars
-----------------------------------------------------------------------------
TypeOK ==
    /\ document \in [Documents -> Expiry] /\ compliance \in {"COMPLIANT", "AT_RISK"}
    /\ managed \in BOOLEAN /\ alarmed \in BOOLEAN /\ calm \subseteq Sweepers
    /\ finished \subseteq Documents /\ reopened \subseteq Documents
    /\ tasks \in [Documents -> Nat] /\ noticed \in [Documents -> Nat]
    /\ sweeping \in [Sweepers -> Sweeping]

\* "Nothing fires twice for the same state", as far as sweeps do not overlap, a
\* task that is done stays so and a notice can be found: a document has as many
\* open tasks, besides those opened again, and as many notices that are stored
\* under their key, as sweeps at most.
FiledOnce ==
    \A d \in Documents : /\ tasks[d] <= Cardinality(Sweepers)
                         /\ noticed[d] <= Cardinality(Sweepers)

\* After a sweep that no other overlapped and during which no document changed
\* and no task was opened again, whatever went before, the organisation is at risk
\* if and only if its documents have lapsed, and no task is open for a valid one.
SweepSettles ==
    [][ \A s \in Sweepers :
          s \in calm /\ Close(s) =>
             /\ (compliance = "AT_RISK") = Lapsed(document)
             /\ \A d \in Documents : document[d] = "valid" => tasks'[d] = 0 /\ d \notin reopened' ]_complianceVars
=============================================================================
