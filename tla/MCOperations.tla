---------------------------- MODULE MCOperations ----------------------------
(***************************************************************************)
(* The parts of the program that work on their own rows while cases are    *)
(* worked on, in one model: the first state chooses the part that this     *)
(* behaviour follows, the others stand still in one state of theirs.       *)
(***************************************************************************)
EXTENDS ApprovalChain

CONSTANTS
    a1, a2, clerk, manager, h1, h2,
    Sweepers, People, Managers, Candidate, Thresholds, ReassignAt,
    Checkers, SecondChecker, Documents, SecondDocument,
    Requests, Uploads, Tokens, MaxDocuments,
    Tasks,
    DayLength, Week, Holidays, Latest, MaxHours, Horizon

VARIABLES
    part,
    subject, progress, owner, reached, ledger, fired, sweep,
    document, compliance, managed, tasks, finished, reopened, noticed, alarmed, sweeping, calm,
    upload, doc, rows, grant, delivered, call, overlapped,
    task, gone, request, late,
    calendar, raised, hours, now

\* A template with approvals at levels 1 and 2, a clerk of level 0 and a manager
\* of level 2.  People start the work and send it to review, and leave the
\* outcome to the approvals.
MCApprovals == {a1, a2}
MCLevel == [a \in MCApprovals |-> IF a = a1 THEN 1 ELSE 2]
MCUsers == {clerk, manager}
MCAuthority == [u \in MCUsers |-> IF u = manager THEN 2 ELSE 0]
MCDestinations == {"IN_PROGRESS", "IN_REVIEW"}

E == INSTANCE EscalationSweep
C == INSTANCE ComplianceSweep WITH Sweepers <- Checkers
D == INSTANCE DocumentStore
T == INSTANCE CaseTasks
L == INSTANCE SlaCalendar

warnings == <<subject, progress, owner, reached, ledger, fired, sweep>>
concerns == <<document, compliance, managed, tasks, finished, reopened, noticed, alarmed, sweeping, calm>>
files == <<upload, doc, rows, grant, delivered, call, overlapped>>
work == <<task, gone, request, late>>
clock == <<calendar, raised, hours, now>>
operationVars == <<part, warnings, concerns, files, work, clock, vars>>

MCInit ==
    /\ part \in {"warnings", "concerns", "overlap", "files", "work", "clock", "approvals"}
    /\ Init
    /\ D!Init
    /\ E!Init /\ (part # "warnings" => subject = "task")
    /\ C!Init /\ (part \notin {"concerns", "overlap"} => managed)
    /\ IF part = "work" THEN T!Init
       ELSE task = <<>> /\ gone = {} /\ request = <<>> /\ late = {}
    /\ IF part = "clock" THEN L!Init
       ELSE calendar = <<>> /\ raised = 0 /\ hours = 0 /\ now = 0

MCNext ==
    \/ /\ part = "warnings" /\ E!Next
       /\ UNCHANGED <<part, vars, concerns, files, work, clock>>
    \* One sweep at a time over two documents, with tasks opened again for one and no
    \* notice of a lapse that is found, or two sweeps over one document.
    \/ /\ part = "concerns" /\ C!Next /\ sweeping'[SecondChecker] = sweeping[SecondChecker]
       /\ SecondDocument \notin reopened' /\ ~alarmed'
       /\ UNCHANGED <<part, vars, warnings, files, work, clock>>
    \/ /\ part = "overlap" /\ C!Next /\ document'[SecondDocument] = document[SecondDocument]
       /\ UNCHANGED <<part, vars, warnings, files, work, clock>>
    \/ /\ part = "files" /\ D!Next
       /\ UNCHANGED <<part, vars, warnings, concerns, work, clock>>
    \/ /\ part = "work" /\ T!Next
       /\ UNCHANGED <<part, vars, warnings, concerns, files, clock>>
    \/ /\ part = "clock" /\ L!Next
       /\ UNCHANGED <<part, vars, warnings, concerns, files, work>>
    \/ /\ part = "approvals" /\ Next
       /\ UNCHANGED <<part, warnings, concerns, files, work, clock>>

MCSpec == MCInit /\ [][MCNext]_operationVars
-----------------------------------------------------------------------------
\* Warnings are given in order, and none is given or filed again and again.  As
\* in each of these, the rows of the part keep their types.
WarnedRight ==
    /\ E!TypeOK /\ C!TypeOK
    /\ E!WarnedOnce /\ E!WarnedInOrder /\ C!FiledOnce

\* A grant is used once and versions are told apart.
StoreSafe == D!TypeOK /\ D!StoreSafe

\* What a sweep or an upload leaves behind is final, once nothing overlaps it.
WorkSettles == C!SweepSettles /\ D!UploadsSettle

\* Nobody who has left holds work that was given to him before he left.
HandedOver == part = "work" => T!TypeOK /\ T!HandedOver

\* The calendar of the code agrees with counting the working time.
CalendarAgrees == part = "clock" => L!TypeOK /\ L!CalendarAgrees
=============================================================================
