----------------------------- MODULE CaseTasks -----------------------------
(***************************************************************************)
(* The tasks of one case (workflow.service.ts) while its people leave      *)
(* (tenancy.service.ts deactivateUser).  Every request reads the task,     *)
(* awaits, and writes it by id whatever it is by then; what a leaver holds *)
(* is listed before the transaction that returns it to the queue.          *)
(***************************************************************************)
EXTENDS Naturals

CONSTANTS
    Requests,   \* requests that may be in progress at once
    Users,
    Tasks,      \* 1..n: the steps of the template first, then ad-hoc tasks
    Null

VARIABLES
    task,       \* the task rows
    gone,       \* the users who were deactivated
    request,    \* what each request is in the middle of
    late        \* history: tasks that fell to somebody who was leaving or gone

taskVars == <<task, gone, request, late>>
-----------------------------------------------------------------------------
Open == {"OPEN", "IN_PROGRESS", "BLOCKED"}
TaskRow == [status: Open \cup {"ABSENT", "DONE"}, holder: Users \cup {Null},
            blocker: Tasks \cup {Null}]
Request == [at: {"idle", "claim", "complete", "block", "leave"}, user: Users \cup {Null},
            task: Tasks \cup {Null}, holder: Users \cup {Null}, listed: SUBSET Tasks]
Idle == [at |-> "idle", user |-> Null, task |-> Null, holder |-> Null, listed |-> {}]

\* transitionCase creates the steps of the template: the first is open and the
\* owner's, those after it blocked, and the owner's or in the queue of a role.
Init ==
    /\ \E owner \in Users, steps \in Tasks : \E mine \in SUBSET (1..steps) :
          task = [t \in Tasks |->
                    IF t > steps THEN [status |-> "ABSENT", holder |-> Null, blocker |-> Null]
                    ELSE [status |-> IF t = 1 THEN "OPEN" ELSE "BLOCKED",
                          holder |-> IF t = 1 \/ t \in mine THEN owner ELSE Null,
                          blocker |-> IF t = 1 THEN Null ELSE t - 1]]
    /\ gone = {} /\ late = {}
    /\ request = [r \in Requests |-> Idle]

Exists(t) == task[t].status # "ABSENT"
At(r, stage) == request[r].at = stage
Begin(r, next) ==
    /\ At(r, "idle")
    /\ request' = [request EXCEPT ![r] = next]
    /\ UNCHANGED <<task, gone, late>>
End(r) == request' = [request EXCEPT ![r] = Idle]

\* Who is leaving when a task falls to him will not see it listed.
Leaving(u) == u \in gone \/ \E r \in Requests : At(r, "leave") /\ request[r].user = u
Noted(t, u) == late' = IF Leaving(u) THEN late \cup {t} ELSE late \ {t}
-----------------------------------------------------------------------------
CreateTask(t, u, blocker) ==
    /\ ~Exists(t) /\ blocker \in {b \in Tasks : Exists(b)} \cup {Null}
    /\ task' = [task EXCEPT ![t] = [status |-> IF blocker = Null THEN "OPEN" ELSE "BLOCKED",
                                    holder |-> u, blocker |-> blocker]]
    /\ Noted(t, u)
    /\ UNCHANGED <<gone, request>>

\* claimTask: the task was nobody's when it was read.
BeginClaim(r, u, t) ==
    /\ u \notin gone /\ Exists(t) /\ task[t].holder = Null
    /\ Begin(r, [Idle EXCEPT !.at = "claim", !.user = u, !.task = t])
CommitClaim(r) ==
    /\ At(r, "claim")
    /\ LET t == request[r].task IN
       /\ task' = [task EXCEPT ![t].holder = request[r].user, ![t].status = "IN_PROGRESS"]
       /\ Noted(t, request[r].user)
    /\ End(r)
    /\ UNCHANGED gone

ReassignTask(t, u) ==
    /\ Exists(t) /\ task' = [task EXCEPT ![t].holder = u]
    /\ Noted(t, u)
    /\ UNCHANGED <<gone, request>>

\* completeTask, by the assignee or somebody who may reassign: it keeps the
\* assignee that was read, and opens one task that waits for it, whatever that
\* one's status is.
Waiting(t) == {n \in Tasks : Exists(n) /\ task[n].blocker = t}
BeginComplete(r, u, t) ==
    /\ u \notin gone /\ Exists(t)
    /\ Begin(r, [Idle EXCEPT !.at = "complete", !.user = u, !.task = t,
                             !.holder = task[t].holder])
CommitComplete(r) ==
    /\ At(r, "complete")
    /\ LET t == request[r].task
           u == IF request[r].holder = Null THEN request[r].user ELSE request[r].holder
           done == [task EXCEPT ![t].status = "DONE", ![t].holder = u] IN
       IF Waiting(t) = {} THEN task' = done /\ Noted(t, u)
       ELSE \E n \in Waiting(t) :
               /\ task' = [done EXCEPT ![n].status = "OPEN"]
               /\ late' = {k \in Tasks : \/ k \in late /\ k # t
                                         \/ k \in {t, n} /\ Leaving(task'[k].holder)}
    /\ End(r)
    /\ UNCHANGED gone

BeginBlock(r, t) == Exists(t) /\ Begin(r, [Idle EXCEPT !.at = "block", !.task = t])
CommitBlock(r) ==
    /\ At(r, "block")
    /\ LET t == request[r].task IN
       /\ task' = [task EXCEPT ![t].status = "BLOCKED"]
       /\ late' = IF Leaving(task[t].holder) THEN late \cup {t} ELSE late
    /\ End(r)
    /\ UNCHANGED gone
-----------------------------------------------------------------------------
\* Wrong variant: only the tasks that are open or in progress are listed.
BeginDeactivateActive(r, u) ==
    /\ u \notin gone
    /\ Begin(r, [Idle EXCEPT !.at = "leave", !.user = u,
                   !.listed = {t \in Tasks : task[t].holder = u
                                             /\ task[t].status \in {"OPEN", "IN_PROGRESS"}}])

\* deactivateUser lists the open tasks of the user, then returns all of them to
\* the queue of their role in the transaction that disables the account.
BeginDeactivate(r, u) ==
    /\ u \notin gone
    /\ Begin(r, [Idle EXCEPT !.at = "leave", !.user = u,
                   !.listed = {t \in Tasks : task[t].holder = u /\ task[t].status \in Open}])
CommitDeactivate(r) ==
    /\ At(r, "leave")
    /\ gone' = gone \cup {request[r].user}
    /\ task' = [t \in Tasks |-> IF t \in request[r].listed THEN [task[t] EXCEPT !.holder = Null]
                                ELSE task[t]]
    /\ late' = late \ request[r].listed
    /\ End(r)

\* A request fails, or the process dies, between two statements.
Abandon(r) ==
    /\ ~At(r, "idle") /\ End(r)
    /\ UNCHANGED <<task, gone, late>>

Next ==
    \/ \E r \in Requests :
          \/ \E u \in Users, t \in Tasks : BeginClaim(r, u, t) \/ BeginComplete(r, u, t)
          \/ \E t \in Tasks : BeginBlock(r, t)
          \/ \E u \in Users : BeginDeactivate(r, u)
          \/ CommitClaim(r) \/ CommitComplete(r) \/ CommitBlock(r) \/ CommitDeactivate(r)
          \/ Abandon(r)
    \/ \E t \in Tasks, u \in Users \cup {Null}, blocker \in Tasks \cup {Null} :
          CreateTask(t, u, blocker)
    \/ \E t \in Tasks, u \in Users : ReassignTask(t, u)

Spec == Init /\ [][Next]_taskVars
-----------------------------------------------------------------------------
TypeOK ==
    /\ task \in [Tasks -> TaskRow] /\ gone \subseteq Users /\ late \subseteq Tasks
    /\ request \in [Requests -> Request]

\* Whoever is deactivated leaves no open task behind, except one that fell to
\* him, or was opened again, while he was leaving or after that: the queue gets
\* everything else, whatever else people do to the same tasks meanwhile.
HandedOver ==
    \A t \in Tasks : task[t].status \in Open /\ task[t].holder \in gone => t \in late
=============================================================================
