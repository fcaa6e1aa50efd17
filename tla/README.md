# BusinessHub in TLA+

BusinessHub is a case-management platform: a NestJS API over PostgreSQL
(`apps/api`), a Next.js client (`apps/web`), and nothing else that runs - there
is no worker process and no queue. Every piece of behaviour of the server is an
HTTP handler, the "nightly jobs" included: the escalation sweep, the overdue
sweep, the compliance sweep, the reminder run and the notification retry are
endpoints that somebody calls.

A handler is an `async` function. It reads rows, checks them, awaits, and later
writes - usually in a `prisma.$transaction`, but with `where: { id }` alone, at
PostgreSQL's default READ COMMITTED level and without a version column. Two
handlers that are in flight at once therefore interleave at their awaits. The
browser does the same on its side: an answer arrives in a page that may have
moved on. That is the one source of concurrency in the system and the models are
built around it: **a handler is two or more steps, and the step that reads keeps
what it has seen until the step that writes.** A state that lives in the memory of
the process (challenges, limits, grants, the breaker, the gate's cache) is lost
when it restarts, and the models restart it.

## The system

| Component | State it keeps | Operations | Hard behaviour |
|---|---|---|---|
| Case lifecycle (`cases/`) | `case`, `case_status_history` | create, update, transition, reopen | overlapping requests, pauses of the SLA clock, a declarative map that other writers bypass |
| Public intake (`public/`) | `case` | submitRequest | opens a case directly in SUBMITTED |
| Case references (`cases.service.ts:37`) | `gapless_sequence` | next value | concurrency, aborts |
| Finance ledger (`finance/`) | `invoice`, `payment`, `gapless_sequence` | draft, edit, issue, record, refund, void, intent, webhook, match, sweep | balances written from a stale reading, duplicated webhooks, late settlements, gap-free numbers |
| Tasks and approvals (`workflow/`) | `task`, `approval` | create, claim, reassign, complete, block, decide, delegate | two claims, two last decisions, late decisions, people who leave |
| Escalation, reminders, dunning (`workflow/`, `finance/`) | `notification` as a ledger | sweep, runReminders, sweepOverdue | check-then-notify, owners who change, a sweep cut short |
| SLA calendar (`sla.util.ts`) | none | computeSlaDueAt, workingMsBetween | edges of working days |
| Notifications (`notification.service.ts`) | `notification` | notify, deliver, retry, flushHeld | a process that dies between two steps, double retry |
| Live stream and bell (`notifications.controller.ts`, `app-shell.tsx`) | a stream's last count and row; the browser's list | tick, announce, poll, read | two questions per tick, overlapping ticks, reconnection |
| Mailer (`mailer.service.ts`) | breaker in memory | send | opening, cooling down, restart |
| Identity (`identity/`, `auth.guard.ts`) | `user`, `session`, `password_reset_token`, challenges in memory | login, MFA, enrolment, refresh, revoke, reset | rotation, lockout, counts that are read before they are written |
| Rate limiting (`rate-limit.service.ts`) | sliding windows in memory | hit, login failures | check before and record after an await, restart |
| Tenancy (`tenancy/`) | `membership`, `invitation`, `organization` | invite, accept, resend, revoke, remove, change role, deactivate | double acceptance, acceptance while registering, tasks of a leaver |
| Documents (`documents/`) | `document`, `job`, grants in memory | upload, complete, version, delete, grant, download, sign | a crash between two rows, equal version numbers, one-time tokens |
| CRM (`crm/`) | `organization.complianceStatus`, tasks, notices | contacts, consents, portal access, compliance sweep | overlapping sweeps over changing documents |
| Administration (`admin/`) | `organization.settings`, the guard's cache | settings, flags, maintenance switch, case types | two edits merged into one column, a cache that outlives the switch |
| API routes (controllers) | none | which handler a request reaches | routes that shadow later ones |
| Web client session (`auth-provider.tsx`, `api.ts`) | tokens and the chosen organisation in the browser's storage, a profile per tab | load, sign in, refresh, switch, sign out | answers that arrive after a switch, single-flight refresh, expired tokens at load |
| Web pages (`app/`, `components/`, `lib/nav.ts`) | the query cache | the lists of the pages, their requests, the menus of the roles | invalidation while an older reading is in flight, menus that offer what a page refuses |
| Seed (`prisma/seed`) | `role`, `permission` | the permissions of the roles | permissions nobody holds |
| Audit, PDF, storage mock, bootstrap and tools | - | one insert, formatting, wiring | none modelled |

Server components meet in the database only: the workflow writes the case that the
cases service owns, the ledger and the reference counter share
`gapless_sequence`, the sweeps use `notification` rows as the memory of what
was already sent, and deactivating a member returns the tasks of the workflow.
There are no messages between them and no callbacks. Server and browser meet in
requests, in the event stream, and in the tokens that the browser stores.

### What makes each component correct

* **Case lifecycle** - the status moves along the transition map only; the history
  tells the truth; a paused case has a stopped clock and no pause is counted
  twice; a closed case is read-only; work was submitted before it was done.
* **Ledger** - numbers are distinct and have no gaps; an issued invoice is frozen;
  the amount paid is what was received, up to the total; the status tells the
  balance; a void invoice holds no money.
* **References** - distinct, consecutive, no gap after an abort.
* **Tasks and approvals** - a decision is made by somebody entitled to it and
  reaches what it decides; whoever leaves leaves no work behind.
* **Sweeps** - a warning comes in order and not again and again; a judgement on
  compliance is that of the documents.
* **Calendar** - the deadline comes when the working time has passed.
* **Notifications** - a mail is recorded as sent when it was; a failed one is tried
  again until it is sent or out of attempts; quiet hours are kept; the bell counts
  what is unread.
* **Identity** - guesses are counted and lock; a lock stands; a family of sessions
  has one head and is ended for a cause.
* **Tenancy** - an active account is verified; an accepted invitation left a seat;
  nobody loses what they had to an overlap.
* **Documents** - an infected file never becomes a document; a grant is worth one
  download; versions are told apart.
* **Administration** - the gate follows its column.
* **Browser** - a page shows its organisation's data, shows what the user has seen
  succeed, and a menu offers what opens.

## The modules

| Module | Models | Kind |
|---|---|---|
| `CaseTransitions` | `transitions.ts` and the pure checks on it | operators |
| `CaseLifecycle` | the case row and everything that writes its status | state machine, EXTENDS `CaseTransitions` |
| `InvoiceLedger` | invoices, numbers, payments | state machine, implements `GaplessSequence` |
| `GaplessSequence` | what a reader of references is promised | abstract specification |
| `ReferenceAllocator` | the counter table, transaction by transaction | state machine, implements `GaplessSequence` |
| `NotificationOutbox` | notification rows, their delivery, the mailer's breaker | state machine |
| `ApprovalChain` | the approvals of a case: template, decisions, delegation | state machine, EXTENDS `CaseTransitions` |
| `CaseTasks` | the tasks of a case, and a member who leaves | state machine |
| `EscalationSweep` | the sweeps that warn ahead of time | state machine |
| `ComplianceSweep` | the compliance sweep over one client's documents | state machine |
| `DocumentStore` | uploads, versions, download grants | state machine |
| `SlaCalendar` | the two loops over working days | functions, against a definition by counting |
| `Onboarding` | registration, verification, invitations, seats | state machine |
| `SignIn` | password, lockout, challenges, enrolment, throttle | state machine |
| `SessionRotation` | sessions on the server and their tokens in the browser | state machine |
| `OrganizationSettings` | the settings column and the maintenance gate | state machine |
| `NotificationBell` | the event stream and the bell that listens to it | state machine |
| `PageCache` | the lists of the pages and what the requests of the user invalidate | state machine |
| `ClientSession` | the profile, the chosen organisation and the tokens of the tabs | state machine |
| `ApiRoutes` | the routes of every controller in the order of registration | operators |
| `RolePages` | permissions, menus, what a page asks, what the API answers | state machine, EXTENDS `ApiRoutes` |
| `CaseLifecycleProofs`, `InvoiceLedgerProofs`, `GaplessSequenceProofs`, `ReferenceAllocatorProofs`, `NotificationOutboxProofs`, `ApprovalChainProofs` | the theorems of the module each is named after | proofs |
| `OperationsProofs`, `AccountsProofs` | the theorems of the other parts of `MCOperations` and `MCAccounts`, and of these compositions | proofs |
| `MCCaseLifecycle`, `MCInvoiceLedger`, `MCReferenceAllocator`, `MCApprovalChain` | small instances | TLC |
| `MCNotificationOutbox` | `NotificationOutbox` and `ReferenceAllocator` | TLC |
| `MCOperations` | `ApprovalChain`, `EscalationSweep`, `ComplianceSweep`, `DocumentStore`, `CaseTasks`, `SlaCalendar` | TLC |
| `MCAccounts` | `Onboarding`, `SignIn`, `SessionRotation`, `OrganizationSettings`, `NotificationBell`, `PageCache`, `ClientSession`, `RolePages` | TLC |

The last three hold several parts that share no state. Their variable `part` is
chosen in the first state and says which part the behaviour follows, while the
others stand still: the states are the sum of those of the parts and not their
product, and every part is checked as if it were alone.

Operators introduced by a comment "Wrong variant" are plausible defects: each of
them, put in the place of the operator after it, violates a property. Nothing
else refers to them.

### CaseLifecycle

`cases` is the case table, `lastRow` the last row of each case's status history,
`req` what each handler is in the middle of, `now` a bounded clock.

| Action | Code |
|---|---|
| `CreateCase`, `PublicRequest` | `createCase`, `submitRequest`: one insert |
| `BeginTransition` / `CommitTransition` | `transitionCase` before / inside its transaction; the reading, every check, and the reading that the side effects use are in the first, the write by id in the second |
| `BeginUpdate` / `CommitUpdate` | `updateCase`, with the change of type that re-derives the deadline |
| `BeginBreach` / `CommitBreach` | the breach path of `sweep`, per candidate |
| `BeginDecision` / `ConfirmDecision` / `ApplyDecision` | `decideApproval`, then the second reading and the write of `applyCaseTransition` |
| `Abandon` | a transaction that rolls back, an exception, a process that dies |
| `Tick` | time |

A handler takes its `now` after it has read the row and before its transaction
(`cases.service.ts:306`), and a transaction may wait. What a commit stamps is therefore
any instant from the reading on (`Instants`), and of two requests that overlap the one
that commits later may have written the earlier instant.

Abstractions: the payload is one bit (does it satisfy the form), `computeSlaDueAt`
is a constant operator `SlaDueAt` of which only "never before its start" is
assumed, permissions are a set some caller holds, templates have approval steps
or not. The level of an approval, tasks and priorities are left to the workflow
modules, and how long a deadline is to `SlaCalendar`.

### InvoiceLedger

`invoices` and `payments` are the tables, `lastNumber` the counter row, `req` as
above. A request in flight carries `writes`, the balances (status and amount) it
is going to write; `Written` puts them over the current rows and leaves numbers
and totals alone, as the `UPDATE` does.

| Actions | Code |
|---|---|
| `CreateInvoice` | `createInvoice` |
| `BeginUpdate` / `CommitUpdate` | `updateInvoice` |
| `BeginIssue` / `CommitIssue` | `issueInvoice`: the DRAFT check, then counter and invoice in one transaction (the counter row is locked from its increment to the commit, which makes the transaction one step) |
| `BeginRecord` / `CommitPayment` | `recordPayment` |
| `BeginRefund` / `CommitRefund` | `refundPayment` |
| `BeginVoid` / `CommitVoid` | `voidInvoice` |
| `BeginIntent` / `CommitIntent` | `createPaymentIntent`, with and without a key |
| `BeginWebhook` then `CommitPayment`, or `ReadSettled` / `CommitSettled` | `paymentWebhook`: a direct success, or an intent settled from an invoice read inside the transaction |
| `BeginMatch` / `ReadMatched` / `CommitMatched` | `matchPayment` |
| `BeginSweep` / `CommitSweep` | the marking part of `sweepOverdue`, per invoice |
| `Abandon` | rollback, exception, crash |

No endpoint looks at the sign of an amount, and the controllers take any body. Amounts and
totals are therefore integers, and `Applied` is what the code computes for either sign: an
amount that leaves nothing paid leaves the status as it was, PAID included. Two history
bits of a payment, `positive` and `moved`, let the properties say of which ledgers they
speak: those in which all amounts were positive (`AllPositive`), those in which nothing was
refunded or moved (`Intact`), or all.

Abstractions: one organisation and one year of numbering; the caller's identity and with
it the separation of duties, currencies, due dates, lines, PDFs, audit rows and
notifications are left out. The two reads in the transaction of `matchPayment` are taken
together. Which provider reference a webhook names is left open, and so is its amount:
the model accepts every report the provider could send, in any order and any number of
times. DISPUTED and CREDITED are in the schema's enumeration and never written.

Much of what the ledger promises fails when requests overlap on an invoice, since what
they write was computed before their transactions. Two specifications say which overlaps
are left out, and no more: `NumberingSpec` (`DraftsApart`: while a draft is being issued
nobody else edits or issues it, or settles an intent that was moved onto it) and
`SerialSpec` (`Apart`: no two requests are about one invoice, a match being about two).
`ImplementsSequence` maps the numbers of the invoices (`Given`) onto one sequence of
`GaplessSequence`: an issue takes the next number, and whatever else happens to the
invoice is no step of the sequence.

### ReferenceAllocator and GaplessSequence

`InvoiceLedger` takes the transaction that numbers an invoice as one step. This
module opens it. `year` is the clock, `lastValue` the table `gapless_sequence`
by owner and year, `reference` the unique column of the documents, `tx` the open
transaction of each document. Cases all have one owner; invoices have that of
their organisation.

| Action | Code |
|---|---|
| `Begin` | the transaction opens and the year is read, before the counter row is touched |
| `Allocate` | `INSERT ... ON CONFLICT DO UPDATE`: waits for the row lock, increments the committed value, keeps the lock |
| `Commit` | the case or the invoice is written with its reference and the transaction commits |
| `Refused` | the unique index already has the reference: the request fails |
| `Rollback` | exception, timeout or crash: the increment never was |
| `NewYear` | the year turns, also between the reading of the year and the commit |

`GaplessSequence` is the promise, which the ledger keeps too: one step gives a document
the number that follows those given so far. `ImplementsGapless` says that the transactions keep
it, with one abstract sequence for each owner and year. The adoption of numbers
older than the counter is not modelled beyond "a missing row counts as 0": in a
table that only this code has written, an owner without a row has no numbers.
The row lock is Postgres's and external to the code; a lock on a row that is
not there yet is the unique index on (owner, purpose, year) doing the same.

### NotificationOutbox

`row` is the notification table by message and channel, `worker` what each call in
progress has read and is doing, `failures` and `open` the breaker in the memory of the
process, `accepted` a history variable: has the provider ever accepted this mail? A
second one, `tries`, counts the deliveries of a row that were begun, and gives up
counting (Null) when one of them left no record or two calls had the row at once; the
column `attempts` cannot tell. A call carries the rows it read (`todo`) and the one it
delivers (`current`).

| Action | Code |
|---|---|
| `Notify`, `Create` | `notify`: preferences and quiet hours, then one row after the other, each delivered inline unless held |
| `StartRetry`, `Take`, `Finish` | `retryFailed`: one query, then the rows it found, whatever has become of them |
| `StartFlush`, `Unhold` | `flushHeld`: deliver, then lift the hold |
| `SendInApp`, `NoRecipient`, `CircuitOpen`, `CallProvider` | `deliverRow` and `MailerService.send` up to the provider |
| `Accept`, `Reject` | its answer, and what the breaker makes of it |
| `MarkSent`, `MarkSentFails` | `markSent`; an exception in it is caught and counts as a failed delivery |
| `ReadAttempts`, `MarkFailed` | `markFailed`: the reading and the writing of the count are two statements |
| `Swallowed`, `Aborted` | the database refuses: in `markFailed` that is ignored, elsewhere it ends the call |
| `MarkRead` | `markRead`, `markAllRead`: any row of the recipient, sent or not |
| `BackoffElapses`, `CooldownElapses`, `Crash` | time, and a restart |

Abstractions: the channels and the hold are inputs, since preferences and the
hour decide them; a time is "in the future" or "past"; the breaker's count stops
at its threshold, beyond which the code does not tell counts apart. The circuit
may close at any moment, so that no length of the cooldown is assumed. The
transport without a provider, which accepts everything, is left out.

### ApprovalChain

`approval` holds the approval rows, `caseStatus` the status they move, `req` how
far each request has come. `delegates` is a history variable: everybody an approval
was ever delegated to. `CaseLifecycle` takes a decision as something that happens
to a case; this module says whose it is and what else it does.

| Action | Code |
|---|---|
| `Assign` | `transitionCase` to ASSIGNED with an owner: the template's approvals, one task each |
| `Move` | every other transition, in one step |
| `BeginDecide` | `decideApproval` (and `overrideApproval`) up to its transaction: the approval and its case are read and the level of the user is checked |
| `Record` | its transaction: the decision, and after a rejection the cancelling of what is pending |
| `AskPending` | outside of the transaction, after an approval: is anything pending in the same task? |
| `Confirm` / `Apply` | `applyCaseTransition`: the status is read again, then written by id |
| `BeginDelegate` / `CommitDelegate` | `delegateApproval` |
| `Abandon` | the transaction fails (two rejections that wait for each other's rows are such a case), or the process dies |

Abstractions: who holds which permission, comments and the ban on impersonated
decisions are left out; the expiry of a delegation is left out because the code
writes it and never reads it; the tasks are left out because no decision reads or
writes them. The template is instantiated once (`CaseLifecycle` shows that two
overlapping assignments instantiate it twice).

### CaseTasks

`task` holds the tasks of one case, those of the template first, `gone` who was
deactivated, `request` what each request has read. `late` is a history variable:
the tasks that fell to somebody who was leaving or gone, or were opened again in
their hands.

| Action | Code |
|---|---|
| `CreateTask` | an ad-hoc task, free or given to somebody, perhaps waiting for another |
| `BeginClaim` / `CommitClaim` | `claimTask`: is it unassigned? then the write by id |
| `ReassignTask` | `reassignTask` |
| `BeginComplete` / `CommitComplete` | `completeTask`, which also opens the task that waited for this one |
| `BeginBlock` / `CommitBlock` | `blockTask` |
| `BeginDeactivate`, `CommitDeactivate` | `deactivateUser` (`tenancy.service.ts:485`): the open tasks are listed, then the transaction that returns them and disables the user |
| `Abandon` | rollback, exception, crash |

### EscalationSweep

One thing to warn about (`subject`: a case, a case nobody has touched, a task, an
invoice), for things to warn about share no row. `reached` is the last limit that
has passed, `ledger` how many warnings of each kind each person was sent under the key
of the event - the `notification` rows that the sweeps look up -, `fired` the thresholds
that a sweep has gone through with (a history variable), `sweep` where each sweep is.
`notify` stores the code of the template that it finds (`notification.service.ts:47-49`,
`:105`), which an administrator may have given another code (`admin.controller.ts:431`),
and no row for somebody who wants no channel: `Send` may or may not leave a row that the
next look-up finds.

| Action | Code |
|---|---|
| `Begin`, `Breach`, `Check`, `Fire`, `Send`, `NextThreshold`, `Finish` | `sweep` on a case: candidates, the breach and its notice, each threshold, the look-up, one notification after the other |
| `CheckInactive` | the inactivity rule |
| `BeginReminder`, `CheckReminder` | `runReminders` |
| `BeginDunning`, `FindContact` | the reminders of `sweepOverdue` |
| `Move`, `Assign` | the case moves and gets another owner meanwhile |
| `TimePasses`, `Die` | time, and a sweep that ends half way |

### ComplianceSweep

`document` is what each of the client's documents of one category is (absent, valid,
valid but expiring soon, expired, deleted), `compliance` the status of the organisation, `tasks` and
`noticed` what was filed for each document and can be found, `sweeping` what each sweep has
read. A task that was done (`finished`) may be blocked, which opens it again (`reopened`).
`calm` is a history variable: the sweeps nothing has disturbed so far.

| Action | Code |
|---|---|
| `BeginSweep`, `ReadDocuments` | `sweepCompliance`: the organisations, then the documents of this one |
| `Warn`, `Assign`, `Ask`, `Notify` | a document that expires: is there a task, is there a notice, each asked before it is filed |
| `Judge` | AT_RISK while no document is valid, and back, from what was read |
| `Close` | the tasks of valid documents |
| `ChangeDocument`, `CompleteTask`, `BlockTask`, `ChangeManagers`, `Die` | what happens to the same rows meanwhile |

### DocumentStore

`upload` holds the upload sessions (rows of `job`), `doc` the document rows, `grant`
the download tokens in memory, `call` what each request is doing. `delivered` and
`overlapped` are history variables.

| Action | Code |
|---|---|
| `CreateSession` | `createUploadSession` |
| `BeginComplete`, `RejectInfected`, `CreateDocument`, `FinishSession` | `completeUpload`, row by row |
| `BeginVersion`, `FindLatest`, `CreateVersion` | `createVersion`: the number after the latest found |
| `DeleteDocument` | the soft deletion |
| `BeginGrant`, `SetGrant`, `Download`, `GrantExpires` | the one-time grants |
| `Abandon`, `Restart` | a request that dies; the process, and with it every grant |

### SlaCalendar

`ComputeSlaDueAt` and `WorkingBetween` are the two loops of `sla.util.ts` as
recursive functions over their turns, of which there are at most 10000 (`Turns`, the
`guard` of the code); `now` runs over every instant up to a horizon, for
every calendar, start and number of hours. `Worked` counts working units one by one.
Only whole units are told apart, since the code adds and subtracts them.

### Onboarding

One email address: `account`, its verification tokens (`link`), its `invitation`s, its
`seat` in one organisation, and where each request is (`step`).

| Action | Code |
|---|---|
| `BeginRegister` / `CreateRegistered` | `register` |
| `BeginResend`, `ReadForLink`, `WriteLink` | `resendVerification`, `issueEmailVerification` |
| `BeginVerify` / `CommitVerify` | `consumeToken`, `verifyEmail` |
| `BeginInvite` / `CreateInvitation`, `Resend`, `Revoke` | `inviteUser` and what can be done to an invitation |
| `BeginAccept`, `ReadAccount`, `CreateInvited`, `ReadSeat`, `Join`, `MarkAccepted` | `acceptInvitation`: five statements, no transaction around them |
| `RemoveMember`, `ChangeRole`, `Deactivate` | one write each |
| `ConfirmFactor`, `EnrolAgain`, `BeginDisable` / `CommitDisable` | the factor that a mandatory role needs |
| `LinkExpires`, `InvitationExpires`, `Abandon` | time, and a request that dies |

### SignIn

`user` is the user row (failures, lock, factor), `codes` the recovery codes left,
`challenge` and `failures` the maps in memory, `pending` what each request has read. Two
history variables tell failures that overlapped from those that did not: `rounds` counts
the times between two moments without a request in which a failure fell, `missed` says
whether one has in the present.

| Action | Code |
|---|---|
| `BeginLogin`, `ReadLogin`, `WrongPassword` / `CommitFailure`, `RightPassword`, `ClearFailures`, `Challenge`, `SignedIn` | `login` with the throttle around it |
| `ReadMfa`, `RightCode`, `FindRecovery` / `UseRecovery` / `Recovered`, `WrongCode` / `CommitWrongCode`, `DropSpent`, `DropExpired` | `verifyMfa` |
| `ReadEnrol` / `CommitEnrol`, `ReadConfirm`, `ConfirmEnrol`, `EnrolledSignIn`, `WrongConfirm` | enrolment by challenge |
| `EnrolMfa`, `ReadConfirmMfa` / `CommitConfirmMfa`, `ReadDisableMfa` / `CommitDisableMfa` | the factor of somebody signed in |
| `ResetPassword`, `LockExpires`, `ChallengeExpires`, `FailureAges`, `Restart` | what lifts locks and forgets counts |

### SessionRotation

`session` holds the session rows by family, `store` the tokens in the browser's
storage, `page`, `call` and `refresh` the tabs, their calls and their refreshes.
`lost` is a history variable: the sessions whose refresh never got its answer back, and
those whose token a second tab sent while the first was at it (`SentElsewhere`).

| Action | Code |
|---|---|
| `Load`, `Reload`, `Adopt`, `SignIn` | a tab of the client |
| `BeginLogout`, `ServerLogout`, `FinishLogout` | `logout` on both sides |
| `Send`, `Answer`, `Woken` | `apiFetch` and its one repetition |
| `StartRefresh`, `JoinRefresh`, `Deliver`, `Disconnect` | the single-flight `refreshTokens` |
| `ReadToken`, `RevokeFamily`, `Rotate`, `OpenNext`, `Forget`, `Die` | `IdentityService.refresh` statement by statement |
| `RevokeSession`, `RevokeAll` | revocation by the user, a reset, a deactivation |

### OrganizationSettings

`settings` and `status` are the columns, `edit` what an editing request has read,
`gate` the cache of the guard, `visit` the requests that query for it.

| Action | Code |
|---|---|
| `BeginEdit`, `PutSettings`, `PutFlags` | `admin.controller.ts`: merged into what was read |
| `UpdateOrganization`, `SuspendOrganization`, `ReactivateOrganization` | `tenancy.service.ts`: the column is overwritten |
| `Serve`, `Query`, `Snapshot`, `Cache` | the guard: from its cache, or after a query of its own |
| `Tick`, `Restart` | age |

### NotificationBell

`rows`, `unread`, `young` are the notifications of one user, numbered as they were
created; `stream` is what the server's stream last saw, `tick` the two questions of
each tick, `told` an announcement on its way, `bell` the browser's list.
`announced`, `news`, `odd` (two ticks overlapped, or the two questions of one were
answered on both sides of a change) and `bell.late` (news came while the first answer was
on its way) are history variables. One reading brings the newest `FeedLimit` rows (`take:
100`).

| Action | Code |
|---|---|
| `BeginTick`, `Count`, `Find`, `EndTick`, `TickFails` | a tick of the stream: count and newest row, asked at once |
| `Connect`, `Drop` | the `EventSource` |
| `Invalidate`, `Poll`, `FeedReads`, `FeedArrives`, `FeedFails` | the browser: what the listener and the timer do to the list |
| `Create`, `MarkRead`, `GrowOld` | rows written, here or in another tab; older than the stream announces |

### PageCache

A behaviour follows one kind of request (`deed`) and one `list` it names: where it is
sent from and what it invalidates are data, one definition per request of a page
(`ClaimTask` ... `MarkRead`), and which page shows which list is `Shows`. `entry` is
the cache entry, `server` the number of the last change, `wrote` the last one the
user saw succeed.

| Action | Code |
|---|---|
| `Open`, `Poll`, `Age` | mounting a page, `refetchInterval`, `staleTime` |
| `ServerReads`, `Arrive`, `FetchFails` | a reading of the cache |
| `Submit`, `ServerChanges`, `Succeed`, `CallFails` | the request of the user, and the invalidation in its `onSuccess` |
| `OthersChange`, `SwitchOrganization`, `Logout` | other people, and the user leaving |

The cache, TanStack Query, is external: it keeps one reading in flight per key, and an
invalidation cancels it and starts another, unless it is the first of its key: that has no
list to go back to, and is joined. `NotificationBell` has the same cache.

### ClientSession

`token` and `chosen` are the browser's storage, `tab` what each tab has in its state,
`load` the reading of the profile, `asked` a request of a page; `member` and `granted`
are the account's, on the server.

| Action | Code |
|---|---|
| `OpenTab`, `Adopt`, `ReadAgain`, `AnswerProfile`, `LoseProfile`, `TakeProfile`, `MissProfile` | `loadMe`, at load, after a sign-in and again |
| `SwitchOrganization`, `Logout` | the same |
| `Send`, `Answer`, `AnswerUnauthorized`, `Show` | a request of a page with the refresh of `api.ts` |
| `Expire`, `Revoke`, `ChangeMember` | the server's side |

### ApiRoutes and RolePages

`ApiRoutes` lists the routes of the controllers as sequences of segments in the
order in which the modules register them; `Handler` is the first that matches. In
`RolePages` `holds` is the role of the user in the database, `profile` the one the
browser has read, `place` what is on display, `waiting` / `refused` / `misled` the
requests of that page without an answer, refused, and answered by a handler not meant
for them. `offered` is the place that the link last followed names: the queue of cases,
which is on every dashboard, names `/cases` and `/cases/<id>`, addresses without an area.

| Action | Code |
|---|---|
| `Enter` | an address is typed in: the area's layout, then the page |
| `Follow` | a link of the menu, the header or the dashboard |
| `Answer` | the API: which handler, and has the role its permissions |
| `ChangeRole` | an administrator changes it, and the profile is outdated |

Which permission a page wants comes from the page, what a role holds from the seed,
and what a handler wants from its decorators. Permissions that no page, menu or list
asks about are left out.

## The checks

All runs are finite: the identities are model values, time and amounts have stated
bounds. `case_serial` and `ledger_serial` check `SerialSpec`, as `Spec` under the
constraint `Apart`: a state in which requests overlap is followed no further.
`CHECK_DEADLOCK FALSE` is set where the bounds stop the system (the clock has ended,
every row is used, every request of the last part is over) and each such cfg says so.

| Run | Instance | Question | Properties |
|---|---|---|---|
| `case_serial` | 2 cases, 2 handlers, 2 types, clock to 2, no approvals | do the map, the history, the pauses, the form guard, the stamps and the closed case hold when requests do not overlap on a case? | `HistoryTells` (`TrailMatches`, `OneInstance`), `ClockTells` (`RunningClock`, `PausedWithinElapsed`), `EndsInOrder`, `LegalMoves`, `ClosedFrozen`, `PauseExtendsDeadline` |
| `case_race` | 1 case, 2 handlers, approvals, clock to 1 | what survives every overlap? | `PausedStopsClock`, `TriageSubmitted` |
| `ledger_serial` | 2 invoices of -1, 1 or 2, 2 payments of 1 or -1, 2 handlers, every endpoint | do money received, statuses, intents and numbers hold when requests do not overlap on an invoice? | `MoneyAccounted` (`Covered`, `SettledSum`, `StatusTellsBalance`, `VoidHoldsNoMoney`, `OneOpenIntent`), `IssuedFrozen`, `ImplementsSequence` |
| `ledger_race` | 2 invoices of 2, 1 payment of -2, 1 or 2, 2 handlers, no edits, no voiding | what survives every overlap? | `NumbersUnique`, `PaidInFull` |
| `outbox` | 1 message for the feed or by mail, 2 calls, 5 attempts, threshold 5; and 3 documents of two owners, 2 years | are only accepted mails SENT, failed rows scheduled, quiet hours kept, rows given up after five tries; does every failed mail resolve? Do counter and documents agree, are the sequences gapless, does every request end? | `SentMeansAccepted`, `ScheduledOrExhausted`, `GivesUp`, `QuietRowsWait`, `AllocatorSafe`, `FailedResolves`, `ImplementsGapless`, `EveryRequestEnds` |
| `accounts` | 2 requests on one account; 2 tabs with 3 calls, one tab with its profile; one editor, 2 visitors; 2 ticks, 2 rows, a feed of 1; 2 organisations; every role, page and link | do limits, locks, seats, chains of sessions and the gate hold through every overlap, and is what the browser shows true? | `AttemptsCounted` (`GuessesBounded`, `FailuresLock`), `LockStands`, `Admitted`, `NeverDemoted`, `ChainsSound`, `GateFollows`, `ScreensTruthful` (`BellIsTrue`, `AnnouncedOnce`, `OwnChangesShown`), `AnsweredForSelection`, `LinksOpen`, `TypesOK` |
| `operations` | 2 sweeps, 2 people, 2 thresholds; 2 documents; 1 upload, 3 document rows; 2 tasks, 2 users; calendars of 2-day weeks; 2 approvals, 2 users, 2 requests | are warnings in order and not repeated, is a leaver's work handed over, do sweeps and uploads settle, is the calendar right, are decisions authorised and effective? | `WarnedRight` (`WarnedOnce`, `WarnedInOrder`, `FiledOnce`), `StoreSafe` (`SingleUse`, `VersionsApart`), `WorkSettles` (`SweepSettles`, `UploadsSettle`), `HandedOver`, `CalendarAgrees`, `DecidedWithAuthority`, `RejectionReachesAll`, `OutcomeWasDecided`, `DecisionTakesEffect` |

The bounds are enough for the cases to happen. Two handlers on one row is the smallest
overlap and every write is by id, so a third handler only repeats it; a clock to 2 has
three instants, which lets a case be submitted, paused and resumed, or submitted,
resolved and closed, each at another, and a transaction wait meanwhile; the second case
of `case_serial` is only created and submitted (`MCSecondStarts`), enough for a request
about one case to come between the two steps of a request about the other; totals and
amounts of 1 and 2 and of less than nothing make a payment partial, exact, too large, or
one that takes back what was paid; two payments of one invoice allow a surplus, and the
refund of either. Two documents on one counter row are a holder of the lock and a
waiter, a third on another row shows that owners do not wait for each other, and two
years let the year turn inside a transaction. `outbox` has the limits of the code
itself; a message there has one channel, since a message on both has 100 times as many
states and its two rows share nothing but the breaker, which one row reaches by itself
in five attempts. Among the approvals of `operations` a manager is above both levels and
a clerk below both, so that a clerk decides as a delegate only; two approvals are the
smallest template with a rest to cancel, and people leave the outcome to them
(`Destinations`): a case that somebody approves by a transition says nothing about
decisions.

Where negative amounts were refunded or moved the books promise nothing, and
`ledger_serial` follows such a ledger no further (`MCBooked`). `ledger_race` follows a
ledger no farther than to its total in either direction (`MCNear`): two overlapping matches
that move one negative payment credit its source each time, without end. The deadline of
`case_race` is due at once, so that the breach sweep has something to escalate within its
clock.

In `accounts` limits of 1 or 2 stand for 5, 10 and 100: they are met, and met twice at
once. A feed of one row over two is the smallest of which something is cut off. The
sessions part has two rows to rotate between and two refreshes that can do it at once,
of two tabs; one has two calls, so that they share a refresh. The other tab is signed in
by the first and never signs in or out itself, which keeps the part small
(`MCQuietTab`). The compliance part of `operations` has one sweep over two documents or
two sweeps over one; of the former only one document has tasks that are opened again,
and no sweep finds a notice of a lapse. The calendar part takes every holiday, weekday
and hour of a day of three units in a week of two, which has nights, weekends, holidays
next to weekends and cases raised inside and outside of hours; a calendar without a
working day is left out, see below. After the stream has acted out of order (`odd`)
nothing is claimed of the bell, and `accounts` follows it no further.

`case_race` and both ledgers use a VIEW that forgets what none of their properties and no
later step depends on (the comments above them say what and why), and symmetry is used
in runs that check invariants and step properties, never liveness. The wrong variants
confirm that each property can fail in its run.

### Where the code does not do what its documents say

Each of these runs checks one property that a comment or the specification
(`%TEMP%/spec.txt`) states, and finds a behaviour of the code that violates it.
`PROJECT.json` quotes the line.

| Run | Property | What happens |
|---|---|---|
| `ledger_webhook_twice` | `Covered` | one settlement credited twice |
| `approvals_first_level` | `ApprovedByAll` | the first of two levels to approve moves the case, before it is in review at that |
| `reference_collision` | `NeverCollides` | two organisations number their first invoice of a year alike, and the index refuses the second, now and on every retry |
| `pages_switch` | `SwitchDiscards` | after a switch of the organisation the lists of the one before stay in the cache and on the page |
| `session_dropped` | `RefreshedFirst` | a tab opened with an expired access token signs the user out instead of refreshing, because paths under `/auth/` are not refreshed |

The same modules show more of this kind, with no run of their own.

`CaseLifecycle`:

* with two handlers two overlapping transitions both commit (`LegalMoves`), against the
  comments at `cases.service.ts:308` ("Optimistic concurrency: exactly one concurrent
  transition succeeds") and `:432`; a closing may be stamped before the resolution it
  follows (`EndsInOrder`), one pause is ended twice
  (`PausedWithinElapsed`), one case is assigned twice (`OneInstance`); with approval
  steps an approval decided after the closure writes APPROVED or REJECTED over CLOSED
  (`ClosedFrozen`), with a single handler; the sweep escalates a case that was put on
  hold between its reading and its writing;
* serially, a draft can be escalated and then taken into work (DRAFT -> ESCALATED ->
  IN_PROGRESS) without the submission that validates it: `ANY_ACTIVE` contains DRAFT.

`InvoiceLedger`:

* of two requests that overlap on one invoice: a draft issued twice at once burns a
  number (`Gapless`, against the comment at `finance.service.ts:165`), an edit lands
  after the issue (`IssuedFrozen`), of two overlapping payments one is not credited (`SettledSum`,
  `finance.service.ts:364` against `spec.txt:2611`), a payment is recorded during the
  voiding (`VoidHoldsNoMoney`), and one key makes two intents (`OneOpenIntent`);
* nothing refuses a negative amount (`finance.service.ts:339`, `:562`, `:862`): a payment
  of less than nothing leaves a PAID invoice PAID with nothing paid, and one moved by two
  overlapping matches credits the invoice it leaves twice;
* with a single handler an intent settled after its invoice was voided turns VOID
  into PAID, the refund of a capped payment subtracts all of it, and an unsettled
  payment matched to an invoice makes that invoice partly paid with nothing paid. The
  last two are why `SettledSum` and `StatusTellsBalance` speak of ledgers without
  refunds or moves.

`ApprovalChain`: levels that are DELEGATED are not cancelled by a rejection
(`spec.txt:2581` cancels the remaining ones), a decided approval can be decided
or delegated again, and a request that dies after `Record` leaves a decided
approval on an unmoved case, which is why `DecisionTakesEffect` excepts it.

`CaseTasks`: claiming and completing ignore BLOCKED; a task completed twice opens its
successor again, finished or not; of two tasks that wait for one, one is released; a
task reassigned to somebody who is being deactivated stays with them (`late`).

`EscalationSweep` and `ComplianceSweep`: two overlapping sweeps send a warning twice
(the comment at `workflow.service.ts:441` has it fire once), and every sweep sends again
what it does not find: a warning whose template has a code of its own, or whose recipients
want no channel; a sweep that dies between
two recipients leaves the others unwarned for good, because a threshold counts as
fired when anybody was told; the AT_RISK notice is looked up without a period, so an
organisation that recovers and lapses again is not told again ("one notification per
lapse episode", `crm.service.ts:280`); the tasks of deleted documents are never closed
(against the comment at `crm.service.ts:435`); a task blocked after it was done is open
again.

`DocumentStore`: the number of a deleted newest version is given again; a process
that dies between `document.create` and `job.update` leaves a session that makes a
second document; two versions made at once have one number.

`SlaCalendar`: with no working day at all the search gives up after 400 days and
returns a deadline there.

`NotificationOutbox`: delivery is at least once and not always that: a mail
accepted by the provider whose row cannot be marked is sent again, and so is a
row that two retries have read; a row left QUEUED and not held by a process that
died is picked up by no call; reading the feed (`read-all` takes the rows of all
channels) turns mails that wait for a retry into READ, and they are never sent.
The fifth try is not always the last, although `notification.service.ts:199` says "gives
up after MAX_ATTEMPTS tries": a restart between the provider's answer and the record, or
a refused write, which is swallowed, makes for a try that nobody counts, and so do two
calls that have one row at once. `GivesUp` excepts these. The column itself is one too high
at most with two calls (`AttemptsBounded`), and more with three.

`Onboarding`: the link of a registration, never used, activates a deactivated account;
`changeRole` gives a role that makes a second factor mandatory without the check that
`inviteUser` makes (`tenancy.service.ts:203` against `:405`).

`SessionRotation`: two tabs refresh at once, and the second of them is taken for a reuse
that ends the family, or opens a second live session: `refreshPromise` is a variable of
one page. `ChainsSound` says that beside a lost answer this is the only way. With
`PASSWORD_PEPPER` set no refresh succeeds, because the token is hashed without it
(`identity.service.ts:428`) and verified with it (`:515`).

`SignIn`: failed logins that overlap count as one (`identity.service.ts:294`), and so do
guesses at a challenge (`:493`): nothing locks an account whose guesses all come at once,
but the throttle. `FailuresLock` is about failures that did not overlap.

`OrganizationSettings`: of two overlapping edits one is lost; suspending or updating an
organisation overwrites the whole column, maintenance included; `putFlags` clears a
cache of the controller that nothing reads.

`NotificationBell`: news that come while the page's first reading is answered are joined
to that reading, and the bell is wrong until the poll (`late`); a row created and read
between two ticks, or older than 15 s when the stream first sees it, leaves the bell
wrong until the poll of 30 s; of several rows of a tick only the newest is announced;
overlapping ticks announce a row again; a stream reconnects with the token of the moment
it was first opened.

`ClientSession`: an organisation key of somebody who is no longer a member makes
`/auth/me` answer ORG_FORBIDDEN, and signing in impossible until the storage is cleared
(the fallback of `auth-provider.tsx:83` is not reached; `spec.txt:1319`); two tabs share
the key, so a page of one asks for the organisation chosen in the other (`spec.txt:1865`;
`AnsweredForSelection` needs one tab); any failure while loading, a network error
included, discards the tokens; a profile re-read that arrives after signing out makes the
tab "authenticated" again, without tokens.

`PageCache`: deciding an approval does not invalidate the tasks, completing a task on the
dashboard does not invalidate its counts; a failed request invalidates nothing, although
it may have been carried out.

`RolePages` and `ApiRoutes`: the list of cases wants a literal permission that the
wildcard of Super does not match, so a link of Super's menu is refused (against
`layout.tsx:33`, which is why `LinksOpen` excepts Super), and its list of approvals is
empty; `GET admin/reference/notification-templates` is shadowed by
`admin/reference/:set`; of the queue of cases, which every dashboard has, the link to a
case (`widgets.tsx:160`, `/cases/<id>`) leads to no page and 'View all' (`:183`,
`/cases`) back home; the home page goes to the area of the default membership while
another organisation is active; the menu of cases is listed for roles that never see it;
the reports page polls the job `undefined`, because the export answers `jobId` and the
page reads `id`; "Run sweep" asks for no permission, and the buttons of a case are
offered to everybody.

### Fairness

Most modules assume none: a handler may stop forever, which is what a process that
dies does, and nothing is promised about it. What their properties say about
completion is said of steps (`DecisionTakesEffect`, `SweepSettles`, `UploadsSettle`).
Two modules state liveness:

* `ReferenceAllocator` (`EveryRequestEnds`): strong fairness of `Allocate`, because
  PostgreSQL serves the waiters of a row lock in turn while the lock is taken and
  released again and again; weak fairness of `Commit` and `Refused`, because a handler
  goes on with the transaction it has open and the client's timeout ends it otherwise.
  Nobody owes a request, a failure, or a new year.
* `NotificationOutbox` (`FailedResolves`): weak fairness for each call of "go on, or
  start a retry", that is, a handler runs to its end and somebody keeps calling
  `POST notifications/delivery/run`: the API has no timer, and without that
  assumption nothing is ever retried. Backoffs run out. Restarts and refusals of
  the database come to an end; the provider need never accept and the circuit need
  never close.

## The proofs

TLAPS proves, for any number of cases, handlers, invoices, payments, documents,
owners, messages, calls, approvals, tasks, users, sweeps, uploads, links, invitations,
sessions, rows and organisations and every value of the other constants, but for the
hypotheses below:

* `CaseLifecycleProofs`: `TypeCorrect`, `PausesStopTheClock`, `TriageIsSubmitted`,
  `ArchiveIsDead`; and, of requests that do not overlap, `SerialHistoryTells`,
  `SerialClockTells`, `SerialEndsAreInOrder`, `SerialMovesAreLegal`,
  `SerialClosedIsFrozen`, `SerialPausesExtend`. The invariants are not inductive alone: a
  commit writes over whatever row is there, from a reading that may be old. What
  makes them inductive is what a pending request has *seen*: a transition to CLOSED
  saw RESOLVED, a transition to QUALIFIED saw a submitted case, and no request in
  flight is bound for ARCHIVED. The strengthening says that of every request,
  and that stamps, once set, stay until a reopening. The serial theorems are about
  `SerialSpec`, the behaviours in which no two requests are in flight about one case
  (`Apart`), however many are in flight about others; they have the invariant
  `UpToDate`: what a pending request has seen is the row it will overwrite. `SerialRow`
  adds what is then true of a row: work only after the assignment, paused time, the
  present pause included, within the time since the submission, and no stamp later than the
  one that follows it (`Ended`), because what a request stamps is not before the reading of
  the row that it overwrites. The map and the frozen
  closed case need templates without approvals besides, since a decision moves a case
  around the map; the other four hold with approvals too. Of two requests that overlap
  on one case these properties are false, which is why `case_race` checks only the
  invariants of the first theorems.
* `InvoiceLedgerProofs`: `TypeCorrect`, `NumbersAreUnique`, `NumberedInvoicesLeaveDraft`,
  `PaidIsInFull`, `NumbersHaveNoGap`, `IssuesFreeze`, `LedgerImplementsSequence`,
  `SerialMoneyIsAccounted`, for amounts and totals of either sign. The first two need
  `Known` (a request about an existing
  payment finds it). `PaidIsInFull` needs `Fitting`: every balance a request is going to
  write already fits the row it will overwrite - what `Earned` says of any amounts, and
  what `Fits` says of a ledger and a request whose amounts are positive -, which stays true
  because totals never
  change - hence the hypothesis that `updateInvoice` is not in use, without which TLC
  shows the property false. `NumberedInvoicesLeaveDraft`, `NumbersHaveNoGap`, `IssuesFreeze`
  and `LedgerImplementsSequence` are about `NumberingSpec` (any number of
  invoices and requests, given up at any step, and overlapping in any way but on a draft
  that is being issued), of which what `ledger_serial` runs is a part, and have the
  invariant `DraftSeen`: what a pending issue or edit is about still has no number, and
  what leaves a draft a draft, a settlement of nothing or less for an intent that was moved
  onto it, is about one without a number too (`DraftsWritten`). That
  as many invoices are numbered as the counter says makes an issue a step of the
  abstract sequence. `SerialMoneyIsAccounted` is about `SerialSpec` and says that no
  invoice is credited with more than it received, and where amounts were positive that the
  amount paid is what was received, for any number of payments. Behind it
  are, for each invoice, its books (`Booked`), and for the request what it *knows*
  (`Knows`): the row it read is the row it will overwrite, and what it will write is
  that row with the amount it is about to receive, give back or move. A commit keeps
  within the invoices of its request (`Within`), so that what the others know stays
  true. Payments are of invoices that exist (`Placed`), and two open intents of one
  invoice and key are one (`IntentsDistinct`). The lemmas about `Total` move one payment
  into a sum, out of it or from one to another; they count units, since a sum by
  recursion over a set is induction over data.
* `GaplessSequenceProofs`: `SequenceIsGapless`, by the invariant itself: the
  numbers given are 1 to the number of holders.
* `ReferenceAllocatorProofs`: `AllocatorTypeOK` (with the counter equal to the
  number of documents), `NoCollisionWithinOwner`, both together as `AllocatorIsSafe`,
  `OneOwnerNeverCollides`, `AllocatorImplementsGapless`. The invariant is about the
  lock: one transaction at a time has a number of a row (`OneHolder`), and it is the one
  after the committed value (`NextNumber`), so that what it will commit is new;
  documents carry only numbers up to the counter (`WithinCounter`) and a document being
  numbered has none yet (`OpenIsUnnumbered`). Only `Commit` is a step of
  `GaplessSequence`, all others stutter. `OneOwnerNeverCollides` has the hypothesis that
  all documents have one owner; without it `reference_collision` is the counterexample.
* `NotificationOutboxProofs`: `OutboxTypeOK`, `SentWasAccepted`, `FailuresAreScheduled`,
  `QuietHoursAreKept`, `AttemptsStayBounded`, `RetriesGiveUp`. The first two of the facts behind the
  others are about the call: it has a row in hand whenever it is past choosing one
  (`HasRow`), and if it is about to mark a mail, that was accepted (`AcceptedInHand`).
  The others say whose a row is: rows that `notify` has yet to create are its own
  (`NotifyOwns`), those that a sweep has read exist (`RowsExist`), a retry has none that
  is still queued and `notify` none that is held (`InHand`). Every action except
  starting a call and creating a row is shown to be one kind of step (`Continues`),
  which keeps all of it. `AttemptsStayBounded` is about calls that each write one more
  than they read a while ago. A call is *pending* on a row as long as it may still write
  the row's count; a row at the limit has a call that is done with it (`AtLimit`), one
  beyond the limit has two (`BeyondLimit`), and what a call read at the limit is still
  there (`ReadAtLimit`), so that nobody writes back a smaller count and starts the
  attempts again. That argument needs that there are no more than two calls, which is
  what `AttemptsBounded` says. It is about the column; `RetriesGiveUp` is about the tries,
  for any number of calls: a row whose tries were all counted has as many attempts as
  tries, but for the one in hand (`TriesFit`).
* `ApprovalChainProofs`: `ChainTypeOK`, `DecisionsHaveAuthority`,
  `RejectionsReachAll`, `OutcomesAreDecided`, `DecisionsTakeEffect`. A decision is
  written long after its checks, when the delegation may have changed: the invariant is
  about requests in flight, each of which asked for somebody entitled
  (`AskedWithAuthority`, with `DelegateNamed` behind it). `Signed` carries the signature
  from `Record` to `Apply`, and `Untouched` says that the template is instantiated
  before any of it, which rests on a lemma about the map (`NoWayBack`). The action
  property needs, besides, that what a request has recorded stays recorded while it is
  on its way to the case (`RecordedStays`).
* `OperationsProofs`: the parts by themselves (`StoreIsSafe`, `UploadsAreFinal`,
  `TasksTypeOK`, `WorkIsHandedOver`, `EveryWarningOnce`, `WarningsInOrder`,
  `ConcernsFiledOnce`, `SweepsAreFinal`) and, from the same invariants, the properties of
  the composition (`StoreStaysSafe`, `WorkStaysHandedOver`, `WarningsStayRight`,
  `WorkStaysSettled`, `CalendarStaysRight`).
  * Documents: a grant that was delivered is not live any more (`GrantsSpent`), and the
    number of a version that a request has in hand is ahead of those there are
    (`NumbersAhead`), unless another request for a version came in between.
  * Tasks: the invariant speaks of people who are *leaving* (`TasksListed`): every open
    task of theirs is on the list that the pending deactivation carries, or fell to them
    after it was made.
  * Warnings: a sweep asks who was warned and sends later, without another look. So
    what is bounded by the number of sweeps is what was sent together with what is about
    to be sent (`WarningsBounded`). For the order, whoever is past the look-up of a
    threshold knows the one before to be sent, or gone through with (`InOrder`): one with
    nobody to tell, or of which no row is stored, is passed in silence.
  * Compliance: the same bound for tasks and notices (`FiledBounded`), and what a sweep
    that nothing disturbed knows at each stage (`CalmKnows`).
  * The calendar (`CalendarStaysRight`): both loops count the units at work. What would
    be induction over the turns is an argument about the last turn at which the claim
    fails (`TotalsCount`, `SpendsMeet`): a finite set of numbers has a greatest
    (`GreatestOf`). The same way the recursive functions are shown to exist
    (`DefinedDown`), and the search for a working moment to stop at the first
    (`SearchFinds`, `NextMoment`). Under it lie the order of days and hours
    (`InstantOrder`) and the weekday that cannot always be a holiday (`WorkingDaySoon`).
* `AccountsProofs`: `OnboardingTypeOK`, `PeopleAreAdmitted`, `NobodyIsDemoted`, and of the
  composition `PeopleStayAdmitted`, `AttemptsStayCounted`, `LocksStand`,
  `ChainsStaySound`, `GateStaysBehind`, `PagesAnswerForSelection`,
  `ScreensStayTruthful`, `LinksStayOpen`, `TypesHold`.
  * Becoming a member: an acceptance has no transaction around it, so the invariant is
    about those that are halfway: past the account there is one, past the seat there is
    one (`Halfway`), and no step takes either back (`Grows`); an account that waits for
    its verification is not verified (`Waits`).
  * Signing in: a limit is checked at one time and counted towards at another, so the
    invariant counts those in between. Failures together with the requests that are past
    the throttle exceed the limit by less than the number of requests (`FailuresFit`), and
    so do the guesses at a challenge (`GuessesFit`); a challenge that has used its
    guesses is there only as long as somebody is about to drop it (`SpentIsDropped`). Counts are
    written over what was read before; but nobody read less than what was counted before
    the requests in progress began (`TallyInv`), so nothing takes that back.
  * Staying signed in: the server looks a token up before it exchanges it and relies on
    the browser to send it once, so the invariant is about both: which sessions the
    storage and the requests in flight hold (`TokensKnown`, `RefreshKnown`,
    `RefreshesApart`), that a family has one live session, and none while it is about to
    get the next (`HeadsAlone`, `TurnsAlone`), and that the token in the storage
    is exchanged only while its answer is on its way (`StoreWaits`). All of it is up to
    what was lost: a token is twice on its way only if it was (`TokensApart`), and so was
    one of a family on which two refreshes are at work (`WorkAlone`).
  * The gate: a snapshot is no older than the query it belongs to (`SnapshotsFollow`), and
    what is cached was no older when it came (`CacheFollows`).
  * What a tab believes: with one tab, the organisation that is written down is the one on
    display, and a request names one that was chosen while it was under way
    (`ChosenIsShown`).
  * The bell: the stream sends the count only when it differs and a row only when it is
    new, so whatever it keeps silent about has to follow from what it said before
    (`TicksFollow`, `NewsFollows`, `BellFollows`). Once the stream has acted out of order
    nothing is claimed, nor of a list whose first reading was joined by later news. A list
    that is cut off is some unread set cut off (`Complete`).
  * A list of a page: what the user saw succeed is in the browser, or a read that will bring
    it is under way or due (`WroteOnItsWay`).
  * The menus: which handler answers is a question about a list of 148 routes in the order
    of their registration. Each controller begins its paths with words of its own, so
    those of another take no request for it (`OthersTake`), and the first route of the
    whole list is the first of one controller (`Joined`, `Handled`); for the requests of
    the pages that is the one they are meant for (`RequestsReach`). The invariant
    (`MenuIInv`) is about the time between two readings of the profile: a page that is
    open through a link was offered to that profile, by the menu or by a link that names its
    own area (`OwnLinks`), and what is refused while the role
    stands is refused to the profile itself - which nothing is that such a page needs
    (`OfferedOpens`).

The assumptions are the named ASSUMEs of the modules, and hypotheses of the theorems
where the constants are those of `MCOperations` and `MCAccounts` (`StoreConstants`,
`TaskConstants`, `WarnConstants`, `ClockConstants`, `SignInConstants`,
`RotationConstants`, `GateConstants`, `ClientAssumption`, `BellConstants`,
`PageConstants`): constants of their types, limits that are numbers, a finite set where
it is counted, and a null that is not one of the values it stands beside - no person, no
tab, no organisation, no row, no balance (`BalanceAssumption`). Of more weight are four:
for `CaseLifecycle` that a deadline is never before the instant it is counted from, and,
for two of the serial theorems, that templates have no approval steps; for
`PaidInFull` that drafts are not edited; for `AnsweredForSelection` that a browser has one
tab (`Solo`); and for the calendar that it is within what the code is made
for: the holidays are too few to take the same weekday for 400 days (56 of a seven-day
week), and the hours of an SLA and the days a case is followed for are at most 10000,
the turns after which the loops give up. The run that checks a property satisfies the
hypotheses of its theorem.

Model-checked only:

* Liveness (`EveryRequestEnds`, `FailedResolves`), out of the prover's reach, as is ENABLED.

## Not modelled

* Rendering, forms and their validation, filters and sorting, PDF, statements and
  receipts, exports, dashboards' numbers: no state, or read-only queries and formatting.
* The audit trail and the sign-in history: one insert each, never read back by the code.
* The storage mock, which keeps nothing; bootstrap and the end-to-end script; sample rows
  of the seed.
* Operations that are one unconditional write of one row, with nothing that depends on
  it in the server: comments, watchers, contacts, interactions, consents, segments, case
  types, catalogue, calendars, escalation rules, preferences and templates of
  notifications, profile and contact channels.
* Signature requests: one insert, and one write for each report of their provider (which
  has no look at the status, so a late report takes back a completed one). Custom roles:
  their editing changes rows that the guard reads at once.
* Bulk assignment calls the update of a case for each, and the listing of cases has the
  filter of `RolePages` only.
* The general rate limit: a window like the one of failed logins, checked and recorded in
  one step without an await.
* Hashing, signing, time zones (the code reads hours in one zone for all).

## Plan

Done: everything above, in the order of the table of modules; every invariant and action
property of the runs is a theorem. What is left, in the order of what it would add:

1. What holds of `AnsweredForSelection` with more than one tab: the part of it that the
   storage, which all tabs share, still guarantees.
2. Signature requests and their webhook beside `DocumentStore`.
