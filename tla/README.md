# Verification of the HR automation backend

TLA+ models of the HR platform in this repository (a FastAPI / SQLAlchemy /
PostgreSQL backend with a React frontend), checked with TLC on small instances
and, but for one liveness property, proved with TLAPS for all instances. Paths below are
relative to `src/backend/app/modules/` unless they start with `src/`.

Reading order: `RouteValidation` and `WorkflowDefinitions`; `WorkflowProcess`,
then `WorkflowRuntime` and `Absence`, which build on it; `HiringRequests`;
`RegulatedHiring`; `OrganizationStructure` and `Organization`; `Staffing`;
`Recruitment`; `Documents` and `Termination`; `Authority` and `AccessScopes`.
Modules named `MC...` and the `.cfg` files instantiate them for TLC, modules
named `...Proofs` hold the theorems: `WorkflowDefinitionsProofs`,
`WorkflowRuntimeProofs`, `RequestsProofs` (hiring requests and absences), `HiringProofs`
(regulated hiring and recruitment), `AdministrationProofs` (forms, templates, authority),
`OrganizationProofs` (structure versions, timeline, reference rows, publication over
assignments), `StaffingProofs` (the registry and the scopes) and `TerminationProofs`
(documents and terminations).

## What the system is

Every request of the API is one handler that opens a database session and one or
more transactions. The state is in PostgreSQL, the isolation level is READ
COMMITTED, and the sessions have `autoflush=False`
(`src/backend/app/core/database/session.py:30`). Three mechanisms keep concurrent
requests apart, and each component uses its own selection of them: row locks
(`with_for_update`), the revision column of `RevisionMixin` (an UPDATE that
matches no row with the loaded revision rolls the transaction back), and unique
constraints. The hazards are where none of the three covers a decision that was
taken from a read, where a handler consists of several transactions, and where
long sequences of legal calls meet a state nobody thought of.

### Inventory

| Component | State it keeps | Operations | Hard behaviour | Correct when |
|---|---|---|---|---|
| Workflow definitions (`workflow/infrastructure/operations.py` 589-910) | versions, steps, transitions, actor rules | create draft, clone, save rule/step/transition, submit, return, publish | no locks: only the revision stands between an edit and a review | reviewed routes are valid, running routes never change, one is published |
| Workflow runtime (same file, 884-1765) | instance, tasks, actions | start, act, reassign, linked act/resume/cancel | two row locks in turn, parallel approvers, changing role holders | an active process has a task, steps are earned, decisions stay |
| Workflow forms (319-587) | form definitions, drafts, submissions | draft, publish, submit | validation and submission read the version before they write | published fields stand, a submission fits the published fields |
| Absence (`absence/infrastructure/operations.py`) | leave and trip requests, yearly balances, calendar rows | create, decide, resubmit, cancel | overlap checks without locks, three interfaces onto the same rows | balance equals requests, overlaps only by that race, calendar equals approvals |
| Hiring requests (`hiring_requests/`) | request, attachments, PDF versions, decisions, dispatches | create, update, upload, PDF, submit, decide, dispatch, acknowledge, hire | PDF and upload read and write in different transactions; final PDF after the commit | approvals are for what is sent, the hire happens once |
| Regulated hiring (`regulated_hiring/`) | case, stage executions, form records, authority bindings | start, act on stage, record form | returns over 23 stages, two writers of one form | no stage skipped, one signed version |
| Employees (`employees/application/`) | employee, assignments, assignment reviews | register, update, assign, review, hire, transfer, terminate, functions | capacity counted under locks by some operations and not by others; functions offered in one transaction and invoked in another | capacity kept, nobody works unapproved, history and announced ends stand |
| Recruitment (`recruitment/infrastructure/operations.py`) | request, vacancy, application, commission, offer, hiring case, onboarding | a dozen review steps up to `complete_hiring` | rows are locked one after another, some reads are not locked | no hire without the whole protocol, a closed case leaves nothing open |
| Termination (`termination/infrastructure/operations.py`) | case, order, checklist, offboarding tasks | initiate, decide, register, schedule, complete, cancel | completes over open requests and processes of others | no end of employment without the whole protocol |
| Documents (`documents/`) | templates, records, versions, signatures | create, publish, add version, register, sign | file storage outside the transaction, nothing locked | settled content stands, one template version is published |
| Organization (`organization/application/service.py`) | structure versions, units, relationships, slots, policies; reference rows | draft, edit, validate, submit, return, approve, publish | nothing is locked, assignments least of all; the revision of the version row is compared last | drafts stay trees, what is published is what was reviewed, one version in force on a day, work keeps its place |
| Access control, delegation (`access_control/`, `employees/`) | roles, role assignments and delegations with dates and scopes | create roles, assign, revoke, delegate, authorize, resolve a scope | the check reads in several transactions; scopes are resolved in two places | whoever is let in held the permission, both resolutions agree |
| Outbox and audit (`core/events/`) | outbox rows, audit rows | append, claim, mark | `claim_batch` has no caller | an event per committed change |
| Identity, timekeeping, frontend, seeds, core | | | no protocol of their own | |

Components interact through the workflow runtime (absence, termination and
recruitment link a process instance to a business row and advance both in one
transaction), through the absence calendar (`employee_absences`, written by
Absence and Employees), through the staffing slots (defined by Organization,
filled by Employees, Recruitment and hiring requests), through document records
(the order of a termination), and through the outbox.

## Modules

`map` in `PROJECT.json` names the source lines of each definition. A definition
marked "Slip" is a variant with a plausible mistake; it is not part of any
specification and serves to show that a property notices it.

| Module | What it models |
|---|---|
| `RouteValidation` | `validate_definition`: roots, reachability, self-loops of a route |
| `WorkflowDefinitions` | drafts, clones, edits, reviews and publication of the versions of one process. A request is a transaction of several steps (`BeginX` loads, `Validate` and `CollectPrevious` read more, `CommitX` writes or rolls back on a stale revision); `StartInstance` takes the published version with the highest number |
| `WorkflowProcess` | what the runtime does to one process, as operators on a record (`Acted`, `ActedLinked`, `Resumed`, `Closed`): task creation, verdicts, the counting of approvals, the sweep of unfinished tasks. Absence, Termination and Recruitment use it for their linked processes |
| `WorkflowRuntime` | `act_task` as two steps (task lock, then instance lock and the rest), `reassign_task`, role changes, on top of `WorkflowProcess` |
| `PublishedVersions` | abstract: versions are edited as drafts, contents stand once published, whatever is made with a version is made with what was published; in an exclusive library a publication archives the one before |
| `FormVersions` | drafts, fields, publication and submission of one form. `PublishedForms` maps it to `PublishedVersions` (`PublishedFormsStand` says that it implements it) |
| `DocumentTemplates` | versions of one document template, records bound to them, generated documents; maps to the exclusive `PublishedVersions` (`OneTemplateIsPublished`) |
| `Absence` | leaves and trips of one employee with balances, calendar rows and the linked process. An operation that checks for overlaps is a check step and a commit step; the others are one step, under their locks. `Clients` switches on the other entry points: the generic task endpoint, the personnel office's own absences, its corrections. Three history variables record what the code lets happen and no guard reads: `missed` (dates set since an overlap check), `moved` (years a resubmission took a leave out of or into), `bypassed` (requests whose task was acted on through the generic endpoint) |
| `HiringRequests` | one request from draft to the hired employee. Handlers that lock the row are one step; upload and PDF generation are two; the final PDF is owed after the final approval, and the handler that owes it may die |
| `RegulatedHiring` | a case with one sequence of executions per stage, and the versions of a form. `act_on_stage` is one step, because the case row is locked and its revision compared; `record_form` is `Query` and `RecordForm`, since the newest version is found before its row lock is waited for |
| `OrganizationStructure` | what one structure version holds (units, relationships, slots, policies), every edit of it with its checks, and the validation of the whole |
| `Organization` | the structure versions: draft cloned from a published version, edits, validation, review, publication for an effective date. `Begin...` loads and checks, the commit saves the version row where the revision is still the loaded one. `Timeline` maps it to `StructureTimeline` (`TimelineSpec`) |
| `StructureTimeline` | abstract: on every day one version is in force, and a publication decides about the days from its date on |
| `ReferenceCatalog` | positions, unit types and relationship types: creation and updates, where a change is a page opened, edited and saved against the revision it was opened with |
| `StaffedPublication` | a publication over the assignments of an organization: `NoTransitionIssues` is the check of the work that goes on, `CommitStaffedPublication` puts the version in force, and between them and afterwards work is created, reviewed, hired for, ended, cancelled and reopened. `noticed` remembers what the check saw, as long as it is not made longer |
| `Staffing` | the registry and the employment operations: create, review, end assignments, hire, transfer, terminate, update, and the function API, whose offer is asked for in a transaction of its own. Row locks are explicit (`lock`), because some of these operations take them and some do not |
| `AccessScopes` | units that a permission reaches over structure versions: the authorization port's decision for one unit, the employees module's snapshot, its SQL filter and its Python check, under roles, delegations and publications |
| `Authority` | roles, role assignments and delegations with dates, the clock, and the check that opens every call, which reads them in several transactions; the management of roles, which is checked (`RequireManage`) in a transaction before the one that makes the change |
| `Recruitment` | one request from its two reviews to the hire: vacancy, applications, commissions, offers, hiring cases, onboarding, and their cancellation. `create_application`, `complete_hiring` and `cancel_hiring` are two steps, the rest one |
| `Documents` | a document record: uploads in two steps, signatures, registration |
| `Termination` | extends `Documents` with the cases of one employee: initiation in two steps, reviews with the linked process, order, tasks, checklist, schedule, completion, cancellation in two steps |

Abstractions shared by all modules: authorization, evidence and wording decide
whether a user acts, and a user need not act; the models allow the action
whenever state permits it (`Authority` and `AccessScopes` model the check itself).
Times are days or left out. Audit and outbox rows are appended in the
transaction of the change and change nothing else. Idempotency keys are left out
where a repeated call is refused by the state it finds anyway.

Where a module's operations are one step, its comments say by which lock or
revision. Where such an argument fails the operation is split, at the read that
goes stale.

## Runs

| Run | Checks | Bounds |
|---|---|---|
| `MCWorkflowDefinitions` | reviewed and published routes are valid, running routes fixed, one published version | 2 requests, 3 versions, revisions to 4, routes of at most one step with or without a loop on it. Three versions are a published one, its successor and a competitor |
| `MCWorkflowRuntime` | an active process has a task, steps are earned, decisions stay | 2 steps, 3 users, 2 requests, 10 routes (modes all/any, 1 or 2 approvals, parallel or not, a way back, an escalation), role holders that change so that a way back meets users without a task |
| `MCHiringRequests` | approvals cover what is sent, a stage is decided once and as seen, hired exactly once; a final approval leads to a final PDF, or its handler died | 2 clients, 3 stages, 2 cycles |
| `MCAbsence` | calendar equals approvals, request follows process, overlaps only by dates that were set between a check and its commit | a leave and a trip, 2 reviewers at the second stage of the leave and 1 at the others, 2 days of one year, two transactions under way, all clients, 1 absence of the personnel office |
| `MCAbsenceBalances` | balance equals requests, within entitlement | 2 leaves, 4 days of which the last is the next year's, 2 and 1 days entitled, two transactions under way, the task endpoint and the corrections |
| `MCHiring` | one active execution, completed means passed, signed is newest; or: hired only by protocol, closed cases leave nothing open | 4 stages, 3 visits each, 4 form versions, 2 writers; 1 request in several steps at a time, between one-step ones, 2 candidates, 1 channel, 2 commissions, 1 task, 1 document |
| `MCOrganization` | drafts stay trees, settled structures are valid, published as reviewed, the timeline; or: concurrent changes of reference rows come to a serial execution; or: what a publication noticed keeps its place | 2 requests, a root and 2 units, 2 slots, 3 versions, revisions to 4, 3 days, 6 edits on the second version, which move two units below each other, deactivate one, put a slot into it, and close the other slot and open it again there; 2 positions, a unit type, a relationship type, 2 codes, 3 changes; 1 slot with 8 things a later version may say of it, 2 published versions, 2 assignments, 3 days |
| `MCStaffing` | capacity, approval before work, settled assignments and termination dates stay; or: both scope resolutions agree, the list shows what may be opened | 2 requests, 2 employees, 2 slots, 3 assignments, revisions to 2, 3 days; 2 users, 3 units, 2 published versions, 2 grants of which one delegation |
| `MCTermination` | ended only by protocol, closed cases leave nothing open, the registered order stands | 2 cases, 1 assignment, 2 task types, 2 days, 2 transactions in between, 1 upload at a time and 2 versions, so that one can follow a signed or registered one |
| `MCAdministration` | forms and templates implement the abstract library; nobody delegates the same twice; access is earned | 2 requests, 3 users, 2 form versions with 2 fields, 3 template versions, a clock to 2, 2 delegations and an assignment beside the administrator's; or 2 managers, a new role and 2 more assignments |
| `MCConcurrentAbsences` | requests never overlap: **violated** | a leave and a trip, 2 days, two transactions under way |
| `MCReturnedCase` | a case that is open can be approved onwards: **violated** | 3 stages, 2 visits each, 1 form version |

Four runs host parts that share no state: regulated hiring and recruitment in
`MCHiring`; forms, templates, delegation,
access and roles in `MCAdministration`; assignments, the registry and scopes in
`MCStaffing`; the structure, its reference rows and the publication over assignments in
`MCOrganization`. A behaviour moves one part, chosen at the start (`part`), and the
others stay at their initial state, so that states add up instead of multiplying. A property of one
part is checked over all behaviours of that part. The `Ops`, `...Step` and
`Delegating`/`Checking`/`Managing` definitions of these modules are bounds like the others: they
name the operations that may be in progress at once.

Why the bounds are enough: a stage, a step or a version beyond them adds no kind
of interference, since what goes wrong needs two actors on one row, one way back
and one more visit. In the theorems all bounds of their modules are arbitrary: the
stages (23 in the code for `RegulatedHiring`), steps, users, sessions, units, slots,
employees, candidates, requests, versions, revisions, days and years. Every property of a
passing run but `FinalApprovalGivesFinalPdf` is a theorem, so the runs could be of any
size; they are small instances of what is proved, against which the mutants are tried.
Some bounds hide something, and are then chosen for it:

- `MCAbsence` has one year and `MCAbsenceBalances` no trip and no absences of the
  personnel office, which have no balance; two reviewers of one stage are in the first
  only. The theorems have all of these at once.
- `OnePublishedVersion` and `OneTemplateIsPublished` start after the first
  publication; two first publications both succeed (below).
- The recruitment of `MCHiring` has one request in several steps, and one-step requests come between
  its steps; `HiredByProtocol` and `ClosedCaseIsSettled` are proved for any number. They
  say nothing of capacity: two completions for one slot are described below, and so is
  the application that races an anonymization.
- `MCTermination` has one assignment: secondary ones are treated alike, but for the
  reset described below.

Deadlock is checked in `MCWorkflowRuntime` (role holders may always change),
`MCHiringRequests` (a client may always read again), `MCReturnedCase` and the regulated
part of `MCHiring` (a version may always be looked up, and let go; recruitment, where
everybody may be hired or refused, has `Stopped`). In the others
(`CHECK_DEADLOCK FALSE`) the system may really stop: revisions, rows and days end
at their bounds, and with everything decided nothing need happen.

Fairness is stated once, in `FairSpec` of `HiringRequests`: weak fairness of
`BeginFinalPdf` and `CommitFinalPdf`, the two halves of the call that the
handler of the final approval makes before it answers
(`hiring_requests/api/routes.py:154-155`). It holds as long as the server process
lives, and `FinalApprovalGivesFinalPdf` allows for the handler that died. Users
are never assumed to act, and no other handler has a second half that nobody waits
for, so no other component has a liveness property that its code justifies: the
next step of a request is always somebody's decision.

### What the violated runs show

`MCReturnedCase`: approving always adds the next stage's execution with cycle 1.
After a return that row exists, so the unique key rejects the approval; a
returned case can only be returned further, rejected or cancelled. As a
consequence the completed cases of `MCHiring` were never returned;
`OneActiveExecution` and `CompletedCasePassedEveryStage` say that the constraint
errs on the safe side.

`src/docs/PROJECT_HANDOFF.md:51` says "Invalid dates, insufficient balances and
overlapping active leave/trip periods fail before any process, audit or outbox state is
committed."

`MCConcurrentAbsences`: `_ensure_no_overlap` (`absence/infrastructure/operations.py:130`,
565) reads other requests without a lock and no constraint stands behind it. A leave and
a trip for one day that are created at once both go under review.
`OverlapsWereUnseen` says that this race is all: two requests come to share a day only
when one was given its dates between the check and the commit of the other.

## Further divergences, not kept as runs

They were met while modelling. Where a change of a configuration reproduces one, it
is named; the others are in the model (it does what the code does, and the
properties are stated so that they hold with it) or in a part that is left out.

**Workflow** (`workflow/infrastructure/operations.py`)

- Two *first* publications of a process both succeed, as neither finds a version
  to archive: `OnePublishedVersion` with `SPECIFICATION Spec` instead of
  `SeededSpec` (824).
- `_clone` reads rules, steps and transitions in three queries; a rule saved on a draft
  source in between leaves the copied step without actor (1767-1815).
- `start_instance` starts at the step with the lowest number (936), while validation
  requires only that some step is the single root
  (`workflow/domain/entities.py:195`).
- `act_task` does not look at the instance's status (1166): the open sibling of
  a cancelled parallel task completes the cancelled process, although
  `src/backend/docs/WORKFLOW_ARCHITECTURE.md:13-17` draws no way out of Cancelled. A
  return or reject without a transition completes the process.
- A transition back to a step whose assignees already have tasks violates
  `uq_workflow_task_assignment` (1649); an instance whose next step resolves to
  nobody becomes `configuration_error`, and nothing leads out of it (1609).
- The terminal branch of `act_linked_task` (1369) queries unfinished tasks from the
  database. Nothing has been flushed, so the approved task is still among them and
  its status becomes `cancelled`; the integration test
  `src/backend/tests/integration/test_absence_end_to_end.py:130` asserts
  `completed`, with sessions that do flush.

**Absence** (`absence/infrastructure/operations.py`)

- `resubmit_leave` (290) calls `_resize_reservation` (639) before it gives the leave its
  new dates, so the balance that is compared and resized is that of the year the leave
  had. Moved to another year, it leaves its days reserved in the old one and is under
  review in a year that never reserved them, whatever that year's entitlement, against
  the sentence of `PROJECT_HANDOFF.md` above; its approval then takes them from there. The model does
  this and calls the two years `moved`. `BalanceMatchesRequests` and `WithinEntitlement`
  say that only these are affected; both fail with `Year` for `Year \ moved`.
- The employee card's `create_absence` counts personnel vacations against a balance
  of 24 days of its own, charges a vacation across New Year to its first year only
  and never touches the leave balance
  (`employees/application/service.py:940-1000`, 1110-1128); its `cancel_absence`
  cancels a calendar row that an approved leave owns (1046), and the leave stays
  approved. The model calls such a row `corrected`; `CalendarShowsApproved` lets this
  client have them and says that nothing else makes rows and approvals differ.
- The generic task endpoint moves the process of a leave or trip and not the request, which
  can then be decided no more, only cancelled. `RequestFollowsProcess` says where such a
  process cannot be: it never asks anybody once the request is over.

**Hiring requests and regulated hiring**

- `generate_pdf` reads, renders, and then locks the row and checks only its status
  (`hiring_requests/service.py:418`). An update between the two makes a `pdf_generated`
  request whose PDF shows the previous data, which is then submitted. What is
  finally *sent* is right: the final PDF is rendered when nothing can be edited any
  more (`ApprovedByEveryStage`).
- If the handler dies after the final approval is committed, no endpoint makes
  the final PDF again (the `Died` of `FinalApprovalGivesFinalPdf`).
- The request number is count plus one, and two creations at once collide (118-127);
  two first uploads of one category create two document records (323).
- The vacancy of the slot is checked at stage 1 of a regulated case only
  (`regulated_hiring/application/service.py:195`).

**Employees** (`employees/application/service.py`)

- Terminated employees can be assigned again; `terminate` cancels pending
  assignments and leaves their reviews pending. `update_employee` can reactivate an
  ended employee, and a termination date can never be unset.
- A termination for a later day never takes effect by itself, and since the date is
  set the terminate function is not offered again; a transfer after it opens an
  assignment past the date. The transfer function stays offered on the day the
  current assignment was ended, and is always refused. What is offered is asked for in
  one transaction and done in another; `TerminationDateStands` speaks of that gap for a
  termination.
- Opposite transfers lock the two slots in opposite order (853-854): `TakeLock` takes the
  locks one at a time, and the `Fail` of one of the two is the deadlock the database
  resolves.
- `CommitTerminate` of `Staffing` works out what a termination writes from the rows as they
  are when it commits, and commits in some states in which the code finds a stale revision.
  What is proved of it holds of the fewer steps of the code.

**Access control**

- The functions employee.hire and employee.terminate are unlocked by
  `employees.lifecycle.override` (`employees/application/functions.py:130`, 158), while
  the service requires `employees.hire` and `employees.terminate`
  (`employees/application/service.py:595`, 713), which seeded roles that hold the
  override lack: the functions are offered and refused.
  `src/backend/docs/PERMISSIONS.md:24` reserves the override for system
  administrators, the seeds grant it more widely.
- `scope_allows` takes a unit that was turned around with its parent between two
  versions for the same unit, although `access_control/domain/services.py:48` says
  "Mutual ancestry is true only for the same stable unit, not descendants."
- The authorization port and the snapshot differ about an organization-wide
  delegation from somebody who holds units only, and about a role granted on an
  inactive unit row. `ScopesAgree` says where they do agree.
- A scoped user may lend authority that he only borrows ("A delegation cannot grant
  permissions the delegator does not hold."), which the port then refuses.
- Two concurrent `assign_role` calls both pass the overlap check, and revoking one
  leaves the other. Role management is checked in one transaction and works in the
  next: somebody whose role is revoked in between can still give himself another. The last holder of `roles.manage` can revoke himself. A delegation
  and the delegator's grant that `AccessIsEarned` speaks of need not hold at one
  moment, only each at some moment of the call.

**Recruitment** (`recruitment/infrastructure/operations.py`)

- A staffing return leaves the request stuck (`src/backend/docs/RECRUITMENT_AND_HIRING.md:12`,
  36-37); a staffing approval without both confirmations rejects the request while
  its process goes on.
- Two completions for one slot both hire, as the slot row is not locked (1389; line 27
  of the document says "Completion locks capacity"). `publish_vacancy` and the
  cancellation of a second case reopen a filled vacancy.
- A cancelled case without tasks can be completed; hired and rejected applications
  can be screened again; an offer can be accepted after a rejection. After a declined
  offer there is no second one.
- An anonymized candidate's rejected application can be revived.
- Checklist items are never updated after their creation, here and in
  `termination/infrastructure/operations.py:474`, so a mandatory item that was missing
  blocks the case for ever.

**Termination** (`termination/infrastructure/operations.py`)

- Two initiations at once both open a case (243, 248: "Employee already has an active
  termination case.").
- A case returned after the HR review is stuck: resubmission puts it to `hr_review`
  while its process resumes at `signature_registration`. Legal and economic review
  always happen, although `src/backend/docs/TERMINATION_AND_OFFBOARDING.md:8-11` makes
  the legal one conditional. The generic task endpoint lets process and case drift
  apart.
- Cancellation resets `effective_to` of every assignment that is `scheduled_end`, those
  that had an end of their own included; rejected and cancelled cases can be
  cancelled again. Completion turns cancelled and pending assignments into ended ones.
- Completion cancels leave requests without releasing their reserved days (819,
  940-966).
- The order is registered without any version; a registered document signed later
  becomes `signed`, and `register_order` then refuses it.

**Documents**

- Two first publications of a template both succeed (`documents/infrastructure/operations.py:178`).
  `create_record` binds any version of a template, a draft included.
- A lost commit acknowledgement makes the upload delete the file of a version that
  was committed (`documents/application/service.py:91-95`).

**Organization** (`organization/`)

- The external validation of a publication
  (`organization/infrastructure/external_validation.py:107-293`) locks nothing and
  races `create_assignment`: "Prevent publication from silently moving live employment
  authority" (line 115) holds of the work it saw. `NoticedWorkKeepsItsPlace` says so, and
  excludes work made after the check and work whose end a termination takes back or
  puts off (`termination/infrastructure/operations.py:656`, `:905`).
- Assignments stay on the slot rows of the version they were made in while capacity is
  counted per row: after a publication the same place can be filled twice.
- The staffing review compares with the version the draft came from, not with the one
  in force; a draft of an older base publishes without the changes made in between.
- `update_staffing_slot` (1076) asks only that the new status is not closing or closed
  (2258), so a slot that was closed can be opened again, in any unit and under any open
  manager, by the same checks as a new one. `CanPutSlot` allows it, and drafts stay
  connected all the same.
- Reference rows can be deactivated at any time, and `prevents_cycles` and
  `allow_self_link` can be switched whatever relationships exist. An inactive
  relationship with a unit of another version breaks later clones.

## Proofs

The `...Proofs` modules prove the following for every value of the constants that the
named assumptions allow. `theorems` in `PROJECT.json` lists the results. In each
component the property is not inductive, and for the same reason: whether a commit may
write depends on what its request read or locked earlier. The invariants add that link.

**Revisions** (a row is written where its revision is still the loaded one). A request's
revision never exceeds the row's, and if it equals it, the row is still as the request
found it. Every write raises the revision, so each action keeps the link or makes the
request stale.

- `WorkflowDefinitions`: `TypeOK`, `SettledRoutesAreValid`, `RunningRoutesAreFixed`
  under `Spec` and `OnePublishedVersion` under `SeededSpec`. `SeededInv` (`SeededInvariant`) adds that a
  published version always exists and that a publisher about to commit has
  collected one; two publishers then share a row to archive, whose revision lets
  one through. This is exactly what the unseeded start lacks.
- `Organization`: `DraftsStayConnected`, `SettledStructuresAreValid`,
  `ReviewedAsPublished`, and the refinement `TimelineSpec`. `VersionInv` holds that every
  version is `Sound` (one root, no cycles, active units under active ones) and the link above with
  what the request's check found; that an edit which is allowed keeps a structure
  `Sound` is a lemma per kind of edit. No cycle means that every set of
  units has one whose parent is outside (`Acyclic`), so that no induction is needed. `TimelineInv` orders the terms of the
  published versions: a publication that starts after all it overlaps closes the last
  one, and only that.
- `StaffedPublication`: `NoticedWorkKeepsItsPlace` under `StaffedSpec`. A publication
  locks nothing here; what it noticed `Stands` with its design because ending work only
  makes it fit more easily, and work that is made longer is noticed no more. The FTE of
  some rows is the size of a set of units, so a part of them never has more than the whole.
- `ReferenceCatalog`: `CatalogChangesAreSerial`, where the page a change was made on is
  the row as long as the revisions agree.
- `FormVersions` and `DocumentTemplates` implement `PublishedVersions`
  (`PublishedFormsStand`, `OneTemplateIsPublished`): the initial states map to initial states,
  and each action maps to an abstract one or to a stutter.

**Locks** (a row that is locked does not change).

- `Staffing`: `CapacityIsKept`, `ApprovedBeforeWork`,
  `SettledAssignmentsStay`, `TerminationDateStands`. `StaffingInv` holds that a request about to add
  a row has the locks of the employee and of the slot, and that what it adds still fits:
  what others write meanwhile, under no lock, only makes rows
  shorter (`Moved`, `Lessened`), and `CapacityLessened` says that this takes nothing away. The units used are the
  size of a set of pairs, so that no sum has to be taken.
- `WorkflowRuntime`: `ActiveHasTask`, `StepsAreEarned`, `DecisionsStay`. `RuntimeInv`
  holds that a task whose row is locked stays active, and that at the phase of an active
  process the active and completed tasks are together as many as the step requires: the
  approval that is waited with moves one from the one to the other, and so leaves an
  active one while the count is short. They were as many when they were created
  (`ChosenEnough`): numbering users by how many come before them is a bijection
  (`FirstOnes`). `StepsAreEarned` says of the step before the current one that
  nobody is left to ask there, and of the steps before others only that they had their
  approvals: a step that is entered again after a return may be asking other users.
- `Authority`: `OneDelegationAtATime`, under the locks of the two employees, and `AccessIsEarned`: each
  grant the check has seen was in force at some moment of the call, as rows are
  revoked and never removed.

**Protocols** (one step per operation, long sequences).

- `RegulatedHiring`: `TypeOK`, `OneActiveExecution`, `CompletedCasePassedEveryStage`
  through `CaseInv`, whose extra conjunct `PassedStages` says that an open case has
  approved all stages before its current one, last; and `SignedFormIsNewest`,
  `CorrectionsHaveReasons` through `FormInv`, where the lemma `FormGrows` says what
  a recorded version does to the sequence.
- `HiringRequests`: `ApprovedByEveryStage`, `StagesAreDecidedAsSeen`,
  `HiredWhenBothAcknowledged`. What a client has read is current or is refused
  (`CurrentIsHere`); the stages passed in this cycle have approved what the request shows
  now (`PassedStagesApproved`), as nothing of it changes under review; dispatches and the
  hire follow the status (`DispatchFollowsStatus`).
- `Recruitment`: `HiredByProtocol`, `ClosedCaseIsSettled` under `RecruitmentSpec`.
  `RecruitmentInv` is the protocol read backwards: each step of a hire implies the one
  before it (`RequestInv`, `CandidateInv`), and an application that is rejected or screened
  again takes none of them back. A transaction that completes or cancels a case has it to
  itself, so that no task is added to those it has read (`HandlerInv`, `Apart`).
- `Absence`: each transaction between its check and its commit is on a request of its own,
  which stays at the status it was begun at (`TransactionsFit`). So a step moves one
  request or none (`StepMoves`), and four invariants say what moves with it:
  - `ProcessesFollow`: `RequestFollowsProcess`. The process of a request under review asks
    one reviewer, at its stage, and has no task that was returned (`Follows`). Once act_task
    has acted on it, it has left that stage for good or asks nobody (`Strays`), so that no
    decision finds a task in it and only a cancellation ends the request.
  - `CalendarFits`: `CalendarShowsApproved`. A cancelled row belongs to a cancelled request
    and a corrected one to a request that was approved, so an approval finds neither.
  - `StaysApart`: `OverlapsWereUnseen`. What a transaction has compared its dates with only
    becomes less until it commits, but for the requests it has missed.
  - `BalanceFits`: `BalanceMatchesRequests` and `WithinEntitlement`, for the years that are not
    `moved`. The days of some leaves are the size of a set of pairs of a
    leave and a day, so a leave that moves changes the sum by its share (`SumMoves`), with
    no induction over the set.
- `Termination` and `Documents`: `EndedByProtocol`, `ClosedCaseIsSettled`,
  `SettledContentStands`. The linked process asks at its phase only; a case keeps what it
  has reached (order registered, tasks made), whatever comes between the two steps of
  its initiation and of its cancellation.
- `AccessScopes`: `ScopesAgree`, `ListedIsWithinScope`. `ScopesInv` says little, for each
  published version is a tree from the start and stays as it is; the work is in the
  lemmas about trees (`Up`), by which the two resolutions agree unit by unit.

The assumptions are the ASSUMEs of the modules; TLC evaluates them in the runs. Most say
that a bound is a natural number or that a model value is none of the others. Those with
content: units, users, leaves and reviewers, and the tasks of all candidates, are finitely
many (`UnitAssumption`, `UserAssumption`, `RequestAssumption`, `TaskAssumption`, the
`StaffAssumption` of `Absence`); reviewers are numbered, each stage's actor rule finds one
(the `StaffAssumption` of `Absence`); a route
requires somebody at each step and has no transition from a step to itself
(`RoutesAssumption`, checked by `validate_definition`, `workflow/domain/entities.py:173`); the
structure that the seeds create is valid, and the employees at the start sit in slots of
their own (`SeededAssumption`, the `StaffAssumption` of `Staffing`); there is an employee and a slot
(`RegistryAssumption`).

No theorem has a hypothesis about behaviours: each is about every behaviour of its
specification, with every client and any number of transactions under way.

Only model-checked: `FinalApprovalGivesFinalPdf`. It is liveness under fairness, which is out
of the prover's reach.

## Not modelled

- Recruitment: interview evaluations, which nothing reads, and the creation of
  candidates. Regulated hiring: authority bindings, evidence and consents, which only
  decide whether somebody can act.
- Documents: types, the template row itself, acknowledgements (they look at no
  status), the stored files.
- Organization: the read-only comparison of two versions, and the part of the external
  validation that restates constraints of the delegations table.
- Termination: what the completion does to account, delegations, absences and
  requests, which have no state of their own there.
- Access control: the synchronization of the permission catalog, which nothing calls.
- Identity: tokens (cryptography and clocks). Timekeeping: read-only views of
  imported rows. The outbox: `claim_batch`, `mark_processed` and `mark_failed` have no
  caller, so there is no delivery. The frontend: presentation. Configuration, logging,
  middleware: plumbing. Seeds other than the published routes, the termination and
  recruitment processes and the first structure, which are initial states.
