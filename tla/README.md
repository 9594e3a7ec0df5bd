# Contruo in TLA+

Contruo is a construction take-off web application: users upload PDF plan sets,
calibrate sheets, draw measurements attached to conditions, and let an AI
pipeline classify sheets and extract schedules and legends.  A FastAPI backend
(`src/backend/app`) serves a Next.js frontend (`src/frontend`); Celery workers
process PDFs and run the AI pipeline; PostgreSQL keeps everything; Liveblocks
carries presence and events between browsers; Dodo Payments bills the
organizations and calls back through webhooks.

This directory specifies the parts whose correctness depends on the order in
which requests, answers, tasks, events, webhooks and failures happen: the
browser, where answers return in any order to a screen that has moved on, and
the backend's tasks and transactions.  The source is the reference: the `map` of
`PROJECT.json` names the lines each definition stands for.

## 1. Inventory

### Frontend

| Component | State | Operations | Interacts with | What is hard |
|---|---|---|---|---|
| Measurement lists and edits (`plan-viewer-workspace.tsx`) | the lists of the sheet and of the project, undo and redo stacks, a debounced reload | create, edit (`If-Match`), drag, delete, undo, redo, resync | API, events of the room | reloads without a guard, callbacks that keep the sheet they were made for, undo on a server others change |
| Plan canvas (`plan-pdf-canvas.tsx`) | document, rendering token, viewport, pan, matches | load, render, search, zoom, fit, focus | pdf.js | overlapping awaits, a sheet left in between |
| Takeoff tools and calibration (`takeoff-toolbar.tsx`, `scale-*-dialog.tsx`, workspace) | tool, drafts, dots, steps of the scale | draw, finish, calibrate | lists, permissions | tool, sheet, permission and condition change between two clicks |
| Sheet strip (`sheet-index.tsx`, `lib/sheets.ts`) | optimistic names, spinner, abort flag | rename, auto-name, poll | a background task, events | an optimistic value against a task that names the same sheet |
| Selection and locks (`collaboration-room-shell.tsx`, `use-remote-measurement-locks.ts`) | selection, announced lock, locks seen | click, multi-select, delete, leave | Liveblocks presence | locks nobody grants |
| Quantities panel (`quantities-panel.tsx`) | open field, rename lock, menu | rename, override, reassign, delete | lists | Enter, Escape and blur each end an edit |
| Condition panel (`condition-manager-panel.tsx`, `use-conditions.ts`) | query, choice, form, flags | create, save, delete, import, copy | colleagues | a form over a record that is replaced |
| Assembly lines (`assembly-items-section.tsx`) | lines, texts, previews, one debounce | load, edit, add, remove | condition panel | the section stays when the condition changes |
| Project page (`project/[id]/page.tsx`, `use-plan-status.ts`, `plan-processing-status.tsx`, `project-top-bar-center.tsx`) | project, plans, poll | load, upload, retry, delete, select | router | polls that survive, late answers of another project |
| Project list (`projects/page.tsx`, `use-projects.ts`, three dialogs) | query, dialogs | create with cover and plan, edit, delete | project page | four requests with a roll-back |
| AI run button (`run-auto-takeoff-button.tsx`, `lib/ai-runs.ts`) | the run shown, a ticket, a flag | start, stop, poll | AI runs, events | tickets shared by closures of two plans |
| Template library (`templates/page.tsx`, `edit-condition-template-dialog.tsx`) | list, form | edit, delete, refresh | | dialogs reopened before an answer |
| Team page (`settings/team/page.tsx`) | members, invitations, seats | invite, role, deactivate, cancel | billing | requests and reads that cross |
| Billing page (`settings/billing/page.tsx`) | summary, estimate | buy and give back seats | provider | an estimate for another quantity |
| Rest (sign-in, dashboard, account, export, layout, component library) | | one request each | | |

### Backend

| Component | State | Operations | Interacts with | What is hard |
|---|---|---|---|---|
| AI run lifecycle (`api/v1/ai_runs.py`, `services/ai_run_service.py`, `tasks/ai_pipeline.py`) | `ai_runs.status`, `summary_jsonb` | POST, cancel, start, four stages, finalize | broker, advisory lock, stage services | check-then-act on the status, cancels crossing tasks, redelivery (`acks_late`), lost children |
| Per-plan advisory lock (same files) | PostgreSQL session locks held by pooled connections | try-lock, unlock | AI runs, auto-naming, cancel | a lock belongs to a connection, not to a run |
| Plan processing (`services/plan_service.py`, `tasks/pdf_processing.py`) | `plans` row, `sheets` rows | upload, retry, delete, process | broker, storage | publish before commit, overlapping executions, chunked commits, column-wise updates |
| Billing (`billing_service.py`, `subscription_guard.py`) | `subscriptions`, webhook deliveries | webhooks, lazy transitions, guard | Dodo, every request | duplicate, reordered and failing webhooks, lost updates by column |
| Measurements and conditions (`measurement_service.py`, `condition_service.py`) | rows with versions | create, update, delete, calibrate | browsers | version check and write are two statements |
| Organizations (`org_service.py`, `auth_service.py`) | members, invitations | invite, accept, roles | billing seats, Supabase | seats against pending invitations |
| Sheet names, AI extraction, stage cache, assemblies and formulas, projects, scale detection, export, authentication, notifications | see `PROJECT.json` | | | |
| AI prototype (`src/AI`) | none | notebooks | | outside the application |

What makes each correct:

- *Lists*: when nothing is in flight they show the server's rows; an edit never
  replaces a version its author had not been shown; undo and redo move a drawing.
- *Canvas*: picture, overlays and the transform of clicks belong to the sheet and
  zoom on screen.
- *Tools*: a measurement is drawn whole, with one tool, on one sheet.
- *Names*: the strip shows the server's names; a spinner ends.
- *Locks*: a lock is its holder's selection; two hold one shape only if neither
  could have seen the other.
- *Panels and pages*: what is written is what was asked, once, for the record
  the form was filled from; when nothing is under way a list is the server's; a
  flag that disables a control has a request that will clear it.
- *AI run*: a completed run had every stage, in order, each once; a run settles.
- *Advisory lock*: who counts on the lock has it; jobs end.
- *Plan processing*: a ready plan has a sheet per page; progress is never ahead of
  the rows; an upload settles.
- *Billing*: every event takes effect once; flags match the status; nobody is
  restricted before the promised day.

## 2. Plan of the modules

1. Backend, each with proofs: `AiRun` (and `AiRunPromise`, the
   abstract specification it implements), `PlanProcessing`, `PlanLock`, `Billing`.
2. The plan viewer: `MeasurementSync`; `PlanCanvas`, `TakeoffTools`, `SheetStrip`,
   composed by `Viewer`; `SelectLocks`, `Quantities`, `ConditionPanel`, `AssemblyLines`,
   composed by `Panels` (all with proofs).
3. The pages: `ProjectPage`, `ProjectList`, `AutoTakeoff`, `TemplateLibrary`,
   `TeamPage`, `BillingPage`, composed by `Pages` (with proofs).

Left for the future: calibration while a measurement is computed, and seats against
pending invitations on the server.

A composition chooses one part when it starts, and the variables of the others stay
constant: the parts share nothing that either of them writes, so every behaviour of a
part is one of the composition, and no interleaving of two parts is lost that either
could notice.  Where parts do share state (the two lists, the stacks and the reload;
selection, tool and presence; query, form and dialogs) one module has all of it.

## 3. The modules

In the frontend modules a request has (at least) two steps: the server serves it,
changing its rows, and the answer arrives, running the handler.  Anything else
may come between, and a fault replaces either.  What a handler reads from a closure is
part of the request's record; what it reads from a ref or from the state is read when
the answer arrives.  Variables named *history* in the modules record why an exception of a property applies; no action's
guard reads them.

### MeasurementSync

| State | Code |
|---|---|
| `sheetList`, `projectList` | `sheetMeasurements`, `projectMeasurements` |
| `undo`, `redo` | `measurementUndoStack`, `measurementRedoStack` |
| `call`, `loads`, `timer`, `events` | requests, reloads in flight, the debounced reload, events of the room |
| `drag` | the count marker being dragged |
| `rows`, `clock` | the server's rows and versions |

`Create`, `PatchInPanel`, `PatchSelected`, `DragEnd`, `Delete`, `Undo`, `Redo` send;
`Insert`, `Compare`, `Write`, `Remove1` are the server, where an update reads the version
and writes the row in two statements; `CreateOk` to `CallError` are the handlers;
`Read`, `Land` and `LoadFails` a reload, `TimerFires` and `EventArrives` its causes.  Observed: a reload of
a sheet left behind overwrites the list of the next one until the next reload; the undo
stack loses an entry pruned while its undo is under way; Enter pressed twice posts twice; of several
rows deleted at once a refused one keeps the others on the screen.  The deduction mode
cannot be reached from any control and is not modelled.

### PlanCanvas, TakeoffTools, SheetStrip and Viewer

`PlanCanvas` has the document (`url`, `pdf` and their calls), the renderings (`tasks`,
made stale by `token`), what each of them leaves (`viewport`, `overlay`, `picture`,
`rects`) and the gestures that wait for a page.  Observed: centring uses the size of the page
rendered before; wheel and fit do not look whether the sheet changed, focus does;
"Loading Drawing..." may stay after a failure.

`TakeoffTools` has tool, condition, permission and sheet as independent states, the
drafts (`line`, `ring`, `dots`), the creations (`posts`) and the scale (`step`,
`scaleLine`, `measured`, `frames`, `saving`).  Observed: a calibration line may have its two points
on two sheets (`strayed`); a tool left within the two animation frames after the second
point leaves a dialog that nothing closes (`hurried`); the late answer of a drawing
discards the one in progress; choosing a condition of another type does not change the
tool, and the server then refuses what Enter sends.

`SheetStrip` has the server's names, the naming task, the optimistic names and the
handler of the button with its shared abort flag.  Observed: the success message may come before the
task's end; a name the task overwrites while its optimistic value is shown stays on the
screen (`overtaken`); renaming back is ignored.

### SelectLocks and Quantities (in Panels)

`SelectLocks` has two clients with their selection, tool, lists and presence, the
presence each has received, and suspended tabs.  Observed: a multiple selection that shrinks to one
shape, or a return to the select tool, announces a lock without looking (`unlooked`);
stale locks are noticed only when the others change.  `Quantities` has the fields of the
rows, `lock` and `skip` (the two refs of a rename) and the requests.  Observed: leaving the field of
a value sends what was measured as an override, and an emptied one sends 0; a late answer
closes another row's field; a second rename is dropped without a word.

### ConditionPanel and AssemblyLines (in Panels)

`ConditionPanel` has the shared query (a newer read cancels an older one and frees whoever
waits for it), the choice and the form, the dialogs and the writes.  Observed: a press on the text of
a dialog of the panel clears the selection; a question before a deletion reappears for the
next condition; copying to the library re-enables the buttons during another write;
unsaved edits are lost to any change of the listed record.  `AssemblyLines` has the lines,
the loads, the debounced preview and a request per field left.  Observed: answers of one condition
arrive under another; the preview has one timer for all rows and asks as the first
condition; failures are silent.

### ProjectPage, ProjectList, AutoTakeoff, TemplateLibrary, TeamPage, BillingPage (in Pages)

`ProjectPage`: the loads of a project and its plans with their guard, uploads, deletions and the
hook that polls a plan.  Observed: a poll outlives its plan, because the hook's flag is shared; after
a retry nobody polls a plan that had failed; an upload that ends after the user left sends
the router back.  `ProjectList`: the shared query and three dialogs; a creation goes
through project, cover, removal and plan.  Observed: leaving the dialog while it submits re-enables
it; a plan that fails to upload leaves the project and no list is read; a reload asked for
before the first data joins the one under way.  `AutoTakeoff`: the run shown, its reads
with their tickets, the button.  Observed: the last plan's run stays shown until the new plan's is
read, so that "Stop" may stop the other's; the read after a click takes the ticket of the
new plan with the id of the old one (`strayed`).  `TemplateLibrary`: no guard on the load
of the form (`crossed`).  `TeamPage`: reads that overlap without a guard, requests that
cross; accepting an invitation does not look at the seats.  `BillingPage`: an estimate asked 350 ms
after the last change; the purchase sends the quantity in the field, the estimate on screen may be
of another one (doc `features/platform/subscription-and-billing.md:146`); a purchase
whose answer is lost can be repeated.

### AiRun

One `ai_runs` row per POST request, the Celery messages of its chain and the
workers that execute them.  Every action is one database transaction of the code
(or one broker operation); between two of them any other request or task runs,
because the code takes no row lock and writes the status unconditionally.

| State | Code |
|---|---|
| `status` | `ai_runs.status` ("absent" before the insert) |
| `entry` | `summary_jsonb.stages`: no entry, a timing, a timing with `error` |
| `applied` | how often a stage's effects were committed (its rows and counters) |
| `api`, `cancelling` | where the POST and the cancel handlers stand |
| `msgs`, `worker` | copies of each chain message in the queue; the task a worker executes and its next transaction |
| `revived` | history: runs whose terminal status `start_ai_run` overwrote |

`Admit`/`Refuse`/`CreateRun`/`Enqueue`/`EnqueueFails` are the POST handler, with
the active-run check separate from the insert.  `CancelCheck`/`CancelWrite` are
`cancel_run`, whose second check reads the session's identity map and therefore
sees what the first one saw.  `Start*` is `start_ai_run` (the contended branch is
taken nondeterministically), `Stage*` is `_run_stage`, `Failure*` its except
block, `Finalize*` is `finalize_ai_run`.  `HandOff`, `Retry`, `GiveUp`, `Ack` are
what Celery does when a task returns or raises.  `WorkerKilled` and
`VisibilityTimeout` hand a message out again, `ChildLost` loses it,
`DatabaseFault` makes a call of a task raise where the code would meet it.

`AiRunPromise` is what the endpoint's clients may rely on: the order of statuses,
the one way a cancel may cross a task, and progress.

Its specification states fairness, and `KeepsPromise` is its refinement mapping
(`INSTANCE AiRunPromise WITH status <- status, ...`) checked as a property.

### PlanProcessing

The plans of one project: `upload`, `retrying` and `deleting` are the requests in
flight, `status`, `substep` and `processed` are columns of the `plans` row,
`sheets` the pages that have a row.  `Upload` publishes before `CommitUpload`,
as `create_plan` does (`get_db` commits after the handler).  `RetryCommit` writes
only the columns whose value differs from the one `RetryRead` saw, as the ORM
flush does, and `RetryRaises` is the flush that finds the row gone.  `process_plan`
is `Begin` (drop the sheets, reset the row, whatever the status), `Download`,
`ExtractPage`, `ExtractDone`, `PersistChunk`/`PersistRejected`, `ReportSaved`,
`MarkReady` and `MarkError`.  Redelivery, lost children and faults are as above.
`RetryAborts` is the commit that fails after the retry published its message.
`overlapped` remembers plans two executions worked on at once and `missed` plans
whose message was consumed without a row: the properties name these exceptions
because the code has them (section 5).

### PlanLock

`AiRun` lets a start find the lock taken at any time; `PlanLock` says when it does.
The lock of one plan is a PostgreSQL session lock: `pg_try_advisory_lock` gives it
to the *connection* it is called on, again if that connection has it already, and
`pg_advisory_unlock` takes one level from the connection it is called on, or
nothing.  `task_session` returns its connection to the engine's pool, which does
not release the lock.

| State | Code |
|---|---|
| `pool` | the idle connections of each prefork child's engine (`_sync_engine`), a queue; a call of a model inside a transaction records its cost in a second session, hence two |
| `holder`, `depth` | the connection PostgreSQL gave the lock to, and how many times |
| `status` | `ai_runs.status` |
| `claim` | the connection a job got the lock on, until the job releases it or ends |
| `attempts`, `queue`, `exec` | an auto-name task's executions, the messages, the task of each process |
| `broken` | history: auto-name tasks that raised |

`Start*`, `Stage*` and `Finalize*` are the tasks of a run (one stage stands for the
four; each count of `After` is one transaction of the handler), `Name*` is
`reextract_plan_titles_task`, `Cancel` is `cancel_run`, whose unlock happens on a
connection of the API's own pool.  `StartBreaks` and `FinalizeBreaks` are faults of
the database between the lock and the end of the handler.  `OtherTask` stands for
the tasks of other plans, which turn the pool.  One task executes at a time in a
process; thread pools and a pooler between the workers and the database are not
modelled.

An auto-name task that gets the connection a run was started on gets the run's lock
too, which is re-entrant, although the docstring of `reextract_plan_titles_task` says
that the two exclude each other.  `ClaimsAreHeld` therefore says that neither loses
its lock to the other, not that only one has it.

### Billing

The `subscriptions` row of one organization under the provider's webhooks and the
requests of its members.  A handler and a request are transactions that read the row,
compute and write the columns they changed; `snap` is the row as it was read, `to`
what they make of it.  The flush holds the row's lock until the commit and a second
flush waits for it, so the model writes at the commit.

| State | Code |
|---|---|
| `row` | `status`, `first_payment_failed_at`, `grace_period_ends_at`; status "none" when there is no row |
| `event`, `acked` | what the provider reports under a webhook id; the events it got a success for |
| `recorded` | `billing_webhook_deliveries` |
| `hook`, `req` | the transaction of each delivery and of each request in progress |
| `day` | the clock; 14 and 30 days are the constants `GraceDays` and `SuspendDays` |
| `effects`, `mails`, `dropped`, `failures`, `expired`, `overtaken` | history |

`Duplicate`, `Receive`, `Record` and `RecordRejected` are
`try_record_webhook_delivery`: the check, then the insert, which waits for another
transaction that inserts the same id and fails when that one commits.  `Dispatch` is
`dispatch_dodo_webhook_event`, with the receipt it sends before the commit;
`DispatchRaises` is the except block of `process_dodopayments_webhook`, which returns
an error instead of raising, so that `get_db` commits the delivery row: the provider's
next delivery is a duplicate and the event is lost (`dropped`).  `CommitRejected` is
the second of two first subscriptions, `HandlerFault` a rollback.  `Refresh` is
`enforce_org_subscription_state` on a request whose transition changes the row; a
request the guard refuses rolls its transition back and is no action.  Statuses the
provider changes while a request is in flight mix with the request's own
(`overtaken`), because the ORM writes only changed columns.

## 4. The runs

| Run | Instance | What it shows |
|---|---|---|
| `measurement_sync` | 2 sheets, 2 requests and 3 reloads at once, 2 operations, 1 upset | lists settle on the server's rows, no blind overwrite, one row per drawing |
| `viewer` | canvas: 3 sheets of 2 plans, 3 operations, 1 fault; tools: 2 sheets, a condition of each type, 2 spots, 3 points; strip: 1 sheet, 2 names, 2 renames, 1 fault | the canvas is the sheet's, drawings are whole, names and spinner settle |
| `panels` | 2 editors and 2 shapes; 2 rows, 2 requests | locks are selections, no unexplained double lock, names as submitted |
| `conditions` | 3 conditions, 2 requests, 1 upset; 2 conditions, 2 lines, 3 operations | form and choice, writes, lines and their values |
| `pages` | 2 projects and plans; 3 projects in the list; 2 AI runs; 2 templates; 2 people; 2 seats; 2 to 4 operations and 1 fault each | each page shows what the server has, writes what was asked, and its flags end |
| `ai_run_adverse` | 1 run, 2 workers, 2 stages, 1 cancel, 1 redelivery, 1 fault | completed runs are complete, entries in order, effects once per delivery, terminal statuses change only by a stale cancel, every queued run ends for good |
| `ai_run_concurrent` | 2 runs of one plan, 2 workers, 1 cancel, no failure | `AiRun` implements `AiRunPromise` with its progress |
| `plan_adverse` | 1 plan of 3 pages in chunks of 2, 2 workers, 1 retry, redelivery and fault | ready is complete, progress is honest, no row is inserted twice |
| `plan_settles` | 2 plans of 1 page, 1 retry, deletes | an uploaded plan leaves the processing state |
| `lock_shared` | 2 runs, 1 auto-name, 2 processes, 1 cancel | who counts on the lock has it; a stage works under the lock |
| `lock_ends` | 1 run, 1 auto-name, 2 processes, 1 redelivery or fault | every job ends, whoever keeps the lock |
| `billing_adverse` | 2 events, 2 deliveries and 1 request at once, grace 1 and suspension 2 days, 1 fault or lost answer | effects once, one receipt, flags that match the status, no restriction before its time, every event takes effect or its handler raised |

Bounds of the frontend.  Two records of each kind make one be answered under the other,
two requests overtake each other, and one failure, lost answer or colleague's change is
combined with every interleaving of them.  Two operations (three where a dialog must be
left and opened again before the answer, four where a quantity is changed twice before the
purchase) are the shortest behaviours of the exceptions the properties name; every seeded
defect is found within them.  `Symmetry` exchanges sheets, names, spots or shapes, in runs
of invariants only.

Bounds of the backend.  Two workers are enough for any two executions to overlap.  Two stages give a first and a last one, with an
order between them; the code's four behave alike because
`_run_stage` treats every stage the same.  One cancel, one redelivery and one
fault are each combined with every interleaving; the theorems of section 6 hold
without any of these bounds.  Three pages in chunks of two make a full chunk and
a short one.  For the lock, two processes make an unlock land elsewhere, and two or
three executions of an auto-name task (the code allows six) give one that puts itself
back and one that gives up.  Two webhook events are enough for one to overtake the
other or to be delivered twice; a day of grace and another before the suspension make
both transitions happen one after the other and at once.

The four panels of `Panels` are checked in two runs, two panels in each (`OpenSections`), so
that the users of the room can be exchanged by symmetry and each panel has its own bounds.

Deadlock is not checked: when all requests are answered, the queue is empty and the
user has used up the operations, the system stops.

Fairness.  The backend's liveness properties assume that a handler that passed its check
goes on to its commit, and that every worker goes on taking messages and executing transactions
(`worker_prefetch_multiplier=1`, calls with client timeouts).  Nothing is assumed
of users.  The payment provider repeats a delivery until it is answered with a success.
The frontend modules state no fairness: a browser may be closed or suspended at any time.
That a spinner ends is stated as an invariant instead: a flag that is set has a request,
a timer or a loop that clears it.

## 5. What the models show beyond their properties

The properties name their exceptions, and section 3 the frontend's.  In the backend:

- *Two active runs.* The check for an active run and the insert are separate statements
  without a lock or a unique index (`ai_run_service.py:108`).
- *A lost cancel.* `start_ai_run` writes `running` over a cancel that commits after
  its check, and the stages run (`ai_pipeline.py:361`).
- *A missed upload.* `create_plan` queues the task before the row commits; a worker
  that is faster finds no plan and drops the message (`plan_service.py:153`).
- *A ready plan processed again.* A redelivered message drops the sheets of a ready plan
  (`pdf_processing.py:118`).
- *A lock left behind.* A run started in one worker process and finalized in another
  unlocks a connection that does not have the lock (`ai_run_service.py:330`).
- *Two deletes* of a project's last two plans both go ahead (`plan_service.py:392`).
- *Late renewals.* The subscription keeps no time of the event it reflects, so the
  provider's events apply in the order of delivery (`billing_service.py:371`).

## 6. The proofs

The modules `*Proofs` are checked by TLAPS for every value of the constants, under the
assumptions the modules name: in the backend each `ConstantsAssumption` (natural bounds,
at least one stage and one attempt, a positive chunk, the grace period within the
suspension period, auto-name tasks are not runs); in the lists
`BoundsAssumption` and `OffAssumption` (natural bounds, the mark for "no sheet" is no
sheet); in the viewer `ViewerAssumption` (a zoom of 1, a type for every condition, natural
bounds); in the panels `RoomAssumption` (editors are users, the mark for "no lock" is no
measurement), `ListAssumption` (a measurement is on one sheet) and `SectionsAssumption` (two
conditions and one line there from the start, natural bounds); in the pages
`PagesAssumption` (the first project exists and the list starts with two, finitely many
people, natural bounds, of which a quantity and the reads of the button at least one) and
`NoneIsNobody` (the mark for "none" is no plan, project, template or person).

- `AiRunProofs`: `TypeCorrect`, `CompletedIsComplete`, `EntriesAreOrdered`; `AppliedOnce`;
  the action properties `StaleCancelOnly` and `CleanStepsKeepPromise`, that up to the first
  redelivery or unrecorded failure every step is one of `AiRunPromise` or a stutter; and
  `ImplementsPromise`, the safety part of the refinement where there are none.  The
  invariants are not inductive: a message for a stage says nothing by itself about
  the stages before it.  `ChainInv` adds that a message or a worker for a stage
  has been *earned* (the earlier stages applied and recorded, or the run is one
  that short-circuits or was revived), that a worker's program counter matches
  its task, and that a run not yet created has no messages.  `TokenInv` adds
  that until then a run is one message or one execution (`OneToken`) whose place its status
  fits (`StatusFits`) and behind which are the stages that were applied (`AppliedFits`), so
  that none is applied again.
- `PlanProcessingProofs`: `TypeCorrect`, `ReadyIsComplete`, `ProgressIsHonest`,
  `NoDuplicateRow`.  `PlanInv` adds that a plan outside `overlapped` has at most one
  execution at work (`SoleWorker`) and that what is in `sheets` is what that
  execution has written (`RowsMatchPage`), that work and sheets exist only for
  plans that were uploaded and that a deleted or absent plan has no rows.
- `BillingProofs`: `TypeCorrect`, `EffectsOnce`, `OneReceipt`, `FlagsAgree`,
  `NoEarlyRestriction`.  `OnceInv` adds that an
  uncommitted delivery record belongs to one transaction and to an event that is not
  recorded yet; `MailInv` that, without faults, a receipt belongs to a payment that is
  recorded or about to be; `FlagsInv` that every transaction read, and will write,
  failure columns that belong together, so that a flush writes both or none;
  `DueInv` that what a transaction will write is justified by the failures known by
  then, which keeps holding when columns of two rows mix and as time passes.
- `PlanLockProofs`: `TypeCorrect`, `ClaimsHold`, `StagesAreLocked`.  A claim is not
  inductive by itself, since any unlock takes a level from whichever connection it lands
  on.  `LockInv` adds, while nothing was delivered again or broken, that a job is one message
  or one execution (`OneToken`), that its status fits how far it is (`StatusFits`), who
  claims (`ClaimsFit`), and that the level of the lock is at least the number of jobs whose
  unlock is still to come (`Owing`, `LevelsSuffice`): one unlock takes away one level and one job.
- `PanelsProofs`: `TypeCorrect`, one invariant for each of the four panels;
  `LocksAreSelections`, the locks without a bound on the people in the room.  `RoomInv` adds
  to the property what makes it inductive: an announcement is always a function of selection and tool,
  those who left are forgotten by everybody, a map says what its owner has received
  (with or without the one who fell silent last), and what is selected is listed, and what
  is listed exists, or was deleted without a word, or is about to be announced.
  `NamesStayAsSubmitted` rests on `ListInv`: a rename in flight holds the lock, so it is the
  only one, and until its answer what is wanted is in the request, afterwards everywhere.
  `ChoiceRight` and `ChangesRight` rest on `PanelInv` and `LinesInv`.
  `PanelInv`: a version counts the saves and colleagues' changes so far, less
  those on their way, which bounds it (`RevsCounted`); what was created here is in every read that starts afterwards, which is
  what keeps the selection when the list is replaced (`CreatedInv`); the saving flag covers
  the one write until a copy clears it early (`OneWriter`); and while the question of
  deletion is open nothing on its way selects another condition (`QuestionStands`).
  `LinesInv`: a load that the server answered is what it has, or marked as overtaken
  (`FreshLoads`); in between the lines shown are the condition's but for the one line on its
  way in or out (`LinesShown`), which, until it is shown, nobody typed in; what was typed is
  in the one patch on its way, or saved (`TextsShown`); and the text of a row is in the
  timer, in every request on its way, or its value is shown (`ValuesShown`).  `FlagsFit`
  adds that a line being removed is not typed in, so its field goes with it unharmed.
- `MeasurementSyncProofs`: `TypeCorrect`, `ListsMatch`, `NoneBlind`, `OneRow`.  Four
  invariants stand on one another.  `SyncTypes` and `SavedInv` say that an id in a list, a
  stack or a request was saved.  `LoadsInv` follows the moment up to which a list, or an
  answer on its way to it, knows the rows: a list that is not behind shows them, and a change
  it does not know has an event, a timer, a request or a reload to follow.  `BasisInv` ties
  the version an update carries to the one its author was shown.  `HoldersInv` says who
  holds a drawing (a row, the redo stack, a request that is restoring it) and `MovesInv`
  that undo and redo hand it on instead of copying it.  The attempt found an exception that
  the properties have since named: after a save whose answer was lost, the project's and the
  sheet's list may be read at different moments, so the panel may show another version than
  the update carries; and a request that reported an error may have changed its rows (`silent`).
- `ViewerProofs`: `TypeCorrect`, `CanvasRight`, `DrawingsWhole`, `NamesRight`, one invariant
  for each part.  `CanvasInv`: at most one rendering has the current token, what it has done
  so far is of the sheet and the zoom on screen, and without one a loaded document is shown
  as it should be (`ShownInv`).  `ToolsInv`: every point of a draft is on the sheet on screen
  (`DraftsInv`), which is what makes a measurement whole when it is sent; while a calibration
  is neither `hurried` nor `strayed` its dialog measures the line on screen (`ScaleInv`).
  `StripInv`: whatever the list lacks is announced by an event, an answered rename or a
  refresh with the rows of now, and an optimistic name is on its way or the server's
  (`NamesInv`); one click at a time is being sent, waited for by a loop with the flag
  lowered, or closed by its one last refresh (`SpinInv`).
- `PagesProofs`: `PagesTypeCorrect`, `ProjectsRight`, `TemplatesRight`, `SettingsRight`, one
  invariant for each page.  What several of them share is how a list follows the server
  when nothing guards its reads: until a change is answered the newest read that is not
  overtaken is of the rows as they are, and after its answer the list is
  (`LibFollows`, `TeamFollows`, `PlFollows`); only reads that a later change makes late are
  excepted, and the histories name them.
  `PgInv`, of a project's page: whatever list there is, read or shown, is of plans of its
  project, and an uploaded plan is of the project it was uploaded to (`PgOwned`), which is
  what the route's project has to be compared with; a spinner has the read that ends
  it (`PgSpinners`); and a hook whose plan is reported ready has a read still to come that
  will find it so (`PgNoticed`).
  `PlInv`, of the list: a version counts the changes submitted less those on their way
  (`PlCounted`); a creation on its way is of a project that was made, and one that ends has
  given it its cover or taken it back (`PlMade`); one deletion is on its way, of the
  project whose name was typed (`PlOneDelete`).
  `AiInv`, of the button: a click is one request or one read and the button waits for it
  (`AiOneClick`); an answer with the runs as they are is among those served, and whatever
  is older comes late, by its ticket or its place in the queue (`AiFollows`).
  `LibInv`: a form is of the template its dialog was opened for, unless another one was being
  read (`LibForms`), and a template's version counts the dialogs that were opened and the
  requests that failed, but not yet a dialog that can still save it (`LibBudget`).
  `TeamInv`: a role that was chosen is the member's or asked for by the one request that
  changes it (`TeamChosen`).  `SeatInv`: the estimate is asked for the quantity
  of the field, or a timer will ask for it (`SeatEstimates`), and the button waits for the
  purchase and then for the read that follows it (`SeatPurchase`).

What the attempt to prove the pages found.  `ReadyIsNoticed` of `ProjectPage` held on the
instance of two plans and is false with three and about five operations: a plan
is uploaded to another project and asked about for deletion there, the router goes to its
project, the hook polls it, the plan is reported ready and is then deleted, so that every
read lists it as gone.  Nothing is left to notice, and the property now says so ("or the
plan is gone").

The properties and the invariants were first checked by TLC on the instances above.  Only
model-checked: liveness (`EveryRunSettles`, `UploadsSettle`, `JobsEnd`, `EventsTakeEffect`,
and the progress that `KeepsPromise` adds to `ImplementsPromise`), which the prover does not
reason about.

## 7. Not modelled

In the frontend: geometry, snapping, hit testing, painting, sums and their layout,
search fields, sign-in and session, the dashboard, the account page, export, and the
component library; a form is one value, and the exact text of a field matters only to
tell what was typed from what was loaded.  Navigation by the browser's own buttons and
two tabs of one user appear only as a colleague.  On the server: the contents of sheets,
schedules and legends; model prompts, costs and the circuit breaker; broadcasts and the
event log, which no decision reads; Celery's limit of three retries (reached only by
faults that are bounded here); storage objects; the key cache; formula evaluation and
scale detection, which are pure functions of texts.

Hazards of this code that no model here reaches: counters of a run are read, merged and
written back (`ai_run_service.py:466`); schedules and legends are inserted again when a
stage is executed twice (`ai_pipeline.py:808`); a sheet renamed during the model call is
overwritten (`ai_sheet_text_llm.py:379`); pending invitations are not counted as seats
(`billing_service.py:1022`); a reduction of seats is cancelled and the change after it
fails (`billing_service.py:929`); a sheet is calibrated while a measurement is computed
(`sheet_service.py:74`); an account is made at the provider before its row commits
(`auth_service.py:47`); files go before the rows of a project
(`project_service.py:329`); two workers miss the stage cache at once (`ai_cache.py:210`).
