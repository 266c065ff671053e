# XPQT: a TLA+ model of bookings, approvals, visitors, SLAs, daily lists and the outbox

XPQT is a multi-tenant workplace platform: a NestJS API (`src/apps/api`), a React
client (`src/apps/web`) and a Postgres database whose transactional logic lives in
functions under `src/supabase/migrations`. This directory models the parts where
several processes write the same rows, checks them with TLC on small instances and
proves their safety with TLAPS for every value of the constants.

## Inventory

| component | state | operations | what is hard |
|---|---|---|---|
| **outbox** (`modules/outbox/outbox.worker.ts`, `00299`) | `outbox.events`, `outbox.events_dead_letter`; per worker the claim token and the batch | `outbox.emit`; claim, dispatch, `markSuccess`, `markRetry`, `deadLetter`; crons `sweepStaleClaims`, `purgeProcessed` | several instances, crashes, a sweep that takes the claim of a slow worker, settlement in two statements |
| **bookings** (`modules/reservations`, `00277`, `00408`, `00414`, `00426`, `00431`) | `bookings.status`, `booking_slots` (status, `checked_in_at`, `cancellation_grace_until`), the exclusion constraint | create, name the approvers, approve, check in, auto-release, restore, skip, cancel the booking or its services; edit, series split | services write two tables in separate statements, on reads that are stale; approvals that follow the create in transactions of their own; one cron per instance, which looks back one day |
| **booking approval** (`00426`, `00311`, `booking-flow.service.ts`) | `approvals` (chain, threshold, scope), held setup of lines | create RPC, fan-out of the room's approvers, grant, line and bundle cancel | unlocked first read, chains of one booking, retries of the create call, rows inserted one by one |
| **workflow engine** (`modules/workflow`) | `workflow_instances`, nodes, links | start, advance, wait, resume, cancel; sweepers | events that arrive before the instance waits; spawned children |
| **setup work orders** (`setup-work-order.handler.ts`, `00312`) | `setup_work_order_emissions`, work orders | handle, create | redelivery, two workers, cancelled lines |
| **orders and services** (`modules/orders`, `booking-bundles`) | orders, lines, asset reservations, `attach_operations` | attach, cancel, approver routing | idempotency keys, cascades |
| **tickets and work orders** (`modules/ticket`, `work-orders`, `routing`) | cases, child work orders, assignments | transition, assign, dispatch, reclassify | parent and child status, combined updates |
| **SLA timers** (`modules/sla`, `outbox/handlers/sla-*`, `00352`, `00353`, `00240`) | `sla_timers`, `sla_id` and breach stamps of the ticket, start and repoint events | start, repoint, change of policy, approval, status change; breach cron | handlers act on a policy they read earlier, events of successive policies out of order, a cron that marks by id |
| **SLA thresholds** (`sla.service.ts`, `00043`, `00437`) | crossings, assignee, idempotency keys of escalations | minute cron per instance: breach, then thresholds in order | two instances, a crash between the three transactions of an escalation, reassignment by hand |
| **visitors: desk** (`modules/visitors`, `00249`) | `visitors.status`, pass pool | invite, approve, arrive, check out, assign, reserve, return, lose, retire; end-of-day sweep | desk and sweep at a time, a pass read before the check-out and handled after it |
| **visitors: cascade** (`bundle-cascade.adapter.ts`, `booking-cancelled-cascade.handler.ts`) | statuses, orders of mail in `domain_events`, notification of the requester | cancel, move, restore of the booking | redelivery, two handlers at a time, stale status, restore before the event |
| **maintenance** (`modules/maintenance`) | plans, occurrences | generator cron | one work order per occurrence |
| **daily list** (`modules/daily-list`, `mail-webhook.controller.ts`, `00175`-`00177`) | `vendor_daily_lists` (version, payload, `email_status`, lease), lock of order lines | scheduler tick, generate, send, sweep of stuck rows, admin regenerate and resend, provider callbacks | two instances, the lock ends before the mail, crashes, overrun leases, callbacks that overtake the commit |
| **vendor portal** | line status | update | late vendor updates |
| **privacy** (`modules/privacy-compliance`) | retention, holds | sweep, erase | a hold set during a sweep |
| rules, routing, calendar sync, webhooks, floor plans, notifications, configuration, portal, search, reporting, web, shared | | | pure resolution, external services, CRUD, read models |

The components meet in the database. Producers write an outbox row in the transaction
of their change (`outbox.emit`); the worker delivers it to one handler per event type,
at least once; handlers call RPCs that must bear repetition. `PROJECT.json` lists all
components, also those without a module, and the hazards at their lines.

What makes each modelled part correct:

* outbox: an event is settled once, never lost, never silently buried, retried a
  bounded number of times, and settled in the end;
* bookings: a room is never promised twice, a rejection and a check-in stand, what waits
  for a decision nobody can take is known, a no-show gives its room back;
* approval: answers are final, one answer of an any-of chain counts, setup waits for the
  service approvers, a line gets one work order, the workflow goes on only after the
  decision;
* visitors: a visitor and a pass agree on each other, a visit that ended stays as it
  ended, who is overdue is swept; who is told that his visit is off is right, nobody is
  invited before he is admitted, and after a cancel nobody is awaited;
* SLA: the timer in force is the policy's, a breach is shown, a threshold fires once and
  in the end, and an escalation that is recorded has happened;
* daily list: a version is mailed once, lines are locked into what was mailed, a due
  bucket is mailed and no row is stuck.

## Modules

| module | models | checked by | proofs |
|---|---|---|---|
| `Outbox` | `outbox.worker.ts`, `outbox.emit` | `MCOutbox` | `OutboxProofs` |
| `EventDelivery` | what a producer may rely on (abstract) | refined by `Outbox` | `OutboxProofs` |
| `Bookings` | slots and bookings, the writers of their status named in its header; the edits are not among them | `MCBookings` | `BookingsProofs` |
| `RoomCalendar` | what users of a room may rely on (abstract) | refined by `Bookings` | `BookingsProofs` |
| `BookingApproval` | one booking: approvals, workflow, lines, setup work | `MCBookingApproval` | `BookingApprovalProofs` |
| `VisitorStatus` | the transitions a visitor may take, shared by the next two | | |
| `VisitorPasses` | desk, pass pool, end-of-day sweep of one building | `MCVisitorPasses` | `VisitorPassesProofs` |
| `VisitorCascade` | what a cancel, restore or move of a booking does to its visitors | `MCVisitorCascade` | `VisitorCascadeProofs` |
| `SlaThresholds` | the minute cron over one timer | `MCSlaThresholds` | `SlaThresholdsProofs` |
| `Escalations` | what people on a ticket may rely on (abstract) | refined by `SlaThresholds` | `SlaThresholdsProofs` |
| `SlaTimers` | where the timers of one ticket come from | `MCSlaTimers` | `SlaTimersProofs` |
| `DailyList` | the list of one bucket: scheduler, send, sweep, callbacks | `MCDailyList` | `DailyListProofs` |
| `ListDelivery` | what the vendor may rely on (abstract) | refined by `DailyList` | `DailyListProofs` |

**Outbox.** Rows are indexed by their unique key. Times are reduced to what the SQL
compares: a lease is fresh or stale, a retry due or not, a processed row recent or old.
Every SQL statement is a step; `deadLetter` is two (`DeadLetterCopy`, `DeadLetterFlag`),
because its transaction is READ COMMITTED and its first statement locks nothing that
others write. Every settling statement tests the claim token (`Holds`). `handled` and
`overran` are history variables. Failures (a crash, a failing write, a lease that ends
under a live worker) are bounded by `MaxMishaps`.

**Bookings.** An RPC takes the row lock of its booking before it reads, so it is one
step. A service call (`checkIn`, `restore`, `skipOccurrence`, `cancelOne`,
`autoReleaseScan`) is one step per statement, can interleave with anything and can die
between two. `Create` brings an approval row only if the plan does (service rules; the
flat rule of a single room without services); every booking that waits goes on to
`FanOut`, where the rest are inserted, or a workflow that inserts them is started, after
the commit and whatever has become of the booking (`booking-flow.service.ts:283`,
`multi-room-booking.service.ts:512`). `Replay` is the create sent again. `CancelLine` and
`CancelBundle` are what `00414` does to approvals, slots and booking. `stranded` is
history: bookings left waiting without an approval that anybody could answer. The
approvals of a booking are reduced to one row; chains are `BookingApproval`'s. Which
slots contend for a room is a constant relation, so the exclusion constraint is `Admits`.
The clock is reduced to a phase per booking: early, open for check-in, due (grace over),
and past, when the start is more than a day ago and the scan no longer selects the row;
bookings are shorter than a day. The scan selects at most `ScanLimit` rows, filters them,
and has no order. `cancelKey` stands for the outbox rows whose key a second cancel would
need.

**BookingApproval.** One booking in detail. `Rows` are the approval rows that can come
to exist: those of the attach plan and, for each create call, those its fan-out would
insert. Calls run the combined RPC, the fan-out check and the inserts as separate steps;
the workflow engine inserts row by row and then waits; `resume` claims the instance and
advances it in two steps and may die between. A grant is an unlocked read and one locked
step. Setup events reach their handler through the outbox, so `SetupRead`/`SetupWrite`
may run twice and by two workers. Slots follow the booking here; that they may not is
what `Bookings` is about.

**VisitorStatus, VisitorPasses.** `transitionStatus` is one step; its audit insert may
fail inside its transaction, which rolls the status back while the caller goes on. An
operation on the pool locks the pass and its visitor and is one step; check-out and sweep
read the pass, check the visitor out and handle the pass they read in three transactions.
The sweep holds a lease for the day (`task_leases`) and may die with it.

**VisitorCascade.** The cancel event comes as often as the outbox likes, to two handlers
at a time, possibly after a restore. A handler's statements are steps: it reads a
visitor, cancels him, writes the order of mail, takes the advisory lock, sends the
notification (`notification.service.ts`), writes the audit row by which the next delivery
knows of it, and gives the lock back. `unrecorded` counts the sends without such a row. A
mail is the domain event that orders it. `held` are rows that a move keeps locked on one
connection while it waits on another.

**SlaThresholds.** A tick is: mark the breach, load the ticket, then for every passed
threshold in ascending order probe, assign (an RPC under the key of timer and
threshold), insert the crossing, notify. Any of them may fail or be the last before a
crash. A watcher who left the tenant (`dirty`) makes the RPC raise.

**SlaTimers.** Events carry the policy they are about; the version number `n` is history
and says whether an applied event was late. A ticket starts as a case with its start
event, a case that waits for approval, a dispatched work order with its timer, or a setup
work order, to which `00312` gives a policy and neither timer nor event. `dead` are the
events that ended as dead letters: the policy is gone or has no targets (both free to
happen at any time), or the attempts are used up. `update_entity_sla` installs the timer
itself, on work orders from the API and on cases from the `update_ticket` node of a
workflow. Status changes flag timers (`recompute_pending`) and emit an event
that its handler rejects, as in the code.

**DailyList.** Rows are their version numbers. An instance goes through sweep, scan,
lock, choice of a row, assemble, record, render, compare-and-swap, mail, settle; a
request enters at assemble or render. The lease is a time stamp that the code only
compares for equality, so the column holds the worker that wrote it, and `exact` says
whether the copy the driver handed out still equals it: node-postgres (external, no type
parser is set in `db.service.ts`) returns a `Date`, which has no microseconds. The
provider recognises a repeated mail by its key only if its content is the same, and the
content has a link signed per attempt. Failing statements, crashes, overrun leases and
callbacks share the bound `MaxMishaps`; at `MaxVersions` the insert of a row fails, as
any statement may. The address of the vendor may be entered or removed (within the same
bound); `Record` freezes it on the row, and `send` throws for a row without one. The date
of the list enters and leaves the window of the scan (today and tomorrow). An order has
one line here.

**The abstract modules.** Each says in one page what its component promises to those
who do not see the tables, and each is a PROPERTY of a run and a theorem.

| abstract | concrete | mapping | what the mapping hides |
|---|---|---|---|
| `EventDelivery` | `Outbox` | a status per event; `handled` | claims, leases, batches, the two statements of `deadLetter` |
| `RoomCalendar` | `Bookings` | slot status to free, asked, firm; the verdict of the approval | booking status, the statements of a service call, grace times, phases |
| `ListDelivery` | `DailyList` | the same columns | `email_status`, leases, the lock, the steps of a sender |
| `Escalations` | `SlaThresholds` | `taken` = thresholds whose key is used; `told` = notifications | the ticks, what they read, breach and timer |

`RoomCalendar` has a move of its own, `Revive`, for what `room-booking.md:36,72-73` does
not provide for: a booking that gave its slots up while it waited gets them without an
approval, as the code's restore and a stale check-in do (see the known disagreements). A
rejected booking never gets one, and none is given while another slot of the booking is
still asked for.

## Runs

Passing:

| run | instance | shows |
|---|---|---|
| `outbox` | 2 events, 2 workers, 3 tokens, batches of 2, 2 attempts, 1 mishap | the settlement properties, `ArchivedIsOver`, `NeverStranded` and `ImplementsDelivery` |
| `outbox_live` | 1 event, 2 workers, 2 mishaps, fair | `EventuallySettled` |
| `bookings` | 2 occurrences of a series contending for 1 room, 1 request, 1 scan (1 390 000 states) | `NoDoubleBooking`, `ImplementsCalendar` |
| `bookings_rooms` | 1 booking of 2 rooms with check-in, 2 requests, 1 fair scan of 1 row at a time, until the day is over, 1 crash or replay (1 060 000 states) | `RejectedStaysOut`, `PendingIsDecidable`, `CheckedInIsKept`, `NoShowReleases` |
| `approval` | service approvals (all-of) and a room rule that is changed from a workflow to a flat any-of chain before the create is retried, 1 line, 2 grants, 2 workers, 1 crash (490 000 states) | `DecidedOnce`, `RejectionIsFinal`, `AtMostOneWorkOrder`, `SetupWaitsForService` |
| `approval_workflow` | an any-of chain of two rows of a workflow, a retried create call with one, 2 grants, 1 crash, also between claim and advance (400 000 states) | `AnyOfOneWinner`, `WorkflowFollows` |
| `visitor_passes` | 2 visitors, 1 pass, 1 check-out in flight, the sweep, 1 fault (510 000 states) | `PointerIsTrue`, `EndIsFinal`, `OverdueIsSwept` |
| `visitor_cascade` | 1 visitor, 2 handlers, 3 faults, also between a send and its record (250 000 states) | `CancelMailIsTrue`, `InvitedWasAdmitted`, `RequesterToldOnce`, `DoneMeansReached`, `CancelReachesVisitors` |
| `sla_thresholds` | 2 instances, thresholds at half and at the due time, watched beyond it, 1 fault, 1 edit (480 000 states) | `EscalatedWasAssigned`, `ImplementsEscalations`, `ThresholdIsRecorded` |
| `sla_timers` | 2 policies, 2 workers, 1 cron, 2 changes of policy, 1 fault or exhausted event, all four kinds of ticket (605 000 states) | `BreachIsShown`, `TimersFollowPolicy`, `StartIsOnItsWay`, `TimerIsStarted` |
| `daily_list` | 1 instance, 1 request, 1 line, 2 versions, 1 mishap or edit of the address, the whole date window (615 000 states) | `OneMailPerRow`, `ImplementsListDelivery`, `DueIsMailed`, `StuckIsFreed` |

Some properties that are theorems are in no run, because a run checks one that implies
them: `ProcessedWasHandled` (`ImplementsDelivery`), `NotifiedOnce` and `TakesOnce`
(`ImplementsEscalations`), `LockedMeansMailed` (`ImplementsListDelivery`), and the type
invariants.

The bounds: two of each actor give every pairwise race; a third token is needed while
two passes hold tokens and a third claim starts; two attempts give a first failure, a
retry and exhaustion; one crash or mishap per run separates what a single failure can do
from what concurrency does; two rows of a chain give a winner and a loser. Symmetry is
used for interchangeable requests, grants and workers, and never in a liveness run. Two
visitors and one pass let the pass change hands between a read and a write; one visitor
is enough for the cascade, which treats visitors one by one, and three faults let both
handlers die and the requester's notification fail. Two policies allow there and back,
and as they are interchangeable the run starts with either `p1` or none (`FirstSpec` in
`MCSlaTimers`). One line is enough for setup, whose lines do not interact. `bookings`
has no crash and no replay, which `bookings_rooms` has for one booking and the proofs
for any number; the two requests of `bookings_rooms` are a create and whatever may
overtake its fan-out. In `daily_list` the request plays the second sender; two instances
that contend for the lock are in `daily_list_lease` and in the proofs.

Deadlock is not checked for the outbox, bookings, approvals and the cascade: a settled
outbox with no new events, a decided booking, a finished cascade are proper ends. It is
checked in the other runs.

Fairness. `Outbox`: weak fairness of each step of a live pass, of the timers and of the
sweep (its cron runs in every instance), strong fairness of claiming a given row,
because the claim orders by `available_at` and the drain cron fires every 30 seconds.
Crashes, handler outcomes and new events are not fair. `Bookings`: weak fairness of the
release scan, a cron. `VisitorPasses`: weak fairness of the sweep and of the change of
day. `VisitorCascade`: of the handler's steps, as the outbox redelivers until it is
acknowledged. `SlaThresholds`: of the steps of every instance's tick, a cron.
`SlaTimers`: of handling each event and finishing it. That is all `Outbox` guarantees:
an event is settled in the end (`EventuallySettled`), which a dead letter is as well;
handling an event here may end in `DeadLetter` or `Exhausted`, and `TimerIsStarted`
excepts a ticket whose order ended so. `DailyList`: of the ticks, of the steps of a
running tick or request, and of time. People (desk, approvers, admins), orders and the
mail provider are never fair.

Violation, a disagreement between the code and what the repository says of it (the
quotation is in `PROJECT.json`, "findings"):

| run | property | what happens |
|---|---|---|
| `daily_list_lease` | `FenceIsLease` | a sender nobody disturbed finds its lease gone, because the lease it compares was cut to milliseconds: the mail is out, the list is not recorded as sent, and the sweep has it mailed again |

## Known disagreements

Met while modelling and true of the models; no property claims otherwise, and where one
comes near, it names the exception.

* Outbox: a sweep between the two statements of `deadLetter` leaves an archived event
  live (`outbox.worker.ts:290`; `00299:126` describes the archive as final).
* Restore confirms a booking whose approval was never given
  (`reservation.service.ts:587`; `room-booking.md:36,72-73`).
* A booking is left waiting for nobody: its create dies after the commit and before the
  fan-out (`booking-flow.service.ts:283`), its rule names nobody, or its services are
  cancelled, which expires the approvals while the slots stay in `pending_approval`
  (`00414:498,526`; `assignments-routing-fulfillment.md:1178`). Its room stays taken.
  `PendingIsDecidable` lists these cases and shows there are no others.
* An approval row may be inserted for a booking that was cancelled or decided between its
  create and its fan-out; answering it has no effect on the slots.
* A no-show that no scan reached within a day of its start keeps its room for good
  (`check-in.service.ts:142`), and a scan sees 500 rows in no order (`:144`).
* Cancel, restore, cancel: the event key of the first cancel is taken and the second
  rolls back (`00408:560`; `00408:74`).
* A setup event drained after its line was cancelled opens a work order
  (`setup-work-order.handler.ts:66`; its comment, lines 63-65).
* An any-of chain of a workflow, whose rows come beside those of the services, resolves
  the booking and emits its setup while service approvals are open (`00426:300`);
  `SetupWaitsForService` excepts it.
* A resume that dies between its claim and its advance leaves the instance active, and
  every later delivery finds nothing to claim (`workflow-engine.service.ts:2007`).
* The requester of a cancelled booking is notified again if the process dies, or the audit
  insert fails, after the send (`booking-notifications.service.ts:81-91`;
  `booking-cancelled-cascade.handler.ts:94-95`, "exactly-once under retry").
* A service approval keeps the room approver from getting a row
  (`booking-flow.service.ts:1105`; `room-booking.md:73`).
* SLA: a threshold at 100 percent fires only if the marking of the breach failed, as the
  pass selects timers with `breached = false` (`sla.service.ts:1398`;
  `2026-04-20-sla-escalation-thresholds-design.md:153`).
* SLA: the grant of an approval reopens a ticket that was closed meanwhile (`00358:256`;
  `00356:426-428`).
* SLA: a setup work order has a policy and no timer (`00312:183-213`). A start event whose
  policy has no targets is a dead letter, and the ticket never gets a timer
  (`sla-timer-recompute.handler.ts:235`).
* SLA: status changes emit events without `tenant_id` and `ticket_id`, which the handler
  dead-letters (`00427:859`), and no reader filters `recompute_pending`: waiting does not
  pause a timer. `repoint_sla_timer` leaves the breach stamps of the old policy.
* Visitors: `handleLineMoved` holds a row on one connection and updates it on another
  (`bundle-cascade.adapter.ts:137`; its comment, lines 369-375). The trigger that the
  comment in `visitors/admin.controller.ts:338` relies on is in no migration.
* Visitor mail: skipped events leave no delivery row and are taken again for ever, so
  that fifty of them keep later mail waiting (`visitor-email.worker.ts:309`; its comment
  "record skip so we don't fight the same row forever", line 217).
* Daily list: the lock is released before the mail and a row in `sending` is not found,
  so a second instance mints and mails version 2 beside version 1
  (`daily-list-scheduler.service.ts:268`; its lines 24-25, "Per-bucket advisory lock
  prevents double-fire under concurrent worker instances", and `00175:5-8`). A callback
  that overtakes the commit does the same (`mail-webhook.controller.ts:229`).
* Daily list: the address is frozen on the row. One minted without is chosen by every tick
  and refused by `send`, also after the vendor got an address
  (`daily-list.service.ts:535`). Once the date of the list has passed, nothing retries it
  (`daily-list-scheduler.service.ts:156`).
* Daily list: a row is not retried under the same content, as the link is signed per
  attempt, so the provider's idempotency does not do what the comment in `send` says of
  it. A cancelled line of an order that has other lines stays on the list, as `assemble`
  looks at the order's status only. A forced resend is refused after a callback.

## Proofs

`tlapm` proves, for every value of the constants (the assumptions are the named ASSUMEs
of each module: types of the constants, null values outside their sets, `MaxAttempts`
positive, `Contends` symmetric):

* `OutboxProofs`: the type invariant, the safety invariants, the three action
  properties and `Spec => Delivery!Spec`. The inductive invariant adds what the
  properties do not say: a token is on at most one live pass (`TokensDiffer`), a row
  with a token is unsettled (`RowOK`), and while a pass holds a row, the attempts it
  remembers are the row's (`ClaimOK`). From the last one `markRetry`, which overwrites
  the counter with a remembered value, cannot lower it, and from `LeaseOK`, that a claim
  is lost only through an overrun, two handlers overlap only after one.
  `ArchivedIsOver` makes the known weakness of `deadLetter` exact: its two statements
  come apart only when a lease ran out under a worker.
* `BookingsProofs`: the type invariant, `NoDoubleBooking`, `RejectedStaysOut`,
  `PendingIsDecidable` and `CheckedInIsKept`. The slots of a booking wait together and
  never again once they have stopped (`WaitingOK`), so a call that checks in or restores
  has read a booking past its waiting (`RequestsOK`), and neither a rejection nor an
  approval row inserted late can touch it; a rejected booking shows nothing confirmed and
  no grace window (`RejectedOK`). A waiting booking has an open approval, or none yet and
  a call that is still to name it, or is stranded (`DecidableOK`). `CalendarImplemented`
  shows each statement of each call to be one of the moves of `RoomCalendar` or none: a
  check-in or restore that confirms a slot is a `Promise` or a `Revive`, which `Admits`
  let through (`StepRefines`).
* `BookingApprovalProofs`: the type invariant, `AtMostOneWorkOrder`, `AnyOfOneWinner`,
  `DecidedOnce`, `RejectionIsFinal`, `WorkflowFollows` and `SetupWaitsForService`, for
  every room rule and every threshold of every chain. The invariant adds that rows a call
  has yet to insert do not exist (`FreshOK`), that a rejection has decided the booking
  and left nothing held (`RejectedOK`), and that the rows of the plan exist as long as
  the booking does (`PlanOK`): whoever resolves an all-of chain finds them answered, and
  the only other way to the setup is the any-of chain of the room that the property names.
  For `WorkflowFollows` it adds that an answer which woke a workflow has decided the
  booking (`WokenOK`) and that an instance is claimed or completed only after an answer
  of its own chain woke it (`FollowsOK`).
* `VisitorPassesProofs`: types, `PointerIsTrue`, `EndIsFinal`. The invariant is inductive
  with the types: whoever takes a pass clears the pointer of the holder that the pass
  names, and nobody else points at it.
* `VisitorCascadeProofs`: types, `CancelMailIsTrue`, `InvitedWasAdmitted`,
  `RequesterToldOnce`. Added: whoever is owed an invitation was admitted (`OwedOK`), the
  visitor a handler is about to write to is cancelled (`IntentOK`), and whoever sends
  has the lock and finds no send on record, so that each notification is recorded, about
  to be, or was never recorded (`SendOK`). `CancelIsComplete` has an invariant of its own: for each handler, every visitor at stake is ahead of it or behind
  it (`Behind`, `ReachInv`), and no transition leads back to being awaited (`Onward`), so
  that whoever acknowledges has passed everybody, whatever the other handler did.
* `SlaThresholdsProofs`: types, `NotifiedOnce`, `EscalatedWasAssigned`, `TakesOnce`.
  Added: who is about to notify won the crossing (`OneWinner`), who is about to record an
  escalation knows it happened (`KnowsOK`), and a key exists exactly for thresholds that
  have had the ticket (`HeldOK`). That a non-empty set of thresholds has a least one
  comes from the library's well-foundedness of the naturals. `EscalationsKept` adds how a
  tick came to its step (`PathOK`): a threshold is skipped for its manager's sake, and
  the RPC is called for a target with an account.
* `SlaTimersProofs`: types, `BreachIsShown`, `TimersFollowPolicy`. Added: events of the
  current version name the current policy (`EventOK`), and until a late event is applied
  one timer at most is active (`OneActive`), which is the policy's where a start is
  ordered (`StartOK`), so the short cut of `repoint_sla_timer` leaves nothing behind; and
  a timer of another policy has its repoint in the queue or among the dead letters
  (`FollowOK`). `StartComes` adds that what a ticket waits for is an event of the current
  version, which leaves the queue only after it was applied or as a dead letter
  (`ClockOK`).
* `DailyListProofs`: types, `OneMailPerRow`, `LockedMeansMailed`. Added: a row that was
  never sent has no mail and no sender (`FreshOK`), a failed row is disturbed
  (`FailedOK`), so the compare-and-swap lets one unforced sender through (`SenderOK`);
  who settles has mailed a minted row (`RowOK`, `SettleOK`). `ListDelivered` needs one
  fact more, that a worker with nothing on its list never gets to record it (`ListedOK`).

Each is laid out alike: one lemma per action or group of actions that the inductive
invariant survives, one step for every conjunct the action can disturb; frame lemmas
(`TablesKept`, `Frame`) for actions that touch little; then the theorems by PTL.
Liveness (`EventuallySettled`, `NoShowReleases`, `OverdueIsSwept`,
`CancelReachesVisitors`, `ThresholdIsRecorded`, `TimerIsStarted`, `DueIsMailed`,
`StuckIsFreed`) is out of the prover's reach and only model-checked. For three of them
the safety half is proved, which is where their interleavings are: `NeverStranded` (some
step can always take an unsettled event further), `StartIsOnItsWay` (the event that
starts the timer is not lost without a trace), `DoneMeansReached` (an acknowledged
cascade is complete). What TLC adds is that the step is taken.

## Not modelled

Tenancy (a key, a booking and its rows belong to one tenant), permissions, payloads,
formatting, and audit rows and notifications but those
of the cancel cascade. `outbox.mark_consumed` has no caller. Of the
lines of a booking only those with internal setup work; asset reservations and orders
follow their lines. Attach-plan building (approver routing, rules, buffers) is input to
the model. Visitors: the polling mail and reminder workers, tokens, kiosk search. SLA:
due dates in business hours, the at-risk flag, methods without a caller. Daily list:
the follow-up of edits after the send (`00178`, `00179`), the PDF, and that buckets which
fail at every tick may use up the number a tick takes (`maxPerTick`). Workflow: nodes other
than approval, and links, which no code inserts.

The repository has 236 000 lines. Most of them hold no protocol: the web client, error
texts in two languages, smoke scripts, CRUD of configuration, search and reports. The
models cover what writes shared rows from several processes, so they map a small share of
the lines. The components with status `not_modelled` are listed with their reasons.

## Plan

1. *(done)* `Outbox` with `EventDelivery`, `Bookings`, `BookingApproval`.
2. *(done)* `VisitorStatus`, `VisitorPasses`, `VisitorCascade`; `SlaThresholds`,
   `SlaTimers`; `DailyList`; their runs and the proofs of their inductive invariants.
3. *(done)* The promises as abstract specifications, `RoomCalendar`, `ListDelivery`,
   `Escalations`, with the refinements proved; the safety halves of the liveness
   properties. Next in this line: the custody of a visitor's pass as an abstract
   specification for `VisitorPasses`, and the abstract answer to a booking for
   `BookingApproval`.
4. `BookingEdit`: `edit_booking` and `edit_booking_scope` (`00407`) with the
   `command_operations` gate (`00316`), series split (`00411`) and attach of services
   (`00413`): one command takes effect once, however often it is sent; an abstract
   idempotent-command specification to refine.
5. `WorkflowEngine`: all nodes, wait sweeper, wake handler. Is a waiting instance always
   woken, is an all-of chain complete before its first answer counts.
6. `WorkOrders`: status machine and assignment (`00325`, `00437`, `00427`, `00428`),
   parents and children; `Maintenance` (generator with its lease per occurrence).
7. The follow-up trigger of the daily list together with `DailyList`; retention against
   legal holds.
8. Function modules, checked against reference definitions: rule resolution, approver
   merging, recurrence.
