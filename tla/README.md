# Sahel: models, checks and proofs

Sahel rents holiday units by the night. A guest picks a unit and dates, gets the
dates held for a limited time, and uploads a photo of a bank-transfer receipt; an
admin checks the receipt, and the booking is confirmed once the deposit (one
night's price) is covered. The program is a Go API (`api/`) over Postgres and an
S3 object store, and a Next.js site (`web/`) for guests and admins.

This directory holds TLA+ modules of the parts where the order of things decides
whether the program is right, TLC configurations that check them on small
instances, and TLAPS proofs of the main results for instances of any size. It
needs nothing but the repository: every definition names, in `PROJECT.json`
("map"), the lines it stands for.

    tlasany M.tla                     parse a module
    tlc -config X.cfg M               model-check (the module of each .cfg is in PROJECT.json, "runs")
    tlapm M.tla                       check the proofs of a module

## 1. Inventory

State that outlives a request is in Postgres, and receipts and images in the
object store. The API keeps nothing in memory between requests except the
goroutine that sweeps unpaid holds each minute, so all concurrency is that of
database transactions: handlers of concurrent HTTP requests, and the sweep. They
run at READ COMMITTED: a statement sees what was committed when it began, a
`FOR UPDATE` row lock is held until the transaction ends, and an `UPDATE` that
had to wait for a row tests its `WHERE` again on the row it then finds.

| component | state | operations | interacts with |
|---|---|---|---|
| Booking rules (`domain/booking`) | none | statuses, `AfterUpload`, `AfterVerified`, `AfterRejected`, `NewRef` | used by all handlers below |
| Reservations (`bookings.go`, `admin_manual_booking.go`, `admin_dashboard.go`) | `bookings`, `unit_blocks`, the `units` row | create a booking (guest, admin), create and delete a block, cancel, expire | the unit's row lock orders them; catalogue edits change the unit meanwhile; payments move the status |
| Deposits and receipts (`payments.go`) | `payments`, the money columns of `bookings`, receipts in the object store | upload, verify, reject, record by hand; sweep of lapsed holds | row locks on the receipt, then on its booking; frees dates of reservations |
| InstaPay settings | one row | read, replace | none |
| Prices, quotes, calendar (`domain/pricing`, `pricing_store.go`, `availability.go`) | base price, price ranges, weekend days, settings | edit prices; quote a stay; a unit's calendar | a quote is part of creating a guest's booking |
| Unit images (`admin_images.go`) | `unit_images`, objects | upload, set cover, reorder, delete | object store; the unit's row lock |
| Catalogue (`admin_units.go`, `admin_areas.go`, `admin_compounds.go`, owners) | areas, compounds, units, owners | create with a derived slug, patch, delete | foreign keys from bookings, images, blocks |
| Guest accounts (`guest.go`, `guestauth`) | `customers`, login attempts, signed tokens | register, log in, change details and password | an admin's booking upserts a customer by phone |
| References and retries (`ref.go`, `admin_errors.go`) | none | `NewRef` and slug retries on unique violations | inside and outside transactions |
| Alerts (`alerts.go`, `mail`, `telegram`) | none | one goroutine per channel, best effort | after a handler's commit |
| Reports, today, timeline | none | aggregations | read bookings and blocks |
| Process lifecycle (`cmd/api`, `cmd/migrate`) | none | wait for the database, sweep loop, drain, migrations | ends the sweep at shutdown |
| Public read side, HTTP plumbing, admin access, object store client | none | queries, routing, one shared password, S3 calls | - |
| Web, planner and dialog (`stay-planner.tsx`, `guest-flow.tsx`, `calendar.ts`) | months on show, range, guests, quote, dialog's step | pick, quote, sign in, confirm | server actions call the API one after another |
| Web, payment pages (`payment-panel.tsx`, `payment-actions.tsx`, `cancel-booking.tsx`) | the row each page was rendered from, countdown, dialogs | upload; verify, reject, record, cancel | the API's payments, and each other through it |
| Web, timeline and booking form (`timeline-grid.tsx`, `manual-booking-form.tsx`, `stay-picker.ts`) | selection, rendered units and blocks, a unit's taken nights | block, unblock, book by phone | the API's reservations |
| Web, record forms (`entity-form.tsx`, `unsaved-changes.tsx`) | unsaved edits, the browser's history, dialogs, session | edit, save, delete, Back, links, sign in and out | the API's catalogue |
| Web, slug field, photos, list filters, guests' search, list of bookings and its export | fields, tasks under way, the address | one per control | the API's read side; images |

What is hard, and what makes each part right:

- **Reservations.** A night must never be held twice. A count of clashes comes
  before the insert; two bookings are also kept apart by an exclusion constraint,
  two blocks by another, but a booking and a block only by the unit's row lock.
  The unit (its status and turnover days) is read before the lock and used after
  it. Any request may be cut off at any statement, and its lock must go with it.
- **Receipts.** A guest whose receipt waits must not lose the dates to the sweep,
  to another receipt's rejection, or to a race between them; money must be neither
  lost nor counted twice when verdicts, uploads and records meet; a verdict must
  not revive a cancelled booking; unpaid dates must come back. Verdicts lock a
  receipt and then its booking, uploads and records the booking only, the sweep
  several bookings in any order: they must not deadlock.
- **Images.** Two uploads, a change of cover and a deletion race for the one cover;
  an object deleted after a commit whose answer was lost.
- **Catalogue.** `PATCH` reads, edits and writes whole rows; deletes rely on
  foreign keys; slugs are retried up to 50 times.
- **Accounts.** Registration and an admin's booking meet in one row keyed by phone;
  failed logins are counted before they are recorded.
- **References.** A retry inside a transaction that its own unique violation has
  aborted.
- **Prices and calendar.** What the calendar shows as free must be what a quote
  accepts; turnover days, horizon and notice are computed in two places.
- **Alerts.** Nobody waits for them, so a shutdown loses them.
- **The web.** Each page acts on what it last rendered, while answers, refreshes,
  timers and navigations overtake one another and others change the same rows. A
  price must be that of the stay it stands beside; a dialog must not wait for
  nothing; a success told must be true; a filter shown must be the one applied;
  unsaved edits must survive Back, whatever the browser's history holds.

`PROJECT.json` lists the hazards at their lines, with the properties that
cover each, and for those without one the reason.

## 2. Plan

Modules in the order they were written; those marked + exist.

1. + `BookingRules`: the pure rules everything shares.
2. + `UnitCalendar`, `Reservations`, `MCReservations`, `ReservationsProofs`: a
   unit's nights. Abstract specification: claims on a calendar, taken whole from
   nobody, given back whole.
3. + `PaymentLedger`, `MCPaymentLedger`, `PaymentLedgerProofs`: the rules of money
   and dates with each operation at once.
4. + `Payments`, `MCPayments`: the same operations as transactions, implementing
   `PaymentLedger`.
5. + `StayCalendar`, `StayPlanner`: dates and ranges; the guest's planner and dialog.
6. + `PaymentPages`, `MCPaymentPages`, `MCPaymentScenes`: the guest's and the admin's
   page of a booking, above `PaymentLedger` as the API.
7. + `CalendarDesk`: the admin's timeline and booking form, above `StayCalendar`.
8. + `UnitEditor`, `SlugField`, `UnitImages`, `ListFilters`, `PublicSearch`,
   `BookingsList`, composed by `MCScreens`: the screens of records and lists.
9. + `UnitEditorProofs`: the guard on unsaved changes, and a unit's photos.
10. + `PaymentsProofs`: `RequestsTypeOK`, `ReadsStillTrue` (the inductive invariant),
    `ReceiptIsStored`, and `ImplementsLedger` for any number of handlers.
11. + `PaymentPagesProofs`, `StayPlannerProofs`, `CalendarDeskProofs`,
    `ScreensProofs`: the web's modules, one by one.
12. `BookingLife`: `Reservations` and `Payments` composed, with `PaymentMove`
    replaced by the handlers of `Payments`, shown to implement both abstractions.
13. `Accounts` (registration and upserts by phone, login limits) and `UniqueInsert`
    (retries on unique violations inside and outside a transaction).

Every safety property and every action property that a passing run checks is a
theorem of section 6; theorems wanted beyond those are about the modules of 12 and
13.

## 3. Modules and how they correspond to the code

**`BookingRules`** translates `domain/booking`: `AfterUpload`, `AfterVerified` and
`AfterRejected` are the methods of `payment.go` of those names; `Occupying` is the
slice of `status.go`, which the queries and the constraint repeat; `Overlaps` is
`&&` on half-open date ranges and `WithTurnover` is what `CountOverlappingStays`
adds to a check-out. `hold_expires_at` is reduced to the three things the queries
tell apart: NULL, in the future, passed.

**`Reservations`** is one unit. A request is the row it may insert. `pc` is where
its handler is, and each action is one statement:

| action | code |
|---|---|
| `ReadUnit`, `UnitNotBookable` | the unit read and tested before the transaction |
| `LockUnit`, `LockMissingUnit` | `LockUnit` (`SELECT ... FOR UPDATE`), and its no-rows answer |
| `RefuseStay`, `StayIsFree` | `quoteStay` / `CountOverlappingStays` |
| `InsertBooking` | `CreateBooking`, `bookings_no_overlap`, COMMIT |
| `RefuseBlock`, `BlockIsFree`, `InsertBlock`, `BlockExcluded` | `adminCreateBlock` |
| `DeleteBlock`, `CancelBooking`, `ExpireHolds`, `PatchUnit`, `DeleteUnit` | single statements; the last two wait for the row lock |
| `HoldLapses` | the clock |
| `PaymentMove` | what `payments.go` may do to a booking's status and hold |
| `Abort` | a timeout, lost connection or crash: Postgres rolls back |

The insert and its COMMIT are one action because nobody else can see the row
in between, and nobody can insert a contradicting one while the lock is held.
"failed" after a successful COMMIT is included: the answer may be lost.

**`UnitCalendar`** is what that code promises, with a single variable, the nights
each claim holds. `Reservations!Calendar` maps a committed booking in an occupying
status, or a block, to the nights of its range, everything else to none.

**`PaymentLedger`** has the bookings' money columns and the payments, and each
operation as one step: `Upload`, `Verify`, `Reject`, `Record`, `Cancel`,
`HoldLapses`, `ExpireHolds`. `Settled` is `settle`, `WithReceipt` and
`WithRejection` are the blocks in `uploadPayment` and `adminRejectPayment` that end
in `SetBookingPayment`, which also overwrites `cancel_reason`.

**`Payments`** extends it with what the operations are made of: who holds each
row lock, what each handler has read (`req[h].row`, `.others`), the objects stored
and the sweep's progress.

| action | code |
|---|---|
| `ViewBooking`, `PutReceipt` | `uploadPayment` before its transaction: the view, the checks, `PutPrivate` |
| `LockPayment` | `LockPayment`, then `VerifyPayment` or `RejectPayment` |
| `LockBooking`, `LockToRecord` | `LockBooking`, in a transaction begun or as its first statement |
| `CountOthers` | `CountPendingPaymentsForBooking` |
| `CommitUpload`, `CommitVerify`, `CommitReject`, `CommitRecord` | the last statements and COMMIT |
| `Abort` | as above |
| `SweepStart`, `SweepReach`, `SweepCommit`, `SweepAbort` | `ExpireHolds`: the snapshot of lapsed rows, each row locked and tested again, COMMIT or shutdown |
| `CancelBooking`, `Lapse` | `CancelBooking` waits for the row; the clock |

The committed rows are the ledger's variables under the identity, so
`ImplementsLedger` is `PaymentLedger!Spec` itself: a handler's COMMIT is the
ledger's operation, all its other steps are stutters.

**`StayCalendar`** has the pure part of the web's calendars: `monthGrid`,
`rangeSelect`, `isTaken`, `nextTaken`, `canPick`, the timeline's `selection` and
`place`. A date is a day's number.

**`StayPlanner`** is a unit's page. `range`, `guests`, `quote`, `view`, `days` are
the state of `StayPlanner`, `step`, `busy`, `leaving` that of `GuestFlow`. A server
action is an element of `calls`, which Next.js runs one after another: `Enqueue`
appends, `loadAvailability`, `quoteStay`, `bookStay`, `keepSession` and `refresh`
answer the first. An action whose dialog was closed meanwhile is no longer `live`:
its answer still comes and touches nothing (`Forgotten`). `AnswerLost` is a call
that fails, before or after the API acted. `OthersBook` and `SessionEnds` are the
rest of the world.

**`PaymentPages`** extends `PaymentLedger` with two pages over one booking. `shown`
and `seen` are the rows they were rendered from; `Tick` and `Refresh` are the
countdown's end and `router.refresh`, `submit` and `Upload...` the receipt form,
`run`, `Succeeds`, `Fails`, `AnswerLost` the dialogs of `payment-actions.tsx` and
`cancel-booking.tsx`. `Elsewhere` is any step of the ledger by anybody else. The
countdown knows the time and the row on show only, so `Tick` may also come when the
booking has been settled or cancelled meanwhile. `MCPaymentPages` names the bookings and
payments of an instance; `MCPaymentScenes` lets TLC check the
ledger and the pages in one run of two scenes: the ledger alone with all its bookings
and payments, and the pages of one booking.

**`CalendarDesk`** is the dashboard's calendar. On the timeline, `data` is what
was rendered, `pending` the selection that the modal asks about, `open` the block
whose modal is open. In the form, `asked` are the calls of `takenNights` under way;
leaving a unit replaces its call by `NoUnit`, as the effect's clean-up does, and
its answer is ignored.

**`UnitEditor`** is a record's form in one tab: `hist` and `pos` are the browser's
history, `guard` the registration with the unsaved-changes provider, which parks a
copy of the page's entry, `asking` its modal. `onPopState` is the provider's
listener, `Edit`, `onSubmit`, `Saved`, `Refused` the form's. `localDirty` is the
form's own flag beside the provider's `guard`: a Discard clears the second alone,
and where going back two entries stays on the form (`kept`) the two disagree until
it is saved. Back and `Forward` move by one entry.

**`SlugField`**, **`UnitImages`**, **`ListFilters`**, **`PublicSearch`** and
**`BookingsList`** have one action per control and one per answer, under the names
of the code's functions. In `UnitImages` a task is one server action; saving an
order is a PATCH per image, any of which may fail; one PATCH is one step, because
the row is read and written back under the unit's row lock
(`admin_images.go:135-154`). In `PublicSearch` a page comes from Next's cache, of
the catalogue as it is or was, and a session begins with any address (`Arrivals`):
slugs are taken as they are, numbers if they are positive, and only what `oneOf`
guards is checked (`parseSearchParams`). `Visible` is what the controls then show, a
select reading "any" when its value is no option, and `Listed` are the compounds the
page asks for. In `BookingsList`, `chosen` is the address, `Passed` what the page
takes from it to the API, `DAY` its test of a date, and `Export` the file of the
link above the rows.

**`MCScreens`** lets TLC check the last six modules in one run: the screens share
no state, a behaviour is one of one screen, and the others stay as they began.

In every module a definition named `X_Something` beside `X` is a plausible bug of
`X`, used by nothing; `PROJECT.json` ("mutants") pairs it with the property that
catches it.

## 4. Runs

| run | instance | what it shows |
|---|---|---|
| `ReservationsSafety` | guest, admin's booking, block; 3 nights; turnover 0 or 1, edited meanwhile | no night held twice, the constraint on bookings is never needed, the lock protects the unit, a new stay keeps clear of earlier ones' turnover days, `IInv` is an invariant |
| `ReservationsCalendar` | a guest, two blocks; 2 nights | implements `UnitCalendar`; two blocks, which do not count each other, are kept apart by their constraint; every request is answered |
| `PaymentsSafety` | two bookings, two payments, two handlers, the sweep | reads under locks stay true, receipts are stored first, the transactions implement `PaymentLedger`; unpaid holds end, and no two transactions wait for each other forever |
| `PlannerSafety` | three dates, one a month; two guests; two calls at a time; one booking | the price kept is that of the stay on show, or that price is asked for last; a stay is sent only after it was priced; the dialog is busy exactly while it waits, and not forever |
| `PagesSafety` | two scenes: a guest's and an admin's booking, four payments, amounts below and at the deposit; the pages of one booking, two payments | the rules on money and dates (section 6); what the admin is told happened did happen; a receipt sent comes to show |
| `DeskSafety` | two units, one block, three dates | the picker's stay fits the nights loaded for its unit, a block whose modal closed on "unblocked" is gone, the picker opens |
| `ScreensSafety` | the six screens of `MCScreens` | Back stays on guarded edits, edits stay flagged; verdicts on a slug are about that slug; an order told saved is saved and covers move only when asked; box and list agree at rest; no results means no match, and no choice hides a filter; the file continues the list |
| `ReservationsTurnoverGap`, `LedgerExpiredUnpaid`, `PagesExpiryUnseen`, `BookingsUnfiltered`, `EditorDiscardedForm` | small | section 5: the code differs from what a document says |

**Bounds, and why they are enough.** Every hazard of `Reservations` involves two
rows that clash, plus a third party that changes the unit or releases nights;
three requests cover each pair of kinds with one to spare. Three nights allow
ranges that are equal, nested, adjacent, overlapping in part, and one turnover day
apart; two still allow all of these but a partial overlap. In the ledger the
interesting counts are two rejections and two halves of a deposit; four payments
allow both on one booking, beside a second booking that must stay untouched. In
`Payments` a race is between two transactions or one and the sweep, so two
handlers suffice, each of which serves any number of requests one after another;
two bookings are what a lock cycle and a partial sweep need; the one amount is
half the deposit, so two receipts are needed to confirm. Payment ids are
interchangeable; that symmetry is used in `LedgerExpiredUnpaid` alone, for the other
runs check liveness or a refinement.

On the web a hazard is an answer overtaken by one other event. `StayPlanner` queues
two calls (`MaxCalls`), so that each kind can wait behind each; with months of one
date (`MonthLength`) three dates make the calendar page, and two guests and three
dates give six stays whose prices can be mixed up; the arrow forward stops at the
last month (`LastMonth`), which on the page it never does. `PaymentPages` needs one
booking and two receipts, one rejected and one after it (`OnePage`). `CalendarDesk`
has two units for the load of one to overtake the other's (`MaxAsked` is 2), and a
window of two of its three dates so that it moves. `UnitEditor`'s history holds five
entries (`MaxHistory`): a list, a form, its parked copy, and two pages above; three
are enough for `EditorDiscardedForm`. `UnitImages` has three images ever
(`MaxImages`), so that a swap has a third that must keep its place, and two tasks at
a time; with the last image there, the full-size preview, which only shows one, stays
closed (`FewPreviews`); others write a sort of 0 (`MaxSort`), which makes ties. `ListFilters` lets
the admin act four times (`MaxActs`): type, choose, undo, and once more while the
timer runs. `SlugField` has two lookups under way (`MaxChecks`), the fewest that
overtake one another. `PublicSearch` has three units on pages of one (`PageSize`), a
catalogue that changes once (`MaxChanges`), so that it grows or shrinks beside a
kept answer, and seven addresses a guest comes with: the site's own, and for each
thing that is not checked one that has it wrong (another area's compound, one that
is not listed, an area that is none, a distance that is no option, more guests than
the stepper's most, pages past the first and past the last). `BookingsList` has
three bookings on pages of two (`MaxRows`), two statuses and two days. What the
bounds leave out for reservations and the ledger (more requests, dates, bookings and
amounts) is what the theorems of section 6 are for.

**Deadlock** is not checked: an instance has finitely many requests, payment ids
or acts of an admin, so every behaviour that uses them up stops properly. Waiting on one another
is covered by `EveryRequestAnswered` and `EveryRequestEnds`.

**Fairness.** `Reservations`: a handler that is not blocked goes on (`WF` of its
steps), and Postgres queues those who wait for a row lock, so each gets its turn
even if the lock is taken again and again (`SF` of `LockUnit`). Nothing is assumed
of admins, guests, the clock or aborts. `Payments`: the same for handlers and
`LockBooking`; time passes (`WF` of `Lapse`); the sweep's ticker fires each minute
and its one statement is queued on row locks like any other (`WF` of `SweepStart`
and `SweepCommit`, `SF` of `SweepReach`); and a sweep is cut off only finitely
often, because its context has no deadline and ends only at shutdown, so assuming
otherwise would mean a process restarted forever in the middle of a sweep.
Nothing is assumed of verdicts: a receipt may wait for an admin forever.
`StayPlanner`: a server action is answered or fails (`WF` of `Answer`; a request
times out at the latest) and a navigation arrives (`WF` of `Arrive`). `PaymentPages`:
the countdown ticks, a refresh and an upload are answered. `CalendarDesk`: a load of
taken nights is answered or fails. `ListFilters`: the browser's timers fire and a
navigation lands. Nothing is assumed of guests, admins or the session.

## 5. Where documents and code differ

- **Turnover on one side.** `booking.sql:41` adds `buffer_days` to the check-out of
  existing stays only. A stay booked later that ends on the day an existing one
  begins gets no gap, though `01-design-and-requirements.md:212` promises one "after
  each booking" and the dashboard says "Kept free after each stay"
  (`en.json:222`). `ReservationsTurnoverGap`.
- **A partly paid booking can expire.** `payments.sql:2` speaks of "Unpaid bookings
  past their hold"; a part of the deposit recorded by hand leaves the booking
  `pending_payment` with its hold running. `LedgerExpiredUnpaid`.
- **The end of a hold may not show.** `payment-panel.tsx:57` says that the server
  expires the hold within a minute and that the page shows it without a reload. The
  page asks once, when its own countdown ends; answered before the sweep, it is not
  asked again. `PagesExpiryUnseen`.
- **The list of bookings ignores its dates.** `bookings/page.tsx:20` tests a date
  with `/^d{4}-d{2}-d{2}$/`, which has lost its backslashes and matches no date, so
  the days an admin chooses never reach the API, and neither do the export's. The
  manual (`user-manual-ar.md:193`) describes a filter. `BookingsUnfiltered`.
- **A discarded form that stays is no longer guarded.** Discard empties the
  provider's set of unsaved forms (`unsaved-changes.tsx:81-88`) and goes back two
  entries. Where that stays on the form (it was opened in a tab of its own, or saved
  and edited again), the form still has its own flag set, and `entity-form.tsx:77`
  marks it again only when it is not. What is typed next can be left without a
  question, though the redesign's document (lines 115-116) and `entity-form.tsx:22`
  say that leaving asks. `EditorDiscardedForm`.

Not recorded as a disagreement, as no document speaks of it: signing out leaves a
form with unsaved changes unasked, for it is a form's action and no link
(`sidebar.tsx:79`). And the empty state of the search, "with a reset link"
(`2026-09-28-phase-2e-public-and-summer-design.md:54`), has none on a page past the
last one without a filter: such an address says "No places match" (`en.json:77`)
where places do match, and there is neither pager nor link. That follows from
`search/page.tsx:58-69`; the property on the search says which addresses it leaves
out (`outrun`).

## 6. What is proved

Proved for every value of the constants that satisfies the named assumptions, each
of which is in the module that declares the constants and is evaluated by a run:

| assumption | what it asks, and why it may |
|---|---|
| `RequestsAreDistinct`, `Reservations!CalendarAssumption` | requests of different kinds differ; dates are integers and turnover days naturals |
| `LedgerAssumption` | finitely many payment ids; the deposit and the amounts are positive, as the schema's checks and the handlers' validation require |
| `HandlersAssumption`, `PagesAssumption` | handlers, the sweep, the holder of a free lock and "no payment" are different things |
| `StayCalendar!CalendarAssumption`, `PlannerAssumption`, `DeskAssumption` | months have days; there is a last date to plan for, as the horizon sets one; the desk's dates have no gaps |
| `EditorAssumption`, `ImagesAssumption` | a history holds two entries or more; the bounds are naturals |
| `SlugAssumption` | making a slug of a slug changes nothing |
| `SearchAssumption`, `ListAssumption` | units have compounds, areas and kinds there are, and are finitely many; the compounds on offer are some of them; pages have rows. Nothing is assumed of the addresses guests come with |

Nothing bounds the number of requests, dates, bookings, receipts, handlers, units,
images or lookups. Arguments by the size of a finite set, of which there are two,
take a smallest counterexample (`FS_StrictSubsetOrderingWellFounded`, `WFMin`),
since the provers have no induction over data.

**`ReservationsProofs`.** `NightsHeldOnce` is not inductive: it says nothing of a
request that has counted and not yet inserted. `IInv` adds that exactly the request
between its lock and its commit holds the unit's lock (`LockHeld`), that a request
without an answer has inserted nothing (`NothingInsertedYet`), and that what a
request counted as free still is (`CountStillTrue`). The step that matters is an
insert: any other request that is "clear" would hold the same lock, so there is
none, and the inserting request's own count is still true, so its nights are free.
A smaller lemma gives `CountStillTrue` under every step that only releases nights.
From `IInv` follow

- `TypeCorrect`, `NightsAreHeldOnce`, `ConstraintIsNeverNeeded`,
- the action properties `TurnoverIsKept` and `TheLockProtects`,
- `ReservationsImplementCalendar`: an insert is `Take`, every step that takes a
  row out of the occupying ones is `Release`, all others stutter.

**`PaymentLedgerProofs`.** The properties say nothing of which booking a payment
belongs to, and each of them needs the types of the others' fields, so `LedgerInv`
is their conjunction with the type invariant and with `NamesItsBooking` (a payment
that exists names a booking). The steps that matter: a rejection sends a booking
back to `pending_payment` only after counting no other waiting receipt, which keeps
`WaitingReceiptStopsTheHold`; and `TwoRejectionsCancel` relates a counter to the
cardinality of a set of rows, so each step shows that the set stays or gains one
element. Verifying and recording both settle an amount, and share a lemma. From
`LedgerInv` follow `RowsKeepTheirTypes`, `WaitingReceiptsAreSafe`,
`TheDepositDecides`, `TwoRejectionsDoCancel`, and the action properties
`DatesAreReleasedForAReason` (a sweep expires a booking only with no receipt
waiting, by the invariant) and `ReceiptsAreCheckedOnce`.

`MoneyIsCountedOnce` is about a sum over a set of rows, which the model writes as a
fold. A fold is a function chosen to satisfy its equation on the subsets, so the
lemmas first show that there is one such table of partial sums (`SumExists`) and
only one (`SumsAgree`, by a smallest subset on which two differ), and from that that
any element may be taken out first (`SumWithout`). With it, `Books` (every booking's
`paid_total` is the sum of its verified amounts) is kept: only `Verify` and `Record`
make a payment verified, and each adds one element to the set and its amount to the
column.

**`PaymentsProofs`**, from `LedgerAssumption` and `HandlersAssumption` (handlers,
the sweep and the holder of a free lock are different things), for any number of
handlers. `PaymentsInv` is `LedgerInv`, the types, `ReceiptIsStored`, and for each
handler `HandlerInv`: how far it can have got and with what (`StageOK`), which locks
are its own (`LocksOf`), that the booking it has locked is as it was read
(`RowStillTrue`), that the payment it judges still waits and its count of the others
is still right (`JudgedStillTrue`), and that the payment it enters is not there yet
and its receipt is (`EnteredStillNew`); and `SweptStayLapsed`, that a row the sweep
has locked is one it may still expire. `RowStillTrue` is stronger than
`ReadsStillTrue` in one point the proof needs: the clock may pass a locked booking's
hold, but no other change of the hold happens, so the hold that is written back is
the booking's own. Lemma `Unaffected` shows once what every step owes to the
handlers that do not take it. A COMMIT then writes exactly what the ledger's
operation makes of the row (`WriteReceipt`, `WriteSettled`, `WriteRejection`), so

- `PaymentsImplementLedger`: each step of `Payments` is a step of `PaymentLedger` or
  a stutter, and what is proved of the ledger holds of the transactions,
- `ReadsStayTrue`, `ReceiptsAreStored`, `RequestsKeepTheirTypes`.

The run checks `PFairSpec`, which is `PSpec` with fairness added, so the theorems
about `PSpec` cover it.

**`PaymentPagesProofs`.** Every step of the pages is a step of the ledger or leaves
it alone (`PagesImplementLedger`), so `LedgerInv` holds beside the pages. `PagesInv`
adds that an open dialog is about a receipt that exists (`DialogsHaveReceipts`) and
`ToastIsTrue` itself: a toast speaks of a receipt that is judged or a booking that
is cancelled, and no step of the ledger undoes either while the toast stands
(`ToastsAreTrue`).

**`StayPlannerProofs`.** `PlannerInv` is the types, "busy means that the dialog is
open", and `QueueOK`, which relates the queue of server actions to the page. For a
full range the last quote under way is of the range and guests on show, and with no
quote under way the price kept is (`PricedLast`). While the dialog is busy one
action is live, and a booking among them is of the stay on show with no quote
behind it (`OneLive`); otherwise none is (`NoneLive`). The work is in what happens
to a queue when its first element leaves, one is appended, or the live ones are
disowned. Results: `PlannerTypes`, `PricesCatchUp`, `StaysArePricedFirst`,
`DialogWaitsForOne`.

**`CalendarDeskProofs`.** `DeskInv` has what the API keeps (`ApiOK`), the
timeline of whose two dialogs one is open (`TimelineOK`), the form beside the loads
under way (`FormOK`), and the one request a page waits for, which is its own
(`CallOK`, `BusyWithItsOwn`). That the chosen unit is loaded, or
has a load under way, is not inductive: an older load of the same unit could be
listened to as well. The invariant therefore says that only the load asked for last
is listened to. Attempting the proof also showed two `CASE`s with overlapping arms
(in `StillFits`, and in `UnitEditor`'s `Landing`), of which TLC takes the first and
TLA+ leaves the choice open; both are now `IF`s. Results: `DeskTypes`,
`StaysFitTheUnit`, `UnblockedBlocksAreGone`.

**`ScreensProofs`** has the three small screens. `SlugField`: a verdict is shown of
the last lookup, and the last lookup is of the slug in the field (`SlugInv`), which
uses that making a slug of a slug changes nothing (`ToldIsAboutTheSlug`).
`BookingsList`: the export's link carries the filters the list was made of
(`FilesAreTheList`). `PublicSearch`: whatever address the guest came with, a query
under way is of filters that read back as themselves, of which those no control
shows are as they came (`UnseenCame`), and the page it asks for is the first or was
there when the pager was drawn (`SearchInv`), so an empty page that was not asked
for by that address is one without matches and not one beyond the last, and some
filter is set unless there are no units (`EmptyIsExplained`); this takes that a
ceiling of a quotient is what it should be. A select clears or keeps what it does
not show, never makes it (`Changed`).

**`UnitEditorProofs`**, whatever the history's bound. `EditorInv` adds to the two
properties and the types that the entry of the history at the current position is
the page on show, unless that is the error page (`EntryIsThePage`), that only forms
save, and that a dirty form has its mark in the provider unless it was discarded and
stayed on show (`FormsState`): typing into a form that is dirty already does not mark
it again. It gives `EditorTypesAreKept`, `BackStays` and `UnsavedStaysFlagged`, which
says that the hole of section 5 is the only one in the guard.

The photos, for any number of them. `RowsInv`: no id is given twice and at most one
image is the cover. `PhotosInv` adds that the page lists each image once (`PageOK`)
and what is known of the tasks (`TasksOK`): a move waits for the tasks before it, so
only the oldest task is an order; what is left of it are its last PATCHes
(`OrderOK`); and the images of those that are through have the place they were asked
to have as their sort, unless another admin wrote a sort meanwhile. When the last
is through the sorts of all that are still there increase as asked. That the page
then shows them so is a fact about sorting: an image's place is the number of images
before it, this number is smaller for the earlier of two (`EarlierIsFewer`), and as
it is injective from the images to as many places, each place has its image
(`PlacesAndImages`). Results: `CoversChangeWhenAsked`, `OrdersAreShown`.

**Only model-checked.** Liveness (`EveryRequestAnswered`, `UnpaidHoldEnds`,
`EveryRequestEnds`, `ConfirmIsAnswered`, `SentReceiptShows`, `PickerOpens`,
`BoxAndListAgree`) and whatever else rests on ENABLED, which the prover does not
handle. A proof of a safety property of the form `Spec => ...` covers the run's
specification with fairness.

## 7. What is not modelled, and why

The components with status `not_modelled` in `PROJECT.json` carry their reason:
planned (section 2), pure input and output, or without state. Inside the modelled
parts:

- Prices. A quote enters `Reservations` as a refusal that may always happen;
  `deposit_due` is a constant, since the code never changes it after the insert.
- A guest's and an admin's identity, validation of request bodies, and the texts of
  answers. A request whose validation fails changes nothing.
- The customers row and the booking's reference that `CreateBooking` writes beside
  the row (planned: `Accounts`, `UniqueInsert`).
- The export's cap of 20,000 rows, far above the bounds of `BookingsList`.
- Jumps over several entries of the browser's history, and the entries that a form's
  links to its own sections make: `UnitEditor` moves by one entry.
- In the search: changes of the areas and compounds on offer, the order of results,
  and page numbers beyond what the API's integers hold.
- The statements inside a PATCH of an image, which its unit's row lock serialises; a
  DELETE that comes between them makes it fail, as if it had come before.
- Files: an object is stored or not. Objects left behind by refused uploads are
  harmless and stay in the model's `objects` as they do in the store.
- Statuses that no statement writes (`draft`, `checked_in`, `completed`,
  `refund_pending`, `refunded`): `Reachable` leaves them out, and `TypeOK` shows
  that it may.
