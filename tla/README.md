# Verification of azure-horizon-tour: the backend of a tour shop

The repository is a tour shop: `src/tour-backend` (NestJS, Prisma, PostgreSQL) and
`src/tour-frontend` (Next.js). Its core logic is the life of a booking in the backend: seats of
a departure, uses of a voucher, PayOS payment links, a payment ledger, refunds, and a cron job
that takes back what was held and not paid. Around it are the catalogue that offers the
departures, the drafts that staff prepare for customers, campaigns, reviews, support and
accounts. All of it is shared database state, changed by `async` handlers that read a row,
await, and write. PostgreSQL runs at READ COMMITTED, so what protects the state is the `WHERE`
clause of each write. This project models that state and those handlers in TLA+, model-checks
them with TLC and proves the central invariants with TLAPS.

Paths below are relative to `src/tour-backend/src/` unless they say otherwise.

## 1. Inventory of the system

| component | state it keeps | operations | what is hard | what makes it correct | here |
|---|---|---|---|---|---|
| `booking/booking.service.ts`, `booking-payment.service.ts`: creation and payment | `Booking`, `PaymentTransaction`, `TourDeparture.availableSeats` | create, PayOS return and webhook, in-store and manual confirmation, polling, method switch, payment issue | four parties confirm one payment; receipt written after the commit; PayOS fails after the seats are reserved | one receipt per payment; seats balance; a confirmed booking is paid | modelled |
| `booking/booking-cancellation.service.ts`, `booking-cron.service.ts`: end of a booking | the same rows, refund columns | cancel (unpaid, paid), approve, reject, cancel by admin, confirm refund, expire | writes by id after a stale read; a cron pass over an old list | seats given back once; refunded once; only an admin cancels a confirmed booking | modelled |
| `booking/booking-query.service.ts`: new QR codes | hold, links, pending ledger rows | retryPayment, publicRetryPayment, listings | holds renewed again and again; links of earlier codes stay payable | the hold ends; unpaid bookings are released | retries modelled |
| `booking/assisted-draft.service.ts` | `AssistedBookingDraft` | draft, submit, revise, approve, resend | approval reserves seats, but counts the voucher only at payment | a draft becomes one booking; a booked draft is not changed behind the booking's back | modelled (`AssistedDraft`, `BookingPayment`) |
| `booking/booking-passenger.service.ts` | passengers of a booking | edit passengers, reminder job | the reminder flag is read before the loop | party composition (so seats) never changes | no |
| `booking/booking-transport`, `booking-stats` | vehicles; none | upsert, report | none | none | no |
| `voucher/` | `Voucher.usedCount`, `UserVoucher.isUsed` | validate, claim, release, wallet | the last use; the limit per user is checked before the claim | a discounted booking has its use counted, and returns it; `usedCount` counts bookings; the limit per user | modelled (`Voucher`, `BookingState`) |
| `payment/` | none: wraps the PayOS SDK | create, query, cancel links; check webhooks | late, repeated webhooks; links that outlive their booking | see bookings | as used by bookings |
| `tour-departure/` | departures of a tour | bulkReplace, CRUD | the admin's form overwrites `availableSeats` while bookings decrement it; two replacements overlap, without a unique key on the date | a form that is up to date sells no seat twice; what overlapping replacements can do to a date and to its booked row is bounded | modelled but for vehicles (`Catalogue`) |
| `tour/tour-workflow`, `tour/tour.cron` | `Tour.status` | submit, review, publish, nightly completion | status read, then written by id | a completed tour is reopened by choice only; a dead tour closes | modelled (`Catalogue`) |
| `tour/tour.service`, `tour/tour-query.service`, `tour-package/` | `Tour`, packages | create, update, trash, delete for good; packages | the delete counts bookings first; packages are replaced by two statements | a booked tour is never deleted | modelled but for texts and listings (`Catalogue`) |
| `subscriber/` | `MarketingCampaign` | draft, schedule, claim, send a batch | lock with a time to live, absolute counters, crash between mails and cursor | nobody is skipped; repeats are bounded; a campaign ends | modelled (`Campaign`) |
| `auth/` | OTP, `authTokenVersion` | login, refresh, forgot and reset password | OTP cleared after an await | an OTP is used once; old tokens stop working | sessions and passwords modelled (`Session`) |
| `user/`, `super-admin/` | `role`, `deletedAt`, `authTokenVersion` | change role, lock, unlock, revoke | races with a login in flight | as for `auth/` | the writes that end sessions (`Session`) |
| `review/` | `Review`, `Tour.averageRating` | create, hide, delete, in bulk | the average is read and written apart; one per user is check-then-create | the rating is the average of what is shown | modelled but for the office's answer (`Review`) |
| `support/` | `SupportTicket` | create, assign, reply, close, rate, reopen | a reply writes back the owner it read | a reply does not take a colleague's ticket | modelled but for messages and translation (`Support`) |
| `settings/` | key-value store, 60 s cache | get, set | handlers of one moment see two policies | none relied on here | no |
| `article/`, `contact/`, `admin-notification/`, `activity-log/`, `tour/tour-content` | one table each | CRUD by single-row writes | none | none that spans steps | no |
| `ai/`, `mail/`, `search/`, `statistics/`, `cloudinary/` | none of the shop's | calls to external services, reports | none | none | no |
| `src/tour-frontend` | none | user interface | none | its requests are inputs | no |

**How they interact.** Handlers share the database and nothing else. `create` and
`approveAssistedDraft` reserve seats by a conditional `UPDATE` (`availableSeats >= n`);
`create` also claims a use of the voucher (`usedCount < maxUses`). Then PayOS is called outside
of the transaction, and a ledger row is written by a third statement. PayOS answers through the
webhook, the return URL and the status query, each as often as it likes, for any link the
booking ever had. Staff confirm counter payments and reconcile by hand. Every five minutes the cron
job reads the expired unpaid bookings once and cancels them one by one through
`cancelAndRestoreSeats`, which a failed link and a dead link use too. `cancelAndRestoreSeats`,
`confirmBookingAsPaid`, the cancellation of an unpaid booking and `confirmRefund` test the
status again in their `WHERE` clause; `approveCancellation`, `rejectCancellation`,
`adminCancelBooking`, the request to cancel a paid booking and `reportPaymentIssue` do not.
The PayOS link of a cancelled booking stays payable, because `cancelPaymentLink` is called with
the booking's id, which is no order code.

The catalogue meets the bookings in one column, `TourDeparture.availableSeats`: the schedule form
writes it as the admin saw it, bookings decrement and increment it, and the nightly job archives
the departure. Drafts become bookings by `approveAssistedDraft`, which runs the same reservation.
Vouchers are claimed in the transaction of `create` and returned in the one of
`cancelAndRestoreSeats`. Every authenticated request passes `JwtStrategy.validate`, which compares
the token with the user's row; password and administration handlers change that row. Campaigns
read the subscribers and their own row, and several server processes may run the cron job that
sends them. Reviews write the rating of their tour, which nothing else modelled reads.

**Hazards.** `PROJECT.json` lists every place where an overlap, a crash, a late message, a
retry or a boundary can go wrong, at its line, with the property that would notice.

## 2. Modules

| module | models | in the code |
|---|---|---|
| `BookingState` | the rows, links, ledgers and slots; seat, voucher and ledger operators that one statement or transaction applies; the type invariant and `IInv` | `schema.prisma`, `booking-helpers.ts`, `voucher.service.ts`, `cancelAndRestoreSeats`, `confirmBookingAsPaid` |
| `BookingPayment` | create, PayOS return, confirmations, method switch, retries, assisted approval and resend, payment issue | `booking.service.ts`, `booking-payment.service.ts`, `booking-query.service.ts`, `assisted-draft.service.ts` |
| `BookingCancellation` | cancellation policy, the two customer cancellations, the admin's decisions, refund, expiry | `booking-cancellation.service.ts`, `booking-cron.service.ts` |
| `SeatInventory` | abstract: orders hold, settle and give back seats of a departure | what `reserveSeatsAtomically`, `confirmBookingAsPaid` and `releaseSeats` promise |
| `Booking` | composes the two with PayOS, time and crashes; specification, fairness, properties; the refinement mapping to `SeatInventory` | |
| `MCBooking` | values of the constants for TLC, symmetry | |
| `BookingProofs` | `IInv` is inductive; type correctness | |
| `BookingSeatProofs` | theorems about seats and about who may change a status; `Booking` implements `SeatInventory` | |
| `BookingLedgerProofs` | theorems about payments, receipts, refunds, discounts and holds, and about handlers that do not overlap | |
| `Handlers` | requests in flight in one server process: `call[c]` is what is left to do and what was read | Node's event loop |
| `Counting` | sums over a table as the size of a set: one element (`Units`) for each unit that is counted | |
| `AssistedDraft` | drafts: create, update, delete, submit, revision, rejection, approval with its seats and its booking | `assisted-draft.service.ts` |
| `Voucher` | one voucher, its code, counter, limit per user, wallets; bookings that use it; the office's writes | `voucher.service.ts` |
| `Review` | reviews of a tour, visibility, deletion, the two statements of `_recalcTourRating` | `review.service.ts` |
| `Support` | a ticket, its owner and its status | `support.service.ts` |
| `Session` | an account, its OTP, token version, role and lock; the sessions opened with it | `auth.service.ts`, `jwt.strategy.ts`, `user.service.ts` |
| `BackOffice` | composes those five desks | |
| `Campaign` | a campaign, its subscribers, the workers that send it, locks that expire, crashes | `subscriber.service.ts`, `subscriber-cron.service.ts` |
| `Catalogue` | a tour, its workflow and trash, its departures, bookings that take seats, the nightly job | `tour-workflow.service.ts`, `tour-query.service.ts`, `tour-departure.service.ts`, `tour-package.service.ts`, `tour.cron.ts` |
| `MCBackOffice`, `MCCampaign`, `MCCatalogue` | values of the constants for TLC | |
| `ReviewProofs`, `SessionProofs`, `BackOfficeProofs`, `CampaignProofs`, `CatalogueProofs` | theorems about these | |

**Handlers as slots (bookings).** A slot `s` is one handler in flight, or one pass of the cron job.
`req[s]` is its program counter: the next statement (`op`), the booking (`b`) and the one
value it carries from what it read (`n`: the link it created, or the refund it computed).
The first action of a handler is what it reads and the early returns that follow; each later
action is one statement or one `$transaction`. Statements of different slots interleave freely;
with one slot, handlers run one after another. The guard of a write is its `WHERE` clause and
nothing else, so a decision based on a stale read is in the model exactly where it is in the
code. A transaction is one step: those that move a booking begin with the `UPDATE` that locks
its row. Reads that follow one another, and ledger writes that follow one another, are one step.

**State.** `booking[b]` is the row: `status`, `pay` (`paymentStatus`), `method`, `hold`
(`holdExpiresAt`), `refund` (percent of the price), `refunded` (`refundedAt` is set),
`assisted`, `voucher`, and two seat counts: `seats`, what the creation reserved, and `party`,
what `calcSeatCount(passengers)` gives back. They are the same number in a well-formed request;
`create` takes the first from the request (`dto.seatCount`) and every release recomputes the
second, so the model keeps both. `link[b]` is PayOS's view of the booking's links, in the order
they were made; `txn[b]` its ledger rows, with the gateway, the link they refer to and
their status; `ticket[b]` an open payment ticket.

**Time.** Only the orders that guards test are kept. `hold` is the age a booking has certainly
reached when `holdExpiresAt` passes: `Window` (the retry ceiling of
`max(60, booking_hold_minutes)` minutes after `createdAt`), `WholeDay`, `Open` (counted from a
later moment, as `updatePaymentMethod` and `publicRetryPayment` do) or `Lapsed`. `age` is 0 up
to the ceiling, 1 up to 24 hours, 2 beyond: the boundaries of the retry guard and of the refund
policy. A hold may lapse earlier than its age says (a shorter configured hold), never later.
`Calendar` lists the whole days left until departure; `day` walks along it. Days and ages move
independently, which allows more behaviours than the clock does.

**Abstracted.** Prices, discounts and refund amounts (a refund is its percentage), names,
e-mails, notifications, cache revalidation, hashing, logging. One departure and one voucher, the
ones the bookings compete for: rows of different departures and vouchers never meet in a
statement. Bookings are not deleted. Seats of a booking do not change: passenger edits lock the
party composition (`booking-passenger.service.ts:109-131`). Only retries reuse an order code
(the suffix repeats after 1 000 000 ms, `booking-helpers.ts:511`); the model lets that happen at
any retry. Tickets are closed by reconciliation only; staff closing one in the support module
would merely let a customer file another. The wallet flag and the per-user limit of vouchers
are in `Voucher`, which has customers and no payments.

**BackOffice.** `AssistedDraft`, `Voucher`, `Review`, `Support` and `Session` share `call`, the
handlers in flight, and no table. A behaviour follows one desk, chosen in `Init`: what another
desk does leaves the tables of this one alone, so nothing would be learnt from mixing them, and
TLC explores a sum of state spaces instead of their product. Each module states its own `...Init`,
`...Next` and properties; `BackOffice` lifts them.

- *Drafts.* A draft keeps its `status`, its payment method and its `party`: the seats its form asks
  for, 0 for a form that approval would refuse as incomplete. Every transition but approval checks
  what it read and then writes by id. Approval is stopped by the booking that already refers to the
  draft: `assistedDraftId` is unique. It books the form it read, whatever was saved in between.
  `updateAssistedDraft` works out a payment method and does not write it, so a draft created
  without one never becomes ready. The payment request of an approved draft and the use of its
  voucher at payment belong to `BookingPayment`.
- *Vouchers.* `claimVoucherInTx` looks the code up again and returns silently when it is gone;
  `adminUpdate` (a new code) and `adminDelete` test `usedCount` on a row they read earlier. A
  booking that meets a rename or a removal in that gap is recorded in `cutOff`, and two bookings
  of one customer validated at once in `raced`. `maxUses` may be lowered below `usedCount`. A
  wallet row saved after the claim stays unmarked. Cancellations that do not call
  `releaseVoucherInTx` (section 4) are counted in `forgotten`.
- *Reviews.* `_recalcTourRating` reads the average and writes it as two statements;
  `bulkToggleVisibility` looks for the tours after its write, `bulkDelete` before. `unsettled` is
  set when two recalculations overlap or a handler fails half-way, and cleared by the next one
  that nothing disturbs; `twice` collects the guests whose creations overlapped.
- *Tickets.* A reply writes status and owner from the row it read; replying to a resolved ticket
  reopens it and keeps its rating. `customerReply` only adds a message.
- *Accounts.* A session carries the token version, the role and, as history, the password it was
  opened with and the number of locks before it. `Accepted` is `JwtStrategy.validate`. A login
  reads the user, compares the password, and signs what it read. Access and refresh token of a
  login are one session. `otpTwice` records two resets in flight with one OTP, `firstTwice` a
  `setPassword` that overlapped with another change of the password: it is the one such handler
  that leaves `authTokenVersion` alone.

**Campaign.** A worker is one server process with its timer. It reads the due campaigns, claims
one (`UPDATE ... WHERE` due and the lock is free or expired), reads the campaign and a page of
subscribers above its cursor, sends the mails one by one (each is accepted or fails), and writes
counters and cursor by id. `lock` is `free`, `held` or `expired`; time is only that order. `edit`
is an `updateDraft` between its check and its write. `mails`, `tried` and `owed` are history:
`owed` are the subscribers who belonged to the audience without a break since the campaign was
scheduled. One who leaves and subscribes again gets mail only if a later page finds them. A mail
that was accepted but reported as failed is not modelled.

**Catalogue.** One tour, its departures by id, the days `0..LastDay`, and requests in flight. A
`Row` has two history fields: `sold`, the seats of live bookings, and `offered`, the seats the
office meant to sell. `OpenForm` reads the upcoming departures as the form shows them;
`drifted` records
that a form was saved with seats that had changed since it was opened; no further form is opened
then, since all it can do is spread the damage. `by`, history too, is the handler whose save put
the row on sale. `duty` says which requests each handler serves in a behaviour; it lets one run
look at several pairs of requests, and Init chooses it among `Beginnings`.

`bulkReplace` is a transaction at READ COMMITTED in three steps. `BeginReplace` checks the tour
and reads the rows on sale; of each date in the form it takes one row, the first (`shift`), and
which one is first is left open, because it depends on `sortOrder`. `WriteSchedule` stands for the
loop of updates and creates, and for the final `updateMany`, which looks at the rows committed by
then but spares the ids of the first read. `CommitReplace` makes all of it visible. In between
the rows that were written are `Locked`: a reservation, a release, the nightly job, another
replacement or a deletion that wants them waits. Two replacements that wait for each other are
ended by `Abandon`, as PostgreSQL ends one of two deadlocked transactions and Prisma ends one that
exceeds its timeout. Two replacements that overlap can both create a row for a date that neither
saw, and one can archive a row that the other one created and that has been booked, while its own
row goes on for the date: the comment above `bulkReplace`, that rows of future dates are updated in
place to preserve the ids that bookings may refer to, does not hold then. The two properties
about the schedule say how far that goes. Abstractions: the check of the tour and the read are one
step (nothing in the schedule depends on a tour that goes to the trash in between), the first
`updateMany` of past departures does what the nightly job has done already, and midnight comes
with the nightly pass, so that a transaction that spans midnight is ordered before it.

`ready` says whether texts and packages pass `requirePublishableTour`; replacing packages empties them and fills them by two
statements without a transaction. A booking checks the tour's trash flag, the departure's
flag and date (not the tour's status) and then reserves by the conditional `UPDATE`. A date that
is dropped with bookings and added again becomes a new row; its bookings stay on the archived
one. The tour's own seat counter and the limit on featured tours are left out.

## 3. Runs

Bounds common to the runs of bookings: `Capacity = 2`, `MaxUses = 1`, `MaxFree = 3` (no new
request once more seats are free than the departure had: one step past the first double release).
`MaxTxns` limits the ledger of a booking that still takes requests, `MaxLinks` its links. They
bound how many requests one booking sees, not what a handler does: a handler in flight always
finishes.

| run | instance | checks | shows |
|---|---|---|---|
| `serial` | 1 booking, 1 slot, all 18 requests, crashes, days 7, 3, 2 and -1 | `IInv`, `SeatsConserved`, `ConfirmedIsPaid`, `RefundLedger`, `SeatsTakenOnce` | handlers that do not overlap keep the books, even when one stops between two statements |
| `race` | 1 booking, 2 slots, 11 requests | `NoSeatLost`, `PaidHasReceipt`, `ConfirmedCancelledByAdmin` | what survives any overlap of two handlers, those with unconditional writes included |
| `cas` | 2 bookings, 2 slots, parties of 1 and 2, with and without the voucher | `NoOverselling`, `DiscountsCovered`, `ReceiptOnce`, `CancelledIsFinal`, `SeatsTakenOnce` | the compare-and-set writes are enough for two bookings that compete for the last seats and the last use |
| `live` | 1 booking, 2 slots, PayOS, two days | `PayosHoldCapped`, `HoldsAreReleased`, `PaidLinkSettles` | renewed QR codes do not keep seats for ever, and paid links settle |
| `backoffice` | 2 handlers; 1 draft, 2 seats, parties 0 to 2; 1 customer, 2 codes, limits 1 and 2, at most 2 vouchers and 3 bookings; 2 guests, 2 reviews, 1 failure; 2 staff; 3 passwords, 1 OTP, 1 lock, 1 revocation, 1 remembered session | `TypeOK` and ten properties, below | what overlapping handlers of drafts, vouchers, reviews, tickets and accounts may break, and nothing else does |
| `campaign` | 2 workers, 3 subscribers (one comes and goes), pages of 1, two audiences, 1 takeover, 1 crash | `TypeOK`, `RepeatsAreLost`, `SentReachedEveryone`, `CountsAreTrue`, `CancelledSendsNothing`, `DueCampaignCloses` | a campaign survives crashes and lost locks without skipping anybody, and ends |
| `catalogue` | 2 handlers, as any request and a publication, as schedules with bookings and a deletion with bookings, or both as schedules and bookings; 2 rows of 1 seat, 3 days (the last pair starts on the second) | `TypeOK`, `NeverOversold`, `DateOnSaleOncePerHandler`, `BookedTourIsKept`, `CompletedLeftByStaleWriteOnly`, `OwnRowsStayOnSale`, `DeadTourCloses` | overlapping schedules, bookings, workflow and the nightly job on one tour |

Why these bounds suffice for the questions asked: the guards look at one booking, one
departure and one voucher. A double release or a double receipt needs two handlers on one
booking; competition needs two bookings for a departure that cannot hold both (`cas`). A second
link (`serial`, `MaxLinks = 2`) is what separates the newest link from an older one. The four
days are one of every refund tier and one after departure. For seats and statuses the theorems
of section 5 remove the bounds. The decisions that write by id (`approve`, `reject`, `adminCancel`,
`cancelConfirmed`) break the balance as soon as two handlers overlap (`v_seats`), so `cas`
leaves them out and `race` checks what holds with them.

The properties of the desks:

| property | says |
|---|---|
| `DraftsBookOnce` | a draft becomes at most one booking, however its approvals overlap |
| `BookedDraftChangesByEarlyReaderOnly` | a draft that became a booking is deleted, or changed while it is `CONVERTED`, only by a handler that read it before |
| `UsesAccountedFor` | `usedCount` is the number of bookings that use the voucher, live or cancelled without a release, unless `cutOff` |
| `PerUserLimitKept` | a customer is over the limit only after two bookings that were made at once |
| `UsedMarkIsBacked` | a wallet row marked as used has a booking behind it |
| `RatingIsTheAverage` | once no recalculation is due, the rating is the average of the visible reviews, unless `unsettled` |
| `OneReviewPerGuest` | a guest has a second review only if the two were being written at once |
| `AcceptedSessionsAreCurrent` | an accepted session is younger than the last lock and has the account's role and password |
| `OtpSetsOnePassword` | an OTP sets two passwords only if two resets overlapped |
| `ReplyKeepsTheOwner` | a reply takes a ticket from its owner only if it changed hands after the reply read it |

The history variables `cutOff`, `raced`, `unsettled`, `twice`, `otpTwice`, `firstTwice` and
`drifted` name the overlap that breaks a property: with the exception removed TLC finds the
overlap at once. They are set where the model sees two handlers in the gap and nowhere else, so
the property says that this overlap is the only way. The mutants show that the properties are not
excused by them: each breaks its property without the overlap.

Two handlers suffice at a desk, and two workers for a campaign, because each of these hazards is
one handler between its read and its write and one that writes in between. Pages of one
subscriber make every batch boundary a place for a fault; three subscribers give a first, a
middle and a last page. Three days put a departure in the past, today or the future of the
nightly job; with two rows, two overlapping replacements can already duplicate a date, and a third
one then meets two rows of it. For most of these properties section 5 removes the bounds.

Deadlock checking is off in the runs of bookings: a departed tour whose bookings are settled has
nothing left to do. It is off in `backoffice` too, where a removed voucher or an account out of
passwords has nothing left; `campaign` and `catalogue` never stop.

**Fairness** of the bookings (`FairSpec`, run `live`). Weak fairness of `Step` for each slot:
Node's event loop resumes every handler whose await completes (`Crashes = FALSE` here). Weak
fairness of `CancelExpired` per slot: the loop of a pass visits its list. Strong fairness of
`ScanExpired`: the timer fires every five minutes whatever else runs. Weak fairness of
`HoldLapses` and `GrowsOlder`: clocks advance. Strong fairness of `PayosReturn` per booking: PayOS
repeats a webhook until it is answered. Nothing is assumed of customers, staff or admins: nobody
has to pay, retry or approve. `HoldsAreReleased` is about bookings that are `PENDING` and
`UNPAID`; a reported payment issue makes the booking `PROCESSING`, which ends that obligation and
takes the booking out of the cron job's query. `PaidLinkSettles` covers those whose link was paid;
one that was never paid stays until staff act, by design.

`Campaign`: weak fairness of `FallsDue` and `LockExpires` (clocks advance), of
`ProcessDueCampaigns` (each process has its timer) and of a worker's `Step` (the event loop). A
crash is never fair and is bounded. Nothing is assumed of the office or the subscribers.
`Catalogue`: weak fairness of `HandleExpiredTours` (a pass every night), strong fairness of
`CompleteTours` (its second update does not fail every night, although it may fail any night) and
weak fairness of `EndReplace` for each handler (a transaction commits or fails at the latest when
its timeout is up, so that it does not keep the nightly job waiting for ever).
Nothing is assumed of admins: `DeadTourCloses` ends as well when a departure is added.

**What holds only under a restriction**, and is worth knowing:

- `PaidHasReceipt` needs handlers that run to their end. `handlePayosReturn` confirms in a
  transaction and writes the receipt after it (`booking.service.ts:498-527`). With
  `Crashes = TRUE` TLC finds a confirmed booking without a receipt; no retry repairs it, since
  the repeated webhook finds the booking settled.
- `ConfirmedIsPaid` needs one handler at a time: `reportPaymentIssue` writes `PROCESSING`
  without a condition, so a confirmation that lands between its read and its write leaves the
  booking `CONFIRMED` and `PROCESSING`; and a late `rejectCancellation` turns a booking that was
  cancelled meanwhile into a `CONFIRMED` one whose payment is `FAILED`.
- `CancelledIsFinal` needs the late decisions to be absent: `rejectCancellation` and a request
  to cancel a paid booking write by id over a booking that was cancelled meanwhile. The theorem
  `CancelledOnlyRevivedByLateDecision` says they are the only ones.
- `DiscountsCovered` is about bookings customers create. An assisted booking claims its use at
  payment, if one is left, but `cancelAndRestoreSeats` returns one whenever a voucher code is set.
- The seat properties need `WellFormedParties`: `create` falls back to `numberOfPeople`, infants
  included, when a client omits `seatCount` (`booking.service.ts:226-229`,
  `dto/create-booking.dto.ts:27-31`), and a release gives back `calcSeatCount(passengers)`.
- `create` locks the voucher row and then the departure row (`booking.service.ts:311`, `:333`),
  `cancelAndRestoreSeats` the departure and then the voucher: PostgreSQL may abort one of them.
  The aborted transaction leaves nothing behind; in the model it is `Abort` or `SkipExpired`.
- `SeatsTakenOnce` needs the four decisions that write by id to be absent when handlers overlap
  (`v_seats` is the counterexample); in `serial` it holds with them.
- `RepeatsAreLost` bounds repeated mails while no lock expires under its batch. With a takeover
  TLC finds a subscriber who is mailed three times: both workers send the same page and both write
  absolute counters, although a comment says that one worker handles a campaign at a time
  (`subscriber/subscriber.service.ts:390`). `SentReachedEveryone` holds all the same.
- `CompletedLeftByStaleWriteOnly` allows a workflow handler that read the tour before the nightly
  job to publish it again, against the comment that `COMPLETED` is final
  (`tour/tour.cron.ts:22`). An admin's edit may do so at any time.
- `DateOnSaleOncePerHandler` and `OwnRowsStayOnSale` speak of the rows that one handler put on
  sale. Without `by` both are false: TLC finds a date with two rows on sale, and a booked row that
  goes off sale while its date stays, in the third beginning of run `catalogue`, where two
  replacements overlap (`tour-departure.service.ts:175`, `:218`, `:225`).
- `NeverOversold` ends with the first form saved out of date (`drifted`): `bulkReplace` then writes
  seats over a counter that bookings have decremented (`tour-departure.service.ts:199`).
- The overlaps that `PerUserLimitKept`, `OneReviewPerGuest`, `OtpSetsOnePassword`,
  `RatingIsTheAverage` and `AcceptedSessionsAreCurrent` exempt do break what they say; each claims
  that nothing else does.
- `ReplyKeepsTheOwner` allows a reply that read an earlier owner to overwrite an assignment; the
  comment in `replyTicket` promises to assign only a ticket nobody has.

## 4. Where the code and its comments disagree

Each is a run that must end in a violation; `PROJECT.json` quotes the comment.

| run | property | what happens |
|---|---|---|
| `v_voucher` | `VoucherUsesReturned` | a customer's cancellation of an unpaid booking, an approval and an admin's cancellation do not call `releaseVoucherInTx`; the claimed use is gone |
| `v_seats` | `SeatsConserved` | `adminCancelBooking` reads, then cancels by id and releases. A booking waits for its payment link; the admin's handler reads it; PayOS refuses the link and the rollback in `create` (`cancelAndRestoreSeats`) returns the seats; the admin's write returns them again. The cron job and the report of a dead link call the same function |
| `v_refund` | `RefundOnce` | the second of two overlapping approvals resets `refundedAt` after `confirmRefund`, which can then record a second refund |
| `v_request` | `CancelRequestWaitsForAdmin` | a webhook for a booking in `CANCEL_REQUESTED` confirms it again, or cancels it when the link it names is dead |
| `v_hold` | `PayosHoldCapped` | switching the method to the counter and back starts a hold without the ceiling that `retryPayment` applies |

## 5. Proofs

The theorems about bookings hold for any finite set of bookings, any set of slots (so any number
of handlers in flight and any number of cron passes), any capacity, parties, calendar and bounds
that satisfy the named assumptions of `BookingState`, with or without crashes.

**`BookingProofs`.** `TypeOK` alone is not inductive: a write uses the booking and the refund
that its handler stored in `req[s]` an await earlier. `SlotOK` says what those values are, and
`IInv == TypeOK /\ SlotOK` is inductive. The proof splits it into `BookingOK` (rows), `SlotsOK`,
`LedgerOK`, `CountersOK`, `LinksOK` and `RestOK`, proves lemmas about the operators on ledgers
and counters, then goes through every action of `Next`, each arguing about the parts it
disturbs. `InvariantHolds` is `Spec => []IInv`; `TypeCorrect` follows (no negative
`availableSeats`, `usedCount` within `0..maxUses`).

**`BookingSeatProofs`.** Every step is classified, once, by its *effect* on statuses and seats:
`Keeps`, `Books`, `Settles`, `Frees`, `AdminCancels`, `AdminRejects`, `Asks` (`StepEffect`,
`RequestEffect`, `EnvironmentKeeps`, together `NextEffect`). The theorems follow from the
effects:

- `ConfirmedOnlyCancelledByAdmin`: a step that cancels a confirmed booking finishes an admin's
  approval or cancellation. No assumption on requests or crashes.
- `CancelledOnlyRevivedByLateDecision`, and `CancelledStaysCancelled` where those two kinds of
  request never arrive (`Calm`: a slot that is in such a statement was once asked to be).
- `SeatsNeverLost` (with `WellFormedParties`): `SeatInv` keeps both seat counts of a row equal
  and within `MaxParty`; `HeldChanges` computes how the cardinality of the held seats changes
  with one status; each effect then keeps or raises free plus held seats. An unconditional write
  can only add seats, never lose one.
- `SeatsBalance` and `NeverOversold`: with the four deciding requests absent the sum is constant.
  Run `v_seats` shows that the restriction is needed.
- `BookingImplementsInventory`: with well-formed parties and without the four deciding requests,
  `Spec => SeatsTakenOnce`, where `SeatsTakenOnce` is the specification of `SeatInventory` under the
  mapping `phase[b]` from the status and `party[b]` from the reserved seats. Each effect of
  `NextEffect` is one abstract step or a stutter (`EffectMaps`).

What the last two need of a step is `Timely`: a decision written in it is still due for the status
the row has. It follows from `Calm`, or from handlers that do not overlap (below).

**`BookingLedgerProofs`.** A second classification, by the effect on money: statuses, payment
statuses, refunds, the counter of the voucher, what the ledger proves (receipts and refunds,
whatever rows they are), and which slots are about to write about money (`MoneyOps`). `MoneyEffect`
lists the cases: a request `Decided` on what it read, a decision `Written`, a payment recorded
(`PaidOnline`, `PaidAtDesk`) and its `ReceiptAdded`, a booking `Inserted` or `Released`, a refund
made or refused, a handler `Stopped`, and `Idled`. `NextMoney` proves that every step is one of
them, with lemmas that say what each way of rewriting a ledger adds to it. From it follow, each for
any number of bookings and slots:

| theorem | property | holds for | why the hypothesis |
|---|---|---|---|
| `ConfirmedHasReceipt` | `PaidHasReceipt` | all requests, any overlap | `Crashes = FALSE`: the receipt is written after the transaction that confirms |
| `ReceiptWrittenOnce` | `ReceiptOnce` | any overlap, with crashes | `cancelConfirmed` absent: a request for cancellation reopens a booking to `confirmBookingAsPaid`, which then writes a second receipt |
| `ConfirmedPaidOneAtATime` | `ConfirmedIsPaid` | all requests, with crashes | one handler at a time |
| `ConfirmedPaidWithoutTrustingRequests` | `ConfirmedIsPaid` | any overlap, with crashes | `reportIssue`, `reject`, `cancelConfirmed` absent: their writes trust a status read before |
| `RefundsProvedOneAtATime` | `RefundLedger` | all requests, with crashes | one handler at a time; `v_refund` is the overlap that breaks it |
| `RefundedOnce` | `RefundOnce` | any overlap, with crashes | `approve` absent: nothing else resets `refundedAt` |
| `DiscountsAlwaysCovered` | `DiscountsCovered` | any overlap, with crashes | late decisions absent, and no assisted booking with a voucher: its expiry returns a use it never claimed |
| `PayosHoldsCapped` | `PayosHoldCapped` | any overlap, with crashes | no request that counts a hold from a later moment (`switchMethod`, or a public retry of a counter booking, which makes it a PayOS one): `v_hold` |
| `SeatsBalanceOneAtATime`, `NeverOversoldOneAtATime`, `InventoryOneAtATime` | `SeatsConserved`, `NoOverselling`, `SeatsTakenOnce` | all requests, with crashes | well-formed parties, one handler at a time |

The hypotheses are about which requests arrive (`Requests`) and how many slots there are, never
about reachable states, and for each of them section 3 or 4 names the behaviour that breaks the
property without it. `OneAtATime` (any two slots are equal) is the world run `serial` checks, where
every request and every crash is allowed: the theorems say that overlap alone is to blame for what
`v_seats` and `v_refund` show. Their argument is `Fresh`: while a decision waits to be written,
the row is still what the decision was based on, since whatever could change it would need a second
slot (`NothingMeanwhile`). `ReceiptInv` adds to `PaidHasReceipt` that a decision about a paid
booking is only taken when there is a receipt; `OnceInv` that a slot about to write a receipt works
on a confirmed booking without one, and that no other slot does; `RefundInv` that only a cancelled
booking is refunded; `TermsOK` that the hold of a PayOS booking never exceeds the ceiling and has lapsed once its age does.

**`CampaignProofs`.** For any finite set of workers, any number of subscribers, any batch size and
any bound on takeovers and crashes: `CampaignInv == Types /\ QuietInv /\ ReachInv /\ RepeatInv`.
`QuietInv` says that a campaign that no worker has claimed has sent nothing and has no batch in
flight. `ReachInv` contains `SentReachedEveryone` and what makes it inductive: whoever is owed and
lies behind the cursor was tried, and whoever lies behind a batch's new cursor was tried or is
still on its page; that a second worker writes an older cursor only repeats work. `RepeatInv`
says, while no lock was taken over, that one batch is in flight at most, that it never lies behind
the campaign's cursor, and that those ahead of both had at most one mail for each crash.
`CancelledStaysSilent` follows from `QuietInv`. `CountInv` gives `CountsAreTrue`: an unclaimed
campaign has tried nobody, whoever was mailed was tried, and while no lock was lost the counters
of the batch in flight, or those of the row when none is, are the sizes of the sets of subscribers
mailed and tried, all of them at or before the cursor. `CampaignTypes` adds that a page never exceeds the batch size.

**`CatalogueProofs`.** For any finite set of requests in flight, any days and any number of rows:
`CatalogueInv == TypeOK /\ GoneInv /\ WorkflowInv /\ FormsInv /\ SeatsInv /\ OnceInv /\ PlansInv`.
`SeatsInv` is `seats + sold = offered` for every row while nothing drifted; `FormsInv` that a form
has one entry per day, opened, read for or written; `WorkflowInv` that no workflow handler in flight
read a completed tour; `GoneInv` that a deleted tour took its departures along and was never booked.
`OnceInv` says that a handler has at most one active row of a date, whatever day it is. It survives
a commit because of `PlansInv`, which says what a transaction knows although others commit
meanwhile: it keeps at most one row of a date (`KeptInv`); once it has written, every active row of
its own handler is kept or about to go off sale (`CommitInv`), since only the handler itself puts
rows of its own on sale; and for each date of the form it keeps its handler's row or another
handler's (`OwnInv`). `DateOnSaleOncePerHandler` follows from `OnceInv`, `OwnRowsStayOnSale` from
`OwnInv`. Nothing is assumed about overlaps, about who serves what or about the tours created
(`Beginnings`). The facts about the new rows of a replacement follow from the library's definition
of `SetToSeq`, without induction.

**`ReviewProofs`, `SessionProofs`, `BackOfficeProofs`.** `ReviewInv` says that an average about
to be stored without disturbance is the only one, and is true unless another is still to be read
(`AloneInv`, `FreshInv`); it never looks into what an average is. `OneReviewInv` relates a pending
creation to the reviews its guest has. `SessionInv` says that no session, and no login about to be
signed, has a higher token version than the account, and that those with its version agree with its
role, locks and password; its OTP part says that a spent OTP is neither in the row nor in the hands
of a handler. `BackOfficeProofs` proves the invariants of
drafts (`DraftInv`), tickets (`SupportInv`) and vouchers (`VoucherInv`), and lifts those of the
desks to the composition:
`DeskInv` says that the tables of the desks that are not followed stay as they began, and each
property of a desk then holds of `BackOffice`. The only
assumptions are the named ones on the constants.

- *Vouchers.* `VoucherInv` says that a rename or a removal in flight read an unused voucher
  (`EarlyChecks`), and, until one of them cuts a booking off (`Together`): the counter is the number
  of bookings that use the voucher, they all carry its present code, a removed voucher has none, a
  mark in a wallet has one behind it, and a customer who never had two bookings validated at once
  is within the limit, and below it while a claim of that customer is in flight.
  `UsesAccountedFor`, `PerUserLimitKept` and `UsedMarkIsBacked` follow.
- *Types.* `BackOfficeTypes` needs two arguments that are no matter of types. The free seats of a
  departure stay within its capacity because free seats, seats sold by others and the seats of the
  live bookings of drafts add up to it (`SeatInv`); the stored average stays within 0 to 5 stars
  because a sum of `n` stars is at most `5 * n` (`AverageBound`, `RatingBound`).

**Sums and least elements without induction.** Where a promise adds over bookings or reviews, the
sum is the number of elements of a set with one element for each unit (`Counting`), as `Held` is
for the seats: one more use is one more element, and finite sets need no recursion. Where an
argument needs the last row of a ledger, `MaxIsMember` takes it from a least element, which
`WFMin` gives for a set of naturals.

**Only model-checked.** The liveness properties: `HoldsAreReleased`, `PaidLinkSettles`,
`DueCampaignCloses` and `DeadTourCloses`, which need fairness. Every invariant, action property and
refinement that a passing run checks is also stated by a theorem; where the theorem has a
hypothesis, the instance of the run satisfies it.

## 6. Plan

Done: bookings with their seats, payments, cancellations and expiry; the abstract seat inventory
and its refinement; drafts, vouchers, reviews, tickets and accounts; campaigns; the catalogue, with
overlapping replacements of the schedule.

Left, in order:

1. `RowLocks`: the order in which transactions lock booking, departure and voucher rows.
2. Pure modules for prices and the cancellation policy against reference definitions.
3. The loop of `bulkReplace` statement by statement, so that its own lock order joins `RowLocks`.

**Not modelled**, because no state is kept there that several steps or actors must agree on:
content management (articles, tour texts, contacts, settings), reporting and statistics, activity
logs and notifications, mail, search, image and AI services, vehicles of a departure, passenger
edits that cannot change the party, seed data, and the
frontend, whose requests are the inputs of the models. They are most of the lines of the
repository, which is why the models stand for a small share of them.

## 7. Running

    tlc -workers 2 -config serial.cfg MCBooking.tla
    tlc -workers 2 -config campaign.cfg MCCampaign.tla
    tlc -workers 2 -config catalogue.cfg MCCatalogue.tla
    tlc -workers 2 -config backoffice.cfg MCBackOffice.tla
    tlapm BookingProofs.tla

Each `.cfg` is one run, of `MCBooking` unless it is named after another module. The definitions
whose comment begins with "Mutant" are plausible bugs, each next to the definition it replaces;
with one in place the property that guards against it must fail. They are not part of the
specification.
