# Formal models of Nitume

Nitume is an errand marketplace: a customer posts a task, pays Nitume through M-Pesa (STK push), an
admin offers the task to runners one at a time, a runner does it, the customer confirms or disputes,
and the money goes to the runner or back to the customer. The core logic is the NestJS API in
`src/apps/api` (TypeORM on Postgres, BullMQ jobs and Redis); the Flutter apps, the admin console, the
website and the Dart packages are clients of it.

This directory holds TLA+ models of the API's protocols, the TLC configurations that check them on
small instances, and proofs (TLAPS) that the most important properties hold for every instance.

* [The system](#the-system): inventory of components
* [Modules](#modules): what models what
* [Runs](#runs): what TLC checks, the bounds, the fairness
* [Proofs](#proofs): what holds for every instance
* [Disagreements](#disagreements-between-the-code-and-what-it-says)
* [Left out](#what-is-left-out) and [the plan](#plan)

## The system

What each part keeps, does, and what makes it hard. Paths are under `src/apps/api/src` unless noted.

| Part | State | Operations | Interacts through |
|---|---|---|---|
| Errand state machine (`errands/errand-state-machine.ts`) | a constant table | `assertTransition(from, to, actor, guard)` | called by every status write |
| Errand dispatch (`errands/errands.service.ts`) | `errands`, `errand_assignments`, `errand_status_history` | accept quote, pay, `assign`, accept, decline, `updateErrand`, cancel, admin expiry, `expirePastDeadline`, `expireLapsedOffers`, `withdrawOpenOffersOf` | row lock of the errand; transition hooks of other services inside the transaction; `errand.*` events after the commit |
| Runner availability (`runners/runners.service.ts`) | `runner_profiles.availability`, levels | `setAvailability`, `setOfflineBySystem`, `startJob`, `endJob`, `syncIdVerifiedLevel` | row lock of the profile; `runner.level_dropped` event |
| Identity documents (`runners/runners.service.ts`, `scheduler/id-document-retention.service.ts`) | `runner_verifications`, the images in an object store | upload, review, re-review, nightly purge | row locks of profile and document; disputes hold the purge |
| Scheduled jobs (`scheduler/*`) | BullMQ schedulers | offer expiry, dispute window and settlement, STK reconcile, presence sweep, retention purges | read a list, then act on each row in a transaction of its own |
| Disputes (`disputes/disputes.service.ts`) | `disputes`, one row per errand | open, resolve | transition hooks |
| Payments and quotes (`payments/payments.service.ts`) | `payments`, `transactions` (legs), `quotes` | `initiate`, callback, `verifyPayment`, `retryDifference`, `settleErrand` | the M-Pesa provider, which loses, repeats and delays; `errand` row lock |
| Refund reviews, task exposure (`payments/refunds.service.ts`, `task-exposure.ts`) | `refund_reviews`, corrections | `openWithin`, decide, pay, correct | hooks of CANCELLED and EXPIRED; advisory lock per task |
| Runner payouts and requests (`payments/runner-payouts.service.ts`, `runner-payout-requests.service.ts`) | lines, claims, corrections, requests | record, claim, review, hold, pay, correct; create, pay, reject, cancel | hook of CONFIRMED; exposure lock |
| Price changes (`matching/price-change.service.ts`) | `price_change_requests` | request, approve, reject | payments (increase) and refunds (decrease) |
| Idempotency (`common/interceptors/idempotency.interceptor.ts`) | Redis keys with a lifetime | reserve, store, release | in front of money routes |
| Sign-in and accounts (`auth/*`, `users/*`) | codes, refresh sessions, status, cut-offs, caches | request and verify code, rotate, revoke, suspend | Redis beside Postgres |
| Location, presence, realtime, notifications | Redis presence, sampled trail, sockets, feed | pings, geofence arrival, fan-out, pushes | queues and in-process events |
| Runner app device code (`src/packages/nitume_core`) | queue of offline actions, uploads | enqueue, replay, clear, load | the API, over an unreliable network |
| Evidence, ratings, customers, configuration | records, files | create, read, edit | little or nothing |

Nothing in the API is one thread of control. A request spans several database transactions and
network calls; between two of them any other request, job, callback, event or restart can run. The
code defends itself with row locks and re-checks under the lock, unique indexes, CHECK constraints,
and jobs that repeat. Whether these defences are enough is what the models ask. What is correct means,
part by part:

* dispatch: one open offer per task; an offer closes with its task; no runner is offered a task twice;
  lapsed offers and overdue tasks end;
* availability: busy exactly while on one job; online only when verified;
* completion: a paid task ends in earnings or in a refund, never both, not before the dispute window,
  and it does end; location samples outlive neither their task's retention nor a dispute's hold;
* payments: one live or paid charge per task, of the newest quote, whose record is what the provider
  says; what was paid is confirmed, recorded, or under refund review;
* refunds and payouts: what is sent on a task never exceeds what was paid, the item's money is spent
  once, every derived view says the same as the rows, a decision is final, a receipt stands for one payout;
* payout requests: a paid request is worth its lines and no more than was asked for; a key makes one;
* price changes: the customer is charged the price agreed last; a decision has its whole outcome or none;
* sign-in and accounts: a code is spent once and never after its successor; a suspension ends the tokens
  signed before it, also after the account is active again; requests see the account's own status;
* offline queue and idempotent calls: no action is lost or revived, and a replay takes effect once;
* identity documents: the level follows the newest records; only due images are deleted, and all are.

`PROJECT.json` lists the hazards behind these, each at its line, with the properties aimed at it.

## Modules

```
ErrandStateMachine            the transition table (no state)
  |-- ErrandDispatch          refines JobAllocation       <- MCErrandDispatch, ErrandDispatchProofs
  |-- ErrandCompletion                                    <- MCErrandCompletion, ErrandCompletionProofs
  |-- Payments                                            <- MCPayments, PaymentsProofs
  `-- PriceChanges                                        <- MCPriceChanges, TaskMoneyProofs
AgreedPrice                   the rows PriceChanges changes, and what they must agree on
JobAllocation                 what dispatch promises

PayoutCorrections             a payout and the rows that correct it (no state)
  `-- TaskExposure            the money of one task, its cap
        `-- RefundLedger      the customer's side
              `-- RunnerPayouts   the runner's side
                    `-- TaskMoney both together           <- MCTaskMoney, TaskMoneyProofs
PayoutRequests                                            <- MCPayoutRequests, PayoutRequestsProofs

OtpCodes                                                  <- MCOtpCodes, OtpCodesProofs
AccountAccess                                             <- MCAccountAccess, AccountAccessProofs
VerificationDocuments                                     <- MCVerificationDocuments, VerificationDocumentsProofs

OfflineQueue                  the phone
  `-- IdempotentCalls         the API it replays to
        `-- OfflineRequests   both together               <- MCOfflineRequests, PayoutRequestsProofs
```

The components of a task meet at the errand's status, and each carries the part of it that it acts on.
Dispatch takes a task from ACCEPTED to the end of the job, completion from IN_PROGRESS to the terminal
statuses, payments follows the charge of one task along all of it, price changes its item price, and the
ledger (TaskMoney) what becomes of the money after. What one of them takes from another
is in its initial state or is an action without further detail (`ConfirmPayment` in dispatch,
`UnpaidErrands` in completion, `Work` in price changes, `Approve` in payout requests).

**Grain of atomicity.** A transaction that holds the errand's (or profile's) row lock from its first
read to its commit is one action, with every hook that runs in it. Anything that reads before it locks,
reads rows it does not lock, or continues after a commit is split there. A restart (`Crash`) drops
whatever is in memory: open transactions roll back, requests, events and job progress are lost, rows
stay. Each is bounded, by `MaxCrashes`, `MaxLapses` or `MaxFaults`.

### ErrandStateMachine
`ErrandTransitions` is the table of `errand-state-machine.ts` with the actors of each move and the
moves that need a guard (`admin_expiry`, `price_change_rejection`); `Legal(from, to, actor, guard)` is
`assertTransition`. Every status write of the other modules goes through it.

### ErrandDispatch and JobAllocation
| Variable | Code |
|---|---|
| `status`, `deadline` | `errands.status`, `errands.deadlineAt` (0: null) |
| `offer[e][r]`, `expires[e][r]` | the `errand_assignments` row of that runner on that errand; there is one at most, because `assign` refuses a runner who has one |
| `avail`, `verified` | `runner_profiles.availability`; all required checks approved |
| `assigning` | an `assign` transaction between its guards and its commit: it holds the errand's row, but has only read the runner |
| `edits` | an `updateErrand` between its unlocked read and its UPDATE |
| `sweep` | the offer-expiry job: its list, the `now` of the list, its phase |
| `levelDropped`, `withdrawing` | the event of a level drop; the list `withdrawOpenOffersOf` read |
| `idleCheck` | a presence sweep that holds the profile row and found no open offer |

Actions are named after the methods (`BeginAssign`/`CommitAssign`/`RefuseAssign`: `assign`; `Accept`:
`acceptOffer`; `ReadPastDeadline`, `ExpirePastDeadline`, `ReadLapsed`, `ExpireLapsed`: the job;
`DropLevel`: `syncIdVerifiedLevel`; and so on). `LeaveJob` is every way off the job with the hook that
frees the runner. `AdminMarkAssigned` is the generic `PATCH /errands/:id/status`.

`JobAllocation` is the promise without any of it: an open job is given to one worker, who takes it or
not, works on one job at a time and is never asked again. `Allocation` in ErrandDispatch is the
refinement mapping, `ImplementsAllocation` the property.

### ErrandCompletion
`completions` and `endedAt` are what the code reads from `errand_status_history`; `confirmed` is the
order in which `idsInStatus` finds the CONFIRMED errands; `owed` and `refundDue` are the runner's fee
line and the cancellation's refund review, written by the hooks of `performTransition` in the same
transaction (hence inside `Move`); `windowJob` and `purgeJob` are the two jobs between their list and
their last write. `paid` are the tasks with a completed payment; an admin may also have moved one of
`UnpaidErrands` to PAYMENT_CONFIRMED by hand, and `Settle` refuses it for ever. Disputes can be opened and resolved through their own endpoints (`OpenDispute`,
`ResolveDispute`), or, for `PatchedErrands`, through the generic status endpoint, which writes no
dispute row (`PatchDisputed`, `PatchResolved`).

### Payments
| Variable | Code |
|---|---|
| `quote` | the newest `quotes` row: number, not expired, accepted |
| `rows` | `payments` with their legs, oldest first: what for, status, the quote, the Idempotency-Key, whether the checkout ids are stored |
| `push[i]` | the provider's side of row i: nothing, open on the customer's phone, paid, declined |
| `request[s]` | an `initiate`, `approve` or `retryDifference` between its checks, its insert, its push and the stored ids |
| `results` | a result read by `verifyPayment`, with what it read of the errand, until it is recorded and the errand confirmed |
| `review` | the payments the cancellation's refund review counts |
| `ended` | the `errand.status_changed` event of the end, not handled yet |
| `aged` | rows up to this one are past the reconcile job's `maxAgeHours` |

Of the errand's status it keeps what payments look at: PAYMENT_CONFIRMED stands for every status of a
paid task under way, EXPIRED for every refundable end of one. A callback only queues a verification, so
`ReadResult` may happen at any time for any reason; nothing is assumed of callbacks. A push whose ids
were never stored cannot be asked about, so its row stays pending (`LosePush`). The module follows one
errand. What errands share is the list of `resolveTimedOut`: the 50 oldest pending rows (`Taken`), which
includes those it then skips because they are older than 24 hours (`Age`) or can never be resolved.
`ReconcileLimit` is what the rows of other errands leave of that list, a constant, as those rows are not
in the model.

### PayoutCorrections, TaskExposure, RefundLedger, RunnerPayouts, TaskMoney
One task's money in small amounts. `paid` are the payments recorded as completed, `result[p]` a payment's
result between `applyResult`'s look at the task, its sum of the legs and its commit, `refresh` the second
look after an end. `review` are the `refund_reviews` (one for the end, one per price decrease), `line` the
two `runner_payout_lines` (the fee, the item's reimbursement), each with its corrections in order;
`overrides` what an admin lifted with a note.

`PayoutCorrections` is the fold `effectivePayoutOf` with the rules for the next row. `TaskExposure` computes
what is committed and what the cap leaves (`task-exposure.ts`). `RefundLedger` has the reviews:
`OpenWithin` (the upsert), `Decide`, `MarkRefunded`, `CorrectRefund`. `RunnerPayouts` has the lines:
`RecordConfirmed` (hook of CONFIRMED), `Claim`, `Approve`, `Reject`, `Hold`, `MarkLinesPaid`, `CorrectLine`,
and the views derived from them, each computed as its own code computes it (`AvailableAmount`, `FeedSum`,
`LineDue`, `DecreasesQuery`). Decisions take the task's advisory lock until they commit, so each is one
action; `openWithin` takes none, so the sum and the write are two (`SumLegs`/`RecordLateResult`,
`SumAgain`/`Refresh`).

### PayoutRequests
One runner. `line[l]` has its status, amount and request; `requests` the rows; `stored[k]` what Redis holds
for an Idempotency-Key (a failing read of it lets the call go on without one); `call[c]` a `create` between reserving its key, inserting under the runner's lock,
and storing the id; `paying` a `pay` that read its lines without locking them. `Lapse` is a key that Redis
lost, `Restart` an API that stops. The ledger goes on beside it (`Approve`, `Hold`, `MarkPaid`).

### AgreedPrice, PriceChanges
AgreedPrice has the rows of one task's price and what they must agree on, PriceChanges the calls that change
them. `budget` is the agreed item price, `charge` the primary payment, `requests` the `price_change_requests`,
`difference` and `decrease` what approvals charged or put under review. Every call reads (`ReadPrice`,
`ReadErrand`, `FindNoneOpen`, `FindPending`) before it writes under locks (`InsertCharge`, `InsertRequest`,
`Approve`, `Reject`, `RejectAndCancel`). `overlap` remembers that a request or a charge was written from a
price that another write had already replaced: there the code promises nothing (see below).

### OtpCodes
The codes of one phone number or address. No statement of `otp.service.ts` shares a transaction with
another, so `issue` is five steps (`BeginIssue`, `CheckWindow`, `Invalidate`, `InsertCode`,
`Deliver`/`DeliveryFails`) and `consumeCode` three (`ReadNewest`, `Attempt`, `Consume`). `accepted[i]` and
`replaces` are history: how many codes there were when an accepted verification began, and how many when the
issue of a code invalidated the earlier ones.

### AccountAccess
One account: `status` and `history` in Postgres, one transaction; `cache`, `cutoff` and `live` (refresh
sessions) in Redis, each written by a command of its own after the commit (`writeCache`, `DropCache`,
`markTokenCutoff`, `revokeAllForUser`), lost with an `Outage` or a `Crash`, recorded in `lost`. A device signs in
(`SignIn`) or refreshes (`verifyRefresh`, `CheckStatus`, `CheckCutOff`, `RotateVerify`, `RotateDelete`,
`issueTokenPair`), a reader fills the cache (`MissCache`, `LoadStatus`, `FillCache`), keys lapse.

### OfflineQueue, IdempotentCalls, OfflineRequests
`OfflineQueue` is `offline_action_queue.dart`: `pending` in memory, `disk` what the store holds, `writes` on
their way to it in order, a `load` between its awaits, a `replay` between sending and settling, the
`generation` a log-out raises, the `files` of photos. `fate` follows each action. A `Kill` drops the memory.
`IdempotentCalls` is `idempotency.interceptor.ts` around a handler that checks the errand's status: a
`request` at each of its Redis commands, the `key` of each action, `exposed` the actions whose key Redis
lost. `OfflineRequests` sends the one's actions to the other over a connection that loses requests and
answers (`Act`, `Replay`, `Receive`, `Timeout`).

### VerificationDocuments
`rows` are the `runner_verifications` of ID images and selfies, `active` their last upload, decision or
re-review; `images` what is in the object store, which no transaction covers; `level` 1 or 2. `Upload` and
`Review` hold the runner's profile row and end with `syncIdVerifiedLevel`. The purge (`run`) reads a page
(`ReadPage`), leaves out the runners with disputes (`ReadHolds`), and for each document locks the row and
looks again (`LockRow`), deletes the image (`Destroy`) and records it (`Commit`); the store or the database
may fail, the API stop. `opened` and `torn` are history: disputes opened while a row was held, and rows whose
image was deleted by a purge that did not commit. An upload is one action: its image is deleted again
when the row cannot be written, so an image without a row, left by a restart between the two, is not in the
model. What a drop of the level does to offers and availability is `DropLevel` in ErrandDispatch; levels 3
and 4 are given elsewhere.

## Runs

| Run | Instance | States | Question |
|---|---|---|---|
| `dispatch_availability` | 2 errands, 1 runner, reviews, presence sweep, 1 restart | 868 000 | Is the one column that six writers write busy exactly while on one job, and online only when verified? Does dispatch implement JobAllocation? |
| `dispatch_progress` | 1 errand with deadline edits, 2 runners, 1 reviewed, 1 restart, fairness | 455 000 | One offer at a time, in line with its task? Do lapsed offers close and overdue tasks end, whatever runs beside the job? |
| `completion` | 2 errands, 1 of them patched by hand and paid or not, settlement batch of 1, 1 restart, fairness | 322 000 | Do dispute rows, earnings, refunds, the window and the sample holds agree with the task? Are completed tasks confirmed, paid ones settled behind one that never will be, and samples deleted? |
| `payments` | 2 requests, 1 increase, 2 quotes, 3 rows, 1 place in the reconcile list, 1 restart, fairness | 432 000 | One charge, of the newest quote, recorded as the provider says; what is paid is recorded, confirmed or under review. |
| `task_money` | 1 decrease, 1 increase, 3 receipts, 2 corrections | 48 000 | Do refunds and payouts stay within what was paid, and their views agree? |
| `payout_requests` | 2 lines, 2 calls, 1 key, 2 requests, 1 lapse | 3 358 000 | Is a paid request worth its lines, and a key worth one request? |
| `price_changes` | 2 calls, 3 prices, 2 requests | 1 060 000 | Is the price agreed last the price charged, and a decision whole? |
| `otp_codes` | 2 calls, 3 codes, 3 time steps | 1 360 000 | Is a code spent once, refused once replaced, and the window bounded? |
| `account_access` | 1 device, 1 reader, 2 changes, 2 tokens, 1 outage | 2 060 000 | Does the cache follow the status, and a suspension end the tokens? |
| `offline_requests` | 2 actions, 2 requests, 3 faults | 2 370 000 | Is no action lost or revived, and a replay applied once? |
| `verification_documents` | 2 runners, 4 old images, 1 upload, 1 re-review, 1 fault, pages of 1, 2 a night, fairness | 429 000 | Does the level follow the records, and the purge delete only what is due, and all of it behind one held runner or one fault? |
| `double_difference_charge` | a failed increase, 2 retries | | A claim the code does not keep: see below. |

**Bounds.** The clock (`MaxTime`), restarts and faults (`MaxCrashes`, `MaxLapses`, `MaxFaults`, `MaxOutages`),
rows (`MaxQuotes`, `MaxRows`, `MaxRequests`, `MaxCodes`, `MaxCorrections`, `MaxTokens`, `MaxActions`), changes
(`MaxChanges`, `MaxReReviews`) and the sets of errands, runners, calls, keys, receipts and increases are bounded,
and the bound is in a guard or a constant of that name. They are small because the interesting conflicts
need little: two runners to compete for a task, two tasks to compete for a runner, two calls to race, one
restart at every point of a run, a clock that gets past a window that starts at its second tick, a suspension
and the reactivation that must not revive what it ended. In
`verification_documents` the oldest image is of one runner and all others of another, so that a page of one
is filled by a held or failing image, and the second page of the night shows whether it crowds the rest out; images that fail again and again, and
the 20 pages of 200, are beyond it. In `completion` a batch of one is filled by one task without a payment, and
in `payments` a list of one by one row that is too old or cannot be resolved, so the starvation of the 100 and
of the 50 does occur and `PaidTasksSettle` and `PaidPushesRecorded` have to name it. `payments` has no
Idempotency-Key: a key only makes `initiate` refuse more, and with one the liveness check takes longer than a run
may; the invariants also hold with one key (1 165 000 states, checked by hand) and are proved for any. In
`account_access` one device signs in; what several do is proved.
What some of the invariants and the refinement need no bound for is proved below. Symmetry is used only in runs
without liveness properties, on sets that no other constant tells apart.

**Fairness.** `FairSpec` assumes of each job that it is scheduled again (BullMQ repeatable jobs,
`maintenance.scheduler.ts`) and that a run that has begun goes through its list unless the API stops;
of a transaction that holds a row, that it ends. The reconcile job is fair only to the rows of its list
that are young enough (`Reconcile`); what a callback or a client's poll asks for may happen, but need not. A
pending row grows old only when no request or result is in flight: those do not last a day. The steps of the
offer sweep that wait for an errand's row are strongly fair, because Postgres queues lock waiters: an admin
assigning again and again does not overtake them for ever. The document purge is scheduled every night, a run goes through its pages unless the
API stops, and days pass; the store may fail, but not for ever (`MaxFaults`). Nothing is assumed of customers,
runners, admins, callbacks, or the provider.

**Deadlock** is checked in the dispatch, completion and document runs, whose jobs come round for ever. The
other runs may really stop: an errand, an account, a number or a queue with nothing in flight and every bound
used up.

Every property of a passing run has a mutant: an operator next to the action it would replace, with a
plausible slip (a dropped guard, a missing re-check, a lost write) that makes TLC find the property
violated in that run.

## Proofs

TLAPS proves, for every set of errands, runners, requests, keys, calls, lines, receipts, increases and decreases,
every price, fee, clock, window, limit and number of restarts and corrections, under the named assumptions of each
module (`DispatchAssumption`, `CompletionAssumption`, `PaymentsAssumption`, `OtpAssumption`, `DocumentsAssumption`,
`RequestsAssumption`, `AccessAssumption`, `EntryAssumption`, `CallsAssumption`, `ExposureAssumption`,
`ReceiptAssumption`, `PriceAssumption`, `QueueAssumption`, `ReplayAssumption`), which only say that the
constants have their types and are told apart, that a task's decreases and the calls at once are finitely
many, and that the runner's fee is part of the fee charged:

* `ErrandDispatchProofs`: `TypeOK`, `OneOpenOffer`, `OfferMatchesStatus`, `BusyIffOnJob`,
  `OnlineRunnersVerified`, `ClosedOffersStayClosed`, and that dispatch implements `JobAllocation`.
* `PaymentsProofs`: `TypeOK`, `TaskChargedOnce`, `ResultsAreTheProviders`, `PaymentOfNewestQuote`,
  `EndedPaidTaskInReview`.
* `ErrandCompletionProofs`: `DisputeRowFollowsTask`, `PaidTasksEndOneWay`, `ConfirmedAfterWindow`,
  `HeldSamplesKept`. `ConfirmedAfterWindow` counts the window from the first completion; counted from the latest it
  is `WindowRestarts`, which the code does not keep.
* `OtpCodesProofs`: `CodeIsSpentOnce`, `ReplacedCodeRefused`, `WindowBounded`.
* `VerificationDocumentsProofs`: `LevelFollowsRecords`, `RecordsTellImages`, `PurgedImagesWereDue`.
* `PayoutRequestsProofs`: `KeyMakesOneRequest`, `PaidWithinRequest`; of OfflineRequests, `QueueKeepsActions`,
  `ReplaysTakeEffectOnce`.
* `TaskMoneyProofs`: `SentWithinPaid`, `ItemMoneySpentOnce`, `ViewsFollowRows`, `ReceiptsNotShared`,
  `DecidedIsFinal`; of PriceChanges, `AgreedPriceIsCharged`, `OneDecisionOneOutcome`.
* `AccountAccessProofs`: `SuspensionEndsTokens`, `CacheFollowsStatus`.

The proofs about PriceChanges and OfflineRequests stand beside those they belong with (the price is where a task's
money begins, the queue is the other end of an Idempotency-Key) and use their lemmas on sums and sequences. Both
sides have an `Init`, a `Next` and actions of the same names, so the proof module extends the modules with the state,
the properties and the assumptions (`AgreedPrice`; `OfflineQueue` and `IdempotentCalls`) and has the specification as an
INSTANCE over the same variables: `Price!Spec => []AgreedPriceIsCharged`, `Offline!Spec => []QueueKeepsActions`.

**Dispatch.** `BusyIffOnJob` does not survive a step on its own: that `endJob` frees the right
runner needs one holder per task; that `startJob` is the first job needs the offer row to be open only
before the accept; that `assign` does not write into a task that has moved needs the row it holds
(`assigning`) to be tied to the statuses it was locked in; that the presence sweep does not switch a busy
runner off needs the profile row it holds (`idleCheck`) to be tied to `online`. The inductive invariant is `TypeOK /\
OfferInv /\ AvailInv`, with those ties as conjuncts; each has a lemma with one case per action. The
refinement follows from the invariant, action by action: an action is one of JobAllocation's or a
stutter.

**Payments.** A second charge is excluded because the one row that is not failed is the only one whose
push can be open or paid. That needs every failed row to be declined at the provider, hence every
result in flight to be the provider's *final* one, hence no push to be sent again after its result: a
row waits for its push with one request, which has not sent it (`RequestInv`). `PaymentOfNewestQuote`
also needs that a quote expires only when another may follow (`QuoteInv`, an effect of the bound) and
that `payableQuote` is re-read under the lock. The lemmas follow the kinds of step (a new row, a changed
row, a change at the provider, things in flight) and `NextIInv` puts them together. `EndedPaidTaskInReview` speaks
of states with nothing in flight; `ReviewInv` says what is true before: while the API has not restarted, a paid
charge that the review of an ended task does not count has a result on its way to `confirmErrandAfterPayment`,
which opens or refreshes the review, and every step keeps it on its way.

**Completion.** `DisputeRowFollowsTask` and `PaidTasksEndOneWay` rest on the types of the rows (`RowsOK`) and on
which moves the transition table has (`LegalSources`), move by move. `ConfirmedAfterWindow` also needs
`ListServed`: a task on the window job's list had served its window when the list was read, and no row of its
history is lost. A restart empties the list, the clock only moves on. `HeldSamplesKept` says that the purge may act
on an old read: an ended task stays ended and no dispute is opened on it any more, so what the purge read of it
is final (`PurgeInv`).

**Codes.** A call holds what it read across any number of steps of others, so the invariant says of every stage
what is still true of it. What an issue replaces is useless (consumed or expired) from its UPDATE on, and so
for every verification that begins later (`ReplacedInv`, `BeforeInv`); hence a verification under way has a code
that none of the codes it has seen replaces (`GuessInv`, `SeenInv`). That a code is spent once is the
two conditional UPDATEs (`SpentInv`), whatever the calls in between read. `WindowBounded` counts two things together,
the codes a window holds and the issues that have found room in it and not written yet (`WindowInv`): an issue
that passes found fewer than the limit, and all others that passed are calls; a code that is written leaves
the second count for the first. A window that has begun is not added to when time has moved on.

**Documents.** `LevelFollowsRecords` needs that a step touches the records of one runner and computes his level
again, and that the rule looks at nothing else (`SameRule`). The other two are about the row the purge holds
between its steps: what it checked of that row stays true (`HeldRow`), because a re-review waits for the lock, a
decision needs a pending row and a dispute that opens meanwhile is one `opened` names; and the records tell
the images but for that row, whose image is gone before the record says so (`StoreInv`).

**Payout requests.** A reserved key has one holder from its reservation to its release, and is pending as long as
it has one; a request of the key was made by the holder about to store its id, or is the one stored (`HolderInv`).
Every id that is stored, about to be or was answered names a request of that key and amount (`IdsOK`). A key that a
call used without having reserved it leaves the set `HolderInv` speaks of: that is where `ReplayMakesNoRequest` fails.
`PaidWithinRequest` is all but inductive: `pay` chose its lines before it locked them, so `PaidInv` only adds that it
chose some, for an open request, and that a line on a request is paid. The count of rows that the UPDATE changed,
compared with the lines it chose, does the rest: what it sums is what it wrote.

**The money of a task.** All five theorems rest on `MoneyInv`, which says which rows there can be (`ReviewRows`,
`LineRows`): a payout is reversed exactly when its latest correction is a reversal, and then worth nothing
(`Traced`); otherwise it is worth the amount of the latest correction that has one (`SentLatest`); what the
corrections of a line add up to is what has been taken back of it (`Balanced`). Each correction keeps this, because
it is computed from the effective payout before it; it is what makes a query over the latest corrections, or a sum
of signed entries, agree with the fold over all (`ViewsFollowRows`), row by row. `NotEndedYet` ties the results in
flight to the task's end.

The two caps are inductive together with `MoneyInv`. A decision, a resend or a correction of a refund asks for its
amount beside what the *other* reviews commit and what is reimbursed; a review sends at most what it commits
(`RowAmounts`), since a reversed refund still counts as committed, so its amount fits beside what the others send
(`CapsAfterReview`, and `CapsAfterLine` for the reimbursement). Every other step sends no more, or more is paid
(`CapsKept`). What is committed may exceed what was paid (see below), because a reversal commits without asking;
nothing is sent by it.

`ReceiptsNotShared` restates `Uses` as a relation (`UsedAt`); a step adds the uses of
one payout, or those of two lines, and each check on the way in makes them ones that may be added (`MayBeAdded`).
`DecidedIsFinal` holds row by row, from the guards and `MoneyInv` (only a refunded review has a receipt).

Sums, maxima and `effectivePayoutOf` are folds over finite sets. The induction they need is `SubsetInduction`
(a set of subsets that contains a set whenever it contains all its proper subsets contains all of them), stated of a
set instead of a predicate, from the well-foundedness of strict inclusion; from it come how a sum changes with one
element, that sums are monotonic, and that the fold of a longer sequence is one step from that of the sequence.

**Price changes.** As long as `overlap` is false, every open request starts from the budget, there is at most one, and
a charge that is not paid yet, or is about to be written, is of the budget with no change before or after it: so
an approval moves the budget by exactly what it charges or puts under review, and the sum stands (`Agreed`). The step
that could break it, a write from a price that has moved, is the one that raises `overlap`; the invariant says of the
calls between their reads and writes what is still true of what they read (`CallRead`, `Current`). One outcome per
request needs only what `lockPending` checks again, and that a cancelled task is not cancelled again (`Decided`,
`PriceTransitions`). `Total` is a fold; `TotalGrows` gives the sum of one outcome more.

**The offline queue.** An action's fate says where it has to be, and the proof is that every step moves it there
(`FateInv`): what is kept is on the disk and in every snapshot on its way, what is only queued is in memory and in one,
what is leaving is out of memory and in no snapshot from some write on. The writes land in order, so the invariant
speaks of each write and all after it (`InAll`, `InNone`, `WriteInv`): one that makes its actions durable is followed by
none without them, one that removes them by none with them, and a log-out's is the last. A read that was started before
a log-out, or finds one began, is dropped by its generation, and one that counts found the writes landed
(`ReadInv`); a replay of this generation is of an action still queued (`ReplayInv`), and waits for one write
(`ReplayWriteInv`). The lemmas go by what happens to the queue: an append, a write that lands, an outcome, a log-out.

**What a replay does.** A transition takes effect once because the status has moved on (`TransitionInv`). A
photo changes no status; it takes effect once because as long as its key is neither expired nor lost a call that
comes to the handler holds it, alone (`KeyHeld`), and the key stays pending or stored afterwards; a key is only
released, or found gone, when it is too late for a photo (`PhotoOnce`, `TooLate`): the handler refuses for good. That
what is done took effect follows the answer back: from the outcome to the call that answered, from a replayed answer to
the stored key, from there to the handler (`EffectInv`); and the outcome belongs to the action replayed
(`WaitingInv`).

**Suspension.** A refresh session is refused by the history alone, which has the second of every change
(`FromHistory`). An access token needs the cut-off in Redis: while a call runs that has made its last check, the
cut-offs written since are still there (`CallInv`, the key outlives any call), so what the call signs is below them
when it was signed in time (`TokenInv`), and it stays so, because the stored second is only raised and lapses with
the last token it refuses. One cut-off that covers the token (`Covers`) and was not lost is enough, be it the
suspension's or that of a later change, so the second chance that `publish` gives on a reactivation is part of the
theorem. Nothing is needed of the status the account has by then.

**The cached status.** `CacheFollowsStatus` is about a quiet moment; `CacheInv` says what leads to it. As long as no
cache write failed, the newest change is about to be written, or what is cached is its status (`Cached`), and then
two things keep it so: while an older change still has its write to come, the entry carries the newest version, so
that `setIfNotOlder` refuses the older one, and a request that loaded an older status does not find the cache empty.

Only checked by TLC: everything temporal under fairness (`LapsedOffersClose`, `DeadlinePassedTasksEnd`,
`CompletedTasksMoveOn`, `PaidTasksSettle`, `EndedTasksLoseSamples`, `PaidPushesRecorded`,
`PaidTaskMovesOn`, `DueImagesPurged`), which is beyond the prover. Every invariant and action property of a passing
run has its theorem.

## Disagreements between the code and what it says

Shown by a run, `double_difference_charge` (TLC's counterexample is the scenario): two concurrent
`retryDifference` both find the failed charge and both write and push another; the unique index covers only the
main payment.

Found with TLC in the same way, and kept as a definition named in brackets but without a run of its own:

* `updateErrand` checks "before payment" on an unlocked read. Paid and offered in between, the task gets a
  deadline earlier than its open offer, although "offerExpiresAt must never extend beyond the task deadline"
  (`OffersEndByDeadline`).
* The window job re-checks only the status. A dispute opened and resolved back to COMPLETED after its list was
  read is confirmed at once, although the window "restarts" (`WindowRestarts`).
* `settleConfirmed` takes the oldest 100 CONFIRMED tasks. Ones without a payment, which an admin can confirm by hand,
  are refused and stay the oldest, so 100 of them end settlement for all, although it "settles every CONFIRMED
  errand" and retries the others (`EveryPaidTaskSettles`; `PaidTasksSettle` is what holds).
* `resolveTimedOut` takes the oldest 50 pending payments before it skips those over 24 hours; 50 that are too old or
  have no checkout ids keep every later one from being resolved by the job, although it "tries to resolve every payment
  still pending past the STK timeout" that is younger (`YoungPaidPushesRecorded`; `PaidPushesRecorded` is what holds).
* A dispute resolved through `PATCH /errands/:id/status` leaves its row open; the task is confirmed with an open
  dispute, and its samples are held for as long (`ConfirmedWithoutDispute`; `EndedTasksLoseSamples` excepts open rows).
* `applyResult` reads the errand before its transaction. A price difference paid while the task ends is
  recorded without a place in the refund review; only a main payment is followed by a second look
  (`PaidLegsInReview`; `ReviewCountsPaid` in the ledger, where two results recorded at once also miss each other).
* A reversed refund commits its original amount again without asking the cap, so the reviews of one task can
  commit more than was paid, although "cumulative refunds can never exceed what the customer paid"
  (`CommittedWithinPaid`). Sending it again asks the cap, so what is sent stays within (`SentWithinPaid`).
* A payout request whose key is found taken and, one command later, gone goes on without a reservation:
  two such calls, or one beside a new one, make two requests in turn (`ReplayMakesNoRequest`).
* Two price-change requests at once both find none open and both insert (`OneOpenRequest`); the one decided
  second is from a price that no longer holds, and a charge prepared before an approval is for the old price.
  `AgreedPriceIsCharged` excepts both.
* Requests for a code at once each miss the code the other is about to write, so a window holds up to one more
  per call than its limit (`WindowWithinLimit`; `WindowBounded` is what holds).
* "The used refresh token is single-use", but two rotations of one session read it before either deletes it, and
  each signs a pair (`SessionRotatedOnce`).

Noticed while modelling, without a run or a definition, because no document claims otherwise or a bound of the
model stands in the way:

* The purge has 20 pages of 200: as many held or failing images before the others, all in one night, would leave
  the others for ever.
* A dispute opened, or another image of the runner uploaded or reviewed, while the purge holds a document's row
  does not stop that deletion. A purge that stops between the store and its commit leaves a record, and an
  admin's link, of an image that is gone, until the next night.
* An API that stops between storing an image and writing its row leaves an image that nothing will delete.
* Sign-in checks that the account is active and signs later. A token signed after the reactivation on a check
  from before the suspension is good (`SuspensionEndsTokens` excepts it).
* The first, online attempt of an action carries no key. A photo whose answer was lost is queued and stored a
  second time.
* A log-out followed by a kill before the cleared queue is written leaves the actions on disk; the next session of
  the same phone reads them.
* A restart between recording a payment and confirming its errand leaves the errand ACCEPTED:
  `verifyPayment` returns early for a row that is no longer pending. `PaidTaskMovesOn` excepts restarts
  for that reason, and `EndedPaidTaskInReview` likewise.
* A push whose checkout ids were not stored stays pending, and blocks another push, until an admin acts.
* `RUNNER_ASSIGNED` set by an admin through the generic endpoint has no offer; the sweep expires such a
  task by its deadline like any other.
* A level drop between `assign`'s checks and its commit leaves an offer to a runner who can no longer
  accept it, until it lapses (`LapsedOffersClose` bounds the damage). The presence sweep can put a runner
  offline who was offered a task in the same moment.
* A dispute can be opened for as long as the window job has not confirmed the task, also past the window.

## What is left out

* Amounts, outside the ledger, price changes and payout requests, where they are a few shillings: Payments
  models whether a leg is counted, not how much it is. Fee arithmetic is not modelled, nor are differences that
  the customer pays to the merchant directly, which Nitume only records.
* Registration, web cookies, password hashing, throttling counters; the summaries, lists and exports of payouts
  and refunds; signed links to images.
* Realtime rooms and location ingest: sockets are told what the database already says, pings move no task but
  for the system's ARRIVED step. Of presence, only the sweep that reads it is modelled (ErrandDispatch).
* The development provider, whose callbacks are trusted. The pending payments of other errands, which are a number of
  places in the reconcile job's list.
* A write of the offline queue's store that throws; reads that fail are modelled.
* Skills and purchase limits of runners in dispatch; a step between the UPDATE of a decision and the profile's lock.
* In Payments, a refund review that has been decided (the ledger has it).
* Drafting, quoting prices, search, views, chat, evidence, ratings, files, notifications: data without a
  protocol of their own, or written and never read back by the protocols modelled.
* Screens of the apps, the console and the website: their requests are the actions that may happen at
  any time.
* Two API instances differ from two requests in nothing the models can tell.

`PROJECT.json` lists every component with its status and the reason.

## Plan

1. `ErrandStateMachine`, `JobAllocation`, `ErrandDispatch`, with proofs: done.
2. `ErrandCompletion`, with proofs: done.
3. `Payments`, with proofs: done.
4. `TaskMoney` and its parts, `PayoutRequests` and `PriceChanges`, with proofs: done.
5. `OtpCodes`, with proofs: done.
6. `AccountAccess`, `VerificationDocuments` and `OfflineRequests`, with proofs: done.
7. Then location ingest against the errand's status, and realtime rooms: what a client is told while it joins,
   reconnects and refetches. Two places to begin with: the mobile socket client's join timeout, which is not tied to the
   connection it was started on, and the runner's list of active jobs, where a slow load may finish after a later one.
