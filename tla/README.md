# TLA+ models of Qrib

Qrib pays an Indonesian QRIS merchant in rupiah while its customer pays in USDC:
a quote is locked, the customer authorizes it, the engine sends the crypto, sells
it through an off-ramp, has the merchant paid and books every leg in a ledger.
This directory models the parts of the program where money can be lost: the
payment engine of `src/engine/` over its store, ledger, operator tasks and
providers, its control and its amounts; the quotes it starts from and the
idempotency keys around them; the QRIS parser; and the customer's two pages, the
scan page and the wallet with its keystores. It says what TLC checks of them and
what TLAPS proves. The paths below are the repository's.

## 1. Inventory

| Component | State it keeps | Operations | Interacts with |
|---|---|---|---|
| State machine, `src/engine/states.ts` | none (edges, terminal states) | `canTransition` | the store's transitions |
| Engine, `src/engine/service.ts` | the mutex map `locks` (in memory) | `authorize`, `cancel`, `execute` and its resumes, `refund`, `handleWebhook`, `completeOperatorTask`, `resolveReview` | store, ledger, tasks, providers |
| Store, `src/engine/store.ts` | `payment_intents`, `payment_attempts` | `transition`, `transitionWith`, `getIntent`, `latestAttempts`, `dailyTotalIdr`, `stuckIntents` | database transactions |
| Ledger, `src/engine/ledger.ts` | `ledger_entries` (append-only) | `postEntries`, `paymentNets` | inside the transactions of transitions |
| Operator tasks, `src/engine/tasks.ts` | `operator_tasks` | file, list, read | manual providers, operator routes |
| Providers, `src/engine/providers*.ts` | the chain, the off-ramp, the settlement provider (external) | `submitPayment`, `confirmations`, `execute`, `createPayment`, `getPayment` | awaited by the engine |
| Quote engine, `src/engine/quote.ts` | quotes, new intents | `createQuote`, `formatMicros` | off-ramp rate, `dailyTotalIdr` |
| Reconciler, `src/engine/reconcile.ts` | none, reads all | `reconcile` | every table |
| Idempotency keys, `src/api/idempotency.ts` | `idempotency_keys` | middleware | every mutating route |
| Routes, `src/api`, `src/app.ts` | none | parse, check, call the engine | engine |
| QRIS parser, `src/qris/parse.ts` | none | `parseQris` | scan routes |
| Wallet, `src/wallet`, `scripts/wallet.ts` | keystore file of the CLI | encrypt, decrypt, generate, import, send, parse decimals; the reads of balance and address | RPC |
| Scan page, `web/app/(app)/scan/page.tsx`, `web/components/Scanner.tsx`, `web/lib/api.ts` | the code, amount, quote and payment it shows, a busy flag | parse, quote, pay, refresh, cancel; the camera | routes |
| Wallet page, `web/app/(app)/wallet/page.tsx`, `web/lib/keystore.ts`, `web/lib/chain.ts` | `localStorage` (address, keystore), the key in memory, what it shows, a busy flag | create, import, unlock, lock, wipe, send, check; the address field | routes, RPC, other tabs |
| Operator and report scripts, `scripts` | none | calls of the operator routes; the cost report over quotes and conversions | routes, tables |
| History pages, mobile, extension | user interface state | calls of the routes | routes |

The **hard behaviours** come from these facts.

1. A transition (`transitionWith`, `store.ts:30`) selects the status, decides and
   then updates it *by id* in a READ COMMITTED transaction. No row lock and no
   version check stands between the read and the write, so of two concurrent
   transitions the later one overwrites the earlier one.
2. `execute()` is serialized per payment by an in-memory mutex
   (`withPaymentLock`, `service.ts:42`). `authorize`, `cancel`, `refund`, the
   webhook, the operator's reports and the reviewer do not take it.
3. An `execute()` makes up to a dozen awaited steps against the database, the
   chain and two providers; the process may die or an await may reject between
   any two of them, and the next call has to find out from the rows how far the
   last one came.
4. Three parties may report one settlement: the poll inside `execute()`, a posted
   event and the operator. The event is taken at its word (`handleWebhook` checks no
   signature and asks no provider); the operator's report is checked against the one
   on record by its text, which the `jsonb` column does not keep.
5. `createQuote()` checks the day's total, awaits the rate and then inserts; the
   idempotency middleware looks a key up before the handler and stores the answer
   after it. Neither holds a lock in between.
6. The scan page disables its buttons during a call but not its camera, and its
   one busy flag is cleared by whichever call ends first.
7. The wallet page leaves *Kunci*, *Hapus* and the address field enabled during a
   call. It writes two entries of `localStorage` one after the other, either of
   which may be refused, and it reads them once, while other tabs write them too. Any
   address may be typed over the stored one. The header's links take the page off the
   screen and back on in the same document, so that a tap that was running goes on
   behind the new page.
8. The rupiah of one payment appear three times: in the quote (rounded up), in the
   row of the conversion (brought by the off-ramp, or reported by an operator) and
   in the ledger. Webhook and operator pick that row by a select without an order, and
   a report updates the row it has picked by id.

What makes each component **correct**: the engine sends one transfer per
authorization, pays out only what it received, posts each group of entries with
its state, completes a payment only if the merchant was paid, never refunds a
merchant payment that went through, and always moves on or asks a human; the
ledger balances, says who has the money and books no loss nobody looked at; the
store keeps an audit trail in which every state has a legal predecessor; tasks
are filed once and reports stand; a quote covers the fiat amount and respects the
caps; an idempotency key runs its handler once; the parser walks every payload to
its end or rejects it; the scan page pays the merchant it names; the wallet page
stores a wallet's address only with a keystore that opens to it, and signs for that
keystore.

## 2. Modules

| Module | Models | Source |
|---|---|---|
| `PaymentStates` | edges, terminal states, past-funding list, as constants | `states.ts` |
| `PaymentLifecycle` | the abstract specification: what one payment may do, as its customer sees it | `states.ts`, `resolveReview` |
| `PaymentEngine` | the engine, the store's transitions, ledger postings, tasks and providers, for one payment and any set of concurrent calls; its properties | `service.ts`, `store.ts`, `ledger.ts`, `tasks.ts`, `providers*.ts` |
| `PaymentEngineInv` | the engine's inductive invariants: `EngineInv` in every interleaving, `OneInv` and `FiledInv` for one call at a time | |
| `PaymentReconcile` | the reconciler's checks over the engine's rows | `reconcile.ts` |
| `MCPaymentEngine` | symmetry, and the specifications that start at AUTHORIZED, for TLC | |
| `PaymentEngineProofs`, `PaymentOutcomeProofs`, `PaymentLifecycleProofs` | proofs: rows, trail and books of the engine; how a payment ends; the abstract lifecycle | |
| `QuoteMath` | the price of a quote: rates, spread, ceiling, fee; what a sale brings | `quote.ts`, `providers.mock.ts` |
| `PaymentBooks` | the amounts of one payment: conversions, reports, ledger entries (EXTENDS `QuoteMath`) | `service.ts`, `ledger.ts`, `providers*.ts`, `report.ts` |
| `PaymentBooksProofs` | proofs | |
| `MCPaymentBooks` | symmetry, for TLC | |
| `UsdcAmount` | decimal strings of USDC, written and read | `quote.ts`, `wallet/usdc.ts` |
| `Idempotency` | the middleware: lookup, handler, insert | `idempotency.ts` |
| `QuoteDesk` | `POST /payments/quote`: `createQuote()` at its awaits behind the middleware (INSTANCE `Idempotency`) | `quote.ts`, `payments.ts`, `store.ts` |
| `MCQuoteDesk` | symmetry, for TLC | |
| `QuoteMathProofs`, `QuoteDeskProofs` | proofs | |
| `QrisParse` | `parseQris()` as an operator over payloads, with the real checksum | `qris/parse.ts` |
| `ScanPage` | the scan page, its camera and client, and the routes as it meets them | `scan/page.tsx`, `Scanner.tsx`, `api.ts` |
| `ScanPageProofs` | proofs | |
| `MCScanPage` | two codes, their misread, truncated and misprinted copies | |
| `WalletPage` | the wallet page, its storage, keystores of both kinds, transfers, the two reads, the CLI | `wallet/page.tsx`, `keystore.ts`, `chain.ts`, `src/wallet`, `scripts/wallet.ts` |
| `MCWalletPage` | the wallet page, for TLC | |
| `WalletPageProofs` | proofs | |

**The engine.** One behaviour is the life of one payment; every query of the
engine is by payment id. A row of a table is an element of a variable: `status`
and `attempts` are `payment_intents.status` and, counted by state, the rows of
`payment_attempts`; `chainTx`, `ledger`, `conversions`, `settlements`, `tasks` and
`events` are the tables of those names; `broadcasts`, `mined` and `order` are the
chain and the provider. A *request* (`req[r]`) is a call in flight: the await it
is at and the handler's local variables. An action is the code from one await to
the next, so that another request, a crash (`Crash`) or a rejected await
(`Reject`) can come in between. `transitionWith()` is two actions,
`TransitionRead` and `TransitionCommit`: the transaction reads the status, and its
update by id commits later whatever has been committed since. A commit and what
its callback posts are one action, since they are one transaction. `Continue`
says what the handler does after each transition. Calls the code refuses at once
change nothing and are no steps. `Webhook` takes any event not seen before, of any
reference a settlement can have, with a manual provider's tasks too; `Genuine` are the
events the provider sends, and only of those is it known that the order was paid.
`Kept` are the results whose reports come back from `jsonb` as they were sent (without
a note or a proof); a repeated report with another one is refused, so `Report` does not
take it. `Funded` looks at every attempt where `latestAttempts` returns the newest
twenty. It sees as much unless five calls that read the status before the confirmation
all commit after it: whatever else follows a confirmation in the trail is itself past
funding or a review, and a review that finds it can only move on to REFUND_REQUIRED.
`ResumeFunding` may miss the hash once there are more than twenty attempts
(`LatestHash`), which the proofs cover and no instance reaches.

**Books.** `PaymentBooks` takes up one payment at its broadcast and follows its
money. `quote` is the row of the quote with the USDC it holds; `convs` and `tasks` are
the conversion rows and the results of the conversion tasks; `usdc` and `idr` are the
sums of `ledger_entries` by account, which is what `paymentNets` adds up. `call[r]` is a
call in flight: its next step, the amount, rate, task or row it has read, and the
transition it is in with the status that was read. Every await between which an
amount, a row or the status is read or written is kept. A transition reads (`Reads`)
and commits (`Commit`) by id; a report checks its task (`TakeReport`), marks it
(`MarkTask`), selects a row (`FindRow`), inserts it if there is none (`InsertRow`) and
updates it by id (`FillRow`); a completion looks at the status (`LookBeforeSettling`)
before its transaction. `PostsOrThrows` is `postEntries`: it checks the sign of each leg
and the sum of each currency and, if either is wrong, throws and ends the call.
`Settlement` and `Repayment` are the groups of `completeSettlement` and `refund`. So a
review that read FIAT_SETTLEMENT_PENDING may overwrite COMPLETED and lead to a refund of
a settled payment, two completions or two refunds may both post, and two reports may
fill one row. Three variables only record this for the properties: `posted` how often
each group was posted, `lost` that a status was overwritten which the new one may not
follow, `refilled` that a row was filled over with other amounts.

What is left to `PaymentEngine` is control that touches no amount. The funding and the
step to CONVERSION_PENDING are one action each (only the `execute()` that holds the
mutex makes them), and the model begins with no other call in flight: a cancel or an
authorization that has been overtaken is in `PaymentEngine` only. Settlement rows are
abstracted to "there may be one", so two settlements may be of two rows and neither
waits for the other's row lock.

**Quotes.** `QuoteDesk` is one user's quotes with the clock; its handler part
(`CheckCaps`, `Price`, `Open`) runs between `Lookup` and `Store` of `Idempotency`.
Other mutating routes appear as one route that may use the same keys.

**Parser.** A payload is a sequence of symbols; one symbol stands for the two
digits of an id or a length, for a piece of text of a value, or for the four
digits of the checksum (so `a1` and `A1` are one checksum, as `toUpperCase` makes
them). The checksum is computed shift by shift as in `crc16ccitt`, its exclusive or
by halves of a word, and sixteen bits are kept by subtraction where the code masks. The
parser's walk, its order of checks on fields and its preference of account blocks
are kept; texts of errors, the trimming and the printable-character test are not.

**Scan page.** A call in flight (`calls[s]`) is a `run()`: sent, answered or failed
(`Lose` drops a request or its reply), then taken by the page. `ServeX` is the
route on the server, reduced to the payment's status; what the engine does with
the payment behind the page's back is any path along the edges (`Engine`).

**Wallet page.** `op` is the one `run()` in flight with what its closure captured: the
wallet being saved, the keystore being opened, the key a transfer was tapped with,
the address being checked. A tap and its end are two actions, so that a lock, a
wipe, typing or another tab comes in between. A wallet stands for its key and its
address; a keystore is who wrote it, for which wallet, under which passphrase, and
`PageOpens` and `NodeOpens` say which side can open it. Other tabs are arbitrary
saves, wipes and edits of `localStorage` (`Elsewhere`).

Anything may be typed into the address field, also the address of a wallet of one's
own, whether its keystore is there, was wiped or was never imported. A typed own
address is the same address to every check, balance and code; the model only notes
that it was typed (`[typed |-> w]`), so that the properties can speak of the address a
wallet was saved with (`w`). `WalletAssumption` keeps the two notations apart and
assumes nothing of what is typed.

`Navigate` is a link away from the page and back: the page is loaded anew from the
storage, and what was running goes on in `left`, where only a save (`LeftSave`) and a
transfer not yet sent (`LeftBroadcast`) reach beyond the page that is gone. `behind`
says that the storage was written by another tab or a tap left running since the page
was loaded, and `late` marks what a tap set although the wallet was wiped while it ran;
both name exceptions of the properties. The wipe removes its two entries in two calls
with no await between them: one action, with every outcome of a call that throws. The
founder's keystore files are not kept as state: `Files` are all there can be, one of any
wallet there is and the browser's own.

Definitions called *slips* are not used by any specification. Each is a definition
with a plausible mistake in it; `PROJECT.json` pairs it with the property it
breaks, which shows that the property depends on the code. The first invariant of a
run is the inductive one of section 4, where there is one; it contains the types.

## 3. Runs

Passing runs (`CHECK_DEADLOCK FALSE` in all: a payment comes to its end, and the
calls, faults and reviews of a run are bounded):

| Run | Instance | Distinct states | Shows |
|---|---|---|---|
| `all_operations` | all operations, 2 calls at once, automatic providers, 1 fault, 1 review, 1 event of the provider and 1 of somebody else | 1 076 742 | `EngineInv`, and the properties that hold in *every* interleaving or, of automatic providers, in every interleaving |
| `one_at_a_time` | all operations, 1 call at a time, manual conversion and settlement, 2 faults, 2 reviews, 1 event nobody vouches for, fair | 97 870 | what needs calls not to overlap: single postings, tasks filed again only after faults, standing reports, a quiet reconciler, the refinement `ImplementsLifecycle`; and `OperatorHeals` |
| `resumes_heal` | execute and webhook, 2 calls at once, 2 faults, fair | 1 082 | `ResumesHeal` |
| `payment_books` | 2 calls overlapping at every read and commit, three off-ramps, 1 amount, 2 rates, 2 reports, a cost above the default, 1 task | 1 119 725 | the ledger balances and says who has the money; losses; the income of the ledger, the conversion and the report |
| `quote_desk` | 2 requests at once, 2 keys, 3 amounts, 2 rates, 2 ticks, 4 calls, 1 fault | 350 593 | cap overshoot, prices, decimals, keys |
| `scan_page` | 2 calls of the page at once, 2 codes in view and some 140 odd ones, 1 payment | 1 784 674 | which code an amount, quote or payment belongs to; overlapping calls; the parser |
| `wallet_page` | 2 wallets, one of them also typed, 2 passphrases, 1 tap left running, 1 transfer, 1 refused write or write of another tab | 2 274 254 | keystores that open, what the page signs for and shows |

Why these bounds. Every race in the engine is between a read and a write of one
call with one other call in between, so two requests show it; a third only repeats
it, and the proofs below cover any number. One fault with two calls, or two faults with one,
reach a crash during the recovery from a crash. One review shows a second authorization, two show a
review of a re-authorized payment. In `quote_desk` the amounts include one at the
cap and one above it, a rate of 1 (which the spread floors to 0, so quoting is
refused) and amounts whose price has a remainder and trailing zeros; a tick of the clock
moves quotes out of the day. In `scan_page` one payment is enough for a
quote to be shown under the other code, and a code that is not in view is pasted
on a fresh page with the camera off only: it is refused, or would be read like
any other. No review puts a payment back there.
Of the two events in `all_operations` one is the provider's and the other is not, so
both `Vouched` and its failure occur; in `one_at_a_time` the event names a manual task
and nobody vouches for it. There the two results a retry is recognised by are in `Kept`
and the third is not.
In `payment_books` the amounts are scaled down (`Micro` 10). A quote is made at either
of two rates and sold at either, so the rate falls, stays or rises; the spread is 5
percent, so that an unchanged rate brings more than was promised. One report is below
the amount promised and one above it, so two that overlap conflict. The cost is between
what the quotes at the two rates hold. One task is what the code means to file; a second
row comes from two reports that both insert one. In `wallet_page` two wallets, one
generated and one imported, show one wallet's key, result or code under the other; the
imported one is also typed into the address field, before, while and after it has a
keystore. Addresses of strangers and unreadable ones are no more than that one without
a keystore, and the proofs cover them. One tap left behind by a link is enough to
overwrite a keystore. Refused writes and writes of other tabs share a bound of one: the
properties except runs with either, and what one of them leads to is followed through
every later tap.

Violation runs. Each checks a sentence of the repository, and TLC shows how the
code departs from it:

| Run | Sentence | What happens |
|---|---|---|
| `finds_double_broadcast` | "A retry never double-broadcasts" | an `authorize()` that read QUOTED commits after the broadcast and authorizes a second one |
| `finds_settlement_twice` | "ledger rows are posted exactly once" | poll and webhook both get past the status check; a replayed transition still commits its postings |
| `finds_paid_both_ways` | `refund()` is for "crypto left the wallet but the merchant will not be paid" | a poll times out while the webhook completes; its review, which read FIAT_SETTLEMENT_PENDING, overwrites COMPLETED; the reviewer can only refund, and the ledger pays both |
| `finds_stranded` | "no state in which the system has taken the user's crypto and simply stopped" | crash in CRYPTO_CONFIRMED, or between a PARTIAL leg and its review |
| `finds_wrong_merchant` | "confirmation screen shows parsed merchant name and amount prominently" | a code read during the request for a quote; the late quote appears under the new merchant's name |

The same causes, unlocked transitions and checks outside the transaction, break more
properties once two calls overlap, which is why `one_at_a_time` is where these are
claimed. Checked with `Requests = {r1, r2}`, TLC violates each of them:

- `CheapEndsSentNothing`, "Give up before any crypto moved" (`service.ts:88`): a
  `cancel()` that read AUTHORIZED commits FAILED after the broadcast, and FAILED is final.
- `ReportsStand`, "Conflicting reports on a done task are rejected" (`service.ts:564`):
  two reports both read the task as PENDING, and the later replaces the earlier.
- `RefiledOnlyAfterFaults`, "re-entry reuses the open leg instead of filing a second one"
  (`service.ts:359`): the operator's report and an `execute()` both find no open
  settlement leg, and the merchant's payment is filed twice with no fault.
- A refund posted twice, a terminal status overwritten, `ImplementsLifecycle`.

Four more departures need no second call:

- *An unverified event.* docs/PRD.md:403 has "POST /webhooks/:provider
  (signature-verified)". `handleWebhook` (`service.ts:477`) and its route check no
  signature and ask no provider: an event that names the open settlement's reference
  completes the payment. `CompletedMeansPaid` without `Vouched` is violated.
- *A report not recognised.* "a replay with the identical result re-runs the
  (idempotent) advancement" (`service.ts:560-563`). The stored result is `jsonb`
  (`schema.ts:192`), which orders keys by length and then by bytes; the comparison is of
  texts. A result with a note or a proof comes back in another order, so its report is
  refused when it is repeated, and after a crash the leg waits for ever. `OperatorHeals`
  without its premise is violated.
- *Reneging.* "settle anyway and record the loss - do not renege on a confirmed payment"
  (docs/PRD.md:446). All the crypto sold below the quoted rate is a PARTIAL leg and a
  review (`service.ts:310`), and a funded payment leaves review only by a refund
  (`service.ts:705`).
- *The stale hash.* After a re-authorization and a crash the resume takes the first
  attempt's hash for the second transfer's (`service.ts:156`), although a leg without a
  hash is to be reviewed (`service.ts:131`); it then sends nothing, which
  `RebroadcastOnlyByReview` covers.

**Exceptions named in the properties.** Some properties hold but for a case the code
does reach, and name it:

- `RefiledOnlyAfterFaults`: "retries must never double-file operator tasks"
  (`service.ts:273`) does not hold after a crash between filing the conversion task
  and inserting its leg; the next `execute()` files another.
- `CompletedMeansPaid` holds while every event was the provider's own (`Vouched`),
  `OperatorHeals` while every result on record is recognised again (`Kept`).
- `NotPaidAndRefunded` and `CheapEndsSentNothing` except payments a reviewer has moved.
- `MoneyAccounted` tells the end from what was posted unless a status was overwritten
  that the new one may not follow (`lost`); how much was posted it tells always.
- `LossTakesTwoConversions` and `IncomeExceedsSurplusByFee` except a payment converted
  twice (`ConvertedTwice`): it has two conversion rows, from a task filed or a row
  inserted twice, or a second report has filled the row over with other amounts
  (`refilled`). Then the settlement may book another row or amount than the one found
  sufficient.
- `SignsForKeystore`, `ShownTransferOfKey` and `ChecksOneWallet` except a tap overtaken
  by the wipe: an unlock that ends after it leaves a key without a keystore, a
  transfer its result, a check the code of a wallet that is gone. They except a typed
  address too where they speak of the stored one: whatever is typed is checked and
  shown as a code to receive at, also an own wallet's that has no keystore any more.
- `AddressSpendable` speaks of an address that was stored by saving its wallet. It and
  `KeystoreKept` except a storage that refused a write (the address is stored before the
  keystore); `KeystoreKept` excepts a save by a page behind which the storage was
  written since it was loaded (`behind`), by another tab or by a tap that a link had left
  running. The second case takes one tab and no fault: create, leave the page and come
  back while the key is derived, create again.
- `OneMerchantUnlessOverlapped` and `OneCallUnlessOverlapped` except a code read by the
  camera during a call.

The ledger's income is above what is left by the flat fee, since the settlement books
the fee although the proceeds of its crypto are in the drift already;
`IncomeExceedsSurplusByFee` states the difference and `SpreadTellsSurplus` what the cost
report makes of it.

Met on the way and outside the models: the amounts of a quote are answered in decimals by POST and in micro
units by GET; the web app sends no `userId`, so no daily cap applies to it; a
stored answer includes errors; `DWELL_SEC` knows no AUTHORIZED or
CRYPTO_CONFIRMED; a second *Bayar* after COMPLETED fails because `authorize` comes
first, although `execute()` would accept it.

**Fairness.** `Fairness` of `PaymentEngine`: a call in flight goes on (the event
loop); a provider settles its order (the provider's promise); `execute()` and the
operator's reports are repeated as long as they are not refused. The repetition is
strong fairness because a slot of `Requests` may be taken and freed again. The
code supplies it through its callers: the recovery described for `execute()` and
`completeOperatorTask()` is "call it again", from an API client or the operator's
console. The scan page is no such caller (its *Bayar* starts with `authorize`,
which refuses anything later), so the liveness runs speak of API clients that
repeat `execute()`. The faults are bounded, so they end. `one_at_a_time` checks
`OperatorHeals` under the same `FairSpec` as its safety properties, which fairness
does not weaken. Nothing in the quote desk, the books or the pages is claimed under
fairness: there the next step is a person's.

## 4. Proofs

TLC checks the instances of section 3; the theorems below hold for every value of
the constants. Except for the price of a quote, the decimals, the parser and the
checksum, which are functions of their input, a line of the table is an inductive invariant of a specification and what follows from it; the proofs have one lemma per action or
group of actions, and a reader should start at the invariant's definition.

| Theorems | Invariant | Under |
|---|---|---|
| `TypeCorrect`; `Invariance`, `AuditPathAlways`, `BroadcastsAuthorizedAlways`, `BooksFollowTrailAlways`, `PaidOutOnlyIfFundedAlways`, `ReceiptAlways` | `IInv` | `EngineAssumption` |
| `LegsInvariance`, `ReconcilerQuietAlways`, `CompletedMeansPaidAutomatic`, `NotPaidAndRefundedAutomatic` | `EngineInv` | the same; automatic settlement for the last two, and conversion for the last |
| `OneCallInvariance`, `PostedOnceOneCall`, `RebroadcastOnlyByReviewOneCall`, `CheapEndsSentNothingOneCall`, `CompletedMeansPaidOneCall`, `NoReturnOneCall`; `ReportsStandOneCall` and the refinement `ImplementsLifecycleOneCall` | `OneInv` | the same and `OneCall` |
| `RefiledOnlyAfterFaultsOneCall` | `FiledInv` | the same and `OneCall` |
| `NoReturn` (of `PaymentLifecycle`) | itself | |
| `BooksInvariance`, `MoneyAccountedAlways`, `OnlyOverchargeRefusedAlways`, `LossTakesTwoConversionsAlways`, `IncomeExceedsSurplusByFeeAlways`, `SpreadTellsSurplusAlways` | `BooksInv` | `QuoteMathAssumption`, `BooksAssumption`; the second property `DefaultCost <= FeeMicros` |
| `QuoteIsEnough`, `DriftIsSurvived`, `SpreadNeverNegative` | | `QuoteMathAssumption` |
| `ReadsBack`, `AmountsReadBackAlways` | the second from `QuoteInv` | `DecimalsAssumption`; the second also those of the next line |
| `DeskInvariance`, `QuotesAreEnoughAlways`, `AnswersStandAlways`; `QuoteInvariance`, `QuotesPerKeyAlways`, `DailyCapOvershootAlways` | `DeskInv`; `QuoteInv` | `QuoteMathAssumption`, `DeskAssumption` |
| `ScanInvariance`, `AmountOfItsCodeAlways`, `OneMerchantAlways`, `OneCallAlways` | `ScanInv` | `ScanAssumption` |
| `ReadingSpells`, `OneDifferenceShows`; `FieldsSpellPayloadAlways`, `DamageRefusedAlways` | the last two from `ScanInv` | `ScanAssumption` |
| `WalletInvariance`, `AddressSpendableAlways`, `SignsForKeystoreAlways`, `ShownTransferOfKeyAlways`, `ChecksOneWalletAlways`, `KeystoreKeptAlways` | `WalletInv` | `WalletAssumption`, `KeystoreAssumption` |

**What is assumed.** The named assumptions give the constants their types and keep the
values that stand for "none" apart from the others. Beyond that:

- `OneCall`: there is one request, so calls do not overlap. It is the scope of these
  theorems, not a claim about the server: section 3 shows what overlapping calls do.
- `Payment = "auto"`, `OffRamp = "auto"`: providers that settle by themselves, such as
  `MockQrisProvider` and `MockOffRampProvider`. Calls may overlap as they like.
- `DefaultCost <= FeeMicros`: the cost `refund()` books by default is 10 000
  (`service.ts:456`), the flat fee 20 000 (`config.ts:15`). With a cost above the fee
  a refund of a tiny quote would have nothing to be paid from.
- `IsFiniteSet(Calls)`, `Calls # {}` (in `DeskAssumption`): finitely many requests are
  in flight at once. Without it the bounds of the quote desk have no right-hand side.
- `Vouched` is a premise of `CompletedMeansPaid` itself: every event received was the
  provider's own.
- `WalletAssumption` keeps the constants' values apart (a typed own address is written
  `[typed |-> w]`); any address may be typed, and anything may be `Pasted`.
- `BooksAssumption` takes rates the spread does not floor to 0, which `createQuote()`
  refuses.
- `ScanAssumption` takes payloads that are not empty and, but for the checksum at the
  end, made of bytes; `parseQris()` refuses everything but printable characters first.

**The engine.** None of the properties is inductive: `AuditPath` can be lost by a
commit whose target was justified when it was read. So `IInv` says of every
request what it may rely on. `CommitJustified`: a pending commit replays a state of
the trail or follows an edge from one, which stays true because the trail only
grows. `LockHeld`: the part of `execute()` up to the conversion is under the mutex,
so `SpendCovered` (an authorization is left for a pending submission, a submission
for a pending broadcast) is disturbed by its own request only. `FundingOnce`: while
the funding leg runs, nobody else can reach CRYPTO_CONFIRMED, so its two
transitions are no replays and the funding entries follow the trail. `KnownFunded`:
whoever is behind the confirmation knows it is in the trail, which makes payouts
funded. `AuthorizationUnspent` and `FundedFirst` tie the rows together. The step
proof has one lemma per group of actions (`CustomerCalls`, `FundingSteps`, ...,
`CommitStep`); each shows where the request lands and that the others' reliances are
kept, from three lemmas on steps that write little (`QuietStep`, `Lands`, `GotoLands`).

**How a payment ends.** `EngineInv` adds `LegsInv`, which survives any interleaving
because rows are only added: who settles has seen a conversion row
(`SettlesConverted`), who completes a settlement row (`CompletesSettled`), so
FIAT_SETTLEMENT_PENDING and COMPLETED have theirs and the reconciler stays quiet.
`KnowsOrder` carries the provider's word: with automatic providers an order ends once,
a completion is of a paid order as long as every event was the provider's own, and a
refund no reviewer asked for is of a failed one. With manual reports this does not hold of overlapping calls, and the theorems do
not claim it: two operators may report "paid" and "failed" on one task.
Nor is `NotPaidAndRefunded` claimed for manual settlement with one call at a time,
where a task filed twice after a crash may be reported paid once and failed once.

With one call at a time `OneCallInv` says that the status a call has seen is still the
payment's (`SeesStatus`), that its transition follows an edge from it and is no replay
(`Lawful`), and that every further authorization is paid for with a review
(`Reviewed`). `ImplementsLifecycleOneCall` maps the status and "a confirmation is in
the trail" to `PaymentLifecycle`: the initial states map to its initial state, a
commit to its step along the same edge, and every other action to a stutter.
`TasksInv` ties settlements to tasks of their kind, `FiledInv` counts the tasks filed
without a row yet against the faults.

**Books.** `MoneyAccounted` says where the money is by how often each group was posted,
whatever calls overlap, but not that one posting fits the next. `BooksInv` adds what
each call under way has read: a report's task and row are there (`Placed`); a commit is
one of the moves that transactions make, and replays an end only if it is there or a
status was lost (`Moving`); a refund has its cost (`Costed`); and whoever settles, while
there is one conversion and it was not filled over, does so with its fiat
(`OneConversion`). `Booked` is what the settlement has booked besides the merchant's
fiat, `Sufficient` that a row that is done has brought what was promised. A step changes
the reliance of one request only, except where it writes a row, a posting or the status
the others have read; the proofs take those steps request by request. `postEntries`
throws on a wrong sign or sum, so `Refusals` is where the quote's ceiling and the fee
are used.

**Quotes.** `Ceiling` states the two inequalities of the rounded-up division; `Enough`
follows by monotonicity of the product. `DeskInv` ties a pending or stored response
to an intent under the same key, and each intent to its price. `KeyInv` counts: before
a key has a row, its quotes are of requests that have yet to store their answer, or of
a fault; afterwards no request joins those that may still open one. `CapInv` is the
argument for the daily cap: the day's total and one payment for each request that
passed the check stay within the bound, or they do if one of those requests, the last
let through, is counted with its own amount, since the check was made with it. The
total is a fold over a set. What a sum over a set has to satisfy (it adds an element's
amount whichever is taken out first, and falls with the set) is proved by a smallest
counterexample, from the well-foundedness of the strict subsets of a finite set
(`Smallest`, `SumOfPicked`, `SumSplit`, `SumOfFewer`).

**Scan page.** `CallInv` says what a call in flight will bring and for which code it
asked; `Alone` that, unless a code was read during a call, one call is in flight, the
page is busy with it and it is about the code shown. Whose merchant is shown does not
depend on the parser: those theorems hold whatever it takes for a code.

**Recursions.** The walk over a payload, the checksum and the digits of an amount are
recursive functions. The induction theorems of the library take an operator, which the
provers cannot instantiate, so each induction is a smallest counterexample (`Least`):
first that the function exists (`WalkExists`, `FromExists`, `AfterExists`,
`ReadExists`, `PowExists`), so that it obeys its recursion, then what it computes.

- *Parser*: from the end backwards, the fields read from a place on are fields and
  spell the rest of the text (`WalkSpells`); at the start this is `ReadingSpells`. The
  length says how much belongs to a value, and the walk compares it with what is there.
- *Checksum*: the exclusive or of words is undone by itself, at each width because it
  is at half the width (`Xor2Facts` to `Xor16Facts`, with `JoinN` and `SplitN`). A
  shift loses nothing, since its result is odd exactly if a one was shifted out and the
  polynomial is odd (`ShiftFacts`). So taking in a symbol loses neither the symbol
  nor the checksum so far (`TakingFacts`): up to the place where two texts differ
  their checksums agree, from there on they differ to the end (`OneDifferenceShows`).
  `SealedApart` adds the case that the checksum itself is misread. A symbol here is one byte of the
  text, or the checksum; two misread symbols may cancel, and nothing is claimed of them.
- *Decimals*: `Trimmed` shows that cutting trailing zeros and padding them again gives
  the digits back, `NextDigit` that reading one more digit of an amount is the amount
  down to that digit; after all of them it is the amount (`ReadsBack`).

**Wallet page.** The properties speak of a page at rest, the danger is in taps under
way. `Captured` says what each has in its closure, `LeftCaptured` the same of those a
link has left running, `NotOvertaken` that without a wipe the keystore a tap was made
with is still there, `ResultStands` the same of a result left on the page, and
`KnowsKeystore` that the page's flag tells the truth about a storage that refused
nothing and was not written behind the page (`Alone`). A save by a tap left running
writes behind the page, so it ends that premise and need not keep its conclusion.

**Only model-checked.** Liveness (`OperatorHeals`, `ResumesHeal`): fairness is out of
the prover's reach. Every other property of a passing run is stated by a theorem; the
properties of `one_at_a_time` under `OneCall`, and those that need automatic providers
under that assumption. The invariants `OneInv` and `FiledInv` are proved, and not
among the invariants of `one_at_a_time.cfg`, where they may be added; what follows from
them is checked there. What `parseQris()` makes of the fields it has (which merchant,
which amount) is compared with two printed codes and their misprints by TLC only.

## 5. Not modelled

- The clock of the reconciler (`DWELL_SEC`): its table of ages is compared with the
  time since the last attempt, which only says when to warn.
- Alerts, configuration, chain tables, logging: output and constants.
- The cryptography of keystores and signatures; gas and RPC transport. Who can open
  a keystore and whether a transfer comes back with a hash are modelled.
- HTTP parsing and shaping, and the idempotency keys of the
  operator's routes. The middleware is modelled once, around the quote and any other
  route.
- Calls that are refused at once: they change nothing, and are no steps.
- In `PaymentBooks`, calls in flight before the conversion and the columns of
  settlement rows; in `WalletPage`, the founder's files as state.
- The promises inside `withPaymentLock`: the mutex is one atomic flag.
- Users, merchants and migrations.
- The history pages, which only read; the texts of the site; the mobile app and the
  extension, which are starter templates.

`PROJECT.json` gives the reason for each component.

## 6. Plan

1. The engine with manual providers and overlapping calls: what weaker form of
   `ReportsStand` and `NotPaidAndRefunded` the code does keep, and its proof.
2. Overlapping calls without reviews: how many groups of entries may be posted twice,
   as a bound in the number of requests, in place of `PostedOnce`; the same for `posted`
   in `PaymentBooks`.
3. Settlement rows in `PaymentBooks`, so that a second completion of the same row waits
   for the first there as it does in `PaymentEngine`.
4. The parser's choice among the merchant account blocks, against a reference: today
   `ReadingAssumption` fixes it for the printed codes.
