# Verification of the CRM-KOC API

The repository is a marketplace on which brands hire creators (KOC) for
campaigns. Its NestJS API (`src/api`) holds the rules; a web and a mobile client
show them. This directory models the parts that keep money, decisions, files
and sessions: the settlement of a campaign from bank transfer to withdrawal, the
verification of accounts (KYC) with its notifications, the storage objects
behind assets and documents, the sessions of an account at the server and the
session of the mobile app. TLC checks the models on small instances; TLAPS
proves their safety for every number of accounts, campaigns, uploads, sessions and
requests.

The repository has no tests or documents of the API, so the comments, messages
and descriptions in the code are what it says about itself.

## Inventory

Paths are relative to `src/api/src`.

| Component | Code | State | Operations | Modelled in |
|---|---|---|---|---|
| Wallets and ledger | `module/payment/wallet.service.ts` | `wallets`, `wallet_transactions` with unique indexes per source | credit, credit once, debit | `Wallet` |
| Escrow | `module/payment/escrow.service.ts` | `campaign_escrows` | lock, adjust, refund, payout | `Escrow` |
| Deposits | `module/payment/deposit.service.ts` | `deposits` | create an order, SePay webhook | `Deposit` |
| Withdrawals | `module/payment/withdrawal.service.ts` | `withdrawals` with an idempotency index | create | `Withdrawal` |
| Campaigns | `module/brand/campaign*.service.ts`, `module/admin/campaign-review.service.ts` | `campaigns`, `campaign_submissions` | edit a draft, submit, top up, approve | `Campaign` |
| Collaborations | `module/collaboration/collaboration.service.ts` | `collaborations` with a partial unique index | create, propose, accept, withdraw a price, change the status | `Collaboration` |
| KYC submissions | `module/kyc/kyc.service.ts`, `queue/kyc/kyc-expiry.service.ts` | `kyc_submissions`, `kyc_documents` | open, upload, submit, review, expire | `Kyc` |
| KYC notifications | `queue/email/email.processor.ts`, `queue/kyc/` | the claim columns of `kyc_submissions`, the BullMQ queue | claim, send, record, release, reconcile | `KycNotice` |
| Storage ledger and collector | `common/services/storage-ledger.service.ts`, `queue/storage/` | `storage_objects`, the bucket | mark pending, linked, garbage; sweep; promote; reconcile | `Storage`, `KycPapers` |
| Campaign assets | `module/brand/campaign-asset.service.ts` | `campaign_assets`, snapshots of submissions | upload, replace, delete, reorder | `CampaignAssets` |
| KYC documents | `module/kyc/kyc.service.ts`, `queue/storage/storage.processor.ts` | `kyc_documents` | upload, carry over, promote | `KycPapers` |
| Sessions | `../scripts/session.scripts.js`, `security/session.service.ts` | Redis: a hash of sessions, an index by device | create, touch, attach, rotate, delete | `Session` |
| Access | `passport/jwt.strategy.ts`, `security/jwt-auth.service.ts`, `security/account-cache.service.ts`, `module/admin/admin-user.service.ts` | the account's status and its copy in Redis | login, validate, refresh, logout, lock | `Access` |
| Session of the mobile app | `/src/mobile-app/src`: `shared/api/client.ts`, `shared/storage/`, `features/auth/` | tokens in memory and keychain, session store | sign in, refresh, replay, sign out, restart | `MobileSession` |
| Campaign creation | `module/brand/campaign.service.ts` | the creation key in Redis, `campaigns` with an index on brand and key | create once | `CampaignCreation` |
| One-time passwords | `security/otp.service.ts`, `../scripts/otp.scripts.js` | Redis keys for code, attempts, cooldown | send, resend, verify | no, see below |
| Accounts, sign-in endpoints | `module/auth/` | `accounts` | register, sign in, Google | only what touches sessions: single rows behind unique indexes, token checks are a library's |
| Creator profiles, social connections | `module/creator/` | profiles, tokens | OAuth, upsert | no: the logic is TikTok's API |
| Administration, configuration, audit | `module/admin/`, `module/system-configuration/` | single rows | CRUD | only reviews and status changes: nothing else relates two rows |
| Infrastructure | `infra/`, `common/` | none of its own | Kafka, Redis, mail and storage clients, filters | no: input and output |
| Web client, mobile screens, deployment, load tests | `/src/frontend-web`, `/src/mobile-app`, `/src/api/deploy`, `/src/K6` of the repository | none that the API trusts | | no |

How the parts interact. A deposit webhook credits a wallet. A submission of a
campaign compares its budget with the wallet and, when it is short, opens a
deposit order. An approval locks the budget of the reviewed copy in the
campaign's escrow by a debit of the brand's wallet. A collaboration of an
approved campaign takes the campaign's unit price; accepting another price
moves the difference between wallet and escrow, completing pays the creator
from the escrow, cancelling returns the price to the brand. A withdrawal
freezes part of a wallet. All of this is shared rows in PostgreSQL under READ
COMMITTED, changed in short transactions by requests that run in parallel. KYC
decides who may submit and withdraw; its decisions leave the database by a
BullMQ job and a mail. Assets and documents are objects in a bucket, which no
transaction covers: the ledger of objects is written before the object is put
and changed with the row that names it, and a collector removes what the ledger
gives up. Every request passes the session in Redis and the account's status,
of which Redis keeps a copy for five minutes.

What is hard about it, and what must be true:

* Reads before a write are not locked in `updateStatus()`, `createWithdrawal()`,
  `openSubmission()`, `uploadDocument()` and `submit()`. What was read must still
  hold, or not matter, when it is written: *who is paid, and how much, follows
  from the status of a collaboration; a price is final once due; an account has
  one open submission, and only complete ones are reviewed.*
* SePay repeats and loses webhooks, clients retry requests with a key, BullMQ
  repeats jobs: *one transfer settles an order, a key freezes money once and
  creates one campaign, a decision is mailed again only for a failure.*
* Transactions touch wallet, ledger and escrow together and roll back when a
  conditional UPDATE matches nothing: *money is neither made nor lost, and the
  ledger explains every balance.*
* Workers die and jobs are lost: *every transfer completes its order, every
  decision is told, verified documents are moved, abandoned objects collected.*
* The bucket, the ledger and the rows change in separate steps, and a PUT may end
  after everything else: *what is named is stored and nobody's garbage.*
* `validate()`, `refresh()`, `verifyOtp()` and a ban each make several calls to
  Redis and the database: *ended sessions stay ended, a spent token ends its
  session, the cap and the devices hold, a lock is obeyed in the end.*
* The mobile app goes on while requests, refreshes and keychain writes are under
  way: *no late answer mixes two sessions, and nobody waits for ever.*

`PROJECT.json` lists each hazard at its line with the properties about it.

## Modules

```
Wallet ── Escrow ──┐
   │               ├── Campaign ── Collaboration ──┐
   ├── Deposit ────┘                               ├── Settlement ── MCSettlement
   └── Withdrawal ─────────────────────────────────┘       │  └ Custody (instance)
                                                           └─ SettlementProofs
Kyc ─┬─ MCKyc                                  CampaignCreation ─┬─ MCCreation
     └─ KycNotice ─┬─ MCNotice                                   └─ CreationProofs
                   └─ KycProofs

Storage ─┬─ CampaignAssets ─┬─ MCAssets        Session ── Access ─┬─ MCAccess
         │                  └─ AssetProofs                        └─ AccessProofs
         ├─ KycPapers ─┬─ MCPapers
         │             └─ PaperProofs          MobileSession ─┬─ MCMobile
         └─ StorageProofs (lemmas for both)                   └─ MobileProofs
```

**Wallet, Escrow.** `available`, `locked` are the balance columns (0 without a
row), `ledger[a][s]` the sum of a's `wallet_transactions` whose source column
holds `s`; a row has exactly one source. `held` and `escrowed` are the amount and
the existence of the escrow row. `Credit`, `Debit`, `Payout`, ... are formulas the
caller's action conjoins, as the code runs them in the caller's transaction; a
guard that fails is an exception, and the whole action does not happen.
`CreditOnce` is the `INSERT ... ON CONFLICT DO NOTHING`.

**Deposit.** `CreateDeposit` and `HandleSepayWebhook` are the two operations;
`BankTransfer` is the user's bank, external. A webhook may be processed and its
answer lost, so it comes again. Amounts, signatures and parsing only refuse;
`CodeOf` is the result of extracting the payment code.

**Campaign.** `version` is the optimistic lock the client sends back.
`Submit` copies the terms, `Approve` rechecks everything and locks the budget of
the copy. Only fixed pricing is reachable (`campaign.service.ts:571-578`).

**Collaboration.** `updateStatus()` is `ReadForUpdate` followed by `Advance`,
`Complete`, `Cancel` or `DropUpdate`; `inflight` is the set of what such requests
have read. Two requests that read the same are one element, which may stay after
a write to stand for the second. `acceptPrice()` holds the row and is one step,
and so are `create()`, `proposePrice()` and `withdrawPrice()`, whose INSERT or
UPDATE decides on everything they read. Actors act in the role they hold.

**Withdrawal.** `LookUpKey` is the lookup before the transaction,
`InsertWithdrawal` the transaction, `LoseWithdrawalAnswer` a crash or a lost
answer. Nothing in this commit takes an order out of PENDING.

**Settlement** composes them; **Custody** says what the payment module promises
without saying how: money is always in one place, each step moves one amount
from one place to one other, it enters once per order, and a creator is paid
once per collaboration from the escrow of its campaign.

**Kyc.** The submissions of one account in one role; other accounts share no
row with it. `request` holds what a request has read and not yet written:
`PlanOpening`/`CreateSubmission`, `StartUpload`/`SaveDocument` (the object is put
into the storage in between) and `ReadForSubmit`/`SaveSubmission`. TypeORM's
`save()` writes every column in which the entity differs from the row it loads
again, which makes `SaveSubmission` write back the columns as they were read.
The
partial unique index on open submissions guards both writes. A late `save()` may
take a decided submission back to PENDING; the model admits it, and the properties
hold in spite of it. `Review` holds the row,
`ExpireVerified` is one UPDATE.

**KycNotice.** The five statements of `sendKycStatus()` as steps of a worker.
The claim token is a fresh uuid per run of a job and is represented by the
worker that runs it. `jobs` is a set: a job taken may remain to stand for its
retry or a twin. `decision`, `mails` and `failures` are auxiliary and guard
nothing except the bounds. `LIMIT 200` of the reconciliation is left out, the
order by `updatedAt` brings every row to the front.

**Storage.** One row of `storage_objects` for each key. The collector deletes by
the ids it has read; the id is modelled by `held`, the workers whose sweep has
read this very row, so that a row written anew for the same key is held by none.
`ClaimBatch`, `RemoveObject`, `DeleteRows` and `BumpFailed` are the statements
of `sweep()`, between which it may fail or die. The batch is larger than the
instances.

**CampaignAssets.** An upload is named by the key it generates: `BeginUpload`
reads the campaign without a lock and writes PENDING, `PutObject` puts the
object, `LinkAsset` is the transaction, `CleanUp` the catch, which gives the
intent to remove a row of its own. Sort order, limits and the inspection of the
file are left out. The branch of `retire()` that keeps an object a submission
shows cannot be reached in this commit: whoever submitted cannot edit.

**KycPapers.** Uploads, the opening that copies the documents of the submission
before it, and the worker with its two jobs. Which submission may be opened or
reviewed is `Kyc`'s question; here only the status moves. The rows of the
opening's transaction are invisible until `CommitCarry`, its objects are not.
Two uploads that replace one document leave the first one's object LINKED
without a document; the model has it, no property forbids it.

**Session.** The Redis functions are atomic and are one operator each; `load()`
hides a session whose device is mapped to another. `Legacy` sessions were made
before the index. Which sessions the cap pushes out depends on times and is left
open (`Candidates`). **Access** runs them: a step is one call of `validate()`,
`refresh()` or `verifyOtp()`, with what was read kept in `req`; beside them an
administrator saves a status, deletes the sessions and drops the copy
(`SaveStatus`, `RevokeSessions`, `InvalidateCache`), or fails in between.
`barred`, `cutoff` and `floor` are auxiliary and say which requests began after
a lock. That a process dies, or Redis fails, between a mismatch and
`deleteSession()` is not modelled. `TouchSession` writes at every request; the code
skips it within the touch interval, which only leaves out writes of the same session.

**CampaignCreation.** A request is one of the calls of `createCampaign()`: the
lookup in Redis, the count, the insert, the write to Redis, with other requests
between any two. A request stands for itself and for the row it may insert, so
`campaign[r] = r` is a row of its own and `campaign[r] = c` the row of a twin. A
failure of Redis is a lookup that misses or a write that is not made; a crash, a
failing statement or five codes that are taken end a request without an answer
(`DropCreation`), with or without its row. The code of a campaign is left out.

**MobileSession.** What runs between two awaits is a step. `version` is
`sessionVersion`, `writes` the promise chain of the keychain, `flight` and
`current` the shared refresh. The server is reduced to one step a request
(`Access` has its interleavings): 401 without the session or with a token that has
run out, 403 when the account is locked (`Answer`). `locked` holds the logins whose
account has been suspended or banned while their session stood, as it may go on doing
when Redis fails after the status is saved or a login was under way; since the lock
may have been lifted or the cached account be older, such a request is answered either
way. A first 403 is an error shown, without a refresh; a 403 of the replay signs out as
a second 401 does (`Refused`), and `POST /refresh` does not look at the status.
Assumed: removals from the keychain succeed, a replay is answered within the life of
the token it was just given, a request still on its way when the app is killed is not
served later.

What is abstracted throughout: amounts are whole units without the width of
`numeric(15,2)`; the owner and the campaign of an id are constants, since no
operation changes them; timestamps are counts of their writes; validation, bank
accounts, fees and the KYC gate only refuse; wording, notes and reasons are left
out.

## Runs

`CHECK_DEADLOCK FALSE` everywhere: a campaign may be over, and a client need
not act.

| Run | Instance | Distinct states | Shows |
|---|---|---|---|
| `rehire` | 2 collaborations of one creator, 2 status changes in flight, symmetric | 401,746 | `PaidAsStatusSays`, `StalePriceOnlyWhilePending`, `OneOpenPerPair`, `TimestampsTell`, `PriceAndPaymentFinal` |
| `topups` | 2 orders, 3 transfers, 2 contents, 4 versions | 9,320 | `ReviewedContentStands`, `SettledByOneTransfer`, `TransferSettlesOrder` |
| `mixed` | 1 order of 2 amounts, 2 collaborations of 2 creators on 1 slot, 2 withdrawal requests with one key, 1 status change in flight, symmetric | 847,860 | `TypeOK`, `LedgerExplainsBalances`, `MoneyConserved`, `OneOrderPerKey`, `LockedIsPendingOrders`, and every step is a step of `Custody` (`KeepsCustody`) |
| `kyc` | 3 submissions, 2 documents, 2 requests in flight, 3 attempts | 592,701 | `KycTypeOK`, `OneOpenSubmission`, `ReviewedIsComplete` |
| `notice` | 1 submission, 2 decisions, 2 workers, 1 request in flight, 1 failure | 31,993 | `NotifiedMeansMailed`, `MailedOncePerFailure`, `EveryDecisionIsTold` |
| `assets` | 2 uploads, 1 asset, 1 worker, 2 failures, 2 edits | 123,243 | `ShownIsStored`, `AbandonedIsCollected` |
| `objects` | 2 submissions, 1 document, 3 generated keys, 1 worker, 1 failure | 473,777 | `DocumentsAreStored`, `VerifiedArePromoted` |
| `creation` | 3 requests with one key, 2 others of the brand, 1 of another, limit 1, 2 served at one time, symmetric | 285,336 | `OneCampaignPerKey`, `SoftLimit` |
| `access` | 3 sessions, 1 of them legacy, 2 devices, cap 2, 2 requests, 1 rotation, 1 lock, 1 failure | 662,283 | `AccessTypeOK`, `WithinCap`, `OwnsItsDevice`, `OldSessionsShutOut`, `EndedStaysEnded`, `SpentTokenEndsSession`, `LockObeyedInTheEnd` |
| `mobile` | 2 requests, 2 logins, 1 expiry, 1 loss, error, restart or lock | 251,841 | `MobileTypeOK`, `OneAccount`, `LeftIsForgotten`, `OnlyLossIsReuse`, `SignedOutForAReason`, `EverybodyIsAnswered`, `DeadSessionIsLeft` |

Why these bounds. Two collaborations are enough for two creators to compete for
one slot and one escrow (`mixed`) and for one creator to be hired twice
(`rehire`), and a price other than the unit price is enough to tell a stale price
from the current one; `MaxInFlight` 2 lets two requests overtake each other on one
row. Three transfers are a second one to the same code and one to another order.
Four versions are two edits, a submission and an approval. Two requests with a
key are the race for it. Three submissions reach the last attempt and one more
after an expiry; two documents make an incomplete submission. Two decisions are
the same status given twice, which is what a late worker could confuse, and one
failure at any point is one crash, one failed statement or one lease that runs
out under a live worker.

Two uploads are an asset and its replacement, or an upload given up beside one
that goes on; two failures are one of the upload and one of the sweep. Two
submissions are one and the next one carried over from it, three keys an upload,
its replacement and a copy. Three requests with one key are two twins beside each
other and a retry after both; the other two of the brand have another key and
none, and fill the limit; the sixth is the same key of another brand.

Three sessions with a cap of two push one out and
leave a legacy session in play; two requests are two refreshes with one token, a
request beside a login, or either beside the lock. Two logins are a session and
the next one, in which the late answers of the first arrive; two requests share
a refresh; one expiry is what a request is refused for, and a lock comes before its
refresh or between the refresh and the replay. A lock is no fault, but the bound is one
for both (`MoreFaults`): `SignedOutForAReason` excuses whatever follows a fault, so that
a lock is only of interest without one. `MaxVersion`,
`MaxUploads`, `MaxDecisions`, `MaxFailures`, `MaxChanges`, `MaxRotation`,
`MaxSession`, `MaxLogin`, `MaxExpiries` and `MaxFaults` bound counters of the
model; `MaxInFlight` bounds the requests under way at one time.

### Where the code differs from what it says

| Run | Property | The shortest story |
|---|---|---|
| `ban` | `LockObeyedAtOnce` | a login has looked at the account, a ban deletes all sessions and the cached account, the login creates its session, a request under way caches the ACTIVE account it read before the ban: the next request is let in until the copy expires |
| `reopen` | `OpenSubmissionIsLatest` | a second or third attempt is verified and expires or is revoked; the next draft is attempt 1 and sorts behind it, so the account can neither find it nor open another |

Eight more disagreements were met while modelling. They are in the models, and
the properties above hold in spite of them; no run is spent on them:

* `collaboration.service.ts:381`: a cancellation refunds the price it read; when the
  other party accepts a new price in between, the difference stays in the escrow,
  from which nothing takes it (`escrow.service.ts:65` speaks of "its share").
* `collaboration.service.ts:142`: a collaboration created in the slot of a cancelled
  and refunded one has no escrow left to be paid from.
* `collaboration.service.ts:364`: two requests read ACTIVE, one submits, the brand
  returns the work, and the UPDATE of the other matches again and overwrites the first
  timestamp, which lines 361-362 say must not happen.
* `withdrawal.service.ts:141`: of two requests with one key the slower one may be
  told the balance is insufficient instead of getting the order of the other
  (lines 87-88).
* `kyc.service.ts:604`: an opening writes the ledger row of a copied document in its
  own transaction; when the COMMIT fails after the copy the row is rolled back and
  the object stays in the bucket, where no sweep knows it (lines 602-603).
* `campaign.service.ts:785`: a creation repeated with its key is refused for the
  limit when Redis has no key, because the limit is counted before the index is
  asked (`campaign.controller.ts:71` promises the campaign created before).
* `campaign.service.ts:824`: the refusal advises to cancel a campaign; no operation
  of this commit cancels one, and only an approval makes room.
* `kyc.service.ts:180`: an upload that passed the status check replaces the document
  after the submission was submitted (line 454 forbids it).

## Fairness

`topups` assumes weak fairness of `HandleSepayWebhook` for each transfer: SePay
repeats an unanswered webhook (seven times in five hours,
`deposit.service.ts:102-103`), so the assumption is that not all of its
repetitions are lost. Users, brands and creators are never assumed to act.

`notice` assumes: a waiting job is taken in the end (strong fairness per job;
the queue is first in, first out, and a job once taken is not taken again for
ever before another); workers go on with what they started, leases run out and
the hourly reconciliation runs (weak fairness); SendGrid does not refuse for
ever (strong fairness of `MailAccepted`). Crashes are bounded by `MaxFailures`:
a system that crashes for ever delivers nothing.

`assets` assumes that a request runs to its end or its process dies (weak
fairness of the steps of an upload), that a row grows older than the grace
period, and that the sweep is started again and again (`SweepFairness`; it is
scheduled every quarter of an hour). `objects` assumes that a worker goes on with
its job (weak fairness) and that neither a waiting promotion nor the quarter-hourly
job is passed over for ever (strong fairness; the queue is served in order).
Failures are bounded by `MaxFailures`.

`access` assumes that requests go on and that the copy of the account expires,
its key having a time to live of 300 seconds. Nobody is assumed to log in, log out
or lock. `mobile` assumes that every promise settles: requests have a timeout
(`client.ts:21`), the keychain answers, the queue goes on. Users act or not.

## Proofs

TLAPS proves every safety invariant and every action property that a run checks,
for all values of the constants, from the `ASSUME`s in the modules: ids of different
tables differ, owners are accounts, amounts are positive naturals, the null values
are no ids, the bounds are naturals and the cap is at least one. `FiniteTables`
(`Wallet`) says that a table has finitely many rows; only sums need it.
`DocumentsKept` has one hypothesis more, `OneWorker`: no two processes run the
storage queue, as `compose.api.base.yml` deploys it.

| Theorem | Statement | Rests on |
|---|---|---|
| `SettlementProofs!TypeCorrect` | `Spec => []TypeOK`, so no wallet or escrow is ever below zero | inductive by itself, one lemma per operation on money |
| `SettlementProofs!PaymentFollowsStatus` | `[]PaidAsStatusSays` | `CollabInv` |
| `SettlementProofs!OneOpenCollaboration` | `[]OneOpenPerPair` | `CollabInv` |
| `SettlementProofs!StalePriceIsPending` | `[]StalePriceOnlyWhilePending` | `CollabInv` |
| `SettlementProofs!PriceAndPaymentAreFinal` | `PriceAndPaymentFinal` | `CollabInv`, step by step |
| `SettlementProofs!TimestampsFollow` | `[]TimestampsTell` | `StampInv` |
| `SettlementProofs!OneTransferSettles` | `[]SettledByOneTransfer` | `DepositInv` |
| `SettlementProofs!ReviewedContentIsFunded` | `[]ReviewedContentStands` | inductive with `TypeOK` |
| `SettlementProofs!OneOrder` | `[]OneOrderPerKey` | inductive by itself |
| `SettlementProofs!SettlementKeepsCustody` | `Spec => KeepsCustody` (the refinement of `Custody`) | `CustodyInv`, `Moves` |
| `SettlementProofs!MoneyIsConserved`, `LedgerExplains`, `LockedIsOrdered` | `[]MoneyConserved`, `[]LedgerExplainsBalances`, `[]LockedIsPendingOrders` | `MoneyInv`, `Moves` |
| `KycProofs!KycTypeCorrect` | `KycSpec => []KycTypeOK` | inductive by itself |
| `KycProofs!OneOpen`, `ReviewedComplete` | `[]OneOpenSubmission`, `[]ReviewedIsComplete` | inductive with `KycTypeOK` |
| `KycProofs!NoticeTypeCorrect`, `NotifiedIsTrue` | `[]NoticeTypeOK`, `[]NotifiedMeansMailed` | `NoticeInv` |
| `KycProofs!OneMailPerFailure` | `[]MailedOncePerFailure` | `CountInv` |
| `AssetProofs!AssetTypeCorrect` | `AssetSpec => []AssetTypeOK` | inductive by itself |
| `AssetProofs!ShownAlwaysStored` | `[]ShownIsStored` | `AssetInv` |
| `PaperProofs!DocumentsKept` | `OneWorker` implies `PaperSpec => []DocumentsAreStored` | `PaperInv` |
| `CreationProofs!OneCampaign`, `LimitHolds` | `[]OneCampaignPerKey`, `[]SoftLimit` | `TableInv`, `FenceInv` |
| `AccessProofs!AccessTypeCorrect`, `CapHolds`, `DeviceIsOwned`, `LockEndsOldSessions` | `[]AccessTypeOK`, `[]WithinCap`, `[]OwnsItsDevice`, `[]OldSessionsShutOut` | `AccessInv` |
| `AccessProofs!EndedForGood`, `ReuseIsFatal` | `EndedStaysEnded`, `SpentTokenEndsSession` | `AccessInv`, step by step |
| `MobileProofs!MobileTyped`, `AccountIsOne`, `LogoutIsForGood`, `NoReuseOfItsOwn` | `[]MobileTypeOK`, `[]OneAccount`, `[]LeftIsForgotten`, `[]OnlyLossIsReuse` | `MobileInv` |
| `MobileProofs!SignedOutWithReason` | `SignedOutForAReason` | `MobileInv` and `LockedInv`, step by step |

`CollabInv`. That a completed collaboration has paid its price is not inductive:
the completing step pays the price its request has read. So the invariant adds
that a price read past PENDING is current (`StalePriceOnlyWhilePending`), which
holds because a price changes only while PENDING and because nothing leads back
there: every request in flight is a legal transition and none has read PENDING
from a row that is past it and come back (`InflightLegal`). The payout is refused
when *somebody* has a ledger row of the collaboration, so the invariant also says
that nobody but the creator ever has (`OnlyCreatorEarns`). `StampInv` adds to it
what requests in flight believe of the timestamps (`ReadStamps`): a cancelled row
leads nowhere, so no request that cancels has seen `cancelled_at`.

`DepositInv` adds to `SettledByOneTransfer` that the transfer that settled an order
was really made; its amount then never changes.

`CustodyInv` joins both and adds that a campaign without an escrow row holds
nothing (so that locking *sets* the amount Custody *adds*), and that a request past
the lookup asks for a positive amount (so that freezing is a step and no stutter
of another kind). Each action of `Settlement` is then mapped to one action of
`Custody` or to a stutter. In between stands `Moves`: whatever the step, it rests or
makes one of four movements, money received for an order (`Receives`), exchanged
between a brand's wallet and an escrow (`Exchanges`), paid from an escrow to a
creator (`Pays`) or frozen for a withdrawal (`Freezes`).

`MoneyInv`. The three sums are kept by each of the four movements, so their proofs
do not look at the actions again. `Total` is a recursion over a set, and
what it computes would be shown by an induction that these provers cannot do; it is
shown by a least counterexample instead: if a set had the wrong total, one of the
smallest such sets would (`SmallestSubset`), and taking one element from it gives a
smaller one. That yields the few facts the sums need: a total of integers is one,
equal summands give equal totals, and changing one summand by n changes the
total by n (`TotalAdds`). The escrow is explained by its own column of the brand's
ledger and the earnings of its collaborations (`EscrowsAddUp`).

`NoticeInv`. `RecordAccepted` marks the decision in force as notified, but what was
mailed is the decision the worker has read. The invariant says they are the same:
a worker that still owns the claim has read the decision in force
(`OwnerReadInForce`), because every decision takes the claim away and no other
step of the account gives it back; and a worker about to record has mailed what it
read (`AcceptedWasMailed`). What the rest of KYC does to the columns of the
notification is one lemma, `KycKeepsNotice`.

`CountInv` counts the mails about a decision together with those still to come: the
workers that have read it (`Readers`), and one if it may be read once more
(`MayBeRead`), because it is not made yet, or it is in force, not told, and nobody who
has read it holds the lease. The count is at most one more than the failures
(`Counted`). A step moves one from place to place (a claim is read, what was read is
mailed), or it adds one, and then it is a failure: a worker that dies, a statement
that fails, a lease that runs out. It rests on who may hold a claim: a claimed
submission is untold (`ClaimedIsUntold`) and has the status its worker read
(`OwnersStatus`).

`AssetInv`. `ShownIsStored` rests on the one-way course of a ledger row: a key a
sweep has in hand is garbage or its row is gone, and never pending again
(`ClaimedIsGone`), because only an upload that has not begun writes PENDING
(`NewIsUnknown`), and a row that can still be linked has its object
(`PutIsStored`). Nobody shares a key (`OneAssetPerKey`), and a snapshot is not
emptied by a later deletion (`NothingKept` before, no edits after). What the collector
spares is one lemma of `StorageProofs` (`CollectorStep`), which `PaperProofs` cites
as well.

`PaperInv`. Documents need more, since three parties write to one row by what they
have read before: an upload that replaces it, an opening that copies it, the promotion
that moves it. The invariant follows a key wherever it is known: a row, an upload that
will replace it, a promotion that will move it (`Names`). A key and its twin
under `verified/` belong to one document of one submission (`OnePlace`), and nobody
knows a key before it is saved (`UnsavedIsNowhere`); so what one party marks as garbage
is named by no other document. A promotion writes PENDING for the twin, which is
harmless only because no document names that twin yet (`NotTwice`), and puts the
object there before it is named (`PromotedIsStored`). The worker does not sweep while
it promotes (`OneJob`), which is where `OneWorker` comes in: a sweep of a
second worker might have the twin in hand that a repeated promotion links.

`TableInv` says of campaign creation that the table has one row of a key (`OneRow`)
and that an answer (`Chosen`) and a key in Redis (`RememberedTrue`) name a row of
their brand and key. `FenceInv` counts with the unfinished campaigns the requests
that have passed the limit and not inserted yet: a request that passes finds fewer
than the limit, and those pending beside it are served at the same time.

`AccessInv`. The cap and the devices are about one function at a time and rest on
the shape of the index: an entry points at a live session on that device
(`IndexPoints`), and a session made with the index is in it (`NewIndexed`).
`Barrier` says of the lock that since its revocation every live session is
younger than the cutoff; requests carry the cutoff with them. The two action
properties follow step by step: `NoneReturns` says that no function brings a
session back, and a spent token is refused and its session deleted because the
generation of a session only grows.

`MobileInv`. `sessionVersion` tells the sessions of the app apart: a request, a
refresh and a queued save belong to the session that stands exactly when they carry its
version, and then their tokens are of the login in memory (`OwnRequest`, `OwnFlight`,
`OwnSave`). The rest is about the order of the keychain's queue: only its first
operation has begun, and nobody is signed in behind a `clear()` (`QueueInv`); one begun
in a session that has been left has a `clear()` behind it (`HeadInv`); so the keychain
holds tokens of one login and, when nothing is left to clear, none that was left
(`KeychainInv`). A login is used once (`LoginInv`). Without a fault the refresh token
kept is the server's last, unless the refresh of this session is about to replace it
(`KeptIsCurrent`, `FlightInv`), which is why the app never presents one twice.
`LockedInv` adds that a 403 is only given to a locked account: the app is signed out by
a refused replay because the session has ended (`Replayed`, for a 401) or because the
account is locked (for a 403), and by nothing else the server says.

Only model-checked: the liveness properties `TransferSettlesOrder`,
`EveryDecisionIsTold`, `AbandonedIsCollected`, `VerifiedArePromoted`,
`LockObeyedInTheEnd`, `EverybodyIsAnswered` and `DeadSessionIsLeft`. They follow from
fairness, and no prover used here reasons about `ENABLED`. The invariants that carry
the proofs of the documents, the notifications and the app were checked by TLC on the
instances of `objects`, `notice` and `mobile` before they were proved.

## Not modelled

* One-time passwords, which are within reach and come first in the plan. Verifying
  a code is one atomic script; what may overlap is two resends.
* `updateMe()` (`auth.controller.ts:524`). A change of role makes a new session and ends
  the old one without a look at the status beyond the one `validate()` had, like the
  login under way in `ban`, and its `save()` may write back a status it read before a
  lock.
* How `syncDeliverables()` replaces the rows of the deliverables: one transaction
  under the version of the campaign.
* A second storage worker beside a promotion. `compose.api.base.yml` runs one; with
  two, a repeated `markPending()` could make a linked verified key collectable. The
  sweep alone is proved for any number of workers, together with the assets.
* Uploads slower than the grace period in `KycPapers`, and sweeps with a full batch.
* The web client. Two of its tabs may refresh with one cookie; at the server that
  is the second refresh of `SpentTokenEndsSession`.
* A keychain that refuses to remove tokens (`secure-storage.ts:24-29`): they would
  be back after a restart.
* The screens of both clients, some half of the repository's code, keep no state
  the API relies on; validation, DTOs, list queries, mail texts and the clients of
  Kafka, Redis, SendGrid, TikTok and R2 keep none at all. A model of them would
  repeat their lines and say nothing, which is why the models cover only the
  services that keep state.

## Plan

1. Done: settlement, its abstract promise and proofs; KYC and its notifications;
   the storage ledger with assets and documents; sessions and access; the session
   of the mobile app; the creation of campaigns.
2. `Otp`: code, attempts, cooldown and count against resend, verification and the
   mail worker, which reads the code when it sends.
3. Money as pure functions: `percentOf`, `toCents`, `fromCents` against a
   reference over bounded amounts.
4. Done: proofs of all safety invariants and action properties. Left: a run of
   `KycPapers` with two workers, should the deployment ever start a second one.
