# Moco: a verification project

Moco is a paid-calling service: callers buy coins, call listeners (creators), and
pay per started minute; around that are chat, a feed, a mirror of a third-party
list of live models, and an admin console. The backend (`src/moco-backend`) is a
Node API on serverless functions over PostgreSQL, Redis, Supabase Storage and an
at-least-once message queue. There are no long-running workers: every piece of work
is an invocation that may be retried, run twice at once, or die between two
statements. This directory models the parts of it in which that matters, checks
them with TLC and proves the most important of their properties with TLAPS.

`PROJECT.json` maps every definition to the lines it models, lists the hazards of
this code with the properties aimed at them, and gives each property a mutant: a
plausible bug that must break it. Operators whose comment says "a slip worth ruling
out" are those bugs; no action uses them.

## 1. Inventory

| component | state it keeps | operations | what makes it correct | modules |
|---|---|---|---|---|
| Call lifecycle (`modules/calls/calls.service.js`) and billing engine (`billing.engine.js`) | `calls`, `call_ticks`, `is_busy`, the trial flag; Redis call state and tick lock | initiate, accept, end, Agora webhook; preflight, settleTick, endCall, sweepStaleCalls | a listener is in one call; a minute is charged once, in full, only while active and affordable; a call ends once | `CallStore`, `CallBilling`, `CallLedger` |
| Tick consumer (`workers/tick.worker.js`) | the tick message | handleTick | the chain of minutes goes on while the call is active, and stops after | `CallBilling` |
| Stale-call sweep (`workers/sweep.worker.js`, `api/cron/sweep.mjs`) | the sweep message, its key | handleSweep, ensureSweep | a call nobody answers or bills is ended | `CallBilling`, `SweepChain` |
| Job topics (`jobs/index.js`, `jobs/handlers.js`) | messages, idempotency keys | enqueue and its callers | a publish is deduplicated by key, and no chain that re-queues itself runs dry | with each topic |
| Wallet (`modules/wallet`) | `wallets`, `coin_ledger`, `listener_earnings` | debit, credit, creditListener, debitListener, applyTopup | a payment credits once; balances match their ledgers | with each caller |
| Payouts (`modules/payouts`, `workers/payout.worker.js`, admin review) | `payouts` | request, review, publish, pay, reference | paid once and only after approval; an approved one is paid | `Payouts` |
| Purchases (`modules/purchases`) | `purchases` | verify, gateway webhook | a token credits at most once, and its first outcome stands | `Purchases` |
| Sign-in (`modules/auth`) | four Redis keys per identity | send, verify | guesses at a code are few | `SignIn` |
| Accounts and moderation (`modules/users`, `modules/admin`) | `users` | sign-in, registration by an administrator, edits, suspension, reports, two deletions | one account per identity; a deleted account owes nothing | `Accounts` |
| Uploads (`integrations/storage.js`, `deletion.admin.js`) | objects in Storage and the rows that name them | upload, register, remove, sweep | a permanent deletion leaves no media | `Erasure` |
| Listener profiles and KYC (`modules/listeners`, `listeners.admin.js`) | `listener_profiles`, `listener_photos` | become a listener, photos, KYC, review, online switch | an approved creator is complete | `ListenerDesk` |
| Friends and chat (`modules/friends`, `modules/chat`) | `friend_requests`, `conversations`, `messages`, `blocks` | ask, answer, write, block | an answer stands; only those who may write do | `Social` |
| Feed (`modules/feed`) | `posts`, likes, comments, shares, notifications | publish, delete, moderate, purge; like, comment, share | a visible post has its media; taps do not spam its author | `Feed`, `Responses` |
| Notifications (`workers/notification.worker.js`, `integrations/fcm.js`) | `users.fcm_token`, the FCM access token | register, forget, deliver | a token FCM accepts stays on file | `Pushes` |
| Moco Live (`modules/live`, `workers/live.worker.js`) | `live_models`, the snapshot; the demand key, the sync message | sync, cleanup, list; the chain of syncs | a model is not shown where it is banned; syncs go on while people browse | `Live`, `LiveChain` |
| Live settings (`live.settings.js`, `public/admin/live-settings.js`) | one stored document; an editor's draft and preview | edit, preview, save | no model is both featured and hidden; the preview is of the draft | `LiveDesk` |
| Login background (`settings/login_background.js`) | a setting and its objects | upload, save, drop | the background in use has its media | `LoginBackground` |
| Admin console (`public/admin/admin.js`) and the routes it calls | dialogs, lists; audit entries | ask, confirm, decide | no bare overlay; a last decision is the last | `Console` |
| Admin accounts (`admin.auth.js`) | `admin_accounts` | bootstrap, add, change email | one admin per email | `AdminAccounts` |
| Presence and sockets, clients of third parties, mobile and web apps | | | | not modelled (section 8) |

What is hard here: two consumers of one message; a retry of what was already
committed; a lock or a key that vanishes; state read in one query and used in a
later one, with no lock in between (the normal form of a handler in this code); an
instance that dies between a commit and the publish that should follow it; rows and
stored objects that no transaction spans; answers that return in another order.

## 2. Modules

    CallLedger (abstract)  <- implemented by -  CallStore <- CallBilling <- MCCallBilling <- CallClaims
    Payouts, Purchases, SweepChain, LiveChain             <- MCBackground
    SignIn, Accounts, Erasure, ListenerDesk, Social, Feed,
    Responses, Pushes, Live, LiveDesk, LoginBackground,
    Console, AdminAccounts                                <- MCProduct
    SumProofs                    (sums of a function over a finite set)
    CallBillingProofs            (CallBilling, SumProofs)
    BackgroundProofs             (MCBackground, SumProofs)
    AccountsProofs               (Accounts, SignIn, AdminAccounts)
    MediaProofs                  (Erasure, ListenerDesk, Live)
    SocialProofs                 (Social, Feed, Responses, Pushes)
    ConsoleProofs                (Console, LiveDesk, LoginBackground)
    ProductProofs                (MCProduct and the four above)

An arrow points from a module to one that extends it. Everywhere, a PostgreSQL transaction is one
step where the row locks it takes make it one, every query outside a transaction is
a step, and a request that holds several steps keeps where it stands in a variable.
A handler may end after any of its steps (an error, or the instance stops).

**Paid calls.** `CallStore` has one operator per transaction over `status`, `party`,
`endReason`, `totals` (columns of `calls`), `ticks[c]` (the minutes in `call_ticks`),
`balance`, `funded`, `earnings`, `busy`, `totalCalls`, `trialUsed` and `blocks`.
`SettleOutcome` keeps the order of the statements in `settleTick`: status re-check,
conditional debit, then the INSERT that UNIQUE may refuse. `CallBilling` has the
processes, cut wherever the code awaits something another process can see:

| code | actions |
|---|---|
| `initiate` | `InitiateCheck`, `InitiateClaim` or `InitiateRefused` |
| `accept` | `Accept` (transaction), `AcceptInitState` (Redis), `AcceptBurnTrial`, `AcceptSchedule`; `AcceptDies` between any two |
| `end`, Agora webhook | `EndRequested`, `EndCall` (transaction), `ClearCallState`; `EndRequestDies` |
| tick consumer | `Deliver`, `LoadLiveCall`, `Settle`, `RecordTick`, `ReleaseLock`, `ReloadCall`, `ChainNextTick`, `ForceEnd`, `ForceClear`, `Acknowledge`; `TickFails` at any step |
| sweep | `SweepQuery`, `SweepRow`, then `EndCall`; `SweepDies` |
| block, adjust | `Block`, `Unblock`, `Credit`, `AdjustDown` |
| time and Redis | `CallGrowsOld`, `StateGrowsStale`, `LockExpires` |

The queue is `sent`, `acked` and `left`: a tick may be delivered again, also to a
second consumer at the same time, until it is acknowledged or given up. Time is only
the three actions of the last row, enabled at any moment. The Redis call state is
one bit, because the sweep asks nothing else of it. The block check and the
pre-flight, two reads in a row, are one step. `CallLedger` promises what a call
charges, with no lock, queue or crash; `CallBilling` maps `phase` to `status`, `charged` to
`ticks`, `wallet` to `balance` and `earned` to `earnings`.

**Background work.** `Payouts`: the request locks the profile row, the review commits and
publishes afterwards (`reviewing` is the gap), the worker's transaction pays or rolls
back. `Purchases`: a verification reads the row, asks Google, and writes; UNIQUE on the
token's hash and on the ledger's topup reference decide races. `SweepChain` and
`LiveChain`: messages keyed by minute, and by half minute, that publish their
successors; a clock that moves by one such window, and an `aiming` step between
`Date.now()` and the send, since the window may pass in between. A sweep goes on while a
call is live, a Live sync while the demand key in Redis stands.

**Around the calls.** `SignIn` takes one identity's Redis keys command by command.
`Accounts` keeps each row lock that is held across steps (`UserLocked`,
`ProfileLocked`): a withdrawal and an erasure lock different rows. `Erasure` has
objects (`stored`) and rows that name them, uploads behind signed URLs that outlive
the account, and the erasure's read, remove, list, sweep and commit. `ListenerDesk` has
one profile from before it exists; `photo_count` is the number of rows, as its trigger
keeps it. A report suspends it by a status read earlier (`StatusRead`,
`SuspendedByReport`), which may revive a deleted account. `Social` has one pair of users, and every query of the friend and chat
handlers. `Feed` has a post and its object through delete, moderation and purge;
`Responses` one viewer's racing taps on one post, with the history that its property
needs (`ever`, `raced`, `forgot`). `Pushes` has tokens on file, tokens
FCM refuses, and deliveries between reading a token and clearing it. `Live` has syncs that
overlap, each a fetch, a read, two writes and a snapshot, and the listing's geoban
filter for what the edge discloses of a viewer. `LiveDesk`, `LoginBackground` and
`Console` have a browser's own state (drafts, numbered previews, pending dialogs)
against the stored rows, with other administrators at work. `LiveDesk` keeps the preview's
heading (`note`) and `lastPreview`, which a device button shows again; other
administrators may store any document that `PUT /settings` accepts, also one with a model on
both lists (`mixed`). In `Console` a rule
`<<from, action, to>>` is one outcome of a route on a row, for every kind of item.

`MCProduct` and `MCBackground` put components that share no variable into one run each:
a behaviour is about one of them, named by `subject` or `work`, and the others stand still.
`MCCallBilling` and `CallClaims` give instances and the properties they need.

## 3. Properties and runs

| run | question | instance |
|---|---|---|
| `tick_safety` | is billing right under redelivery, death and lost Redis keys? | 1 call, 2 consumers, 2 minutes, 2 deliveries, coins for both minutes, 1 end request |
| `claim_safety` | is the listener's claim exclusive and returned? | 2 callers, 1 listener, 2 calls, blocks, sweep and end requests |
| `call_liveness` | does everything end? | 1 call, 1 consumer, coins for 1 of 2 minutes, a top-up at any time |
| `background_work` | is money paid and credited once, do the chains go on? | 2 payouts of 1 earner, 2 deliveries; 2 verifiers, 2 tokens, 1 order; 1 call and 3 sweep messages; 1 listing at a time and 3 sync messages |
| `product_safety` | the thirteen components around the call | 2 requests, tabs, taps, syncs or dialogs under way in each |
| `claim_*` | statements of the repository that fail (section 6) | the smallest instance that shows each |

Paid calls: `OneCallPerListener`, `LiveCallHoldsListener` (the claim is exclusive and
lasts as long as the call), `BusyListenerExplained` (a busy listener is in a live call, or in
one cut by a block), `TotalsMatchTicks`, `CoinsConserved`, `OverCallIsFrozen`,
`AckedTickHasSuccessor` (the chain cannot stop with nothing left in the queue),
`BilledMinutesWerePublished`, `ImplementsLedger` (refinement), and the liveness
properties `RingingIsResolved`, `ActiveCallEnds`, `TicksDrain`.

Background: `PaidOnce`, `DecisionStands` (a review's decision is not undone),
`OpenPayoutsCovered` (the open payouts of an earner never exceed what was earned),
`PublishedPayoutIsPaid` (liveness), `PaymentsCreditedOnce`, `FirstOutcomeStands`,
`StaleCallIsSwept` (liveness) and `ChainsStayArmed`: while a call whose `ensureSweep`
returned is live, or the demand of a listing whose `ensureLiveSync` returned stands, some message
has still to look at it. That is what a key which swallows a publication relies on.

Product: `GuessesBounded`, `OneAccountPerIdentity`, `ErasedOwesNothing`,
`ErasedMediaIsGone`, `ApprovedIsComplete`, `ChatWasAllowed`, `AnswersStand`,
`VisiblePostHasMedia`, `TapsStayQuiet`, `LiveTokenKept`, `BannedPlacesSeeNothing`,
`FeaturedNotHidden`, `PreviewIsOfTheDraft`, `BackgroundHasMedia`, `NoBareOverlay`,
`LastDecisionIsLast`, `OneAdminPerEmail`. Each is stated above its definition with the
exceptions the code makes: `GuessesBounded` allows three windows of attempts, less the one
attempt used when the code was stored, and one more per request in flight, because the
counter and the code are separate keys;
`BannedPlacesSeeNothing` speaks of a sync that overlapped no other, because the one that
fetched earlier may write last: it shows that such a run repairs what overlapping ones left;
`ApprovedIsComplete` excepts photos taken by a moderator and an account that a report
revived after its deletion; `TapsStayQuiet` excepts, from "one like notification, ever",
taps that raced and a notification the author deleted; `FeaturedNotHidden` excepts names
that a save from elsewhere put on both lists; `PreviewIsOfTheDraft` speaks of
a preview headed "saved" or "unsaved settings", since after a failed preview the heading is
empty and a device button may bring back an earlier one; `LiveTokenKept` protects
tokens FCM has not refused.

Why the bounds are enough. Every race here is between two actors about one item, so
each component has two requests in flight and, where items compete, two items
(three admins and three photos, where a third is needed for a conflict while two
stand). The Live editor has one save of its own under way beside other administrators'
saves (`Saves = 1`; section 5 holds for any number). The view of `product_safety` tells
states apart by the component that moves, since the others stand still, and by how many
requests stand where, since requests of a kind take the same steps; its two action
properties name no request. The run has one attempt per window, where two windows and three
give the same number; with `MaxAttempts = 2` TLC tells them apart and confirms three (the states
of `SignIn` grow fourfold), and section 5 proves three for every limit.
Two deliveries give a retry and a last one. Two minutes give a chain
with a successor and a predecessor; three messages of a chain give one acknowledged late, one
running and one waiting. A listing at a time still meets messages of earlier listings;
with two at once `LiveChain` has 245,000 states and the same result. Bounds that the
code does not have are named where they are declared ("bound"): `MaxMinute`,
`MaxDeliveries` (8), `MaxRequests`, `MaxFunded`, `MaxEarned`, `MaxCodes`, `MaxAsked`,
`MaxComments`, `MaxShares`, `Previews`, `Saves`, `SweepSlot`, `ChainSlot`; `WindowPasses` and
`MinutePasses` state theirs in a comment. `SYMMETRY` (calls, consumers) is used in `tick_safety` and
`claim_safety`. Neither they nor `product_safety` check liveness. Every action fires in some passing run. Deadlock is not checked:
when calls are over, messages drained and payouts closed, the system rightly has nothing
to do.

## 4. Fairness

Only `call_liveness` and `background_work` state liveness. `FairSpec` assumes: a consumer's
steps (WF: an invocation that is not killed runs on; `TickFails` may still win at any
time); delivery of every due message (WF, the queue's promise, up to its delivery
limit); time (WF on ageing, staleness and lock expiry); the sweep's query (WF) and its
rows and the `endCall` that follows (SF: a run may die at any of them, not every run
does). Clients owe nothing: no fairness on accepting, hanging up or blocking. WF on
`StateGrowsStale` needs a word: each tick refreshes the state, but the chain of a call
is finite because its coins are, which the bounds on minutes and funding stand for.

`WorkSpec` assumes the delivery and the run of a published payout (WF; it may fail until its
deliveries are used up), and for sweeps the clock, the daily cron, a publication under
way and a message's steps (WF), and `Swept` (SF: it may fail any number of times, not
for ever). `StaleCallIsSwept` so replaces the assumption of `FairSpec` that the sweep
keeps coming by the queue's, the clock's and the cron's. `LiveChain` states no liveness:
Redis may drop the demand at any time, and the next listing starts the chain again.

## 5. Proofs

| theorem | for every set of actors, items and bounds |
|---|---|
| `TypeCorrect` | `Spec => []TypeOK` |
| `ListenerIsClaimedOnce`, `LiveCallIsHeld` | `Spec => []OneCallPerListener`, `[]LiveCallHoldsListener` |
| `BusyIsExplained` | `Spec => []BusyListenerExplained` |
| `EachMinuteChargedOnce`, `CoinsAreConserved` | `Spec => []TotalsMatchTicks`, `[]CoinsConserved` |
| `OverIsFrozen` | `Spec => OverCallIsFrozen` |
| `ChainIsUnbroken`, `BilledMinutesFollow` | `Spec => []AckedTickHasSuccessor`, `[]BilledMinutesWerePublished` |
| `ImplementsCallLedger` | `Spec => ImplementsLedger` |
| `PayoutsTypeCorrect`, `WithdrawalsAreDebitedOnce`, `RequestsAreCovered`, `DecisionsStand` | `PayoutSpec => []PayoutTypeOK`, `[]PaidOnce`, `[]OpenPayoutsCovered`, `DecisionStands` |
| `PaymentsAreCreditedOnce`, `OutcomesStand` | `PurchaseSpec => []PaymentsCreditedOnce`, `FirstOutcomeStands` |
| `WorkTypeCorrect`, `ChainsNeverRunDry`, `MoneyIsSafe` | `WorkSpec => []WorkTypeOK`, `[]ChainsStayArmed`, the invariants about money |
| `AccountsTypeCorrect`, `IdentitiesAreSingle`, `ErasureIsFinal` | `AcctSpec => []AcctTypeOK`, `[]OneAccountPerIdentity`, `[]ErasedOwesNothing` |
| `GuessesAreFew`, `EmailsAreSingle` | `CodeSpec => []GuessesBounded`, `AdminSpec => []OneAdminPerEmail` |
| `NothingOutlivesTheAccount`, `ApprovedStaysComplete` | `FileSpec => []ErasedMediaIsGone`, `DeskSpec => []ApprovedIsComplete` |
| `BansAreObeyed` | `LiveSpec => []BannedPlacesSeeNothing` |
| `SocialTypeCorrect`, `ChatHasReason`, `FirstAnswerStands` | `SocialSpec => []SocialTypeOK`, `[]ChatWasAllowed`, `AnswersStand` |
| `MediaOutlivesItsPost`, `TapsAreQuiet` | `FeedSpec => []VisiblePostHasMedia`, `ResponseSpec => []TapsStayQuiet` |
| `PushesTypeCorrect`, `RegisteredTokensStay` | `PushSpec => []PushTypeOK`, `LiveTokenKept` |
| `NoOverlayIsBare`, `DecisionsAreLast`, `ConsoleTypeCorrect` | `ConsoleSpec => []NoBareOverlay`, `[]LastDecisionIsLast`, `[]ConsoleTypeOK` |
| `ListsStayApart`, `PreviewCatchesUp` | `LiveDeskSpec => []FeaturedNotHidden`, `[]PreviewIsOfTheDraft` |
| `LoginScreenHasMedia` | `BackgroundSpec => []BackgroundHasMedia` |
| `ProductTypeCorrect` | `ProductSpec => []ProductTypeOK` |
| `AccountsAreSound`, `MediaAreSound`, `ScreensAreSound`, `AnswersAndTokensStand` | `ProductSpec =>` the components' properties |

So every invariant and every action property that a passing run checks is a theorem
about the specification that run checks, and so is the refinement.

The arguments. *Sums.* `SumProofs` derives what the community modules' `SumFunctionOnSet`
does when a value changes, an element joins or the set is empty. Its fold is a recursive
function, and the induction theorems cannot be instantiated here: that the function exists
for sets of every size is shown by a least counterexample (`LeastNatural`, from the
well-foundedness of the naturals).
*Calls.* `TypeOK` is inductive; one lemma per transaction types the rows,
one step per action the rest. `NextStoreStep` shows that each step does one transaction of
`CallStore` or leaves the rows alone, so facts about rows need one case per transaction.
`OneCallPerListener` and `LiveCallHoldsListener` are inductive together and not apart
(`ClaimInv`). `CoinsConserved` needs that the calls made are finitely many (`CoinsInv`)
and that a call not yet begun has no totals (`UnusedIsBlank`): only then does a claim,
which gives the row its parties, move no sum. The theorems of the chain need `ChainInv`, which follows a message through its
consumer. The refinement maps each transaction to one action of the ledger (a block that
cuts nothing, and the trial flag, to a stutter) and needs `ClaimInv` for `Ring`.
*Payouts.* A row is paid and debited in one step out of `approved`; a
message in the queue has a delivery left. What is open is a finite sum (`CoverInv`), and
leaves it by what is paid. *Purchases.* The sets of what a buyer paid for
are finite (they start empty and grow by one), so their cardinalities follow each credit;
no bound on tokens or orders is assumed.
*Chains.* A message carries the chain on if it has still to look, or will publish under a
free key (`Carries`, `LinkExtends`). A key of the next period belongs to a message nobody
can deliver yet (`NextIsWaiting`, `NextLinkWaits`); a key of this one swallows only what
was aimed in the last, and then for a call that has been live, or a demand noted, since
before (`Relies`, `ListingRelies`). So a reliant call or listing has a message that
carries on (`ChainCarriesOn`, `ChainExtends`), and a message stops carrying on only
when it found nothing live, published another, or was given up (`gaveUp`, `broken`).
*Accounts.* An erased account stays without a payout because an erasure holds its lock
over an account without one, and a withdrawal its lock over a profile that may still
withdraw (`AcctInv`): each lock carries what was read under it. *Codes.*
A guess was counted before it is compared, so the guesses of a code are bounded by the
attempts counted since it was stored (`GuessesWereCounted`). Trying to prove the bound
stated first, two windows, refuted it: a code can meet the rest of the window open when
it is stored, one that opens if that window's key expires before `sendCode` resets the
counter, and one after the reset. With one attempt per window the two bounds agree.
*Admins.* An email a request found free may be taken before it writes; the UNIQUE
constraint decides. *Erasure.* The strict sweep's list covers what is stored except late
uploads (`SweepCovers`). *Desk.* A row may go only while more than the minimum is left, and a deleted account
comes back only by a report, which the history notes.
*Live.* A run that overlaps no other agrees with the rows it compared, and with all once it
wrote what changed (`RunsAgree`). *Social.* Each query that lets a message through reads a
fact, and what it shows of the past stays true (`AllowedStays`): so a permission found
earlier is still justified when the message is written. *Feed.* A post nobody is purging is
whole (`Whole`): a visible one, and one a moderator removed, has an object nobody is
about to unlink. *Responses.* What the author was told fits what taps under way may still
tell (`ToldFits`, `RemarkedFits`); without a race one tap at most is about to tell, and
nothing is told before it does (`InTurn`, `FirstIsKept`). *Pushes.* A refused message carries a dead token
(`RefusedIsDead`), and a clearing names its token. *Console.* The overlay
and Escape move together, and a last decision leaves the row in a status from which
only the allowed ones lead. *LiveDesk.* An edit puts no name on both lists, and documents
are never mixed; the newest preview under way is of the draft or a newer one is due, and what
a heading names is the last preview (`FollowsTheDraft`).
*Login background.* While saves come in turn, what a save checked is stored and what it
will drop is unused (`CheckedIsSound`, `DropsAreUnused`).
*Composition.* `MCBackground` and `MCProduct` compose components that share no state:
`WorkMoves` and `StepsApart` show that a step is a step or a stutter of each, so the
conjunction of the inductive invariants is inductive.

Assumptions: the named `ASSUME`s of the modules, which TLC evaluates in every run.

Only model-checked: the liveness properties (`RingingIsResolved`, `ActiveCallEnds`,
`TicksDrain`, `PublishedPayoutIsPaid`, `StaleCallIsSwept`), since fairness and ENABLED are
beyond the prover.

## 6. Where the code and its documents disagree

- `claim_busy`: `POST /safety/block` ends a call without freeing its listener, who
  stays busy; `endCall` finds the call ended and returns early, so nothing repairs it.
- `claim_idempotent`: a redelivered tick of a paid minute answers `insufficient_balance` when
  the caller has no coins for another minute, since the debit precedes the INSERT that
  would have answered `duplicate`; the call is cut off.
- `claim_skip`: a minute skipped because the lock was held is lost when the holder fails.
- `claim_trial`: two ringing calls of one caller both carry the free trial.
- `claim_block`: a block committed between initiate's check and its claim does not stop
  the call.
- `claim_payout`: an instance that dies after a payout's approval commits leaves it
  approved for ever, for no other code publishes its job.
- `claim_live`: a model that goes offline and returns with the content it had keeps the
  status `offline`, and the listing hides it.

Seen while reading, without a run:

- `realtime/socket.server.js:45` calls `query` without importing it: every handshake throws,
  is answered "unauthorized", and no socket connects.
- `admin.auth.js:92-96`: two bootstraps that both count zero create two super admins,
  though `016_admin_accounts.sql:4-6` knows one. Password and email changes check, then write.
- `reports.admin.js:176-219` suspends by a status it read unlocked, and so revives a row
  deleted in between, though `users.admin.js:321` refuses that. `Accounts` and `ListenerDesk`
  model it: the deletion took the photos and left `kyc_status`, so a creator revived and
  restored is approved with no photos, an exception in `ApprovedIsComplete`.
- `feed.routes.js:438` promises "One like notification per (post, liker), ever": two
  taps (like, unlike, like) that both look before either tells write two, and one more follows
  when the author deletes the notification and the viewer likes again. `Responses` models
  both, exceptions in `TapsStayQuiet`. `notifyComment` looks the same way (line 457).
- `live-settings.js:384-390`: a device button renders the last successful preview. After
  a failed preview (406-410), whose error it wipes, that is one of an earlier draft. `LiveDesk`
  models it; the heading stays empty, and `PreviewIsOfTheDraft` speaks of headed previews.
- `live-settings.js:343` says a model cannot be both featured and hidden; `PUT /settings`
  checks each list alone (`live.settings.js:100-105`) and stores such a document. `LiveDesk`
  lets another administrator send one.
- `fcm.js:162-166` takes every 404 and INVALID_ARGUMENT for a dead token, so a message FCM finds
  invalid costs the account its token. `Pushes` counts such tokens as `dead`.
- `users.routes.js:259-261` says a device token leaves every other account; its two
  statements race, and two accounts may hold it. A push is lost on FCM's 401.
- Avatars are never removed from Storage, though `deletion.admin.js:36-39` says all
  personal data is. `removeStrict` forgets earlier batches when a later one fails.
- `payout.worker.js:59` publishes the push inside the transaction, which may roll back.
- `live.service.js:300-306`: a listing whose own refresh failed answers `unavailable` also when another
  instance has stored a usable snapshot in the meantime.
- `chat.routes.js:200-205` marks read every message that is in by then, also those the page
  did not fetch. `edit.admin.js:280-284`: a refused registration removes the object, also
  when another request has registered it.
- Console: the Overview view waits for elements only the System view has; a wrong current
  password (401) signs the administrator out; a confirmed dialog may act after it was
  cancelled; answers out of order overwrite newer lists; a wallet adjustment that is sent
  again is made again. Live settings: concurrent saves lose changes and the audit's list of
  changes is computed outside the transaction. Live: of two overlapping syncs the earlier may
  write last (why `BannedPlacesSeeNothing` speaks of runs that overlapped none). Login background: overlapping saves may drop
  media in use (which is why `BackgroundHasMedia` speaks of saves that never overlapped).

## 7. Plan

1. Paid calls with their runs and proofs. Done.
2. Background work and the components around the call, in `MCBackground` and `MCProduct`. Done.
3. Proofs of every invariant and action property. Done (section 5).
4. Presence, when sockets connect; what a Live listing answers while it waits for a
   refresh; read marks and reactions of chat; avatars; admin passwords and their tokens.

## 8. Not modelled

Presence, socket events and the presence topic: no socket connects at this commit, so
their states are unreachable (above). Clients of third-party services (Agora, SMS, email,
the gateway, FCM beyond its answers): pure I/O, modelled by what their answers make the
code do. The mobile and web apps: user interfaces over the same routes. Listings,
dashboards, reconciliation and history: they only read. Profile text, prices, captions,
ratings and reports that change no other component's state: single statements. Rate
limits, validation and error reporting. Scripts, seeds and migrations, except for the
constraints (UNIQUE, CHECK, triggers) that decide races.
