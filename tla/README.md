# creator-api in TLA+

creator-api is a NestJS backend for a paid-content platform: accounts with
rotating refresh tokens, creators with plans, posts and media behind an access
rule, crypto and PayPal checkouts whose webhooks grant access, and realtime
messages. It runs as one process over PostgreSQL (Prisma), Redis and an
S3-compatible store. These modules state what its core must do whatever
requests run at once, and what has been checked and proved of it. All source
paths below are relative to the repository; `PROJECT.json` maps every definition
to its lines.

## 1. Inventory

All components are NestJS services in one process. They call each other
directly, and share the database: almost every hazard is two requests between
whose statements something else happened. Prisma statements and
`$transaction([...])` batches are atomic; between two statements anything may
run. `$transaction(async tx => ...)` holds the rows it wrote (PostgreSQL's default
READ COMMITTED) until it ends.

| Component | State it keeps | Operations | Hard behaviour | What makes it correct |
|---|---|---|---|---|
| Checkout (`payments`, `subscriptions`, `tips`) | Transaction rows (PENDING), invoices at the provider | plan, post, media and tip checkout | the row precedes the invoice; prices may be discounted; checks are made at checkout and not at payment | fair fee, nearest discount, whatever can be paid has its row |
| Webhooks and fulfilment (`payments`) | Transaction, WebhookEvent, Wallet, Subscription, Purchase, Tip | NOWPayments and PayPal notifications, capture, `fulfillOrder` | repeated, reordered, intermediate notifications; crash between event row and fulfilment; parallel fulfilments on shared rows | nothing granted unpaid; all or nothing; each order credited once; paid months add up; what is paid is granted |
| Subscriptions | Subscription, cancel flag | cancel | cancellation beside a renewal | paid time never shrinks |
| Login, sessions, reset (`auth`) | User (password, failures, lock), Session (current and previous token hash), VerificationToken | login, refresh, sign-outs, forgot/reset password | token rotation in parallel, lost answers, replays, resets beside logins | a session is lost to a lost answer or a doubled refresh only, revocation is final, replays are noticed, resets end old sessions |
| Registration and verification (`auth`) | User (address, `emailVerifiedAt`), Profile (username), VerificationToken | register, verify, resend | lookups before the insert; one link followed twice; links of two kinds | names are unique; no tokens for an unconfirmed address |
| Guard (`jwt-auth.guard`) | none; reads Session and User | one check per request | checked once, acted on later | no request starts on a revoked session |
| Administration (`admin`), roles guard | User.status, User.role, rank | create, update, status, role, password, creator, badge, delete; removing posts | ranks read before the write; role in a 15-minute token; batches that fail as a whole | accounts are changed from above only; a role that was taken away lapses |
| Creators and plans | CreatorProfile, plans | `becomeCreator`, plan upserts, deactivation | role overwritten beside staff who change it | nobody rises by it; plans change by their owner only |
| Media (`media`) | Media rows, objects in the store | signed upload, confirm, access, trash, signed delivery | confirmations in parallel; row and right read one after the other | only stored objects get rows, one each; URLs only for who is entitled |
| Posts (`posts`) | Post, PostMedia, Like, Comment, counters | create, feeds, bookmark, like, comment, remove | transactions on counters; rights that end during a feed; media trashed while being attached | counters match rows; nothing shown or written without a reason |
| Messaging (`messaging.service`, blocks and follows of `users`, `notifications`) | Conversation, Participant, Message, Notification, Block, Follow | start, send, read, delete for everyone, history, follow | find-then-create; block set during a send; two-step read mark; pages beside deletions | blocks hold, receipts complete, every stored message delivered, a history walked to its end is complete |
| Gateway and presence (`messaging.gateway`, `redis`) | presence sets and TTLs in Redis; rooms | connect, disconnect, broadcasts | handlers interleave at every Redis reply; lost connection; restart | presence and the last broadcast are true at rest; what a crash leaves lapses |
| Cursor pages (`pagination.util`) | none; the client holds a cursor | one page of a listing | the cursor's row is gone before the next page | see messaging |
| Profiles (`users`) | Profile | pictures, texts | media trashed meanwhile | only one's own media |
| Mail, health, configuration | none | output, start-up | none that a test would miss | – |

`PROJECT.json` has the same list with a status per part, and the hazards line by line.

## 2. Modules

| Module | Models | Notes |
|---|---|---|
| `Accounts` | registration, verification, sign-in roles, both guards | one step per statement |
| `Administration` | the account operations of `admin.service` | EXTENDS Accounts |
| `Creators` | creators and plans | EXTENDS Administration and Pricing: the composition that is checked |
| `Pricing` | fee, discount, amount check | pure operators, integer cents; the discount is a *set* because half cents may round either way in binary floating point |
| `OrderBook` | what payments promise | abstract: open, pay, fulfil in one step, cancel |
| `Payments` | checkout, webhooks, `fulfillOrder` | one step per statement; `INSTANCE OrderBook` as refinement |
| `Sessions` | `auth.service`, guard, two admin operations | one step per statement |
| `Presence` | gateway handlers over Redis | a FIFO pipe of commands |
| `Paging` | `buildCursorQuery`, `toCursorPage`, Prisma's cursor | pure operators; what Prisma does with a cursor whose row the filter excludes is a *set* of outcomes |
| `Messaging` | conversations, messages, read marks, deletions, history, blocks, follows | one step per statement; uses Paging |
| `Entitlement`, `Media`, `Posts` | the access rule; the vault; posts and the pictures of a profile | each EXTENDS the one before: `Posts` composes all three, as PostsModule imports MediaModule; `INSTANCE Board` as refinement |
| `Board` | what posts, vault and profiles promise | abstract: every change is one step, made of what the rows say at that step |
| `PaymentsInv`, `SessionsInv`, `CreatorsInv`, `MessagingInv`, `PostsInv`, `PresenceInv` | the inductive invariants | the runs' modules extend them, so that TLC could try each before it was proved |
| `PricingProofs`, `PaymentsProofs`, `PaymentsRefinement`, `SessionsProofs`, `CreatorsProofs`, `MessagingProofs`, `PostsProofs`, `PresenceProofs` | theorems | |
| `MC*` | TLC instances | bounds, symmetry |

How state and actions correspond to code:

* **Requests.** `req[w]` is a request in progress: `pc` names the statement it runs
  next, the other fields are its local variables (values read earlier and used
  later: this is what makes stale reads visible). A request begins with its first
  statement and answers with its last. It may die anywhere (`Fail`, `Die`); an open
  transaction is then rolled back.
* **Accounts, Administration, Creators.** `account[u]` is the User row with its
  Profile, CreatorProfile and Wallet; names stand for addresses and usernames, and the
  unique indexes are guards of the writes (`UniqueIn`). Staff requests start as any
  other: `Admit` is the JWT guard, which hands on the role in the *token*; `Find...` reads
  the target and compares ranks (`CanAct`, `CanAssign`); the batch that follows asks
  neither again. A batch has its audit row, so it fails as a whole when the acting
  account is gone. `token` keeps the roles that were signed and when; `now` counts ticks
  of an access token's life. Refusals are requests that die.
* **Payments.** `order` is the Transaction table by `providerRef`; `wallet`, `sub`,
  `purchases`, `tips`, `events` are the tables `fulfillOrder` writes; `pay` and
  `invoiced` are the providers'. In `fulfillOrder` the steps are ReadOrder (before
  the transaction), ClaimOrder (`updateMany ... PENDING`), CreditWallet,
  ReadSubscription, Grant and Commit. The writes appear at Commit; meanwhile
  `OrderLocked`, `WalletLocked` and `SubLocked` make others wait, as PostgreSQL does.
  A notification may be delivered at any time once it is true, any number of times.
* **Sessions.** Tokens stand for their hashes and are fresh (`crypto.randomBytes`).
  `given` and `sent` are what clients hold and did; `from` is the token that a new
  one was exchanged for, so that the tokens of a session form a tree, and `lost` holds
  those whose answer a fault took. Time is abstracted to the moments it passes (locks,
  sessions and links expire when the environment says).
* **Presence.** Handlers send one command, wait for the reply, send the next. The
  step that takes a reply also runs the handler to its next `await`. After a broken
  connection ioredis sends unanswered commands again (`Reconnect`), executed or not;
  after `maxRetriesPerRequest` they all fail (`GiveUp`), and `handleConnection`
  disconnects its socket. `Restart` ends the process with its sockets and handlers; what
  Redis had been sent may be done or not. `Expire` is the TTL of the key, which only
  exists after EXPIRE: a crash between SADD and EXPIRE leaves a key without one
  (`untimed`). Sockets are numbered as they come, which only removes symmetric states.
* **Paging.** A page is asked for with the cursor of the page before. Rows are numbered as
  they are created; equal timestamps are left out. Listings order by `createdAt`, which is
  not unique, and filter out deleted rows: when the cursor's own row has been deleted
  meanwhile, Prisma either skips another row in its place or finds nothing at all.
* **Messaging, Posts, Media.** As Sessions. `faults` keeps the requests that failed as
  they were at that moment, so that a property excuses exactly what they left undone. `walk` is a client that follows
  cursors to the end of a history. `met[w]` is history: what has been true at
  some moment of request w. It expresses what a check made before a write can and
  cannot promise: the write has a reason that held *during* the request. A socket's
  requests pass no guard; REST requests pass the guard that Sessions models.
* **Likes.** `InsertLike` waits for whoever is writing the same row, `DeleteLike` only
  for a deletion (an uncommitted insert is invisible to it); `Count` waits for the
  post's row; `Commit` publishes both.

## 3. Runs

All passing runs are exhaustive; the numbers of requests in progress are two because each
property is about one request meeting one other, and a third adds no new meeting
that the interleavings of two, repeated, do not have. The theorems of section 5
lift the most important ones to any number.

| Run | Asks | Bounds |
|---|---|---|
| `accounts` | names, confirmed addresses, changes from above, roles that lapse, plans by owner; fee and discount of every plan | 3 accounts, 2 sessions, 2 links, 4 tokens, 2 ticks, eight mixes of operations |
| `payments` | nothing granted unpaid or twice, all or nothing, cents and months add up, `OrderBook` | 1 buyer, 2 plans, a post with two checkouts, tips, 2 orders, 2 payments, both providers, amounts off by 0 or 2 cents, 2 months, 1 fault |
| `live` | settled is granted, requests end | 2 PayPal orders for a plan, no fault |
| `lost`, `twice`, `unreported` | *violated*: see findings | 1 fault; none; none |
| `sessions` | how a client may lose its session, revocation | 1 account, 2 sessions, 3 tokens, 1 link, 1 lost answer or crash |
| `sessions_reset`, `sessions_replay` | *violated*: see findings | no fault |
| `presence` | presence and last broadcast true at rest; departures announced; what a crash leaves lapses | 3 sockets of 1 user, 2 broken connections or restarts |
| `messaging` | blocks, reuse, receipts, delivery, complete histories | 3 users, 2 conversations, up to 3 messages, pages of 1, 1 fault, seven mixes of operations |
| `content` | counters, reasons, own media, idempotent confirm; `Board` | 2 users, 1 upload, 1 post, seven mixes of operations |

Why the bounds suffice: prices in `payments` are chosen so that the fee is rounded and a
discounted price ends in half a cent; two orders are the least that renew each other, or
pay one post twice. Two months are enough: what is sold is a month and a quarter, a
period that has lapsed and one that was never bought are extended alike (from now), and a
month may pass before, between and after the two payments. `VIEW Unanswered` leaves the
acknowledged notifications out of a state; no action of `Spec` reads them (only
`FairSpec` and the runs under it do). `VIEW Failures` keeps of a failed request of
`messaging` what it left undone, which is all that the properties read.
Three tokens are the least for a token
that is neither current nor previous. Three sockets let two leave while one arrives.
Two faults let a handler be cut off and its recovery be cut off, too. Three messages in
pages of one give a history a first, a middle and a last page; with deletions it has two
messages, enough for a cursor to lose its row with another still to come. In `accounts`,
three accounts are one for each side of a rank comparison and one that acts on both;
`Cast`, `SignedIn` and `Asks` say for each mix who is there, who is signed in and what
forms are sent: registrations for the same names, renamings onto taken names, promotions
to and below the acting rank. Two ticks with a `Life` of one let a token end while its
session goes on; a sign-in takes less than a tick.
`Mixes` in `content` names which operations meet in one behaviour: every pair of
operations that touch the same rows is in some mix, and rights change
beside each operation that reads them. Failed logins lock after two instead of five
(`MaxFailedLogins`).
`CHECK_DEADLOCK FALSE` is set only where all tokens, sockets or prices may be used up.

Each property of a passing run has a mutant: a definition changed the way a plausible
bug would change it, for which TLC finds the property violated.

**Fairness.** `Payments!FairSpec`: weak fairness of each request's next statement
(node and PostgreSQL run what was started and the lock holder commits), and strong
fairness of delivering an unacknowledged notification of a settled payment: both
providers repeat until they get a 200, and a request to take it may be available only
now and then. Nobody has to buy, pay, capture or cancel. `Sessions!FairSpec`: weak
fairness of a begun request. `Presence!FairSpec`: Redis answers, or is given up on, and a key with a TTL expires once
nobody has connected as its user for an hour (the TTL is set at each connection).

## 4. Findings

Five runs show a statement of the repository that the code does not keep:

* `lost`: the WebhookEvent row is committed before `fulfillOrder` runs. One failure
  in between and every redelivery is answered as a duplicate: paid, never granted.
* `twice`: two open checkouts for one post, both paid: the second violates the unique
  index, rolls back and stays PENDING for good, neither granted nor refunded.
* `unreported`: `fulfillOrder` compares the reported amount only when it is above zero
  (payments.service.ts:367), so a notification without an amount, or with one that is
  no number, grants its order; README.md:62 says "we look up our record and **verify the
  amount** before granting access". `NeverWithoutPayment` and `OrderBook` therefore speak
  of payments that report the right amount *or none*; that a wrong one grants nothing
  is checked and proved.
* `sessions_reset`: a login that verified the old password opens its session after
  the reset that "revokes ALL sessions".
* `sessions_replay`: a token older than the previous one is not recognised, so its
  replay revokes nothing.

## 5. Proofs

TLAPS checks every theorem for all values of the constants (any number of users,
orders, payments, requests, faults), from the named assumptions of the modules only:
disjoint kinds of targets, creators are users, prices and discounts in range, 1, 3
or 12 months, absent-row values outside the row types (`NoUserIsNone` and its like), messages and
sockets numbered, `MaxFailedLogins` positive, finitely many users (for the counters of
likes). Every invariant and every action property of the passing runs is a theorem.

* **Pricing**: what the fee and the discount are, by integer arithmetic.
* **Creators** (with Administration and Accounts): `IInv` (module CreatorsInv) says what a
  request has learnt by the step it waits at: a signer's account is confirmed and the role
  it carries was the account's in this tick (`SignerOK`); a staff request past its lookup
  outranked its target, and what it gives ranks below it or was the target's role already
  (`StaffOK`); a good token has a role its account had within its life (`TokensHeld`).
  From it: `TypeAlwaysOK`, `NamesAlwaysUnique`, `NoTokensAlwaysUntilVerified`,
  `ChangedAlwaysFromAbove`, `RolesAlwaysLapse`, `PlansAlwaysByOwner`; with the arithmetic
  of Pricing, `FeeAlwaysFair` and `DiscountAlwaysNearest` for whatever a plan sells for.
* **Payments**: `Invariance` (`Spec => []IInv`). The safety properties are not
  inductive: that an order succeeds only when paid depends on what a request read
  many statements ago. `IInv` says what each request may rely on: past the capture
  its payment is settled; while the order is PENDING it is the row that was read;
  once claimed nobody else changes it (`OrderRowExclusive`); past the credit it is
  alone on the creator's wallet (`WalletRowExclusive`), which is why the period end it
  computed still extends the one in the database (`EndOK`) and the post it is about to
  unlock is still locked (`StillLocked`). From it: `TypeCorrect`, `PaidBeforeGranted`
  (against a payment that reports the right amount, or none at all, see section 4),
  `AllOrNothing`, `PostBoughtOnce`, `PaidTimeKept`. The two that add up, `LedgerKept`
  (wallets) and `MonthsKept` (periods), rest on lemmas about sums over a finite set of
  orders: a sum depends only on what is summed, grows by what one more order adds, and is
  empty at first. They are kept beside `IInv`, which shows that a Commit fulfils one order
  more, and writes the wallet and the end that this order adds to those in the database.
* **Refinement**: `PaymentsRefinement!Refinement`: every step of Payments is a step of
  `OrderBook` or a stutter; only Commit fulfils.
* **Sessions**: `Invariance` (`Spec => []SInv`). The tokens of a session form a tree:
  `SInv` says that one was presented before it was exchanged, for another of the same
  session, and that a token which was answered and never exchanged is the current one
  unless the tree forks (`ExchangesOK`); that a refresh past its lookup holds a token of
  its session, sent twice if it has been exchanged meanwhile (`PresentedOK`); and that two
  refreshes hold one token only if it was sent twice (`RefreshesApart`). From it:
  `TypeCorrect`, `LockoutsCaused` (a client loses its session by a lost answer or a
  doubled refresh and in no other way, and reuse detection strikes only where an
  exchanged token came back), and, per step, `RevocationHolds`.
* **Messaging**: `MInvAlways` (`Spec => []MInv`). `MInv` says which checks a request has
  passed while they were true (`MetOK`), who it is between (`PairOK`: conversations keep
  their two participants), and that rows name rows that are there (`RowsOK`). The two
  promises themselves are part of it, and inductive only with it: a new message has no
  notification row yet, and no other request has it in hand; a failed request takes with
  it only what it had in hand itself. From it:
  `ReadReceiptsComplete`, `MessagesDelivered` and, per step, `NothingGetsThrough` and
  `ConversationsReused`. Beside it, `HInvAlways` is about the client that pages through a
  history. `PageFacts` is what a page is, for every set of rows, cursor and page size: in
  order, older than its cursor, and down to the next cursor with none left out; it rests
  on what `Newest` sorts, `UpTo` cuts off and `Tail` skips. `ShownSoFar` says that what was
  shown ends at the cursor and nothing that was there all the while is missing before it;
  `ThereStill` that these, and the cursor's own row unless it was deleted, are still rows
  of the conversation; `OnePage` that no answer is shown twice. From both: `MessagingTyped`
  and `HistoryShownOnce`.
* **Posts** (with Media and Entitlement): `PInvAlways` (`Spec => []PInv`). `Learnt` says what
  a request has seen by the step it waits at, and that the row it saw keeps its author and
  access. For the counters: a transaction that inserts a like has found no row and waited
  for whoever wrote it, one that deletes has found it (`LikeOK`), and no two have the same
  row in hand (`Apart`); so a commit changes row and counter by the same one. From it all
  seven properties of its own: `TypeAlwaysOK`, `CountersAlwaysMatch`, `OwnMediaAlways`,
  `UrlsAlwaysHaveReason`, `FeedsAlwaysHaveReason`, `WritesAlwaysHaveReason`,
  `ConfirmationsIdempotent`.
  `BoardImplemented`: every step is a step of `Board` or a stutter, although posts are
  checked in one statement and written in another, and likes need three. `PInv` remembers only
  that the post *was* published at some moment; what the refinement needs besides is that
  it can only have been deleted since (`ReleasedOK`). It is not serialisability: the board lets a
  like, mark or comment come after the deletion of its post, as the code does.

* **Presence**: `PresenceInvariant` (`Spec => []PInv`). Its core is the order of the commands
  in the connection's queue: a socket's connect handler has at most one command on the way
  and so has its disconnect handler (`OneOfEach`), and the second never overtakes the first
  (`ComesBeforeItGoes`). So a closed socket still in the set has its SREM on the way unless
  its handler was cut off (`Leaving`), an open one is in or has its SADD on the way
  (`Joined`), and a handler about to broadcast "offline" has the commands of every socket
  that came meanwhile behind it (`LastSeenBeforeArrivals`, `Arrived`, `Departed`). A broken
  connection leaves a prefix of the queue executed, known to nobody, and then sends all of
  it once more: what a prefix makes of a set is the fold `Applied`, followed from step to
  step. From it: `PresenceTyped`, `PresenceRight`, `LastAnnouncementTrue`.

Induction. The induction theorems of the library take an operator and no prover here can
instantiate them. Where a proof needs induction over numbers, sequences or finite sets,
it takes a least counterexample instead: the set of counterexamples is named, a
smallest element of it is picked, and the step is contradicted. So sums, folds and
sorted sequences are within reach.

Only model-checked: liveness (`SettlementDelivered`, `RequestsTerminate`,
`DepartureAnnounced`, `GhostsLapse`), because TLAPS does not do ENABLED.

## 6. Not modelled, and why

* Webhook signatures: taken as checked; only notifications the providers sent arrive.
* Accounts in Sessions are verified and Accounts has no passwords: the two modules divide
  `auth.service` between them, and share the guard.
* A plan's or item's price is fixed; the calendar is counted in months, so the last days
  of unequal months are left out.
* Vault folders, pins, mutes, typing, marking notifications read, resolving reports and
  the texts of profiles and settings: one statement after one check of a row that never
  changes, and nothing else reads what they write.
* The media a message carries: their owner and status never change, so that the check
  of `sendMessage` depends on its input only (`RefuseMedia` is either answer).
* Listings other than feeds and the history. `bookmarksFeed` pages over the marks in memory;
  when the mark a cursor names is removed, it starts again from the first.
* Scheduled posts: README.md:81 names "scheduling", but no code publishes them, although
  ScheduleModule is imported.
* Several processes: the gateway has no Redis adapter, so broadcasts reach one process
  only.
* Rate limits, mail, logging, configuration: no state the properties need.

Seen while modelling, in the models as the code has it, and of no property:

* creators.service.ts:10 speaks of a USER account, but `becomeCreator` makes any account a
  CREATOR, staff too; `updateUser` with the role CREATOR makes neither profile nor wallet,
  which `setUserRole` and `makeCreator` do; `setVerifiedBadge` compares no ranks.
* `register` gives every account a wallet, which has no `onDelete`, so that a registered
  account cannot be deleted; `deleteUser` writes its log after the delete, and answers
  that records prevent the deletion when only the log failed.
* The role of a token outlives the account's, up to 15 minutes, also for a request that
  changes its own account: `RolesLapse` says how long.
* A verification link verifies the account, whatever its address has become since.
* Two requests with one reset link both pass the `usedAt` check.
* When the answer of a refresh is lost, the client holds only the token that was rotated
  out: its retry is taken for theft and revokes the session. Two refreshes with one token
  at once both succeed; the answer written first is worth nothing afterwards and, as it
  was never the previous token, presenting it goes unnoticed. `LockoutsExplained` says
  that there is no third way.
* Wrong passwords tried in parallel count once, and a writer that read the count before
  an account was locked writes the lock away (auth.service.ts:172).
* A crash between the two updates of `markRead` leaves messages unseen below lastReadAt; one
  between storing a message and telling of it leaves it untold, and nothing repairs
  either. `ReadMeansSeen` and `StoredIsDelivered` allow it to that request and no other.
* Two users, or one user twice, who start a conversation at once make two of it:
  `ReusedUnlessRaced` admits those that raced, and later messages go to either.
* README.md:50 says of data access: "every mutation is scoped `WHERE id AND ownerId` — no
  fetch-then-check races". Whose rows are written is indeed never raced
  (`PlansByOwner`, `OwnMediaOnly`), but other checks are: posts.service.ts:27 counts the
  media before the post is created, and an item trashed in between is attached;
  comments, likes and bookmarks come after the deletion of a post they saw published.
  `WritesHaveReason` admits both; it does not speak of the pictures of a profile, for
  which `updateProfile` checks the owner only.
* Login refuses SUSPENDED and BANNED accounts only; one whose status is DELETED
  signs in, and the guard then refuses it.
* A crash between SADD and EXPIRE leaves a presence key for good, although
  messaging.gateway.ts:23 says that presence lives in Redis "with TTLs".
* `emitNewMessage` broadcasts what `sendMessage` stored, also when the message was deleted for
  everyone meanwhile; the notification keeps its preview.
* `sendMessage` and `updateProfile` accept trashed media, which posts do not.

## 7. Plan

1. Abstract specifications that Sessions and Messaging implement, as Payments does
   `OrderBook` and Posts does `Board`.
2. The walk over bookmarks, whose cursor may be unmarked.
3. Rows created within one millisecond: a second key of the order in Paging.
