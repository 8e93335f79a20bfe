# bothy: a TLA+ model of the relay

bothy is a nostr relay for one person: a Cloudflare Worker in front of one
Durable Object (`src/src/relay.ts`), which holds every socket and one SQLite
database. This directory holds TLA+ modules of its core, the TLC runs that
check them on small instances, and proofs, checked by TLAPS, that the main
properties hold for every value of the constants.

The modules follow the code under `src/src/`; `PROJECT.json` says which lines
each definition stands for.

## The system

A handler of the Durable Object runs to its first `await` without interruption.
Between awaits other handlers run, and at any time the object may be put to
sleep or killed: SQL, the alarm and the attachments of hibernating sockets
survive, the fields of the `Relay` class do not. So an action of these modules
is one synchronous stretch of code, and an `await` splits a handler into
several actions with shared state free to change in between.

| Component | State it keeps | Operations | What is hard | Model |
|---|---|---|---|---|
| Event storage (`storage.ts`) | `events`, `deleted_ids`, `banned_events`, `vanishing` | storeEvent, applyDeletion, drainVanish, sweepExpiredGiftWraps, banEvent, allowEvent | four writers that do not know of each other; order of arrival; deletes in batches | `Events`, `EventStore` |
| Event acceptance (`relay.ts`) | none of its own | acceptEvent, handleGiftWrap, handleVanish | one write path per kind; order of its checks | in `EventStore`, `Writers`, `Room`, `Counters`, partly |
| Hourly cron (`relay.ts`, `index.ts`) | watermarks in `relay_meta` | sweeps, drains, migrations, audit, refreshes | throws or dies half way | in `EventStore`, `Writers`, `Room`, `Counters`, partly |
| Backfill (`backfill.ts`, `backfill-worker.ts`) | `backfill_meta`, `backfill_relays` | discover, fetch a page, ingest, purge, reset | a page is stale when applied; cut pages; overlapping invocations; budget | `Backfill` |
| Groups (`nip29.ts`, `groups.ts`) | `groups`, `group_membership`, `group_invites`, the signed 39000-series | moderation, join, regenerate | two tables and a signed document to keep together; one second of resolution | `Groups` |
| Web push and alarm (`relay.ts`, `push.ts`) | `push_subscriptions`, `push_outbox`, the alarm | notePush, drainPushOutbox, alarm, subscribepush | an await in the middle of the drain; one alarm, two users; budget | `Push` |
| Read path (`relay.ts`, `filters.ts`, `req-cache.ts`) | subscriptions on sockets, a request cache in memory | REQ, CLOSE, AUTH, broadcast | gates asked at REQ and again at delivery; SQL against a match in memory; a cache to invalidate; costs and parameters bounded beforehand | `Filters`, `Readers` |
| Ownership and write policy (`ownership.ts`, `write-policy.ts`) | `owner`, `claim_nonces`, `follows`, `follows_hash`; the policy in memory | claim, codes, refreshFollows, isAllowedWriter | two claims at once; caches that lag; an environment that outranks the tables | `Writers` |
| Management (`nip86.ts`) | bans, allowances, settings | NIP-86 calls | whose call undoes whose | in `EventStore`, `Groups`, `Push`, `Writers`, partly |
| Ephemeral chat (`relay.ts`, `storage.ts`) | `chat_state`, sample time in memory | note occupancy, horizon, sweep | sampled presence, lost at hibernation; a checkpoint that may never be early | `Room` |
| Counters, audit, migrations (`storage.ts`, `schema.ts`) | running counts by hour, partition stamps, flags of finished migrations | bump, seed, initSchema, fix, migrate, audit | four writers beside the rows; passes that die half way and run again | `Counters` |
| Call presence (`relay.ts`, `storage.ts`) | `presence`, write times in memory | notePresence | when a heartbeat is a new call | its push in `Push` |
| Rate limits and metering (`relay.ts`, `read-metrics.ts`) | windows in memory | per-socket, per-address, per-key | pruning and eviction | not modelled |
| NIP-98, NIP-42, bech32, NIP-11, upstream version, admin page | - | stateless checks, formatting, cached fetch | - | not modelled |

They interact through the tables. Groups are moderated by ordinary events, so
acceptEvent stores a moderation event and then applies it, and group state
comes back as events the relay stores and broadcasts. Backfill and
the vanish drain are driven by the hourly `scheduled()` of the Worker: it calls
`runCron` on the object, catches what that throws, and then runs one tick of
backfill, which talks to the object by three separate calls. A chat message or
a call queues a push; the alarm drains the queue, and closes live feeds.

## Modules

- `Events` — what an event is to the store: kinds, addresses, which version
  supersedes which, and `StoreEvent`. Pure operators, shared by the next two.
- `EventStore` — the events table under clients (`Publish`, `HandleGiftWrap`,
  `HandleVanish`), backfill (`StoreBackfilled`), the relay itself
  (`EmitGroupState`), management (`BanEvent`, `AllowEvent`) and the cron
  (`CronTick`). One tick drops, without a tombstone, what `Upkeep` allows: other
  signers' group metadata (`Purges`, rows an older deploy stored), a batch of the
  top-level group's chat (`ChatSweeps`, at any cutoff up to now, since `Room` has
  the watermark it comes from) and a batch of lapsed mail (`SweepBatches`); then it
  drains a batch of every pending vanish. `replaced` and `promised` are history
  variables: which versions were replaced here, and which vanishes were answered OK.
- `EventLifecycle` — the abstract promise: an event comes in, leaves for a newer
  one, is dropped if it is of what is kept for a time only (`Perishable`), or is
  tombstoned, and a tombstoned one stays out until it is allowed again. `EventStore!LifecycleSpec` states that the table implements it
  under a refinement mapping.
- `Backfill` — the walk over the owner's other relays. `job` is where each
  Worker invocation is between its calls to the object. An invocation reads the
  status and fetches in one action: what it read cannot matter to anyone before
  its page is handed in, and the other relay's history does not change. What is
  `Malformed` fails `parseEventShape` and is skipped by the cursor too. `parted`
  and `dropped` are history: the events of a second that the cursor fell below
  though they were not handled, since a page ended there or a throw came there.
- `Groups` — membership, allowances, invites, bans and the kind-39002 list of
  every group. `InviteOnly` is its abstraction, a door: only the owner's choice
  or a good invitation, used up, lets anyone in. `actor` and `unlisted` are
  history: who signed the last change, and who joined the top-level group by way
  of another one since its list was last made.
- `Push` — the queue, the subscriptions, the alarm and the live feeds. Times are
  countdowns. `drainPushOutbox` is two actions around its await: `AlarmSends`
  (the plan) and `PushesAnswered` (the bookkeeping and the rest of the alarm).
  `owed`, `pushed`, `tries` and `cuts` are history: whom a notification has yet to
  reach, whom it has reached as far as the queue knows, how often each device was
  sent it, and how many of those sends were in a batch the object was killed in.
- `Filters` — what a REQ filter costs, the SQL it becomes and the event it
  matches: `boundFilter`, `expandFilterCount`, `filterReadCost`, the partition a
  row is in and the one a query scans. Pure operators, used by `Readers`.
- `Readers` — sockets with their identity and subscriptions, REQ through its
  gates and the cache of answers, and the broadcast. What the cache holds is
  keyed by the query, as in the code, so that one reader's answer may be
  another's. `Rows` follows the SQL (partition, tag scan, limits), `Matches` the
  match in memory (`filterMatches`); `Wanted` is what a reader should get. Tags are
  sequences, and a scan counts their rows in `event_tags` (`TagRows`), several of
  which may be one event's.
- `Writers` — the claim with its codes, the environment, the follows cache, the
  write policy and `isAllowedWriter`. `handleClaim` is two actions around the
  fetch between its looks at the owner. A rebuild of the cache runs to its end
  (`Refresh`) or throws after any of its statements (`BreakOff`). `settled` and
  `torn` are history: whether the cache was rebuilt since the owner's list changed,
  and whether one rebuild broke off and none has written the table since.
- `Room` — the ephemeral chat of the top-level group: sockets, the watermark and
  its sampling, the horizon, the gate and the sweep. `metAt` and `heard` are
  history: when two people were last there, and what reached somebody.
- `Counters` — the rows with their partition and stamp, the counts beside them,
  the schema pass that seeds them, both migrations row by row, and the audit.
  `cut` is history: whether an insert ever broke off at a tag.
- `MC*` — the instances TLC checks. `*Proofs` — the theorems and their lemmas.

A definition commented as a mutant is a plausible bug in the definition that
follows it. No action uses it; putting it in the place of the right definition
makes TLC find the property violated that PROJECT.json names with it, which is
how each property is known to say something.

## Runs

| Run | Checks | Result |
|---|---|---|
| `EventStore.cfg` | tombstones keep out, one version per address, inbox cap on others' mail, every row that leaves leaves by right, a vanish keeps its word, the lifecycle | holds |
| `EventStoreLive.cfg` | every vanish completes, expired mail leaves | holds |
| `Backfill.cfg` | deleted stays deleted, nothing is skipped and done means imported but for the rest of a divided second, the walk ends unless a malformed page stops it | holds |
| `BackfillPaused.cfg` | a pause for the daily quota ends | **violated** |
| `Groups.cfg` | a list is the membership less who joined by way of another group, cap on invites, allowances, the door | holds |
| `Push.cfg` | with a restart anywhere: budget, no device sent to twice but for a batch a kill cut off, none left out, bounded fan-out | holds |
| `PushLive.cfg` | with a restart anywhere: queue and live feed have their alarm, every queued notification leaves the queue | holds |
| `Room.cfg` | the sweep takes only conversations that are over, what was swept stays gone, every conversation that is over leaves | holds |
| `Readers.cfg` | every answer is the newest of what its reader may see, cached or not; a subscription is sent what its REQ, asked again, would find | holds |
| `ReadersParams.cfg` | an admitted filter makes no statement with more parameters than SQLite binds | **violated** |
| `Writers.cfg` | one claim for good, its code good and spent; the gate admits exactly whom the policy means, once the list has settled and unless a half-built cache stands | holds |
| `Counters.cfg` | the counts are the rows', tags follow their event, a finished migration has left nothing, the audit raises no false alarm | holds |

### Known differences between the code and what it says of itself

Two are run, so that the day the code changes they stop being found:

1. *A pause never ends* (`BackfillPaused.cfg`, `PauseEnds`). `runBackfillTick`
   returns on `paused-budget`, and nobody else calls the ingest that its comment
   says will leave that status (`backfill-worker.ts:162`).
2. *A filter that does not fit* (`ReadersParams.cfg`, `QueriesFit`).
   `filterParamCount` (`filters.ts:412`) leaves out the groups of a member, which
   the statement and each tag's subquery bind as well. In eleven groups, 85 ids
   are admitted and the statement throws (`limits.ts:535` and `737` say it cannot).

The others are stated in the modules as definitions that no run checks. Each is
violated by the instance of the run named with it: copy its cfg, leave that one
property in, and TLC shows the trace.

3. *A replaced version comes back* (`ReplacedVersionStaysDeleted`,
   `EventStore.cfg`). An article is replaced by a newer version, without a
   tombstone (`schema.ts:124`), and the newer one is deleted by its address.
   Backfill finds the old one on another relay and stores it.
4. *Running for ever* (`RunningEnds`, `Backfill.cfg`). The purge of the relay's
   own row may remove the last unfinished one; it writes `done` only if the
   table is then empty.
5. *A member who cannot write* (`MembersMayWrite`, `Groups.cfg`). Removal from
   one group revokes the relay-wide allowance (`nip29.ts:540`) that membership
   of another still needs.
6. *A group one can post to and not see* (`WritersMayRead`, `Groups.cfg`). The
   write gate asks for membership of the top-level group (`nip29.ts:410`), the
   read gates for the group's own.
7. *A late push* (`PushIsSoon`, `PushLive.cfg`). The last `setAlarm` of `alarmInner`
   overwrites the alarm set by a message that came during the drain's await;
   with a live feed open the next alarm is the feed's end.
8. *A sweep that is early* (`SweepWaits`, `Room.cfg`). Occupancy is sampled, so
   the watermark may be older than the moment the room emptied, and the sweep
   counts its idle time from the watermark. It is early by the time from the
   last sample to the leaving: up to an hour, from one cron to the next, where
   two people are there and nobody posts (`limits.ts:1491`).
9. *A note nobody is shown* (`ArrivalHearsNotes`, `Room.cfg`). Who arrives and
   finds its author still there moves the watermark to now before the horizon
   is taken, and a note older than the backlog is hidden from him; it goes with
   the conversation that then begins (`limits.ts:1496`).

10. *An inbox past its cap* (`InboxStrictlyCapped`, `EventStore.cfg`).
    `limits.ts:96` calls `maxGiftWraps` the "Total gift wraps this relay will hold
    at once", and `handleGiftWrap` counts before it stores (`relay.ts:1491`).
    A wrap signed by the owner himself, which the comment below the count calls
    "a legal event", is also the owner's history, and backfill stores it without
    counting (`backfill.ts:248-263`). `InboxWithinCap` is what holds: of the wraps
    but these there are never more than the cap.
11. *An event lost to a throw* (`ThrowSkipsNothing`, `Backfill.cfg`). Where
    `storeEvent` throws, the cursor is set one below the second of the last event
    that was handled (`backfill.ts:321`). If the one that threw is of that second,
    it is never asked for again, which `backfill.ts:236-239` says must not be: "an
    event that threw partway through storeEvent must NOT be folded into the cursor,
    or a budget failure would silently skip it forever".
12. *A page fetched for ever* (`EveryWalkEnds`, `Backfill.cfg`). A page of events
    that all fail `parseEventShape`, by a tag that is no list for instance, moves no
    cursor (`backfill.ts:246`) and is not empty (`299`), so it is fetched again in
    every tick, and nothing older ever is. The comment at `backfill.ts:202-206` has
    every event "that at least has a parseable created_at" move the cursor, lest
    backfill "re-fetch it forever".
13. *A member the list leaves off* (`ListsAreMembership`, `Groups.cfg`). A join
    that names another group than the top-level one adds its sender to the
    top-level group (`nip29.ts:719`) and makes the list of the group it names
    (`726`). The published list of the top-level group goes without him until the
    next change, though `nip29.ts:565-567` and `636-639` speak of the join's "own
    regenerated kind-39002, which is the canonical record of the membership", `787`
    of one "regenerated whenever membership or metadata changes", and
    `relay.ts:1564-1570` has a client see "its own admission land".
14. *A half-built cache taken for built* (`TornIsDoneOver`, `Writers.cfg`). A
    rebuild that throws between its `DELETE` and the hash leaves the old hash over
    the new rows. `ownership.ts:414-417` says the next call then "finds the mismatch
    again and retries"; it does not if by then the owner's list is again of the old
    content, by a newer list, a deletion, or a change of the owner and back.
15. *An invite anybody may read* (`InvitesAreTheOwners`, `Readers.cfg`). Backfill
    stores the owner's kind 9009 of a group on another relay, which the live path
    would refuse. It is not a group event here, so it is in the public partition,
    from which invites are kept only for members of some group (`Excluded`).
    `filters.ts:138-142` takes a 9009 to be "always a group event" by the write
    gate, and `groups.ts:93-96` has invites "Withheld from everyone but the owner,
    on both read surfaces". `MaySee` says who is answered with one.

One was met in a proof, and is stated as the hypothesis of a theorem:

16. *A migration that gives up* (`NamelessFit`, `CountersProofs`).
    `migrateToMultiGroup` selects `limit` unstamped rows in no order and skips
    those that name no group; the comment at `storage.ts:1248` says the pass does
    not spin on them. Where an old database holds as many of them as a pass
    selects, a pass may select nothing else, change nothing, and set the flag
    over rows that were never stamped.

### Bounds, and why they are enough

- Event store: nine events. They hold a regular note, two versions of
  one address in one second, a replaceable list of somebody else, a deletion
  that names events by id and by address (of its author's and of others'), an
  expiring and a lasting gift wrap, one the owner signed, a chat message of
  the top-level group, group metadata of another signer that an older deploy left
  (`Misfiled`), and the relay's own list. Batches of one, so that a vanish always
  takes several; clock 1..2 (`MaxNow`), `MaxAllows` 1. Each interaction is between
  two events of an address, an event and its deleter, a wrap and the cap, or an
  event and one of the cron's removals, and each such pair is there.
- Backfill: two Worker invocations, this relay's own url among those listed, one
  relay that sends two events to a page and one that sends one (`PageSize`), a
  second that a page divides, one a throw may divide, and one event that is
  malformed; one fault of each kind (`MaxFaults`, `MaxStoreFaults`). A page matters
  by its cursor and its end, so two pages and the empty one show every transition
  of a relay's row.
- Groups: the owner and two pubkeys, the top-level group and a second, two codes
  (symmetric), a cap of one, two seconds (`MaxNow`) and lists dated to `MaxStamp`
  3: more changes than seconds.
- Push: a person who posts and two who own three devices between them, one of which
  can pass from one to the other, one each at a time (`MaxPerPubkey` 1, so that
  subscribing evicts), allowance one per tick and
  ceiling two per notification (so a fan-out takes several batches, is deferred for
  another reason's, and meets its ceiling), and no live feed. `PushLive.cfg` has the
  live feed, `Delay` 1 and `Lifetime` 2, one person who changes between two devices,
  and ceiling one: a device that fails is passed for the next, in another tick. Both
  have one restart (`MaxRestarts`), which may come anywhere: between a row and its
  alarm, or while a batch is being sent. Such a batch is sent again, since the cursor
  is booked after the await; no doc of the repository promises otherwise, and
  `PushedOnce` says that it is the only repeat. `FanOutBounded` is of what the queue
  counts, which a batch cut off by a kill is not.
- Room: the owner, a friend, and two sockets, `MinOccupants` 2; one message of the
  friend's and one that only backfill brings; the clock from 2 to 6 with `Idle`
  3, a sample every 2 and a batch of one, so that a conversation ends, is swept
  in more than one cron, and another begins after it. `MaxSays` 2.
- Readers: the owner, a friend and a socket that may be either or nobody, two
  groups, an event of each kind the gates tell apart, one that names both of the
  people a filter names and one that names one of them twice, an invite of another
  relay's group, six frames that take every access path, one of them of two filters; `MaxReqs` 1 is enough to fill the
  cache by one reader's REQ, and every answer is then evaluated for every reader
  and every frame. The limits are scaled so that each is met. `ReadersParams.cfg`
  has the code's own limits.
- Writers: two people, either of whom may claim the relay or be named by the
  environment (`MaxDeploys` 1), two codes (symmetric) with a cap of one, three
  contact lists, two of them the same in content and two of one second, one
  rebuild that throws (`MaxThrows`), one tick, and one `POST /api/claim` under way
  (`MaxRequests`), which the signed claims overtake.
- Counters: four rows of an older database, one for each thing the migrations
  tell apart, two events that come in; hours 0..2 with a day of 1 so that rows
  leave the audited window; passes of `Limit` 2; one insert that breaks off.

Deadlock is checked where the cfg does not say otherwise.

### Fairness

- `EventStore!FairSpec`: the cron alone is fair; it is a scheduled trigger.
- `Backfill!FairSpec`: each invocation is fair (it is called every hour and each
  of its awaits has a timeout) and the daily quota is renewed.
- `Push!FairSpec`: time passes, a due alarm fires, and a push service answers or
  its fetch fails. Nobody has to post, and everybody may go on posting.
- `Room!FairSpec`: the cron alone.

## What is proved

All proofs are for any values of the constants that satisfy the `ASSUME` of the
module.

- `EventStoreProofs`: `TypeCorrect`; `TombstoneTheorem`; `OneVersionTheorem`;
  `StoreImplementsLifecycle`. `TombstoneKeepsOut` and `OneVersion` are inductive
  with the type invariant: what each writer has in common is in the lemmas about
  `StoreEvent`, that it adds the event or nothing, removes only versions of
  its address that the event supersedes, and leaves one version if there was one.
  The assumption that ids identify events turns "no row with a tombstoned id"
  into statements about events. The refinement uses both invariants: a step
  maps to coming in, being replaced, perishing or being tombstoned.
  `InboxTheorem` is inductive as it stands: but for the owner's own, only
  `HandleGiftWrap` adds a wrap, and it counts in the step in which it stores.
  `RemovedTheorem` and `WordTheorem` go
  writer by writer over which rows a step may remove, and which it may bring
  back. The first needs `Accounted`: the relay stores its own documents again
  whatever tombstone they have, so a row may be tombstoned before it leaves, and
  then by the owner's ban or a promised vanish, since the relay's key signs
  nothing but group metadata (assumed in `Events`) and nobody else may delete it.
- `BackfillProofs`: `TypeCorrect`, `DeletedTheorem`, `SkippedTheorem`,
  `DoneTheorem`. The deletion theorem needs no fact about pages or cursors, only
  that the tombstones are looked up again when a page is applied, whenever it was
  fetched. `NothingSkipped` is not inductive: a page that is being fetched or
  ingested by one invocation is applied over a cursor another has moved.
  `WalkInv` adds what is true of every job in flight (`PagesSound`: its page, however
  old, holds all that its relay still owes from the page's oldest event on, and
  one that would exhaust the relay finds nothing owed), that what is owed is ahead
  of the cursor (`OwedAhead`), that an exhausted relay owes nothing
  (`ExhaustedSound`), and that `done` is told of exhausted relays only
  (`DoneExhausted`). The assumption
  that the relay's own url has no history of its own says that it answers with
  its own table. Of a second that is divided, each is told apart from what was lost
  by `parted` and `dropped`, which only `Record` extends.
- `GroupsProofs`: `TypeCorrect`, `ListsTheorem`, `CapTheorem`,
  `SoleGroupTheorem`, `HandGrantTheorem`, `GroupsImplementDoor`. The type
  invariant carries the two facts the others need: an unknown group has no
  members and no list, and the owner has no row. `ListsTheorem` rests on a
  lemma that of the two lists in `Regenerate` the new one is strictly later, and on
  `unlisted` being emptied with every list of the top-level group.
  `CapTheorem` rests on time only ever shrinking the set of live codes.

- `PushProofs`: every safety property of `Push`. Its devices are numbered in the
  order the endpoints are sorted (`Devices` of them), so a row's cursor parts
  those it has been sent to from those it owes: that is `RowSound`. `BatchSound`
  says it of what is awaited: the page follows its row's cursor, the targets are
  new, what is owed and not in the page comes after it. Neither is preserved
  alone, since the drain plans from the rows and books on the batches, and
  messages fold in between. `PushInv` adds that nothing queued is passed over in
  silence (`Covers`): a row the plan has no batch of makes the plan `deferred`,
  or came during the await and set the alarm. With it `QueueHasAlarm` is
  inductive. `TriesSound` relates the sends to the cursor: a device that was
  sent to more often than a kill cut that off is at or behind the cursor of its row,
  or in the batch that is awaited, and a batch goes only to devices after the cursor. What pages give is counted once, in `PageWithinBudget`, `LastPage`
  and `PageComesFirst`; the recursive budget is shown to exist and to add up by
  taking the least row for which it does not.

- `WritersProofs`: `TypeCorrect`, `ClaimIsFinal`, `GateKeepsToTheBook`, all that
  `Writers.cfg` checks. `ClaimIsFinal` rests on `Spent`: once there is a row there
  are no codes, which is what makes the second of two claims that both saw an
  unowned relay find its code gone. The gate rests on `CacheInv`: the hash names
  what the cache holds, so that "the same hash, nothing to do" is right, and a
  settled cache is the owner's newest list, both while it is not torn. Only a
  rebuild touches the cache (`OnlyRebuildsTouchFollows`), and every one that comes
  to its end settles it (`RebuildSettles`).
- `RoomProofs`: `TypeCorrect`, `SweptTheorem`, `SweepTheorem`, every safety property
  of `Room`. The invariant puts the watermark between the checkpoint and the last
  time two people met. That a batch shorter than the limit is all there was
  (`ShortBatchIsAll`) is what lets the checkpoint move.

- `ReadersProofs`: `TypeCorrect`, `AnswersTheorem`, `HeardTheorem`, all that
  `Readers.cfg` checks. The SQL and the match in memory are two programs written
  separately: `GateSound` and `GateComplete` show that, row by row, they say the
  same for every filter that names no group its reader is kept out of, and
  `HeardTheorem` follows. `AnswersTheorem` adds the limits: the lemmas about
  `Newest` show that the newest of the newest of some parts are the newest of the
  whole, so that a limit in each statement and one on the frame lose nothing. The
  cache needs `CacheSound`, inductive: what is held for a query is what that
  query found, at some time until now, in the table as it still is. The assumptions are that what comes in over a socket is
  finite and that a limit is a number, which `parseFilter` sees to.
- `CountersProofs`: `TypeCorrect`, `BooksTheorem`, `FirstBooksTheorem`. Each count is
  the cardinality of a set of rows, so what a step does to the count is what it
  does to the set, and `SumOfCounts` says that a sum over hours is the number of
  the rows of those hours. `BooksInv` says beside it that the table is keyed by
  the event (`RowsSound`), that tags follow their event (`TagsSound`), that a row in
  the group partition is there by right or is an old one that its tags still show
  to the first migration (`ScopeSound`), and what the schema pass and the cron may
  be in the middle of, wherever they die (`CountsSound`, `Shape`, `TodoSound`).
  `PassSound`, which needs `NamelessFit`, says that a pass of the second migration
  that has changed nothing so far had nothing to move, and has a row before it to
  stamp if one is left. TLC checked both on the instance of `Counters.cfg`
  first. The assumptions are that the old table has a primary key and that the
  relay signed for the one group it then had (`storage.ts:1173`). That the second
  migration has left nothing needs `NamelessFit` (difference 16 above), which is
  the hypothesis of `BooksTheorem`; `FirstBooksBalance` is what holds without it:
  the counts, the tags, the first migration and the audit.

Where an argument by induction was needed, over numbers or over the size of a set,
it is made by the least counterexample (`LeastNat`), since the library's induction
theorems take an operator the provers cannot be given.

Left to TLC: what holds only under fairness (`VanishCompletes`, `LapsedMailLeaves`,
`WalkEnds`, `QueueDrains`, `ConversationLeaves`), since the prover has no liveness,
and the two violations. Every other property that a run checks is a theorem.

## Not modelled

- Signatures, ids as hashes, size limits and rate limits are taken as passed: an
  input of a module is an event that reached its code. A rate limit refuses an
  input before anything is changed, so it removes behaviours of these modules
  and adds none.
- The contents of events and messages, and the text of refusals.
- Call presence beyond the push it queues: the interval at which a heartbeat is
  written, its staleness and the bounded map of write times.
- The owner's profile, icon and the relay's own name and description, NIP-11 and
  the upstream version: documents nothing is decided by.
- `rows_written`, which `hasBackfillHeadroom` compares with the daily budget:
  `Backfill` has the outcome, a headroom that may be spent at any time and is back
  the next day. The count of follows and the read metrics are shown, not read back.
- Limits of a REQ that are no whole numbers: `parseFilter` (`filters.ts:552-554`)
  takes any number, and SQLite then refuses the `LIMIT`. `Readers` takes whole ones.
- The chat's reporting mode, which logs what the sweep would take.
- IP blocks, NIP-98 and NIP-42 as cryptography (in `Readers`, `Room` and `Push` a
  socket is authenticated or not), bech32, the admin page and its scripts.
- A clock that runs backwards. Stamps are seconds, as in the code (hours in
  `Counters`).
- `storeEvent` throwing is modelled in backfill, where the code catches it and
  goes on, and in `Counters`, where it leaves a row half counted: an insert may throw
  at a tag. A throw between an insert and `bumpEventCounters` (`storage.ts:122-143`),
  or between a `DELETE` and its decrement (`storage.ts:291-302`), leaves a total that
  is off by one, which the daily audit is there to report; it is not modelled. In
  `Writers` a rebuild of the follows cache throws; elsewhere throws are left out. In
  `Readers` the partition of an event follows from its tags; that the
  column says the same is what `Counters` checks.

## Plan

Done: `Events`, `EventStore`, `Backfill`, `Groups`, `Push`, `Filters`, `Readers`,
`Writers`, `Room`, `Counters`, with their abstract specifications, and the proofs
above.

Next, in this order:

1. `Presence` — write interval, staleness and the bounded map, composed with
   `Push`: a call rings once.
2. `RateLimits` — windows and pruning of their maps.
3. Proofs about both, and lemmas of the abstract specifications themselves: what
   `EventLifecycle` and `InviteOnly` promise of every behaviour, carried to the
   detailed modules by the refinements.
