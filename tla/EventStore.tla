----------------------------- MODULE EventStore -----------------------------
(***************************************************************************)
(* The relay's event table and the paths that add to it and take from it:  *)
(* a client's write (relay.ts acceptEvent, handleGiftWrap), a backfilled   *)
(* event (backfill.ts), the relay's own group state (nip29.ts), a kind-5   *)
(* deletion (NIP-09), a request to vanish (NIP-62), the owner's banevent   *)
(* and allowevent (NIP-86) and the four removals of the hourly cron.       *)
(*                                                                         *)
(* Every action is one synchronous run of the Durable Object: nothing      *)
(* else runs, and nothing is half written, between its first and its last  *)
(* statement.  The write gate (who may publish) is left open here: any     *)
(* pubkey may publish anything the code below the gate accepts, and chat   *)
(* of a conversation already swept with it (module Room has that gate).    *)
(***************************************************************************)
EXTENDS Events

CONSTANTS
    History,        \* the owner's events other relays hold, for backfill
    Misfiled,       \* rows of an older deploy: other signers' group metadata
    VanishRequest,  \* every signed request to vanish that names this relay
    ModeratedId,    \* the ids the owner may ban or allow
    MaxNow,         \* bound: the clock stops here
    MaxAllows,      \* bound: how many times the owner calls allowevent
    FutureSkew,     \* MAX_CREATED_AT_FUTURE_SECONDS
    MaxGiftWraps,   \* maxGiftWraps(env)
    ChatBatch,      \* CHAT_SWEEP_BATCH_SIZE
    SweepBatch,     \* GIFT_WRAP_SWEEP_BATCH_SIZE
    VanishBatch     \* VANISH_BATCH_SIZE

NotVanishing == 0   \* no row in `vanishing`
Time == 1 .. MaxNow
TOP_LEVEL_GROUP_ID == "_"

\* What fixMisclassifiedGroupEvents purges: only an older deploy stored it.
ForeignMetadata(S) == { x \in S : IsGroupMetadataKind(x.kind) /\ x.pubkey # RelayPubkey }

ASSUME BoundsAssumption ==
    /\ History \subseteq Event
    /\ Misfiled \subseteq ForeignMetadata(Event)
    /\ \A x, y \in Misfiled : SameAddress(x, y) => x = y
    /\ VanishRequest \subseteq [pubkey : Pubkey, created_at : Nat \ {0}]
    /\ ModeratedId \subseteq EventId
    /\ MaxNow \in Nat \ {0}
    /\ {MaxAllows, FutureSkew, MaxGiftWraps} \subseteq Nat
    /\ {ChatBatch, SweepBatch, VanishBatch} \subseteq Nat \ {0}

VARIABLES
    stored,     \* `events`: the rows
    deleted,    \* `deleted_ids`: the tombstones
    banned,     \* `banned_events`: what listbannedevents reads back
    vanishing,  \* `vanishing`: the cutoff of each unfinished vanish
    now,        \* the clock, in the unit of created_at
    allows,     \* how many allowevent calls were made
    promised,   \* history: the widest cutoff a vanish was answered OK for
    replaced    \* history: the versions a newer one has replaced

vars == <<stored, deleted, banned, vanishing, now, allows, promised, replaced>>

TypeOK ==
    /\ stored \subseteq Event
    /\ deleted \subseteq EventId
    /\ banned \subseteq EventId
    /\ vanishing \in [Pubkey -> Nat]
    /\ now \in Time
    /\ allows \in 0 .. MaxAllows
    /\ promised \in [Pubkey -> Nat]
    /\ replaced \subseteq Event

Init ==
    /\ stored = Misfiled
    /\ deleted = {}
    /\ banned = {}
    /\ vanishing = [p \in Pubkey |-> NotVanishing]
    /\ now = 1
    /\ allows = 0
    /\ promised = [p \in Pubkey |-> 0]
    /\ replaced = {}

-----------------------------------------------------------------------------
\* History: the versions that storing y replaces.
NoteReplaced(y) == replaced' = replaced \union (stored \ StoreEvent(stored, y))

(* Deleting: storage.ts applyDeletion and applyAddressDeletion.            *)

\* A gift wrap is deleted by its recipient, anything else by its author.
MayDelete(pubkey, x) ==
    IF x.kind = GIFT_WRAP_KIND THEN pubkey \in x.p ELSE pubkey = x.pubkey

\* Mutant: an `e` tag deletes whoever's event it names.
NamedByIdOfAnyone(y, x) == x.id \in y.e /\ x.kind # DELETION_KIND

NamedById(y, x) ==
    /\ x.id \in y.e
    /\ x.kind # DELETION_KIND
    /\ MayDelete(y.pubkey, x)

NamedByAddress(y, x) ==
    /\ HasAddress(x)
    /\ x.pubkey = y.pubkey
    /\ x.created_at <= y.created_at
    /\ \E a \in y.a :
        /\ a.pubkey = y.pubkey
        /\ a.kind = x.kind
        /\ IsAddressableKind(x.kind) => a.d = x.d

ApplyDeletion(S, y) == { x \in S : NamedById(y, x) \/ NamedByAddress(y, x) }

(* Vanishing: storage.ts vanishTargets.  The query has no ORDER BY, so a   *)
(* batch is any `limit` of the targets.                                    *)

CoveredByVanish(p, cutoff, x) ==
    /\ x.created_at <= cutoff
    /\ x.pubkey = p \/ (x.kind = GIFT_WRAP_KIND /\ p \in x.p)

VanishTargets(S, p, cutoff) == { x \in S : CoveredByVanish(p, cutoff, x) }

Batches(S, limit) ==
    { B \in SUBSET S : \/ Cardinality(B) = limit
                       \/ B = S /\ Cardinality(B) < limit }

\* Mutants: one batch always finishes a vanish; no batch ever does.
AfterOneBatch(cutoff, batch) == NotVanishing
AfterDrainNever(cutoff, batch) == cutoff

\* drainVanish: fewer than asked for means none are left.
AfterDrain(cutoff, batch) ==
    IF Cardinality(batch) < VanishBatch THEN NotVanishing ELSE cutoff

(* What the cron drops without a tombstone: other signers' group metadata  *)
(* (storage.ts fixMisclassifiedGroupEvents), the chat of conversations     *)
(* that are over (sweepChat) and expired mail (sweepExpiredGiftWraps),     *)
(* the last two oldest first.                                              *)

OldestFirst(S, limit) ==
    { B \in Batches(S, limit) : \A x \in B, y \in S \ B : x.created_at <= y.created_at }

\* A pass shares its limit with the events it moves to the public partition.
Purges(S) == { B \in SUBSET ForeignMetadata(S) : Cardinality(B) <= VanishBatch }

TopLevelChat(S) == { x \in S : x.kind = GROUP_CHAT_KIND /\ x.h = TOP_LEVEL_GROUP_ID }

\* chatSweepCutoff is any moment up to now (Room has the watermark it comes
\* from); a relay that only reports, or whose groups are paused, sweeps none.
ChatSweeps(S) ==
    {{}} \union
    UNION { OldestFirst({ x \in TopLevelChat(S) : x.created_at <= cutoff }, ChatBatch) :
              cutoff \in 0 .. now }

GiftWraps(S) == { x \in S : x.kind = GIFT_WRAP_KIND }

\* Mutant: nothing is swept until the inbox is full.
SweepBatchesWhenFull(S) ==
    IF Cardinality(GiftWraps(S)) < MaxGiftWraps
    THEN {{}} ELSE OldestFirst({ x \in GiftWraps(S) : Lapsed(x, now) }, SweepBatch)

SweepBatches(S) ==
    OldestFirst({ x \in GiftWraps(S) : Lapsed(x, now) }, SweepBatch)

\* What one tick may drop.  The three are of different kinds, so the order in
\* which the cron comes to them makes no difference to what is left.
Upkeep(S) ==
    { purged \union chat \union mail :
        purged \in Purges(S), chat \in ChatSweeps(S), mail \in SweepBatches(S) }

-----------------------------------------------------------------------------
(* Client writes.                                                          *)

\* relay.ts acceptEvent, from its created_at check to its last write.
AcceptEvent(y) ==
    LET kept == StoreEvent(stored, y)
        gone == IF y.kind = DELETION_KIND THEN ApplyDeletion(kept, y) ELSE {}
    IN  /\ y.created_at <= now + FutureSkew
        /\ y.id \notin deleted
        /\ y \notin stored
        /\ ~Lapsed(y, now)
        /\ stored' = kept \ gone
        /\ deleted' = deleted \union Ids(gone)
        /\ NoteReplaced(y)
        /\ UNCHANGED <<banned, vanishing, now, allows, promised>>

\* The kinds handleEventInner sends elsewhere, and the 39000-series
\* authorizeGroupWrite refuses from every client, never reach acceptEvent.
Publish(y) ==
    /\ y.kind \notin {VANISH_KIND, GIFT_WRAP_KIND, JOIN_REQUEST_KIND}
    /\ ~IsGroupMetadataKind(y.kind)
    /\ AcceptEvent(y)

\* Mutant: the count is compared with <=.
HandleGiftWrapPastCap(y) ==
    /\ y.kind = GIFT_WRAP_KIND
    /\ Owner \in y.p
    /\ Cardinality(GiftWraps(stored)) <= MaxGiftWraps
    /\ AcceptEvent(y)

HandleGiftWrap(y) ==
    /\ y.kind = GIFT_WRAP_KIND
    /\ Owner \in y.p
    /\ Cardinality(GiftWraps(stored)) < MaxGiftWraps
    /\ AcceptEvent(y)

\* relay.ts handleVanish.  A request no wider than the pending one is answered
\* and changes nothing; any request may be sent again, by whoever has seen it.
HandleVanish(request) ==
  LET p == request.pubkey
      cutoff == request.created_at
  IN
    /\ vanishing[p] < cutoff
    /\ promised' = [promised EXCEPT ![p] = IF @ < cutoff THEN cutoff ELSE @]
    /\ IF VanishTargets(stored, p, cutoff) = {}
       THEN UNCHANGED <<stored, deleted, vanishing>>
       ELSE \E batch \in Batches(VanishTargets(stored, p, cutoff), VanishBatch) :
                /\ stored' = stored \ batch
                /\ deleted' = deleted \union Ids(batch)
                /\ vanishing' = [vanishing EXCEPT ![p] = AfterDrain(cutoff, batch)]
    /\ UNCHANGED <<banned, now, allows, replaced>>

(* Writes that do not come through a socket.                               *)

\* Mutant: backfill does not look at the tombstones.
StoreBackfilledOverTombstone(y) ==
    /\ y \in History
    /\ y.pubkey = Owner
    /\ y \notin stored
    /\ y.created_at <= now + FutureSkew
    /\ stored' = StoreEvent(stored, y)
    /\ NoteReplaced(y)
    /\ UNCHANGED <<deleted, banned, vanishing, now, allows, promised>>

\* One turn of applyBackfillPage's loop: an event of the owner's history.
StoreBackfilled(y) ==
    /\ y \in History
    /\ y.pubkey = Owner
    /\ y \notin stored
    /\ y.id \notin deleted
    /\ y.created_at <= now + FutureSkew
    /\ stored' = StoreEvent(stored, y)
    /\ NoteReplaced(y)
    /\ UNCHANGED <<deleted, banned, vanishing, now, allows, promised>>

\* nip29.ts regenerateGroupState's emit, for content that changed: the relay
\* dates the event now, or one past the version it replaces.
EmitGroupState(y) ==
    /\ IsGroupMetadataKind(y.kind)
    /\ y.pubkey = RelayPubkey
    /\ y \notin stored
    /\ y.created_at >= now
    /\ \A x \in Versions(stored, y) : x.created_at < y.created_at
    /\ \/ y.created_at = now
       \/ \E x \in Versions(stored, y) : y.created_at = x.created_at + 1
    /\ stored' = StoreEvent(stored, y)
    /\ NoteReplaced(y)
    /\ UNCHANGED <<deleted, banned, vanishing, now, allows, promised>>

(* The owner's NIP-86 calls.                                               *)

BanEvent(id) ==
    /\ stored' = { x \in stored : x.id # id }
    /\ deleted' = deleted \union {id}
    /\ banned' = banned \union {id}
    /\ UNCHANGED <<vanishing, now, allows, promised, replaced>>

AllowEvent(id) ==
    /\ allows < MaxAllows
    /\ allows' = allows + 1
    /\ banned' = banned \ {id}
    /\ deleted' = deleted \ {id}
    /\ UNCHANGED <<stored, vanishing, now, promised, replaced>>

(* The hourly cron: what it drops, then one batch of every pending vanish  *)
(* (drainPendingVanishes).  Requests are drained one after the other, in   *)
(* the order they were made; any order is allowed here.                    *)

Pending == { p \in Pubkey : vanishing[p] # NotVanishing }

DrainOrders == { rank \in [Pending -> 1 .. Cardinality(Pending)] :
                    \A p, q \in Pending : rank[p] = rank[q] => p = q }

CronTick ==
    \E swept \in Upkeep(stored), rank \in DrainOrders :
    \E batch \in [Pending -> SUBSET (stored \ swept)] :
        LET drained(n) == UNION { batch[p] : p \in { q \in Pending : rank[q] < n } }
            left(n) == stored \ (swept \union drained(n))
            gone == UNION { batch[p] : p \in Pending }
        IN  /\ \A p \in Pending :
                 batch[p] \in Batches(VanishTargets(left(rank[p]), p, vanishing[p]), VanishBatch)
            /\ stored' = stored \ (swept \union gone)
            /\ deleted' = deleted \union Ids(gone)
            /\ vanishing' = [p \in Pubkey |->
                               IF p \in Pending THEN AfterDrain(vanishing[p], batch[p])
                                                ELSE NotVanishing]
            /\ UNCHANGED <<banned, now, allows, promised, replaced>>

Tick == now < MaxNow /\ now' = now + 1
        /\ UNCHANGED <<stored, deleted, banned, vanishing, allows, promised, replaced>>

Next ==
    \/ \E y \in Event : StoreBackfilled(y)
    \/ \E y \in Event : Publish(y)
    \/ \E y \in Event : HandleGiftWrap(y)
    \/ \E request \in VanishRequest : HandleVanish(request)
    \/ \E y \in Event : EmitGroupState(y)
    \/ \E id \in ModeratedId : BanEvent(id)
    \/ \E id \in ModeratedId : AllowEvent(id)
    \/ CronTick
    \/ Tick

Spec == Init /\ [][Next]_vars

\* The cron fires every hour (wrangler.jsonc); nobody else has to act.
FairSpec == Spec /\ WF_vars(CronTick)

-----------------------------------------------------------------------------
(* Properties.                                                             *)

\* No row has a tombstone, and whatever listbannedevents shows is refused.
\* The relay's own group state is the one exception: emit does not look at
\* `deleted_ids`, and a document re-signed with the same content in the same
\* second is the same event.
TombstoneKeepsOut ==
    /\ \A x \in stored : x.id \in deleted => x.pubkey = RelayPubkey
    /\ banned \subseteq deleted

\* A replaceable or addressable event has one version, whichever of the
\* four writers brought it and in whatever order they came.
OneVersion ==
    \A x, y \in stored : HasAddress(x) /\ SameAddress(x, y) => x = y

\* The gift wraps backfill may bring: the owner's own, which it stores without
\* a count (backfill.ts 248-263).
OwnersImports == { x \in GiftWraps(History) : x.pubkey = Owner }

\* The inbox cap: handleGiftWrap's count and the insert it guards are one step,
\* and nothing but the wraps the owner signed himself gets past it.
InboxWithinCap == Cardinality(GiftWraps(stored) \ OwnersImports) <= MaxGiftWraps

\* What limits.ts says of the cap, which the owner's imports pass; no run checks
\* it (README, Known differences).
InboxStrictlyCapped == Cardinality(GiftWraps(stored)) <= MaxGiftWraps

\* What the cron may drop at time t, and what it may ever drop.
Perished(x, t) ==
    \/ x.kind = GIFT_WRAP_KIND /\ Lapsed(x, t)
    \/ x \in TopLevelChat({x}) /\ x.created_at <= t
    \/ x \in ForeignMetadata({x})

MayPerish(x) ==
    \/ x.kind = GIFT_WRAP_KIND /\ x.expiration # NoExpiration
    \/ x \in TopLevelChat({x})
    \/ x \in ForeignMetadata({x})

ReplacedBy(x, y) == HasAddress(y) /\ SameAddress(x, y) /\ IsSupersededBy(y, x)

\* Every row that leaves, leaves by right.  With a tombstone: the owner banned
\* it, its author (or a gift wrap's recipient) deleted it and it is no deletion
\* itself, or a vanish that was answered OK covers it.  Without one: a newer
\* version came in, or it is mail that has lapsed, chat of the past, or group
\* metadata of another signer.
RemovedByRight ==
    [][ \A x \in stored \ stored' :
          IF x.id \in deleted'
          THEN \/ x.id \in banned'
               \/ /\ x.kind # DELETION_KIND
                  /\ \E y \in stored' \ stored : y.kind = DELETION_KIND /\ MayDelete(y.pubkey, x)
               \/ \E p \in Pubkey : CoveredByVanish(p, promised'[p], x)
          ELSE \/ \E y \in stored' \ stored : ReplacedBy(x, y)
               \/ Perished(x, now) ]_vars

\* A vanish answered OK is either finished, with nothing it covers left, or
\* still recorded at no narrower a cutoff; and so is a recorded one, later.
VanishKeepsItsWord ==
    [][ \A p \in Pubkey : \A cutoff \in {vanishing[p], promised'[p]} :
          (cutoff = vanishing[p] /\ cutoff # NotVanishing) \/ cutoff # promised[p] =>
             \/ vanishing'[p] >= cutoff
             \/ VanishTargets(stored', p, cutoff) = {} ]_vars

\* Every vanish ends, however its batches are chosen and whatever arrives.
VanishCompletes ==
    \A p \in Pubkey : vanishing[p] # NotVanishing ~> vanishing[p] = NotVanishing

\* Expired mail does not hold an inbox slot for ever.
LapsedMailLeaves ==
    \A x \in Event : (x \in GiftWraps(stored) /\ Lapsed(x, now)) ~> x \notin stored

\* A deletion made on this relay stays made: a version that was replaced here,
\* and that a deletion stored here covers by its address, does not come back.
ReplacedVersionStaysDeleted ==
    [][ \A x \in replaced \intersect (stored' \ stored) :
          ~ \E y \in stored : y.kind = DELETION_KIND /\ NamedByAddress(y, x) ]_vars

(* The table as the promise EventLifecycle states.                         *)

Lifecycle == INSTANCE EventLifecycle WITH
    Newer <- { yx \in Event \X Event :
                 /\ HasAddress(yx[1])
                 /\ SameAddress(yx[2], yx[1])
                 /\ IsSupersededBy(yx[1], yx[2]) },
    OwnState <- { x \in Event : x.pubkey = RelayPubkey },
    Perishable <- { x \in Event : MayPerish(x) },
    Legacy <- Misfiled,
    held <- stored,
    gone <- { x \in Event : x.id \in deleted }

\* Every step of the table is one of the promise's, or changes nothing of it.
LifecycleSpec == Lifecycle!Spec
=============================================================================
