-------------------------- MODULE EventStoreProofs --------------------------
(***************************************************************************)
(* What holds of the event table for every set of events, keys and bounds. *)
(* Every step of EventStore changes the table in one of four ways; the     *)
(* lemma StepShape says so once, and each theorem is then proved by those  *)
(* four cases.                                                             *)
(***************************************************************************)
EXTENDS EventStore, FiniteSetTheorems, TLAPS

\* y comes in through storeEvent, and `gone` is deleted in the same step.
Admits(y, gone) ==
    /\ y \notin stored
    /\ y.id \notin deleted \/ y.pubkey = RelayPubkey
    /\ gone \subseteq StoreEvent(stored, y) \ {y}
    /\ stored' = StoreEvent(stored, y) \ gone
    /\ deleted' = deleted \union Ids(gone)
    /\ banned' = banned

\* `swept`, which has perished, is dropped and `gone` is tombstoned.
Removes(swept, gone) ==
    /\ swept \subseteq { x \in stored : Perished(x, now) }
    /\ gone \subseteq stored
    /\ stored' = stored \ (swept \union gone)
    /\ deleted' = deleted \union Ids(gone)
    /\ banned' = banned

Bars(id) ==
    /\ stored' = { x \in stored : x.id # id }
    /\ deleted' = deleted \union {id}
    /\ banned' = banned \union {id}

Lifts(id) ==
    /\ stored' = stored
    /\ deleted' = deleted \ {id}
    /\ banned' = banned \ {id}

Keeps == UNCHANGED <<stored, deleted, banned>>

StepShape ==
    \/ \E y \in Event, gone \in SUBSET Event : Admits(y, gone)
    \/ \E swept \in SUBSET Event, gone \in SUBSET Event : Removes(swept, gone)
    \/ \E id \in EventId : Bars(id)
    \/ \E id \in EventId : Lifts(id)
    \/ Keeps

-----------------------------------------------------------------------------
(* What the table's operators return.                                      *)

\* A batch is a part of what it is taken from.
LEMMA BatchesSubset ==
    ASSUME NEW S, NEW limit, NEW B \in Batches(S, limit)
    PROVE  B \subseteq S
BY DEF Batches

\* So is a batch of the oldest.
LEMMA OldestFirstSubset ==
    ASSUME NEW S, NEW limit, NEW B \in OldestFirst(S, limit)
    PROVE  B \subseteq S
BY BatchesSubset DEF OldestFirst

\* The chat a sweep takes is the top-level group's, and of the past.
LEMMA ChatSweepDrops ==
    ASSUME TypeOK, NEW S \in SUBSET Event, NEW B \in ChatSweeps(S)
    PROVE  B \subseteq { x \in S : Perished(x, now) }
<1> SUFFICES ASSUME NEW x \in B
             PROVE  x \in S /\ x \in TopLevelChat({x}) /\ x.created_at <= now
  BY DEF Perished
<1>1. PICK cutoff \in 0 .. now :
        B \in OldestFirst({ y \in TopLevelChat(S) : y.created_at <= cutoff }, ChatBatch)
  BY DEF ChatSweeps
<1>2. x \in TopLevelChat(S) /\ x.created_at <= cutoff
  BY <1>1, OldestFirstSubset
<1>3. x \in S /\ x \in TopLevelChat({x})
  BY <1>2 DEF TopLevelChat
<1>4. x.created_at \in Nat /\ now \in Nat
  BY <1>3, EventAssumption, BoundsAssumption DEF EventFieldsOK, TypeOK, Time
<1> QED
  BY <1>2, <1>3, <1>4

\* All that a tick drops without a tombstone has perished.
LEMMA UpkeepDrops ==
    ASSUME TypeOK, NEW S \in SUBSET Event, NEW B \in Upkeep(S)
    PROVE  B \subseteq { x \in S : Perished(x, now) }
<1>1. PICK purged \in Purges(S), chat \in ChatSweeps(S), mail \in SweepBatches(S) :
        B = purged \union chat \union mail
  BY DEF Upkeep
<1>2. purged \subseteq { x \in S : Perished(x, now) }
  BY DEF Purges, ForeignMetadata, Perished
<1>3. mail \subseteq { x \in S : Perished(x, now) }
  BY OldestFirstSubset DEF SweepBatches, GiftWraps, Perished
<1> QED
  BY <1>1, <1>2, <1>3, ChatSweepDrops

\* storeEvent adds nothing but the event it was given.
LEMMA StoreEventAdds ==
    ASSUME NEW S, NEW y
    PROVE  StoreEvent(S, y) \subseteq S \union {y}
BY DEF StoreEvent

\* What a kind-5 deletes is in the table it is applied to.
LEMMA DeletionSubset ==
    ASSUME NEW S, NEW y
    PROVE  ApplyDeletion(S, y) \subseteq S
BY DEF ApplyDeletion

\* A kind-5 never deletes a kind-5, itself included.
LEMMA DeletionSpares ==
    ASSUME NEW S, NEW y, y.kind = DELETION_KIND
    PROVE  y \notin ApplyDeletion(S, y)
<1>1. ~IsReplaceableKind(y.kind)
  BY DEF IsReplaceableKind, DELETION_KIND
<1>2. ~IsAddressableKind(y.kind)
  BY DEF IsAddressableKind, DELETION_KIND
<1>3. ~NamedByAddress(y, y)
  BY <1>1, <1>2 DEF NamedByAddress, HasAddress
<1>4. ~NamedById(y, y)
  BY DEF NamedById
<1> QED
  BY <1>3, <1>4 DEF ApplyDeletion

-----------------------------------------------------------------------------
(* Type correctness, and the shape of a step.                              *)

\* All that an accepted event deletes is deleted by a kind-5, which is stored.
AcceptedDeletion(y, gone) ==
    gone # {} =>
        /\ y.kind = DELETION_KIND
        /\ y \in stored' \ stored
        /\ \A x \in gone : NamedById(y, x) \/ NamedByAddress(y, x)

\* Accepting an event admits it, whatever its kind.
LEMMA AcceptShape ==
    ASSUME TypeOK, NEW y \in Event, AcceptEvent(y)
    PROVE  \E gone \in SUBSET Event : Admits(y, gone) /\ AcceptedDeletion(y, gone)
<1> DEFINE kept == StoreEvent(stored, y)
           gone == IF y.kind = DELETION_KIND THEN ApplyDeletion(kept, y) ELSE {}
<1>1. kept \subseteq Event
  BY StoreEventAdds DEF TypeOK
<1>2. gone \subseteq kept \ {y}
  BY DeletionSubset, DeletionSpares
<1>3. Admits(y, gone)
  BY <1>2 DEF AcceptEvent, Admits
<1>4. ASSUME gone # {}
      PROVE  AcceptedDeletion(y, gone)
  <2>1. y.kind = DELETION_KIND
    BY <1>4
  <2>2. ~IsReplaceableKind(y.kind) /\ ~IsAddressableKind(y.kind)
        /\ ~IsEphemeralKind(y.kind) /\ ~IsGroupMetadataKind(y.kind)
    BY <2>1 DEF IsReplaceableKind, IsAddressableKind, IsEphemeralKind, IsGroupMetadataKind,
                DELETION_KIND
  <2>3. Versions(stored, y) = {}
    <3>1. ASSUME NEW x \in Versions(stored, y) PROVE FALSE
      BY <2>2, <3>1 DEF Versions, HasAddress, SameAddress
    <3> QED
      BY <3>1
  <2>4. y \in kept
    BY <2>2, <2>3 DEF StoreEvent, Storable
  <2>5. y \in stored' \ stored
    BY <1>2, <2>4 DEF AcceptEvent
  <2>6. \A x \in gone : NamedById(y, x) \/ NamedByAddress(y, x)
    BY <2>1 DEF ApplyDeletion
  <2> QED
    BY <2>1, <2>5, <2>6 DEF AcceptedDeletion
<1> QED
  BY <1>1, <1>2, <1>3, <1>4 DEF AcceptedDeletion

\* A vanish request removes rows and tombstones them, or changes no row.
LEMMA VanishShape ==
    ASSUME TypeOK, NEW request \in VanishRequest, HandleVanish(request)
    PROVE  Keeps \/ \E gone \in SUBSET Event : Removes({}, gone)
<1> DEFINE p == request.pubkey
           cutoff == request.created_at
<1>1. CASE VanishTargets(stored, p, cutoff) = {}
  BY <1>1 DEF HandleVanish, Keeps
<1>2. CASE VanishTargets(stored, p, cutoff) # {}
  <2>1. PICK batch \in Batches(VanishTargets(stored, p, cutoff), VanishBatch) :
               /\ stored' = stored \ batch
               /\ deleted' = deleted \union Ids(batch)
    BY <1>2 DEF HandleVanish
  <2>2. batch \subseteq stored
    BY BatchesSubset DEF VanishTargets
  <2>3. Removes({}, batch)
    BY <2>1, <2>2 DEF Removes, HandleVanish
  <2> QED
    BY <2>2, <2>3 DEF TypeOK
<1> QED
  BY <1>1, <1>2

\* What a cron tick does, once its sweep, its order and its batches are chosen.
CronRun(swept, rank, batch) ==
    LET drained(n) == UNION { batch[p] : p \in { q \in Pending : rank[q] < n } }
        left(n) == stored \ (swept \union drained(n))
        gone == UNION { batch[p] : p \in Pending }
    IN  /\ \A p \in Pending :
             batch[p] \in Batches(VanishTargets(left(rank[p]), p, vanishing[p]), VanishBatch)
        /\ stored' = stored \ (swept \union gone)
        /\ deleted' = deleted \union Ids(gone)
        /\ vanishing' = [p \in Pubkey |->
                           IF p \in Pending THEN AfterDrain(vanishing[p], batch[p])
                                            ELSE NotVanishing]
        /\ UNCHANGED <<banned, now, allows, promised, replaced>>

\* Every cron tick is such a run.
LEMMA CronRuns ==
    ASSUME CronTick
    PROVE  \E swept \in Upkeep(stored), rank \in DrainOrders :
           \E batch \in [Pending -> SUBSET (stored \ swept)] : CronRun(swept, rank, batch)
BY Zenon DEF CronTick, CronRun

\* A cron tick drops what has perished and tombstones what vanishes cover.
LEMMA CronShape ==
    ASSUME TypeOK, CronTick
    PROVE  \E swept \in SUBSET Event, gone \in SUBSET Event : Removes(swept, gone)
<1>1. PICK swept \in Upkeep(stored), rank \in DrainOrders :
      \E batch \in [Pending -> SUBSET (stored \ swept)] : CronRun(swept, rank, batch)
  BY CronRuns
<1>2. PICK batch \in [Pending -> SUBSET (stored \ swept)] : CronRun(swept, rank, batch)
  BY <1>1
<1> DEFINE gone == UNION { batch[p] : p \in Pending }
<1>3. gone \subseteq stored
  BY <1>2
<1>4. swept \subseteq { x \in stored : Perished(x, now) }
  BY UpkeepDrops DEF TypeOK
<1>5. Removes(swept, gone)
  BY <1>2, <1>3, <1>4 DEF Removes, CronRun
<1> QED
  BY <1>3, <1>4, <1>5 DEF TypeOK

\* Every step has one of the five shapes.
LEMMA NextShape ==
    ASSUME TypeOK, [Next]_vars
    PROVE  StepShape
<1>1. ASSUME NEW y \in Event, StoreBackfilled(y)
      PROVE  Admits(y, {})
  BY <1>1 DEF StoreBackfilled, Admits, Ids
<1>2. ASSUME NEW y \in Event, Publish(y) \/ HandleGiftWrap(y)
      PROVE  \E gone \in SUBSET Event : Admits(y, gone)
  BY <1>2, AcceptShape DEF Publish, HandleGiftWrap
<1>3. ASSUME NEW y \in Event, EmitGroupState(y)
      PROVE  Admits(y, {})
  BY <1>3 DEF EmitGroupState, Admits, Ids
<1>4. ASSUME NEW id \in ModeratedId, BanEvent(id)
      PROVE  id \in EventId /\ Bars(id)
  BY <1>4, BoundsAssumption DEF BanEvent, Bars
<1>5. ASSUME NEW id \in ModeratedId, AllowEvent(id)
      PROVE  id \in EventId /\ Lifts(id)
  BY <1>5, BoundsAssumption DEF AllowEvent, Lifts
<1>6. CASE Tick
  BY <1>6 DEF Tick, Keeps, StepShape
<1>7. CASE UNCHANGED vars
  BY <1>7 DEF vars, Keeps, StepShape
<1> QED
  BY <1>1, <1>2, <1>3, <1>4, <1>5, <1>6, <1>7, VanishShape, CronShape
  DEF Next, StepShape

-----------------------------------------------------------------------------
(* The invariants.                                                         *)

\* The new cutoff of a drained vanish is a cutoff.
LEMMA AfterDrainType ==
    ASSUME NEW cutoff \in Nat, NEW batch
    PROVE  AfterDrain(cutoff, batch) \in Nat
BY DEF AfterDrain, NotVanishing

\* A step keeps the table, the tombstones and the bans within their types.
LEMMA TablesType ==
    ASSUME TypeOK, StepShape
    PROVE  stored' \subseteq Event /\ deleted' \subseteq EventId /\ banned' \subseteq EventId
<1>1. CASE \E y \in Event, gone \in SUBSET Event : Admits(y, gone)
  BY <1>1, StoreEventAdds DEF Admits, TypeOK, Ids, EventId
<1>2. CASE \E swept \in SUBSET Event, gone \in SUBSET Event : Removes(swept, gone)
  BY <1>2 DEF Removes, TypeOK, Ids, EventId
<1>3. CASE \E id \in EventId : Bars(id)
  BY <1>3 DEF Bars, TypeOK
<1>4. CASE \E id \in EventId : Lifts(id)
  BY <1>4 DEF Lifts, TypeOK
<1>5. CASE Keeps
  BY <1>5 DEF Keeps, TypeOK
<1> QED
  BY <1>1, <1>2, <1>3, <1>4, <1>5 DEF StepShape

\* The state variables keep their types: the relay's tables hold events and
\* ids, and a recorded vanish has a cutoff.
THEOREM TypeCorrect == Spec => []TypeOK
<1>1. Init => TypeOK
  BY BoundsAssumption DEF Init, TypeOK, NotVanishing, Time, ForeignMetadata
<1>2. TypeOK /\ [Next]_vars => TypeOK'
  <2> SUFFICES ASSUME TypeOK, [Next]_vars
               PROVE  TypeOK'
    OBVIOUS
  <2>1. stored' \subseteq Event /\ deleted' \subseteq EventId /\ banned' \subseteq EventId
    BY NextShape, TablesType
  <2>2. now' \in Time
    BY BoundsAssumption
    DEF TypeOK, Time, Next, vars, Publish, HandleGiftWrap, AcceptEvent, HandleVanish,
        StoreBackfilled, EmitGroupState, BanEvent, AllowEvent, CronTick, Tick
  <2>3. allows' \in 0 .. MaxAllows
    BY BoundsAssumption
    DEF TypeOK, Next, vars, Publish, HandleGiftWrap, AcceptEvent, HandleVanish,
        StoreBackfilled, EmitGroupState, BanEvent, AllowEvent, CronTick, Tick
  <2>4. vanishing' \in [Pubkey -> Nat] /\ promised' \in [Pubkey -> Nat]
    <3>1. CASE \E request \in VanishRequest : HandleVanish(request)
      <4>1. PICK request \in VanishRequest : HandleVanish(request)
        BY <3>1
      <4>2. request.pubkey \in Pubkey /\ request.created_at \in Nat
        BY BoundsAssumption
      <4> QED
        BY <4>1, <4>2, AfterDrainType DEF TypeOK, HandleVanish
    <3>2. CASE CronTick
      BY <3>2, AfterDrainType DEF TypeOK, CronTick, Pending, NotVanishing
    <3>3. CASE UNCHANGED <<vanishing, promised>>
      BY <3>3 DEF TypeOK
    <3> QED
      BY <3>1, <3>2, <3>3
      DEF Next, vars, Publish, HandleGiftWrap, AcceptEvent, StoreBackfilled,
          EmitGroupState, BanEvent, AllowEvent, Tick
  <2>5. replaced' \subseteq Event
    BY DEF TypeOK, Next, vars, Publish, HandleGiftWrap, AcceptEvent, HandleVanish,
           StoreBackfilled, EmitGroupState, BanEvent, AllowEvent, CronTick, Tick, NoteReplaced
  <2> QED
    BY <2>1, <2>2, <2>3, <2>4, <2>5 DEF TypeOK
<1> QED
  BY <1>1, <1>2, PTL DEF Spec

\* An id in a set of events' ids is that of one event.
LEMMA OneEventPerId ==
    ASSUME NEW S \in SUBSET Event, NEW x \in Event, x.id \in Ids(S)
    PROVE  x \in S
BY EventAssumption DEF Ids

\* A tombstoned event is out of the table, and stays out until the owner lifts
\* the tombstone: no write path, and no order of them, brings it back.
THEOREM TombstoneTheorem == Spec => []TombstoneKeepsOut
<1>1. Init => TombstoneKeepsOut
  BY DEF Init, TombstoneKeepsOut
<1>2. TypeOK /\ TombstoneKeepsOut /\ [Next]_vars => TombstoneKeepsOut'
  <2> SUFFICES ASSUME TypeOK, TombstoneKeepsOut, StepShape
               PROVE  TombstoneKeepsOut'
    BY NextShape
  <2>1. ASSUME NEW y \in Event, NEW gone \in SUBSET Event, Admits(y, gone)
        PROVE  TombstoneKeepsOut'
    <3>1. ASSUME NEW x \in stored', x.id \in deleted'
          PROVE  x.pubkey = RelayPubkey
      <4>1. x \in Event /\ x \in stored \union {y} /\ x \notin gone
        BY <2>1, <3>1, StoreEventAdds DEF Admits, TypeOK
      <4>2. x.id \in deleted
        BY <2>1, <3>1, <4>1, OneEventPerId DEF Admits
      <4> QED
        BY <2>1, <4>1, <4>2 DEF Admits, TombstoneKeepsOut
    <3> QED
      BY <2>1, <3>1 DEF Admits, TombstoneKeepsOut
  <2>2. ASSUME NEW swept \in SUBSET Event, NEW gone \in SUBSET Event, Removes(swept, gone)
        PROVE  TombstoneKeepsOut'
    <3>1. ASSUME NEW x \in stored', x.id \in deleted'
          PROVE  x.pubkey = RelayPubkey
      <4>1. x \in Event /\ x \in stored /\ x \notin gone
        BY <2>2, <3>1 DEF Removes, TypeOK
      <4>2. x.id \in deleted
        BY <2>2, <3>1, <4>1, OneEventPerId DEF Removes
      <4> QED
        BY <4>1, <4>2 DEF TombstoneKeepsOut
    <3> QED
      BY <2>2, <3>1 DEF Removes, TombstoneKeepsOut
  <2>3. ASSUME NEW id \in EventId, Bars(id)
        PROVE  TombstoneKeepsOut'
    BY <2>3 DEF Bars, TombstoneKeepsOut
  <2>4. ASSUME NEW id \in EventId, Lifts(id)
        PROVE  TombstoneKeepsOut'
    BY <2>4 DEF Lifts, TombstoneKeepsOut
  <2>5. CASE Keeps
    BY <2>5 DEF Keeps, TombstoneKeepsOut
  <2> QED
    BY <2>1, <2>2, <2>3, <2>4, <2>5 DEF StepShape
<1> QED
  BY <1>1, <1>2, TypeCorrect, PTL DEF Spec

\* storeEvent keeps one version per address: what it adds displaces every other
\* version, in whichever order the versions arrive.
LEMMA StoreEventOneVersion ==
    ASSUME NEW S \in SUBSET Event, NEW y \in Event,
           \A x, z \in S : HasAddress(x) /\ SameAddress(x, z) => x = z
    PROVE  \A x, z \in StoreEvent(S, y) : HasAddress(x) /\ SameAddress(x, z) => x = z
BY DEF StoreEvent, Versions, HasAddress, SameAddress

\* There is never more than one version of a replaceable or addressable event.
THEOREM OneVersionTheorem == Spec => []OneVersion
<1>1. Init => OneVersion
  BY BoundsAssumption DEF Init, OneVersion
<1>2. TypeOK /\ OneVersion /\ [Next]_vars => OneVersion'
  <2> SUFFICES ASSUME TypeOK, OneVersion, StepShape
               PROVE  OneVersion'
    BY NextShape
  <2>1. ASSUME NEW y \in Event, NEW gone \in SUBSET Event, Admits(y, gone)
        PROVE  OneVersion'
    <3>1. stored' \subseteq StoreEvent(stored, y)
      BY <2>1 DEF Admits
    <3>2. \A x, z \in StoreEvent(stored, y) : HasAddress(x) /\ SameAddress(x, z) => x = z
      BY StoreEventOneVersion DEF TypeOK, OneVersion
    <3> QED
      BY <3>1, <3>2 DEF OneVersion
  <2>2. CASE stored' \subseteq stored
    BY <2>2 DEF OneVersion
  <2> QED
    BY <2>1, <2>2 DEF StepShape, Removes, Bars, Lifts, Keeps
<1> QED
  BY <1>1, <1>2, TypeCorrect, PTL DEF Spec

-----------------------------------------------------------------------------
(* The inbox.                                                              *)

\* The gift wraps the cap is there for.
Counted(S) == GiftWraps(S) \ OwnersImports

\* A table holds finitely many events, and a smaller set no more of them.
LEMMA EventsCounted ==
    ASSUME NEW S \in SUBSET Event, NEW T \in SUBSET S
    PROVE  /\ IsFiniteSet(S)
           /\ Cardinality(S) \in Nat
           /\ Cardinality(T) \in Nat
           /\ Cardinality(T) <= Cardinality(S)
<1>1. IsFiniteSet(S) /\ IsFiniteSet(T)
  BY FS_Subset, EventAssumption
<1> QED
  BY <1>1, FS_Subset, FS_CardinalityType

\* Only a gift wrap's own handler adds one that counts: those backfill brings
\* are the owner's, the relay signs none, and the other writes turn them away.
LEMMA OnlyMailAddsMail ==
    ASSUME TypeOK, [Next]_vars, ~ \E y \in Event : HandleGiftWrap(y)
    PROVE  Counted(stored') \subseteq Counted(stored)
<1>1. ASSUME NEW y \in Event, y.kind # GIFT_WRAP_KIND, stored' \subseteq stored \union {y}
      PROVE  Counted(stored') \subseteq Counted(stored)
  BY <1>1 DEF GiftWraps, Counted
<1>2. ASSUME NEW y \in Event, StoreBackfilled(y)
      PROVE  Counted(stored') \subseteq Counted(stored)
  BY <1>2, StoreEventAdds DEF StoreBackfilled, Counted, GiftWraps, OwnersImports
<1>3. ASSUME NEW y \in Event, Publish(y)
      PROVE  Counted(stored') \subseteq Counted(stored)
  <2>1. stored' \subseteq stored \union {y}
    BY <1>3, StoreEventAdds DEF Publish, AcceptEvent
  <2> QED
    BY <1>1, <1>3, <2>1 DEF Publish
<1>4. ASSUME NEW y \in Event, EmitGroupState(y)
      PROVE  Counted(stored') \subseteq Counted(stored)
  BY <1>1, <1>4, StoreEventAdds
  DEF EmitGroupState, IsGroupMetadataKind, GIFT_WRAP_KIND
<1>5. ASSUME stored' \subseteq stored
      PROVE  Counted(stored') \subseteq Counted(stored)
  BY <1>5 DEF GiftWraps, Counted
<1>6. CASE CronTick
  BY <1>5, <1>6, CronShape DEF Removes
<1>7. ASSUME NEW request \in VanishRequest, HandleVanish(request)
      PROVE  Counted(stored') \subseteq Counted(stored)
  BY <1>5, <1>7, VanishShape DEF Removes, Keeps
<1> QED
  BY <1>2, <1>3, <1>4, <1>5, <1>6, <1>7 DEF Next, vars, BanEvent, AllowEvent, Tick

\* The owner's inbox never holds more than its cap of the mail of others: the
\* count that admits a gift wrap is of the table it is put in, and the only
\* other path that puts one there brings what the owner has signed himself.
THEOREM InboxTheorem == Spec => []InboxWithinCap
<1>1. Init => InboxWithinCap
  <2> SUFFICES ASSUME Init PROVE InboxWithinCap
    OBVIOUS
  <2>1. GiftWraps(stored) = {}
    BY BoundsAssumption
    DEF Init, GiftWraps, ForeignMetadata, IsGroupMetadataKind, GIFT_WRAP_KIND
  <2>2. GiftWraps(stored) \ OwnersImports = {}
    BY <2>1
  <2>3. MaxGiftWraps \in Nat
    BY BoundsAssumption
  <2> QED
    BY <2>2, <2>3, FS_EmptySet DEF InboxWithinCap
<1>2. TypeOK /\ InboxWithinCap /\ [Next]_vars => InboxWithinCap'
  <2> SUFFICES ASSUME TypeOK, InboxWithinCap, [Next]_vars
               PROVE  InboxWithinCap'
    OBVIOUS
  <2>1. stored \in SUBSET Event
    BY DEF TypeOK
  <2>2. CASE \E y \in Event : HandleGiftWrap(y)
    <3>1. PICK y \in Event : HandleGiftWrap(y)
      BY <2>2
    <3>2. stored' \subseteq stored \union {y}
      BY <3>1, StoreEventAdds DEF HandleGiftWrap, AcceptEvent
    <3>3. Counted(stored') \subseteq GiftWraps(stored) \union {y}
      BY <3>2 DEF GiftWraps, Counted
    <3>4. /\ IsFiniteSet(GiftWraps(stored))
          /\ Cardinality(GiftWraps(stored)) \in Nat
      BY <2>1, EventsCounted DEF GiftWraps
    <3>5. Cardinality(GiftWraps(stored)) < MaxGiftWraps
      BY <3>1 DEF HandleGiftWrap
    <3> DEFINE more == GiftWraps(stored) \union {y}
    <3>6. /\ IsFiniteSet(more)
          /\ \/ Cardinality(more) = Cardinality(GiftWraps(stored))
             \/ Cardinality(more) = Cardinality(GiftWraps(stored)) + 1
      BY <3>4, FS_AddElement
    <3> HIDE DEF more
    <3>7. /\ Cardinality(Counted(stored')) \in Nat
          /\ Cardinality(Counted(stored')) <= Cardinality(more)
      BY <3>3, <3>6, FS_Subset, FS_CardinalityType DEF more
    <3>8. Cardinality(Counted(stored')) <= MaxGiftWraps
      BY <3>4, <3>5, <3>6, <3>7, BoundsAssumption
    <3> QED
      BY <3>8 DEF InboxWithinCap, Counted
  <2>3. CASE ~ \E y \in Event : HandleGiftWrap(y)
    <3>1. Counted(stored) \in SUBSET Event /\ Counted(stored') \subseteq Counted(stored)
      BY <2>1, <2>3, OnlyMailAddsMail DEF Counted, GiftWraps
    <3>2. Cardinality(Counted(stored)) <= MaxGiftWraps
      BY DEF InboxWithinCap, Counted
    <3>3. Cardinality(Counted(stored')) <= MaxGiftWraps
      BY <3>1, <3>2, EventsCounted, BoundsAssumption
    <3> QED
      BY <3>3 DEF InboxWithinCap, Counted
  <2> QED
    BY <2>2, <2>3
<1> QED
  BY <1>1, <1>2, TypeCorrect, PTL DEF Spec

-----------------------------------------------------------------------------
(* Promises.                                                               *)

\* No vanish is carried out further than it was promised.
PromiseCovers == \A p \in Pubkey : vanishing[p] <= promised[p]

\* What a vanish in hand covers, and in a batch of it, was promised to go.
LEMMA CoverGrows ==
    ASSUME NEW p, NEW x \in Event, NEW c \in Nat, NEW d \in Nat, c <= d,
           CoveredByVanish(p, c, x)
    PROVE  CoveredByVanish(p, d, x)
BY EventAssumption DEF CoveredByVanish, EventFieldsOK

\* A request widens the promise to its own cutoff, and no promise narrows.
LEMMA PromiseGrows ==
    ASSUME TypeOK, [Next]_vars, NEW p \in Pubkey
    PROVE  /\ promised'[p] \in Nat
           /\ promised[p] <= promised'[p]
<1>1. promised[p] \in Nat
  BY DEF TypeOK
<1>2. ASSUME NEW request \in VanishRequest, HandleVanish(request)
      PROVE  promised'[p] \in Nat /\ promised[p] <= promised'[p]
  <2>1. request.created_at \in Nat
    BY BoundsAssumption
  <2>2. promised'[p] \in { promised[p], request.created_at }
    BY <1>2 DEF HandleVanish, TypeOK
  <2>3. \/ promised'[p] = promised[p]
        \/ promised[p] < request.created_at /\ promised'[p] = request.created_at
    BY <1>2, <2>2 DEF HandleVanish, TypeOK
  <2> QED
    BY <1>1, <2>1, <2>3
<1>3. CASE UNCHANGED promised
  BY <1>1, <1>3
<1> QED
  BY <1>2, <1>3 DEF Next, vars, Publish, HandleGiftWrap, AcceptEvent, StoreBackfilled,
                    EmitGroupState, BanEvent, AllowEvent, CronTick, Tick

\* A drained vanish is finished or keeps its cutoff.
LEMMA AfterDrainIs ==
    ASSUME NEW cutoff, NEW batch
    PROVE  AfterDrain(cutoff, batch) \in {NotVanishing, cutoff}
BY DEF AfterDrain

\* What a request does to the vanish it is for, and to its promise.
LEMMA RequestPromises ==
    ASSUME TypeOK, NEW request \in VanishRequest, HandleVanish(request)
    PROVE  LET p == request.pubkey
               cutoff == request.created_at
           IN  /\ p \in Pubkey
               /\ cutoff \in Nat
               /\ vanishing[p] < cutoff
               /\ promised'[p] = IF promised[p] < cutoff THEN cutoff ELSE promised[p]
               /\ vanishing'[p] \in {NotVanishing, cutoff, vanishing[p]}
               /\ \A q \in Pubkey \ {p} :
                    vanishing'[q] = vanishing[q] /\ promised'[q] = promised[q]
<1> DEFINE p == request.pubkey
           cutoff == request.created_at
<1>1. p \in Pubkey /\ cutoff \in Nat
  BY BoundsAssumption
<1>2. promised' = [promised EXCEPT ![p] = IF promised[p] < cutoff THEN cutoff ELSE promised[p]]
  BY DEF HandleVanish
<1>3. \/ vanishing' = vanishing
      \/ \E batch : vanishing' = [vanishing EXCEPT ![p] = AfterDrain(cutoff, batch)]
  BY DEF HandleVanish
<1> QED
  BY <1>1, <1>2, <1>3, AfterDrainIs DEF TypeOK, HandleVanish

\* PromiseCovers is an invariant: an OK is answered in the step that records it.
LEMMA PromiseCoversAlways == Spec => []PromiseCovers
<1>1. Init => PromiseCovers
  BY DEF Init, PromiseCovers, NotVanishing
<1>2. TypeOK /\ PromiseCovers /\ [Next]_vars => PromiseCovers'
  <2> SUFFICES ASSUME TypeOK, PromiseCovers, [Next]_vars, NEW p \in Pubkey
               PROVE  vanishing'[p] <= promised'[p]
    BY DEF PromiseCovers
  <2>1. vanishing[p] \in Nat /\ promised[p] \in Nat /\ vanishing[p] <= promised[p]
    BY DEF TypeOK, PromiseCovers
  <2>2. ASSUME NEW request \in VanishRequest, HandleVanish(request)
        PROVE  vanishing'[p] <= promised'[p]
    BY <2>1, <2>2, RequestPromises DEF NotVanishing
  <2>3. CASE CronTick
    <3>1. vanishing'[p] \in {NotVanishing, vanishing[p]}
      BY <2>3, AfterDrainIs DEF CronTick, Pending, TypeOK
    <3> QED
      BY <2>1, <2>3, <3>1 DEF NotVanishing, CronTick
  <2>4. CASE UNCHANGED <<vanishing, promised>>
    BY <2>1, <2>4
  <2> QED
    BY <2>2, <2>3, <2>4 DEF Next, vars, Publish, HandleGiftWrap, AcceptEvent, StoreBackfilled,
                            EmitGroupState, BanEvent, AllowEvent, Tick
<1> QED
  BY <1>1, <1>2, TypeCorrect, PTL DEF Spec

\* A tombstone on one of the relay's own documents is the owner's ban or a
\* promised vanish: nobody may delete it, and a ban lifted lifts the tombstone.
Accounted ==
    \A x \in Event :
        x.pubkey = RelayPubkey /\ x.id \in deleted =>
            \/ x.id \in banned
            \/ \E p \in Pubkey : CoveredByVanish(p, promised[p], x)

\* A batch holds only what its vanish covers.
LEMMA BatchCovered ==
    ASSUME NEW S, NEW p, NEW cutoff, NEW limit,
           NEW batch \in Batches(VanishTargets(S, p, cutoff), limit)
    PROVE  \A x \in batch : CoveredByVanish(p, cutoff, x)
BY BatchesSubset DEF VanishTargets

\* What a request removes and tombstones, its own promise covers.
LEMMA RequestRemoves ==
    ASSUME TypeOK, NEW request \in VanishRequest, HandleVanish(request)
    PROVE  \E gone \in SUBSET Event :
              /\ Removes({}, gone)
              /\ \A x \in gone : \E p \in Pubkey : CoveredByVanish(p, promised'[p], x)
<1> DEFINE p == request.pubkey
           cutoff == request.created_at
<1>1. p \in Pubkey /\ cutoff \in Nat
  BY BoundsAssumption
<1>2. promised'[p] \in Nat /\ cutoff <= promised'[p]
  BY <1>1, RequestPromises DEF TypeOK
<1>3. CASE VanishTargets(stored, p, cutoff) = {}
  BY <1>3 DEF HandleVanish, Removes, Ids
<1>4. CASE VanishTargets(stored, p, cutoff) # {}
  <2>1. PICK batch \in Batches(VanishTargets(stored, p, cutoff), VanishBatch) :
               /\ stored' = stored \ batch
               /\ deleted' = deleted \union Ids(batch)
    BY <1>4 DEF HandleVanish
  <2>2. batch \subseteq stored /\ batch \subseteq Event
    BY BatchesSubset DEF VanishTargets, TypeOK
  <2>3. Removes({}, batch)
    BY <2>1, <2>2 DEF Removes, HandleVanish
  <2>4. \A x \in batch : CoveredByVanish(p, promised'[p], x)
    BY <1>1, <1>2, <2>2, BatchCovered, CoverGrows
  <2> QED
    BY <1>1, <2>2, <2>3, <2>4
<1> QED
  BY <1>3, <1>4

\* Each batch is of what the sweep and the batches before it have left, and
\* ends its vanish when it takes all of that.
LEMMA CronBatch ==
    ASSUME NEW swept, NEW rank, NEW batch, CronRun(swept, rank, batch),
           NEW p \in Pending
    PROVE  \E left :
              /\ batch[p] \in Batches(VanishTargets(left, p, vanishing[p]), VanishBatch)
              /\ stored' \subseteq left \ batch[p]
              /\ vanishing'[p] = AfterDrain(vanishing[p], batch[p])
<1> DEFINE before == { q \in Pending : rank[q] < rank[p] }
           left == stored \ (swept \union UNION { batch[q] : q \in before })
<1>1. batch[p] \in Batches(VanishTargets(left, p, vanishing[p]), VanishBatch)
  BY Zenon DEF CronRun
<1>2. stored' \subseteq left \ batch[p]
  <2>1. stored' = stored \ (swept \union UNION { batch[q] : q \in Pending })
    BY DEF CronRun
  <2> QED
    BY <2>1
<1>3. vanishing'[p] = AfterDrain(vanishing[p], batch[p])
  BY DEF CronRun, Pending
<1> QED
  BY <1>1, <1>2, <1>3

\* What a cron tick removes has perished, or is tombstoned and promised to go.
LEMMA CronRemoves ==
    ASSUME TypeOK, PromiseCovers, CronTick
    PROVE  \E swept \in SUBSET Event, gone \in SUBSET Event :
              /\ Removes(swept, gone)
              /\ \A x \in gone : \E p \in Pubkey : CoveredByVanish(p, promised'[p], x)
<1>1. PICK swept \in Upkeep(stored), rank \in DrainOrders :
      \E batch \in [Pending -> SUBSET (stored \ swept)] : CronRun(swept, rank, batch)
  BY CronRuns
<1>2. PICK batch \in [Pending -> SUBSET (stored \ swept)] : CronRun(swept, rank, batch)
  BY <1>1
<1> DEFINE gone == UNION { batch[p] : p \in Pending }
<1>3. gone \subseteq stored
  BY <1>2
<1>4. Removes(swept, gone)
  BY <1>2, <1>3, UpkeepDrops DEF Removes, CronRun, TypeOK
<1>5. ASSUME NEW p \in Pending, NEW x \in batch[p]
      PROVE  CoveredByVanish(p, promised'[p], x)
  <2>1. p \in Pubkey
    BY DEF Pending
  <2>2. CoveredByVanish(p, vanishing[p], x)
    BY <1>2, CronBatch, BatchCovered
  <2>3. /\ promised'[p] = promised[p]
        /\ vanishing[p] \in Nat
        /\ promised[p] \in Nat
        /\ vanishing[p] <= promised[p]
    BY <2>1 DEF CronTick, TypeOK, PromiseCovers
  <2>4. x \in Event
    BY <1>3 DEF TypeOK
  <2> QED
    BY <2>2, <2>3, <2>4, CoverGrows
<1>6. \A x \in gone : \E p \in Pubkey : CoveredByVanish(p, promised'[p], x)
  BY <1>5 DEF Pending
<1>7. swept \subseteq Event /\ gone \subseteq Event
  BY <1>3, UpkeepDrops DEF TypeOK
<1> QED
  BY <1>4, <1>6, <1>7

\* Nobody may delete what the relay has signed.
LEMMA RelayUndeletable ==
    ASSUME NEW y \in Event, y.kind = DELETION_KIND, NEW x \in Event, x.pubkey = RelayPubkey
    PROVE  ~NamedById(y, x) /\ ~NamedByAddress(y, x)
<1>1. y.pubkey # RelayPubkey
  BY EventAssumption DEF DELETION_KIND, IsGroupMetadataKind
<1>2. x.kind # GIFT_WRAP_KIND
  BY EventAssumption DEF GIFT_WRAP_KIND, IsGroupMetadataKind
<1> QED
  BY <1>1, <1>2 DEF NamedById, NamedByAddress, MayDelete

\* A gift wrap has no address to be deleted by.
LEMMA MailHasNoAddress ==
    ASSUME NEW x, HasAddress(x)
    PROVE  x.kind # GIFT_WRAP_KIND
<1>1. ~IsReplaceableKind(GIFT_WRAP_KIND) /\ ~IsAddressableKind(GIFT_WRAP_KIND)
  BY DEF IsReplaceableKind, IsAddressableKind, GIFT_WRAP_KIND
<1> QED
  BY <1>1 DEF HasAddress

\* The shapes again, with who is answerable for what was tombstoned.
RemovalShape ==
    \/ /\ \E y \in Event, gone \in SUBSET Event : Admits(y, gone) /\ AcceptedDeletion(y, gone)
       /\ UNCHANGED promised
    \/ \E swept \in SUBSET Event, gone \in SUBSET Event :
          /\ Removes(swept, gone)
          /\ \A x \in gone : \E p \in Pubkey : CoveredByVanish(p, promised'[p], x)
    \/ (\E id \in EventId : Bars(id)) /\ UNCHANGED promised
    \/ (\E id \in EventId : Lifts(id)) /\ UNCHANGED promised
    \/ Keeps /\ UNCHANGED promised

\* Every step has one of these shapes too.
LEMMA NextRemoves ==
    ASSUME TypeOK, PromiseCovers, [Next]_vars
    PROVE  RemovalShape
<1>1. ASSUME NEW y \in Event, StoreBackfilled(y) \/ EmitGroupState(y)
      PROVE  RemovalShape
  <2>1. Admits(y, {}) /\ UNCHANGED promised
    BY <1>1 DEF StoreBackfilled, EmitGroupState, Admits, Ids
  <2>2. AcceptedDeletion(y, {})
    BY DEF AcceptedDeletion
  <2> QED
    BY <2>1, <2>2 DEF RemovalShape
<1>2. ASSUME NEW y \in Event, Publish(y) \/ HandleGiftWrap(y)
      PROVE  RemovalShape
  <2>1. AcceptEvent(y)
    BY <1>2 DEF Publish, HandleGiftWrap
  <2>2. UNCHANGED promised
    BY <2>1 DEF AcceptEvent
  <2> QED
    BY <2>1, <2>2, AcceptShape DEF RemovalShape
<1>3. ASSUME NEW id \in ModeratedId, BanEvent(id)
      PROVE  id \in EventId /\ Bars(id) /\ UNCHANGED promised
  BY <1>3, BoundsAssumption DEF BanEvent, Bars
<1>4. ASSUME NEW id \in ModeratedId, AllowEvent(id)
      PROVE  id \in EventId /\ Lifts(id) /\ UNCHANGED promised
  BY <1>4, BoundsAssumption DEF AllowEvent, Lifts
<1>5. CASE Tick \/ UNCHANGED vars
  BY <1>5 DEF Tick, vars, Keeps, RemovalShape
<1>6. ASSUME NEW request \in VanishRequest, HandleVanish(request)
      PROVE  RemovalShape
  BY <1>6, RequestRemoves DEF RemovalShape
<1>7. CASE CronTick
  BY <1>7, CronRemoves DEF RemovalShape
<1> QED
  BY <1>1, <1>2, <1>3, <1>4, <1>5, <1>6, <1>7 DEF Next, RemovalShape

\* Accounted is an invariant.
LEMMA AccountedAlways == Spec => []Accounted
<1>1. Init => Accounted
  BY DEF Init, Accounted
<1>2. TypeOK /\ PromiseCovers /\ Accounted /\ [Next]_vars => Accounted'
  <2> SUFFICES ASSUME TypeOK, PromiseCovers, Accounted, [Next]_vars, RemovalShape,
                      NEW x \in Event, x.pubkey = RelayPubkey, x.id \in deleted'
               PROVE  \/ x.id \in banned'
                      \/ \E p \in Pubkey : CoveredByVanish(p, promised'[p], x)
    BY NextRemoves DEF Accounted
  <2>1. ASSUME x.id \in deleted
        PROVE  \/ x.id \in banned
               \/ \E p \in Pubkey : CoveredByVanish(p, promised'[p], x)
    <3>1. ASSUME NEW p \in Pubkey, CoveredByVanish(p, promised[p], x)
          PROVE  CoveredByVanish(p, promised'[p], x)
      BY <3>1, PromiseGrows, CoverGrows DEF TypeOK
    <3> QED
      BY <2>1, <3>1 DEF Accounted
  <2>2. ASSUME NEW y \in Event, NEW gone \in SUBSET Event,
               Admits(y, gone), AcceptedDeletion(y, gone)
        PROVE  x.id \in deleted /\ banned' = banned
    <3>1. x \notin gone
      BY <2>2, RelayUndeletable DEF AcceptedDeletion
    <3> QED
      BY <2>2, <3>1, OneEventPerId DEF Admits
  <2>3. ASSUME NEW swept \in SUBSET Event, NEW gone \in SUBSET Event, Removes(swept, gone),
               \A z \in gone : \E p \in Pubkey : CoveredByVanish(p, promised'[p], z)
        PROVE  \/ x.id \in banned'
               \/ \E p \in Pubkey : CoveredByVanish(p, promised'[p], x)
    <3>1. CASE x.id \in deleted
      BY <2>1, <2>3, <3>1 DEF Removes
    <3>2. CASE x.id \notin deleted
      <4>1. x \in gone
        BY <2>3, <3>2, OneEventPerId DEF Removes
      <4> QED
        BY <2>3, <4>1
    <3> QED
      BY <3>1, <3>2
  <2>4. ASSUME NEW id \in EventId, Bars(id)
        PROVE  \/ x.id \in banned'
               \/ \E p \in Pubkey : CoveredByVanish(p, promised'[p], x)
    BY <2>1, <2>4 DEF Bars
  <2>5. ASSUME NEW id \in EventId, Lifts(id)
        PROVE  \/ x.id \in banned'
               \/ \E p \in Pubkey : CoveredByVanish(p, promised'[p], x)
    BY <2>1, <2>5 DEF Lifts
  <2>6. CASE Keeps
    BY <2>1, <2>6 DEF Keeps
  <2> QED
    BY <2>1, <2>2, <2>3, <2>4, <2>5, <2>6 DEF RemovalShape
<1> QED
  BY <1>1, <1>2, TypeCorrect, PromiseCoversAlways, PTL DEF Spec

\* Between two events, at most one is the newer version of the other, so what
\* storeEvent displaces is exactly what the new version supersedes.
LEMMA DisplacedIsSuperseded ==
    ASSUME NEW y \in Event, stored \subseteq Event, y \notin stored, Storable(stored, y)
    PROVE  Versions(stored, y) =
             { x \in stored : HasAddress(y) /\ SameAddress(x, y) /\ IsSupersededBy(y, x) }
<1>1. ASSUME NEW x \in stored, HasAddress(y), SameAddress(x, y)
      PROVE  IsSupersededBy(y, x)
  <2>1. x \in Event /\ x # y
    BY <1>1
  <2>2. ~IsSupersededBy(x, y)
    BY <1>1 DEF Storable, Versions
  <2>3. /\ x.created_at \in Nat /\ y.created_at \in Nat
        /\ x.id \in Nat /\ y.id \in Nat
        /\ x.id # y.id
    BY <2>1, EventAssumption DEF EventFieldsOK
  <2> QED
    BY <2>2, <2>3 DEF IsSupersededBy
<1> QED
  BY <1>1 DEF Versions

\* Who or what x leaves by, with a tombstone and without one.
Banned(x) == x.id \in banned'

DeletedByRight(x) ==
    /\ x.kind # DELETION_KIND
    /\ \E y \in stored' \ stored : y.kind = DELETION_KIND /\ MayDelete(y.pubkey, x)

Promised(x) == \E p \in Pubkey : CoveredByVanish(p, promised'[p], x)

GaveWay(x) == \E y \in stored' \ stored : ReplacedBy(x, y)

\* What RemovedByRight says of a step.
RightfulStep ==
    \A x \in stored \ stored' :
      IF x.id \in deleted'
      THEN \/ Banned(x)
           \/ DeletedByRight(x)
           \/ Promised(x)
      ELSE \/ GaveWay(x)
           \/ Perished(x, now)

\* Who names an event in a deletion that takes it may delete it, and the event
\* is no deletion.
LEMMA NamedMayBeDeleted ==
    ASSUME NEW y, NEW x, NamedById(y, x) \/ NamedByAddress(y, x)
    PROVE  x.kind # DELETION_KIND /\ MayDelete(y.pubkey, x)
<1>1. CASE NamedById(y, x)
  BY <1>1 DEF NamedById
<1>2. CASE NamedByAddress(y, x)
  <2>1. HasAddress(x) /\ x.pubkey = y.pubkey
    BY <1>2 DEF NamedByAddress
  <2>2. MayDelete(y.pubkey, x)
    BY <2>1, MailHasNoAddress DEF MayDelete
  <2>3. ASSUME x.kind = DELETION_KIND
        PROVE  FALSE
    <3>1. ~IsReplaceableKind(x.kind)
      BY <2>3 DEF IsReplaceableKind, DELETION_KIND
    <3>2. ~IsAddressableKind(x.kind)
      BY <2>3 DEF IsAddressableKind, DELETION_KIND
    <3> QED
      BY <2>1, <3>1, <3>2 DEF HasAddress
  <2> QED
    BY <2>2, <2>3
<1> QED
  BY <1>1, <1>2

\* What an event that came in displaced is older than it.
LEMMA DisplacedGaveWay ==
    ASSUME TypeOK, NEW y \in Event, NEW gone \in SUBSET Event, Admits(y, gone),
           NEW x \in stored \ stored', x \notin gone
    PROVE  GaveWay(x)
<1>1. x \notin StoreEvent(stored, y)
  BY DEF Admits
<1>2. Storable(stored, y) /\ x \in Versions(stored, y)
  BY <1>1 DEF StoreEvent
<1>3. ReplacedBy(x, y)
  BY <1>2, DisplacedIsSuperseded DEF TypeOK, Admits, ReplacedBy
<1>4. y \in stored' \ stored
  BY <1>2 DEF Admits, StoreEvent
<1> QED
  BY <1>3, <1>4 DEF GaveWay

\* A row leaves by right only: with a tombstone, by the owner's ban, a deletion
\* by who may delete it, or a vanish that was promised; without one, because a
\* newer version came in or it has perished.  That a row replaced by a newer one
\* may already have had a tombstone is what Accounted is for.
THEOREM RemovedTheorem == Spec => RemovedByRight
<1>1. ASSUME TypeOK, TombstoneKeepsOut, PromiseCovers, Accounted, [Next]_vars
      PROVE  [RightfulStep]_vars
  <2> USE <1>1
  <2> SUFFICES ASSUME RemovalShape, NEW x \in stored \ stored'
               PROVE  IF x.id \in deleted' THEN Banned(x) \/ DeletedByRight(x) \/ Promised(x)
                                           ELSE GaveWay(x) \/ Perished(x, now)
    BY NextRemoves DEF RightfulStep
  <2>1. x \in Event
    BY DEF TypeOK
  <2>2. ASSUME x.id \in deleted
        PROVE  x.id \in banned \/ Promised(x)
    <3>1. x.pubkey = RelayPubkey
      BY <2>2 DEF TombstoneKeepsOut
    <3>2. ASSUME NEW p \in Pubkey, CoveredByVanish(p, promised[p], x)
          PROVE  CoveredByVanish(p, promised'[p], x)
      BY <2>1, <3>2, PromiseGrows, CoverGrows DEF TypeOK
    <3> QED
      BY <2>1, <2>2, <3>1, <3>2 DEF Accounted, Promised
  <2>3. ASSUME NEW y \in Event, NEW gone \in SUBSET Event,
               Admits(y, gone), AcceptedDeletion(y, gone)
        PROVE  IF x.id \in deleted' THEN Banned(x) \/ DeletedByRight(x) \/ Promised(x)
                                    ELSE GaveWay(x)
    <3>1. CASE x.id \in deleted
      <4>1. x.id \in deleted' /\ banned' = banned
        BY <2>3, <3>1 DEF Admits
      <4> QED
        BY <2>2, <3>1, <4>1 DEF Banned
    <3>2. CASE x \in gone
      <4>1. x.id \in deleted'
        BY <2>3, <3>2 DEF Admits, Ids
      <4>2. /\ y.kind = DELETION_KIND
            /\ y \in stored' \ stored
            /\ NamedById(y, x) \/ NamedByAddress(y, x)
        BY <2>3, <3>2 DEF AcceptedDeletion
      <4>3. DeletedByRight(x)
        BY <4>2, NamedMayBeDeleted DEF DeletedByRight
      <4> QED
        BY <4>1, <4>3
    <3>3. CASE x.id \notin deleted /\ x \notin gone
      <4>1. x.id \notin deleted'
        BY <2>1, <2>3, <3>3, OneEventPerId DEF Admits
      <4> QED
        BY <2>3, <3>3, <4>1, DisplacedGaveWay
    <3> QED
      BY <3>1, <3>2, <3>3
  <2>4. ASSUME NEW swept \in SUBSET Event, NEW gone \in SUBSET Event, Removes(swept, gone),
               \A z \in gone : \E p \in Pubkey : CoveredByVanish(p, promised'[p], z)
        PROVE  IF x.id \in deleted' THEN Banned(x) \/ Promised(x) ELSE Perished(x, now)
    <3>1. CASE x.id \in deleted
      <4>1. x.id \in deleted' /\ banned' = banned
        BY <2>4, <3>1 DEF Removes
      <4> QED
        BY <2>2, <3>1, <4>1 DEF Banned
    <3>2. CASE x \in gone
      <4>1. x.id \in deleted'
        BY <2>4, <3>2 DEF Removes, Ids
      <4>2. Promised(x)
        BY <2>4, <3>2 DEF Promised
      <4> QED
        BY <4>1, <4>2
    <3>3. CASE x.id \notin deleted /\ x \notin gone
      <4>1. x.id \notin deleted'
        BY <2>1, <2>4, <3>3, OneEventPerId DEF Removes
      <4>2. Perished(x, now)
        BY <2>4, <3>3 DEF Removes
      <4> QED
        BY <4>1, <4>2
    <3> QED
      BY <3>1, <3>2, <3>3
  <2>5. ASSUME NEW id \in EventId, Bars(id)
        PROVE  x.id \in deleted' /\ Banned(x)
    BY <2>5 DEF Bars, Banned
  <2>6. ~Keeps /\ \A id \in EventId : ~Lifts(id)
    BY DEF Keeps, Lifts
  <2> QED
    BY <2>3, <2>4, <2>5, <2>6 DEF RemovalShape
<1>2. Spec => [][RightfulStep]_vars
  BY <1>1, TypeCorrect, TombstoneTheorem, PromiseCoversAlways, AccountedAlways, PTL DEF Spec
<1> QED
  BY <1>2 DEF RemovedByRight, RightfulStep, Banned, DeletedByRight, Promised, GaveWay

\* What VanishKeepsItsWord says of a step.
WordKept ==
    \A p \in Pubkey : \A cutoff \in {vanishing[p], promised'[p]} :
      (cutoff = vanishing[p] /\ cutoff # NotVanishing) \/ cutoff # promised[p] =>
         \/ vanishing'[p] >= cutoff
         \/ VanishTargets(stored', p, cutoff) = {}

\* A batch that ends a vanish is all there was to take.
LEMMA LastBatchIsAll ==
    ASSUME NEW S, NEW cutoff \in Nat \ {NotVanishing}, NEW batch \in Batches(S, VanishBatch),
           AfterDrain(cutoff, batch) # cutoff
    PROVE  batch = S
<1>1. Cardinality(batch) < VanishBatch
  BY DEF AfterDrain
<1>2. Cardinality(batch) # VanishBatch
  BY <1>1, BoundsAssumption
<1> QED
  BY <1>2 DEF Batches

\* What a wider vanish has none left of, a narrower has none of either.
LEMMA NarrowerTargets ==
    ASSUME NEW S \in SUBSET Event, NEW p, NEW c \in Nat, NEW d \in Nat, c <= d,
           VanishTargets(S, p, d) = {}
    PROVE  VanishTargets(S, p, c) = {}
BY CoverGrows DEF VanishTargets

\* A request keeps the words given before it, and its own.
LEMMA RequestKeepsWord ==
    ASSUME TypeOK, TypeOK', NEW request \in VanishRequest, HandleVanish(request)
    PROVE  WordKept
<1> DEFINE q == request.pubkey
           wide == request.created_at
<1>1. /\ q \in Pubkey
      /\ wide \in Nat
      /\ vanishing[q] < wide
      /\ promised'[q] = IF promised[q] < wide THEN wide ELSE promised[q]
      /\ \A p \in Pubkey \ {q} : vanishing'[p] = vanishing[p] /\ promised'[p] = promised[p]
  BY RequestPromises
<1>2. vanishing[q] \in Nat /\ vanishing'[q] \in Nat /\ promised[q] \in Nat
  BY <1>1 DEF TypeOK
<1>3. \/ vanishing'[q] = wide
      \/ VanishTargets(stored', q, wide) = {}
  <2>1. CASE VanishTargets(stored, q, wide) = {}
    BY <2>1 DEF HandleVanish
  <2>2. CASE VanishTargets(stored, q, wide) # {}
    <3>1. PICK batch \in Batches(VanishTargets(stored, q, wide), VanishBatch) :
               /\ stored' = stored \ batch
               /\ vanishing' = [vanishing EXCEPT ![q] = AfterDrain(wide, batch)]
      BY <2>2 DEF HandleVanish
    <3>2. vanishing'[q] = AfterDrain(wide, batch)
      BY <1>1, <3>1 DEF TypeOK
    <3>3. wide \in Nat \ {NotVanishing}
      BY <1>1, <1>2 DEF NotVanishing
    <3>4. CASE AfterDrain(wide, batch) # wide
      BY <3>1, <3>3, <3>4, LastBatchIsAll DEF VanishTargets
    <3> QED
      BY <3>2, <3>4
  <2> QED
    BY <2>1, <2>2
<1>4. ASSUME NEW cutoff \in Nat, cutoff <= wide
      PROVE  vanishing'[q] >= cutoff \/ VanishTargets(stored', q, cutoff) = {}
  <2>1. stored' \subseteq Event
    BY DEF TypeOK
  <2> QED
    BY <1>1, <1>2, <1>3, <1>4, <2>1, NarrowerTargets
<1>5. ASSUME NEW p \in Pubkey, p # q, NEW cutoff \in {vanishing[p], promised'[p]},
             (cutoff = vanishing[p] /\ cutoff # NotVanishing) \/ cutoff # promised[p]
      PROVE  vanishing'[p] >= cutoff
  <2>1. cutoff = vanishing[p] /\ vanishing[p] \in Nat /\ vanishing'[p] = vanishing[p]
    BY <1>1, <1>5 DEF TypeOK
  <2> QED
    BY <2>1
<1>6. ASSUME NEW cutoff \in {vanishing[q], promised'[q]},
             (cutoff = vanishing[q] /\ cutoff # NotVanishing) \/ cutoff # promised[q]
      PROVE  cutoff \in Nat /\ cutoff <= wide
  BY <1>1, <1>2, <1>6
<1> QED
  BY <1>4, <1>5, <1>6 DEF WordKept

\* A cron tick keeps every word: a vanish it ends has nothing left to take.
LEMMA CronKeepsWord ==
    ASSUME TypeOK, TypeOK', CronTick
    PROVE  WordKept
<1>1. PICK swept \in Upkeep(stored), rank \in DrainOrders :
      \E batch \in [Pending -> SUBSET (stored \ swept)] : CronRun(swept, rank, batch)
  BY CronRuns
<1>2. PICK batch \in [Pending -> SUBSET (stored \ swept)] : CronRun(swept, rank, batch)
  BY <1>1
<1>3. UNCHANGED promised
  BY DEF CronTick
<1>4. ASSUME NEW p \in Pubkey, NEW cutoff \in {vanishing[p], promised'[p]},
             (cutoff = vanishing[p] /\ cutoff # NotVanishing) \/ cutoff # promised[p]
      PROVE  \/ vanishing'[p] >= cutoff
             \/ VanishTargets(stored', p, cutoff) = {}
  <2>1. cutoff = vanishing[p] /\ vanishing[p] \in Nat
    BY <1>3, <1>4 DEF TypeOK
  <2>2. CASE p \notin Pending
    BY <1>2, <2>1, <2>2 DEF CronRun, Pending, NotVanishing
  <2>3. CASE p \in Pending
    <3>1. PICK left :
            /\ batch[p] \in Batches(VanishTargets(left, p, cutoff), VanishBatch)
            /\ stored' \subseteq left \ batch[p]
            /\ vanishing'[p] = AfterDrain(cutoff, batch[p])
      BY <1>2, <2>1, <2>3, CronBatch
    <3>2. cutoff \in Nat \ {NotVanishing}
      BY <2>1, <2>3 DEF Pending
    <3>3. CASE AfterDrain(cutoff, batch[p]) = cutoff
      BY <2>1, <3>1, <3>3
    <3>4. CASE AfterDrain(cutoff, batch[p]) # cutoff
      <4>1. batch[p] = VanishTargets(left, p, cutoff)
        BY <3>1, <3>2, <3>4, LastBatchIsAll
      <4> QED
        BY <3>1, <4>1 DEF VanishTargets
    <3> QED
      BY <3>3, <3>4
  <2> QED
    BY <2>2, <2>3
<1> QED
  BY <1>4 DEF WordKept

\* A vanish that was answered OK is carried out in full, over as many batches
\* and through as many other requests as it takes, or is still on record.
THEOREM WordTheorem == Spec => VanishKeepsItsWord
<1>1. ASSUME TypeOK, TypeOK', [Next]_vars
      PROVE  [WordKept]_vars
  <2> USE <1>1
  <2>1. CASE UNCHANGED <<vanishing, promised>>
    <3>1. ASSUME NEW p \in Pubkey, NEW cutoff \in {vanishing[p], promised'[p]},
                 (cutoff = vanishing[p] /\ cutoff # NotVanishing) \/ cutoff # promised[p]
          PROVE  vanishing'[p] >= cutoff
      BY <2>1, <3>1 DEF TypeOK
    <3> QED
      BY <3>1 DEF WordKept
  <2> QED
    BY <2>1, RequestKeepsWord, CronKeepsWord
    DEF Next, vars, Publish, HandleGiftWrap, AcceptEvent, StoreBackfilled,
        EmitGroupState, BanEvent, AllowEvent, Tick
<1>2. Spec => [][WordKept]_vars
  BY <1>1, TypeCorrect, PTL DEF Spec
<1> QED
  BY <1>2 DEF VanishKeepsItsWord, WordKept

-----------------------------------------------------------------------------
(* The table implements EventLifecycle.                                    *)

\* What the promise calls superseded by y.
LEMMA SupersededMeans ==
    ASSUME NEW y \in Event, stored \subseteq Event
    PROVE  Lifecycle!Superseded(y) =
             { x \in stored : HasAddress(y) /\ SameAddress(x, y) /\ IsSupersededBy(y, x) }
BY DEF Lifecycle!Superseded

\* An event that comes in is accepted by the promise, or nothing changes.
LEMMA AdmitsAccepts ==
    ASSUME TypeOK, NEW y \in Event, NEW gone \in SUBSET Event, Admits(y, gone)
    PROVE  Lifecycle!Next \/ UNCHANGED <<stored, { x \in Event : x.id \in deleted }>>
<1> DEFINE Gone == { x \in Event : x.id \in deleted }
<1>1. stored \subseteq Event
  BY DEF TypeOK
<1>2. Gone' = Gone \union gone
  BY OneEventPerId DEF Admits, Ids
<1>3. CASE Storable(stored, y)
  <2>1. StoreEvent(stored, y) = (stored \ Lifecycle!Superseded(y)) \union {y}
    BY <1>1, <1>3, DisplacedIsSuperseded, SupersededMeans DEF StoreEvent, Admits
  <2>2. stored' = ((stored \ Lifecycle!Superseded(y)) \union {y}) \ gone
    BY <2>1 DEF Admits
  <2>3. \A x \in stored : ~ (HasAddress(x) /\ SameAddress(y, x) /\ IsSupersededBy(x, y))
    BY <1>3 DEF Storable, Versions, HasAddress, SameAddress
  <2>4. Gone' = Gone \union ((stored \ Lifecycle!Superseded(y)) \ stored')
    BY <1>2, <1>3, <2>1, <2>2 DEF Admits
  <2>5. y \notin Gone \/ y \in { x \in Event : x.pubkey = RelayPubkey }
    BY DEF Admits
  <2>6. Lifecycle!Accept(y)
    BY <1>1, <1>3, <2>2, <2>3, <2>4, <2>5 DEF Lifecycle!Accept, Admits
  <2> QED
    BY <2>6 DEF Lifecycle!Next
<1>4. CASE ~Storable(stored, y)
  BY <1>2, <1>4 DEF Admits, StoreEvent, Lifecycle!Withdraw, Lifecycle!Next
<1> QED
  BY <1>3, <1>4

\* Rows that leave are withdrawn: tombstoned, or of those that may perish.
LEMMA RemovesWithdraws ==
    ASSUME TypeOK, NEW swept \in SUBSET Event, NEW gone \in SUBSET Event,
           Removes(swept, gone)
    PROVE  Lifecycle!Next
<1> DEFINE Gone == { x \in Event : x.id \in deleted }
<1>1. Gone' = Gone \union gone
  BY OneEventPerId DEF Removes, Ids
<1>2. swept \subseteq { x \in Event : MayPerish(x) }
  BY DEF Removes, Perished, MayPerish, Lapsed, TypeOK
<1> QED
  BY <1>1, <1>2 DEF Removes, Lifecycle!Withdraw, Lifecycle!Next

\* The owner's two calls are the promise's own two actions.
LEMMA OwnerCalls ==
    ASSUME TypeOK, NEW id \in EventId, Bars(id) \/ Lifts(id)
    PROVE  Lifecycle!Next
<1>1. PICK x \in Event : x.id = id
  BY DEF EventId
<1>2. \A z \in Event : z.id = id <=> z = x
  BY <1>1, EventAssumption
<1>3. CASE Bars(id)
  BY <1>2, <1>3 DEF Bars, TypeOK, Lifecycle!Bar, Lifecycle!Next
<1>4. CASE Lifts(id)
  BY <1>2, <1>4 DEF Lifts, TypeOK, Lifecycle!Restore, Lifecycle!Next
<1> QED
  BY <1>3, <1>4

\* Whatever path touches it, the event table does only what EventLifecycle
\* promises of it.
THEOREM StoreImplementsLifecycle == Spec => LifecycleSpec
<1> DEFINE Gone == { x \in Event : x.id \in deleted }
<1>1. Init => Lifecycle!Init
  BY DEF Init, Lifecycle!Init
<1>2. TypeOK /\ [Next]_vars => [Lifecycle!Next]_<<stored, Gone>>
  <2> SUFFICES ASSUME TypeOK, StepShape
               PROVE  Lifecycle!Next \/ UNCHANGED <<stored, Gone>>
    BY NextShape
  <2>1. CASE Keeps
    BY <2>1 DEF Keeps
  <2> QED
    BY <2>1, AdmitsAccepts, RemovesWithdraws, OwnerCalls DEF StepShape
<1> QED
  BY <1>1, <1>2, TypeCorrect, PTL DEF Spec, LifecycleSpec, Lifecycle!Spec
=============================================================================
