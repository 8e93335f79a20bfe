------------------------------- MODULE Events -------------------------------
(***************************************************************************)
(* Signed events and the one function that puts them in the relay's table: *)
(* nostr.ts's kinds and storage.ts's storeEvent, which the live write path *)
(* and backfill share.                                                     *)
(***************************************************************************)
EXTENDS Integers, FiniteSets

CONSTANTS
    Pubkey,         \* every key that signs or is named by an event
    Owner,          \* the relay's owner
    RelayPubkey,    \* the relay's own key, which signs the 39000-series
    Event           \* every signed event that may reach the relay

NoExpiration == 0   \* expirationOf's null: no usable expiration tag
EventId == { e.id : e \in Event }

DELETION_KIND == 5
GROUP_CHAT_KIND == 9
VANISH_KIND == 62
GIFT_WRAP_KIND == 1059
JOIN_REQUEST_KIND == 9021

IsReplaceableKind(kind) == kind \in {0, 3} \/ kind \in 10000 .. 19999
IsEphemeralKind(kind) == kind \in 20000 .. 29999
IsAddressableKind(kind) == kind \in 30000 .. 39999
IsGroupMetadataKind(kind) == kind \in 39000 .. 39005

(***************************************************************************)
(* An event is what its signature covers.  `d`, `h`, `p`, `e` and `a` are  *)
(* its tags; an `a` tag is an address, a kind, a pubkey and a `d`.         *)
(***************************************************************************)
EventFieldsOK ==
    \A x \in Event :
        /\ x.id \in Nat
        /\ x.pubkey \in Pubkey
        /\ x.created_at \in Nat
        /\ x.kind \in Nat
        /\ x.p \subseteq Pubkey
        /\ x.expiration \in Nat

ASSUME EventAssumption ==
    /\ EventFieldsOK
    /\ Owner \in Pubkey
    /\ IsFiniteSet(Event)
    \* ids are hashes: one id, one event
    /\ \A x, y \in Event : x.id = y.id => x = y
    \* the relay's key never leaves relay-identity.ts, and only nip29.ts's emit
    \* has it sign
    /\ \A x \in Event : x.pubkey = RelayPubkey => IsGroupMetadataKind(x.kind)

Lapsed(x, t) == x.expiration # NoExpiration /\ x.expiration <= t

-----------------------------------------------------------------------------
(* Storing: storage.ts storeEvent.                                         *)

\* Mutant: the wrong column of the row is written to the tombstone.
IdsOfAuthors(S) == { x.pubkey : x \in S }

Ids(S) == { x.id : x \in S }

\* Whether a stored x beats a candidate y: newer, or as new with a lower id.
IsSupersededBy(x, y) ==
    \/ x.created_at > y.created_at
    \/ x.created_at = y.created_at /\ x.id < y.id

\* Kinds that keep one version: per author and kind, and per `d` if addressable.
HasAddress(x) == IsReplaceableKind(x.kind) \/ IsAddressableKind(x.kind)

SameAddress(x, y) ==
    /\ x.pubkey = y.pubkey
    /\ x.kind = y.kind
    /\ IsAddressableKind(y.kind) => x.d = y.d

\* Mutant: the lookup of the versions to replace forgets kind and `d`.
VersionsOfAuthor(S, y) == { x \in S : HasAddress(y) /\ x.pubkey = y.pubkey }

Versions(S, y) == { x \in S : HasAddress(y) /\ SameAddress(x, y) }

\* Whether storeEvent writes a row for y.
Storable(S, y) ==
    /\ ~IsEphemeralKind(y.kind)
    /\ IsGroupMetadataKind(y.kind) => y.pubkey = RelayPubkey
    /\ \A x \in Versions(S, y) : ~IsSupersededBy(x, y)

\* Mutant: the versions that lost are left in the table.
StoreEventBesideOld(S, y) == IF Storable(S, y) THEN S \union {y} ELSE S

StoreEvent(S, y) ==
    IF Storable(S, y) THEN (S \ Versions(S, y)) \union {y} ELSE S
=============================================================================
