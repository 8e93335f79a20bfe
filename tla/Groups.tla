------------------------------- MODULE Groups -------------------------------
(***************************************************************************)
(* NIP-29 groups, with group support on: the owner's moderation events and *)
(* the join requests of others (nip29.ts), the tables they write and the   *)
(* NIP-86 calls that touch the same tables (storage.ts, nip86.ts), and the *)
(* member list the relay signs and stores for each group.                  *)
(*                                                                         *)
(* A moderation event is taken once: acceptEvent answers a repeat of it as *)
(* a duplicate, or as deleted, before it gets here.  So each action stands *)
(* for a new event, and is one synchronous run of the Durable Object.      *)
(***************************************************************************)
EXTENDS Integers, FiniteSets

CONSTANTS
    Pubkey,         \* every key that asks to join or is named by the owner
    Owner,          \* the relay's owner, and every group's only admin
    Group,          \* every group id
    TopLevel,       \* TOP_LEVEL_GROUP_ID, hosted from the first wake on
    Code,           \* every invite code the owner may issue
    HandManaged,    \* whom the owner allows and unallows by NIP-86 calls
    Bannable,       \* whom the owner bans and unbans
    MaxOutstanding, \* MAX_OUTSTANDING_INVITES
    MaxTtl,         \* INVITE_MAX_TTL_SECONDS
    MaxNow,         \* bound: the clock stops here
    MaxStamp        \* bound: no list is dated later

Time == 1 .. MaxNow
NoList == [members |-> {}, created_at |-> 0]
NeverIssued == [state |-> "none", expires_at |-> 0]

ASSUME GroupsAssumption ==
    /\ Owner \in Pubkey
    /\ TopLevel \in Group
    /\ HandManaged \subseteq Pubkey
    /\ Bannable \subseteq Pubkey \ {Owner}
    /\ IsFiniteSet(Code)
    /\ {MaxOutstanding, MaxStamp} \subseteq Nat
    /\ {MaxTtl, MaxNow} \subseteq Nat \ {0}

VARIABLES
    hosted,     \* `groups`
    members,    \* `group_membership`, by group
    allowed,    \* `allowed_pubkeys`: no row, or the row's source
    banned,     \* `banned_pubkeys`
    invites,    \* `group_invites`
    published,  \* the stored kind-39002 of each group
    now,        \* the clock
    actor,      \* history: who signed what the last step applied
    unlisted    \* history: who joined the top-level group by way of another one,
                \* since its list was last made

vars == <<hosted, members, allowed, banned, invites, published, now, actor, unlisted>>

Invite == [state : {"none", "unused", "redeemed", "revoked"}, expires_at : Nat]
List == [members : SUBSET Pubkey, created_at : Nat]

TypeOK ==
    /\ hosted \subseteq Group
    /\ members \in [Group -> SUBSET Pubkey]
    /\ allowed \in [Pubkey -> {"none", "owner", "invite"}]
    /\ banned \subseteq Bannable
    /\ invites \in [Code -> Invite]
    /\ published \in [Group -> List]
    /\ now \in Time
    /\ actor \in Pubkey
    /\ unlisted \subseteq Pubkey
    \* only a hosted group has members or a list, and the owner has no row
    /\ TopLevel \in hosted
    /\ \A g \in Group \ hosted : members[g] = {} /\ published[g] = NoList
    /\ \A g \in Group : Owner \notin members[g]

Init ==
    /\ hosted = {TopLevel}
    /\ members = [g \in Group |-> {}]
    /\ allowed = [p \in Pubkey |-> "none"]
    /\ banned = {}
    /\ invites = [c \in Code |-> NeverIssued]
    /\ published = [g \in Group |-> NoList]
    /\ now = 1
    /\ actor = Owner
    /\ unlisted = {}

-----------------------------------------------------------------------------
(* regenerateGroupState, as far as the member list goes.                   *)

\* Mutant: the new list is dated now.
StampNow(prior) == now

\* Strictly newer than the list it replaces.
Stamp(prior) == IF now > prior.created_at THEN now ELSE prior.created_at + 1

\* storeEvent: the later of two lists stays; of a tie, the lower id.
Kept(prior, list) ==
    { x \in {prior, list} : x.created_at >= prior.created_at /\ x.created_at >= list.created_at }

\* The list of g, once g has the members `present`.
Regenerate(g, present) ==
    LET prior == published[g]
        list == [members |-> present, created_at |-> Stamp(prior)]
    IN  IF prior # NoList /\ prior.members = present
        THEN UNCHANGED published
        ELSE /\ list.created_at <= MaxStamp
             /\ \E kept \in Kept(prior, list) :
                    published' = [published EXCEPT ![g] = kept]

\* History: g's list is made anew while these join the top-level group.
Unlisted(g, joining) == IF g = TopLevel THEN {} ELSE unlisted \union joining

-----------------------------------------------------------------------------
(* Moderation: authorizeGroupWrite, then applyModeration.                  *)

CreateGroup(g) ==
    /\ g \notin hosted
    /\ hosted' = hosted \union {g}
    /\ Regenerate(g, members[g])
    /\ unlisted' = Unlisted(g, {})
    /\ actor' = Owner
    /\ UNCHANGED <<members, allowed, banned, invites, now>>

\* Mutant: the owner is put in a group like anyone else.
NamedOrOwner(S) == S

\* The `p` tags, less the owner, who is every group's member without a row.
Named(S) == S \ {Owner}

\* Mutants: an allowance the owner made by hand becomes the group's; the outer
\* row is not written.
AllowForGroupUpsert(S) ==
    [p \in Pubkey |-> IF p \in S THEN "invite" ELSE allowed[p]]
AllowNobody(S) == allowed

\* allowPubkeyForGroup, for each of S: ON CONFLICT DO NOTHING.
AllowForGroup(S) ==
    [p \in Pubkey |-> IF p \in S /\ allowed[p] = "none" THEN "invite" ELSE allowed[p]]

PutUser(g, S) ==
    /\ g \in hosted
    /\ LET present == members[g] \union Named(S)
       IN  /\ members' = [members EXCEPT ![g] = present]
           /\ Regenerate(g, present)
    /\ unlisted' = Unlisted(g, {})
    /\ allowed' = AllowForGroup(Named(S))
    /\ actor' = Owner
    /\ UNCHANGED <<hosted, banned, invites, now>>

\* revokeGroupAllowance, for each of S: only what the group granted.
RevokeAllowance(S) ==
    [p \in Pubkey |-> IF p \in S /\ allowed[p] = "invite" THEN "none" ELSE allowed[p]]

RemoveUser(g, S) ==
    /\ g \in hosted
    /\ Owner \notin S
    /\ members' = [members EXCEPT ![g] = @ \ S]
    /\ Regenerate(g, members[g] \ S)
    /\ unlisted' = Unlisted(g, {})
    /\ allowed' = RevokeAllowance(S)
    /\ actor' = Owner
    /\ UNCHANGED <<hosted, banned, invites, now>>

\* Redeemable right now.
Live(table, t) == { c \in Code : table[c].state = "unused" /\ table[c].expires_at > t }

\* Mutant: the cap is compared with <=.
RoomPastCap == Cardinality(Live(invites, now)) <= MaxOutstanding

RoomForInvite == Cardinality(Live(invites, now)) < MaxOutstanding

\* The expiry is the event's own, at most MaxTtl ahead, or the default.
CreateInvite(g, c) ==
    /\ g \in hosted
    /\ invites[c] = NeverIssued
    /\ RoomForInvite
    /\ \E expiry \in now + 1 .. now + MaxTtl :
         invites' = [invites EXCEPT ![c] = [state |-> "unused", expires_at |-> expiry]]
    /\ Regenerate(g, members[g])
    /\ unlisted' = Unlisted(g, {})
    /\ actor' = Owner
    /\ UNCHANGED <<hosted, members, allowed, banned, now>>

EditMetadata(g) ==
    /\ g \in hosted
    /\ Regenerate(g, members[g])
    /\ unlisted' = Unlisted(g, {})
    /\ actor' = Owner
    /\ UNCHANGED <<hosted, members, allowed, banned, invites, now>>

(* Joining: handleJoinRequest.  A refusal, and a request of a member of    *)
(* the top-level group, changes nothing.                                   *)

\* Mutant: the row of a redeemed code is left as it was.
RedeemNothing(c) == invites

RedeemInvite(c) == [invites EXCEPT ![c].state = "redeemed"]

\* The request names any hosted group; its code is good for all of them, and
\* it is the top-level group that is joined.
Join(p, g, c) ==
    /\ g \in hosted
    /\ p # Owner
    /\ p \notin members[TopLevel]
    /\ p \notin banned
    /\ c \in Live(invites, now)
    /\ invites' = RedeemInvite(c)
    /\ members' = [members EXCEPT ![TopLevel] = @ \union {p}]
    /\ allowed' = AllowForGroup({p})
    /\ Regenerate(g, members'[g])
    /\ unlisted' = Unlisted(g, {p})
    /\ actor' = p
    /\ UNCHANGED <<hosted, banned, now>>

-----------------------------------------------------------------------------
(* The owner's NIP-86 calls on these tables.                               *)

AllowPubkey(p) ==
    /\ allowed' = [allowed EXCEPT ![p] = "owner"]
    /\ actor' = Owner
    /\ UNCHANGED <<hosted, members, banned, invites, published, now, unlisted>>

UnallowPubkey(p) ==
    /\ allowed' = [allowed EXCEPT ![p] = "none"]
    /\ actor' = Owner
    /\ UNCHANGED <<hosted, members, banned, invites, published, now, unlisted>>

BanPubkey(p) ==
    /\ p # Owner
    /\ banned' = banned \union {p}
    /\ actor' = Owner
    /\ UNCHANGED <<hosted, members, allowed, invites, published, now, unlisted>>

UnbanPubkey(p) ==
    /\ banned' = banned \ {p}
    /\ actor' = Owner
    /\ UNCHANGED <<hosted, members, allowed, invites, published, now, unlisted>>

\* An expired code is revoked like any other; a spent one is left alone.
RevokeInvite(c) ==
    /\ invites[c].state = "unused"
    /\ invites' = [invites EXCEPT ![c].state = "revoked"]
    /\ actor' = Owner
    /\ UNCHANGED <<hosted, members, allowed, banned, published, now, unlisted>>

\* banevent of a group's list: the row goes, and the next change signs anew.
BanList(g) ==
    /\ published' = [published EXCEPT ![g] = NoList]
    /\ actor' = Owner
    /\ UNCHANGED <<hosted, members, allowed, banned, invites, now, unlisted>>

Tick ==
    /\ now < MaxNow
    /\ now' = now + 1
    /\ UNCHANGED <<hosted, members, allowed, banned, invites, published, actor, unlisted>>

Next ==
    \/ \E g \in Group : CreateGroup(g)
    \/ \E g \in Group, S \in SUBSET Pubkey : PutUser(g, S)
    \/ \E g \in Group, S \in SUBSET Pubkey : RemoveUser(g, S)
    \/ \E g \in Group, c \in Code : CreateInvite(g, c)
    \/ \E g \in Group : EditMetadata(g)
    \/ \E p \in Pubkey, g \in Group, c \in Code : Join(p, g, c)
    \/ \E p \in HandManaged : AllowPubkey(p)
    \/ \E p \in HandManaged : UnallowPubkey(p)
    \/ \E p \in Bannable : BanPubkey(p)
    \/ \E p \in Bannable : UnbanPubkey(p)
    \/ \E c \in Code : RevokeInvite(c)
    \/ \E g \in Group : BanList(g)
    \/ Tick

Spec == Init /\ [][Next]_vars

-----------------------------------------------------------------------------
(* Properties.                                                             *)

\* The stored list of a group is its membership: no change of it, however
\* soon after the last, loses to the list it replaces.  Only those who joined
\* the top-level group by way of another one are missing from its list, and
\* they are in the next that is made.
ListsAreTrue ==
    \A g \in Group :
        published[g] # NoList =>
            published[g].members = IF g = TopLevel THEN members[g] \ unlisted ELSE members[g]

\* What nip29.ts says of the lists, a join naming another group included.  No
\* run checks it (README, Known differences).
ListsAreMembership ==
    \A g \in Group : published[g] # NoList => published[g].members = members[g]

\* listunusedinvites never has more to show than MAX_OUTSTANDING_INVITES.
InvitesWithinCap == Cardinality(Live(invites, now)) <= MaxOutstanding

\* While the relay hosts the one group it starts with, membership implies the
\* allowance the write gate asks for, unless the owner edits it by hand.
SoleGroupMayWrite ==
    hosted = {TopLevel} =>
        \A p \in members[TopLevel] \ HandManaged : allowed[p] # "none"

\* An allowance made by hand is only ever taken back by hand: putting a user
\* in a group, removing him or his own joining leaves it what it was.
HandGrantSurvives ==
    [][ \A p \in Pubkey :
          allowed[p] = "owner" /\ allowed'[p] # "owner" =>
              /\ p \in HandManaged /\ allowed'[p] = "none"
              /\ UNCHANGED <<members, invites, published>> ]_vars

\* "Both tables, together": every member of a group has an allowance.
MembersMayWrite == \A g \in hosted : \A p \in members[g] : allowed[p] # "none"

\* Who may publish to g: the relay-wide gate, under a policy that admits none
\* but the allowed, then authorizeGroupWrite.
MayWrite(p, g) ==
    /\ g \in hosted
    /\ \/ p = Owner
       \/ p \notin banned /\ allowed[p] # "none" /\ p \in members[TopLevel]

\* Who is sent g's events: handleReqInner and broadcast.
MayRead(p, g) == g \in hosted /\ (p = Owner \/ p \in members[g])

\* "a pubkey admitted to write to a group is by construction admitted to read
\* it back".
WritersMayRead == \A p \in Pubkey, g \in Group : MayWrite(p, g) => MayRead(p, g)

(* The groups as a door that opens to invitations.                         *)

Door == INSTANCE InviteOnly WITH
    Place <- Group,
    Guest <- Pubkey,
    Token <- Code,
    inside <- { gp \in Group \X Pubkey : gp[2] \in members[gp[1]] },
    live <- Live(invites, now),
    dead <- { c \in Code : invites[c] # NeverIssued } \ Live(invites, now)

\* Nobody but the owner's choice comes in without using up a good invitation.
DoorSpec == Door!Spec
=============================================================================
