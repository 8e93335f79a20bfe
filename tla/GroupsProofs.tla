---------------------------- MODULE GroupsProofs ----------------------------
(***************************************************************************)
(* Theorems about Groups: its type invariant, the truth of the stored      *)
(* member lists, the cap on invitations, what membership is worth while    *)
(* there is one group, and that the groups implement InviteOnly.           *)
(***************************************************************************)
EXTENDS Groups, FiniteSetTheorems, TLAPS

-----------------------------------------------------------------------------
(* The list.                                                               *)

\* Of a list and one dated by Stamp, storeEvent keeps the new one: nothing is
\* left to the comparison of ids.
LEMMA NewListKept ==
    ASSUME NEW prior \in List, NEW present \in SUBSET Pubkey, now \in Nat
    PROVE  Kept(prior, [members |-> present, created_at |-> Stamp(prior)])
             = {[members |-> present, created_at |-> Stamp(prior)]}
    BY DEF Kept, Stamp, List

\* Regenerating g's list touches no other, and leaves g's own with exactly the
\* members it was given.
LEMMA RegenerateWrites ==
    ASSUME TypeOK, NEW g \in Group, NEW present \in SUBSET Pubkey, Regenerate(g, present)
    PROVE  /\ published' \in [Group -> List]
           /\ published'[g].members = present
           /\ \A h \in Group \ {g} : published'[h] = published[h]
  <1> DEFINE prior == published[g]
             list == [members |-> present, created_at |-> Stamp(prior)]
  <1>1. prior \in List /\ now \in Nat
    BY DEF TypeOK, Time
  <1>2. list \in List
    BY <1>1 DEF Stamp, List
  <1>3. CASE prior # NoList /\ prior.members = present
    BY <1>3 DEF Regenerate, TypeOK
  <1>4. CASE ~(prior # NoList /\ prior.members = present)
    <2>1. PICK kept \in Kept(prior, list) : published' = [published EXCEPT ![g] = kept]
      BY <1>4 DEF Regenerate
    <2>2. kept = list
      BY <2>1, <1>1, NewListKept
    <2> QED
      BY <2>1, <2>2, <1>2 DEF TypeOK
  <1> QED
    BY <1>3, <1>4

-----------------------------------------------------------------------------
(* Type correctness.                                                       *)

\* Every variable keeps its type, the groups that are not hosted stay empty
\* and the owner never gets a membership row.
THEOREM TypeCorrect == Spec => []TypeOK
  <1>1. Init => TypeOK
    BY GroupsAssumption DEF Init, TypeOK, Time, Invite, List, NoList, NeverIssued
  <1>2. TypeOK /\ [Next]_vars => TypeOK'
    <2> SUFFICES ASSUME TypeOK, [Next]_vars PROVE TypeOK'
      OBVIOUS
    <2> USE GroupsAssumption
    <2>1. CASE UNCHANGED vars
      BY <2>1 DEF vars, TypeOK
    <2>2. ASSUME NEW g \in Group, CreateGroup(g) PROVE TypeOK'
      <3>1. members[g] \in SUBSET Pubkey /\ Regenerate(g, members[g])
        BY <2>2 DEF CreateGroup, Unlisted, TypeOK
      <3>2. /\ published' \in [Group -> List]
            /\ \A h \in Group \ {g} : published'[h] = published[h]
        BY <3>1, RegenerateWrites
      <3> QED
        BY <2>2, <3>2 DEF CreateGroup, Unlisted, TypeOK
    <2>3. ASSUME NEW g \in Group, NEW S \in SUBSET Pubkey, PutUser(g, S) PROVE TypeOK'
      <3> DEFINE present == members[g] \union Named(S)
      <3>1. present \in SUBSET Pubkey /\ Regenerate(g, present)
        BY <2>3 DEF PutUser, Named, TypeOK
      <3>2. /\ published' \in [Group -> List]
            /\ \A h \in Group \ {g} : published'[h] = published[h]
        BY <3>1, RegenerateWrites
      <3>3. members' = [members EXCEPT ![g] = present] /\ g \in hosted
        BY <2>3 DEF PutUser
      <3>4. Owner \notin present
        BY DEF Named, TypeOK
      <3>5. allowed' \in [Pubkey -> {"none", "owner", "invite"}]
        BY <2>3 DEF PutUser, AllowForGroup, TypeOK
      <3>6. members' \in [Group -> SUBSET Pubkey]
        BY <3>1, <3>3 DEF TypeOK
      <3>7. \A h \in Group : Owner \notin members'[h]
        BY <3>3, <3>4 DEF TypeOK
      <3>8. \A h \in Group \ hosted : members'[h] = {} /\ published'[h] = NoList
        BY <3>2, <3>3 DEF TypeOK
      <3> QED
        BY <2>3, <3>2, <3>5, <3>6, <3>7, <3>8 DEF PutUser, Unlisted, TypeOK
    <2>4. ASSUME NEW g \in Group, NEW S \in SUBSET Pubkey, RemoveUser(g, S) PROVE TypeOK'
      <3>1. members[g] \ S \in SUBSET Pubkey /\ Regenerate(g, members[g] \ S)
        BY <2>4 DEF RemoveUser, TypeOK
      <3>2. /\ published' \in [Group -> List]
            /\ \A h \in Group \ {g} : published'[h] = published[h]
        BY <3>1, RegenerateWrites
      <3>3. members' = [members EXCEPT ![g] = members[g] \ S] /\ g \in hosted
        BY <2>4 DEF RemoveUser
      <3>4. allowed' \in [Pubkey -> {"none", "owner", "invite"}]
        BY <2>4 DEF RemoveUser, RevokeAllowance, TypeOK
      <3>5. members' \in [Group -> SUBSET Pubkey]
        BY <3>1, <3>3 DEF TypeOK
      <3>6. \A h \in Group : Owner \notin members'[h]
        BY <3>3 DEF TypeOK
      <3>7. \A h \in Group \ hosted : members'[h] = {} /\ published'[h] = NoList
        BY <3>2, <3>3 DEF TypeOK
      <3> QED
        BY <2>4, <3>2, <3>4, <3>5, <3>6, <3>7 DEF RemoveUser, Unlisted, TypeOK
    <2>5. ASSUME NEW g \in Group, NEW c \in Code, CreateInvite(g, c) PROVE TypeOK'
      <3>1. members[g] \in SUBSET Pubkey /\ Regenerate(g, members[g])
        BY <2>5 DEF CreateInvite, TypeOK
      <3>2. /\ published' \in [Group -> List]
            /\ \A h \in Group \ {g} : published'[h] = published[h]
        BY <3>1, RegenerateWrites
      <3>3. PICK expiry \in now + 1 .. now + MaxTtl :
              invites' = [invites EXCEPT ![c] = [state |-> "unused", expires_at |-> expiry]]
        BY <2>5 DEF CreateInvite
      <3>4. expiry \in Nat
        BY DEF TypeOK, Time
      <3>5. invites' \in [Code -> Invite]
        BY <3>3, <3>4 DEF TypeOK, Invite
      <3> QED
        BY <2>5, <3>2, <3>5 DEF CreateInvite, Unlisted, TypeOK
    <2>6. ASSUME NEW g \in Group, EditMetadata(g) PROVE TypeOK'
      <3>1. members[g] \in SUBSET Pubkey /\ Regenerate(g, members[g])
        BY <2>6 DEF EditMetadata, TypeOK
      <3>2. /\ published' \in [Group -> List]
            /\ \A h \in Group \ {g} : published'[h] = published[h]
        BY <3>1, RegenerateWrites
      <3> QED
        BY <2>6, <3>2 DEF EditMetadata, Unlisted, TypeOK
    <2>7. ASSUME NEW p \in Pubkey, NEW g \in Group, NEW c \in Code, Join(p, g, c)
          PROVE  TypeOK'
      <3>1. members' = [members EXCEPT ![TopLevel] = members[TopLevel] \union {p}]
        BY <2>7 DEF Join
      <3>2. members' \in [Group -> SUBSET Pubkey]
        BY <3>1 DEF TypeOK
      <3>3. members'[g] \in SUBSET Pubkey /\ Regenerate(g, members'[g])
        BY <2>7, <3>2 DEF Join
      <3>4. /\ published' \in [Group -> List]
            /\ \A h \in Group \ {g} : published'[h] = published[h]
        BY <3>3, RegenerateWrites
      <3>5. allowed' \in [Pubkey -> {"none", "owner", "invite"}]
        BY <2>7 DEF Join, AllowForGroup, TypeOK
      <3>6. invites' \in [Code -> Invite]
        BY <2>7 DEF Join, RedeemInvite, TypeOK, Invite
      <3>7. \A h \in Group : Owner \notin members'[h]
        BY <2>7, <3>1 DEF Join, TypeOK
      <3>8. \A h \in Group \ hosted : members'[h] = {} /\ published'[h] = NoList
        BY <2>7, <3>1, <3>4 DEF Join, TypeOK
      <3> QED
        BY <2>7, <3>2, <3>4, <3>5, <3>6, <3>7, <3>8 DEF Join, Unlisted, TypeOK
    <2>8. ASSUME NEW p \in HandManaged, AllowPubkey(p) \/ UnallowPubkey(p) PROVE TypeOK'
      BY <2>8 DEF AllowPubkey, UnallowPubkey, TypeOK
    <2>9. ASSUME NEW p \in Bannable, BanPubkey(p) \/ UnbanPubkey(p) PROVE TypeOK'
      BY <2>9 DEF BanPubkey, UnbanPubkey, TypeOK
    <2>10. ASSUME NEW c \in Code, RevokeInvite(c) PROVE TypeOK'
      <3>1. invites' \in [Code -> Invite]
        BY <2>10 DEF RevokeInvite, TypeOK, Invite
      <3> QED
        BY <2>10, <3>1 DEF RevokeInvite, TypeOK
    <2>11. ASSUME NEW g \in Group, BanList(g) PROVE TypeOK'
      BY <2>11 DEF BanList, TypeOK, List, NoList
    <2>12. CASE Tick
      BY <2>12 DEF Tick, TypeOK, Time
    <2> QED
      BY <2>1, <2>2, <2>3, <2>4, <2>5, <2>6, <2>7, <2>8, <2>9, <2>10, <2>11, <2>12 DEF Next
  <1> QED
    BY <1>1, <1>2, PTL DEF Spec

-----------------------------------------------------------------------------
(* The stored lists.                                                       *)

\* The list that is made is exact, once who joined by way of its group is in the
\* other; the rest were right, and are of groups whose members did not change,
\* but for those who joined the top-level group unlisted.
LEMMA ListsStayTrue ==
    ASSUME TypeOK, ListsAreTrue, NEW g \in Group, NEW present \in SUBSET Pubkey,
           NEW joining \in SUBSET Pubkey,
           Regenerate(g, present),
           members'[g] = present,
           unlisted' = Unlisted(g, joining),
           joining \intersect members[TopLevel] = {},
           \A h \in Group \ {g} :
               members'[h] = IF h = TopLevel THEN members[h] \union joining ELSE members[h]
    PROVE  ListsAreTrue'
  <1>1. published'[g].members = present
    BY RegenerateWrites
  <1>2. \A h \in Group \ {g} : published'[h] = published[h]
    BY RegenerateWrites
  <1>3. ASSUME NEW h \in Group, published'[h] # NoList
        PROVE  published'[h].members =
                 IF h = TopLevel THEN members'[h] \ unlisted' ELSE members'[h]
    <2>1. CASE h = g
      BY <2>1, <1>1 DEF Unlisted
    <2>2. CASE h # g /\ h # TopLevel
      BY <2>2, <1>2, <1>3 DEF ListsAreTrue
    <2>3. CASE h # g /\ h = TopLevel
      <3>1. published'[h].members = members[h] \ unlisted
        BY <2>3, <1>2, <1>3 DEF ListsAreTrue
      <3>2. unlisted' = unlisted \union joining /\ members'[h] = members[h] \union joining
        BY <2>3 DEF Unlisted
      <3> QED
        BY <2>3, <3>1, <3>2
    <2> QED
      BY <2>1, <2>2, <2>3
  <1> QED
    BY <1>3 DEF ListsAreTrue

\* ListsAreTrue holds for any number of groups, people and changes in a second:
\* what regenerateGroupState signs is what storeEvent keeps (nip29.ts), and a
\* list misses nobody but who joined the top-level group under another's name.
THEOREM ListsTheorem == Spec => []ListsAreTrue
  <1>1. Init => ListsAreTrue
    BY DEF Init, ListsAreTrue
  <1>2. TypeOK /\ ListsAreTrue /\ [Next]_vars => ListsAreTrue'
    <2> SUFFICES ASSUME TypeOK, ListsAreTrue, [Next]_vars PROVE ListsAreTrue'
      OBVIOUS
    <2> USE GroupsAssumption
    <2>1. ASSUME NEW g \in Group,
                 CreateGroup(g) \/ EditMetadata(g) \/ \E c \in Code : CreateInvite(g, c)
          PROVE  ListsAreTrue'
      <3>0. {} \in SUBSET Pubkey /\ {} \intersect members[TopLevel] = {}
        OBVIOUS
      <3>1. Regenerate(g, members[g]) /\ members' = members /\ unlisted' = Unlisted(g, {})
        BY <2>1 DEF CreateGroup, EditMetadata, CreateInvite
      <3>2. members[g] \in SUBSET Pubkey /\ \A h \in Group : members[h] = members[h] \union {}
        BY DEF TypeOK
      <3> QED
        BY <3>0, <3>1, <3>2, ListsStayTrue
    <2>2. ASSUME NEW g \in Group, NEW S \in SUBSET Pubkey, PutUser(g, S)
          PROVE  ListsAreTrue'
      <3>0. {} \in SUBSET Pubkey /\ {} \intersect members[TopLevel] = {}
        OBVIOUS
      <3>1. /\ members' = [members EXCEPT ![g] = members[g] \union Named(S)]
            /\ Regenerate(g, members[g] \union Named(S))
            /\ members[g] \union Named(S) \in SUBSET Pubkey
            /\ unlisted' = Unlisted(g, {})
        BY <2>2 DEF PutUser, Named, TypeOK
      <3>2. members'[g] = members[g] \union Named(S)
        BY <3>1 DEF TypeOK
      <3>3. \A h \in Group \ {g} : members'[h] = members[h]
        BY <3>1 DEF TypeOK
      <3>4. \A h \in Group \ {g} :
               members'[h] = IF h = TopLevel THEN members[h] \union {} ELSE members[h]
        BY <3>3
      <3> QED
        BY <3>0, <3>1, <3>2, <3>4, ListsStayTrue
    <2>3. ASSUME NEW g \in Group, NEW S \in SUBSET Pubkey, RemoveUser(g, S)
          PROVE  ListsAreTrue'
      <3>0. {} \in SUBSET Pubkey /\ {} \intersect members[TopLevel] = {}
        OBVIOUS
      <3>1. /\ members' = [members EXCEPT ![g] = members[g] \ S]
            /\ Regenerate(g, members[g] \ S)
            /\ members[g] \ S \in SUBSET Pubkey
            /\ unlisted' = Unlisted(g, {})
        BY <2>3 DEF RemoveUser, TypeOK
      <3>2. members'[g] = members[g] \ S
        BY <3>1 DEF TypeOK
      <3>3. \A h \in Group \ {g} : members'[h] = members[h]
        BY <3>1 DEF TypeOK
      <3>4. \A h \in Group \ {g} :
               members'[h] = IF h = TopLevel THEN members[h] \union {} ELSE members[h]
        BY <3>3
      <3> QED
        BY <3>0, <3>1, <3>2, <3>4, ListsStayTrue
    <2>4. ASSUME NEW p \in Pubkey, NEW g \in Group, NEW c \in Code, Join(p, g, c)
          PROVE  ListsAreTrue'
      <3>0. {p} \in SUBSET Pubkey
        OBVIOUS
      <3>1. /\ members' = [members EXCEPT ![TopLevel] = members[TopLevel] \union {p}]
            /\ Regenerate(g, members'[g])
            /\ unlisted' = Unlisted(g, {p})
            /\ {p} \intersect members[TopLevel] = {}
        BY <2>4 DEF Join
      <3>2. members'[g] \in SUBSET Pubkey
        BY <3>1 DEF TypeOK
      <3>3. \A h \in Group \ {g} :
               members'[h] = IF h = TopLevel THEN members[h] \union {p} ELSE members[h]
        BY <3>1 DEF TypeOK
      <3> QED
        BY <3>0, <3>1, <3>2, <3>3, ListsStayTrue
    <2>5. ASSUME NEW g \in Group, BanList(g) PROVE ListsAreTrue'
      BY <2>5 DEF BanList, ListsAreTrue, TypeOK
    <2>6. CASE \/ \E p \in HandManaged : AllowPubkey(p) \/ UnallowPubkey(p)
               \/ \E p \in Bannable : BanPubkey(p) \/ UnbanPubkey(p)
               \/ \E c \in Code : RevokeInvite(c)
               \/ Tick
               \/ UNCHANGED vars
      <3>1. UNCHANGED <<members, published, unlisted>>
        BY <2>6 DEF AllowPubkey, UnallowPubkey, BanPubkey, UnbanPubkey, RevokeInvite, Tick, vars
      <3> QED
        BY <3>1 DEF ListsAreTrue
    <2> QED
      BY <2>1, <2>2, <2>3, <2>4, <2>5, <2>6 DEF Next
  <1> QED
    BY <1>1, <1>2, TypeCorrect, PTL DEF Spec

-----------------------------------------------------------------------------
(* What membership is worth.                                               *)

\* SoleGroupMayWrite holds for everybody the owner does not manage by hand:
\* with one group, revoking an allowance and ending a membership are one act.
THEOREM SoleGroupTheorem == Spec => []SoleGroupMayWrite
  <1>1. Init => SoleGroupMayWrite
    BY GroupsAssumption DEF Init, SoleGroupMayWrite
  <1>2. TypeOK /\ SoleGroupMayWrite /\ [Next]_vars => SoleGroupMayWrite'
    <2> SUFFICES ASSUME TypeOK, SoleGroupMayWrite, [Next]_vars,
                        hosted' = {TopLevel},
                        NEW q \in members'[TopLevel] \ HandManaged
                 PROVE  allowed'[q] # "none"
      BY DEF SoleGroupMayWrite
    <2> USE GroupsAssumption
    <2>1. hosted = {TopLevel}
      BY DEF Next, vars, TypeOK, CreateGroup, PutUser, RemoveUser, CreateInvite, EditMetadata,
             Join, AllowPubkey, UnallowPubkey, BanPubkey, UnbanPubkey, RevokeInvite, BanList, Tick
    <2>2. q \in members[TopLevel] => q \in Pubkey /\ allowed[q] # "none"
      BY <2>1 DEF SoleGroupMayWrite, TypeOK
    <2>3. ASSUME NEW g \in Group, NEW S \in SUBSET Pubkey, PutUser(g, S)
          PROVE  allowed'[q] # "none"
      <3>1. q \in members[TopLevel] \/ q \in Named(S)
        BY <2>3 DEF PutUser, TypeOK
      <3>2. q \in Pubkey
        BY <3>1, <2>2 DEF Named
      <3> QED
        BY <2>2, <2>3, <3>1, <3>2 DEF PutUser, AllowForGroup
    <2>4. ASSUME NEW g \in Group, NEW S \in SUBSET Pubkey, RemoveUser(g, S)
          PROVE  allowed'[q] # "none"
      <3>1. g = TopLevel
        BY <2>1, <2>4 DEF RemoveUser
      <3>2. q \in members[TopLevel] /\ q \notin S
        BY <2>4, <3>1 DEF RemoveUser, TypeOK
      <3> QED
        BY <2>2, <2>4, <3>2 DEF RemoveUser, RevokeAllowance
    <2>5. ASSUME NEW p \in Pubkey, NEW g \in Group, NEW c \in Code, Join(p, g, c)
          PROVE  allowed'[q] # "none"
      <3>1. q \in members[TopLevel] \/ q = p
        BY <2>5 DEF Join, TypeOK
      <3> QED
        BY <2>2, <2>5, <3>1 DEF Join, AllowForGroup
    <2>6. ASSUME NEW p \in HandManaged, AllowPubkey(p) \/ UnallowPubkey(p)
          PROVE  allowed'[q] # "none"
      <3>1. q \in members[TopLevel] /\ q # p
        BY <2>6 DEF AllowPubkey, UnallowPubkey
      <3> QED
        BY <2>2, <2>6, <3>1 DEF AllowPubkey, UnallowPubkey, TypeOK
    <2>7. CASE \/ \E g \in Group : CreateGroup(g) \/ EditMetadata(g) \/ BanList(g)
               \/ \E g \in Group, c \in Code : CreateInvite(g, c)
               \/ \E p \in Bannable : BanPubkey(p) \/ UnbanPubkey(p)
               \/ \E c \in Code : RevokeInvite(c)
               \/ Tick
               \/ UNCHANGED vars
      <3>1. UNCHANGED <<members, allowed>>
        BY <2>7 DEF CreateGroup, EditMetadata, BanList, CreateInvite, BanPubkey, UnbanPubkey,
                    RevokeInvite, Tick, vars
      <3> QED
        BY <2>2, <3>1
    <2> QED
      BY <2>3, <2>4, <2>5, <2>6, <2>7 DEF Next
  <1> QED
    BY <1>1, <1>2, TypeCorrect, PTL DEF Spec

\* HandGrantSurvives: ON CONFLICT DO NOTHING and `source = 'invite'` keep the
\* group's hands off what allowpubkey granted (storage.ts).
THEOREM HandGrantTheorem == Spec => HandGrantSurvives
  <1> DEFINE Survives(p) == allowed[p] = "owner" /\ allowed'[p] # "owner" =>
                               /\ p \in HandManaged /\ allowed'[p] = "none"
                               /\ UNCHANGED <<members, invites, published>>
  <1>1. TypeOK /\ [Next]_vars => [ \A p \in Pubkey : Survives(p) ]_vars
    <2> SUFFICES ASSUME TypeOK, Next, NEW q \in Pubkey PROVE Survives(q)
      BY DEF vars
    <2>1. ASSUME NEW g \in Group, NEW S \in SUBSET Pubkey, PutUser(g, S) \/ RemoveUser(g, S)
          PROVE  Survives(q)
      BY <2>1 DEF PutUser, RemoveUser, AllowForGroup, RevokeAllowance
    <2>2. ASSUME NEW p \in Pubkey, NEW g \in Group, NEW c \in Code, Join(p, g, c)
          PROVE  Survives(q)
      BY <2>2 DEF Join, AllowForGroup
    <2>3. ASSUME NEW p \in HandManaged, AllowPubkey(p) \/ UnallowPubkey(p)
          PROVE  Survives(q)
      BY <2>3 DEF AllowPubkey, UnallowPubkey, TypeOK
    <2>4. CASE \/ \E g \in Group : CreateGroup(g) \/ EditMetadata(g) \/ BanList(g)
               \/ \E g \in Group, c \in Code : CreateInvite(g, c)
               \/ \E p \in Bannable : BanPubkey(p) \/ UnbanPubkey(p)
               \/ \E c \in Code : RevokeInvite(c)
               \/ Tick
      <3>1. UNCHANGED allowed
        BY <2>4 DEF CreateGroup, EditMetadata, BanList, CreateInvite, BanPubkey, UnbanPubkey,
                    RevokeInvite, Tick
      <3> QED
        BY <3>1
    <2> QED
      BY <2>1, <2>2, <2>3, <2>4 DEF Next
  <1> QED
    BY <1>1, TypeCorrect, PTL DEF Spec, HandGrantSurvives

-----------------------------------------------------------------------------
(* Invitations, and the door they open.                                    *)

\* How each step changes the invitations that are live, and the ones that are
\* not live any more.
Issued == { c \in Code : invites[c] # NeverIssued }

LEMMA InviteIsIssued ==
    ASSUME TypeOK, NEW g \in Group, NEW c \in Code, CreateInvite(g, c)
    PROVE  /\ c \notin Issued
           /\ Live(invites, now)' = Live(invites, now) \union {c}
           /\ Issued' = Issued \union {c}
  <1>1. PICK expiry \in now + 1 .. now + MaxTtl :
          invites' = [invites EXCEPT ![c] = [state |-> "unused", expires_at |-> expiry]]
    BY DEF CreateInvite
  <1>2. invites[c] = NeverIssued /\ now' = now
    BY DEF CreateInvite
  <1>3. expiry > now /\ now \in Nat
    BY GroupsAssumption DEF TypeOK, Time
  <1>4. invites'[c] = [state |-> "unused", expires_at |-> expiry]
    BY <1>1 DEF TypeOK
  <1>5. \A d \in Code \ {c} : invites'[d] = invites[d]
    BY <1>1 DEF TypeOK
  <1>6. invites'[c] # NeverIssued
    BY <1>4 DEF NeverIssued
  <1>7. Issued' = Issued \union {c}
    BY <1>5, <1>6 DEF Issued
  <1>8. Live(invites', now) = Live(invites, now) \union {c}
    BY <1>3, <1>4, <1>5 DEF Live
  <1> QED
    BY <1>2, <1>7, <1>8 DEF Issued, Live

LEMMA InviteIsSpent ==
    ASSUME TypeOK, NEW c \in Code, NEW state \in {"redeemed", "revoked"},
           invites[c].state = "unused",
           invites' = [invites EXCEPT ![c].state = state],
           now' = now
    PROVE  /\ c \in Issued
           /\ Live(invites, now)' = Live(invites, now) \ {c}
           /\ Issued' = Issued
  <1>1. invites'[c].state = state /\ invites'[c].expires_at = invites[c].expires_at
    BY DEF TypeOK, Invite
  <1>2. \A d \in Code \ {c} : invites'[d] = invites[d]
    BY DEF TypeOK
  <1>3. invites[c] # NeverIssued /\ invites'[c] # NeverIssued
    BY <1>1 DEF NeverIssued
  <1>4. Live(invites', now) = Live(invites, now) \ {c}
    BY <1>1, <1>2 DEF Live
  <1> QED
    BY <1>2, <1>3, <1>4 DEF Issued, Live

LEMMA LiveIsIssued == ASSUME TypeOK PROVE Live(invites, now) \subseteq Issued
    BY DEF Live, Issued, NeverIssued

\* InvitesWithinCap for any cap: MAX_OUTSTANDING_INVITES holds whatever expires,
\* is revoked or is redeemed meanwhile.
THEOREM CapTheorem == Spec => []InvitesWithinCap
  <1>1. Init => InvitesWithinCap
    <2> SUFFICES ASSUME Init PROVE InvitesWithinCap
      OBVIOUS
    <2>1. Live(invites, now) = {}
      BY DEF Init, Live, NeverIssued
    <2> QED
      BY <2>1, FS_EmptySet, GroupsAssumption DEF InvitesWithinCap
  <1>2. TypeOK /\ InvitesWithinCap /\ [Next]_vars => InvitesWithinCap'
    <2> SUFFICES ASSUME TypeOK, InvitesWithinCap, [Next]_vars PROVE InvitesWithinCap'
      OBVIOUS
    <2> DEFINE live == Live(invites, now)
    <2>1. IsFiniteSet(live)
      BY GroupsAssumption, FS_Subset DEF Live
    <2>2. ASSUME live' \subseteq live PROVE InvitesWithinCap'
      <3>1. Cardinality(live') <= Cardinality(live) /\ Cardinality(live') \in Nat /\ Cardinality(live) \in Nat
        BY <2>1, <2>2, FS_Subset, FS_CardinalityType
      <3> QED
        BY <3>1, GroupsAssumption DEF InvitesWithinCap
    <2>3. ASSUME NEW g \in Group, NEW c \in Code, CreateInvite(g, c) PROVE InvitesWithinCap'
      <3>1. live' = live \union {c} /\ Cardinality(live) < MaxOutstanding
        BY <2>3, InviteIsIssued DEF CreateInvite, RoomForInvite
      <3> HIDE DEF live
      <3>2. /\ IsFiniteSet(live \union {c})
            /\ Cardinality(live \union {c}) = IF c \in live THEN Cardinality(live)
                                                          ELSE Cardinality(live) + 1
        BY <2>1, FS_AddElement
      <3>3. Cardinality(live \union {c}) \in Nat /\ Cardinality(live) \in Nat
        BY <2>1, <3>2, FS_CardinalityType
      <3>4. Cardinality(live') <= MaxOutstanding
        BY <3>1, <3>2, <3>3, GroupsAssumption
      <3> QED
        BY <3>4 DEF InvitesWithinCap, live
    <2>4. ASSUME NEW p \in Pubkey, NEW g \in Group, NEW c \in Code, Join(p, g, c)
          PROVE  InvitesWithinCap'
      <3>1. /\ invites[c].state = "unused" /\ now' = now
            /\ invites' = [invites EXCEPT ![c].state = "redeemed"]
        BY <2>4 DEF Join, Live, RedeemInvite
      <3> QED
        BY <2>2, <3>1, InviteIsSpent
    <2>5. ASSUME NEW c \in Code, RevokeInvite(c) PROVE InvitesWithinCap'
      BY <2>2, <2>5, InviteIsSpent DEF RevokeInvite
    <2>6. CASE Tick
      <3>1. live' \subseteq live
        BY <2>6 DEF Tick, Live, TypeOK, Time, Invite
      <3> QED
        BY <2>2, <3>1
    <2>7. CASE \/ \E g \in Group : CreateGroup(g) \/ EditMetadata(g) \/ BanList(g)
               \/ \E g \in Group, S \in SUBSET Pubkey : PutUser(g, S) \/ RemoveUser(g, S)
               \/ \E p \in HandManaged : AllowPubkey(p) \/ UnallowPubkey(p)
               \/ \E p \in Bannable : BanPubkey(p) \/ UnbanPubkey(p)
               \/ UNCHANGED vars
      <3>1. UNCHANGED <<invites, now>>
        BY <2>7 DEF CreateGroup, EditMetadata, BanList, PutUser, RemoveUser, AllowPubkey,
                    UnallowPubkey, BanPubkey, UnbanPubkey, vars
      <3> QED
        BY <2>2, <3>1
    <2> QED
      BY <2>3, <2>4, <2>5, <2>6, <2>7 DEF Next
  <1> QED
    BY <1>1, <1>2, TypeCorrect, PTL DEF Spec

\* The groups implement InviteOnly: no order of moderation, revocations, expiry
\* and joins lets anyone but the owner's choice in without consuming exactly
\* one invitation that was good at that moment (nip29.ts handleJoinRequest).
THEOREM GroupsImplementDoor == Spec => DoorSpec
  <1> DEFINE inside == { gp \in Group \X Pubkey : gp[2] \in members[gp[1]] }
             live == Live(invites, now)
             dead == { c \in Code : invites[c] # NeverIssued } \ Live(invites, now)
  <1>1. Init => Door!Init
    <2> SUFFICES ASSUME Init PROVE Door!Init
      OBVIOUS
    <2>1. inside = {} /\ live = {} /\ dead = {}
      BY DEF Init, Live, NeverIssued
    <2> QED
      BY <2>1 DEF Init, Door!Init
  <1>2. TypeOK /\ [Next]_vars => [Door!Next]_<<inside, live, dead, actor>>
    <2> SUFFICES ASSUME TypeOK, [Next]_vars PROVE [Door!Next]_<<inside, live, dead, actor>>
      OBVIOUS
    <2>0. dead = Issued \ live /\ dead' = Issued' \ live'
      BY DEF Issued
    <2>1. ASSUME UNCHANGED <<invites, now>>, actor' = Owner PROVE Door!Next
      <3>1. live' = live /\ dead' = dead
        BY <2>1
      <3>2. inside' \in SUBSET (Group \X Pubkey)
        OBVIOUS
      <3> QED
        BY <2>1, <3>1, <3>2 DEF Door!Next, Door!Moderate
    <2>2. ASSUME NEW g \in Group, NEW c \in Code, CreateInvite(g, c) PROVE Door!Next
      <3>1. c \notin Issued /\ live' = live \union {c} /\ Issued' = Issued \union {c}
        BY <2>2, InviteIsIssued
      <3>2. c \notin live \union dead /\ dead' = dead
        BY <2>0, <3>1, LiveIsIssued
      <3>3. members' = members /\ actor' = Owner
        BY <2>2 DEF CreateInvite
      <3>4. inside' = inside
        BY <3>3
      <3>5. Door!Issue(c)
        BY <3>1, <3>2, <3>3, <3>4 DEF Door!Issue
      <3> QED
        BY <3>5 DEF Door!Next
    <2>3. ASSUME NEW p \in Pubkey, NEW g \in Group, NEW c \in Code, Join(p, g, c)
          PROVE  Door!Next
      <3>1. /\ invites[c].state = "unused" /\ now' = now /\ c \in live /\ actor' = p
            /\ invites' = [invites EXCEPT ![c].state = "redeemed"]
            /\ members' = [members EXCEPT ![TopLevel] = members[TopLevel] \union {p}]
        BY <2>3 DEF Join, Live, RedeemInvite
      <3>2. c \in Issued /\ live' = live \ {c} /\ Issued' = Issued
        BY <3>1, InviteIsSpent
      <3>3. dead' = dead \union {c}
        BY <2>0, <3>1, <3>2
      <3>4. \A h \in Group, q \in Pubkey :
               q \in members'[h] <=> q \in members[h] \/ (h = TopLevel /\ q = p)
        BY <3>1, GroupsAssumption DEF TypeOK
      <3>5. inside' = inside \union {<<TopLevel, p>>}
        BY <3>4, GroupsAssumption
      <3>6. Door!Enter(p, c)
        BY <3>1, <3>2, <3>3, <3>5, GroupsAssumption DEF Door!Enter
      <3> QED
        BY <3>6 DEF Door!Next
    <2>4. ASSUME NEW c \in Code, RevokeInvite(c) PROVE Door!Next
      <3>1. /\ invites[c].state = "unused" /\ now' = now /\ actor' = Owner /\ members' = members
            /\ invites' = [invites EXCEPT ![c].state = "revoked"]
        BY <2>4 DEF RevokeInvite
      <3>2. c \in Issued /\ live' = live \ {c} /\ Issued' = Issued
        BY <3>1, InviteIsSpent
      <3>3. dead' = dead \union {c} /\ inside' = inside
        BY <2>0, <3>1, <3>2
      <3>4. Door!Withdraw(c)
        BY <3>1, <3>2, <3>3 DEF Door!Withdraw
      <3> QED
        BY <3>4 DEF Door!Next
    <2>5. ASSUME Tick PROVE Door!Next
      <3>1. live' \subseteq live
        BY <2>5 DEF Tick, Live, TypeOK, Time, Invite
      <3>2. Issued' = Issued /\ inside' = inside /\ actor' = actor
        BY <2>5 DEF Tick, Issued
      <3> DEFINE lapsed == live \ live'
      <3>3. /\ lapsed \subseteq live
            /\ live' = live \ lapsed
            /\ dead' = dead \union lapsed
        BY <2>0, <3>1, <3>2, LiveIsIssued
      <3>4. PICK tokens \in SUBSET live :
              live' = live \ tokens /\ dead' = dead \union tokens
        <4> WITNESS lapsed \in SUBSET live
        <4> QED
          BY <3>3
      <3>5. tokens \in SUBSET Code
        BY DEF Live
      <3>6. Door!Lapse(tokens)
        BY <3>2, <3>4 DEF Door!Lapse
      <3> QED
        BY <3>5, <3>6 DEF Door!Next
    <2>6. CASE UNCHANGED vars
      BY <2>6 DEF vars
    <2>7. CASE \/ \E g \in Group : CreateGroup(g) \/ EditMetadata(g) \/ BanList(g)
               \/ \E g \in Group, S \in SUBSET Pubkey : PutUser(g, S) \/ RemoveUser(g, S)
               \/ \E p \in HandManaged : AllowPubkey(p) \/ UnallowPubkey(p)
               \/ \E p \in Bannable : BanPubkey(p) \/ UnbanPubkey(p)
      <3>1. UNCHANGED <<invites, now>> /\ actor' = Owner
        BY <2>7 DEF CreateGroup, EditMetadata, BanList, PutUser, RemoveUser, AllowPubkey,
                    UnallowPubkey, BanPubkey, UnbanPubkey
      <3> QED
        BY <2>1, <3>1
    <2> QED
      BY <2>2, <2>3, <2>4, <2>5, <2>6, <2>7 DEF Next
  <1> QED
    BY <1>1, <1>2, TypeCorrect, PTL DEF Spec, DoorSpec, Door!Spec
=============================================================================
