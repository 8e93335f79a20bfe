---------------------------- MODULE WritersProofs ----------------------------
(***************************************************************************)
(* What holds of the claim and of the write gate for any number of people, *)
(* codes and contact lists.                                                *)
(***************************************************************************)
EXTENDS Writers, FiniteSetTheorems, TLAPS

-----------------------------------------------------------------------------
(* Type correctness.                                                       *)

\* The table of codes is finite, which its cap is counted of.
TypeInv == TypeOK /\ IsFiniteSet(nonces)

\* A claim leaves a row that names a person, and no code that was not there.
LEMMA ClaimRpcType ==
    ASSUME TypeInv, NEW p \in Pubkey, NEW n \in Nonce \union {NoNonce}, ClaimRpc(p, n)
    PROVE  /\ row' \in [pubkey : Pubkey, nonce : Nonce \union {NoNonce}] \union {NoRow}
           /\ nonces' \subseteq nonces
<1>1. row' \in [pubkey : Pubkey, nonce : Nonce \union {NoNonce}] \union {NoRow}
  BY DEF ClaimRpc, ClaimOwner, TypeInv, TypeOK
<1>2. nonces' \subseteq nonces
  BY DEF ClaimRpc, CodesAfter
<1> QED
  BY <1>1, <1>2

\* Fewer codes are still a table within its cap.
LEMMA FewerCodes ==
    ASSUME TypeInv, nonces' \subseteq nonces
    PROVE  /\ nonces' \subseteq [nonce : Nonce, expiresAt : Nat]
           /\ Cardinality(nonces') <= MaxNonces
           /\ IsFiniteSet(nonces')
<1>1. IsFiniteSet(nonces') /\ Cardinality(nonces') <= Cardinality(nonces)
  BY FS_Subset DEF TypeInv
<1>2. Cardinality(nonces) \in Nat /\ Cardinality(nonces') \in Nat
  BY <1>1, FS_CardinalityType DEF TypeInv
<1> QED
  BY <1>1, <1>2, WritersAssumption DEF TypeInv, TypeOK

\* A code is issued only where the codes that have not lapsed leave room.
LEMMA IssueType ==
    ASSUME TypeInv, NEW n \in Nonce, IssueClaimNonce(n)
    PROVE  /\ nonces' \subseteq [nonce : Nonce, expiresAt : Nat]
           /\ Cardinality(nonces') <= MaxNonces
           /\ IsFiniteSet(nonces')
           /\ minted' \subseteq Nonce
<1> DEFINE left == nonces \ Lapsed
           new == [nonce |-> n, expiresAt |-> now + NonceTtl]
<1>1. left \subseteq nonces /\ IsFiniteSet(left) /\ Cardinality(left) \in Nat
  BY FS_Subset, FS_CardinalityType DEF TypeInv
<1>2. CASE Cardinality(left) >= MaxNonces
  <2>1. nonces' = left /\ minted' = minted
    BY <1>2 DEF IssueClaimNonce
  <2> QED
    BY <1>1, <2>1, FewerCodes DEF TypeInv, TypeOK
<1>3. CASE ~(Cardinality(left) >= MaxNonces)
  <2>1. nonces' = left \union {new} /\ minted' = minted \union {n}
    BY <1>3 DEF IssueClaimNonce
  <2>2. IsFiniteSet(nonces') /\ Cardinality(nonces') <= Cardinality(left) + 1
    <3> HIDE DEF left, new
    <3>1. /\ IsFiniteSet(left \union {new})
          /\ Cardinality(left \union {new})
               = IF new \in left THEN Cardinality(left) ELSE Cardinality(left) + 1
      BY <1>1, FS_AddElement
    <3>2. Cardinality(left \union {new}) <= Cardinality(left) + 1
      BY <1>1, <3>1
    <3> QED
      BY <2>1, <3>1, <3>2
  <2>3. Cardinality(nonces') \in Nat
    BY <2>2, FS_CardinalityType
  <2>4. new \in [nonce : Nonce, expiresAt : Nat]
    BY WritersAssumption DEF TypeInv, TypeOK
  <2> QED
    BY <1>1, <1>3, <2>1, <2>2, <2>3, <2>4, WritersAssumption DEF TypeInv, TypeOK
<1> QED
  BY <1>2, <1>3

\* What the cache is rebuilt to, in full or in part, is made of people, and its
\* hash of one set.
LEMMA RefreshType ==
    ASSUME TypeInv, NEW latest \in SUBSET Contacts, Refresh(latest) \/ BreakOff(latest)
    PROVE  /\ follows' \subseteq Pubkey
           /\ hash' \subseteq SUBSET Pubkey /\ Cardinality(hash') <= 1
           /\ throws' \in Nat /\ torn' \in BOOLEAN
<1> DEFINE named == UNION { l.follows : l \in latest }
<1>1. named \subseteq Pubkey
  BY WritersAssumption
<1>2. Cardinality({}) = 0 /\ Cardinality({named}) = 1
  BY FS_EmptySet, FS_Singleton
<1>3. \/ follows' = follows /\ hash' = hash
      \/ follows' = {} /\ hash' = {}
      \/ follows' = named /\ hash' = {named}
      \/ follows' \subseteq named /\ hash' = hash
  BY DEF Refresh, RefreshFollows, BreakOff
<1>7. throws' \in Nat
  BY DEF Refresh, BreakOff, TypeInv, TypeOK
<1>8. torn' \in BOOLEAN
  <2>1. CASE Refresh(latest)
    BY <2>1, Zenon DEF Refresh
  <2>2. CASE BreakOff(latest)
    BY <2>2, Zenon DEF BreakOff
  <2> QED
    BY <2>1, <2>2
<1> HIDE DEF named
<1>4. CASE (follows' = follows \/ follows' \subseteq named) /\ hash' = hash
  BY <1>1, <1>4, <1>7, <1>8 DEF TypeInv, TypeOK
<1>5. CASE follows' = {} /\ hash' = {}
  BY <1>2, <1>5, <1>7, <1>8
<1>6. CASE follows' = named /\ hash' = {named}
  <2>1. Cardinality(hash') <= 1
    BY <1>2, <1>6
  <2> QED
    BY <1>1, <1>6, <1>7, <1>8, <2>1
<1> QED
  BY <1>3, <1>4, <1>5, <1>6

\* The policy a frame is judged by is the one in force.
LEMMA PolicyInForce ==
    ASSUME TypeInv
    PROVE  WritePolicy = Resolved
BY DEF TypeInv, TypeOK, WritePolicy

\* The type invariant is kept by every step.
LEMMA TypeInvariance == Spec => []TypeInv
<1>1. Init => TypeInv
  <2> SUFFICES ASSUME Init PROVE TypeInv
    OBVIOUS
  <2>1. torn \in BOOLEAN /\ settled \in BOOLEAN
    BY Zenon DEF Init
  <2>2. IsFiniteSet({}) /\ Cardinality({}) = 0
    BY FS_EmptySet
  <2>3. /\ Cardinality(nonces) <= MaxNonces /\ IsFiniteSet(nonces)
        /\ Cardinality(hash) <= 1
    BY <2>2, WritersAssumption DEF Init
  <2>4. env \in [owner : Pubkey \union {Nobody}, policy : Policy \union {Unset}]
    BY DEF Init, Bare
  <2>5. now \in Nat /\ deploys \in Nat /\ throws \in Nat
    BY DEF Init
  <2> QED
    BY <2>1, <2>3, <2>4, <2>5 DEF Init, TypeInv, TypeOK, Resolved
<1>2. TypeInv /\ [Next]_vars => TypeInv'
  <2> SUFFICES ASSUME TypeInv, [Next]_vars PROVE TypeInv'
    OBVIOUS
  <2> USE DEF claimVars, policyVars, listVars, cacheVars
  <2>1. settled' \in BOOLEAN
    <3>1. CASE Next
      BY <3>1, Zenon DEF Next
    <3>2. CASE UNCHANGED vars
      BY <3>2 DEF TypeInv, TypeOK, vars
    <3> QED
      BY <3>1, <3>2
  <2>2. ASSUME NEW n \in Nonce, IssueClaimNonce(n) PROVE TypeInv'
    BY <2>1, <2>2, IssueType DEF IssueClaimNonce, TypeInv, TypeOK, Resolved
  <2>3. ASSUME NEW p \in Pubkey, NEW n \in minted \union {NoNonce}, AskClaim(p, n) PROVE TypeInv'
    BY <2>1, <2>3 DEF AskClaim, TypeInv, TypeOK, Resolved
  <2>4. ASSUME NEW p \in Pubkey, NEW n \in minted, ClaimSigned(p, n) PROVE TypeInv'
    <3>1. ClaimRpc(p, n) /\ n \in Nonce \union {NoNonce}
      BY <2>4 DEF ClaimSigned, TypeInv, TypeOK
    <3> QED
      BY <2>1, <2>4, <3>1, ClaimRpcType, FewerCodes DEF ClaimSigned, TypeInv, TypeOK, Resolved
  <2>5. ASSUME NEW r \in requests, Claim(r) PROVE TypeInv'
    <3>1. r.pubkey \in Pubkey /\ r.nonce \in Nonce \union {NoNonce} /\ ClaimRpc(r.pubkey, r.nonce)
      BY <2>5 DEF Claim, TypeInv, TypeOK
    <3> QED
      BY <2>1, <2>5, <3>1, ClaimRpcType, FewerCodes DEF Claim, TypeInv, TypeOK, Resolved
  <2>6. ASSUME NEW p \in Pubkey,
               BanPubkey(p) \/ UnbanPubkey(p) \/ AllowPubkey(p) \/ UnallowPubkey(p)
        PROVE  TypeInv'
    BY <2>1, <2>6
    DEF BanPubkey, UnbanPubkey, AllowPubkey, UnallowPubkey, Manage, ForgetPolicy, TypeInv, TypeOK, Resolved
  <2>7. ASSUME NEW policy \in StoredPolicies \union {Unset}, ChangeWritePolicy(policy) PROVE TypeInv'
    BY <2>1, <2>7, WritersAssumption DEF ChangeWritePolicy, Manage, ForgetPolicy, TypeInv, TypeOK
  <2>8. ASSUME NEW l \in Contacts, AcceptContacts(l) PROVE TypeInv'
    <3>1. lists' \subseteq Contacts
      BY <2>8 DEF AcceptContacts, StoredWith, TypeInv, TypeOK
    <3>2. cachedPolicy' = Resolved /\ Resolved' = Resolved
      BY <2>8, PolicyInForce DEF AcceptContacts, Resolved
    <3>3. \/ Refresh({l}) \/ BreakOff({l})
          \/ UNCHANGED cacheVars
      BY <2>8 DEF AcceptContacts
    <3>4. /\ follows' \subseteq Pubkey
          /\ hash' \subseteq SUBSET Pubkey /\ Cardinality(hash') <= 1
          /\ throws' \in Nat /\ torn' \in BOOLEAN
      BY <3>3, RefreshType DEF TypeInv, TypeOK
    <3> QED
      BY <2>1, <2>8, <3>1, <3>2, <3>4 DEF AcceptContacts, TypeInv, TypeOK
  <2>9. ASSUME NEW l \in Contacts, BackfillContacts(l) PROVE TypeInv'
    BY <2>1, <2>9 DEF BackfillContacts, StoredWith, TypeInv, TypeOK, Resolved
  <2>10. ASSUME NEW l \in Contacts, DeleteContacts(l) PROVE TypeInv'
    BY <2>1, <2>10 DEF DeleteContacts, TypeInv, TypeOK, Resolved
  <2>11. CASE Consult
    BY <2>1, <2>11, PolicyInForce DEF Consult, TypeInv, TypeOK, Resolved
  <2>12. CASE Cron
    <3>1. Latest(Owner) \subseteq Contacts
      BY DEF Latest, TypeInv, TypeOK
    <3>2. Refresh(Latest(Owner)) \/ BreakOff(Latest(Owner))
      BY <2>12 DEF Cron
    <3>3. /\ follows' \subseteq Pubkey
          /\ hash' \subseteq SUBSET Pubkey /\ Cardinality(hash') <= 1
          /\ throws' \in Nat /\ torn' \in BOOLEAN
      BY <3>1, <3>2, RefreshType
    <3> QED
      BY <2>1, <2>12, <3>3 DEF Cron, TypeInv, TypeOK, Resolved
  <2>13. ASSUME NEW e \in Deployments \union {Bare}, Deploy(e) PROVE TypeInv'
    BY <2>1, <2>13, WritersAssumption DEF Deploy, Bare, TypeInv, TypeOK, Resolved
  <2>14. CASE Restart \/ Tick
    BY <2>1, <2>14, WritersAssumption DEF Restart, Tick, TypeInv, TypeOK, Resolved
  <2>15. CASE UNCHANGED vars
    BY <2>15 DEF vars, TypeInv, TypeOK, Resolved
  <2> QED
    BY <2>2, <2>3, <2>4, <2>5, <2>6, <2>7, <2>8, <2>9, <2>10, <2>11, <2>12, <2>13, <2>14, <2>15
    DEF Next, Step
<1> QED
  BY <1>1, <1>2, PTL DEF Spec

\* No more codes are ever outstanding than the cap allows, the policy in memory
\* is the one in force, and the tables keep their types.
THEOREM TypeCorrect == Spec => []TypeOK
<1>1. TypeInv => TypeOK
  BY DEF TypeInv
<1> QED
  BY <1>1, TypeInvariance, PTL
-----------------------------------------------------------------------------
(* The claim.                                                              *)

\* A claimed relay has no codes left.
Spent == row # NoRow => nonces = {}

\* What ClaimHolds says of one step.
ClaimStep ==
    /\ row # NoRow => row' = row /\ nonces' = {}
    /\ row' # row => /\ nonces' = {}
                     /\ row'.nonce = NoNonce \/ GoodCode(row'.nonce)
    /\ \A n \in minted : Status(n) # "pending" => Status(n)' = Status(n)

\* An unowned relay has no row.
LEMMA UnownedHasNoRow ==
    ASSUME TypeInv, Owner = Nobody
    PROVE  row = NoRow
<1>1. env.owner = Nobody
  BY WritersAssumption DEF Owner, TypeInv, TypeOK
<1> QED
  BY <1>1, WritersAssumption DEF Owner, TypeInv, TypeOK

\* A claim of an unclaimed relay takes all its codes with it; a later one
\* finds none and changes nothing.
LEMMA ClaimRpcStep ==
    ASSUME TypeInv, Spent, NEW p \in Pubkey, NEW n \in Nonce \union {NoNonce}, ClaimRpc(p, n)
    PROVE  ClaimStep /\ Spent'
<1>1. CASE UNCHANGED <<row, nonces>>
  BY <1>1 DEF ClaimStep, Spent, Status
<1>2. CASE row # NoRow /\ ~(UNCHANGED <<row, nonces>>)
  <2>1. nonces = {}
    BY <1>2 DEF Spent
  <2>2. row' = row
    BY <1>2 DEF ClaimRpc, ClaimOwner
  <2>3. nonces' = {}
    BY <2>1, ClaimRpcType
  <2> QED
    BY <2>1, <2>2, <2>3 DEF ClaimStep, Spent, Status
<1>3. CASE row = NoRow /\ ~(UNCHANGED <<row, nonces>>)
  <2>1. row' = [pubkey |-> p, nonce |-> n] /\ nonces' = {} /\ (n = NoNonce \/ GoodCode(n))
    BY <1>3 DEF ClaimRpc, ClaimOwner, CodesAfter
  <2>2. \A m \in minted : Status(m) = "pending"
    BY <1>3 DEF Status
  <2> QED
    BY <1>3, <2>1, <2>2 DEF ClaimStep, Spent
<1> QED
  BY <1>1, <1>2, <1>3

\* A relay is claimed once, with a code that was good at that moment if with
\* any; no code outlives the claim, and what a page was told stays true.
THEOREM ClaimIsFinal == Spec => ClaimHolds
<1>1. Init => Spent
  BY DEF Init, Spent
<1>2. TypeInv /\ Spent /\ [Next]_vars => Spent' /\ (ClaimStep \/ UNCHANGED vars)
  <2> SUFFICES ASSUME TypeInv, Spent, [Next]_vars
               PROVE  Spent' /\ (ClaimStep \/ UNCHANGED vars)
    OBVIOUS
  <2> USE DEF claimVars, policyVars, listVars
  <2>1. CASE UNCHANGED <<row, nonces>>
    BY <2>1 DEF Spent, ClaimStep, Status
  <2>2. ASSUME NEW n \in Nonce, IssueClaimNonce(n) PROVE Spent' /\ ClaimStep
    <3>1. row = NoRow /\ row' = row
      BY <2>2, UnownedHasNoRow DEF IssueClaimNonce
    <3> QED
      BY <3>1 DEF Spent, ClaimStep, Status
  <2>3. ASSUME NEW p \in Pubkey, NEW n \in minted, ClaimSigned(p, n) PROVE Spent' /\ ClaimStep
    <3>1. ClaimRpc(p, n) /\ n \in Nonce \union {NoNonce}
      BY <2>3 DEF ClaimSigned, TypeInv, TypeOK
    <3> QED
      BY <3>1, ClaimRpcStep
  <2>4. ASSUME NEW r \in requests, Claim(r) PROVE Spent' /\ ClaimStep
    <3>1. r.pubkey \in Pubkey /\ r.nonce \in Nonce \union {NoNonce} /\ ClaimRpc(r.pubkey, r.nonce)
      BY <2>4 DEF Claim, TypeInv, TypeOK
    <3> QED
      BY <3>1, ClaimRpcStep
  <2>5. ASSUME NEW p \in Pubkey,
               \/ \E n \in minted \union {NoNonce} : AskClaim(p, n)
               \/ BanPubkey(p) \/ UnbanPubkey(p) \/ AllowPubkey(p) \/ UnallowPubkey(p)
        PROVE  UNCHANGED <<row, nonces>>
    BY <2>5 DEF AskClaim, BanPubkey, UnbanPubkey, AllowPubkey, UnallowPubkey, Manage
  <2>6. ASSUME NEW l \in Contacts, AcceptContacts(l) \/ BackfillContacts(l) \/ DeleteContacts(l)
        PROVE  UNCHANGED <<row, nonces>>
    BY <2>6 DEF AcceptContacts, BackfillContacts, DeleteContacts
  <2>7. ASSUME \/ Consult \/ Cron \/ Restart \/ Tick
               \/ \E policy \in StoredPolicies \union {Unset} : ChangeWritePolicy(policy)
               \/ \E e \in Deployments \union {Bare} : Deploy(e)
        PROVE  UNCHANGED <<row, nonces>>
    BY <2>7 DEF Consult, Cron, Restart, Tick, ChangeWritePolicy, Manage, Deploy
  <2>8. CASE UNCHANGED vars
    BY <2>1, <2>8 DEF vars
  <2> QED
    BY <2>1, <2>2, <2>3, <2>4, <2>5, <2>6, <2>7, <2>8 DEF Next, Step
<1>3. ClaimStep \/ UNCHANGED vars => [ClaimStep]_vars
  OBVIOUS
<1>4. Spec => [][ClaimStep]_vars
  BY <1>1, <1>2, <1>3, TypeInvariance, PTL DEF Spec
<1> QED
  BY <1>4 DEF ClaimHolds, ClaimStep

-----------------------------------------------------------------------------
(* The write gate.                                                         *)

\* But for a rebuild that broke off, the hash names what the cache holds, and a
\* settled cache of an owned relay holds what the owner's newest stored list
\* names.
CacheInv ==
    ~torn => /\ hash # {} => hash = {follows}
             /\ settled /\ Owner # Nobody => follows = Listed

\* A refresh from a set of lists leaves exactly whom they name; one that finds
\* nothing new only if no rebuild before it broke off.
LEMMA RefreshRebuilds ==
    ASSUME CacheInv, Owner # Nobody, NEW latest, Refresh(latest), ~torn'
    PROVE  follows' = UNION { l.follows : l \in latest } /\ (hash' # {} => hash' = {follows'})
<1> DEFINE named == UNION { l.follows : l \in latest }
<1>1. CASE latest = {}
  <2>1. follows' = {} /\ hash' = {}
    BY <1>1 DEF Refresh, RefreshFollows
  <2> QED
    BY <1>1, <2>1
<1>2. CASE latest # {} /\ hash = {named}
  <2>1. follows' = follows /\ hash' = hash
    BY <1>2 DEF Refresh, RefreshFollows
  <2>3. ~torn
    BY <1>2 DEF Refresh, Rewrites
  <2>2. follows = named
    BY <1>2, <2>3 DEF CacheInv
  <2> QED
    BY <1>2, <2>1, <2>2
<1>3. CASE latest # {} /\ hash # {named}
  <2>1. follows' = named /\ hash' = {named}
    BY <1>3 DEF Refresh, RefreshFollows
  <2> QED
    BY <2>1
<1> QED
  BY <1>1, <1>2, <1>3

\* A stored contact list of the owner's is then his newest.
LEMMA StoredIsLatest ==
    ASSUME NEW l \in Contacts, l.author = Owner, lists' = StoredWith(l), Owner' = Owner
    PROVE  Latest(Owner)' = {l}
<1>1. \A k \in lists' : k.author = Owner => k = l
  BY DEF StoredWith
<1>2. l \in lists' /\ l.created_at <= l.created_at
  BY WritersAssumption DEF StoredWith
<1> QED
  BY <1>1, <1>2 DEF Latest

\* A refresh that broke off has thrown once more.
LEMMA BrokenOff ==
    ASSUME TypeInv, NEW latest, BreakOff(latest)
    PROVE  throws' # throws
BY DEF BreakOff, TypeInv, TypeOK

\* A refresh that ends leaves an owned relay's cache as his newest stored list
\* has it, or torn as it found it.
LEMMA RebuildSettles ==
    ASSUME TypeInv, CacheInv, Rebuild, ~torn'
    PROVE  /\ Owner' = Owner /\ follows' = Listed'
           /\ hash' # {} => hash' = {follows'}
<1> USE DEF Rebuild
<1>1. CASE Cron
  <2>1. Refresh(Latest(Owner)) /\ Owner' = Owner /\ Listed' = Listed
    BY <1>1, BrokenOff DEF Cron, claimVars, Owner, Listed, Latest
  <2> QED
    BY <2>1, RefreshRebuilds DEF Listed
<1>2. ASSUME NEW l \in Contacts, l.author = Owner, AcceptContacts(l)
      PROVE  /\ Owner' = Owner /\ follows' = Listed'
             /\ hash' # {} => hash' = {follows'}
  <2>1. Refresh({l}) /\ Owner' = Owner /\ lists' = StoredWith(l)
    BY <1>2, BrokenOff DEF AcceptContacts, claimVars, Owner
  <2>2. Latest(Owner)' = {l}
    BY <1>2, <2>1, StoredIsLatest
  <2>3. Listed' = UNION { k.follows : k \in {l} }
    BY <2>2 DEF Listed
  <2> QED
    BY <2>1, <2>3, RefreshRebuilds
<1> QED
  BY <1>1, <1>2 DEF Rebuild

\* Nothing else touches the cache, unless it tears it.
LEMMA OnlyRebuildsTouchFollows ==
    ASSUME [Next]_vars, ~Rebuild, ~torn'
    PROVE  follows' = follows /\ hash' = hash /\ ~torn
<1> USE DEF claimVars, policyVars, listVars, cacheVars
<1>1. ASSUME NEW latest, Refresh(latest) \/ BreakOff(latest), Owner = Nobody \/ throws' # throws
      PROVE  follows' = follows /\ hash' = hash /\ ~torn
  <2>1. CASE Refresh(latest)
    BY <1>1, <2>1 DEF Refresh
  <2>2. CASE BreakOff(latest)
    BY <2>2 DEF BreakOff
  <2> QED
    BY <1>1, <2>1, <2>2
<1>2. ASSUME \/ Cron
             \/ \E l \in Contacts : l.author = Owner /\ AcceptContacts(l)
      PROVE  follows' = follows /\ hash' = hash /\ ~torn
  <2>1. Owner = Nobody \/ throws' # throws
    BY <1>2 DEF Rebuild
  <2>2. PICK latest : Refresh(latest) \/ BreakOff(latest)
    <3>1. CASE Cron
      BY <3>1 DEF Cron
    <3>2. ASSUME NEW l \in Contacts, l.author = Owner, AcceptContacts(l)
          PROVE  \E latest : Refresh(latest) \/ BreakOff(latest)
      BY <3>2 DEF AcceptContacts
    <3> QED
      BY <1>2, <3>1, <3>2
  <2> QED
    BY <1>1, <2>1, <2>2
<1>3. CASE ~(Cron \/ \E l \in Contacts : l.author = Owner /\ AcceptContacts(l))
  <2>1. ASSUME NEW n \in Nonce, IssueClaimNonce(n) PROVE UNCHANGED cacheVars
    BY <2>1 DEF IssueClaimNonce
  <2>2. ASSUME NEW p \in Pubkey,
               \/ \E n \in minted \union {NoNonce} : AskClaim(p, n)
               \/ \E n \in minted : ClaimSigned(p, n)
               \/ BanPubkey(p) \/ UnbanPubkey(p) \/ AllowPubkey(p) \/ UnallowPubkey(p)
        PROVE  UNCHANGED cacheVars
    BY <2>2 DEF AskClaim, ClaimSigned, BanPubkey, UnbanPubkey, AllowPubkey, UnallowPubkey, Manage
  <2>3. ASSUME NEW r \in requests, Claim(r) PROVE UNCHANGED cacheVars
    BY <2>3 DEF Claim
  <2>4. ASSUME NEW l \in Contacts, AcceptContacts(l) \/ BackfillContacts(l) \/ DeleteContacts(l)
        PROVE  UNCHANGED cacheVars
    BY <1>3, <2>4 DEF AcceptContacts, BackfillContacts, DeleteContacts
  <2>5. ASSUME \/ Consult \/ Restart \/ Tick
               \/ \E policy \in StoredPolicies \union {Unset} : ChangeWritePolicy(policy)
               \/ \E e \in Deployments \union {Bare} : Deploy(e)
        PROVE  UNCHANGED cacheVars
    BY <2>5 DEF Consult, Restart, Tick, ChangeWritePolicy, Manage, Deploy
  <2>6. CASE UNCHANGED vars
    BY <2>6 DEF vars
  <2> QED
    BY <1>3, <2>1, <2>2, <2>3, <2>4, <2>5, <2>6 DEF Next, Step
<1> QED
  BY <1>2, <1>3

\* The narrower policies keep the follows out and the wider ones let them in.
LEMMA FollowsFloor ==
    ASSUME NEW policy \in Policy
    PROVE  AdmitsAtLeast(policy, "follows") <=> policy \in {"follows", "mentions", "all"}
<1>1. /\ PolicyIndex("owner") = 1 /\ PolicyIndex("inbox") = 2 /\ PolicyIndex("follows") = 3
      /\ PolicyIndex("mentions") = 4 /\ PolicyIndex("all") = 5
  BY DEF PolicyIndex, WritePolicies
<1>2. policy \in {"owner", "inbox", "follows", "mentions", "all"}
  BY DEF Policy, WritePolicies
<1> QED
  BY <1>1, <1>2 DEF AdmitsAtLeast

\* The gate, which goes by copies, lets in exactly whom the policy means, once
\* the cache was refreshed since the owner's list changed, and no rebuild broke
\* off since the table was last written in full.
THEOREM GateKeepsToTheBook == Spec => []AdmittedByTheBook
<1>1. Init => CacheInv
  BY DEF Init, Bare, CacheInv, Owner, NoRow
<1>2. TypeInv /\ CacheInv /\ [Next]_vars => CacheInv'
  <2> SUFFICES ASSUME TypeInv, CacheInv, [Next]_vars PROVE CacheInv'
    OBVIOUS
  <2> SUFFICES ASSUME ~torn'
               PROVE  /\ hash' # {} => hash' = {follows'}
                      /\ settled' /\ Owner' # Nobody => follows' = Listed'
    BY DEF CacheInv
  <2>1. CASE Rebuild
    BY <2>1, RebuildSettles
  <2>2. CASE ~Rebuild
    <3>1. follows' = follows /\ hash' = hash /\ ~torn
      BY <2>2, OnlyRebuildsTouchFollows
    <3>2. settled' => settled /\ Owner' = Owner /\ Listed' = Listed
      <4>1. CASE Next
        BY <2>2, <4>1 DEF Next
      <4>2. CASE UNCHANGED vars
        BY <4>2 DEF vars, claimVars, listVars, Owner, Listed, Latest
      <4> QED
        BY <4>1, <4>2
    <3> QED
      BY <3>1, <3>2 DEF CacheInv
  <2> QED
    BY <2>1, <2>2
<1>3. TypeInv /\ CacheInv => AdmittedByTheBook
  <2> SUFFICES ASSUME TypeInv, CacheInv, settled, ~torn,
                      NEW p \in Pubkey, NEW mentions \in BOOLEAN, NEW fewTags \in BOOLEAN
               PROVE  IsAllowedWriter(p, mentions, fewTags) <=> Owner # Nobody /\ ByTheBook(p, mentions, fewTags)
    BY DEF AdmittedByTheBook
  <2>1. WritePolicy = Resolved /\ Resolved \in Policy
    <3>1. "follows" \in Policy
      BY DEF Policy, WritePolicies
    <3> QED
      BY <3>1, PolicyInForce DEF Resolved, TypeInv, TypeOK, DefaultWritePolicy
  <2>2. Resolved \in {"owner", "inbox", "follows", "mentions", "all"}
    BY <2>1 DEF Policy, WritePolicies
  <2>3. AdmitsAtLeast(WritePolicy, "follows") <=> Resolved \in {"follows", "mentions", "all"}
    BY <2>1, FollowsFloor
  <2>4. Owner # Nobody => follows = Listed
    BY DEF CacheInv
  <2> QED
    BY <2>1, <2>2, <2>3, <2>4 DEF IsAllowedWriter, ByTheBook
<1> QED
  BY <1>1, <1>2, <1>3, TypeInvariance, PTL DEF Spec
=============================================================================
