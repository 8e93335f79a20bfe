------------------------------ MODULE Writers ------------------------------
(***************************************************************************)
(* Who may publish: the claim of an unowned relay with its codes           *)
(* (ownership.ts, relay.ts, index.ts handleClaim), the owner an            *)
(* environment variable may name instead, the write policy with its copy   *)
(* in memory (write-policy.ts), the follows cache that is rebuilt from the *)
(* owner's contact list, and the bans and allowances of NIP-86 (nip86.ts). *)
(***************************************************************************)
EXTENDS Integers, Sequences, FiniteSets, FiniteSetsExt

CONSTANTS
    Pubkey,         \* everyone
    Nonce,          \* the claim codes there may be, each minted once
    Contacts,       \* the contact lists: [id, author, created_at, follows]
    StoredPolicies, \* the policies the owner stores
    Deployments,    \* environments: [owner, policy], OWNER_PUBKEY and WRITE_POLICY
    NonceTtl,       \* CLAIM_NONCE_TTL_SECONDS
    MaxNonces,      \* MAX_OUTSTANDING_CLAIM_NONCES
    MaxRequests,    \* bound: how many POST /api/claim are under way at once
    MaxThrows,      \* bound: how often a rebuild of the cache breaks off
    MaxNow,         \* bound: the clock stops here
    MaxDeploys      \* bound: how often the environment changes

Nobody == "nobody"
NoNonce == "no nonce"
Unset == "unset"
Unread == "unread"

\* WRITE_POLICIES, from the narrowest.
WritePolicies == <<"owner", "inbox", "follows", "mentions", "all">>
DefaultWritePolicy == "follows"
Policy == { WritePolicies[i] : i \in DOMAIN WritePolicies }

ASSUME WritersAssumption ==
    /\ Nobody \notin Pubkey
    /\ NoNonce \notin Nonce
    /\ StoredPolicies \subseteq Policy
    /\ Deployments \subseteq [owner : Pubkey \union {Nobody}, policy : Policy \union {Unset}]
    /\ \A l \in Contacts :
        {l.id, l.created_at} \subseteq Nat /\ l.author \in Pubkey /\ l.follows \subseteq Pubkey
    /\ {NonceTtl, MaxNonces, MaxRequests, MaxThrows, MaxNow, MaxDeploys} \subseteq Nat

VARIABLES
    env,        \* the environment: [owner, policy]
    row,        \* `owner`: who claimed the relay, and with which code
    nonces,     \* `claim_nonces`
    minted,     \* the codes handed out so far
    requests,   \* POST /api/claim between its first look and its claim
    setting,    \* `relay_settings`.write_policy
    cachedPolicy, \* cachedWritePolicy, in memory
    banned,     \* `banned_pubkeys`
    allowed,    \* `allowed_pubkeys`
    lists,      \* the kind-3 rows of `events`
    gone,       \* those deleted, whose ids are tombstoned
    follows,    \* `follows`
    hash,       \* `relay_meta`.follows_hash: {the follows it was made of}, or {}
    throws,     \* how many rebuilds broke off
    torn,       \* history: whether one did and none was done over since
    now,        \* the clock
    deploys,    \* how often the environment changed
    settled     \* history: whether the cache was refreshed since the list changed

claimVars == <<row, nonces, minted, requests>>
policyVars == <<setting, cachedPolicy, banned, allowed>>
cacheVars == <<follows, hash, throws, torn>>
listVars == <<lists, gone, cacheVars>>
vars == <<env, claimVars, policyVars, listVars, now, deploys, settled>>

NoRow == [pubkey |-> Nobody, nonce |-> NoNonce]

\* An environment that sets neither variable.
Bare == [owner |-> Nobody, policy |-> Unset]

\* getOwnerPubkey: the environment's owner, or the one who claimed.
Owner == IF env.owner # Nobody THEN env.owner ELSE row.pubkey

\* resolveWritePolicy: the environment, then what is stored, then the default.
Resolved ==
    IF env.policy # Unset THEN env.policy
    ELSE IF setting # Unset THEN setting
    ELSE DefaultWritePolicy

\* The table of codes never holds more than its cap, and the policy in memory
\* is the one in force.
TypeOK ==
    /\ env \in [owner : Pubkey \union {Nobody}, policy : Policy \union {Unset}]
    /\ row \in [pubkey : Pubkey, nonce : Nonce \union {NoNonce}] \union {NoRow}
    /\ nonces \subseteq [nonce : Nonce, expiresAt : Nat] /\ Cardinality(nonces) <= MaxNonces
    /\ minted \subseteq Nonce
    /\ requests \subseteq [pubkey : Pubkey, nonce : Nonce \union {NoNonce}]
    /\ setting \in Policy \union {Unset}
    /\ cachedPolicy \in {Unread, Resolved}
    /\ banned \subseteq Pubkey /\ allowed \subseteq Pubkey
    /\ lists \subseteq Contacts /\ gone \subseteq Contacts
    /\ follows \subseteq Pubkey
    /\ hash \subseteq SUBSET Pubkey /\ Cardinality(hash) <= 1
    /\ now \in Nat /\ deploys \in Nat /\ throws \in Nat
    /\ torn \in BOOLEAN /\ settled \in BOOLEAN

Init ==
    /\ env = Bare
    /\ row = NoRow
    /\ nonces = {} /\ minted = {} /\ requests = {}
    /\ setting = Unset /\ cachedPolicy = Unread
    /\ banned = {} /\ allowed = {}
    /\ lists = {} /\ gone = {}
    /\ follows = {} /\ hash = {}
    /\ throws = 0 /\ torn = FALSE
    /\ now = 0 /\ deploys = 0
    /\ settled = TRUE
-----------------------------------------------------------------------------
(* The claim.                                                              *)

Lapsed == { n \in nonces : n.expiresAt < now }

\* issueClaimNonce: the lapsed codes are swept even if there is no room.
IssueClaimNonce(n) ==
    /\ Owner = Nobody
    /\ n \notin minted
    /\ IF Cardinality(nonces \ Lapsed) >= MaxNonces
       THEN /\ nonces' = nonces \ Lapsed
            /\ UNCHANGED minted
       ELSE /\ nonces' = (nonces \ Lapsed) \union {[nonce |-> n, expiresAt |-> now + NonceTtl]}
            /\ minted' = minted \union {n}
    /\ UNCHANGED <<env, row, requests, policyVars, listVars, now, deploys>>

\* Mutant: the first look at the owner is trusted.
ClaimOwnerUnseen(pubkey, nonce) == [pubkey |-> pubkey, nonce |-> nonce]

\* claimOwner: the row as it is then, the earlier claim's if there was one.
ClaimOwner(pubkey, nonce) == IF row = NoRow THEN [pubkey |-> pubkey, nonce |-> nonce] ELSE row

\* What is left of the codes after a claim that named n: consumeClaimNonce,
\* and clearClaimNonces if it is the one that won.
CodesAfter(n) == IF row = NoRow THEN {} ELSE { k \in nonces : k.nonce # n }

\* consumeClaimNonce: a code that was issued and has not lapsed.
GoodCode(n) == \E k \in nonces \ Lapsed : k.nonce = n

\* The RPCs claim and claimSigned: with a code (claimWithNonce) or without.
ClaimRpc(pubkey, n) ==
    IF env.owner = Nobody /\ (n = NoNonce \/ GoodCode(n))
    THEN /\ row' = ClaimOwner(pubkey, n)
         /\ nonces' = IF n = NoNonce /\ row # NoRow THEN nonces ELSE CodesAfter(n)
    ELSE UNCHANGED <<row, nonces>>

\* handleClaim as far as its first look, before it fetches a profile.
AskClaim(pubkey, n) ==
    /\ Owner = Nobody
    /\ Cardinality(requests) < MaxRequests
    /\ requests' = requests \union {[pubkey |-> pubkey, nonce |-> n]}
    /\ requests' # requests
    /\ UNCHANGED <<env, row, nonces, minted, policyVars, listVars, now, deploys>>

\* handleClaim after it.
Claim(r) ==
    /\ r \in requests
    /\ requests' = requests \ {r}
    /\ ClaimRpc(r.pubkey, r.nonce)
    /\ UNCHANGED <<env, minted, policyVars, listVars, now, deploys>>

\* handleClaimSigned.
ClaimSigned(pubkey, n) ==
    /\ ClaimRpc(pubkey, n)
    /\ UNCHANGED <<env, minted, requests, policyVars, listVars, now, deploys>>

\* getClaimStatus, as the page that shows the code n asks for it.
Status(n) ==
    IF row = NoRow THEN "pending" ELSE IF row.nonce = n THEN "claimed" ELSE "claimed-elsewhere"
-----------------------------------------------------------------------------
(* The follows cache.                                                      *)

\* The owner's newest stored contact list; replacing leaves one.
Latest(p) == { l \in lists : l.author = p /\ \A k \in lists : k.author = p => k.created_at <= l.created_at }

\* Whom the owner's stored list names.
Listed == UNION { l.follows : l \in Latest(Owner) }

\* Mutant: an empty cache keeps the hash of what it held.
RefreshKeepsHash(latest) ==
    LET named == UNION { l.follows : l \in latest }
    IN  IF latest = {} THEN [follows |-> {}, hash |-> hash]
        ELSE IF hash = {named} THEN [follows |-> follows, hash |-> hash]
        ELSE [follows |-> named, hash |-> {named}]

\* What refreshFollows leaves: no list empties the cache and forgets the hash;
\* a list of the same hash changes nothing.
RefreshFollows(latest) ==
    LET named == UNION { l.follows : l \in latest }
    IN  IF latest = {} THEN [follows |-> {}, hash |-> {}]
        ELSE IF hash = {named} THEN [follows |-> follows, hash |-> hash]
        ELSE [follows |-> named, hash |-> {named}]

\* Whether it deletes the table, or returns for there is nothing new.
Rewrites(latest) ==
    IF latest = {} THEN follows # {} \/ hash # {}
    ELSE hash # { UNION { l.follows : l \in latest } }

\* refreshFollows to its end.
Refresh(latest) ==
    /\ IF Owner = Nobody THEN UNCHANGED <<follows, hash>>
       ELSE LET after == RefreshFollows(latest)
            IN  follows' = after.follows /\ hash' = after.hash
    /\ torn' = (torn /\ (Owner = Nobody \/ ~Rewrites(latest)))
    /\ UNCHANGED throws

\* refreshFollows to a statement that throws: the rows as they were, or deleted
\* and inserted in part or all, and the hash what it was.
BreakOff(latest) ==
    /\ Owner # Nobody
    /\ Rewrites(latest)
    /\ throws < MaxThrows
    /\ throws' = throws + 1
    /\ follows' \in {follows} \union SUBSET UNION { l.follows : l \in latest }
    /\ torn' = (torn \/ follows' # follows)
    /\ UNCHANGED hash

\* storeEvent of a contact list: the newest of an author stays, and of one
\* second the one of the lowest id.
Newer(l) ==
    \A k \in lists : k.author = l.author =>
        k.created_at < l.created_at \/ (k.created_at = l.created_at /\ l.id < k.id)
StoredWith(l) == { k \in lists : k.author # l.author } \union {l}
-----------------------------------------------------------------------------
(* The write gate.                                                         *)

PolicyIndex(p) == CHOOSE i \in DOMAIN WritePolicies : WritePolicies[i] = p

AdmitsAtLeast(policy, floor) == PolicyIndex(policy) >= PolicyIndex(floor)

\* writePolicy: read once and kept.
WritePolicy == IF cachedPolicy = Unread THEN Resolved ELSE cachedPolicy

\* isAllowedWriter, for an event that names the owner or not, within the tag
\* cap of a stranger's mention or not.
IsAllowedWriter(p, mentions, fewTags) ==
    /\ Owner # Nobody
    /\ \/ p = Owner
       \/ /\ p \notin banned
          /\ \/ WritePolicy = "all"
             \/ AdmitsAtLeast(WritePolicy, "follows") /\ p \in follows
             \/ p \in allowed
             \/ WritePolicy = "mentions" /\ mentions /\ fewTags

\* An accepted contact list; the owner's own rebuilds the cache.
AcceptContacts(l) ==
    /\ l \notin lists \union gone
    /\ IsAllowedWriter(l.author, Owner \in l.follows, TRUE)
    /\ Newer(l)
    /\ lists' = StoredWith(l)
    /\ cachedPolicy' = WritePolicy
    /\ IF l.author = Owner THEN Refresh({l}) \/ BreakOff({l}) ELSE UNCHANGED cacheVars
    /\ UNCHANGED <<env, claimVars, setting, banned, allowed, gone, now, deploys>>

\* Backfill stores a list of the owner's without rebuilding anything.
BackfillContacts(l) ==
    /\ l.author = Owner
    /\ l \notin lists \union gone
    /\ Newer(l)
    /\ lists' = StoredWith(l)
    /\ UNCHANGED <<env, claimVars, policyVars, gone, cacheVars, now, deploys>>

\* A list leaves by a deletion, a ban or a vanish.
DeleteContacts(l) ==
    /\ l \in lists
    /\ lists' = lists \ {l}
    /\ gone' = gone \union {l}
    /\ UNCHANGED <<env, claimVars, policyVars, cacheVars, now, deploys>>

\* Any other EVENT frame asks for the policy.
Consult ==
    /\ cachedPolicy = Unread
    /\ cachedPolicy' = WritePolicy
    /\ UNCHANGED <<env, claimVars, setting, banned, allowed, listVars, now, deploys>>

\* The hourly cron's first step.
Cron ==
    /\ Refresh(Latest(Owner)) \/ BreakOff(Latest(Owner))
    /\ UNCHANGED <<env, claimVars, policyVars, lists, gone, now, deploys>>
-----------------------------------------------------------------------------
(* NIP-86 calls of the owner; every one of them forgets the policy.        *)

\* Mutant: the policy in memory is kept.
KeepPolicy(policy) == policy

\* manage, when the call returns.
ForgetPolicy(policy) == Unread

Manage ==
    /\ Owner # Nobody
    /\ cachedPolicy' = ForgetPolicy(cachedPolicy)
    /\ UNCHANGED <<env, claimVars, listVars, now, deploys>>

BanPubkey(p) ==
    /\ Manage
    /\ p # Owner
    /\ banned' = banned \union {p}
    /\ UNCHANGED <<setting, allowed>>

UnbanPubkey(p) == Manage /\ banned' = banned \ {p} /\ UNCHANGED <<setting, allowed>>

AllowPubkey(p) == Manage /\ allowed' = allowed \union {p} /\ UNCHANGED <<setting, banned>>

UnallowPubkey(p) == Manage /\ allowed' = allowed \ {p} /\ UNCHANGED <<setting, banned>>

\* changewritepolicy; the empty string clears it.
ChangeWritePolicy(policy) == Manage /\ setting' = policy /\ UNCHANGED <<banned, allowed>>
-----------------------------------------------------------------------------
\* A deployment with another environment; it restarts the object.
Deploy(e) ==
    /\ e # env
    /\ deploys < MaxDeploys
    /\ deploys' = deploys + 1
    /\ env' = e
    /\ cachedPolicy' = Unread
    /\ UNCHANGED <<claimVars, setting, banned, allowed, listVars, now>>

\* Hibernation or an eviction.
Restart ==
    /\ cachedPolicy # Unread
    /\ cachedPolicy' = Unread
    /\ UNCHANGED <<env, claimVars, setting, banned, allowed, listVars, now, deploys>>

Tick ==
    /\ now < MaxNow
    /\ now' = now + 1
    /\ UNCHANGED <<env, claimVars, policyVars, listVars, deploys>>
-----------------------------------------------------------------------------
\* A refresh of the owner's that comes to its end.
Rebuild ==
    /\ Owner # Nobody
    /\ Cron \/ \E l \in Contacts : l.author = Owner /\ AcceptContacts(l)
    /\ UNCHANGED throws

Step ==
    \/ \E n \in Nonce : IssueClaimNonce(n)
    \/ \E p \in Pubkey :
        \/ \E n \in minted \union {NoNonce} : AskClaim(p, n)
        \/ \E n \in minted : ClaimSigned(p, n)
        \/ BanPubkey(p)
        \/ UnbanPubkey(p)
        \/ AllowPubkey(p)
        \/ UnallowPubkey(p)
    \/ \E r \in requests : Claim(r)
    \/ \E l \in Contacts : AcceptContacts(l) \/ BackfillContacts(l) \/ DeleteContacts(l)
    \/ Consult
    \/ \E policy \in StoredPolicies \union {Unset} : ChangeWritePolicy(policy)
    \/ Cron
    \/ \E e \in Deployments \union {Bare} : Deploy(e)
    \/ Restart
    \/ Tick

Next ==
    /\ Step
    /\ settled' = (Rebuild \/ (settled /\ Owner' = Owner /\ Listed' = Listed))

Spec == Init /\ [][Next]_vars
-----------------------------------------------------------------------------
\* A relay is claimed once, by whoever comes first through any of the three
\* ways in, and only with a code that was good at that moment if it names one;
\* no code outlives the claim, so that a later one is told its code is spent;
\* what a page is told of its code after that never changes.
ClaimHolds ==
    [][ /\ row # NoRow => row' = row /\ nonces' = {}
        /\ row' # row => /\ nonces' = {}
                         /\ row'.nonce = NoNonce \/ GoodCode(row'.nonce)
        /\ \A n \in minted : Status(n) # "pending" => Status(n)' = Status(n) ]_vars

\* What the policy says in words (POLICY_DESCRIPTIONS), of the tables and the
\* stored contact list themselves.
ByTheBook(p, mentions, fewTags) ==
    \/ p = Owner
    \/ /\ p \notin banned
       /\ \/ p \in allowed
          \/ p \in Listed /\ Resolved \in {"follows", "mentions", "all"}
          \/ mentions /\ fewTags /\ Resolved \in {"mentions", "all"}
          \/ Resolved = "all"

\* The gate goes by copies, of the policy in memory and of the follows in a
\* table; it lets in exactly whom the policy means, but for two times: from a
\* change of the owner's list that is not his own event to the next cron, and
\* from a rebuild that broke off to the next that writes the table again.
AdmittedByTheBook ==
    settled /\ ~torn =>
        \A p \in Pubkey, mentions, fewTags \in BOOLEAN :
            IsAllowedWriter(p, mentions, fewTags) <=> Owner # Nobody /\ ByTheBook(p, mentions, fewTags)

\* Stated by ownership.ts (refreshFollows) and not true of it, so not checked:
\* the refresh after one that broke off does not take its table for finished.
\* It does where the list is by then what the old hash was made of.
TornIsDoneOver == settled => ~torn
=============================================================================
