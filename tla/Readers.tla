------------------------------ MODULE Readers ------------------------------
(***************************************************************************)
(* Reading: REQ with its read gates and the cache of answers, NIP-42, the  *)
(* subscriptions a connection holds, and the broadcast of what is accepted *)
(* to them and to the live feed (relay.ts, storage.ts queryFilter,         *)
(* req-cache.ts), with EPHEMERAL_CHAT off.                                 *)
(*                                                                         *)
(* Two pieces of code decide what a reader gets: the SQL of a REQ, cached  *)
(* in memory, and broadcast, which asks membership event by event.         *)
(***************************************************************************)
EXTENDS Filters

CONSTANTS
    Pubkey,         \* everyone
    Owner,          \* the relay's owner
    Conn,           \* the client sockets
    LiveFeed,       \* the sockets of the live feed
    Event,          \* every event: [id, pubkey, kind, created_at, h, d, p, expiration],
                    \*   h and p the sequences of what its tags of that name hold
    Frame,          \* what a REQ may ask: sets of filters
    SubId,          \* the subscription names clients use
    MaxSubs,        \* MAX_SUBSCRIPTIONS_PER_CONNECTION
    MaxFilters,     \* MAX_FILTERS_PER_REQ
    MaxScopedGroups,\* MAX_SCOPED_GROUPS
    MaxEventsPerReq,\* MAX_EVENTS_PER_REQ
    CacheMax,       \* REQ_CACHE_MAX_EVENTS
    MaxHeld,        \* how many values MAX_CONN_STATE_BYTES has room for
    SqliteParams,   \* how many parameters SQLite binds in a statement
    MaxNow,         \* bound: the clock stops here
    MaxReqs         \* bound: how many REQs are admitted in all

Nobody == "nobody"

ASSUME ReadersAssumption ==
    /\ Owner \in Pubkey
    /\ Nobody \notin Pubkey
    /\ NoGroup \notin Group
    /\ IsFiniteSet(Event)
    /\ {MaxSubs, MaxFilters, MaxFilterLimit, MaxEventsPerReq, TagScanDepth} \subseteq Nat \ {0}
    /\ {CacheMax, MaxHeld, MaxNow, MaxReqs} \subseteq Nat
    /\ \A e \in Event : e.id \in Nat /\ {e.created_at, e.expiration} \subseteq Int
    \* What comes in over a socket is finite. parseFilter wants a number for a
    \* limit; that it is whole is assumed, for SQLite refuses LIMIT 1.5.
    /\ \A e \in Event : \A t \in TagFields : IsFiniteSet(DOMAIN e[t])
    /\ \A frame \in Frame : IsFiniteSet(frame)
    /\ \A frame \in Frame : \A f \in frame :
        /\ "limit" \in DOMAIN f => f.limit \in Int
        /\ \A field \in SetFields : IsFiniteSet(Named(f, field))

VARIABLES
    stored,     \* the events table
    member,     \* group_membership: pairs of a group and a pubkey
    conn,       \* each socket's ConnState
    cache,      \* the entries of req-cache.ts: a query's events
    now,        \* the clock
    reqs        \* how many REQs were admitted so far

vars == <<stored, member, conn, cache, now, reqs>>

\* A new socket.
Fresh == [who |-> Nobody, challenged |-> FALSE, subs |-> <<>>]

\* How many events the cache holds.
CachedEvents(c) == Cardinality(UNION { {q} \X c[q] : q \in DOMAIN c })

\* What a filter names, each value with the field that names it.
Values(f) == UNION { {field} \X Named(f, field) : field \in SetFields }

\* How many values a connection's subscriptions name.
Held(subs) ==
    Cardinality(UNION { {s} \X UNION { {f} \X Values(f) : f \in subs[s] } : s \in DOMAIN subs })

\* Every socket stays within its caps and so does the cache.
TypeOK ==
    /\ stored \subseteq Event
    /\ member \subseteq Group \X (Pubkey \ {Owner})
    /\ DOMAIN conn = Conn
    /\ \A c \in Conn :
        /\ conn[c].who \in Pubkey \union {Nobody}
        /\ conn[c].challenged \in BOOLEAN
        /\ Cardinality(DOMAIN conn[c].subs) <= MaxSubs
        /\ Held(conn[c].subs) <= MaxHeld
        /\ \A s \in DOMAIN conn[c].subs : \A f \in conn[c].subs[s] : f.limit \in 1 .. MaxFilterLimit
    /\ \A q \in DOMAIN cache : cache[q] \subseteq Event
    /\ CachedEvents(cache) <= CacheMax
    /\ now \in Nat
    /\ reqs \in 0 .. MaxReqs

Init ==
    /\ stored = {}
    /\ member = {}
    /\ conn = [c \in Conn |-> Fresh]
    /\ cache = <<>>
    /\ now = 0
    /\ reqs = 0
-----------------------------------------------------------------------------
(* A reader, as handleReqInner sees one.                                   *)

\* readableGroups, and whether it is the owner, for whom it is undefined.
Reader(who) ==
    [owner |-> who = Owner, groups |-> IF who = Owner THEN {} ELSE { g \in Group : <<g, who>> \in member }]

Budget(frame) == MaxFilterRowsRead \div Max1(Cardinality(frame))

BoundFilter(f, frame, reader) == Bounded(f, Budget(frame), Cardinality(Scopes(reader)))

\* The filters of the frame as they are asked and held.
Asked(frame, reader) == { BoundFilter(f, frame, reader) : f \in frame }

\* Whether the REQ names what only somebody else may read.
NamesGated(frame, reader) ==
    \E f \in frame : NamesGroup(f, reader) \/ (~reader.owner /\ GiftWrap \in Named(f, "kinds"))

\* Whether a REQ is refused for its size, whoever it is that asks.
WithinCaps(frame, reader) ==
    /\ Cardinality(frame) <= MaxFilters
    /\ Cardinality(reader.groups) <= MaxScopedGroups
    /\ \A f \in frame : Admits(f, Budget(frame), Cardinality(Scopes(reader)))

Admitted(frame, reader) == WithinCaps(frame, reader) /\ ~NamesGated(frame, reader)

AskedQueries(frame, reader) == UNION { Queries(f, reader) : f \in Asked(frame, reader) }
-----------------------------------------------------------------------------
(* The cache of answers.                                                   *)

\* Mutant: an entry does not age.
NeverStale(events) == TRUE

\* minExpiration: an entry is a hit until the first of its events expires.
StillFresh(events) == \A e \in events : Unexpired(e, now)

\* runFilterQuery: what a query finds, from the cache or from the table.
RunQuery(q) ==
    IF q \in DOMAIN cache /\ StillFresh(cache[q]) THEN cache[q] ELSE Rows(q, stored, now)

\* Mutant: an answer is added whatever room there is.
NoEvictions(entries) == {entries}

\* The entries left when the oldest go until there is room; which ones are
\* the oldest is left open.
Evictions(entries) ==
    IF CachedEvents(entries) <= CacheMax THEN {entries}
    ELSE { r \in { [q \in K |-> entries[q]] : K \in SUBSET DOMAIN entries } : CachedEvents(r) <= CacheMax }

\* writeReqCache for what was asked; an answer larger than the cache is not
\* written.
WriteReqCache(queries) ==
    LET written == { q \in queries : Cardinality(RunQuery(q)) <= CacheMax }
    IN  cache' \in Evictions([q \in DOMAIN cache \union written |->
                                 IF q \in written THEN RunQuery(q) ELSE cache[q]])

\* clearReqCache, at every write to events.
CacheAfterWrite(before) == <<>>
-----------------------------------------------------------------------------
(* Answers.                                                                *)

\* queryFilter: what the parts found, newest first, to the limit.
QueryFilter(f, reader) == Newest(UNION { RunQuery(q) : q \in Queries(f, reader) }, f.limit)

\* What a REQ is sent: queryFilters, to MAX_EVENTS_PER_REQ.
Answer(frame, reader) ==
    Newest(UNION { QueryFilter(f, reader) : f \in Asked(frame, reader) }, MaxEventsPerReq)

\* Mutant: the invites of a group go to its members as everything else does.
ReceivesInvites(who, e) ==
    IF e.kind = GiftWrap \/ IsGroupEvent(e)
    THEN who = Owner \/ <<GroupIdOf(e), who>> \in member
    ELSE TRUE

\* broadcast's mayReceive, at the moment the event is accepted.
MayReceive(who, e) ==
    IF e.kind = GiftWrap \/ IsGroupEvent(e)
    THEN who = Owner \/ (/\ e.kind \notin {GiftWrap, CreateInvite}
                         /\ <<GroupIdOf(e), who>> \in member)
    ELSE TRUE

\* broadcast: the subscriptions the event is sent to.
Broadcast(e) ==
    { cs \in UNION { {c} \X DOMAIN conn[c].subs : c \in Conn } :
        /\ MayReceive(conn[cs[1]].who, e)
        /\ \E f \in conn[cs[1]].subs[cs[2]] : Matches(e, f) }

\* liveBroadcast: the live feed hears that it happened, if anybody may.
LiveBroadcast(e) == IF e.kind = GiftWrap \/ IsGroupEvent(e) THEN {} ELSE LiveFeed
-----------------------------------------------------------------------------
(* Frames.                                                                 *)

SetSub(subs, s, filters) == [ t \in DOMAIN subs \union {s} |-> IF t = s THEN filters ELSE subs[t] ]

\* A REQ that names what needs an identity is refused; a connection without
\* one is challenged, once.
RefuseReq(c, frame) ==
    LET reader == Reader(conn[c].who)
    IN  /\ WithinCaps(frame, reader) /\ NamesGated(frame, reader)
        /\ conn[c].who = Nobody /\ ~conn[c].challenged
        /\ conn' = [conn EXCEPT ![c].challenged = TRUE]
        /\ UNCHANGED <<stored, member, cache, now, reqs>>

\* handleReqInner, to EOSE.
Req(c, s, frame) ==
    LET reader == Reader(conn[c].who)
        subs == SetSub(conn[c].subs, s, Asked(frame, reader))
    IN  /\ reqs < MaxReqs
        /\ s \in DOMAIN conn[c].subs \/ Cardinality(DOMAIN conn[c].subs) < MaxSubs
        /\ Admitted(frame, reader)
        /\ Held(subs) <= MaxHeld
        /\ conn' = [conn EXCEPT ![c].subs = subs]
        /\ reqs' = reqs + 1
        /\ WriteReqCache(AskedQueries(frame, reader))
        /\ UNCHANGED <<stored, member, now>>

\* handleClose.
CloseSub(c, s) ==
    /\ s \in DOMAIN conn[c].subs
    /\ conn' = [conn EXCEPT ![c].subs = [t \in DOMAIN @ \ {s} |-> @[t]]]
    /\ UNCHANGED <<stored, member, cache, now, reqs>>

\* handleAuth with the challenge this socket was sent; a later one replaces
\* the identity, and the subscriptions stay.
Auth(c, p) ==
    /\ conn[c].challenged
    /\ conn[c].who # p
    /\ conn' = [conn EXCEPT ![c].who = p]
    /\ UNCHANGED <<stored, member, cache, now, reqs>>

Disconnect(c) ==
    /\ conn[c] # Fresh
    /\ conn' = [conn EXCEPT ![c] = Fresh]
    /\ UNCHANGED <<stored, member, cache, now, reqs>>
-----------------------------------------------------------------------------
(* What changes under the readers.                                         *)

\* acceptEvent or backfill storing an event that has not expired; only the
\* first is heard by Broadcast(e) and LiveBroadcast(e).
Insert(e) ==
    /\ e \notin stored
    /\ Unexpired(e, now)
    /\ stored' = stored \union {e}
    /\ cache' = CacheAfterWrite(stored)
    /\ UNCHANGED <<member, conn, now, reqs>>

\* A deletion, a replacement, a ban or a sweep.
Delete(e) ==
    /\ e \in stored
    /\ stored' = stored \ {e}
    /\ cache' = CacheAfterWrite(stored)
    /\ UNCHANGED <<member, conn, now, reqs>>

\* A row of group_membership written or deleted: no write to events.
ChangeMember(g, p) ==
    /\ p # Owner
    /\ member' = IF <<g, p>> \in member THEN member \ {<<g, p>>} ELSE member \union {<<g, p>>}
    /\ UNCHANGED <<stored, conn, cache, now, reqs>>

\* The isolate goes, and the module's memory with it.
Evict ==
    /\ cache # <<>>
    /\ cache' = <<>>
    /\ UNCHANGED <<stored, member, conn, now, reqs>>

Tick ==
    /\ now < MaxNow
    /\ now' = now + 1
    /\ UNCHANGED <<stored, member, conn, cache, reqs>>
-----------------------------------------------------------------------------
Next ==
    \/ \E c \in Conn :
        \/ \E frame \in Frame : RefuseReq(c, frame)
        \/ \E s \in SubId, frame \in Frame : Req(c, s, frame)
        \/ \E s \in SubId : CloseSub(c, s)
        \/ \E p \in Pubkey : Auth(c, p)
        \/ Disconnect(c)
    \/ \E e \in Event : Insert(e) \/ Delete(e)
    \/ \E g \in Group, p \in Pubkey : ChangeMember(g, p)
    \/ Evict
    \/ Tick

Spec == Init /\ [][Next]_vars
-----------------------------------------------------------------------------
\* An invite to no group of this relay: the live path refuses it, and backfill
\* stores the owner's own, in the public partition.
StrayInvite(e) == e.kind = CreateInvite /\ ~IsGroupEvent(e)

\* What a reader may see: the rule broadcast goes by; a stray invite, which is
\* never broadcast, is withheld from the members of a group and from nobody else.
MaySee(who, e) ==
    /\ MayReceive(who, e)
    /\ StrayInvite(e) => Reader(who).groups = {}

\* What a reader may see of what a filter asks, the newest to its limit.
Wanted(f, who) ==
    Newest({ e \in stored : Matches(e, f) /\ MaySee(who, e) /\ Unexpired(e, now) }, f.limit)

\* Whether no tag has more rows than a query scans.
ScansAll(f, reader) ==
    \A q \in Queries(f, reader) : \A t \in Tags(f) : Cardinality(TagRows(q, t, stored)) <= q.scan

\* Whoever asks, and whatever was cached for whom: the answer is the newest of
\* what that reader may see of the table as it is now; where a tag has more
\* rows than the scan, nothing but what the reader may see.
AnswersAreRight ==
    \A who \in Pubkey \union {Nobody}, frame \in Frame :
        LET reader == Reader(who)
            asked == Asked(frame, reader)
        IN  Admitted(frame, reader) =>
                IF \A f \in asked : ScansAll(f, reader)
                THEN Answer(frame, reader) = Newest(UNION { Wanted(f, who) : f \in asked }, MaxEventsPerReq)
                ELSE \A e \in Answer(frame, reader) : Unexpired(e, now) /\ MaySee(who, e)

\* The two gates agree whenever something comes in that the live path could
\* accept: a subscription, however old, is sent it if and only if its REQ, asked
\* again at that moment by who the socket is by then, would find it; the live
\* feed is told of what anybody may read.
HeardIfAskedAgain ==
    [][ \A e \in Event : Insert(e) /\ ~StrayInvite(e) =>
            /\ \A c \in Conn : \A s \in DOMAIN conn[c].subs :
                LET reader == Reader(conn[c].who)
                    held == conn[c].subs[s]
                IN  ~NamesGated(held, reader) =>
                        (<<c, s>> \in Broadcast(e) <=>
                            \E f \in held : \E q \in Queries(f, reader) : e \in Rows(q, {e}, now))
            /\ LiveBroadcast(e) # {} => MayReceive(Nobody, e) ]_vars

\* "Withheld from everyone but the owner, on both read surfaces": what groups.ts
\* says of invites, a stray one included.  No run checks it (README, Known
\* differences).
InvitesAreTheOwners ==
    \A who \in (Pubkey \union {Nobody}) \ {Owner}, frame \in Frame :
        Admitted(frame, Reader(who)) =>
            \A e \in Answer(frame, Reader(who)) : e.kind # CreateInvite

\* Stated by limits.ts (MAX_QUERY_BOUND_PARAMS, MAX_SCOPED_GROUPS): a filter
\* that was admitted makes no statement SQLite refuses.
QueriesFit ==
    \A who \in Pubkey \union {Nobody}, frame \in Frame :
        Admitted(frame, Reader(who)) =>
            \A q \in AskedQueries(frame, Reader(who)) : BoundParams(q) <= SqliteParams
=============================================================================
