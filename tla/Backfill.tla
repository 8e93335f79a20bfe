------------------------------ MODULE Backfill ------------------------------
(***************************************************************************)
(* The one-time import of the owner's history (backfill.ts, and the Worker *)
(* half in backfill-worker.ts).  Every hour the Worker runs the relay's    *)
(* cron and then one tick: it asks the Durable Object where it stands,     *)
(* fetches one page from another relay over a socket of its own, and hands *)
(* the page back to be stored.  Between the question and the answer the    *)
(* Durable Object serves everybody else, and a second invocation of the    *)
(* Worker may be under way.                                                *)
(*                                                                         *)
(* The relay is claimed throughout.  An event whose id or signature does   *)
(* not check, or that is dated too far ahead, is passed over as a          *)
(* stranger's is; what is not of an event's shape (parseEventShape), but   *)
(* has the date its relay sorts it by, is a member of Malformed.           *)
(***************************************************************************)
EXTENDS Events, FiniteSetsExt

CONSTANTS
    Url,            \* relays, numbered as ORDER BY relay_url sorts them
    OwnUrl,         \* the one that is this relay
    History,        \* what each relay answers the owner's filter with
    Malformed,      \* what parseEventShape refuses of it: a tag that is no list
    WriteRelays,    \* the owner's kind-10002 list
    Deletable,      \* the events deleted here while backfill runs
    Invocation,     \* scheduled() calls that may overlap
    SeedTime,       \* the clock when the relays are seeded
    PageSize,       \* for each relay, BACKFILL_PAGE_SIZE or its own cap
    MaxFaults,      \* bound: lost lookups, cut pages, failed crons, spent budgets
    MaxStoreFaults  \* bound: pages in which storeEvent throws

ASSUME BackfillAssumption ==
    /\ Url \subseteq Nat
    /\ OwnUrl \in Url
    /\ History \in [Url -> SUBSET Event]
    /\ History[OwnUrl] = {}     \* this relay answers with what it has: Held
    /\ Malformed \subseteq Event
    /\ WriteRelays \subseteq Url
    /\ IsFiniteSet(Url)
    /\ Deletable \subseteq Event
    /\ SeedTime \in Nat
    /\ PageSize \in [Url -> Nat \ {0}]
    /\ {MaxFaults, MaxStoreFaults} \subseteq Nat

VARIABLES
    stored,         \* `events`
    deleted,        \* `deleted_ids`
    status,         \* backfill_meta.status
    relays,         \* backfill_relays: url -> its cursor and its exhausted flag
    resetApplied,   \* backfill_meta.exhaust_reset_applied
    hostKnown,      \* host.ts has learned this relay's own host
    headroom,       \* hasBackfillHeadroom
    job,            \* where each invocation of the Worker is, and its page
    parted,         \* history: what the end of a page parted from its second
    dropped,        \* history: what a throw parted from its second
    faults, storeFaults

left == <<parted, dropped>>
meta == <<status, relays, resetApplied, left>>
vars == <<stored, deleted, meta, hostKnown, headroom, job, faults, storeFaults>>

Idle == [phase |-> "idle"]
Started == [phase |-> "started"]
Discovering == [phase |-> "discovering"]
Fetched(url, page, eose) == [phase |-> "fetched", url |-> url, page |-> page, eose |-> eose]

Job == {Idle, Started, Discovering} \union
       [phase : {"fetched"}, url : Url, page : SUBSET Event, eose : BOOLEAN]
Row == [until : Int, exhausted : BOOLEAN]

TypeOK ==
    /\ stored \subseteq Event
    /\ deleted \subseteq EventId
    /\ status \in {"pending", "running", "paused-budget", "done"}
    /\ DOMAIN relays \subseteq WriteRelays
    /\ relays \in [DOMAIN relays -> Row]
    /\ job \in [Invocation -> Job]
    /\ parted \subseteq Url \X Event
    /\ dropped \subseteq Url \X Event
    /\ resetApplied \in BOOLEAN /\ hostKnown \in BOOLEAN /\ headroom \in BOOLEAN
    /\ faults \in 0 .. MaxFaults /\ storeFaults \in 0 .. MaxStoreFaults

Init ==
    /\ stored = {}
    /\ deleted = {}
    /\ status = "pending"
    /\ relays = [url \in {} |-> Idle]
    /\ resetApplied = FALSE
    /\ hostKnown = FALSE
    /\ headroom = TRUE
    /\ job = [i \in Invocation |-> Idle]
    /\ parted = {}
    /\ dropped = {}
    /\ faults = 0
    /\ storeFaults = 0

Goto(i, next) == job' = [job EXCEPT ![i] = next]
Fault == faults < MaxFaults /\ faults' = faults + 1
NoFault == UNCHANGED <<faults, storeFaults>>

-----------------------------------------------------------------------------
(* The hourly runCron, as far as backfill goes.                            *)

Unflagged(rows) == [url \in DOMAIN rows |-> [rows[url] EXCEPT !.exhausted = FALSE]]
Without(rows, url) == [u \in DOMAIN rows \ {url} |-> rows[u]]

\* resetWronglyExhaustedRelays, then purgeSelfRelay.
RunCron(i) ==
    LET rows == IF resetApplied THEN relays ELSE Unflagged(relays)
        after == IF ~resetApplied /\ status = "done" THEN "running" ELSE status
        purges == hostKnown /\ OwnUrl \in DOMAIN rows
    IN  /\ job[i] = Idle
        /\ Goto(i, Started)
        /\ resetApplied' = TRUE
        /\ relays' = IF purges THEN Without(rows, OwnUrl) ELSE rows
        /\ status' = IF purges /\ DOMAIN rows = {OwnUrl} THEN "done" ELSE after
        /\ NoFault /\ UNCHANGED <<stored, deleted, left, hostKnown, headroom>>

\* scheduled() catches what runCron throws and still runs the tick.
RunCronThrows(i) ==
    /\ job[i] = Idle
    /\ Goto(i, Started)
    /\ Fault
    /\ UNCHANGED <<stored, deleted, meta, hostKnown, headroom, storeFaults>>

(* runBackfillTick: getBackfillState, and what it decides.                 *)

Unfinished == { url \in DOMAIN relays : ~relays[url].exhausted }

NothingToDo(i) ==
    /\ job[i] = Started
    /\ \/ status \in {"done", "paused-budget"}
       \/ status = "running" /\ (Unfinished = {} \/ ~headroom)
    /\ Goto(i, Idle)
    /\ NoFault /\ UNCHANGED <<stored, deleted, meta, hostKnown, headroom>>

BeginDiscovery(i) ==
    /\ job[i] = Started
    /\ status = "pending"
    /\ Goto(i, Discovering)
    /\ NoFault /\ UNCHANGED <<stored, deleted, meta, hostKnown, headroom>>

\* A lookup that finds no list leaves everything as it is.
LookupFails(i) ==
    /\ job[i] = Discovering
    /\ Goto(i, Idle)
    /\ Fault
    /\ UNCHANGED <<stored, deleted, meta, hostKnown, headroom, storeFaults>>

SeedBackfillRelays(i) ==
    LET listed == IF hostKnown THEN WriteRelays \ {OwnUrl} ELSE WriteRelays
    IN  /\ job[i] = Discovering
        /\ Goto(i, Idle)
        /\ IF DOMAIN relays # {} \/ WriteRelays = {}
           THEN UNCHANGED <<relays, status>>
           ELSE /\ relays' = [url \in listed |-> [until |-> SeedTime, exhausted |-> FALSE]]
                /\ status' = IF listed = {} THEN "done" ELSE "running"
        /\ NoFault /\ UNCHANGED <<stored, deleted, resetApplied, left, hostKnown, headroom>>

-----------------------------------------------------------------------------
(* fetchPage.  A relay answers newest first, up to its limit.              *)

Held(url) == IF url = OwnUrl THEN stored ELSE History[url]
Matching(url, until) == { x \in Held(url) : x.created_at <= until }

NewestOf(page, S) ==
    /\ page \subseteq S
    /\ \A x \in page, y \in S \ page : x.created_at >= y.created_at

FetchPage(i) ==
    /\ job[i] = Started
    /\ status = "running"
    /\ headroom
    /\ Unfinished # {}
    /\ LET url == Min(Unfinished)
           all == Matching(url, relays[url].until)
           cap == Min({PageSize[url], Cardinality(all)})
       IN  \E page \in SUBSET all :
            /\ NewestOf(page, all)
            /\ \/ Cardinality(page) = cap          \* a real EOSE
                  /\ Goto(i, Fetched(url, page, TRUE))
                  /\ NoFault
               \/ Cardinality(page) <= cap         \* a timeout, an error or a CLOSED
                  /\ Goto(i, Fetched(url, page, FALSE))
                  /\ Fault /\ UNCHANGED storeFaults
    /\ UNCHANGED <<stored, deleted, meta, hostKnown, headroom>>

(* ingestBackfillPage: applyBackfillPage.  What is malformed is skipped,   *)
(* in the walk of the cursor too, though the page is not empty for it.     *)

Parsed(page) == page \ Malformed

\* Mutant: a tombstoned id is stored like any other.
WantedOrDeleted(x) == x.pubkey = Owner /\ x \notin stored

Wanted(x) ==
    /\ x.pubkey = Owner
    /\ x \notin stored
    /\ x.id \notin deleted

\* storeEvent over a set of events, whatever their order: each address keeps
\* the version no other one supersedes.
StoreAll(S, events) ==
    LET all == S \union { x \in events : /\ ~IsEphemeralKind(x.kind)
                                         /\ IsGroupMetadataKind(x.kind) =>
                                              x.pubkey = RelayPubkey }
    IN  { x \in all : ~ \E y \in Versions(all, x) : IsSupersededBy(y, x) }

\* Mutants: the cursor stops at the oldest event, or falls past the one
\* that failed.
CursorAtOldest(row, handled, page) ==
    IF handled = {} THEN row.until ELSE Min({ x.created_at : x \in handled })
CursorOfPage(row, handled, page) ==
    IF page = {} THEN row.until ELSE Min({ x.created_at : x \in page }) - 1

Cursor(row, handled, page) ==
    IF handled = {} THEN row.until ELSE Min({ x.created_at : x \in handled }) - 1

\* Mutant: an empty page is the end, however it ended.
ExhaustedIfEmpty(page, eose) == page = {}

Exhausted(page, eose) == eose /\ page = {}

\* Mutant: a pause written under a name nobody reads.
NextStatusPaused(failed, rows) ==
    IF failed THEN "paused"
    ELSE IF \A u \in DOMAIN rows : rows[u].exhausted THEN "done" ELSE "running"

NextStatus(failed, rows) ==
    IF failed THEN "paused-budget"
    ELSE IF \A u \in DOMAIN rows : rows[u].exhausted THEN "done" ELSE "running"

\* History: the cursor falls below the oldest second handled, and these events
\* of that second were not.
LeftBehind(url, handled) ==
    { x \in Parsed(History[url]) \ handled :
        handled # {} /\ x.created_at = Min({ y.created_at : y \in handled }) }

\* The page's bookkeeping, once the events in `handled` are done with.
Record(url, page, eose, handled, failed) ==
    /\ relays' = IF url \in DOMAIN relays
                 THEN [relays EXCEPT ![url] =
                         [until |-> Cursor(@, handled, page),
                          exhausted |-> ~failed /\ Exhausted(page, eose)]]
                 ELSE relays
    /\ status' = NextStatus(failed, relays')
    /\ parted' = parted \union ({url} \X (LeftBehind(url, handled) \ page))
    /\ dropped' = dropped \union ({url} \X (LeftBehind(url, handled) \intersect page))

IngestPage(i) ==
    /\ job[i].phase = "fetched"
    /\ headroom
    /\ LET page == job[i].page
       IN  /\ stored' = StoreAll(stored, { x \in Parsed(page) : Wanted(x) })
           /\ Record(job[i].url, page, job[i].eose, Parsed(page), FALSE)
    /\ Goto(i, Idle)
    /\ NoFault /\ UNCHANGED <<deleted, resetApplied, hostKnown, headroom>>

DiscardPage(i) ==
    /\ job[i].phase = "fetched"
    /\ ~headroom
    /\ Goto(i, Idle)
    /\ NoFault /\ UNCHANGED <<stored, deleted, meta, hostKnown, headroom>>

\* storeEvent throws on one event: the loop stops there.  It may have thrown
\* on its insert, after it had deleted the versions the event replaces.
IngestFails(i) ==
    /\ job[i].phase = "fetched"
    /\ headroom
    /\ storeFaults < MaxStoreFaults
    /\ storeFaults' = storeFaults + 1
    /\ \E broken \in Parsed(job[i].page) :
       \E handled \in SUBSET (Parsed(job[i].page) \ {broken}) :
        LET before == StoreAll(stored, { x \in handled : Wanted(x) })
        IN  /\ NewestOf(handled, Parsed(job[i].page))
            /\ \A x \in Parsed(job[i].page) : x.created_at > broken.created_at => x \in handled
            /\ Wanted(broken)
            /\ Storable(before, broken)
            /\ stored' \in {before, before \ Versions(before, broken)}
            /\ Record(job[i].url, job[i].page, job[i].eose, handled, TRUE)
    /\ Goto(i, Idle)
    /\ UNCHANGED <<deleted, resetApplied, hostKnown, headroom, faults>>

-----------------------------------------------------------------------------
(* What else goes on in the Durable Object.                                *)

LearnHost == ~hostKnown /\ hostKnown' = TRUE
             /\ UNCHANGED <<stored, deleted, meta, headroom, job, faults, storeFaults>>

\* deleteAndTombstone or banEvent, of an event held or not.
Delete(x) ==
    /\ x.id \notin deleted
    /\ stored' = stored \ {x}
    /\ deleted' = deleted \union {x.id}
    /\ UNCHANGED <<meta, hostKnown, headroom, job, faults, storeFaults>>

SpendBudget ==
    /\ headroom
    /\ headroom' = FALSE
    /\ Fault
    /\ UNCHANGED <<stored, deleted, meta, hostKnown, job, storeFaults>>

NewDay ==
    /\ ~headroom
    /\ headroom' = TRUE
    /\ UNCHANGED <<stored, deleted, meta, hostKnown, job, faults, storeFaults>>

Tick(i) ==
    \/ RunCron(i)
    \/ RunCronThrows(i)
    \/ NothingToDo(i)
    \/ BeginDiscovery(i)
    \/ LookupFails(i)
    \/ SeedBackfillRelays(i)
    \/ FetchPage(i)
    \/ IngestPage(i)
    \/ DiscardPage(i)
    \/ IngestFails(i)

Next ==
    \/ \E i \in Invocation : Tick(i)
    \/ LearnHost
    \/ \E x \in Deletable : Delete(x)
    \/ SpendBudget
    \/ NewDay

Spec == Init /\ [][Next]_vars

\* The cron fires every hour and its awaits return; the quota resets at 00:00.
Fairness == /\ \A i \in Invocation : WF_vars(Tick(i))
            /\ WF_vars(NewDay)

FairSpec == Spec /\ Fairness

-----------------------------------------------------------------------------
(* Properties.                                                             *)

\* An event deleted here stays deleted, though another relay still has it and
\* a page that holds it was fetched before the deletion.
DeletedStaysDeleted == \A x \in stored : x.id \notin deleted

NewerVersion(y, x) == x \in Versions({x}, y) /\ IsSupersededBy(y, x)

\* Stored, deleted, replaced by a version that is stored or was deleted, or
\* not this feature's to store.
Settled(x) ==
    \/ x \in stored
    \/ x.id \in deleted
    \/ \E y \in Event : NewerVersion(y, x) /\ (y \in stored \/ y.id \in deleted)
    \/ x.pubkey # Owner
    \/ IsEphemeralKind(x.kind)
    \/ IsGroupMetadataKind(x.kind) /\ x.pubkey # RelayPubkey

Ahead(url, x) == x.created_at <= relays[url].until

\* Lost to the cursor, which falls below a whole second at a time: a page ended
\* inside the second, or storeEvent threw inside it.
Left(url, x) == <<url, x>> \in parted \union dropped

\* The cursor of a relay passes an event only once it is settled, or a newer
\* version of it is still to come, or as the rest of a second that a page's end
\* or a throw divided: whatever page timed out, failed, was thrown away or was
\* applied late.
NothingSkipped ==
    \A url \in DOMAIN relays : \A x \in Parsed(History[url]) :
        x.created_at <= SeedTime =>
            \/ Settled(x)
            \/ Ahead(url, x) \/ Left(url, x)
            \/ \E other \in DOMAIN relays : \E y \in Parsed(History[other]) :
                 NewerVersion(y, x) /\ (Ahead(other, y) \/ Left(other, y))

\* What backfill.ts says of a throw: the event that threw is asked for again.
\* No run checks it (README, Known differences).
ThrowSkipsNothing ==
    \A url \in DOMAIN relays : \A x \in Parsed(History[url]) :
        <<url, x>> \in dropped => Settled(x) \/ Ahead(url, x)

\* "done" is told only when all the history of every relay still listed is
\* settled, but for such rests of a second, two invocations of the Worker
\* overlapping or not.
DoneMeansImported ==
    status = "done" =>
        \A url \in DOMAIN relays : \A x \in Parsed(History[url]) :
            x.created_at <= SeedTime =>
                \/ Settled(x)
                \/ Left(url, x)
                \/ \E other \in DOMAIN relays : \E y \in Parsed(History[other]) :
                     NewerVersion(y, x) /\ Left(other, y)

\* The next relay may answer with a page of nothing but what is malformed, for
\* which the cursor does not move.
Jammed ==
    /\ Unfinished # {}
    /\ LET url == Min(Unfinished)
           all == Matching(url, relays[url].until)
       IN  \E page \in SUBSET (all \intersect Malformed) :
            /\ NewestOf(page, all)
            /\ Cardinality(page) = PageSize[url] \/ (page = all /\ page # {})

\* Once the trouble stops, the walk ends, unless a page that failed to store
\* has paused it, or it comes to a page that is malformed from end to end and
\* stays there.
WalkEnds ==
    status = "running" ~> (Unfinished = {} \/ status = "paused-budget" \/ []Jammed)

\* What backfill.ts says of it: every event with a date moves the cursor, so no
\* page is fetched for ever.  No run checks it (README, Known differences).
EveryWalkEnds == status = "running" ~> (Unfinished = {} \/ status = "paused-budget")

\* A pause for the daily quota ends when the quota resets.
PauseEnds == status = "paused-budget" ~> status # "paused-budget"

\* A status that reads "still working" is not the last word.
RunningEnds == status = "running" ~> status # "running"
=============================================================================
