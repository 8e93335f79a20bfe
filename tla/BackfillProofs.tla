--------------------------- MODULE BackfillProofs ---------------------------
(***************************************************************************)
(* What holds of the import for every history, every order of the          *)
(* invocations and every fault.                                            *)
(***************************************************************************)
EXTENDS Backfill, FiniteSetTheorems, WellFoundedInduction, TLAPS

-----------------------------------------------------------------------------
(* In place of induction: of the numbers for which a statement fails, the  *)
(* least.                                                                  *)

\* A set of naturals with a member has a least one.
LEMMA LeastNat ==
    ASSUME NEW S, S \subseteq Nat, S # {}
    PROVE  \E x \in S : \A y \in S : x <= y
<1> DEFINE less == { s \in Nat \X Nat : s[1] < s[2] }
<1>1. IsWellFoundedOn(less, Nat)
  BY NatLessThanWellFounded DEF OpToRel
<1>2. PICK x \in S : \A y \in S : ~ (<<y, x>> \in less)
  BY <1>1, WFMin
<1>3. ASSUME NEW y \in S PROVE x <= y
  <2>1. x \in Nat /\ y \in Nat
    OBVIOUS
  <2>2. ~ (y < x)
    BY <1>2, <2>1
  <2> QED
    BY <2>1, <2>2
<1> QED
  BY <1>3

\* Which is its Min.
LEMMA MinNat ==
    ASSUME NEW S, S \subseteq Nat, S # {}
    PROVE  Min(S) \in S /\ \A y \in S : Min(S) <= y
BY LeastNat DEF Min
-----------------------------------------------------------------------------
(* The cursor.                                                             *)

\* A cursor is a number, whatever was handled.
LEMMA CursorType ==
    ASSUME NEW row \in Row, NEW handled \in SUBSET Event, NEW page
    PROVE  Cursor(row, handled, page) \in Int
<1> DEFINE times == { x.created_at : x \in handled }
<1>1. times \subseteq Nat
  BY EventAssumption DEF EventFieldsOK
<1>2. CASE handled = {}
  BY <1>2 DEF Cursor, Row
<1>3. CASE handled # {}
  <2>1. Min(times) \in times
    <3>1. times # {}
      BY <1>3
    <3> HIDE DEF times
    <3> QED
      BY <1>1, <3>1, MinNat
  <2>2. Min(times) \in Nat
    BY <1>1, <2>1
  <2>3. Cursor(row, handled, page) = Min(times) - 1
    BY <1>3 DEF Cursor
  <2> HIDE DEF times
  <2> QED
    BY <2>2, <2>3
<1> QED
  BY <1>2, <1>3

-----------------------------------------------------------------------------
(* Type correctness.                                                       *)

\* Storing adds nothing but the events it was given.
LEMMA StoreAllAdds ==
    ASSUME NEW S, NEW events
    PROVE  StoreAll(S, events) \subseteq S \union events
BY DEF StoreAll

\* The rows that a page's bookkeeping leaves are rows of the same relays.
LEMMA RecordType ==
    ASSUME TypeOK,
           NEW url, NEW page \in SUBSET Event, NEW eose \in BOOLEAN,
           NEW handled \in SUBSET Event, NEW failed \in BOOLEAN,
           Record(url, page, eose, handled, failed)
    PROVE  /\ DOMAIN relays' = DOMAIN relays
           /\ relays' \in [DOMAIN relays -> Row]
           /\ status' \in {"done", "running", "paused-budget"}
           /\ url \in Url => parted' \subseteq Url \X Event /\ dropped' \subseteq Url \X Event
<1>0. ASSUME url \in Url
      PROVE  parted' \subseteq Url \X Event /\ dropped' \subseteq Url \X Event
  <2>1. LeftBehind(url, handled) \subseteq Event
    BY <1>0, BackfillAssumption DEF LeftBehind, Parsed
  <2> QED
    BY <1>0, <2>1 DEF Record, TypeOK
<1>1. status' \in {"done", "running", "paused-budget"}
  BY DEF Record, NextStatus
<1>2. CASE url \notin DOMAIN relays
  BY <1>0, <1>1, <1>2 DEF Record, TypeOK
<1>3. CASE url \in DOMAIN relays
  <2> DEFINE row == [until |-> Cursor(relays[url], handled, page),
                     exhausted |-> ~failed /\ Exhausted(page, eose)]
  <2>1. relays[url] \in Row
    BY <1>3 DEF TypeOK
  <2>2. row \in Row
    BY <2>1, CursorType DEF Row, Exhausted
  <2>3. relays' = [relays EXCEPT ![url] = row]
    BY <1>3 DEF Record
  <2> HIDE DEF row
  <2> QED
    BY <1>0, <1>1, <2>2, <2>3 DEF TypeOK
<1> QED
  BY <1>2, <1>3

\* An invocation that moves on leaves every job a job.
LEMMA GotoType ==
    ASSUME TypeOK, NEW i \in Invocation, NEW next \in Job, Goto(i, next)
    PROVE  job' \in [Invocation -> Job]
BY DEF TypeOK, Goto

\* The phases that carry no page are jobs.
LEMMA PhasesAreJobs == {Idle, Started, Discovering} \subseteq Job
BY DEF Job

\* A job that has fetched holds a page of signed events.
LEMMA FetchedType ==
    ASSUME TypeOK, NEW i \in Invocation, job[i].phase = "fetched"
    PROVE  job[i].url \in Url /\ job[i].page \in SUBSET Event /\ job[i].eose \in BOOLEAN
<1>1. job[i] \in Job
  BY DEF TypeOK
<1> QED
  BY <1>1 DEF Job, Idle, Started, Discovering

\* The bound on faults holds across a fault, and where there is none.
LEMMA FaultType ==
    ASSUME TypeOK, Fault
    PROVE  faults' \in 0 .. MaxFaults
BY BackfillAssumption DEF TypeOK, Fault

\* What an event held by another relay, or by this one, can be.
LEMMA HeldType ==
    ASSUME TypeOK, NEW url \in Url
    PROVE  Held(url) \subseteq Event
BY BackfillAssumption DEF Held, TypeOK

\* The next relay to be walked is one of the listed relays.
LEMMA UnfinishedType ==
    ASSUME TypeOK, Unfinished # {}
    PROVE  Min(Unfinished) \in DOMAIN relays
<1>1. Unfinished \subseteq DOMAIN relays /\ DOMAIN relays \subseteq Nat
  BY BackfillAssumption DEF Unfinished, TypeOK
<1>2. Min(Unfinished) \in Unfinished
  BY <1>1, MinNat
<1> QED
  BY <1>1, <1>2

RowsOK ==
    /\ DOMAIN relays' \subseteq WriteRelays
    /\ relays' \in [DOMAIN relays' -> Row]

\* What the cron does to the rows leaves rows of write relays.
LEMMA CronType ==
    ASSUME TypeOK, NEW i \in Invocation, RunCron(i)
    PROVE  RowsOK
<1> DEFINE rows == IF resetApplied THEN relays ELSE Unflagged(relays)
<1>1. DOMAIN rows = DOMAIN relays /\ rows \in [DOMAIN relays -> Row]
  BY DEF TypeOK, Unflagged, Row
<1>2. relays' = rows \/ relays' = Without(rows, OwnUrl)
  BY DEF RunCron
<1> HIDE DEF rows
<1> QED
  BY <1>1, <1>2 DEF TypeOK, RowsOK, Without

\* The seeded rows are rows of write relays.
LEMMA SeedType ==
    ASSUME TypeOK, NEW i \in Invocation, SeedBackfillRelays(i)
    PROVE  RowsOK
<1>1. CASE UNCHANGED relays
  BY <1>1 DEF TypeOK, RowsOK
<1>2. CASE \E listed \in SUBSET WriteRelays :
             relays' = [url \in listed |-> [until |-> SeedTime, exhausted |-> FALSE]]
  BY <1>2, BackfillAssumption DEF RowsOK, Row
<1> QED
  BY <1>1, <1>2 DEF SeedBackfillRelays

\* A page that was fetched is a page of events.
LEMMA FetchType ==
    ASSUME TypeOK, NEW i \in Invocation, FetchPage(i)
    PROVE  /\ job' \in [Invocation -> Job]
           /\ faults' \in 0 .. MaxFaults
           /\ UNCHANGED storeFaults
<1> DEFINE url == Min(Unfinished)
           all == Matching(url, relays[url].until)
<1>1. url \in Url
  BY UnfinishedType, BackfillAssumption DEF FetchPage, TypeOK
<1>2. all \subseteq Event
  BY <1>1, HeldType DEF Matching
<1>3. PICK page \in SUBSET all, eose \in BOOLEAN :
        /\ Goto(i, Fetched(url, page, eose))
        /\ NoFault \/ (Fault /\ UNCHANGED storeFaults)
  BY DEF FetchPage
<1> HIDE DEF url, all
<1>4. Fetched(url, page, eose) \in Job
  BY <1>1, <1>2 DEF Fetched, Job
<1>5. faults' \in 0 .. MaxFaults /\ UNCHANGED storeFaults
  BY <1>3, FaultType DEF NoFault, TypeOK
<1> QED
  BY <1>3, <1>4, <1>5, GotoType

\* A page that fails to store still leaves rows of the same relays, and only
\* events where events were.
LEMMA IngestType ==
    ASSUME TypeOK, NEW i \in Invocation, IngestPage(i) \/ IngestFails(i)
    PROVE  /\ stored' \subseteq Event
           /\ RowsOK
           /\ parted' \subseteq Url \X Event /\ dropped' \subseteq Url \X Event
           /\ status' \in {"done", "running", "paused-budget"}
<1>1. job[i].url \in Url /\ job[i].page \in SUBSET Event /\ job[i].eose \in BOOLEAN
  BY FetchedType DEF IngestPage, IngestFails
<1>2. PICK handled \in SUBSET Event, failed \in BOOLEAN :
        /\ Record(job[i].url, job[i].page, job[i].eose, handled, failed)
        /\ stored' \subseteq StoreAll(stored, { x \in handled : Wanted(x) })
  BY <1>1 DEF IngestPage, IngestFails, Parsed
<1>3. stored' \subseteq Event
  <2> DEFINE wanted == { x \in handled : Wanted(x) }
  <2>1. stored' \subseteq StoreAll(stored, wanted)
    BY <1>2
  <2>2. StoreAll(stored, wanted) \subseteq stored \union wanted
    BY StoreAllAdds
  <2>3. stored \subseteq Event /\ wanted \subseteq Event
    BY <1>2 DEF TypeOK
  <2> QED
    BY <2>1, <2>2, <2>3
<1>4. /\ DOMAIN relays' = DOMAIN relays
      /\ relays' \in [DOMAIN relays -> Row]
      /\ parted' \subseteq Url \X Event /\ dropped' \subseteq Url \X Event
      /\ status' \in {"done", "running", "paused-budget"}
  <2> DEFINE url == job[i].url
             page == job[i].page
             eose == job[i].eose
  <2>1. url \in Url /\ page \in SUBSET Event /\ eose \in BOOLEAN
    BY <1>1
  <2>2. Record(url, page, eose, handled, failed)
    BY <1>2
  <2> HIDE DEF url, page, eose
  <2> QED
    BY <2>1, <2>2, RecordType
<1> QED
  BY <1>3, <1>4 DEF RowsOK, TypeOK

\* A relay with no events, not yet walking, is well typed.
LEMMA InitType ==
    ASSUME Init
    PROVE  TypeOK
<1>1. DOMAIN relays = {} /\ relays \in [DOMAIN relays -> Row]
  BY DEF Init
<1>2. job \in [Invocation -> Job]
  BY PhasesAreJobs DEF Init
<1>3. faults \in 0 .. MaxFaults /\ storeFaults \in 0 .. MaxStoreFaults
  BY BackfillAssumption DEF Init
<1> QED
  BY <1>1, <1>2, <1>3 DEF Init, TypeOK

\* THEOREM: the rows, the jobs in flight and the counters keep their types:
\* what a page holds is signed events, and a cursor is a number.
THEOREM TypeCorrect == Spec => []TypeOK
<1>1. Init => TypeOK
  BY InitType
<1>2. ASSUME TypeOK, [Next]_vars PROVE TypeOK'
  <2> USE <1>2
  <2>1. ASSUME NEW i \in Invocation, RunCron(i) PROVE TypeOK'
    BY <2>1, CronType, GotoType, PhasesAreJobs DEF RunCron, TypeOK, NoFault, RowsOK, left
  <2>2. ASSUME NEW i \in Invocation, RunCronThrows(i) PROVE TypeOK'
    BY <2>2, GotoType, FaultType, PhasesAreJobs DEF RunCronThrows, TypeOK, meta, left
  <2>3. ASSUME NEW i \in Invocation, NothingToDo(i) PROVE TypeOK'
    BY <2>3, GotoType, PhasesAreJobs DEF NothingToDo, TypeOK, NoFault, meta, left
  <2>4. ASSUME NEW i \in Invocation, BeginDiscovery(i) PROVE TypeOK'
    BY <2>4, GotoType, PhasesAreJobs DEF BeginDiscovery, TypeOK, NoFault, meta, left
  <2>5. ASSUME NEW i \in Invocation, LookupFails(i) PROVE TypeOK'
    BY <2>5, GotoType, FaultType, PhasesAreJobs DEF LookupFails, TypeOK, meta, left
  <2>6. ASSUME NEW i \in Invocation, SeedBackfillRelays(i) PROVE TypeOK'
    BY <2>6, SeedType, GotoType, PhasesAreJobs
    DEF SeedBackfillRelays, TypeOK, NoFault, RowsOK, left
  <2>7. ASSUME NEW i \in Invocation, FetchPage(i) PROVE TypeOK'
    BY <2>7, FetchType DEF FetchPage, TypeOK, meta, left
  <2>8. ASSUME NEW i \in Invocation, IngestPage(i) PROVE TypeOK'
    BY <2>8, IngestType, GotoType, PhasesAreJobs DEF IngestPage, TypeOK, NoFault, RowsOK
  <2>9. ASSUME NEW i \in Invocation, DiscardPage(i) PROVE TypeOK'
    BY <2>9, GotoType, PhasesAreJobs DEF DiscardPage, TypeOK, NoFault, meta, left
  <2>10. ASSUME NEW i \in Invocation, IngestFails(i) PROVE TypeOK'
    <3>1. storeFaults' \in 0 .. MaxStoreFaults
      BY <2>10, BackfillAssumption DEF IngestFails, TypeOK
    <3> QED
      BY <2>10, <3>1, IngestType, GotoType, PhasesAreJobs DEF IngestFails, TypeOK, RowsOK
  <2>11. ASSUME NEW x \in Deletable, Delete(x) PROVE TypeOK'
    BY <2>11, BackfillAssumption DEF Delete, TypeOK, meta, left, EventId
  <2>12. CASE LearnHost \/ SpendBudget \/ NewDay
    <3>1. faults' \in 0 .. MaxFaults
      BY <2>12, FaultType DEF LearnHost, SpendBudget, NewDay, TypeOK
    <3> QED
      BY <2>12, <3>1 DEF LearnHost, SpendBudget, NewDay, TypeOK, meta, left
  <2>13. CASE UNCHANGED vars
    BY <2>13 DEF vars, meta, left, TypeOK
  <2> QED
    BY <2>1, <2>2, <2>3, <2>4, <2>5, <2>6, <2>7, <2>8, <2>9, <2>10, <2>11, <2>12, <2>13
    DEF Next, Tick
<1> QED
  BY <1>1, <1>2, PTL DEF Spec

-----------------------------------------------------------------------------
(* Deletions.                                                              *)

\* No step but a deletion changes the tombstones, and none stores what they
\* name: the check is made when a page is applied, not when it was fetched.
LEMMA OnlyWantedStored ==
    ASSUME TypeOK, NEW i \in Invocation, Tick(i)
    PROVE  deleted' = deleted /\ \A x \in stored' \ stored : x.id \notin deleted
<1>1. CASE IngestPage(i) \/ IngestFails(i)
  <2>1. deleted' = deleted
    BY <1>1 DEF IngestPage, IngestFails
  <2>2. PICK handled : stored' \subseteq StoreAll(stored, { x \in handled : Wanted(x) })
    BY <1>1 DEF IngestPage, IngestFails
  <2> DEFINE wanted == { x \in handled : Wanted(x) }
  <2>3. StoreAll(stored, wanted) \subseteq stored \union wanted
    BY StoreAllAdds
  <2>4. \A x \in wanted : x.id \notin deleted
    BY DEF Wanted
  <2> QED
    BY <2>1, <2>2, <2>3, <2>4
<1>2. CASE ~(IngestPage(i) \/ IngestFails(i))
  BY <1>2 DEF Tick, RunCron, RunCronThrows, NothingToDo, BeginDiscovery, LookupFails,
              SeedBackfillRelays, FetchPage, DiscardPage
<1> QED
  BY <1>1, <1>2

\* THEOREM: an event deleted on this relay never comes back from another one,
\* whatever pages were in flight when it was deleted.
THEOREM DeletedTheorem == Spec => []DeletedStaysDeleted
<1>1. Init => DeletedStaysDeleted
  BY DEF Init, DeletedStaysDeleted
<1>2. ASSUME TypeOK, DeletedStaysDeleted, [Next]_vars PROVE DeletedStaysDeleted'
  <2> USE <1>2
  <2>1. ASSUME NEW i \in Invocation, Tick(i) PROVE DeletedStaysDeleted'
    BY <2>1, OnlyWantedStored DEF DeletedStaysDeleted
  <2>2. ASSUME NEW x \in Deletable, Delete(x) PROVE DeletedStaysDeleted'
    <3>1. \A y \in stored \ {x} : y.id # x.id
      BY EventAssumption, BackfillAssumption DEF TypeOK
    <3> QED
      BY <2>2, <3>1 DEF Delete, DeletedStaysDeleted
  <2>3. CASE LearnHost \/ SpendBudget \/ NewDay \/ UNCHANGED vars
    BY <2>3 DEF LearnHost, SpendBudget, NewDay, vars, DeletedStaysDeleted
  <2> QED
    BY <2>1, <2>2, <2>3 DEF Next
<1> QED
  BY <1>1, <1>2, TypeCorrect, PTL DEF Spec
-----------------------------------------------------------------------------
(* Versions.                                                               *)

\* A newer version has the same address and beats the older.
LEMMA NewerMeans ==
    ASSUME NEW x, NEW y
    PROVE  NewerVersion(y, x) <=>
             HasAddress(y) /\ SameAddress(x, y) /\ IsSupersededBy(y, x)
BY DEF NewerVersion, Versions

\* Being a newer version is a strict order.
LEMMA NewerOrder ==
    ASSUME NEW x \in Event, NEW y \in Event, NEW z \in Event
    PROVE  /\ NewerVersion(z, y) /\ NewerVersion(y, x) => NewerVersion(z, x)
           /\ ~NewerVersion(x, x)
<1>1. \A v \in {x, y, z} : v.created_at \in Nat /\ v.id \in Nat
  BY EventAssumption DEF EventFieldsOK
<1>2. ~IsSupersededBy(x, x)
  BY <1>1 DEF IsSupersededBy
<1>3. IsSupersededBy(z, y) /\ IsSupersededBy(y, x) => IsSupersededBy(z, x)
  BY <1>1 DEF IsSupersededBy
<1>4. SameAddress(y, z) /\ SameAddress(x, y) => SameAddress(x, z)
  BY DEF SameAddress
<1> QED
  BY <1>2, <1>3, <1>4, NewerMeans

\* Of two versions of one address, one is the newer.
LEMMA NewerTotal ==
    ASSUME NEW x \in Event, NEW y \in Event, x # y, HasAddress(y), SameAddress(x, y)
    PROVE  NewerVersion(y, x) \/ IsSupersededBy(x, y)
<1>1. /\ x.created_at \in Nat /\ x.id \in Nat
      /\ y.created_at \in Nat /\ y.id \in Nat
      /\ x.id # y.id
  BY EventAssumption DEF EventFieldsOK
<1> QED
  BY <1>1, NewerMeans DEF IsSupersededBy

\* Some event of a set has no newer version in it.
LEMMA NewestExists ==
    ASSUME NEW P \in SUBSET Event, P # {}
    PROVE  \E w \in P : \A v \in P : ~NewerVersion(v, w)
<1> DEFINE Above(w) == { v \in P : NewerVersion(v, w) }
           Counts == { Cardinality(Above(w)) : w \in P }
<1>1. IsFiniteSet(P)
  BY FS_Subset, EventAssumption
<1>2. ASSUME NEW w \in P
      PROVE  IsFiniteSet(Above(w)) /\ Cardinality(Above(w)) \in Nat
  <2>1. Above(w) \in SUBSET P
    OBVIOUS
  <2> HIDE DEF Above
  <2> QED
    BY <1>1, <2>1, FS_Subset, FS_CardinalityType
<1>3. Counts \subseteq Nat /\ Counts # {}
  BY <1>2
<1>4. PICK n \in Counts : \A m \in Counts : n <= m
  <2> HIDE DEF Counts
  <2> QED
    BY <1>3, LeastNat
<1>5. PICK w \in P : n = Cardinality(Above(w))
  OBVIOUS
<1>6. ASSUME NEW v \in P, NewerVersion(v, w)
      PROVE  FALSE
  <2>1. Above(v) \subseteq Above(w)
    BY <1>6, NewerOrder
  <2>2. v \in Above(w) /\ v \notin Above(v)
    BY <1>6, NewerOrder
  <2>3. Cardinality(Above(v)) \in Counts
    OBVIOUS
  <2> HIDE DEF Above, Counts
  <2>4. /\ Cardinality(Above(v)) <= Cardinality(Above(w))
        /\ Cardinality(Above(v)) # Cardinality(Above(w))
    BY <1>2, <2>1, <2>2, FS_Subset
  <2>5. Cardinality(Above(w)) <= Cardinality(Above(v))
    BY <1>4, <1>5, <2>3
  <2> QED
    BY <1>2, <2>4, <2>5
<1> QED
  BY <1>6

\* Above an event with a newer version in a set there is a newest one.
LEMMA NewestAbove ==
    ASSUME NEW P \in SUBSET Event, NEW x \in Event, NEW y \in P, NewerVersion(y, x)
    PROVE  \E w \in P : NewerVersion(w, x) /\ \A v \in P : ~NewerVersion(v, w)
<1> DEFINE Q == { v \in P : NewerVersion(v, x) }
<1>1. Q \in SUBSET Event /\ Q # {}
  OBVIOUS
<1>2. PICK w \in Q : \A v \in Q : ~NewerVersion(v, w)
  <2> HIDE DEF Q
  <2> QED
    BY <1>1, NewestExists
<1>3. \A v \in P : ~NewerVersion(v, w)
  BY <1>2, NewerOrder
<1> QED
  BY <1>3

\* A page that is stored loses an event only to a newer version of it.
LEMMA StoreAllKeeps ==
    ASSUME NEW S \in SUBSET Event, NEW E \in SUBSET Event, NEW x \in S \union E,
           \/ x \in S
           \/ /\ ~IsEphemeralKind(x.kind)
              /\ IsGroupMetadataKind(x.kind) => x.pubkey = RelayPubkey
    PROVE  x \in StoreAll(S, E) \/ \E y \in StoreAll(S, E) : NewerVersion(y, x)
<1> DEFINE all == S \union { e \in E : /\ ~IsEphemeralKind(e.kind)
                                       /\ IsGroupMetadataKind(e.kind) => e.pubkey = RelayPubkey }
<1>1. all \in SUBSET Event /\ x \in all /\ x \in Event
  OBVIOUS
<1>2. StoreAll(S, E) = { e \in all : ~ \E y \in Versions(all, e) : IsSupersededBy(y, e) }
  BY DEF StoreAll
<1> HIDE DEF all
<1>3. \A e, y \in all : y \in Versions(all, e) /\ IsSupersededBy(y, e) <=> NewerVersion(y, e)
  BY NewerMeans DEF Versions, SameAddress, HasAddress
<1>4. StoreAll(S, E) = { e \in all : \A y \in all : ~NewerVersion(y, e) }
  BY <1>2, <1>3 DEF Versions
<1>5. CASE \E y \in all : NewerVersion(y, x)
  BY <1>1, <1>4, <1>5, NewestAbove
<1>6. CASE ~ \E y \in all : NewerVersion(y, x)
  BY <1>1, <1>4, <1>6
<1> QED
  BY <1>5, <1>6
-----------------------------------------------------------------------------
(* What the walk owes.                                                     *)

\* y is still to come from a relay that is listed, or was left behind there.
ToCome(y) ==
    \E url \in DOMAIN relays :
        y \in Parsed(History[url]) /\ (Ahead(url, y) \/ Left(url, y))

\* x itself need not be fetched: it is settled, or a newer version is to come.
Safe(x) == Settled(x) \/ \E y \in Event : NewerVersion(y, x) /\ ToCome(y)

Fine(x) == Safe(x) \/ ToCome(x)

\* What a relay still owes, and the cursor must not pass.
Owed(url) ==
    { x \in Parsed(History[url]) : x.created_at <= SeedTime /\ ~Safe(x) /\ ~Left(url, x) }

\* What was left behind is not forgotten.
LeftGrows == parted \subseteq parted' /\ dropped \subseteq dropped'

CursorsInPast == \A url \in DOMAIN relays : relays[url].until <= SeedTime

\* A page, however old, holds what its relay owes from after the second of its
\* oldest event, and nothing but what the walk has or has yet to come to.
PageSound(url, page, eose) ==
    /\ \A x \in page : x.created_at <= SeedTime /\ (x \notin Malformed => Fine(x))
    /\ url # OwnUrl => url \in DOMAIN relays /\ page \subseteq History[url]
    /\ \A z \in page : \A x \in Owed(url) : z.created_at < x.created_at => x \in page
    /\ Exhausted(page, eose) => Owed(url) = {}

PagesSound ==
    \A i \in Invocation : job[i].phase = "fetched" =>
        PageSound(job[i].url, job[i].page, job[i].eose)

ExhaustedSound == \A url \in DOMAIN relays : relays[url].exhausted => Owed(url) = {}

DoneExhausted == status = "done" => \A url \in DOMAIN relays : relays[url].exhausted

\* NothingSkipped, in these words.
OwedAhead == \A url \in DOMAIN relays : \A x \in Owed(url) : Ahead(url, x)

WalkInv ==
    /\ TypeOK
    /\ CursorsInPast
    /\ OwedAhead
    /\ PagesSound
    /\ ExhaustedSound
    /\ DoneExhausted

\* NothingSkipped says that whatever a listed relay owes is ahead of its cursor.
LEMMA SkippedMeans ==
    ASSUME TypeOK
    PROVE  NothingSkipped <=> OwedAhead
<1>1. \A url \in DOMAIN relays : History[url] \subseteq Event
  BY BackfillAssumption DEF TypeOK
<1>2. ASSUME NEW x
      PROVE  Safe(x) <=> \/ Settled(x)
                         \/ \E other \in DOMAIN relays : \E y \in Parsed(History[other]) :
                              NewerVersion(y, x) /\ (Ahead(other, y) \/ Left(other, y))
  BY <1>1 DEF Safe, ToCome, Parsed
<1> QED
  BY <1>2 DEF NothingSkipped, OwedAhead, Owed

\* Whatever settles or is to supply an event does so for its older versions.
LEMMA SettledDown ==
    ASSUME NEW x \in Event, NEW y \in Event, NewerVersion(y, x), Settled(y)
    PROVE  Settled(x)
<1>1. x.pubkey = y.pubkey /\ x.kind = y.kind
  BY NewerMeans DEF SameAddress
<1>2. CASE y \in stored \/ y.id \in deleted
  BY <1>2 DEF Settled
<1>3. CASE \E z \in Event : NewerVersion(z, y) /\ (z \in stored \/ z.id \in deleted)
  BY <1>3, NewerOrder DEF Settled
<1> QED
  BY <1>1, <1>2, <1>3 DEF Settled

\* An older version of an event that needs no fetching needs none either.
LEMMA FineDown ==
    ASSUME NEW x \in Event, NEW y \in Event, NewerVersion(y, x), Fine(y)
    PROVE  Safe(x)
<1>1. CASE Settled(y)
  BY <1>1, SettledDown DEF Safe
<1>2. CASE \E z \in Event : NewerVersion(z, y) /\ ToCome(z)
  BY <1>2, NewerOrder DEF Safe
<1> QED
  BY <1>1, <1>2 DEF Fine, Safe

\* And so in the next state.
LEMMA FineDownNext ==
    ASSUME NEW x \in Event, NEW y \in Event, NewerVersion(y, x), Fine(y)'
    PROVE  Safe(x)'
<1>1. x.pubkey = y.pubkey /\ x.kind = y.kind
  BY NewerMeans DEF SameAddress
<1>2. CASE y \in stored' \/ y.id \in deleted'
  BY <1>2 DEF Settled, Safe
<1>3. CASE \E z \in Event : NewerVersion(z, y) /\ (z \in stored' \/ z.id \in deleted')
  BY <1>3, NewerOrder DEF Settled, Safe
<1>4. CASE ToCome(y)'
  BY <1>4 DEF Safe
<1>5. CASE \E z \in Event : NewerVersion(z, y) /\ ToCome(z)'
  BY <1>5, NewerOrder DEF Safe
<1> QED
  BY <1>1, <1>2, <1>3, <1>4, <1>5 DEF Fine, Safe, Settled

\* A fetched page's own events are of the history, and sound.
LEMMA PageType ==
    ASSUME TypeOK, PagesSound, NEW i \in Invocation, job[i].phase = "fetched"
    PROVE  /\ job[i].url \in Url /\ job[i].page \in SUBSET Event /\ job[i].eose \in BOOLEAN
           /\ PageSound(job[i].url, job[i].page, job[i].eose)
BY FetchedType DEF PagesSound

-----------------------------------------------------------------------------
(* Storing a page.                                                         *)

\* What settles an event in a table S, the tombstones being what they are.
SettledIn(S, x) ==
    \/ x \in S
    \/ x.id \in deleted
    \/ \E y \in Event : NewerVersion(y, x) /\ (y \in S \/ y.id \in deleted)
    \/ x.pubkey # Owner
    \/ IsEphemeralKind(x.kind)
    \/ IsGroupMetadataKind(x.kind) /\ x.pubkey # RelayPubkey

WantedOf(handled) == { x \in handled : Wanted(x) }

\* The events handled, and all that was settled before, are settled by storing
\* those of them that are wanted.
LEMMA StoringSettles ==
    ASSUME TypeOK, NEW handled \in SUBSET Event, NEW x \in Event,
           Settled(x) \/ x \in handled
    PROVE  SettledIn(StoreAll(stored, WantedOf(handled)), x)
<1> DEFINE before == StoreAll(stored, WantedOf(handled))
<1>1. stored \in SUBSET Event /\ WantedOf(handled) \in SUBSET Event
  BY DEF TypeOK, WantedOf
<1>2. before \subseteq Event
  BY <1>1, StoreAllAdds
<1>3. ASSUME NEW y \in stored
      PROVE  y \in before \/ \E z \in before : NewerVersion(z, y)
  BY <1>1, StoreAllKeeps
<1>4. ASSUME NEW y \in WantedOf(handled), ~IsEphemeralKind(y.kind),
             IsGroupMetadataKind(y.kind) => y.pubkey = RelayPubkey
      PROVE  y \in before \/ \E z \in before : NewerVersion(z, y)
  BY <1>1, <1>4, StoreAllKeeps
<1> SUFFICES SettledIn(before, x)
  OBVIOUS
<1> HIDE DEF before
<1>5. CASE x \in stored
  BY <1>2, <1>3, <1>5 DEF SettledIn
<1>6. ASSUME NEW y \in Event, NewerVersion(y, x), y \in stored
      PROVE  SettledIn(before, x)
  <2>1. CASE y \in before
    BY <1>6, <2>1 DEF SettledIn
  <2>2. ASSUME NEW z \in before, NewerVersion(z, y)
        PROVE  SettledIn(before, x)
    BY <1>2, <1>6, <2>2, NewerOrder DEF SettledIn
  <2> QED
    BY <1>3, <1>6, <2>1, <2>2
<1>7. CASE x \in WantedOf(handled)
  BY <1>2, <1>4, <1>7 DEF SettledIn
<1>8. CASE x \in handled /\ ~Wanted(x)
  BY <1>5, <1>8 DEF Wanted, SettledIn
<1>9. CASE Settled(x)
  BY <1>5, <1>6, <1>9 DEF Settled, SettledIn
<1> QED
  BY <1>7, <1>8, <1>9 DEF WantedOf

\* What applying a page comes to: some of it is handled, newest first, and of
\* the event it may fail on, the versions to be replaced may be lost.
Ingests(url, page, eose, handled, lost, failed) ==
    LET before == StoreAll(stored, WantedOf(handled))
    IN  /\ Record(url, page, eose, handled, failed)
        /\ NewestOf(handled, Parsed(page))
        /\ lost \subseteq Parsed(page)
        /\ \A b \in lost : b \notin stored /\ b \notin handled /\ Storable(before, b)
        /\ \A x \in before \ stored' : \E b \in lost : x \in Versions(before, b)
        /\ stored' \subseteq before
        /\ deleted' = deleted

\* Both ways a page is applied, to its end or up to a failure, come to Ingests.
LEMMA IngestShape ==
    ASSUME TypeOK, NEW i \in Invocation, IngestPage(i) \/ IngestFails(i)
    PROVE  /\ job[i].phase = "fetched"
           /\ Goto(i, Idle)
           /\ \E handled \in SUBSET job[i].page, lost \in SUBSET job[i].page,
                 failed \in BOOLEAN :
                Ingests(job[i].url, job[i].page, job[i].eose, handled, lost, failed)
<1>1. CASE IngestPage(i)
  <2>1. NewestOf(Parsed(job[i].page), Parsed(job[i].page))
    BY DEF NewestOf
  <2>2. Ingests(job[i].url, job[i].page, job[i].eose, Parsed(job[i].page), {}, FALSE)
    BY <1>1, <2>1 DEF IngestPage, Ingests, WantedOf
  <2>3. Parsed(job[i].page) \in SUBSET job[i].page /\ {} \in SUBSET job[i].page
    BY DEF Parsed
  <2> QED
    BY <1>1, <2>2, <2>3 DEF IngestPage
<1>2. CASE IngestFails(i)
  <2> DEFINE Fails(broken, handled) ==
        LET before == StoreAll(stored, WantedOf(handled))
        IN  /\ NewestOf(handled, Parsed(job[i].page))
            /\ Wanted(broken)
            /\ Storable(before, broken)
            /\ stored' \in {before, before \ Versions(before, broken)}
            /\ Record(job[i].url, job[i].page, job[i].eose, handled, TRUE)
  <2>0. PICK broken \in Parsed(job[i].page) :
          \E handled \in SUBSET (Parsed(job[i].page) \ {broken}) : Fails(broken, handled)
    BY <1>2 DEF IngestFails, WantedOf
  <2>1. PICK handled \in SUBSET (Parsed(job[i].page) \ {broken}) : Fails(broken, handled)
    BY <2>0
  <2>2. Ingests(job[i].url, job[i].page, job[i].eose, handled, {broken}, TRUE)
    BY <1>2, <2>1 DEF IngestFails, Ingests, Wanted
  <2>3. handled \in SUBSET job[i].page /\ {broken} \in SUBSET job[i].page
    BY DEF Parsed
  <2> QED
    BY <1>2, <2>2, <2>3 DEF IngestFails
<1> QED
  BY <1>1, <1>2

\* Nothing is unsettled by it but what a lost version of it will settle.
LEMMA SettledOrLost ==
    ASSUME TypeOK, NEW url, NEW page \in SUBSET Event, NEW eose, NEW failed,
           NEW handled \in SUBSET page, NEW lost \in SUBSET page,
           Ingests(url, page, eose, handled, lost, failed),
           NEW x \in Event, Settled(x) \/ x \in handled
    PROVE  Settled(x)' \/ \E b \in lost : NewerVersion(b, x)
<1> DEFINE before == StoreAll(stored, WantedOf(handled))
<1>1. SettledIn(before, x)
  BY StoringSettles
<1>2. before \subseteq stored \union handled
  BY StoreAllAdds DEF WantedOf
<1>3. before \subseteq Event
  BY <1>2 DEF TypeOK
<1>4. /\ \A b \in lost : b \notin stored /\ b \notin handled /\ Storable(before, b)
      /\ \A y \in before \ stored' : \E b \in lost : y \in Versions(before, b)
      /\ deleted' = deleted
  BY DEF Ingests
<1> HIDE DEF before
<1>5. ASSUME NEW y \in before, y \notin stored'
      PROVE  \E b \in lost : NewerVersion(b, y)
  <2>1. PICK b \in lost : y \in Versions(before, b)
    BY <1>4, <1>5
  <2>2. b \in Event /\ y \in Event /\ b # y
    BY <1>2, <1>3, <1>4
  <2>3. HasAddress(b) /\ SameAddress(y, b) /\ ~IsSupersededBy(y, b)
    BY <1>4, <2>1 DEF Versions, Storable
  <2> QED
    BY <2>2, <2>3, NewerTotal
<1>6. CASE x \in before
  BY <1>5, <1>6 DEF Settled
<1>7. ASSUME NEW y \in Event, NewerVersion(y, x), y \in before
      PROVE  Settled(x)' \/ \E b \in lost : NewerVersion(b, x)
  <2>1. CASE y \in stored'
    BY <1>7, <2>1 DEF Settled
  <2>2. CASE y \notin stored'
    BY <1>5, <1>7, <2>2, NewerOrder
  <2> QED
    BY <2>1, <2>2
<1> QED
  BY <1>1, <1>4, <1>6, <1>7 DEF SettledIn, Settled

Oldest(handled) == Min({ x.created_at : x \in handled })

\* A cursor falls only to just below the oldest event handled.
LEMMA CursorFalls ==
    ASSUME TypeOK, NEW url, NEW page \in SUBSET Event, NEW eose \in BOOLEAN,
           NEW failed \in BOOLEAN,
           NEW handled \in SUBSET page, Record(url, page, eose, handled, failed),
           NEW other \in DOMAIN relays
    PROVE  /\ DOMAIN relays' = DOMAIN relays
           /\ \/ relays'[other].until = relays[other].until
              \/ /\ other = url
                 /\ \E z \in handled :
                      /\ relays'[other].until = z.created_at - 1
                      /\ z.created_at \in Nat
                      /\ z.created_at = Oldest(handled)
<1> DEFINE times == { x.created_at : x \in handled }
<1>1. DOMAIN relays' = DOMAIN relays
  BY RecordType
<1>2. CASE other # url \/ url \notin DOMAIN relays
  BY <1>1, <1>2 DEF Record, TypeOK
<1>3. CASE other = url /\ url \in DOMAIN relays
  <2>1. relays'[other].until = Cursor(relays[other], handled, page)
    BY <1>3 DEF Record, TypeOK
  <2>2. CASE handled = {}
    BY <1>1, <2>1, <2>2 DEF Cursor
  <2>3. CASE handled # {}
    <3>1. times \subseteq Nat /\ times # {}
      BY <2>3, EventAssumption DEF EventFieldsOK
    <3>2. Min(times) \in times
      <4> HIDE DEF times
      <4> QED
        BY <3>1, MinNat
    <3>3. PICK z \in handled : Min(times) = z.created_at
      BY <3>2
    <3>4. relays'[other].until = z.created_at - 1
      BY <2>1, <2>3, <3>3 DEF Cursor
    <3>5. z.created_at = Oldest(handled)
      BY <3>3 DEF Oldest
    <3> QED
      BY <1>1, <1>3, <3>1, <3>4, <3>5
  <2> QED
    BY <2>2, <2>3
<1> QED
  BY <1>2, <1>3

\* Whatever was ahead of a cursor still is, is left behind, or needs no fetching.
LEMMA StillAhead ==
    ASSUME WalkInv, NEW url \in Url, NEW page \in SUBSET Event, NEW eose \in BOOLEAN,
           NEW failed \in BOOLEAN, NEW handled \in SUBSET page, NEW lost \in SUBSET page,
           PageSound(url, page, eose), Ingests(url, page, eose, handled, lost, failed),
           NEW other \in DOMAIN relays, NEW x \in Parsed(History[other]), Ahead(other, x)
    PROVE  /\ other \in DOMAIN relays'
           /\ Ahead(other, x)' \/ Left(other, x)' \/ Safe(x) \/ x \in handled
<1>1. other \in Url /\ x \in Event /\ x.created_at \in Nat
  BY BackfillAssumption, EventAssumption DEF WalkInv, TypeOK, EventFieldsOK, Parsed
<1>2. x.created_at <= SeedTime
  BY <1>1, BackfillAssumption DEF WalkInv, TypeOK, Row, CursorsInPast, Ahead
<1>3. /\ DOMAIN relays' = DOMAIN relays
      /\ \/ relays'[other].until = relays[other].until
         \/ /\ other = url
            /\ \E z \in handled :
                 /\ relays'[other].until = z.created_at - 1
                 /\ z.created_at \in Nat
                 /\ z.created_at = Oldest(handled)
  <2>1. TypeOK /\ Record(url, page, eose, handled, failed)
    BY DEF WalkInv, Ingests
  <2>2. page \in SUBSET Event /\ handled \in SUBSET page /\ other \in DOMAIN relays
    OBVIOUS
  <2> QED
    BY <2>1, <2>2, CursorFalls
<1>4. ASSUME other = url, NEW z \in handled, z.created_at \in Nat,
             relays'[other].until = z.created_at - 1,
             z.created_at = Oldest(handled),
             ~Left(other, x)', ~Safe(x)
      PROVE  Ahead(other, x)' \/ x \in handled
  <2>1. CASE x.created_at <= z.created_at - 1
    BY <1>4, <2>1 DEF Ahead
  <2>2. CASE z.created_at < x.created_at
    <3>1. x \in Owed(url)
      <4>1. ~Left(other, x)
        BY <1>4 DEF Ingests, Record, Left
      <4> QED
        BY <1>2, <1>4, <4>1 DEF Owed
    <3>2. x \in Parsed(page)
      BY <2>2, <3>1 DEF PageSound, Parsed
    <3>3. CASE x \notin handled
      <4>1. z.created_at >= x.created_at
        BY <3>2, <3>3 DEF Ingests, NewestOf
      <4> QED
        BY <1>1, <1>4, <2>2, <4>1
    <3> QED
      BY <3>3
  <2>3. CASE z.created_at = x.created_at /\ x \notin handled
    <3>1. x \in LeftBehind(url, handled)
      BY <1>4, <2>3 DEF LeftBehind, Oldest
    <3>2. Left(url, x)'
      BY <3>1 DEF Ingests, Record, Left
    <3> QED
      BY <1>4, <3>2
  <2> QED
    BY <1>1, <1>4, <2>1, <2>2, <2>3
<1> QED
  BY <1>3, <1>4 DEF Ahead

\* No event comes to be in want of fetching with nobody to supply it.
LEMMA IngestFine ==
    ASSUME WalkInv, NEW url \in Url, NEW page \in SUBSET Event, NEW eose \in BOOLEAN,
           NEW failed \in BOOLEAN, NEW handled \in SUBSET page, NEW lost \in SUBSET page,
           PageSound(url, page, eose), Ingests(url, page, eose, handled, lost, failed),
           NEW x \in Event, Fine(x)
    PROVE  Fine(x)'
<1> DEFINE Stranded == { v \in Event : Fine(v) /\ ~Fine(v)' }
<1> SUFFICES ASSUME Stranded # {} PROVE FALSE
  OBVIOUS
<1>1. PICK w \in Stranded : \A v \in Stranded : ~NewerVersion(v, w)
  BY NewestExists
<1>2. ASSUME NEW v \in Event, NewerVersion(v, w), Fine(v)
      PROVE  FALSE
  <2>1. Fine(v)'
    BY <1>1, <1>2
  <2>2. Safe(w)'
    BY <1>2, <2>1, FineDownNext
  <2> QED
    BY <2>2 DEF Fine
<1>3. CASE Settled(w) \/ w \in handled
  <2>1. CASE Settled(w)'
    BY <2>1 DEF Fine, Safe
  <2>2. ASSUME NEW b \in lost, NewerVersion(b, w)
        PROVE  FALSE
    BY <1>2, <2>2 DEF PageSound, Ingests, Parsed
  <2> QED
    BY <1>3, <2>1, <2>2, SettledOrLost DEF WalkInv
<1>4. CASE Safe(w)
  BY <1>2, <1>3, <1>4 DEF Safe, Fine
<1>5. CASE ToCome(w)
  <2>1. PICK other \in DOMAIN relays :
          w \in Parsed(History[other]) /\ (Ahead(other, w) \/ Left(other, w))
    BY <1>5 DEF ToCome
  <2>2. other \in DOMAIN relays'
    <3>1. TypeOK /\ Record(url, page, eose, handled, failed)
      BY DEF WalkInv, Ingests
    <3> QED
      BY <3>1, RecordType
  <2>3. CASE Left(other, w) \/ Left(other, w)' \/ Ahead(other, w)'
    <3>1. Left(other, w) => Left(other, w)'
      BY DEF Ingests, Record, Left
    <3> QED
      BY <2>1, <2>2, <2>3, <3>1 DEF Fine, ToCome
  <2>4. CASE Ahead(other, w)
    BY <1>3, <1>4, <2>1, <2>3, <2>4, StillAhead
  <2> QED
    BY <2>1, <2>3, <2>4
<1> QED
  BY <1>4, <1>5 DEF Fine

\* What needs no fetching still needs none, and what was handled needs none now.
LEMMA IngestSafe ==
    ASSUME WalkInv, NEW url \in Url, NEW page \in SUBSET Event, NEW eose \in BOOLEAN,
           NEW failed \in BOOLEAN, NEW handled \in SUBSET page, NEW lost \in SUBSET page,
           PageSound(url, page, eose), Ingests(url, page, eose, handled, lost, failed),
           NEW x \in Event, Safe(x) \/ x \in handled
    PROVE  Safe(x)'
<1>1. ASSUME NEW v \in Event, NewerVersion(v, x), Fine(v)
      PROVE  Safe(x)'
  BY <1>1, IngestFine, FineDownNext
<1>2. CASE Settled(x) \/ x \in handled
  <2>1. CASE Settled(x)'
    BY <2>1 DEF Safe
  <2>2. ASSUME NEW b \in lost, NewerVersion(b, x)
        PROVE  Safe(x)'
    BY <1>1, <2>2 DEF PageSound, Ingests, Parsed
  <2> QED
    BY <1>2, <2>1, <2>2, SettledOrLost DEF WalkInv
<1> QED
  BY <1>1, <1>2 DEF Safe, Fine

-----------------------------------------------------------------------------
(* The other steps.                                                        *)

\* What a relay owes only shrinks while safe events stay safe.
LEMMA OwedShrinks ==
    ASSUME \A x \in Event : Safe(x) => Safe(x)', LeftGrows, NEW url \in Url
    PROVE  Owed(url)' \subseteq Owed(url)
<1>1. Parsed(History[url]) \subseteq Event
  BY BackfillAssumption DEF Parsed
<1> QED
  BY <1>1 DEF Owed, LeftGrows, Left

\* Then a page in flight stays sound, whatever else is stored meanwhile.
LEMMA PageStaysSound ==
    ASSUME \A x \in Event : (Safe(x) => Safe(x)') /\ (Fine(x) => Fine(x)'), LeftGrows,
           \A u \in DOMAIN relays : u # OwnUrl => u \in DOMAIN relays',
           NEW url \in Url, NEW page \in SUBSET Event, NEW eose, PageSound(url, page, eose)
    PROVE  PageSound(url, page, eose)'
<1>1. Owed(url)' \subseteq Owed(url)
  BY OwedShrinks
<1> QED
  BY <1>1 DEF PageSound, Exhausted

\* So do all pages in flight.
LEMMA PagesStaySound ==
    ASSUME TypeOK, PagesSound, LeftGrows,
           \A x \in Event : (Safe(x) => Safe(x)') /\ (Fine(x) => Fine(x)'),
           \A u \in DOMAIN relays : u # OwnUrl => u \in DOMAIN relays',
           \A j \in Invocation : job'[j].phase = "fetched" => job'[j] = job[j]
    PROVE  PagesSound'
<1> SUFFICES ASSUME NEW j \in Invocation, job'[j].phase = "fetched"
             PROVE  PageSound(job[j].url, job[j].page, job[j].eose)'
  BY DEF PagesSound
<1>1. job'[j] = job[j] /\ job[j].phase = "fetched"
  OBVIOUS
<1>2. PICK url \in Url, page \in SUBSET Event, eose \in BOOLEAN :
        /\ job[j].url = url /\ job[j].page = page /\ job[j].eose = eose
        /\ PageSound(url, page, eose)
  BY <1>1, PageType
<1>3. PageSound(url, page, eose)'
  BY <1>2, PageStaysSound
<1> QED
  BY <1>1, <1>2, <1>3

\* A step that drops no event without a tombstone, and no row but this relay's
\* own, leaves what was safe safe.
LEMMA QuietSafe ==
    ASSUME TypeOK, LeftGrows,
           \A y \in stored : y \in stored' \/ y.id \in deleted',
           deleted \subseteq deleted',
           \A url \in DOMAIN relays : url # OwnUrl =>
             url \in DOMAIN relays' /\ relays'[url].until = relays[url].until
    PROVE  \A x \in Event : (Safe(x) => Safe(x)') /\ (Fine(x) => Fine(x)')
<1>1. ASSUME NEW x \in Event, Settled(x)
      PROVE  Settled(x)'
  BY <1>1 DEF Settled
<1>2. ASSUME NEW x \in Event, ToCome(x)
      PROVE  ToCome(x)'
  BY <1>2, BackfillAssumption DEF ToCome, Ahead, Left, LeftGrows, Parsed
<1> QED
  BY <1>1, <1>2 DEF Safe, Fine

\* What a step that neither applies nor fetches a page leaves of the invariant.
LEMMA QuietStep ==
    ASSUME WalkInv, TypeOK', DoneExhausted', LeftGrows,
           \A y \in stored : y \in stored' \/ y.id \in deleted',
           deleted \subseteq deleted',
           \A url \in DOMAIN relays : url # OwnUrl => url \in DOMAIN relays',
           \A url \in DOMAIN relays' :
             /\ url \in DOMAIN relays
             /\ relays'[url].until = relays[url].until
             /\ relays'[url].exhausted => relays[url].exhausted,
           \A j \in Invocation : job'[j].phase = "fetched" => job'[j] = job[j]
    PROVE  WalkInv'
<1>1. \A x \in Event : (Safe(x) => Safe(x)') /\ (Fine(x) => Fine(x)')
  BY QuietSafe DEF WalkInv
<1>2. ASSUME NEW url \in DOMAIN relays'
      PROVE  Owed(url)' \subseteq Owed(url)
  BY <1>1, OwedShrinks, BackfillAssumption DEF WalkInv, TypeOK
<1>3. PagesSound'
  BY <1>1, PagesStaySound DEF WalkInv
<1>4. CursorsInPast'
  BY DEF WalkInv, CursorsInPast
<1>5. OwedAhead'
  BY <1>2 DEF WalkInv, OwedAhead, Ahead
<1>6. ExhaustedSound'
  BY <1>2 DEF WalkInv, ExhaustedSound
<1> QED
  BY <1>3, <1>4, <1>5, <1>6 DEF WalkInv

\* The relays are listed when none is, each to be walked from the present.
LEMMA SeedStep ==
    ASSUME WalkInv, TypeOK', NEW i \in Invocation, SeedBackfillRelays(i)
    PROVE  WalkInv'
<1>1. \A j \in Invocation : job'[j].phase = "fetched" => job'[j] = job[j]
  BY DEF SeedBackfillRelays, Goto, Idle, WalkInv, TypeOK
<1>2. CASE UNCHANGED <<relays, status>>
  <2>1. DoneExhausted'
    BY <1>2 DEF WalkInv, DoneExhausted
  <2> QED
    BY <1>1, <1>2, <2>1, QuietStep DEF SeedBackfillRelays, left, LeftGrows
<1>3. CASE ~UNCHANGED <<relays, status>>
  <2>1. PICK listed \in SUBSET WriteRelays :
          /\ DOMAIN relays = {}
          /\ relays' = [url \in listed |-> [until |-> SeedTime, exhausted |-> FALSE]]
          /\ status' = IF listed = {} THEN "done" ELSE "running"
    BY <1>3 DEF SeedBackfillRelays
  <2>2. UNCHANGED <<stored, deleted>> /\ LeftGrows
    BY DEF SeedBackfillRelays, left, LeftGrows
  <2>3. \A x \in Event : (Safe(x) => Safe(x)') /\ (Fine(x) => Fine(x)')
    BY <2>1, <2>2, QuietSafe DEF WalkInv
  <2>4. PagesSound'
    BY <1>1, <2>1, <2>2, <2>3, PagesStaySound DEF WalkInv
  <2>5. CursorsInPast' /\ OwedAhead' /\ ExhaustedSound' /\ DoneExhausted'
    BY <2>1, BackfillAssumption
    DEF CursorsInPast, OwedAhead, Owed, Ahead, ExhaustedSound, DoneExhausted
  <2> QED
    BY <2>4, <2>5 DEF WalkInv
<1> QED
  BY <1>2, <1>3

\* runCron keeps every row and cursor, but for this relay's own row.
LEMMA CronStep ==
    ASSUME WalkInv, TypeOK', NEW i \in Invocation, RunCron(i)
    PROVE  WalkInv'
<1> DEFINE rows == IF resetApplied THEN relays ELSE Unflagged(relays)
<1>1. /\ DOMAIN rows = DOMAIN relays
      /\ \A url \in DOMAIN relays : /\ rows[url].until = relays[url].until
                                    /\ rows[url].exhausted => relays[url].exhausted
  BY DEF Unflagged, WalkInv, TypeOK, Row
<1>2. \/ relays' = rows
      \/ relays' = Without(rows, OwnUrl)
  BY DEF RunCron
<1>3. /\ \A url \in DOMAIN relays : url # OwnUrl => url \in DOMAIN relays'
      /\ \A url \in DOMAIN relays' :
           /\ url \in DOMAIN relays
           /\ relays'[url].until = relays[url].until
           /\ relays'[url].exhausted => relays[url].exhausted
           /\ relays'[url].exhausted = rows[url].exhausted
  <2> HIDE DEF rows
  <2> QED
    BY <1>1, <1>2 DEF Without
<1>4. DoneExhausted'
  <2>1. CASE status' = "done" /\ DOMAIN rows = {OwnUrl} /\ relays' = Without(rows, OwnUrl)
    BY <2>1 DEF Without, DoneExhausted
  <2>2. CASE status' = "done" /\ status = "done" /\ resetApplied
    BY <1>3, <2>2 DEF DoneExhausted, WalkInv
  <2>3. status' = "done" =>
          \/ DOMAIN rows = {OwnUrl} /\ relays' = Without(rows, OwnUrl)
          \/ status = "done" /\ resetApplied
    BY DEF RunCron
  <2> QED
    BY <2>1, <2>2, <2>3 DEF DoneExhausted
<1>5. \A j \in Invocation : job'[j].phase = "fetched" => job'[j] = job[j]
  BY DEF RunCron, Goto, Started, WalkInv, TypeOK
<1>6. UNCHANGED <<stored, deleted>> /\ LeftGrows
  BY DEF RunCron, left, LeftGrows
<1> QED
  BY <1>3, <1>4, <1>5, <1>6, QuietStep

\* A page that is fetched is sound: it holds the newest of what is at or below
\* the cursor, and nothing is owed from above it.
LEMMA FetchedSound ==
    ASSUME WalkInv, NEW url \in DOMAIN relays, NEW page, NEW eose,
           page \subseteq Matching(url, relays[url].until),
           NewestOf(page, Matching(url, relays[url].until)),
           eose => Cardinality(page) =
                     Min({PageSize[url], Cardinality(Matching(url, relays[url].until))})
    PROVE  PageSound(url, page, eose)
<1> DEFINE all == Matching(url, relays[url].until)
<1>1. /\ url \in Url /\ all \subseteq Event
      /\ relays[url].until \in Int /\ relays[url].until <= SeedTime
  BY HeldType, BackfillAssumption DEF WalkInv, TypeOK, Row, CursorsInPast, Matching
<1>2. \A x \in all : x.created_at \in Nat /\ x.created_at <= SeedTime
  BY <1>1, EventAssumption, BackfillAssumption DEF EventFieldsOK, Matching
<1>3. url # OwnUrl => all \subseteq History[url]
  BY DEF Matching, Held
<1>4. ASSUME NEW x \in all, x \notin Malformed
      PROVE  Fine(x)
  <2>1. CASE url = OwnUrl
    BY <1>4, <2>1 DEF Matching, Held, Fine, Safe, Settled
  <2>2. CASE url # OwnUrl
    BY <1>3, <1>4, <2>2 DEF Matching, Fine, ToCome, Ahead, Parsed
  <2> QED
    BY <2>1, <2>2
<1>5. ASSUME NEW x \in Owed(url)
      PROVE  x \in all
  BY <1>5, BackfillAssumption DEF Owed, WalkInv, OwedAhead, Ahead, Matching, Held, Parsed
<1>6. ASSUME NEW z \in page, NEW x \in Owed(url),
             z.created_at < x.created_at, x \notin page
      PROVE  FALSE
  <2>1. x \in all /\ z \in all /\ z.created_at >= x.created_at
    BY <1>5, <1>6 DEF NewestOf
  <2> QED
    BY <1>2, <1>6, <2>1
<1>7. ASSUME eose, page = {}
      PROVE  all = {}
  <2>1. IsFiniteSet(all)
    BY <1>1, FS_Subset, EventAssumption
  <2> HIDE DEF all
  <2>2. Cardinality(all) \in Nat /\ Cardinality(page) = 0
    BY <1>7, <2>1, FS_CardinalityType, FS_EmptySet
  <2> DEFINE size == PageSize[url]
  <2>3. size \in Nat \ {0}
    BY <1>1, BackfillAssumption
  <2>5. Min({size, Cardinality(all)}) = 0
    BY <1>7, <2>2 DEF all
  <2> HIDE DEF size
  <2>4. Min({size, Cardinality(all)}) \in {size, Cardinality(all)}
    <3>1. {size, Cardinality(all)} \subseteq Nat
      BY <2>2, <2>3
    <3> QED
      BY <3>1, MinNat
  <2>6. Cardinality(all) = 0
    BY <2>3, <2>4, <2>5
  <2> QED
    BY <2>1, <2>6, FS_EmptySet
<1>8. Exhausted(page, eose) => Owed(url) = {}
  BY <1>5, <1>7 DEF Exhausted
<1> HIDE DEF all
<1>9. \A x \in page : x.created_at <= SeedTime /\ (x \notin Malformed => Fine(x))
  BY <1>2, <1>4 DEF all
<1>10. url # OwnUrl => url \in DOMAIN relays /\ page \subseteq History[url]
  BY <1>3 DEF all
<1> QED
  BY <1>6, <1>8, <1>9, <1>10 DEF PageSound

\* A page is sound when it is fetched: nothing else changes then.
LEMMA FetchStep ==
    ASSUME WalkInv, TypeOK', NEW i \in Invocation, FetchPage(i)
    PROVE  WalkInv'
<1>1. PICK url \in Url : url = Min(Unfinished) /\ url \in DOMAIN relays
  BY UnfinishedType, BackfillAssumption DEF FetchPage, WalkInv, TypeOK
<1> DEFINE all == Matching(url, relays[url].until)
<1>2. PICK page \in SUBSET all, eose \in BOOLEAN :
        /\ NewestOf(page, all)
        /\ eose => Cardinality(page) = Min({PageSize[url], Cardinality(all)})
        /\ Goto(i, Fetched(url, page, eose))
  BY <1>1 DEF FetchPage
<1>3. PageSound(url, page, eose)
  BY <1>1, <1>2, FetchedSound
<1>4. UNCHANGED <<stored, deleted, status, relays>> /\ LeftGrows
  BY DEF FetchPage, meta, left, LeftGrows
<1>5. \A x \in Event : (Safe(x) => Safe(x)') /\ (Fine(x) => Fine(x)')
  BY <1>4, QuietSafe DEF WalkInv
<1>6. page \in SUBSET Event
  BY <1>1, <1>2, HeldType DEF Matching, WalkInv
<1>7. \A u \in Url, p \in SUBSET Event, e \in BOOLEAN :
        PageSound(u, p, e) => PageSound(u, p, e)'
  <2>1. \A u \in DOMAIN relays : u # OwnUrl => u \in DOMAIN relays'
    BY <1>4
  <2> QED
    BY <1>4, <1>5, <2>1, PageStaysSound
<1>8. PagesSound'
  <2> SUFFICES ASSUME NEW j \in Invocation, job'[j].phase = "fetched"
               PROVE  PageSound(job[j].url, job[j].page, job[j].eose)'
    BY DEF PagesSound
  <2>1. CASE j = i
    <3>1. job'[j] = Fetched(url, page, eose)
      BY <1>2, <2>1 DEF Goto, WalkInv, TypeOK
    <3>2. job'[j].url = url /\ job'[j].page = page /\ job'[j].eose = eose
      BY <3>1 DEF Fetched
    <3>3. PageSound(url, page, eose)'
      BY <1>3, <1>6, <1>7
    <3> QED
      BY <3>2, <3>3
  <2>2. CASE j # i
    <3>1. job'[j] = job[j] /\ job[j].phase = "fetched"
      BY <1>2, <2>2 DEF Goto, WalkInv, TypeOK
    <3>2. PICK u \in Url, p \in SUBSET Event, e \in BOOLEAN :
            /\ job[j].url = u /\ job[j].page = p /\ job[j].eose = e
            /\ PageSound(u, p, e)
      BY <3>1, PageType DEF WalkInv
    <3>3. PageSound(u, p, e)'
      BY <1>7, <3>2
    <3> QED
      BY <3>1, <3>2, <3>3
  <2> QED
    BY <2>1, <2>2
<1>9. \A u \in DOMAIN relays : Owed(u)' \subseteq Owed(u)
  BY <1>4, <1>5, OwedShrinks, BackfillAssumption DEF WalkInv, TypeOK
<1> QED
  BY <1>4, <1>8, <1>9
  DEF WalkInv, CursorsInPast, OwedAhead, Ahead, ExhaustedSound, DoneExhausted

\* A page, applied in whole or in part and however late, passes nothing over.
LEMMA IngestStep ==
    ASSUME WalkInv, TypeOK', NEW i \in Invocation, IngestPage(i) \/ IngestFails(i)
    PROVE  WalkInv'
<1>1. job[i].phase = "fetched" /\ Goto(i, Idle)
  BY IngestShape DEF WalkInv
<1>2. PICK url \in Url, page \in SUBSET Event, eose \in BOOLEAN :
        /\ job[i].url = url /\ job[i].page = page /\ job[i].eose = eose
        /\ PageSound(url, page, eose)
  BY <1>1, PageType DEF WalkInv
<1>3. PICK handled \in SUBSET page, lost \in SUBSET page, failed \in BOOLEAN :
        Ingests(url, page, eose, handled, lost, failed)
  BY <1>2, IngestShape DEF WalkInv
<1>4. \A x \in Event : (Safe(x) => Safe(x)') /\ (Fine(x) => Fine(x)')
  <2> TAKE x \in Event
  <2>1. PageSound(url, page, eose)
    BY <1>2
  <2>2. Ingests(url, page, eose, handled, lost, failed)
    BY <1>3
  <2>3. ASSUME Safe(x) PROVE Safe(x)'
    BY <2>1, <2>2, <2>3, IngestSafe
  <2>4. ASSUME Fine(x) PROVE Fine(x)'
    BY <2>1, <2>2, <2>4, IngestFine
  <2> QED
    BY <2>3, <2>4
<1>5. TypeOK /\ Record(url, page, eose, handled, failed) /\ LeftGrows
  BY <1>3 DEF WalkInv, Ingests, Record, LeftGrows
<1>6. DOMAIN relays' = DOMAIN relays
  BY <1>5, RecordType
<1>7. \A u \in DOMAIN relays : u \in Url /\ Owed(u)' \subseteq Owed(u)
  BY <1>4, <1>5, OwedShrinks, BackfillAssumption DEF WalkInv, TypeOK
<1>8. PagesSound'
  <2>1. \A j \in Invocation : job'[j].phase = "fetched" => job'[j] = job[j]
    BY <1>1 DEF Goto, Idle, WalkInv, TypeOK
  <2> QED
    BY <1>4, <1>5, <1>6, <2>1, PagesStaySound DEF WalkInv
<1>9. CursorsInPast'
  <2> SUFFICES ASSUME NEW other \in DOMAIN relays
               PROVE  relays'[other].until <= SeedTime
    BY <1>6 DEF CursorsInPast
  <2>1. CASE relays'[other].until = relays[other].until
    BY <2>1 DEF WalkInv, CursorsInPast
  <2>2. ASSUME NEW z \in handled, z.created_at \in Nat,
               relays'[other].until = z.created_at - 1
        PROVE  relays'[other].until <= SeedTime
    <3>1. z.created_at <= SeedTime
      BY <1>2 DEF PageSound
    <3> QED
      BY <2>2, <3>1, BackfillAssumption
  <2>3. /\ DOMAIN relays' = DOMAIN relays
        /\ \/ relays'[other].until = relays[other].until
           \/ /\ other = url
              /\ \E z \in handled :
                   /\ relays'[other].until = z.created_at - 1
                   /\ z.created_at \in Nat
    BY <1>5, CursorFalls
  <2> QED
    BY <2>1, <2>2, <2>3
<1>10. OwedAhead'
  <2> SUFFICES ASSUME NEW other \in DOMAIN relays, NEW x \in Owed(other)'
               PROVE  Ahead(other, x)'
    BY <1>6 DEF OwedAhead
  <2>1. /\ x \in Owed(other) /\ x \in Parsed(History[other]) /\ x \in Event
        /\ ~Safe(x)' /\ ~Left(other, x)'
    BY <1>7, BackfillAssumption DEF Owed, Parsed
  <2>2. Ahead(other, x)
    BY <2>1 DEF WalkInv, OwedAhead
  <2>3. Ahead(other, x)' \/ Left(other, x)' \/ Safe(x) \/ x \in handled
    BY <1>2, <1>3, <2>1, <2>2, StillAhead
  <2>4. ~(Safe(x) \/ x \in handled)
    <3>1. PageSound(url, page, eose)
      BY <1>2
    <3>2. Ingests(url, page, eose, handled, lost, failed)
      BY <1>3
    <3>3. ASSUME Safe(x) \/ x \in handled PROVE Safe(x)'
      BY <2>1, <3>1, <3>2, <3>3, IngestSafe
    <3> QED
      BY <2>1, <3>3
  <2> QED
    BY <2>1, <2>3, <2>4
<1>11. ExhaustedSound'
  <2> SUFFICES ASSUME NEW other \in DOMAIN relays, relays'[other].exhausted
               PROVE  Owed(other) = {}
    BY <1>6, <1>7 DEF ExhaustedSound
  <2>1. CASE other = url
    <3>1. relays'[url].exhausted = (~failed /\ Exhausted(page, eose))
      BY <1>5, <2>1 DEF Record, TypeOK
    <3> QED
      BY <1>2, <2>1, <3>1 DEF PageSound
  <2>2. CASE other # url
    <3>1. relays'[other] = relays[other]
      BY <1>5, <2>2 DEF Record, TypeOK
    <3> QED
      BY <3>1 DEF WalkInv, ExhaustedSound
  <2> QED
    BY <2>1, <2>2
<1>12. DoneExhausted'
  BY <1>5 DEF Record, NextStatus, DoneExhausted
<1> QED
  BY <1>8, <1>9, <1>10, <1>11, <1>12 DEF WalkInv

-----------------------------------------------------------------------------
(* The walk.                                                               *)

\* WalkInv is inductive: every step of a tick, and everything else, preserves it.
LEMMA WalkInvariant == Spec => []WalkInv
<1>1. Init => WalkInv
  <2> SUFFICES ASSUME Init PROVE WalkInv
    OBVIOUS
  <2>1. TypeOK
    BY InitType
  <2>2. DOMAIN relays = {}
    BY DEF Init
  <2>3. PagesSound
    BY DEF Init, Idle, PagesSound
  <2>4. DoneExhausted
    BY DEF Init, DoneExhausted
  <2> QED
    BY <2>1, <2>2, <2>3, <2>4 DEF WalkInv, CursorsInPast, OwedAhead, ExhaustedSound
<1>2. ASSUME WalkInv, TypeOK', [Next]_vars PROVE WalkInv'
  <2> USE <1>2
  <2>1. ASSUME NEW i \in Invocation, Tick(i) PROVE WalkInv'
    <3>1. CASE RunCronThrows(i) \/ NothingToDo(i) \/ BeginDiscovery(i) \/ LookupFails(i)
               \/ DiscardPage(i)
      <4>1. \A j \in Invocation : job'[j].phase = "fetched" => job'[j] = job[j]
        BY <3>1 DEF RunCronThrows, NothingToDo, BeginDiscovery, LookupFails, DiscardPage,
                    Goto, Idle, Started, Discovering, WalkInv, TypeOK
      <4>2. UNCHANGED <<stored, deleted, status, relays>> /\ LeftGrows
        BY <3>1 DEF RunCronThrows, NothingToDo, BeginDiscovery, LookupFails, DiscardPage,
                    meta, left, LeftGrows
      <4>3. DoneExhausted'
        BY <4>2 DEF WalkInv, DoneExhausted
      <4> QED
        BY <4>1, <4>2, <4>3, QuietStep
    <3> QED
      BY <2>1, <3>1, CronStep, SeedStep, FetchStep, IngestStep DEF Tick
  <2>2. CASE ~ \E i \in Invocation : Tick(i)
    <3>1. UNCHANGED <<status, relays, job>> /\ LeftGrows
      BY <2>2 DEF Next, LearnHost, Delete, SpendBudget, NewDay, vars, meta, left, LeftGrows
    <3>2. /\ \A y \in stored : y \in stored' \/ y.id \in deleted'
          /\ deleted \subseteq deleted'
      BY <2>2 DEF Next, LearnHost, Delete, SpendBudget, NewDay, vars
    <3>3. DoneExhausted'
      BY <3>1 DEF WalkInv, DoneExhausted
    <3> QED
      BY <3>1, <3>2, <3>3, QuietStep
  <2> QED
    BY <2>1, <2>2
<1> QED
  BY <1>1, <1>2, TypeCorrect, PTL DEF Spec

\* THEOREM: the walk passes nothing over. Whatever page timed out, failed half
\* way, was thrown away or was applied long after its cursor had moved, an event
\* of a listed relay that the cursor has passed is settled, has a newer version
\* still to come, or is of the one second that a page's end or a throw divided as
\* the cursor fell below it.
THEOREM SkippedTheorem == Spec => []NothingSkipped
<1>1. WalkInv => NothingSkipped
  BY SkippedMeans DEF WalkInv
<1> QED
  BY <1>1, WalkInvariant, PTL

\* THEOREM: "done" is the truth, two invocations overlapping or not: no relay
\* that is listed owes anything but such rests of a second.
THEOREM DoneTheorem == Spec => []DoneMeansImported
<1>1. ASSUME WalkInv PROVE DoneMeansImported
  <2> SUFFICES ASSUME status = "done",
                      NEW url \in DOMAIN relays, NEW x \in Parsed(History[url]),
                      x.created_at <= SeedTime, ~Settled(x), ~Left(url, x)
               PROVE  \E other \in DOMAIN relays : \E y \in Parsed(History[other]) :
                        NewerVersion(y, x) /\ Left(other, y)
    BY DEF DoneMeansImported
  <2> USE <1>1
  <2>1. \A u \in DOMAIN relays :
          u \in Url /\ Parsed(History[u]) \subseteq Event /\ Owed(u) = {}
    BY BackfillAssumption DEF Parsed, WalkInv, TypeOK, DoneExhausted, ExhaustedSound
  <2>2. Safe(x)
    BY <2>1 DEF Owed
  <2> DEFINE Supply == { y \in Event : ToCome(y) }
  <2>3. PICK y \in Supply : NewerVersion(y, x)
    BY <2>2 DEF Safe
  <2>4. PICK w \in Supply : NewerVersion(w, x) /\ \A v \in Supply : ~NewerVersion(v, w)
    <3>1. Supply \in SUBSET Event /\ x \in Event
      BY <2>1
    <3> HIDE DEF Supply
    <3> QED
      BY <2>3, <3>1, NewestAbove
  <2>5. PICK other \in DOMAIN relays :
          w \in Parsed(History[other]) /\ (Ahead(other, w) \/ Left(other, w))
    BY <2>4 DEF ToCome
  <2>6. CASE ~Left(other, w)
    <3>1. w.created_at <= SeedTime
      BY <2>1, <2>5, <2>6, BackfillAssumption, EventAssumption
      DEF Ahead, WalkInv, CursorsInPast, TypeOK, Row, EventFieldsOK
    <3>2. Safe(w)
      BY <2>1, <2>5, <2>6, <3>1 DEF Owed
    <3>3. Settled(w)
      BY <2>4, <3>2 DEF Safe
    <3> QED
      BY <2>1, <2>4, <3>3, SettledDown
  <2> QED
    BY <2>4, <2>5, <2>6
<1> QED
  BY <1>1, WalkInvariant, PTL
=============================================================================
