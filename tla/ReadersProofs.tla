---------------------------- MODULE ReadersProofs ----------------------------
(***************************************************************************)
(* Proofs about Readers: the two gates agree, and an answer, cached or     *)
(* not, is the newest of what its reader may see.                          *)
(***************************************************************************)
EXTENDS Readers, FiniteSetTheorems, WellFoundedInduction, TLAPS

-----------------------------------------------------------------------------
(* In place of induction: of the numbers for which a statement fails, the  *)
(* least.                                                                  *)

\* A set of naturals with a member has a least one.
LEMMA LeastNat ==
    ASSUME NEW S, S \subseteq Nat, S # {}
    PROVE  \E x \in S : \A y \in S : x <= y
<1> DEFINE less == { s \in Nat \X Nat : s[1] < s[2] }
<1>1. IsWellFoundedOn(less, Nat)
  BY NatLessThanWellFounded DEF OpToRel
<1>2. PICK x \in S : \A y \in S : ~ (<<y, x>> \in less)
  BY <1>1, WFMin
<1>3. ASSUME NEW y \in S PROVE x <= y
  <2>1. x \in Nat /\ y \in Nat
    OBVIOUS
  <2>2. ~ (y < x)
    BY <1>2, <2>1
  <2> QED
    BY <2>1, <2>2
<1> QED
  BY <1>3
-----------------------------------------------------------------------------
(* The newest of some events.                                              *)

\* What comes before an event among others.
Prior(S, e) == { x \in S : Before(x, e) }

\* Coming before is a strict order.
LEMMA BeforeOrder ==
    ASSUME NEW x \in Event, NEW y \in Event, NEW z \in Event,
           Before(x, y), Before(y, z)
    PROVE  Before(x, z) /\ ~Before(y, x)
BY ReadersAssumption DEF Before

\* How many events come before one is a number, and no more among fewer.
LEMMA PriorCount ==
    ASSUME NEW S \in SUBSET Event, NEW T \in SUBSET S, NEW e \in Event
    PROVE  /\ IsFiniteSet(Prior(S, e)) /\ IsFiniteSet(Prior(T, e))
           /\ Cardinality(Prior(S, e)) \in Nat
           /\ Cardinality(Prior(T, e)) \in Nat
           /\ Cardinality(Prior(T, e)) <= Cardinality(Prior(S, e))
<1>1. IsFiniteSet(Prior(S, e))
  BY FS_Subset, ReadersAssumption DEF Prior
<1>2. Prior(T, e) \in SUBSET Prior(S, e)
  BY DEF Prior
<1> QED
  BY <1>1, <1>2, FS_Subset, FS_CardinalityType

\* Fewer come before an event than before one that comes after it.
LEMMA PriorFewer ==
    ASSUME NEW S \in SUBSET Event, NEW y \in S, NEW z \in Event, Before(y, z)
    PROVE  Cardinality(Prior(S, y)) < Cardinality(Prior(S, z))
<1>1. /\ IsFiniteSet(Prior(S, z))
      /\ Cardinality(Prior(S, z)) \in Nat /\ Cardinality(Prior(S, y)) \in Nat
  BY PriorCount
<1>2. Prior(S, y) \in SUBSET Prior(S, z)
  BY BeforeOrder DEF Prior
<1>3. y \in Prior(S, z) /\ y \notin Prior(S, y)
  BY ReadersAssumption DEF Prior, Before
<1> QED
  BY <1>1, <1>2, <1>3, FS_Subset

\* A limit cuts off only when it is used up.
LEMMA NewestFull ==
    ASSUME NEW S \in SUBSET Event, NEW n \in Nat, Newest(S, n) # S
    PROVE  n <= Cardinality(Newest(S, n))
<1> DEFINE Cut == S \ Newest(S, n)
           counts == { Cardinality(Prior(S, x)) : x \in Cut }
<1>1. Cut # {} /\ Cut \subseteq S
  BY DEF Newest
<1>2. counts \subseteq Nat /\ counts # {}
  BY <1>1, PriorCount
<1>3. PICK k \in counts : \A m \in counts : k <= m
  <2> HIDE DEF counts
  <2> QED
    BY <1>2, LeastNat
<1>4. PICK z \in Cut : k = Cardinality(Prior(S, z))
  OBVIOUS
<1>5. Prior(S, z) \in SUBSET Newest(S, n)
  <2> SUFFICES ASSUME NEW y \in S, Before(y, z), y \in Cut PROVE FALSE
    BY DEF Prior
  <2>1. Cardinality(Prior(S, y)) < Cardinality(Prior(S, z))
    BY <1>1, <1>4, PriorFewer
  <2>2. k <= Cardinality(Prior(S, y))
    BY <1>3
  <2>3. Cardinality(Prior(S, y)) \in Nat /\ k \in Nat
    BY <1>2, PriorCount
  <2> QED
    BY <1>4, <2>1, <2>2, <2>3
<1>6. n <= Cardinality(Prior(S, z))
  <2>1. Cardinality(Prior(S, z)) \in Nat
    BY PriorCount
  <2>2. ~(Cardinality(Prior(S, z)) < n)
    BY <1>4 DEF Newest, Prior
  <2> QED
    BY <2>1, <2>2
<1>7. IsFiniteSet(Newest(S, n))
  BY FS_Subset, ReadersAssumption DEF Newest
<1>8. Cardinality(Newest(S, n)) \in Nat /\ Cardinality(Prior(S, z)) \in Nat
  BY <1>7, PriorCount, FS_CardinalityType
<1>9. Cardinality(Prior(S, z)) <= Cardinality(Newest(S, n))
  BY <1>5, <1>7, FS_Subset
<1> QED
  BY <1>6, <1>8, <1>9

\* An event a limit cuts off has that many before it that it does not.
LEMMA CutOff ==
    ASSUME NEW S \in SUBSET Event, NEW n \in Nat, NEW e \in Event,
           n <= Cardinality(Prior(S, e))
    PROVE  n <= Cardinality(Prior(Newest(S, n), e))
<1> DEFINE P == Prior(S, e)
<1>1. P \in SUBSET Event /\ P \subseteq S
  BY DEF Prior
<1>2. n <= Cardinality(Newest(P, n))
  <2>1. n <= Cardinality(P)
    OBVIOUS
  <2> HIDE DEF P
  <2> QED
    BY <1>1, <2>1, NewestFull
<1>3. \A x \in P : Prior(P, x) = Prior(S, x)
  BY BeforeOrder DEF Prior
<1>4. Newest(P, n) \subseteq Prior(Newest(S, n), e)
  <2> SUFFICES ASSUME NEW x \in P, Cardinality(Prior(P, x)) < n
               PROVE  x \in Newest(S, n)
    BY DEF Newest, Prior
  <2>1. x \in S /\ Cardinality(Prior(S, x)) < n
    BY <1>1, <1>3
  <2> QED
    BY <2>1 DEF Newest, Prior
<1>5. Newest(S, n) \in SUBSET Event
  BY DEF Newest
<1>6. IsFiniteSet(Prior(Newest(S, n), e)) /\ Cardinality(Prior(Newest(S, n), e)) \in Nat
  <2> HIDE DEF P
  <2> QED
    BY <1>5, PriorCount
<1> HIDE DEF P
<1>7. Cardinality(Newest(P, n)) \in Nat
  BY <1>4, <1>6, FS_Subset, FS_CardinalityType
<1> QED
  BY <1>2, <1>4, <1>6, <1>7, FS_Subset

\* The newest are the newest of any of the events that they are among.
LEMMA NewestAmong ==
    ASSUME NEW S \in SUBSET Event, NEW T \in SUBSET S, NEW n \in Nat,
           Newest(S, n) \subseteq T
    PROVE  Newest(T, n) = Newest(S, n)
<1>1. ASSUME NEW e \in Newest(S, n) PROVE e \in Newest(T, n)
  <2>1. e \in Event /\ e \in T /\ Cardinality(Prior(S, e)) < n
    BY <1>1 DEF Newest, Prior
  <2>2. Cardinality(Prior(T, e)) < n
    BY <2>1, PriorCount
  <2> QED
    BY <2>1, <2>2 DEF Newest, Prior
<1>2. ASSUME NEW e \in Newest(T, n) PROVE e \in Newest(S, n)
  <2>1. e \in Event /\ e \in S /\ Cardinality(Prior(T, e)) < n
    BY <1>2 DEF Newest, Prior
  <2>2. Cardinality(Prior(Newest(S, n), e)) <= Cardinality(Prior(T, e))
    BY <2>1, PriorCount
  <2>3. Newest(S, n) \in SUBSET Event
    BY DEF Newest
  <2>4. /\ Cardinality(Prior(Newest(S, n), e)) \in Nat /\ Cardinality(Prior(T, e)) \in Nat
        /\ Cardinality(Prior(S, e)) \in Nat
    BY <2>1, <2>3, PriorCount
  <2>5. Cardinality(Prior(S, e)) < n
    <3>1. ~(n <= Cardinality(Prior(S, e)))
      BY <2>1, <2>2, <2>4, CutOff
    <3> QED
      BY <2>4, <3>1
  <2> QED
    BY <2>1, <2>5 DEF Newest, Prior
<1> QED
  BY <1>1, <1>2

\* A limit of the parts and then of the whole is a limit of the whole.
LEMMA NewestOfParts ==
    ASSUME NEW Q, NEW part \in [Q -> SUBSET Event], NEW n \in Nat
    PROVE  Newest(UNION { Newest(part[q], n) : q \in Q }, n)
             = Newest(UNION { part[q] : q \in Q }, n)
<1> DEFINE S == UNION { part[q] : q \in Q }
           T == UNION { Newest(part[q], n) : q \in Q }
<1>1. S \in SUBSET Event
  OBVIOUS
<1>2. T \in SUBSET S
  BY DEF Newest
<1>3. ASSUME NEW e \in Newest(S, n) PROVE e \in T
  <2>1. e \in S /\ Cardinality(Prior(S, e)) < n
    BY <1>3 DEF Newest, Prior
  <2>2. PICK q \in Q : e \in part[q]
    BY <2>1
  <2>3. part[q] \in SUBSET S
    OBVIOUS
  <2>4. Cardinality(Prior(part[q], e)) < n
    <3> HIDE DEF S
    <3> QED
      BY <1>1, <2>1, <2>3, PriorCount
  <2>5. e \in Newest(part[q], n)
    BY <2>2, <2>4 DEF Newest, Prior
  <2> QED
    BY <2>5
<1> HIDE DEF S, T
<1>4. Newest(T, n) = Newest(S, n)
  BY <1>1, <1>2, <1>3, NewestAmong
<1> QED
  BY <1>4 DEF S, T

-----------------------------------------------------------------------------
(* What a filter is, once it has been bounded.                             *)

\* The filters a subscription may hold.
Filter == { WithLimit(f, n) : f \in UNION Frame, n \in 1 .. MaxFilterLimit }

\* A filter is a function and its limit a number above zero.
LEMMA FilterShape ==
    ASSUME NEW f \in Filter
    PROVE  /\ f = [field \in DOMAIN f |-> f[field]]
           /\ "limit" \in DOMAIN f
           /\ f.limit \in Nat \ {0} /\ f.limit <= MaxFilterLimit
           /\ f.limit \in 1 .. MaxFilterLimit
<1>1. PICK o \in UNION Frame, n \in 1 .. MaxFilterLimit : f = WithLimit(o, n)
  BY DEF Filter
<1>2. /\ f = [field \in DOMAIN f |-> f[field]]
      /\ "limit" \in DOMAIN f /\ f["limit"] = n
  BY <1>1 DEF WithLimit
<1> QED
  BY <1>2, ReadersAssumption

\* Of a filter that is admitted, boundFilter makes one that may be held.
LEMMA BoundShape ==
    ASSUME NEW frame \in Frame, NEW f \in frame, NEW reader,
           Admits(f, Budget(frame), Cardinality(Scopes(reader)))
    PROVE  \E n \in 1 .. MaxFilterLimit : BoundFilter(f, frame, reader) = WithLimit(f, n)
<1> DEFINE S == Affordable(f, Budget(frame), Cardinality(Scopes(reader)))
<1>1. Requested(f) \in Int /\ Requested(f) <= MaxFilterLimit
  <2>1. MaxFilterLimit \in Nat
    BY ReadersAssumption
  <2>2. CASE "limit" \notin DOMAIN f
    BY <2>1, <2>2 DEF Requested
  <2>3. CASE "limit" \in DOMAIN f
    <3>1. f.limit \in Int
      BY <2>3, ReadersAssumption
    <3> DEFINE l == IF f.limit <= MaxFilterLimit THEN f.limit ELSE MaxFilterLimit
    <3>2. l \in {f.limit, MaxFilterLimit} /\ \A y \in {f.limit, MaxFilterLimit} : l <= y
      BY <2>1, <3>1
    <3>3. /\ Min({f.limit, MaxFilterLimit}) \in {f.limit, MaxFilterLimit}
          /\ \A y \in {f.limit, MaxFilterLimit} : Min({f.limit, MaxFilterLimit}) <= y
      <4> HIDE DEF l
      <4> QED
        BY <3>2 DEF Min
    <3> QED
      BY <2>1, <2>3, <3>1, <3>3 DEF Requested
  <2> QED
    BY <2>2, <2>3
<1>2. S \subseteq 1 .. MaxFilterLimit
  <2> SUFFICES ASSUME NEW d \in HalvingSteps, Requested(f) \div d >= 1
               PROVE  Requested(f) \div d \in 1 .. MaxFilterLimit
    BY DEF Affordable
  <2> QED
    BY <1>1, ReadersAssumption DEF HalvingSteps
<1>3. S # {}
  BY DEF Admits
<1>4. PICK x \in S : \A y \in S : y <= x
  <2> DEFINE below == { MaxFilterLimit - y : y \in S }
  <2>1. below \subseteq Nat /\ below # {}
    BY <1>2, <1>3, ReadersAssumption
  <2>2. PICK m \in below : \A k \in below : m <= k
    <3> HIDE DEF below
    <3> QED
      BY <2>1, LeastNat
  <2>3. PICK x \in S : m = MaxFilterLimit - x
    BY <2>2
  <2>4. ASSUME NEW y \in S PROVE y <= x
    <3>1. MaxFilterLimit - x <= MaxFilterLimit - y
      BY <2>2, <2>3
    <3>2. x \in Int /\ y \in Int /\ MaxFilterLimit \in Int
      BY <1>2, ReadersAssumption
    <3> QED
      BY <3>1, <3>2
  <2> QED
    BY <2>4
<1> HIDE DEF S
<1>5. Max(S) \in S
  BY <1>4 DEF Max
<1> QED
  BY <1>2, <1>5 DEF S, BoundFilter, Bounded

\* A limit leaves the other fields as they are, and what the filter names.
LEMMA LimitKeeps ==
    ASSUME NEW f, NEW n
    PROVE  /\ \A field \in SetFields \union {"since", "until"} :
                /\ field \in DOMAIN WithLimit(f, n) <=> field \in DOMAIN f
                /\ field \in DOMAIN f => WithLimit(f, n)[field] = f[field]
           /\ \A field \in SetFields : Named(WithLimit(f, n), field) = Named(f, field)
BY DEF WithLimit, SetFields, TagFields, Named

\* What an expanded filter is: it names one author and one kind of those that
\* were named, and all the rest as it was.
LEMMA ExpandShape ==
    ASSUME NEW f \in Filter, NEW g \in Expand(f)
    PROVE  /\ DOMAIN g = DOMAIN f
           /\ \A field \in DOMAIN f \ {"authors", "kinds"} : g[field] = f[field]
           /\ \A field \in DOMAIN f \intersect {"authors", "kinds"} :
                \E x \in f[field] : g[field] = {x}
<1>1. PICK m \in Split(f, "authors") : g \in Split(m, "kinds")
  BY DEF Expand
<1>2. f = [field \in DOMAIN f |-> f[field]]
  BY FilterShape
<1>3. /\ m = [field \in DOMAIN f |-> m[field]]
      /\ DOMAIN m = DOMAIN f
      /\ \A field \in DOMAIN f \ {"authors"} : m[field] = f[field]
      /\ "authors" \in DOMAIN f => \E x \in f["authors"] : m["authors"] = {x}
  BY <1>1, <1>2 DEF Split
<1>4. /\ DOMAIN g = DOMAIN m
      /\ \A field \in DOMAIN m \ {"kinds"} : g[field] = m[field]
      /\ "kinds" \in DOMAIN m => \E x \in m["kinds"] : g["kinds"] = {x}
  BY <1>1, <1>3 DEF Split
<1> QED
  BY <1>3, <1>4

\* And one of them names the author and the kind of what matches the filter.
LEMMA ExpandHas ==
    ASSUME NEW f \in Filter, NEW e, Matches(e, f)
    PROVE  \E g \in Expand(f) :
             /\ "authors" \in DOMAIN f => g["authors"] = {e.pubkey}
             /\ "kinds" \in DOMAIN f => g["kinds"] = {e.kind}
<1>1. f = [field \in DOMAIN f |-> f[field]]
  BY FilterShape
<1>2. /\ "authors" \in DOMAIN f => e.pubkey \in f["authors"]
      /\ "kinds" \in DOMAIN f => e.kind \in f["kinds"]
  BY DEF Matches
<1> DEFINE m == IF "authors" \in DOMAIN f THEN [f EXCEPT !["authors"] = {e.pubkey}] ELSE f
           g == IF "kinds" \in DOMAIN m THEN [m EXCEPT !["kinds"] = {e.kind}] ELSE m
<1>3. m \in Split(f, "authors")
  BY <1>2 DEF Split
<1>4. /\ DOMAIN m = DOMAIN f
      /\ m = [field \in DOMAIN m |-> m[field]]
  BY <1>1
<1>5. /\ "authors" \in DOMAIN f => m["authors"] = {e.pubkey}
      /\ "kinds" \in DOMAIN f => m["kinds"] = f["kinds"]
  BY <1>1
<1> HIDE DEF m
<1>6. g \in Split(m, "kinds")
  BY <1>2, <1>4, <1>5 DEF Split
<1>7. /\ "authors" \in DOMAIN f => g["authors"] = {e.pubkey}
      /\ "kinds" \in DOMAIN f => g["kinds"] = {e.kind}
  BY <1>4, <1>5
<1> HIDE DEF g
<1> QED
  BY <1>3, <1>6, <1>7 DEF Expand


\* What an expanded filter matches, the filter does.
LEMMA ExpandMatches ==
    ASSUME NEW f \in Filter, NEW g \in Expand(f), NEW e, Matches(e, g)
    PROVE  Matches(e, f)
<1>1. /\ DOMAIN g = DOMAIN f
      /\ \A field \in DOMAIN f \ {"authors", "kinds"} : g[field] = f[field]
      /\ \A field \in DOMAIN f \intersect {"authors", "kinds"} :
           \E x \in f[field] : g[field] = {x}
  BY ExpandShape
<1>2. "ids" \in DOMAIN f => e.id \in f["ids"]
  BY <1>1 DEF Matches
<1>3. "authors" \in DOMAIN f => e.pubkey \in f["authors"]
  BY <1>1 DEF Matches
<1>4. "kinds" \in DOMAIN f => e.kind \in f["kinds"]
  BY <1>1 DEF Matches
<1>5. InWindow(e, f)
  BY <1>1 DEF Matches, InWindow
<1>6. \A t \in TagFields \intersect DOMAIN f : TagOf(e, t) \intersect f[t] # {}
  <2> TAKE t \in TagFields \intersect DOMAIN f
  <2>1. t \in DOMAIN f \ {"authors", "kinds"} /\ t \in TagFields \intersect DOMAIN g
    BY <1>1 DEF TagFields
  <2>2. g[t] = f[t]
    BY <1>1, <2>1
  <2>3. TagOf(e, t) \intersect g[t] # {}
    BY <2>1 DEF Matches
  <2> QED
    BY <2>2, <2>3
<1> QED
  BY <1>2, <1>3, <1>4, <1>5, <1>6 DEF Matches

\* And what the filter matches, one of those it expands to does, which names
\* something in every field it has.
LEMMA ExpandReaches ==
    ASSUME NEW f \in Filter, NEW e, Matches(e, f)
    PROVE  \E g \in Expand(f) :
             /\ Matches(e, g)
             /\ \A field \in SetFields \intersect DOMAIN g : g[field] # {}
<1>1. PICK g \in Expand(f) :
        /\ "authors" \in DOMAIN f => g["authors"] = {e.pubkey}
        /\ "kinds" \in DOMAIN f => g["kinds"] = {e.kind}
  BY ExpandHas
<1>2. /\ DOMAIN g = DOMAIN f
      /\ \A field \in DOMAIN f \ {"authors", "kinds"} : g[field] = f[field]
  BY ExpandShape
<1>3. "ids" \in DOMAIN g => e.id \in g["ids"]
  BY <1>2 DEF Matches
<1>4. InWindow(e, g)
  BY <1>2 DEF Matches, InWindow
<1>5. \A t \in TagFields \intersect DOMAIN g : TagOf(e, t) \intersect g[t] # {}
  <2> TAKE t \in TagFields \intersect DOMAIN g
  <2>1. t \in DOMAIN f \ {"authors", "kinds"} /\ t \in TagFields \intersect DOMAIN f
    BY <1>2 DEF TagFields
  <2>2. g[t] = f[t]
    BY <1>2, <2>1
  <2>3. TagOf(e, t) \intersect f[t] # {}
    BY <2>1 DEF Matches
  <2> QED
    BY <2>2, <2>3
<1>6. "authors" \in DOMAIN g => e.pubkey \in g["authors"]
  BY <1>1, <1>2
<1>7. "kinds" \in DOMAIN g => e.kind \in g["kinds"]
  BY <1>1, <1>2
<1>8. Matches(e, g)
  BY <1>3, <1>4, <1>5, <1>6, <1>7 DEF Matches
<1>9. \A field \in SetFields \intersect DOMAIN g : g[field] # {}
  <2> TAKE field \in SetFields \intersect DOMAIN g
  <2>1. CASE field \in TagFields
    BY <1>5, <2>1
  <2>2. CASE field \in {"ids", "authors", "kinds"}
    BY <1>3, <1>6, <1>7, <2>2
  <2> QED
    BY <2>1, <2>2 DEF SetFields
<1> QED
  BY <1>8, <1>9

-----------------------------------------------------------------------------
(* The two gates.                                                          *)

\* What a query lets through, but for the time and the scan of its tags.
Lets(q, e) == InPartition(e, q) /\ Matches(e, q.filter) /\ e.kind \notin q.excluded

\* Whether a filter asks for the letters of somebody else.
NamesLetters(f, reader) == ~reader.owner /\ GiftWrap \in Named(f, "kinds")

\* What a query is made of.
LEMMA QueryShape ==
    ASSUME NEW f, NEW reader, NEW q \in Queries(f, reader)
    PROVE  \E g \in Expand(f) : \E scope \in Scopes(reader) :
             /\ q.filter = g
             /\ q.scope = scope
             /\ q.restricted = (scope = GroupScope /\ ~reader.owner)
             /\ q.restricted => q.groups = reader.groups
             /\ q.excluded = Excluded(g, reader)
             /\ q.scan = ScanLimit(g.limit, Cardinality(Scopes(reader)))
             /\ \A field \in SetFields \intersect DOMAIN g : g[field] # {}
<1>1. PICK g \in Expand(f), scope \in Scopes(reader) :
        /\ q = Query(g, scope, reader)
        /\ \A field \in SetFields \intersect DOMAIN g : g[field] # {}
  BY DEF Queries
<1>2. GroupsOf(GroupScope, reader) = IF reader.owner THEN Group ELSE reader.groups
  BY DEF GroupsOf, GroupScope, PublicScope
<1> QED
  BY <1>1, <1>2 DEF Query

\* The rule of broadcast, for somebody who is not the owner.
LEMMA MayReceiveMeans ==
    ASSUME NEW who, who # Owner, NEW e \in Event
    PROVE  MayReceive(who, e) <=>
             \/ e.kind # GiftWrap /\ ~IsGroupEvent(e)
             \/ /\ IsGroupEvent(e) /\ e.kind \notin {GiftWrap, CreateInvite}
                /\ GroupIdOf(e) \in Reader(who).groups
<1>1. IsGroupEvent(e) => GroupIdOf(e) \in Group
  BY DEF IsGroupEvent
<1> QED
  BY <1>1 DEF MayReceive, Reader

\* What a query lets through is the reader's to see.
LEMMA GateSound ==
    ASSUME NEW who, NEW f \in Filter, ~NamesLetters(f, Reader(who)),
           NEW q \in Queries(f, Reader(who)), NEW e \in Event, Lets(q, e)
    PROVE  Matches(e, f) /\ MaySee(who, e)
<1> DEFINE reader == Reader(who)
<1>1. PICK g \in Expand(f), scope \in Scopes(reader) :
        /\ q.filter = g
        /\ q.scope = scope
        /\ q.restricted = (scope = GroupScope /\ ~reader.owner)
        /\ q.restricted => q.groups = reader.groups
        /\ q.excluded = Excluded(g, reader)
  BY QueryShape
<1>2. Matches(e, f)
  BY <1>1, ExpandMatches DEF Lets
<1>3. CASE who = Owner
  BY <1>2, <1>3 DEF MayReceive, MaySee, Reader
<1>4. CASE who # Owner
  <2>1. ~reader.owner
    BY <1>4 DEF Reader
  <2>2. ScopeOf(e) = scope /\ (scope = GroupScope => GroupIdOf(e) \in reader.groups)
    BY <1>1, <2>1 DEF Lets, InPartition
  <2>3. scope = GroupScope => reader.groups # {}
    BY <2>2
  <2>4. e.kind # GiftWrap
    <3>1. CASE "kinds" \in DOMAIN f
      <4>1. e.kind \in Named(f, "kinds")
        BY <1>2, <3>1 DEF Matches, Named
      <4> QED
        BY <2>1, <4>1 DEF NamesLetters
    <3>2. CASE "kinds" \notin DOMAIN f
      <4>1. "kinds" \notin DOMAIN g
        BY <1>1, <3>2, ExpandShape
      <4> QED
        BY <1>1, <2>1, <4>1 DEF Lets, Excluded
    <3> QED
      BY <3>1, <3>2
  <2>5. reader.groups # {} => e.kind # CreateInvite
    BY <1>1, <2>1 DEF Lets, Excluded
  <2>6. IsGroupEvent(e) <=> scope = GroupScope
    BY <2>2 DEF ScopeOf, GroupScope, PublicScope
  <2>7. MayReceive(who, e)
    BY <1>4, <2>2, <2>3, <2>4, <2>5, <2>6, MayReceiveMeans
  <2> QED
    BY <1>2, <2>5, <2>7 DEF MaySee, StrayInvite
<1> QED
  BY <1>3, <1>4

\* And what is the reader's to see, one of the queries lets through.
LEMMA GateComplete ==
    ASSUME NEW who, NEW f \in Filter, NEW e \in Event,
           Matches(e, f), MaySee(who, e)
    PROVE  \E q \in Queries(f, Reader(who)) : Lets(q, e)
<1> DEFINE reader == Reader(who)
           scope == ScopeOf(e)
<1>1. PICK g \in Expand(f) :
        /\ Matches(e, g)
        /\ \A field \in SetFields \intersect DOMAIN g : g[field] # {}
  BY ExpandReaches
<1> DEFINE q == Query(g, scope, reader)
<1>2. who # Owner =>
        \/ e.kind # GiftWrap /\ ~IsGroupEvent(e)
        \/ /\ IsGroupEvent(e) /\ e.kind \notin {GiftWrap, CreateInvite}
           /\ GroupIdOf(e) \in reader.groups
  BY MayReceiveMeans DEF MaySee
<1>3. reader.owner <=> who = Owner
  BY DEF Reader
<1>4. StrayInvite(e) => reader.groups = {}
  BY DEF MaySee
<1>5. scope \in Scopes(reader)
  BY <1>2, <1>3 DEF Scopes, ScopeOf
<1>6. q \in Queries(f, reader)
  BY <1>1, <1>5 DEF Queries
<1>7. InPartition(e, q)
  <2>1. /\ q.scope = scope
        /\ q.restricted = (scope = GroupScope /\ ~reader.owner)
        /\ q.groups = GroupsOf(scope, reader)
    BY DEF Query
  <2>2. ASSUME scope = GroupScope, ~reader.owner
        PROVE  GroupIdOf(e) \in GroupsOf(scope, reader)
    <3>1. IsGroupEvent(e)
      BY <2>2 DEF ScopeOf, GroupScope, PublicScope
    <3>2. GroupIdOf(e) \in reader.groups
      BY <1>2, <1>3, <2>2, <3>1
    <3> QED
      BY <2>2, <3>2 DEF GroupsOf, GroupScope, PublicScope
  <2> QED
    BY <2>1, <2>2 DEF InPartition
<1>8. e.kind \notin q.excluded
  <2>1. q.excluded = Excluded(g, reader)
    BY DEF Query
  <2>2. CASE who = Owner
    BY <1>3, <2>1, <2>2 DEF Excluded
  <2>3. CASE who # Owner
    <3>1. e.kind # GiftWrap /\ (e.kind = CreateInvite => reader.groups = {})
      BY <1>2, <1>4, <2>3 DEF StrayInvite
    <3>2. /\ Excluded(g, reader) \subseteq {GiftWrap, CreateInvite}
          /\ CreateInvite \in Excluded(g, reader) => reader.groups # {}
      BY DEF Excluded, CreateInvite, GiftWrap
    <3> QED
      BY <2>1, <3>1, <3>2
  <2> QED
    BY <2>2, <2>3
<1>9. q.filter = g
  BY DEF Query
<1> QED
  BY <1>1, <1>6, <1>7, <1>8, <1>9 DEF Lets

-----------------------------------------------------------------------------
(* What a query finds.                                                     *)

\* A scan takes one row at least.
LEMMA ScanTakesOne ==
    ASSUME NEW limit \in Nat, NEW reader
    PROVE  ScanLimit(limit, Cardinality(Scopes(reader))) \in Nat \ {0}
<1> DEFINE n == limit * TagScanDepth
<1>1. n \in Nat
  BY ReadersAssumption
<1> HIDE DEF n
<1>2. Cardinality(Scopes(reader)) \in {1, 2}
  <2>1. Cardinality({PublicScope}) = 1
    BY FS_Singleton
  <2>2. Cardinality({PublicScope} \union {GroupScope}) = 2
    <3>1. IsFiniteSet({PublicScope}) /\ GroupScope \notin {PublicScope}
      BY FS_Singleton DEF PublicScope, GroupScope
    <3>2. Cardinality({PublicScope} \union {GroupScope}) = Cardinality({PublicScope}) + 1
      BY <3>1, FS_AddElement
    <3> QED
      BY <2>1, <3>2
  <2>3. {PublicScope} \union {GroupScope} = {PublicScope, GroupScope}
    OBVIOUS
  <2> QED
    BY <2>1, <2>2, <2>3 DEF Scopes
<1>3. \A d \in {1, 2} :
        Max1(n \div d + (IF n % d = 0 THEN 0 ELSE 1)) \in Nat \ {0}
  BY <1>1 DEF Max1
<1> QED
  BY <1>2, <1>3 DEF ScanLimit, n

\* A query of a filter that is held has that filter's limit and tags.
LEMMA QueryFields ==
    ASSUME NEW f \in Filter, NEW reader, NEW q \in Queries(f, reader)
    PROVE  /\ q.filter.limit = f.limit /\ q.filter.limit \in Nat \ {0}
           /\ q.scan \in Nat \ {0}
           /\ Tags(q.filter) = Tags(f)
<1>1. PICK g \in Expand(f) :
        q.filter = g /\ q.scan = ScanLimit(g.limit, Cardinality(Scopes(reader)))
  BY QueryShape
<1>2. /\ DOMAIN g = DOMAIN f
      /\ \A field \in DOMAIN f \ {"authors", "kinds"} : g[field] = f[field]
  BY ExpandShape
<1>3. "limit" \in DOMAIN f
  BY FilterShape
<1>4. g.limit = f.limit /\ g.limit \in Nat \ {0}
  BY <1>2, <1>3, FilterShape
<1>5. \A t \in TagFields : Named(g, t) = Named(f, t)
  BY <1>2 DEF Named, TagFields
<1> QED
  BY <1>1, <1>4, <1>5, ScanTakesOne DEF Tags

\* The sets of pairs that are counted are finite.
LEMMA PairsFinite ==
    ASSUME NEW D, IsFiniteSet(D), NEW part, \A x \in D : IsFiniteSet(part[x])
    PROVE  IsFiniteSet(UNION { {x} \X part[x] : x \in D })
<1> DEFINE Pairs == { {x} \X part[x] : x \in D }
           g == [x \in D |-> {x} \X part[x]]
<1>1. \A x \in D : IsFiniteSet({x} \X part[x])
  BY FS_Product, FS_Singleton
<1>2. g \in Surjection(D, Pairs)
  BY DEF Surjection
<1>3. IsFiniteSet(Pairs)
  <2> HIDE DEF g, Pairs
  <2> QED
    BY <1>2, FS_Surjection
<1>4. \A P \in Pairs : IsFiniteSet(P)
  BY <1>1
<1> HIDE DEF Pairs
<1>5. IsFiniteSet(UNION Pairs)
  BY <1>3, <1>4, FS_UNION
<1> QED
  BY <1>5 DEF Pairs

\* The rows of a tag are finitely many.
LEMMA TagRowsFinite ==
    ASSUME NEW q, NEW tag \in TagFields, NEW S \in SUBSET Event
    PROVE  IsFiniteSet(TagRows(q, tag, S))
<1> DEFINE D == { x \in S : InPartition(x, q) /\ InWindow(x, q.filter) }
           part == [x \in D |-> { i \in DOMAIN x[tag] : x[tag][i] \in q.filter[tag] }]
<1>1. IsFiniteSet(D)
  BY FS_Subset, ReadersAssumption
<1>2. ASSUME NEW x \in D PROVE IsFiniteSet(part[x])
  <2>1. IsFiniteSet(DOMAIN x[tag])
    BY ReadersAssumption
  <2> QED
    BY <2>1, FS_Subset
<1>3. TagRows(q, tag, S) = UNION { {x} \X part[x] : x \in D }
  BY DEF TagRows
<1> HIDE DEF D, part
<1> QED
  BY <1>1, <1>2, <1>3, PairsFinite

\* An event that is let through has a row of every tag the filter names.
LEMMA LetsHasRow ==
    ASSUME NEW q, NEW S \in SUBSET Event, NEW e \in S, Lets(q, e), NEW tag \in Tags(q.filter)
    PROVE  /\ tag \in TagFields
           /\ \E r \in TagRows(q, tag, S) : r[1] = e
<1>1. tag \in TagFields \intersect DOMAIN q.filter
  BY DEF Tags, Named
<1>2. TagOf(e, tag) \intersect q.filter[tag] # {}
  BY <1>1 DEF Lets, Matches
<1>3. PICK i \in DOMAIN e[tag] : e[tag][i] \in q.filter[tag]
  BY <1>2 DEF TagOf
<1>4. InPartition(e, q) /\ InWindow(e, q.filter)
  BY DEF Lets, Matches
<1>5. <<e, i>> \in TagRows(q, tag, S)
  BY <1>3, <1>4 DEF TagRows
<1> QED
  BY <1>1, <1>5

\* What a query finds, if its scans reach all that it lets through.
LEMMA RowsWithin ==
    ASSUME NEW q, NEW S, NEW t,
           \A e \in S : Lets(q, e) => \A tag \in Tags(q.filter) : e \in TagScan(q, tag, S)
    PROVE  Rows(q, S, t) =
             Newest({ e \in S : Unexpired(e, t) /\ Lets(q, e) }, q.filter.limit)
<1>1. { e \in S : /\ Unexpired(e, t)
                  /\ InPartition(e, q)
                  /\ Matches(e, q.filter)
                  /\ e.kind \notin q.excluded
                  /\ \A tag \in Tags(q.filter) : e \in TagScan(q, tag, S) }
        = { e \in S : Unexpired(e, t) /\ Lets(q, e) }
  BY DEF Lets
<1> QED
  BY <1>1 DEF Rows

\* A scan that has room for all the rows of a tag leaves none out.
LEMMA RowsMeans ==
    ASSUME NEW q, q.scan \in Nat, NEW S \in SUBSET Event, NEW t,
           \A tag \in Tags(q.filter) : Cardinality(TagRows(q, tag, S)) <= q.scan
    PROVE  Rows(q, S, t) =
             Newest({ e \in S : Unexpired(e, t) /\ Lets(q, e) }, q.filter.limit)
<1>1. ASSUME NEW e \in S, Lets(q, e), NEW tag \in Tags(q.filter)
      PROVE  e \in TagScan(q, tag, S)
  <2> DEFINE R == TagRows(q, tag, S)
  <2>1. tag \in TagFields /\ \E r \in R : r[1] = e
    BY <1>1, LetsHasRow
  <2>2. IsFiniteSet(R)
    BY <2>1, TagRowsFinite
  <2>3. Cardinality(R) <= q.scan
    BY <1>1
  <2>4. e \in TagScan(q, tag, S) <=> (\E r \in R : r[1] = e) /\ Cardinality(RowsBefore(R, e)) < q.scan
    BY DEF TagScan
  <2> HIDE DEF R
  <2>5. PICK r \in R : r[1] = e
    BY <2>1
  <2>6. r \notin RowsBefore(R, e) /\ RowsBefore(R, e) \in SUBSET R
    BY <2>5, ReadersAssumption DEF RowsBefore, Before
  <2>7. /\ Cardinality(RowsBefore(R, e)) \in Nat /\ Cardinality(R) \in Nat
        /\ Cardinality(RowsBefore(R, e)) < Cardinality(R)
    BY <2>2, <2>5, <2>6, FS_Subset, FS_CardinalityType
  <2> QED
    BY <2>1, <2>3, <2>4, <2>7
<1> QED
  BY <1>1, RowsWithin

\* Of one event, a query finds it if it lets it through: no row is before its
\* own, however many it has.
LEMMA RowsOfOne ==
    ASSUME NEW f \in Filter, NEW reader, NEW q \in Queries(f, reader),
           NEW e \in Event, NEW t, Unexpired(e, t)
    PROVE  e \in Rows(q, {e}, t) <=> Lets(q, e)
<1>1. q.scan \in Nat \ {0} /\ q.filter.limit \in Nat \ {0}
  BY QueryFields
<1>2. ASSUME Lets(q, e), NEW tag \in Tags(q.filter)
      PROVE  e \in TagScan(q, tag, {e})
  <2> DEFINE R == TagRows(q, tag, {e})
  <2>1. \E r \in R : r[1] = e
    BY <1>2, LetsHasRow
  <2>2. \A r \in R : r[1] = e
    BY DEF TagRows
  <2>3. e \in TagScan(q, tag, {e}) <=> (\E r \in R : r[1] = e) /\ Cardinality(RowsBefore(R, e)) < q.scan
    BY DEF TagScan
  <2> HIDE DEF R
  <2>4. RowsBefore(R, e) = {}
    BY <2>2, ReadersAssumption DEF RowsBefore, Before
  <2> QED
    BY <1>1, <2>1, <2>3, <2>4, FS_EmptySet
<1>3. Rows(q, {e}, t) = Newest({ x \in {e} : Unexpired(x, t) /\ Lets(q, x) }, q.filter.limit)
  BY <1>2, RowsWithin
<1>4. { x \in {e} : Before(x, e) } = {} /\ Cardinality({}) = 0
  BY ReadersAssumption, FS_EmptySet DEF Before
<1>5. ASSUME Lets(q, e) PROVE e \in Newest({ x \in {e} : Unexpired(x, t) /\ Lets(q, x) }, q.filter.limit)
  <2>1. { x \in {e} : Unexpired(x, t) /\ Lets(q, x) } = {e}
    BY <1>5
  <2>2. e \in Newest({e}, q.filter.limit)
    BY <1>1, <1>4 DEF Newest
  <2> QED
    BY <2>1, <2>2
<1>6. ASSUME e \in Newest({ x \in {e} : Unexpired(x, t) /\ Lets(q, x) }, q.filter.limit)
      PROVE  Lets(q, e)
  BY <1>6 DEF Newest
<1> QED
  BY <1>3, <1>5, <1>6

-----------------------------------------------------------------------------
(* The state.                                                              *)

\* What a socket may hold of subscriptions.
Subscriptions == UNION { [D -> SUBSET Filter] : D \in SUBSET SubId }

\* The tables and the sockets are what they are taken for, and every filter
\* that is held went through boundFilter.
Shape ==
    /\ stored \subseteq Event
    /\ now \in Nat
    /\ conn \in [Conn -> [who : Pubkey \union {Nobody}, challenged : BOOLEAN,
                          subs : Subscriptions]]

\* What is cached was right at some time since the table last changed.
CacheSound ==
    \A q \in DOMAIN cache : \E t \in Nat : t <= now /\ cache[q] = Rows(q, stored, t)

\* A subscription names filters that are held.
LEMMA SubsShape ==
    ASSUME Shape, NEW c \in Conn
    PROVE  /\ DOMAIN conn[c].subs \subseteq SubId
           /\ \A s \in DOMAIN conn[c].subs : conn[c].subs[s] \subseteq Filter
<1>1. conn[c].subs \in Subscriptions
  BY DEF Shape
<1>2. PICK D \in SUBSET SubId : conn[c].subs \in [D -> SUBSET Filter]
  BY <1>1 DEF Subscriptions
<1> QED
  BY <1>2

\* What is asked of a REQ that is admitted may be held.
LEMMA AskedShape ==
    ASSUME NEW frame \in Frame, NEW reader, WithinCaps(frame, reader)
    PROVE  Asked(frame, reader) \subseteq Filter
<1> SUFFICES ASSUME NEW f \in frame PROVE BoundFilter(f, frame, reader) \in Filter
  BY DEF Asked
<1>1. Admits(f, Budget(frame), Cardinality(Scopes(reader)))
  BY DEF WithinCaps
<1>2. PICK n \in 1 .. MaxFilterLimit : BoundFilter(f, frame, reader) = WithLimit(f, n)
  BY <1>1, BoundShape
<1> QED
  BY <1>2 DEF Filter

\* A subscription may be set to filters that may be held, and removed.
LEMMA SetSubShape ==
    ASSUME NEW subs \in Subscriptions, NEW s \in SubId, NEW filters \in SUBSET Filter
    PROVE  /\ SetSub(subs, s, filters) \in Subscriptions
           /\ [t \in DOMAIN subs \ {s} |-> subs[t]] \in Subscriptions
<1>1. PICK D \in SUBSET SubId : subs \in [D -> SUBSET Filter]
  BY DEF Subscriptions
<1>2. SetSub(subs, s, filters) \in [D \union {s} -> SUBSET Filter]
  BY <1>1 DEF SetSub
<1>3. [t \in DOMAIN subs \ {s} |-> subs[t]] \in [D \ {s} -> SUBSET Filter]
  BY <1>1
<1>4. D \union {s} \in SUBSET SubId /\ D \ {s} \in SUBSET SubId
  OBVIOUS
<1> QED
  BY <1>2, <1>3, <1>4 DEF Subscriptions

\* A new socket has no subscriptions.
LEMMA FreshShape ==
    Fresh \in [who : Pubkey \union {Nobody}, challenged : BOOLEAN, subs : Subscriptions]
<1>1. {} \in SUBSET SubId /\ << >> \in [{} -> SUBSET Filter]
  OBVIOUS
<1>2. << >> \in Subscriptions
  BY <1>1 DEF Subscriptions
<1> QED
  BY <1>2 DEF Fresh

\* The shape holds throughout.
LEMMA ShapeInvariant == Spec => []Shape
<1>1. Init => Shape
  BY FreshShape DEF Init, Shape
<1>2. ASSUME Shape, [Next]_vars PROVE Shape'
  <2> USE <1>2
  <2>1. ASSUME NEW c \in Conn, NEW frame \in Frame, RefuseReq(c, frame) PROVE Shape'
    BY <2>1 DEF RefuseReq, Shape
  <2>2. ASSUME NEW c \in Conn, NEW s \in SubId, NEW frame \in Frame, Req(c, s, frame)
        PROVE  Shape'
    <3> DEFINE reader == Reader(conn[c].who)
               subs == SetSub(conn[c].subs, s, Asked(frame, reader))
    <3>1. Asked(frame, reader) \in SUBSET Filter
      BY <2>2, AskedShape DEF Req, Admitted
    <3>2. conn[c].subs \in Subscriptions
      BY DEF Shape
    <3>3. subs \in Subscriptions
      BY <3>1, <3>2, SetSubShape
    <3>4. conn' = [conn EXCEPT ![c].subs = subs] /\ UNCHANGED <<stored, now>>
      BY <2>2 DEF Req
    <3> HIDE DEF subs
    <3> QED
      BY <3>3, <3>4 DEF Shape
  <2>3. ASSUME NEW c \in Conn, NEW s \in SubId, CloseSub(c, s) PROVE Shape'
    <3> DEFINE subs == [t \in DOMAIN conn[c].subs \ {s} |-> conn[c].subs[t]]
    <3>1. conn[c].subs \in Subscriptions
      BY DEF Shape
    <3>2. subs \in Subscriptions
      BY <3>1, SetSubShape
    <3>3. conn' = [conn EXCEPT ![c].subs = subs] /\ UNCHANGED <<stored, now>>
      BY <2>3 DEF CloseSub, Shape
    <3> HIDE DEF subs
    <3> QED
      BY <3>2, <3>3 DEF Shape
  <2>4. ASSUME NEW c \in Conn, NEW p \in Pubkey, Auth(c, p) PROVE Shape'
    BY <2>4 DEF Auth, Shape
  <2>5. ASSUME NEW c \in Conn, Disconnect(c) PROVE Shape'
    BY <2>5, FreshShape DEF Disconnect, Shape
  <2>6. ASSUME NEW e \in Event, Insert(e) \/ Delete(e) PROVE Shape'
    BY <2>6 DEF Insert, Delete, Shape
  <2>7. ASSUME NEW g \in Group, NEW p \in Pubkey, ChangeMember(g, p) PROVE Shape'
    BY <2>7 DEF ChangeMember, Shape
  <2>8. CASE Evict \/ Tick
    BY <2>8 DEF Evict, Tick, Shape
  <2>9. CASE UNCHANGED vars
    BY <2>9 DEF vars, Shape
  <2> QED
    BY <2>1, <2>2, <2>3, <2>4, <2>5, <2>6, <2>7, <2>8, <2>9 DEF Next
<1> QED
  BY <1>1, <1>2, PTL DEF Spec

-----------------------------------------------------------------------------
(* The two gates agree.                                                    *)

\* What HeardIfAskedAgain says of a step, of one socket and one subscription.
HeardOnce(e, c, s) ==
    LET reader == Reader(conn[c].who)
        held == conn[c].subs[s]
    IN  ~NamesGated(held, reader) =>
            (<<c, s>> \in Broadcast(e) <=>
                \E f \in held : \E q \in Queries(f, reader) : e \in Rows(q, {e}, now))

\* What is sent is what would be found.
LEMMA HeardIsFound ==
    ASSUME Shape, NEW e \in Event, Unexpired(e, now), ~StrayInvite(e),
           NEW c \in Conn, NEW s \in DOMAIN conn[c].subs
    PROVE  HeardOnce(e, c, s)
<1> DEFINE who == conn[c].who
           reader == Reader(who)
           held == conn[c].subs[s]
<1> SUFFICES ASSUME ~NamesGated(held, reader)
             PROVE  <<c, s>> \in Broadcast(e) <=>
                      \E f \in held : \E q \in Queries(f, reader) : e \in Rows(q, {e}, now)
  BY DEF HeardOnce
<1>1. held \subseteq Filter
  BY SubsShape
<1>2. \A f \in held : ~NamesLetters(f, reader)
  BY DEF NamesGated, NamesLetters
<1>3. \A f \in held : \A q \in Queries(f, reader) : e \in Rows(q, {e}, now) <=> Lets(q, e)
  BY <1>1, RowsOfOne
<1>4. \A f \in held : \A q \in Queries(f, reader) :
        Lets(q, e) => Matches(e, f) /\ MayReceive(who, e)
  BY <1>1, <1>2, GateSound DEF MaySee
<1>5. \A f \in held :
        Matches(e, f) /\ MayReceive(who, e) => \E q \in Queries(f, reader) : Lets(q, e)
  BY <1>1, GateComplete DEF MaySee
<1>6. <<c, s>> \in Broadcast(e) <=> MayReceive(who, e) /\ \E f \in held : Matches(e, f)
  BY DEF Broadcast
<1> QED
  BY <1>3, <1>4, <1>5, <1>6

\* THEOREM: the two gates agree. Whatever a socket has subscribed to, under
\* whatever identity then and now, and whatever groups were joined or left
\* meanwhile: it is sent an event when that is accepted if and only if asking
\* again would find it; the live feed hears only of what anybody may read. An
\* invite to no group of this relay is not accepted, and not heard of.
THEOREM HeardTheorem == Spec => HeardIfAskedAgain
<1> DEFINE Agree ==
             \A e \in Event : Insert(e) /\ ~StrayInvite(e) =>
               /\ \A c \in Conn : \A s \in DOMAIN conn[c].subs : HeardOnce(e, c, s)
               /\ LiveBroadcast(e) # {} => MayReceive(Nobody, e)
<1>1. Shape => Agree
  <2>1. ASSUME Shape, NEW e \in Event, Insert(e), ~StrayInvite(e),
               NEW c \in Conn, NEW s \in DOMAIN conn[c].subs
        PROVE  HeardOnce(e, c, s)
    BY <2>1, HeardIsFound DEF Insert
  <2>2. \A e \in Event : LiveBroadcast(e) # {} => MayReceive(Nobody, e)
    BY DEF LiveBroadcast, MayReceive
  <2> QED
    BY <2>1, <2>2
<1> HIDE DEF Agree
<1>2. Spec => [][Agree]_vars
  BY <1>1, ShapeInvariant, PTL
<1> QED
  BY <1>2 DEF HeardIfAskedAgain, Agree, HeardOnce

-----------------------------------------------------------------------------
(* The cache.                                                              *)

\* An answer none of whose events has expired since is the answer still.
LEMMA FreshIsRight ==
    ASSUME NEW q, q.filter.limit \in Nat, NEW S \in SUBSET Event,
           NEW t \in Nat, NEW u \in Nat, t <= u,
           \A e \in Rows(q, S, t) : Unexpired(e, u)
    PROVE  Rows(q, S, u) = Rows(q, S, t)
<1> DEFINE Found(v) == { e \in S : /\ Unexpired(e, v)
                                   /\ InPartition(e, q)
                                   /\ Matches(e, q.filter)
                                   /\ e.kind \notin q.excluded
                                   /\ \A tag \in Tags(q.filter) : e \in TagScan(q, tag, S) }
<1>1. Rows(q, S, t) = Newest(Found(t), q.filter.limit)
      /\ Rows(q, S, u) = Newest(Found(u), q.filter.limit)
  BY DEF Rows
<1>2. Found(t) \in SUBSET Event /\ Newest(Found(t), q.filter.limit) \subseteq Found(t)
  BY DEF Newest
<1>3. \A e \in Event : Unexpired(e, u) => Unexpired(e, t)
  BY ReadersAssumption DEF Unexpired
<1>4. Found(u) \in SUBSET Found(t)
  BY <1>3
<1>5. Newest(Found(t), q.filter.limit) \subseteq Found(u)
  BY <1>1, <1>2
<1> HIDE DEF Found
<1> QED
  BY <1>1, <1>2, <1>4, <1>5, NewestAmong

\* So what a query is answered with is what the table says now.
LEMMA RunIsRight ==
    ASSUME Shape, CacheSound, NEW q, q.filter.limit \in Nat
    PROVE  RunQuery(q) = Rows(q, stored, now)
<1>1. CASE q \in DOMAIN cache /\ StillFresh(cache[q])
  <2>1. PICK t \in Nat : t <= now /\ cache[q] = Rows(q, stored, t)
    BY <1>1 DEF CacheSound
  <2>2. \A e \in Rows(q, stored, t) : Unexpired(e, now)
    BY <1>1, <2>1 DEF StillFresh
  <2>3. Rows(q, stored, now) = Rows(q, stored, t)
    BY <2>1, <2>2, FreshIsRight DEF Shape
  <2> QED
    BY <1>1, <2>1, <2>3 DEF RunQuery
<1>2. CASE ~(q \in DOMAIN cache /\ StillFresh(cache[q]))
  BY <1>2 DEF RunQuery
<1> QED
  BY <1>1, <1>2

\* What the cache makes room for is part of what was written to it.
LEMMA EvictionsKeep ==
    ASSUME NEW K, NEW entries, DOMAIN entries = K, NEW left \in Evictions(entries)
    PROVE  DOMAIN left \subseteq K /\ \A q \in DOMAIN left : left[q] = entries[q]
BY DEF Evictions

\* What is written to the cache is right.
LEMMA WriteIsRight ==
    ASSUME Shape, CacheSound, NEW queries, WriteReqCache(queries),
           UNCHANGED <<stored, now>>
    PROVE  CacheSound'
<1> DEFINE written == { q \in queries : Cardinality(RunQuery(q)) <= CacheMax }
           entries == [q \in DOMAIN cache \union written |->
                         IF q \in written THEN RunQuery(q) ELSE cache[q]]
<1>1. cache' \in Evictions(entries)
  BY DEF WriteReqCache
<1>2. DOMAIN entries = DOMAIN cache \union written
  OBVIOUS
<1>3. DOMAIN cache' \subseteq DOMAIN cache \union written
      /\ \A q \in DOMAIN cache' : cache'[q] = entries[q]
  <2> HIDE DEF entries
  <2> QED
    BY <1>1, <1>2, EvictionsKeep
<1>4. \A q : \E t \in Nat : t <= now /\ RunQuery(q) = Rows(q, stored, t)
  BY DEF RunQuery, CacheSound, Shape
<1>5. ASSUME NEW q \in DOMAIN cache'
      PROVE  \E t \in Nat : t <= now /\ cache'[q] = Rows(q, stored, t)
  <2>1. q \in DOMAIN cache \union written /\ cache'[q] = entries[q]
    BY <1>3
  <2>2. CASE q \in written
    BY <1>4, <2>1, <2>2
  <2>3. CASE q \notin written
    BY <2>1, <2>3 DEF CacheSound
  <2> QED
    BY <2>2, <2>3
<1> QED
  BY <1>5 DEF CacheSound

\* The cache is sound throughout: every write to the table empties it.
LEMMA CacheInvariant == Spec => []CacheSound
<1>1. Init => CacheSound
  BY DEF Init, CacheSound
<1>2. ASSUME Shape, CacheSound, [Next]_vars PROVE CacheSound'
  <2> USE <1>2
  <2>1. ASSUME NEW c \in Conn, NEW frame \in Frame, RefuseReq(c, frame) PROVE CacheSound'
    BY <2>1 DEF RefuseReq, CacheSound
  <2>2. ASSUME NEW c \in Conn, NEW s \in SubId, NEW frame \in Frame, Req(c, s, frame)
        PROVE  CacheSound'
    <3>1. WriteReqCache(AskedQueries(frame, Reader(conn[c].who))) /\ UNCHANGED <<stored, now>>
      BY <2>2 DEF Req
    <3> QED
      BY <3>1, WriteIsRight
  <2>3. ASSUME NEW c \in Conn, NEW s \in SubId, CloseSub(c, s) PROVE CacheSound'
    BY <2>3 DEF CloseSub, CacheSound
  <2>4. ASSUME NEW c \in Conn, NEW p \in Pubkey, Auth(c, p) PROVE CacheSound'
    BY <2>4 DEF Auth, CacheSound
  <2>5. ASSUME NEW c \in Conn, Disconnect(c) PROVE CacheSound'
    BY <2>5 DEF Disconnect, CacheSound
  <2>6. ASSUME NEW e \in Event, Insert(e) \/ Delete(e) PROVE CacheSound'
    BY <2>6 DEF Insert, Delete, CacheAfterWrite, CacheSound
  <2>7. ASSUME NEW g \in Group, NEW p \in Pubkey, ChangeMember(g, p) PROVE CacheSound'
    BY <2>7 DEF ChangeMember, CacheSound
  <2>8. CASE Evict
    BY <2>8 DEF Evict, CacheSound
  <2>9. CASE Tick
    <3>1. now' = now + 1 /\ now \in Nat /\ UNCHANGED <<stored, cache>>
      BY <2>9 DEF Tick, Shape
    <3>2. \A t \in Nat : t <= now => t <= now'
      BY <3>1
    <3> QED
      BY <3>1, <3>2 DEF CacheSound
  <2>10. CASE UNCHANGED vars
    BY <2>10 DEF vars, CacheSound
  <2> QED
    BY <2>1, <2>2, <2>3, <2>4, <2>5, <2>6, <2>7, <2>8, <2>9, <2>10 DEF Next
<1> QED
  BY <1>1, <1>2, ShapeInvariant, PTL DEF Spec

-----------------------------------------------------------------------------
(* Answers.                                                                *)

\* What is asked of an admitted REQ names no letters of somebody else's.
LEMMA AskedNames ==
    ASSUME NEW frame, NEW reader, Admitted(frame, reader), NEW f \in Asked(frame, reader)
    PROVE  ~NamesLetters(f, reader)
<1>1. PICK o \in frame : f = BoundFilter(o, frame, reader)
  BY DEF Asked
<1>2. Named(f, "kinds") = Named(o, "kinds")
  BY <1>1, LimitKeeps DEF BoundFilter, Bounded, SetFields
<1>3. ~NamesLetters(o, reader)
  BY DEF Admitted, NamesGated, NamesLetters
<1> QED
  BY <1>2, <1>3 DEF NamesLetters

\* What a filter is answered with is the newest of what its reader may see.
LEMMA FilterIsRight ==
    ASSUME Shape, CacheSound, NEW who, NEW f \in Filter,
           ~NamesLetters(f, Reader(who)), ScansAll(f, Reader(who))
    PROVE  QueryFilter(f, Reader(who)) = Wanted(f, who)
<1> DEFINE reader == Reader(who)
           Q == Queries(f, reader)
           part == [q \in Q |-> { e \in stored : Unexpired(e, now) /\ Lets(q, e) }]
<1>1. f.limit \in Nat
  BY FilterShape
<1>2. part \in [Q -> SUBSET Event]
  BY DEF Shape
<1>3. ASSUME NEW q \in Q PROVE RunQuery(q) = Newest(part[q], f.limit)
  <2>1. q.filter.limit = f.limit /\ q.scan \in Nat /\ Tags(q.filter) = Tags(f)
    BY QueryFields
  <2>2. RunQuery(q) = Rows(q, stored, now)
    BY <1>1, <2>1, RunIsRight
  <2>3. \A tag \in Tags(q.filter) : Cardinality(TagRows(q, tag, stored)) <= q.scan
    BY <2>1 DEF ScansAll
  <2>4. Rows(q, stored, now) =
          Newest({ e \in stored : Unexpired(e, now) /\ Lets(q, e) }, q.filter.limit)
    BY <2>1, <2>3, RowsMeans DEF Shape
  <2> QED
    BY <2>1, <2>2, <2>4
<1>4. UNION { part[q] : q \in Q }
        = { e \in stored : Matches(e, f) /\ MaySee(who, e) /\ Unexpired(e, now) }
  <2>1. ASSUME NEW q \in Q, NEW e \in part[q]
        PROVE  Matches(e, f) /\ MaySee(who, e)
    BY GateSound DEF Shape
  <2>2. ASSUME NEW e \in stored, Matches(e, f), MaySee(who, e), Unexpired(e, now)
        PROVE  \E q \in Q : e \in part[q]
    <3>1. PICK q \in Q : Lets(q, e)
      BY <2>2, GateComplete DEF Shape
    <3> QED
      BY <2>2, <3>1
  <2> QED
    BY <2>1, <2>2
<1>5. UNION { RunQuery(q) : q \in Q } = UNION { Newest(part[q], f.limit) : q \in Q }
  BY <1>3
<1> HIDE DEF Q, part
<1>6. Newest(UNION { Newest(part[q], f.limit) : q \in Q }, f.limit)
        = Newest(UNION { part[q] : q \in Q }, f.limit)
  BY <1>1, <1>2, NewestOfParts
<1> QED
  BY <1>4, <1>5, <1>6 DEF QueryFilter, Wanted, Q

\* Whatever was cut off a scan, an answer holds nothing that has expired or is
\* not its reader's to see.
LEMMA AnswerIsSeen ==
    ASSUME Shape, CacheSound, NEW who, NEW frame \in Frame,
           Admitted(frame, Reader(who)), NEW e \in Answer(frame, Reader(who))
    PROVE  Unexpired(e, now) /\ MaySee(who, e)
<1> DEFINE reader == Reader(who)
<1>1. PICK f \in Asked(frame, reader) : e \in QueryFilter(f, reader)
  BY DEF Answer, Newest
<1>2. PICK q \in Queries(f, reader) : e \in RunQuery(q)
  BY <1>1 DEF QueryFilter, Newest
<1>3. f \in Filter
  BY AskedShape DEF Admitted
<1>4. RunQuery(q) = Rows(q, stored, now)
  BY <1>3, QueryFields, RunIsRight
<1>5. e \in stored /\ Unexpired(e, now) /\ Lets(q, e)
  BY <1>2, <1>4 DEF Rows, Newest, Lets
<1>6. ~NamesLetters(f, reader)
  BY AskedNames
<1> QED
  BY <1>3, <1>5, <1>6, GateSound DEF Shape

\* THEOREM: answers are right, for any filters, any reader and whatever was
\* cached for whom. With every row of a tag in reach of the scan they are the
\* newest of what the reader may see of the table as it is now; without, they
\* hold nothing else.
THEOREM AnswersTheorem == Spec => []AnswersAreRight
<1>1. ASSUME Shape, CacheSound PROVE AnswersAreRight
  <2> SUFFICES ASSUME NEW who \in Pubkey \union {Nobody}, NEW frame \in Frame,
                      Admitted(frame, Reader(who)),
                      \A f \in Asked(frame, Reader(who)) : ScansAll(f, Reader(who))
               PROVE  Answer(frame, Reader(who)) =
                        Newest(UNION { Wanted(f, who) : f \in Asked(frame, Reader(who)) },
                               MaxEventsPerReq)
    BY <1>1, AnswerIsSeen DEF AnswersAreRight
  <2>1. ASSUME NEW f \in Asked(frame, Reader(who))
        PROVE  QueryFilter(f, Reader(who)) = Wanted(f, who)
    <3>1. f \in Filter
      BY AskedShape DEF Admitted
    <3>2. ~NamesLetters(f, Reader(who))
      BY AskedNames
    <3> QED
      BY <1>1, <3>1, <3>2, FilterIsRight
  <2> QED
    BY <2>1 DEF Answer
<1> QED
  BY <1>1, ShapeInvariant, CacheInvariant, PTL

-----------------------------------------------------------------------------
(* The caps.                                                               *)

\* What a socket holds is finite.
FiniteHeld ==
    \A c \in Conn :
        /\ IsFiniteSet(DOMAIN conn[c].subs)
        /\ \A s \in DOMAIN conn[c].subs : IsFiniteSet(conn[c].subs[s])

\* A filter that may be held names finitely many values.
LEMMA ValuesFinite ==
    ASSUME NEW f \in Filter
    PROVE  IsFiniteSet(Values(f))
<1>1. PICK o \in UNION Frame, n \in 1 .. MaxFilterLimit : f = WithLimit(o, n)
  BY DEF Filter
<1>2. \A field \in SetFields : IsFiniteSet(Named(f, field))
  BY <1>1, LimitKeeps, ReadersAssumption
<1>3. IsFiniteSet(SetFields)
  <2>1. SetFields = (({"ids"} \union {"authors"}) \union ({"kinds"} \union {"p"})) \union {"h"}
    BY DEF SetFields, TagFields
  <2> QED
    BY <2>1, FS_Singleton, FS_Union
<1> DEFINE part == [field \in SetFields |-> Named(f, field)]
<1>4. \A field \in SetFields : IsFiniteSet(part[field])
  BY <1>2
<1>5. Values(f) = UNION { {field} \X part[field] : field \in SetFields }
  BY DEF Values
<1> HIDE DEF part
<1> QED
  BY <1>3, <1>4, <1>5, PairsFinite

\* So is what finitely many subscriptions to finitely many filters name.
LEMMA HeldFinite ==
    ASSUME NEW subs, IsFiniteSet(DOMAIN subs),
           \A s \in DOMAIN subs : IsFiniteSet(subs[s]) /\ subs[s] \subseteq Filter
    PROVE  IsFiniteSet(UNION { {s} \X UNION { {f} \X Values(f) : f \in subs[s] } : s \in DOMAIN subs })
<1> DEFINE values == [f \in Filter |-> Values(f)]
           part == [s \in DOMAIN subs |-> UNION { {f} \X Values(f) : f \in subs[s] }]
<1>1. ASSUME NEW s \in DOMAIN subs PROVE IsFiniteSet(part[s])
  <2>1. \A f \in subs[s] : IsFiniteSet(values[f])
    BY ValuesFinite
  <2>2. part[s] = UNION { {f} \X values[f] : f \in subs[s] }
    OBVIOUS
  <2> HIDE DEF values, part
  <2> QED
    BY <2>1, <2>2, PairsFinite
<1>2. UNION { {s} \X UNION { {f} \X Values(f) : f \in subs[s] } : s \in DOMAIN subs }
        = UNION { {s} \X part[s] : s \in DOMAIN subs }
  OBVIOUS
<1> HIDE DEF values, part
<1> QED
  BY <1>1, <1>2, PairsFinite

\* A subscription given up makes no connection hold more.
LEMMA HeldLess ==
    ASSUME NEW subs, IsFiniteSet(DOMAIN subs), NEW t,
           \A s \in DOMAIN subs : IsFiniteSet(subs[s]) /\ subs[s] \subseteq Filter,
           Held(subs) <= MaxHeld
    PROVE  Held([s \in DOMAIN subs \ {t} |-> subs[s]]) <= MaxHeld
<1> DEFINE left == [s \in DOMAIN subs \ {t} |-> subs[s]]
           all == UNION { {s} \X UNION { {f} \X Values(f) : f \in subs[s] } : s \in DOMAIN subs }
           fewer == UNION { {s} \X UNION { {f} \X Values(f) : f \in left[s] } : s \in DOMAIN left }
<1>1. fewer \subseteq all
  <2>1. \A s \in DOMAIN left : s \in DOMAIN subs /\ left[s] = subs[s]
    OBVIOUS
  <2> HIDE DEF left
  <2> QED
    BY <2>1
<1>2. IsFiniteSet(all)
  BY HeldFinite
<1>3. Held(subs) = Cardinality(all) /\ Held(left) = Cardinality(fewer)
  BY DEF Held
<1> HIDE DEF all, fewer
<1>4. /\ Cardinality(fewer) <= Cardinality(all)
      /\ Cardinality(fewer) \in Nat /\ Cardinality(all) \in Nat
  BY <1>1, <1>2, FS_Subset, FS_CardinalityType
<1> QED
  BY <1>3, <1>4, ReadersAssumption


\* What is asked of a REQ is finite, as the REQ is.
LEMMA AskedFinite ==
    ASSUME NEW frame \in Frame, NEW reader
    PROVE  IsFiniteSet(Asked(frame, reader))
<1> DEFINE g == [f \in frame |-> BoundFilter(f, frame, reader)]
<1>1. g \in Surjection(frame, Asked(frame, reader))
  BY DEF Surjection, Asked
<1> HIDE DEF g
<1> QED
  BY <1>1, FS_Surjection, ReadersAssumption

\* One more subscription than fewer than the cap is no more than the cap.
LEMMA SetSubFits ==
    ASSUME NEW subs, IsFiniteSet(DOMAIN subs), Cardinality(DOMAIN subs) <= MaxSubs,
           NEW s, NEW filters, s \in DOMAIN subs \/ Cardinality(DOMAIN subs) < MaxSubs
    PROVE  /\ IsFiniteSet(DOMAIN SetSub(subs, s, filters))
           /\ Cardinality(DOMAIN SetSub(subs, s, filters)) <= MaxSubs
<1>1. DOMAIN SetSub(subs, s, filters) = DOMAIN subs \union {s}
  BY DEF SetSub
<1>2. Cardinality(DOMAIN subs) \in Nat /\ MaxSubs \in Nat
  BY FS_CardinalityType, ReadersAssumption
<1>3. /\ IsFiniteSet(DOMAIN subs \union {s})
      /\ Cardinality(DOMAIN subs \union {s}) =
           IF s \in DOMAIN subs THEN Cardinality(DOMAIN subs) ELSE Cardinality(DOMAIN subs) + 1
  BY FS_AddElement
<1> QED
  BY <1>1, <1>2, <1>3

\* What TypeOK says of the sockets.
SocketsOK ==
    /\ DOMAIN conn = Conn
    /\ \A c \in Conn :
        /\ Cardinality(DOMAIN conn[c].subs) <= MaxSubs
        /\ Held(conn[c].subs) <= MaxHeld

\* A socket that is given subscriptions that fit keeps the sockets right.
LEMMA SocketKept ==
    ASSUME Shape, SocketsOK, FiniteHeld, NEW c \in Conn, NEW subs,
           conn' = [conn EXCEPT ![c].subs = subs],
           IsFiniteSet(DOMAIN subs), \A s \in DOMAIN subs : IsFiniteSet(subs[s]),
           Cardinality(DOMAIN subs) <= MaxSubs, Held(subs) <= MaxHeld
    PROVE  SocketsOK' /\ FiniteHeld'
<1>1. DOMAIN conn' = Conn
  BY DEF SocketsOK
<1>2. ASSUME NEW d \in Conn
      PROVE  conn'[d].subs = IF d = c THEN subs ELSE conn[d].subs
  BY DEF Shape
<1>3. SocketsOK'
  BY <1>1, <1>2 DEF SocketsOK
<1>4. FiniteHeld'
  BY <1>2 DEF FiniteHeld
<1> QED
  BY <1>3, <1>4

\* The cache keeps to its room.
CacheOK ==
    /\ \A q \in DOMAIN cache : cache[q] \subseteq Event
    /\ CachedEvents(cache) <= CacheMax

\* Nothing is in an empty cache.
LEMMA NothingCached == CachedEvents(<< >>) <= CacheMax
<1>1. CachedEvents(<< >>) = Cardinality({})
  <2> DEFINE none == << >>
  <2>1. DOMAIN none = {}
    OBVIOUS
  <2> HIDE DEF none
  <2>2. UNION { {q} \X none[q] : q \in DOMAIN none } = {}
    BY <2>1
  <2>3. CachedEvents(none) = Cardinality({})
    BY <2>2, Zenon DEF CachedEvents
  <2> QED
    BY <2>3 DEF none
<1> QED
  BY <1>1, FS_EmptySet, ReadersAssumption

\* What is written to the cache fits it.
LEMMA WriteFits ==
    ASSUME Shape, CacheOK, NEW queries, WriteReqCache(queries)
    PROVE  CacheOK'
<1> DEFINE written == { q \in queries : Cardinality(RunQuery(q)) <= CacheMax }
           entries == [q \in DOMAIN cache \union written |->
                         IF q \in written THEN RunQuery(q) ELSE cache[q]]
<1>1. cache' \in Evictions(entries)
  BY DEF WriteReqCache
<1>2. \A q : RunQuery(q) \subseteq Event
  BY DEF RunQuery, CacheOK, Rows, Newest, Shape
<1>3. \A q \in DOMAIN entries : entries[q] \subseteq Event
  BY <1>2 DEF CacheOK
<1> HIDE DEF entries
<1>4. /\ DOMAIN cache' \subseteq DOMAIN entries
      /\ \A q \in DOMAIN cache' : cache'[q] = entries[q]
  BY <1>1, EvictionsKeep
<1>5. CachedEvents(cache') <= CacheMax
  BY <1>1 DEF Evictions
<1> QED
  BY <1>3, <1>4, <1>5 DEF CacheOK

\* What else TypeOK says.
CountersOK == member \subseteq Group \X (Pubkey \ {Owner}) /\ reqs \in 0 .. MaxReqs

\* THEOREM: no socket passes its caps and the cache never its room, whatever is
\* asked, given up, cached and evicted.
THEOREM TypeCorrect == Spec => []TypeOK
<1> DEFINE Inv == SocketsOK /\ FiniteHeld /\ CacheOK /\ CountersOK
<1>1. Init => Inv
  <2> SUFFICES ASSUME Init PROVE Inv
    OBVIOUS
  <2>1. UNION { {s} \X UNION { {f} \X Values(f) : f \in << >>[s] } : s \in DOMAIN << >> } = {}
    OBVIOUS
  <2>2. Held(<< >>) = 0 /\ DOMAIN << >> = {}
    BY <2>1, FS_EmptySet DEF Held
  <2>3. SocketsOK /\ FiniteHeld
    BY <2>2, FS_EmptySet, ReadersAssumption DEF Init, Fresh, SocketsOK, FiniteHeld
  <2>4. CacheOK /\ CountersOK
    BY NothingCached, ReadersAssumption DEF Init, CacheOK, CountersOK
  <2> QED
    BY <2>3, <2>4
<1>2. ASSUME Shape, Inv, [Next]_vars PROVE Inv'
  <2> USE <1>2
  <2>1. ASSUME NEW c \in Conn, NEW frame \in Frame, RefuseReq(c, frame) PROVE Inv'
    <3>1. \A d \in Conn : conn'[d].subs = conn[d].subs
      BY <2>1 DEF RefuseReq, Shape
    <3>2. SocketsOK' /\ FiniteHeld'
      BY <2>1, <3>1 DEF RefuseReq, SocketsOK, FiniteHeld
    <3> QED
      BY <2>1, <3>2 DEF RefuseReq, CacheOK, CountersOK
  <2>2. ASSUME NEW c \in Conn, NEW s \in SubId, NEW frame \in Frame, Req(c, s, frame)
        PROVE  Inv'
    <3> DEFINE reader == Reader(conn[c].who)
               subs == SetSub(conn[c].subs, s, Asked(frame, reader))
    <3>1. \A t \in DOMAIN subs : IsFiniteSet(subs[t])
      BY AskedFinite DEF SetSub, FiniteHeld
    <3>2. IsFiniteSet(DOMAIN subs) /\ Cardinality(DOMAIN subs) <= MaxSubs
      BY <2>2, SetSubFits DEF Req, SocketsOK, FiniteHeld
    <3>3. conn' = [conn EXCEPT ![c].subs = subs] /\ Held(subs) <= MaxHeld
      BY <2>2 DEF Req
    <3>4. SocketsOK' /\ FiniteHeld'
      <4> HIDE DEF subs
      <4> QED
        BY <3>1, <3>2, <3>3, SocketKept
    <3>5. CacheOK'
      BY <2>2, WriteFits DEF Req
    <3>6. CountersOK'
      BY <2>2, ReadersAssumption DEF Req, CountersOK
    <3> QED
      BY <3>4, <3>5, <3>6
  <2>3. ASSUME NEW c \in Conn, NEW s \in SubId, CloseSub(c, s) PROVE Inv'
    <3> DEFINE subs == [t \in DOMAIN conn[c].subs \ {s} |-> conn[c].subs[t]]
    <3>1. conn' = [conn EXCEPT ![c].subs = subs]
      BY <2>3 DEF CloseSub, Shape
    <3>2. DOMAIN subs \in SUBSET DOMAIN conn[c].subs
      OBVIOUS
    <3>3. \A t \in DOMAIN subs : IsFiniteSet(subs[t])
      BY DEF FiniteHeld
    <3>4. Held(subs) <= MaxHeld
      BY SubsShape, HeldLess DEF FiniteHeld, SocketsOK
    <3> HIDE DEF subs
    <3>5. IsFiniteSet(DOMAIN subs) /\ Cardinality(DOMAIN subs) <= MaxSubs
      <4>1. IsFiniteSet(DOMAIN conn[c].subs) /\ Cardinality(DOMAIN conn[c].subs) <= MaxSubs
        BY DEF FiniteHeld, SocketsOK
      <4>2. /\ IsFiniteSet(DOMAIN subs)
            /\ Cardinality(DOMAIN subs) <= Cardinality(DOMAIN conn[c].subs)
        BY <3>2, <4>1, FS_Subset
      <4>3. /\ Cardinality(DOMAIN subs) \in Nat /\ Cardinality(DOMAIN conn[c].subs) \in Nat
            /\ MaxSubs \in Nat
        BY <4>1, <4>2, FS_CardinalityType, ReadersAssumption
      <4> QED
        BY <4>1, <4>2, <4>3
    <3>6. SocketsOK' /\ FiniteHeld'
      BY <3>1, <3>3, <3>4, <3>5, SocketKept
    <3> QED
      BY <2>3, <3>6 DEF CloseSub, CacheOK, CountersOK
  <2>4. ASSUME NEW c \in Conn, NEW p \in Pubkey, Auth(c, p) PROVE Inv'
    <3>1. \A d \in Conn : conn'[d].subs = conn[d].subs
      BY <2>4 DEF Auth, Shape
    <3>2. SocketsOK' /\ FiniteHeld'
      BY <2>4, <3>1 DEF Auth, SocketsOK, FiniteHeld
    <3> QED
      BY <2>4, <3>2 DEF Auth, CacheOK, CountersOK
  <2>5. ASSUME NEW c \in Conn, Disconnect(c) PROVE Inv'
    <3>1. /\ DOMAIN conn' = Conn
          /\ \A d \in Conn : conn'[d].subs = IF d = c THEN << >> ELSE conn[d].subs
      BY <2>5 DEF Disconnect, Fresh, Shape
    <3>2. UNION { {s} \X UNION { {f} \X Values(f) : f \in << >>[s] } : s \in DOMAIN << >> } = {}
      OBVIOUS
    <3>3. Held(<< >>) = 0 /\ DOMAIN << >> = {}
      BY <3>2, FS_EmptySet DEF Held
    <3>4. SocketsOK'
      BY <3>1, <3>3, FS_EmptySet, ReadersAssumption DEF SocketsOK
    <3>5. FiniteHeld'
      BY <3>1, <3>3, FS_EmptySet DEF FiniteHeld
    <3> QED
      BY <2>5, <3>4, <3>5 DEF Disconnect, CacheOK, CountersOK
  <2>6. ASSUME NEW e \in Event, Insert(e) \/ Delete(e) PROVE Inv'
    <3>1. cache' = << >> /\ UNCHANGED <<member, conn, reqs>>
      BY <2>6 DEF Insert, Delete, CacheAfterWrite
    <3> QED
      BY <3>1, NothingCached DEF SocketsOK, FiniteHeld, CacheOK, CountersOK
  <2>7. ASSUME NEW g \in Group, NEW p \in Pubkey, ChangeMember(g, p) PROVE Inv'
    BY <2>7 DEF ChangeMember, SocketsOK, FiniteHeld, CacheOK, CountersOK
  <2>8. CASE Evict
    BY <2>8, NothingCached DEF Evict, SocketsOK, FiniteHeld, CacheOK, CountersOK
  <2>9. CASE Tick
    BY <2>9 DEF Tick, SocketsOK, FiniteHeld, CacheOK, CountersOK
  <2>10. CASE UNCHANGED vars
    BY <2>10 DEF vars, SocketsOK, FiniteHeld, CacheOK, CountersOK
  <2> QED
    BY <2>1, <2>2, <2>3, <2>4, <2>5, <2>6, <2>7, <2>8, <2>9, <2>10 DEF Next
<1>3. Shape /\ Inv => TypeOK
  <2> SUFFICES ASSUME Shape, Inv PROVE TypeOK
    OBVIOUS
  <2>1. ASSUME NEW c \in Conn, NEW s \in DOMAIN conn[c].subs, NEW f \in conn[c].subs[s]
        PROVE  f.limit \in 1 .. MaxFilterLimit
    BY SubsShape, FilterShape
  <2>2. \A c \in Conn : conn[c].who \in Pubkey \union {Nobody} /\ conn[c].challenged \in BOOLEAN
    BY DEF Shape
  <2> QED
    BY <2>1, <2>2 DEF TypeOK, Shape, SocketsOK, CacheOK, CountersOK
<1> QED
  BY <1>1, <1>2, <1>3, ShapeInvariant, PTL DEF Spec
=============================================================================
