--------------------------- MODULE CountersProofs ---------------------------
(***************************************************************************)
(* The books balance, for any events, old rows, groups, hours and limits:  *)
(* a count is the number of rows in a set, so that what a step does to the *)
(* count is what it does to the set, and a sum over hours is the number of *)
(* the rows of those hours.  A row in the group partition is there by      *)
(* right, or is an old one whose tags still show the first migration where *)
(* it is; a pass of the second that changes nothing has nothing to change. *)
(***************************************************************************)
EXTENDS Counters, FiniteSetTheorems, WellFoundedInduction, TLAPS

\* A set of naturals with a member has a least one.
LEMMA LeastNat ==
    ASSUME NEW S, S \subseteq Nat, S # {}
    PROVE  \E x \in S : \A y \in S : x <= y
<1> DEFINE less == { s \in Nat \X Nat : s[1] < s[2] }
<1>1. IsWellFoundedOn(less, Nat)
  BY NatLessThanWellFounded DEF OpToRel
<1>2. PICK x \in S : \A y \in S : ~ (<<y, x>> \in less)
  BY <1>1, WFMin
<1>3. ASSUME NEW y \in S PROVE x <= y
  <2>1. x \in Nat /\ y \in Nat
    OBVIOUS
  <2>2. ~ (y < x)
    BY <1>2, <2>1
  <2> QED
    BY <2>1, <2>2
<1> QED
  BY <1>3

-----------------------------------------------------------------------------
(* Sums.                                                                   *)

\* Numbers that each count a set, no two of which meet, count together what
\* is in any of them.
LEMMA SumOfCounts ==
    ASSUME NEW S, IsFiniteSet(S), NEW f, DOMAIN f = S, NEW of,
           \A hour \in S : IsFiniteSet(of[hour]) /\ f[hour] = Cardinality(of[hour]),
           \A a, b \in S : a # b => of[a] \intersect of[b] = {}
    PROVE  SumFunction(f) = Cardinality(UNION { of[hour] : hour \in S })
<1> DEFINE all(s) == UNION { of[hour] : hour \in s }
           w == [s \in SUBSET S |-> Cardinality(all(s))]
           Adds(g) == g = [s \in SUBSET S |->
                        IF s = {} THEN 0 ELSE LET x == CHOOSE x \in s : TRUE IN f[x] + g[s \ {x}]]
           iter == CHOOSE g : Adds(g)
<1>1. SumFunction(f) = iter[S]
  BY DEF SumFunction, SumFunctionOnSet, FoldFunctionOnSet, MapThenFoldSet
<1>2. \A s \in SUBSET S : IsFiniteSet(s) /\ IsFiniteSet(all(s))
  <2> TAKE s \in SUBSET S
  <2>1. IsFiniteSet(s)
    BY FS_Subset
  <2>2. IsFiniteSet({ of[hour] : hour \in s })
    <3>1. [hour \in s |-> of[hour]] \in Surjection(s, { of[hour] : hour \in s })
      BY DEF Surjection
    <3> QED
      BY <2>1, <3>1, FS_Surjection
  <2> QED
    BY <2>1, <2>2, FS_UNION
<1>3. \A s \in SUBSET S : w[s] \in Nat
  BY <1>2, FS_CardinalityType
<1>4. w[{}] = 0
  <2>1. all({}) = {}
    OBVIOUS
  <2> QED
    BY <2>1, FS_EmptySet
\* One bucket more is what it counts more.
<1>5. ASSUME NEW s \in SUBSET S, NEW x \in s
      PROVE  w[s] = f[x] + w[s \ {x}]
  <2>1. all(s) = of[x] \union all(s \ {x}) /\ of[x] \intersect all(s \ {x}) = {}
    OBVIOUS
  <2>2. s \ {x} \in SUBSET S
    OBVIOUS
  <2> HIDE DEF all
  <2>3. IsFiniteSet(of[x]) /\ IsFiniteSet(all(s \ {x}))
    BY <1>2, <2>2
  <2>4. Cardinality(all(s)) = Cardinality(of[x]) + Cardinality(all(s \ {x}))
    <3> DEFINE rest == all(s \ {x})
    <3>1. Cardinality(all(s)) =
            Cardinality(of[x]) + Cardinality(rest) - Cardinality(of[x] \intersect rest)
      BY <2>1, <2>3, FS_Union
    <3>2. Cardinality(of[x] \intersect rest) = 0
      BY <2>1, FS_EmptySet
    <3>3. Cardinality(of[x]) \in Nat /\ Cardinality(rest) \in Nat
      BY <2>3, FS_CardinalityType
    <3> QED
      BY <3>1, <3>2, <3>3
  <2> QED
    BY <2>2, <2>4
<1> HIDE DEF all
<1>6. Adds(w)
  <2>1. ASSUME NEW s \in SUBSET S
        PROVE  Cardinality(all(s)) = IF s = {} THEN 0
                      ELSE LET x == CHOOSE x \in s : TRUE IN f[x] + w[s \ {x}]
    <3>1. w[s] = Cardinality(all(s))
      OBVIOUS
    <3> HIDE DEF w
    <3>2. CASE s = {}
      BY <1>4, <3>1, <3>2
    <3>3. CASE s # {}
      BY <1>5, <3>1, <3>3
    <3> QED
      BY <3>2, <3>3
  <2> QED
    BY <2>1
<1> HIDE DEF w
<1>7. Adds(iter)
  <2> HIDE DEF Adds
  <2> QED
    BY <1>6
<1> HIDE DEF iter
\* The sum is the only function of that kind: where it differed first, it
\* would not.
<1>8. \A s \in SUBSET S : iter[s] = w[s]
  <2> DEFINE sizes == { Cardinality(s) : s \in { t \in SUBSET S : iter[t] # w[t] } }
  <2> SUFFICES ASSUME sizes # {} PROVE FALSE
    OBVIOUS
  <2>1. sizes \subseteq Nat
    BY <1>2, FS_CardinalityType
  <2>2. PICK n \in sizes : \A m \in sizes : n <= m
    BY <2>1, LeastNat
  <2>3. PICK s \in SUBSET S : iter[s] # w[s] /\ Cardinality(s) = n
    BY <2>2
  <2>4. s # {}
    BY <1>4, <1>7, <2>3
  <2> DEFINE x == CHOOSE x \in s : TRUE
  <2>5. x \in s /\ s \ {x} \in SUBSET S
    BY <2>4
  <2>6. iter[s] = f[x] + iter[s \ {x}]
    BY <1>7, <2>4
  <2> HIDE DEF x
  <2>7. iter[s \ {x}] # w[s \ {x}]
    BY <1>5, <2>3, <2>5, <2>6
  <2>8. Cardinality(s \ {x}) = Cardinality(s) - 1
    BY <1>2, <2>5, FS_RemoveElement
  <2>9. Cardinality(s) \in Nat /\ n <= Cardinality(s \ {x})
    BY <1>2, <2>2, <2>5, <2>7, FS_CardinalityType
  <2> QED
    BY <2>3, <2>8, <2>9
<1>9. w[S] = Cardinality(all(S))
  BY DEF w
<1> QED
  BY <1>1, <1>8, <1>9 DEF all
-----------------------------------------------------------------------------
(* The invariant.                                                          *)

\* The rows of an hour, by when they were created and by when they came in.
CreatedIn == [hour \in Hour |-> { row \in rows : row.event.hour = hour }]
CameIn == [hour \in Hour |-> { row \in rows : row.ingested = hour }]

\* Every bucket counts its rows, and a row has its bucket.
Agrees(counts, of) ==
    /\ DOMAIN counts \subseteq Hour /\ IsFiniteSet(DOMAIN counts)
    /\ \A hour \in Hour :
        IF hour \in DOMAIN counts THEN counts[hour] = Tally(of[hour]) ELSE of[hour] = {}

\* `events` is keyed by the event.
RowsSound ==
    /\ rows \subseteq Row /\ IsFiniteSet(rows)
    /\ \A r, s \in rows : r.event = s.event => r = s

TagsSound ==
    /\ tags \subseteq Tag
    /\ TagsFollow

\* What has been seeded agrees, and all has been once the schema is current.
CountsSound ==
    /\ maintained \in {{}, Totals(Tally(rows))}
    /\ maintained = {} => schema = "old"
    /\ \/ maintained = {} /\ hourCounts = << >>
       \/ Agrees(hourCounts, CreatedIn)
    /\ \/ cut /\ DOMAIN ingestCounts \subseteq Hour
       \/ schema = "old" /\ ingestCounts = << >>
       \/ Agrees(ingestCounts, CameIn)
    /\ audit.drift => cut

\* The rest of the types, and where the cron can be.
Shape ==
    /\ groups \subseteq Group
    /\ hostedGroups \in {Unread, {groups}}
    /\ schema \in {"old", "current"}
    /\ schema = "old" => hostedGroups = Unread
    /\ {scopeFixed, multiGroup, membersTable, changed, cut} \subseteq BOOLEAN
    /\ audit \in [at : Hour \union {NoHour}, drift : BOOLEAN]
    /\ now \in Hour
    /\ cron \in {"idle", "fix", "move", "stamp", "audit"}
    /\ schema = "current" => Top \in groups
    /\ cron # "idle" => schema = "current"

\* What a pass has selected is what it may change.
TodoSound ==
    /\ todo \subseteq rows /\ Cardinality(todo) <= Limit
    /\ \A row \in todo : row.isGroup
    /\ cron \in {"idle", "audit"} => todo = {}
    /\ cron = "move" => ~multiGroup \/ todo = {}
    /\ cron = "move" => \A row \in todo : row.event.public
    /\ cron = "stamp" => ~multiGroup \/ todo = {}
    /\ cron = "stamp" => \A row \in todo : row.groupId = NoGroup

\* An old row that has all its tags, by which the first migration finds it.
Findable(row) ==
    /\ \E o \in Old : o.event = row.event
    /\ IsAnyGroupEvent(row.event)
    /\ \A i \in DOMAIN row.event.h : \E t \in tags : t.event = row.event /\ t.value = row.event.h[i]

\* A row is in the partition by right, or will be found.
ScopeSound ==
    \A row \in { r \in rows : r.isGroup } :
        /\ GroupIdOf(row.event) \in groups \/ Findable(row)
        /\ row.groupId \in {NoGroup, GroupIdOf(row.event)}
        /\ scopeFixed => GroupIdOf(row.event) \in groups /\ (row.event.metadata => row.event.own)

\* Nothing in the partition is of the kinds anybody may read.
NonePublic == \A row \in rows : row.isGroup => ~row.event.public

\* A row that awaits its group's id and names one.
Awaits(row) == row.isGroup /\ row.groupId = NoGroup /\ GroupIdOf(row.event) # NoGroup

\* A pass of the second migration that has changed nothing so far has had
\* nothing to move, and has the stamping of a row before it if one is left.
PassSound ==
    /\ multiGroup => NonePublic /\ \A row \in rows : ~Awaits(row)
    /\ ~multiGroup /\ ~changed =>
        /\ cron = "move" /\ todo = {} => NonePublic
        /\ cron = "stamp" =>
            /\ NonePublic
            /\ (\E row \in rows : Awaits(row)) => \E row \in todo : Awaits(row)

BooksInv == RowsSound /\ TagsSound /\ CountsSound /\ Shape /\ TodoSound /\ ScopeSound
-----------------------------------------------------------------------------
(* Tallies.                                                                *)

\* A tally is two counts.
LEMMA TallyType ==
    ASSUME NEW some, IsFiniteSet(some)
    PROVE  Tally(some) \in Bucket
<1>1. IsFiniteSet({ row \in some : row.isGroup })
  BY FS_Subset
<1> QED
  BY <1>1, FS_CardinalityType DEF Tally, Bucket

\* Nothing counts as nothing.
LEMMA TallyNone == Tally({}) = [n |-> 0, group_n |-> 0]
<1>1. { row \in {} : row.isGroup } = {}
  OBVIOUS
<1> QED
  BY <1>1, FS_EmptySet DEF Tally

\* A row more counts as one more, in its partition too.
LEMMA TallyMore ==
    ASSUME NEW some, IsFiniteSet(some), NEW row, row \notin some, row.isGroup \in BOOLEAN
    PROVE  /\ IsFiniteSet(some \union {row})
           /\ Tally(some \union {row}).n = Tally(some).n + 1
           /\ Tally(some \union {row}).group_n = Tally(some).group_n + Half(row.isGroup)
<1> DEFINE grouped(of) == { r \in of : r.isGroup }
<1>1. /\ IsFiniteSet(some \union {row})
      /\ Cardinality(some \union {row}) = Cardinality(some) + 1
  BY FS_AddElement
<1>2. IsFiniteSet(grouped(some)) /\ Cardinality(grouped(some)) \in Nat
  BY FS_Subset, FS_CardinalityType
<1>3. CASE row.isGroup
  <2>1. grouped(some \union {row}) = grouped(some) \union {row} /\ row \notin grouped(some)
    BY <1>3
  <2> HIDE DEF grouped
  <2>2. Cardinality(grouped(some \union {row})) = Cardinality(grouped(some)) + 1
    BY <1>2, <2>1, FS_AddElement
  <2> QED
    BY <1>1, <1>3, <2>2 DEF Tally, Half, grouped
<1>4. CASE ~row.isGroup
  <2>1. grouped(some \union {row}) = grouped(some)
    BY <1>4
  <2> QED
    BY <1>1, <1>2, <1>4, <2>1 DEF Tally, Half
<1> QED
  BY <1>3, <1>4

\* And one less as one less.
LEMMA TallyLess ==
    ASSUME NEW some, IsFiniteSet(some), NEW row \in some, row.isGroup \in BOOLEAN
    PROVE  /\ IsFiniteSet(some \ {row})
           /\ Tally(some \ {row}).n = Tally(some).n - 1
           /\ Tally(some \ {row}).group_n = Tally(some).group_n - Half(row.isGroup)
<1> DEFINE fewer == some \ {row}
<1>1. IsFiniteSet(fewer) /\ row \notin fewer /\ some = fewer \union {row}
  BY FS_Subset
<1> HIDE DEF fewer
<1>2. /\ Tally(some).n = Tally(fewer).n + 1
      /\ Tally(some).group_n = Tally(fewer).group_n + Half(row.isGroup)
  BY <1>1, TallyMore
<1>3. Tally(fewer).n \in Nat /\ Tally(fewer).group_n \in Nat
  BY <1>1, TallyType DEF Bucket
<1>4. Half(row.isGroup) \in {0, 1}
  BY DEF Half
<1> QED
  BY <1>1, <1>2, <1>3, <1>4 DEF fewer

\* A row in another's place counts by the difference of their partitions.
LEMMA TallySwap ==
    ASSUME NEW some, IsFiniteSet(some), NEW row \in some, row.isGroup \in BOOLEAN,
           NEW new, new \notin some, new.isGroup \in BOOLEAN
    PROVE  /\ IsFiniteSet((some \ {row}) \union {new})
           /\ Tally((some \ {row}) \union {new}).n = Tally(some).n
           /\ Tally((some \ {row}) \union {new}).group_n =
                Tally(some).group_n - Half(row.isGroup) + Half(new.isGroup)
<1> DEFINE fewer == some \ {row}
<1>1. /\ IsFiniteSet(fewer) /\ new \notin fewer
      /\ Tally(fewer).n = Tally(some).n - 1
      /\ Tally(fewer).group_n = Tally(some).group_n - Half(row.isGroup)
  BY TallyLess
<1> HIDE DEF fewer
<1>2. /\ IsFiniteSet(fewer \union {new})
      /\ Tally(fewer \union {new}).n = Tally(fewer).n + 1
      /\ Tally(fewer \union {new}).group_n = Tally(fewer).group_n + Half(new.isGroup)
  BY <1>1, TallyMore
<1>3. Tally(some).n \in Nat
  BY TallyType DEF Bucket
<1> QED
  BY <1>1, <1>2, <1>3 DEF fewer

\* Two tallies are the same that count the same.
LEMMA TallySame ==
    ASSUME NEW some, NEW others, Tally(some).n = Tally(others).n,
           Tally(some).group_n = Tally(others).group_n
    PROVE  Tally(some) = Tally(others)
BY DEF Tally
-----------------------------------------------------------------------------
(* Buckets.                                                                *)

\* The hour a row is added to has a bucket afterwards that counts it.
LEMMA UpsertAgrees ==
    ASSUME NEW counts, NEW of, Agrees(counts, of), NEW hour \in Hour, IsFiniteSet(of[hour]),
           NEW row, row.isGroup \in BOOLEAN, row \notin of[hour],
           NEW new, new[hour] = of[hour] \union {row}, \A k \in Hour \ {hour} : new[k] = of[k]
    PROVE  Agrees(Upsert(counts, hour, 1, Half(row.isGroup)), new)
<1> DEFINE after == Upsert(counts, hour, 1, Half(row.isGroup))
<1>1. DOMAIN after = DOMAIN counts \union {hour}
  BY DEF Upsert
<1>2. DOMAIN after \subseteq Hour /\ IsFiniteSet(DOMAIN after)
  BY <1>1, FS_AddElement DEF Agrees
<1>3. /\ Tally(new[hour]).n = Tally(of[hour]).n + 1
      /\ Tally(new[hour]).group_n = Tally(of[hour]).group_n + Half(row.isGroup)
  BY TallyMore
<1>4. after[hour] = Tally(new[hour])
  <2>1. CASE hour \in DOMAIN counts
    <3>1. counts[hour] = Tally(of[hour])
      BY <2>1 DEF Agrees
    <3> QED
      BY <1>3, <2>1, <3>1 DEF Upsert, Tally
  <2>2. CASE hour \notin DOMAIN counts
    <3>1. Tally(of[hour]).n = 0 /\ Tally(of[hour]).group_n = 0
      BY <2>2, TallyNone DEF Agrees
    <3>2. Half(row.isGroup) \in {0, 1}
      BY DEF Half
    <3>3. Tally(new[hour]).n = 1 /\ Tally(new[hour]).group_n = Half(row.isGroup)
      BY <1>3, <3>1, <3>2
    <3>4. after[hour] = [n |-> 1, group_n |-> Half(row.isGroup)]
      BY <2>2 DEF Upsert
    <3> QED
      BY <3>3, <3>4 DEF Tally
  <2> QED
    BY <2>1, <2>2
<1>5. ASSUME NEW k \in Hour \ {hour}
      PROVE  IF k \in DOMAIN after THEN after[k] = Tally(new[k]) ELSE new[k] = {}
  BY <1>1, <1>5 DEF Upsert, Agrees
<1> HIDE DEF after
<1>6. Agrees(after, new)
  BY <1>1, <1>2, <1>4, <1>5 DEF Agrees
<1> QED
  BY <1>6 DEF after

\* The hour a row is changed in, or taken out of, has a bucket, which is
\* lowered by as much.
LEMMA LowerAgrees ==
    ASSUME NEW counts, NEW of, Agrees(counts, of), NEW hour \in Hour, IsFiniteSet(of[hour]),
           of[hour] # {}, NEW n \in Int, NEW group_n \in Int,
           NEW new, \A k \in Hour \ {hour} : new[k] = of[k],
           Tally(new[hour]).n = Tally(of[hour]).n - n,
           Tally(new[hour]).group_n = Tally(of[hour]).group_n - group_n
    PROVE  Agrees(Lower(counts, hour, n, group_n), new)
<1> DEFINE after == Upsert(counts, hour, -n, -group_n)
<1>1. hour \in DOMAIN counts /\ counts[hour] = Tally(of[hour])
  BY DEF Agrees
<1>2. DOMAIN after = DOMAIN counts
  BY <1>1 DEF Upsert
<1>3. after[hour] = Tally(new[hour])
  <2>1. Tally(of[hour]).n \in Nat /\ Tally(of[hour]).group_n \in Nat
    BY TallyType DEF Bucket
  <2> QED
    BY <1>1, <2>1 DEF Upsert, Tally
<1>4. \A k \in Hour \ {hour} : k \in DOMAIN counts => after[k] = counts[k]
  BY DEF Upsert
<1> HIDE DEF after
<1>5. Agrees(after, new)
  BY <1>1, <1>2, <1>3, <1>4 DEF Agrees
<1> QED
  BY <1>1, <1>5 DEF Lower, after

\* What has the same rows in each hour, or rows that count the same, agrees.
LEMMA SameAgrees ==
    ASSUME NEW counts, NEW of, NEW new, Agrees(counts, of),
           \A k \in Hour : Tally(new[k]) = Tally(of[k]) /\ (of[k] = {} => new[k] = {})
    PROVE  Agrees(counts, new)
BY DEF Agrees
-----------------------------------------------------------------------------
(* What a change of the rows does to the counts.                           *)

\* The rows of an hour are finitely many and of no other hour.
LEMMA HoursShape ==
    ASSUME RowsSound, NEW hour \in Hour
    PROVE  /\ CreatedIn[hour] \subseteq rows /\ IsFiniteSet(CreatedIn[hour])
           /\ CameIn[hour] \subseteq rows /\ IsFiniteSet(CameIn[hour])
<1>1. CreatedIn[hour] \subseteq rows /\ CameIn[hour] \subseteq rows
  BY DEF CreatedIn, CameIn
<1> QED
  BY <1>1, FS_Subset DEF RowsSound

\* The types of a row's fields.
LEMMA RowShape ==
    ASSUME NEW row \in Row
    PROVE  /\ row.event \in Event /\ row.event.hour \in Hour
           /\ row.isGroup \in BOOLEAN
           /\ row.ingested \in Hour \union {NoHour} /\ NoHour \notin Hour
           /\ row.groupId \in Group \union {NoGroup}
BY CountersAssumption DEF Row, NoHour

\* Once the schema is current everything has been seeded.
LEMMA CountsNow ==
    ASSUME CountsSound, schema = "current"
    PROVE  /\ maintained = Totals(Tally(rows))
           /\ Agrees(hourCounts, CreatedIn)
           /\ cut \/ Agrees(ingestCounts, CameIn)
           /\ DOMAIN ingestCounts \subseteq Hour
BY DEF CountsSound, Totals, Agrees

\* What is added to the totals.
LEMMA BumpTotals ==
    ASSUME NEW n, NEW group_n, NEW tally, NEW new, maintained = Totals(tally), Bump(n, group_n),
           new.n = tally.n + n, new.group_n = tally.group_n + group_n
    PROVE  maintained' = Totals(new)
BY DEF Bump, Totals

\* A row that is added is counted.
LEMMA InsertCounts ==
    ASSUME RowsSound, CountsSound, schema = "current", NEW row \in Row, row \notin rows,
           rows' = rows \union {row}, UNCHANGED <<schema, audit>>,
           BumpEventCounters(row.event, 1, row.isGroup),
           \/ cut' /\ DOMAIN ingestCounts' \subseteq Hour
           \/ /\ row.ingested \in Hour /\ cut' = cut
              /\ ingestCounts' = Upsert(ingestCounts, row.ingested, 1, Half(row.isGroup)),
           cut => cut'
    PROVE  CountsSound'
<1>1. maintained' = Totals(Tally(rows'))
  <2>1. /\ Tally(rows').n = Tally(rows).n + 1
        /\ Tally(rows').group_n = Tally(rows).group_n + Half(row.isGroup)
    BY TallyMore, RowShape DEF RowsSound
  <2>2. maintained = Totals(Tally(rows)) /\ Bump(1, 1 * Half(row.isGroup))
    BY CountsNow DEF BumpEventCounters
  <2>3. 1 * Half(row.isGroup) = Half(row.isGroup)
    BY DEF Half
  <2> QED
    BY <2>1, <2>2, <2>3, BumpTotals
<1>2. Agrees(hourCounts', CreatedIn')
  <2> DEFINE hour == row.event.hour
  <2>1. hourCounts' = Upsert(hourCounts, hour, 1, Half(row.isGroup))
    BY DEF BumpEventCounters
  <2>2. /\ hour \in Hour /\ row \notin CreatedIn[hour] /\ CreatedIn'[hour] = CreatedIn[hour] \union {row}
        /\ \A k \in Hour \ {hour} : CreatedIn'[k] = CreatedIn[k]
    BY RowShape DEF CreatedIn
  <2> HIDE DEF hour
  <2> QED
    BY <2>1, <2>2, UpsertAgrees, HoursShape, CountsNow, RowShape
<1>3. (cut' /\ DOMAIN ingestCounts' \subseteq Hour) \/ Agrees(ingestCounts', CameIn')
  <2> DEFINE hour == row.ingested
  <2> SUFFICES ASSUME hour \in Hour, cut' = cut,
                      ingestCounts' = Upsert(ingestCounts, hour, 1, Half(row.isGroup))
               PROVE  (cut /\ DOMAIN ingestCounts' \subseteq Hour) \/ Agrees(ingestCounts', CameIn')
    OBVIOUS
  <2>1. CASE cut
    BY <2>1, CountsNow DEF Upsert
  <2>2. CASE ~cut
    <3>1. /\ row \notin CameIn[hour] /\ CameIn'[hour] = CameIn[hour] \union {row}
          /\ \A k \in Hour \ {hour} : CameIn'[k] = CameIn[k]
      BY DEF CameIn
    <3> HIDE DEF hour
    <3> QED
      BY <2>2, <3>1, UpsertAgrees, HoursShape, CountsNow, RowShape
  <2> QED
    BY <2>1, <2>2
<1> QED
  BY <1>1, <1>2, <1>3 DEF CountsSound, Totals

\* A row that is removed is counted out, by the partition it was in.
LEMMA RemoveCounts ==
    ASSUME RowsSound, CountsSound, schema = "current", NEW row \in rows, Remove(row),
           UNCHANGED <<schema, audit, cut>>
    PROVE  CountsSound'
<1>1. row \in Row
  BY DEF RowsSound
<1>2. rows' = rows \ {row}
  BY DEF Remove
<1>3. maintained' = Totals(Tally(rows'))
  <2>1. /\ Tally(rows').n = Tally(rows).n - 1
        /\ Tally(rows').group_n = Tally(rows).group_n - Half(row.isGroup)
    BY <1>1, <1>2, TallyLess, RowShape DEF RowsSound
  <2>2. maintained = Totals(Tally(rows))
    BY CountsNow
  <2>5. Bump(-1, (-1) * Half(row.isGroup))
    <3>1. BumpEventCounters(row.event, -1, row.isGroup)
      BY DEF Remove
    <3> QED
      BY <3>1, Zenon DEF BumpEventCounters
  <2>3. Tally(rows) \in Bucket
    BY TallyType DEF RowsSound
  <2>4. /\ Tally(rows').n = Tally(rows).n + (-1)
        /\ Tally(rows').group_n = Tally(rows).group_n + (-1) * Half(row.isGroup)
    BY <2>1, <2>3 DEF Half, Bucket
  <2> QED
    BY <2>2, <2>4, <2>5, BumpTotals
<1>4. Agrees(hourCounts', CreatedIn')
  <2>1. PICK hour \in Hour : hour = row.event.hour
    BY <1>1, RowShape
  <2>2. hourCounts' = Lower(hourCounts, hour, 1, Half(row.isGroup))
    BY <2>1 DEF Remove, BumpEventCounters
  <2>3. /\ row \in CreatedIn[hour] /\ CreatedIn'[hour] = CreatedIn[hour] \ {row}
        /\ \A k \in Hour \ {hour} : CreatedIn'[k] = CreatedIn[k]
    BY <1>2, <2>1 DEF CreatedIn
  <2>4. /\ Tally(CreatedIn'[hour]).n = Tally(CreatedIn[hour]).n - 1
        /\ Tally(CreatedIn'[hour]).group_n = Tally(CreatedIn[hour]).group_n - Half(row.isGroup)
    BY <1>1, <2>3, TallyLess, HoursShape, RowShape
  <2>5. Half(row.isGroup) \in Int
    BY DEF Half
  <2>6. Agrees(hourCounts, CreatedIn) /\ IsFiniteSet(CreatedIn[hour]) /\ CreatedIn[hour] # {}
    BY <2>3, HoursShape, CountsNow
  <2>7. \A k \in Hour \ {hour} : CreatedIn'[k] = CreatedIn[k]
    BY <2>3
  <2>8. Agrees(Lower(hourCounts, hour, 1, Half(row.isGroup)), CreatedIn')
    BY <2>4, <2>5, <2>6, <2>7, LowerAgrees
  <2> QED
    BY <2>2, <2>8
<1>5. (cut /\ DOMAIN ingestCounts' \subseteq Hour) \/ Agrees(ingestCounts', CameIn')
  <2> DEFINE hour == row.ingested
  <2>1. ingestCounts' = IF hour = NoHour THEN ingestCounts ELSE Lower(ingestCounts, hour, 1, Half(row.isGroup))
    BY DEF Remove, LowerIngest
  <2>2. CASE cut
    BY <2>1, <2>2, CountsNow DEF Lower, Upsert
  <2>3. CASE ~cut /\ hour = NoHour
    <3>1. \A k \in Hour : CameIn'[k] = CameIn[k]
      BY <1>1, <1>2, <2>3, RowShape DEF CameIn
    <3> QED
      BY <2>1, <2>3, <3>1, CountsNow, SameAgrees
  <2>4. CASE ~cut /\ hour # NoHour
    <3>1. PICK k \in Hour : k = hour
      BY <1>1, <2>4, RowShape
    <3>2. /\ row \in CameIn[k] /\ CameIn'[k] = CameIn[k] \ {row}
          /\ \A other \in Hour \ {k} : CameIn'[other] = CameIn[other]
      BY <1>2, <3>1 DEF CameIn
    <3>3. /\ Tally(CameIn'[k]).n = Tally(CameIn[k]).n - 1
          /\ Tally(CameIn'[k]).group_n = Tally(CameIn[k]).group_n - Half(row.isGroup)
      BY <1>1, <3>2, TallyLess, HoursShape, RowShape
    <3>4. Half(row.isGroup) \in Int
      BY DEF Half
    <3>5. Agrees(ingestCounts, CameIn) /\ IsFiniteSet(CameIn[k]) /\ CameIn[k] # {}
      BY <2>4, <3>2, HoursShape, CountsNow
    <3>6. \A other \in Hour \ {k} : CameIn'[other] = CameIn[other]
      BY <3>2
    <3>7. Agrees(Lower(ingestCounts, k, 1, Half(row.isGroup)), CameIn')
      BY <3>3, <3>4, <3>5, <3>6, LowerAgrees
    <3> QED
      BY <2>1, <2>4, <3>1, <3>7
  <2> QED
    BY <2>2, <2>3, <2>4
<1> QED
  BY <1>3, <1>4, <1>5 DEF CountsSound, Totals

\* What takes the place of a row in the table takes it in its hours.
LEMMA SwapHours ==
    ASSUME RowsSound, NEW row \in rows, NEW new \in Row, new.event = row.event, new # row,
           new.ingested = row.ingested, rows' = (rows \ {row}) \union {new}
    PROVE  /\ new \notin rows /\ row \in Row
           /\ \A hour \in Hour :
                /\ CreatedIn'[hour] = IF hour = row.event.hour THEN (CreatedIn[hour] \ {row}) \union {new}
                                      ELSE CreatedIn[hour]
                /\ CameIn'[hour] = IF hour = row.ingested THEN (CameIn[hour] \ {row}) \union {new}
                                   ELSE CameIn[hour]
<1>1. new \notin rows /\ row \in Row
  BY DEF RowsSound
<1>2. ASSUME NEW hour \in Hour
      PROVE  /\ CreatedIn'[hour] = IF hour = row.event.hour THEN (CreatedIn[hour] \ {row}) \union {new}
                                   ELSE CreatedIn[hour]
             /\ CameIn'[hour] = IF hour = row.ingested THEN (CameIn[hour] \ {row}) \union {new}
                                ELSE CameIn[hour]
  BY DEF CreatedIn, CameIn
<1> QED
  BY <1>1, <1>2

\* A row that becomes public is counted out of the group partition only.
LEMMA PublishCounts ==
    ASSUME RowsSound, CountsSound, schema = "current", NEW row \in rows, row.isGroup = TRUE, Publish(row),
           UNCHANGED <<schema, audit, cut>>
    PROVE  CountsSound'
<1>1. PICK new : new = [row EXCEPT !.isGroup = FALSE]
  OBVIOUS
<1>2. /\ row \in Row /\ new \in Row /\ new.isGroup = FALSE /\ new.event = row.event
      /\ new.ingested = row.ingested /\ new # row
  BY <1>1 DEF RowsSound, Row
<1>3. rows' = (rows \ {row}) \union {new}
  BY <1>1 DEF Publish, Replace
<1>4. /\ new \notin rows
      /\ \A hour \in Hour :
          /\ CreatedIn'[hour] = IF hour = row.event.hour THEN (CreatedIn[hour] \ {row}) \union {new}
                                ELSE CreatedIn[hour]
          /\ CameIn'[hour] = IF hour = row.ingested THEN (CameIn[hour] \ {row}) \union {new}
                             ELSE CameIn[hour]
  BY <1>2, <1>3, SwapHours
\* In any set it was in, it is counted one less as a group's.
<1>5. ASSUME NEW some, some \subseteq rows, row \in some
      PROVE  /\ Tally((some \ {row}) \union {new}).n = Tally(some).n - 0
             /\ Tally((some \ {row}) \union {new}).group_n = Tally(some).group_n - 1
  <2>1. IsFiniteSet(some) /\ new \notin some
    BY <1>4, <1>5, FS_Subset DEF RowsSound
  <2>2. /\ Tally((some \ {row}) \union {new}).n = Tally(some).n
        /\ Tally((some \ {row}) \union {new}).group_n =
             Tally(some).group_n - Half(row.isGroup) + Half(new.isGroup)
    <3>1. row.isGroup \in BOOLEAN /\ new.isGroup \in BOOLEAN
      BY <1>2, RowShape
    <3> QED
      BY <1>5, <2>1, <3>1, TallySwap
  <2>3. Tally(some).n \in Nat /\ Tally(some).group_n \in Nat
    BY <2>1, TallyType DEF Bucket
  <2> QED
    BY <1>2, <2>2, <2>3 DEF Half
<1>6. maintained' = Totals(Tally(rows'))
  <2>1. /\ Tally(rows').n = Tally(rows).n - 0 /\ Tally(rows').group_n = Tally(rows).group_n - 1
    BY <1>3, <1>5
  <2>2. maintained = Totals(Tally(rows))
    BY CountsNow
  <2>3. Bump(0, -1)
    BY DEF Publish
  <2>4. Tally(rows).n \in Nat /\ Tally(rows).group_n \in Nat
    BY TallyType DEF RowsSound, Bucket
  <2>5. Tally(rows').n = Tally(rows).n + 0 /\ Tally(rows').group_n = Tally(rows).group_n + (-1)
    BY <2>1, <2>4
  <2> QED
    BY <2>2, <2>3, <2>5, BumpTotals
<1>7. Agrees(hourCounts', CreatedIn')
  <2>1. PICK hour \in Hour : hour = row.event.hour
    BY <1>2, RowShape
  <2>2. hourCounts' = Lower(hourCounts, hour, 0, 1)
    BY <2>1 DEF Publish
  <2>3. CreatedIn[hour] \subseteq rows /\ row \in CreatedIn[hour] /\ IsFiniteSet(CreatedIn[hour])
    BY <2>1, HoursShape DEF CreatedIn
  <2>4. CreatedIn'[hour] = (CreatedIn[hour] \ {row}) \union {new}
    BY <1>4, <2>1
  <2>5. /\ Tally(CreatedIn'[hour]).n = Tally(CreatedIn[hour]).n - 0
        /\ Tally(CreatedIn'[hour]).group_n = Tally(CreatedIn[hour]).group_n - 1
    BY <1>5, <2>3, <2>4
  <2>6. \A k \in Hour \ {hour} : CreatedIn'[k] = CreatedIn[k]
    BY <1>4, <2>1
  <2>7. Agrees(hourCounts, CreatedIn) /\ CreatedIn[hour] # {} /\ IsFiniteSet(CreatedIn[hour])
    BY <2>3, CountsNow
  <2>8. Agrees(Lower(hourCounts, hour, 0, 1), CreatedIn')
    BY <2>5, <2>6, <2>7, LowerAgrees
  <2> QED
    BY <2>2, <2>8
<1>8. (cut /\ DOMAIN ingestCounts' \subseteq Hour) \/ Agrees(ingestCounts', CameIn')
  <2>1. ingestCounts' = IF row.ingested = NoHour THEN ingestCounts
                        ELSE Lower(ingestCounts, row.ingested, 0, 1)
    BY DEF Publish, LowerIngest
  <2>2. CASE cut
    BY <2>1, <2>2, CountsNow DEF Lower, Upsert
  <2>3. CASE ~cut /\ row.ingested = NoHour
    <3>1. \A k \in Hour : CameIn'[k] = CameIn[k]
      BY <1>2, <1>4, <2>3, RowShape
    <3> QED
      BY <2>1, <2>3, <3>1, CountsNow, SameAgrees
  <2>4. CASE ~cut /\ row.ingested # NoHour
    <3>1. PICK hour \in Hour : hour = row.ingested
      BY <1>2, <2>4, RowShape
    <3>2. CameIn[hour] \subseteq rows /\ row \in CameIn[hour] /\ IsFiniteSet(CameIn[hour])
      BY <3>1, HoursShape DEF CameIn
    <3>3. CameIn'[hour] = (CameIn[hour] \ {row}) \union {new}
      BY <1>4, <3>1
    <3>4. /\ Tally(CameIn'[hour]).n = Tally(CameIn[hour]).n - 0
          /\ Tally(CameIn'[hour]).group_n = Tally(CameIn[hour]).group_n - 1
      BY <1>5, <3>2, <3>3
    <3>5. \A k \in Hour \ {hour} : CameIn'[k] = CameIn[k]
      BY <1>4, <3>1
    <3>6. Agrees(ingestCounts, CameIn) /\ CameIn[hour] # {} /\ IsFiniteSet(CameIn[hour])
      BY <2>4, <3>2, CountsNow
    <3>7. Agrees(Lower(ingestCounts, hour, 0, 1), CameIn')
      BY <3>4, <3>5, <3>6, LowerAgrees
    <3> QED
      BY <2>1, <2>4, <3>1, <3>7
  <2> QED
    BY <2>2, <2>3, <2>4
<1> QED
  BY <1>6, <1>7, <1>8 DEF CountsSound, Totals

\* A row that gets its group's id counts as before.
LEMMA StampCounts ==
    ASSUME RowsSound, CountsSound, schema = "current", NEW row \in rows, NEW new \in Row,
           new.event = row.event, new.ingested = row.ingested, new.isGroup = row.isGroup, new # row,
           rows' = (rows \ {row}) \union {new}, UNCHANGED <<countVars, schema, audit, cut>>
    PROVE  CountsSound'
<1>1. /\ new \notin rows /\ row \in Row
      /\ \A hour \in Hour :
          /\ CreatedIn'[hour] = IF hour = row.event.hour THEN (CreatedIn[hour] \ {row}) \union {new}
                                ELSE CreatedIn[hour]
          /\ CameIn'[hour] = IF hour = row.ingested THEN (CameIn[hour] \ {row}) \union {new}
                             ELSE CameIn[hour]
  BY SwapHours
<1>2. ASSUME NEW some, some \subseteq rows, row \in some
      PROVE  Tally((some \ {row}) \union {new}) = Tally(some)
  <2>1. IsFiniteSet(some) /\ new \notin some
    BY <1>1, <1>2, FS_Subset DEF RowsSound
  <2>2. /\ Tally((some \ {row}) \union {new}).n = Tally(some).n
        /\ Tally((some \ {row}) \union {new}).group_n =
             Tally(some).group_n - Half(row.isGroup) + Half(new.isGroup)
    BY <1>1, <1>2, <2>1, TallySwap, RowShape
  <2>3. Tally(some).n \in Nat /\ Tally(some).group_n \in Nat
    BY <2>1, TallyType DEF Bucket
  <2>4. Tally((some \ {row}) \union {new}).group_n = Tally(some).group_n
    BY <2>2, <2>3 DEF Half
  <2> QED
    BY <2>2, <2>4, TallySame
<1>3. maintained' = Totals(Tally(rows'))
  BY <1>2, CountsNow DEF countVars
<1>4. \A hour \in Hour : /\ Tally(CreatedIn'[hour]) = Tally(CreatedIn[hour])
                         /\ CreatedIn[hour] = {} => CreatedIn'[hour] = {}
  <2> TAKE hour \in Hour
  <2>1. CASE hour = row.event.hour
    <3>1. CreatedIn[hour] \subseteq rows /\ row \in CreatedIn[hour]
      BY <2>1, HoursShape DEF CreatedIn
    <3> QED
      BY <1>1, <1>2, <2>1, <3>1
  <2>2. CASE hour # row.event.hour
    BY <1>1, <2>2
  <2> QED
    BY <2>1, <2>2
<1>5. \A hour \in Hour : /\ Tally(CameIn'[hour]) = Tally(CameIn[hour])
                         /\ CameIn[hour] = {} => CameIn'[hour] = {}
  <2> TAKE hour \in Hour
  <2>1. CASE hour = row.ingested
    <3>1. CameIn[hour] \subseteq rows /\ row \in CameIn[hour]
      BY <2>1, HoursShape DEF CameIn
    <3> QED
      BY <1>1, <1>2, <2>1, <3>1
  <2>2. CASE hour # row.ingested
    BY <1>1, <2>2
  <2> QED
    BY <2>1, <2>2
<1>6. Agrees(hourCounts', CreatedIn')
  BY <1>4, SameAgrees, CountsNow DEF countVars
<1>7. (cut' /\ DOMAIN ingestCounts' \subseteq Hour) \/ Agrees(ingestCounts', CameIn')
  BY <1>5, SameAgrees, CountsNow DEF countVars
<1> QED
  BY <1>3, <1>6, <1>7 DEF CountsSound, Totals
-----------------------------------------------------------------------------
(* What is added up.                                                       *)

\* Buckets that agree, added up over some hours, are the tally of those hours.
LEMMA SumsAreTallies ==
    ASSUME NEW counts, NEW of, NEW hours, IsFiniteSet(hours), NEW some,
           \A hour \in hours : counts[hour] = Tally(of[hour]) /\ IsFiniteSet(of[hour]),
           \A a, b \in hours : a # b => of[a] \intersect of[b] = {},
           some = UNION { of[hour] : hour \in hours }
    PROVE  Sums(counts, hours) = Tally(some)
<1> DEFINE f == [hour \in hours |-> counts[hour].n]
           g == [hour \in hours |-> counts[hour].group_n]
           grouped == [hour \in hours |-> { row \in of[hour] : row.isGroup }]
<1>1. SumFunction(f) = Cardinality(UNION { of[hour] : hour \in hours })
  <2>1. ASSUME NEW hour \in hours
        PROVE  IsFiniteSet(of[hour]) /\ f[hour] = Cardinality(of[hour])
    <3>1. counts[hour] = Tally(of[hour]) /\ IsFiniteSet(of[hour])
      OBVIOUS
    <3> QED
      BY <3>1 DEF Tally
  <2>2. DOMAIN f = hours
    OBVIOUS
  <2> HIDE DEF f
  <2> QED
    BY <2>1, <2>2, SumOfCounts
<1>2. SumFunction(g) = Cardinality(UNION { grouped[hour] : hour \in hours })
  <2>1. \A hour \in hours : IsFiniteSet(grouped[hour])
    BY FS_Subset
  <2>2. ASSUME NEW hour \in hours PROVE g[hour] = Cardinality(grouped[hour])
    <3>1. g[hour] = Tally(of[hour]).group_n
      OBVIOUS
    <3>2. grouped[hour] = { row \in of[hour] : row.isGroup }
      OBVIOUS
    <3> HIDE DEF g, grouped
    <3> QED
      BY <3>1, <3>2 DEF Tally
  <2>3. \A a, b \in hours : a # b => grouped[a] \intersect grouped[b] = {}
    <3> SUFFICES ASSUME NEW a \in hours, NEW b \in hours, a # b
                 PROVE  grouped[a] \intersect grouped[b] = {}
      OBVIOUS
    <3>1. of[a] \intersect of[b] = {}
      OBVIOUS
    <3> QED
      BY <3>1
  <2>4. DOMAIN g = hours
    OBVIOUS
  <2> HIDE DEF g, grouped
  <2> QED
    BY <2>1, <2>2, <2>3, <2>4, SumOfCounts
<1>3. UNION { grouped[hour] : hour \in hours } = { row \in some : row.isGroup }
  OBVIOUS
<1>4. Sums(counts, hours) = [n |-> SumFunction(f), group_n |-> SumFunction(g)]
  BY DEF Sums
<1> HIDE DEF f, g, grouped
<1> QED
  BY <1>1, <1>2, <1>3, <1>4 DEF Tally

\* No row is of two hours.
LEMMA HoursApart ==
    \A a, b \in Hour : a # b => /\ CreatedIn[a] \intersect CreatedIn[b] = {}
                                /\ CameIn[a] \intersect CameIn[b] = {}
BY DEF CreatedIn, CameIn

\* What a scan finds agrees with the rows, as what is kept does.
LEMMA ScanAgrees ==
    ASSUME RowsSound
    PROVE  Agrees(ByHour(rows), CreatedIn) /\ Agrees(ByIngest(rows), CameIn)
<1>1. Agrees(ByHour(rows), CreatedIn)
  <2> DEFINE hours == { row.event.hour : row \in rows }
  <2>1. [row \in rows |-> row.event.hour] \in Surjection(rows, hours)
    BY DEF Surjection
  <2>2. IsFiniteSet(hours)
    BY <2>1, FS_Surjection DEF RowsSound
  <2>3. hours \subseteq Hour
    BY RowShape DEF RowsSound
  <2>4. DOMAIN ByHour(rows) = hours
    BY DEF ByHour
  <2>5. ASSUME NEW hour \in Hour
        PROVE  IF hour \in hours THEN ByHour(rows)[hour] = Tally(CreatedIn[hour]) ELSE CreatedIn[hour] = {}
    BY DEF ByHour, CreatedIn
  <2> HIDE DEF hours
  <2> QED
    BY <2>2, <2>3, <2>4, <2>5 DEF Agrees
<1>2. Agrees(ByIngest(rows), CameIn)
  <2> DEFINE dated == { row \in rows : row.ingested # NoHour }
             hours == { row.ingested : row \in dated }
  <2>1. [row \in dated |-> row.ingested] \in Surjection(dated, hours)
    BY DEF Surjection
  <2>2. IsFiniteSet(dated)
    BY FS_Subset DEF RowsSound
  <2>3. IsFiniteSet(hours)
    BY <2>1, <2>2, FS_Surjection
  <2>4. hours \subseteq Hour
    BY RowShape DEF RowsSound
  <2>5. DOMAIN ByIngest(rows) = hours
    BY DEF ByIngest
  <2>6. ASSUME NEW hour \in Hour
        PROVE  /\ hour # NoHour
               /\ { row \in dated : row.ingested = hour } = CameIn[hour]
    BY CountersAssumption DEF CameIn, NoHour
  <2>7. ASSUME NEW hour \in Hour
        PROVE  IF hour \in hours THEN ByIngest(rows)[hour] = Tally(CameIn[hour]) ELSE CameIn[hour] = {}
    <3>1. CASE hour \in hours
      BY <2>6, <3>1 DEF ByIngest
    <3>2. CASE hour \notin hours
      BY <2>6, <3>2
    <3> QED
      BY <3>1, <3>2
  <2> HIDE DEF hours
  <2> QED
    BY <2>3, <2>4, <2>5, <2>7 DEF Agrees
<1> QED
  BY <1>1, <1>2

\* What agrees with the same rows adds up to the same over the last day,
\* whichever buckets of it are there.
LEMMA WindowsAgree ==
    ASSUME RowsSound, NEW counts, NEW others, NEW of, of \in {CreatedIn, CameIn},
           Agrees(counts, of), Agrees(others, of)
    PROVE  Windowed(counts) = Windowed(others)
<1>1. ASSUME NEW c, Agrees(c, of)
      PROVE  Windowed(c) = Tally(UNION { of[hour] : hour \in { k \in Hour : k >= now - Day } })
  <2> DEFINE hours == { hour \in DOMAIN c : hour >= now - Day }
             some == UNION { of[hour] : hour \in { k \in Hour : k >= now - Day } }
  <2>1. IsFiniteSet(hours) /\ hours \subseteq Hour
    BY <1>1, FS_Subset DEF Agrees
  <2>2. \A hour \in hours : c[hour] = Tally(of[hour]) /\ IsFiniteSet(of[hour])
    BY <1>1, HoursShape DEF Agrees
  <2>3. \A a, b \in hours : a # b => of[a] \intersect of[b] = {}
    BY <2>1, HoursApart
  <2>4. some = UNION { of[hour] : hour \in hours }
    BY <1>1, <2>1 DEF Agrees
  <2>5. Windowed(c) = Sums(c, hours)
    BY DEF Windowed
  <2> HIDE DEF hours, some
  <2>6. Sums(c, hours) = Tally(some)
    BY <2>1, <2>2, <2>3, <2>4, SumsAreTallies
  <2> QED
    BY <2>5, <2>6 DEF some
<1> QED
  BY <1>1

\* The buckets of every hour add up to all rows.
LEMMA SeedAddsUp ==
    ASSUME RowsSound
    PROVE  Sums(ByHour(rows), DOMAIN ByHour(rows)) = Tally(rows)
<1> DEFINE hours == DOMAIN ByHour(rows)
<1>1. Agrees(ByHour(rows), CreatedIn)
  BY ScanAgrees
<1>2. IsFiniteSet(hours) /\ hours \subseteq Hour
  BY <1>1 DEF Agrees
<1>3. \A hour \in hours : ByHour(rows)[hour] = Tally(CreatedIn[hour]) /\ IsFiniteSet(CreatedIn[hour])
  BY <1>1, <1>2, HoursShape DEF Agrees
<1>4. \A a, b \in hours : a # b => CreatedIn[a] \intersect CreatedIn[b] = {}
  BY <1>2, HoursApart
<1>5. rows = UNION { CreatedIn[hour] : hour \in hours }
  <2>1. ASSUME NEW row \in rows PROVE \E hour \in hours : row \in CreatedIn[hour]
    <3>1. row.event.hour \in hours
      BY DEF ByHour
    <3> QED
      BY <1>2, <3>1 DEF CreatedIn
  <2>2. \A hour \in hours : CreatedIn[hour] \subseteq rows
    BY <1>2, HoursShape
  <2> HIDE DEF hours
  <2> QED
    BY <2>1, <2>2
<1> HIDE DEF hours
<1>6. Sums(ByHour(rows), hours) = Tally(rows)
  BY <1>2, <1>3, <1>4, <1>5, SumsAreTallies
<1> QED
  BY <1>6 DEF hours
-----------------------------------------------------------------------------
(* What a step may do to the rows.                                         *)

Inserts(row) ==
    /\ cron = "idle"
    /\ row \in Row /\ \A r \in rows : r.event # row.event
    /\ rows' = rows \union {row}
    /\ tags \subseteq tags' /\ tags' \subseteq tags \union TagsOf(row)
    /\ row.isGroup => /\ GroupIdOf(row.event) \in groups /\ row.groupId = GroupIdOf(row.event)
                      /\ ~row.event.public /\ (row.event.metadata => row.event.own)

Publishes(row) == row.isGroup = TRUE /\ Publish(row)

Stamps(row) ==
    /\ cron = "stamp" /\ GroupIdOf(row.event) # NoGroup /\ row.groupId = NoGroup
    /\ Replace(row, [row EXCEPT !.groupId = GroupIdOf(row.event)])
    /\ UNCHANGED countVars

\* The fields of an event.
LEMMA EventShape ==
    ASSUME NEW e \in Event
    PROVE  /\ e.hour \in Hour /\ e.h \in Seq(Group)
           /\ {e.metadata, e.public, e.own} \subseteq BOOLEAN
           /\ e.d \in Group \union {NoGroup}
           /\ GroupIdOf(e) \in Group \union {NoGroup}
<1>1. e \in [hour : Hour, metadata : BOOLEAN, public : BOOLEAN, own : BOOLEAN,
             h : Seq(Group), d : Group \union {NoGroup}]
  BY CountersAssumption
<1>2. e.h # << >> => Head(e.h) \in Group
  BY <1>1
<1> QED
  BY <1>1, <1>2 DEF GroupIdOf

\* The copy in memory is the table.
LEMMA HostedIsGroups ==
    ASSUME Shape
    PROVE  Hosted = groups
<1>1. hostedGroups \in {Unread, {groups}}
  BY DEF Shape
<1>2. CASE hostedGroups = Unread
  BY <1>2 DEF Hosted
<1>3. CASE hostedGroups = {groups}
  BY <1>3 DEF Hosted, Unread
<1> QED
  BY <1>1, <1>2, <1>3

\* What storeEvent writes is filed by right.
LEMMA InsertIsRight ==
    ASSUME Shape, NEW e \in Arriving, InsertEventRow(e) \/ InsertBreaksOff(e)
    PROVE  Inserts(RowFor(e))
<1>1. e \in Event /\ Serving /\ Storable(e)
  BY CountersAssumption DEF InsertEventRow, InsertBreaksOff
<1>2. /\ IsGroupEvent(e) \in BOOLEAN
      /\ IsGroupEvent(e) => ~e.public /\ GroupIdOf(e) \in groups
      /\ IsGroupEvent(e) => GroupIdOf(e) \in Group
  BY HostedIsGroups DEF IsGroupEvent, Shape
<1>3. RowFor(e) \in Row
  BY <1>1, <1>2 DEF RowFor, Row, Shape
<1>4. /\ RowFor(e).event = e /\ RowFor(e).isGroup = IsGroupEvent(e)
      /\ IsGroupEvent(e) => RowFor(e).groupId = GroupIdOf(e)
  BY DEF RowFor
<1>5. rows' = rows \union {RowFor(e)} /\ tags \subseteq tags' /\ tags' \subseteq tags \union TagsOf(RowFor(e))
  <2>1. CASE InsertEventRow(e)
    BY <2>1 DEF InsertEventRow
  <2>2. CASE InsertBreaksOff(e)
    BY <2>2 DEF InsertBreaksOff
  <2> QED
    BY <2>1, <2>2
<1>6. cron = "idle" /\ (\A r \in rows : r.event # e) /\ (e.metadata => e.own)
  BY <1>1 DEF Serving, Storable
<1> QED
  BY <1>2, <1>3, <1>4, <1>5, <1>6 DEF Inserts

\* A step leaves the rows alone, or does one of four things to one of them.
LEMMA RowSteps ==
    ASSUME Shape, RowsSound, TodoSound, [Next]_vars
    PROVE  \/ UNCHANGED rowVars
           \/ \E row : Inserts(row)
           \/ \E row \in rows : Remove(row) \/ Publishes(row) \/ Stamps(row)
<1>1. ASSUME NEW e \in Arriving, InsertEventRow(e) \/ InsertBreaksOff(e) PROVE \E row : Inserts(row)
  BY <1>1, InsertIsRight
<1>2. ASSUME NEW row \in rows, DeleteEventRow(row) PROVE Remove(row)
  BY <1>2 DEF DeleteEventRow
<1>3. ASSUME NEW row \in rows, FixMisclassified(row)
      PROVE  Remove(row) \/ Publishes(row) \/ UNCHANGED rowVars
  <2>1. row.isGroup = TRUE
    BY <1>3, RowShape DEF FixMisclassified, TodoSound, RowsSound
  <2> QED
    BY <1>3, <2>1 DEF FixMisclassified, Publishes
<1>4. ASSUME NEW row \in rows, MigrateMisfiled(row) PROVE Publishes(row)
  <2>1. row.isGroup = TRUE
    BY <1>4, RowShape DEF MigrateMisfiled, TodoSound, RowsSound
  <2> QED
    BY <1>4, <2>1 DEF MigrateMisfiled, Publishes
<1>5. ASSUME NEW row \in rows, MigrateUnstamped(row) PROVE Stamps(row) \/ UNCHANGED rowVars
  <2>1. row.groupId = NoGroup /\ cron = "stamp"
    BY <1>5 DEF MigrateUnstamped, TodoSound
  <2> QED
    BY <1>5, <2>1 DEF MigrateUnstamped, Stamps, rowVars
<1>6. CASE \/ \E g \in Group : CreateGroup(g)
           \/ Cron \/ Migrate \/ MigrateStamps \/ MigrateEnds \/ Audit \/ CronDies
           \/ \E statements \in 0 .. 5 : InitSchema(statements)
           \/ Deploy \/ Restart \/ Tick \/ UNCHANGED vars
  BY <1>6 DEF CreateGroup, Cron, Migrate, MigrateStamps, MigrateEnds, Audit, CronDies, InitSchema,
              Deploy, Restart, Tick, vars, rowVars
<1> QED
  BY <1>1, <1>2, <1>3, <1>4, <1>5, <1>6 DEF Next

\* What takes the place of a row, and of its tags.
LEMMA ReplaceShape ==
    ASSUME RowsSound, TagsSound, NEW row \in rows, NEW new \in Row, new.event = row.event,
           new.groupId \in Group \union {NoGroup}, Replace(row, new)
    PROVE  /\ RowsSound' /\ TagsSound'
           /\ \A t \in tags : \E u \in tags' : u.event = t.event /\ u.value = t.value
<1>1. rows' = (rows \ {row}) \union {new} /\ tags' = { TagFollows(t, new) : t \in tags }
  BY DEF Replace
<1>2. RowsSound'
  <2>1. rows' \subseteq Row /\ \A r, s \in rows' : r.event = s.event => r = s
    BY <1>1 DEF RowsSound
  <2>2. IsFiniteSet(rows \ {row})
    BY FS_Subset DEF RowsSound
  <2>3. IsFiniteSet(rows')
    BY <1>1, <2>2, FS_AddElement
  <2> QED
    BY <2>1, <2>3 DEF RowsSound
<1>3. ASSUME NEW t \in tags
      PROVE  /\ t \in Tag
             /\ TagFollows(t, new) \in Tag
             /\ TagFollows(t, new).event = t.event /\ TagFollows(t, new).value = t.value
             /\ t.event = new.event => /\ TagFollows(t, new).isGroup = new.isGroup
                                       /\ TagFollows(t, new).groupId = new.groupId
             /\ t.event # new.event => TagFollows(t, new) = t
  <2>1. t \in Tag
    BY DEF TagsSound
  <2> QED
    BY <2>1, RowShape DEF TagFollows, Tag
<1>4. TagsSound'
  <2>1. tags' \subseteq Tag
    BY <1>1, <1>3
  <2>2. ASSUME NEW u \in tags'
        PROVE  \E r \in rows' : u.event = r.event /\ u.isGroup = r.isGroup /\ u.groupId = r.groupId
    <3>1. PICK t \in tags : u = TagFollows(t, new)
      BY <1>1
    <3>2. CASE t.event = new.event
      <4>1. new \in rows'
        BY <1>1
      <4> QED
        BY <1>3, <3>1, <3>2, <4>1
    <3>3. CASE t.event # new.event
      <4>1. PICK r \in rows : t.event = r.event /\ t.isGroup = r.isGroup /\ t.groupId = r.groupId
        BY DEF TagsSound, TagsFollow
      <4>2. r \in rows'
        BY <1>1, <3>3, <4>1
      <4> QED
        BY <1>3, <3>1, <3>3, <4>1, <4>2
    <3> QED
      BY <3>2, <3>3
  <2> QED
    BY <2>1, <2>2 DEF TagsSound, TagsFollow
<1> QED
  BY <1>1, <1>2, <1>3, <1>4

\* A published row and a stamped one.
LEMMA ReplacedRow ==
    ASSUME RowsSound, TagsSound, NEW row \in rows, Publishes(row) \/ Stamps(row)
    PROVE  \E new \in Row : /\ Replace(row, new) /\ new # row
                            /\ new.event = row.event /\ new.ingested = row.ingested
                            /\ new.groupId \in Group \union {NoGroup}
                            /\ Publishes(row) => new.isGroup = FALSE
                            /\ ~Publishes(row) => /\ Stamps(row) /\ new.isGroup = row.isGroup
                                                  /\ new.groupId = GroupIdOf(row.event)
<1>1. row \in Row
  BY DEF RowsSound
<1>2. CASE Publishes(row)
  <2>1. PICK new : new = [row EXCEPT !.isGroup = FALSE]
    OBVIOUS
  <2>2. /\ new \in Row /\ new.event = row.event /\ new.ingested = row.ingested
        /\ new.isGroup = FALSE /\ new.groupId = row.groupId
    BY <1>1, <2>1 DEF Row
  <2>3. new # row /\ Replace(row, new)
    BY <1>2, <2>1, <2>2 DEF Publishes, Publish
  <2> QED
    BY <1>1, <1>2, <2>2, <2>3, RowShape
<1>3. CASE ~Publishes(row)
  <2>1. Stamps(row)
    BY <1>3
  <2>2. PICK new : new = [row EXCEPT !.groupId = GroupIdOf(row.event)]
    OBVIOUS
  <2>3. GroupIdOf(row.event) \in Group \union {NoGroup}
    BY <1>1, RowShape, EventShape
  <2>4. /\ new \in Row /\ new.event = row.event /\ new.ingested = row.ingested
        /\ new.isGroup = row.isGroup /\ new.groupId = GroupIdOf(row.event)
    BY <1>1, <2>2, <2>3 DEF Row
  <2>5. new # row /\ Replace(row, new)
    BY <2>1, <2>2, <2>4 DEF Stamps
  <2> QED
    BY <1>3, <2>1, <2>3, <2>4, <2>5
<1> QED
  BY <1>2, <1>3

\* The table keeps its key, and the tags their events.
LEMMA RowsStep ==
    ASSUME Shape, RowsSound, TagsSound, TodoSound, [Next]_vars
    PROVE  RowsSound' /\ TagsSound'
<1>1. CASE UNCHANGED rowVars
  BY <1>1 DEF rowVars, RowsSound, TagsSound, TagsFollow
<1>2. ASSUME NEW row, Inserts(row) PROVE RowsSound' /\ TagsSound'
  <2>1. /\ row \in Row /\ \A r \in rows : r.event # row.event
        /\ rows' = rows \union {row}
        /\ tags' \subseteq tags \union TagsOf(row)
    BY <1>2 DEF Inserts
  <2>2. RowsSound'
    BY <2>1, FS_AddElement DEF RowsSound
  <2>3. ASSUME NEW t \in TagsOf(row)
        PROVE  /\ t \in Tag
               /\ t.event = row.event /\ t.isGroup = row.isGroup /\ t.groupId = row.groupId
    <3>1. PICK i \in DOMAIN row.event.h :
            t = [event |-> row.event, value |-> row.event.h[i], isGroup |-> row.isGroup, groupId |-> row.groupId]
      BY DEF TagsOf
    <3>2. row.event.h[i] \in Group
      BY <2>1, RowShape, EventShape
    <3> QED
      BY <2>1, <3>1, <3>2, RowShape DEF Tag
  <2>4. TagsSound'
    <3>1. tags' \subseteq Tag
      BY <2>1, <2>3 DEF TagsSound
    <3>2. TagsFollow'
      BY <2>1, <2>3 DEF TagsSound, TagsFollow
    <3> QED
      BY <3>1, <3>2 DEF TagsSound
  <2> QED
    BY <2>2, <2>4
<1>3. ASSUME NEW row \in rows, Remove(row) PROVE RowsSound' /\ TagsSound'
  <2>1. rows' = rows \ {row} /\ tags' = { t \in tags : t.event # row.event }
    BY <1>3 DEF Remove
  <2>2. RowsSound'
    BY <2>1, FS_Subset DEF RowsSound
  <2>3. TagsSound'
    BY <2>1 DEF TagsSound, TagsFollow
  <2> QED
    BY <2>2, <2>3
<1>4. ASSUME NEW row \in rows, Publishes(row) \/ Stamps(row) PROVE RowsSound' /\ TagsSound'
  BY <1>4, ReplacedRow, ReplaceShape
<1> QED
  BY <1>1, <1>2, <1>3, <1>4, RowSteps

\* A row stays findable while its event keeps its tags.
LEMMA FindableStays ==
    ASSUME NEW row, Findable(row), NEW new, new.event = row.event,
           \A t \in tags : t.event = row.event =>
               \E u \in tags' : u.event = t.event /\ u.value = t.value
    PROVE  Findable(new)'
<1>1. \A i \in DOMAIN row.event.h : \E t \in tags : t.event = row.event /\ t.value = row.event.h[i]
  BY DEF Findable
<1>2. \A i \in DOMAIN new.event.h : \E t \in tags' : t.event = new.event /\ t.value = new.event.h[i]
  BY <1>1
<1> QED
  BY <1>2 DEF Findable, IsAnyGroupEvent, GroupIdOf

\* What of the groups and the first migration a step may change.
LEMMA ScopeSteps ==
    ASSUME Shape, [Next]_vars
    PROVE  /\ groups \subseteq groups'
           /\ \/ scopeFixed' = scopeFixed
              \/ Candidates = {} /\ Top \in groups /\ UNCHANGED rowVars
<1>1. CASE Cron
  BY <1>1 DEF Cron, Serving, Shape, groupVars
<1>2. CASE Next /\ ~Cron
  BY <1>2 DEF Next, InsertEventRow, InsertBreaksOff, DeleteEventRow, FixMisclassified, MigrateMisfiled,
              MigrateUnstamped, CreateGroup, Migrate, MigrateStamps, MigrateEnds, Audit, CronDies,
              InitSchema, Deploy, Restart, Tick, groupVars, flagVars
<1>3. CASE UNCHANGED vars
  BY <1>3 DEF vars, groupVars, flagVars
<1> QED
  BY <1>1, <1>2, <1>3

\* Where no candidate is left, every row that was findable is the one group's.
LEMMA NothingMisfiled ==
    ASSUME RowsSound, TagsSound, ScopeSound, Candidates = {}, Top \in groups,
           NEW row \in rows, row.isGroup
    PROVE  GroupIdOf(row.event) \in groups /\ (row.event.metadata => row.event.own)
<1>1. row \in Row /\ row.event \in Event
  BY RowShape DEF RowsSound
<1>2. row.event.metadata => row.event.own
  BY DEF Candidates
<1>3. ASSUME Findable(row) PROVE GroupIdOf(row.event) = Top
  <2>1. PICK o \in Old : o.event = row.event
    BY <1>3 DEF Findable
  <2>2. CASE row.event.metadata
    BY <1>2, <2>1, <2>2, CountersAssumption DEF GroupIdOf
  <2>3. CASE ~row.event.metadata
    <3>1. row.event.h # << >> /\ GroupIdOf(row.event) = Head(row.event.h)
      BY <1>3, <2>3 DEF Findable, IsAnyGroupEvent, GroupIdOf
    <3>2. 1 \in DOMAIN row.event.h /\ Head(row.event.h) = row.event.h[1]
      BY <1>1, <3>1, EventShape
    <3>3. PICK t \in tags : t.event = row.event /\ t.value = row.event.h[1]
      BY <1>3, <3>2 DEF Findable
    <3>4. PICK r \in rows : t.event = r.event /\ t.isGroup = r.isGroup
      BY DEF TagsSound, TagsFollow
    <3>5. r = row
      BY <3>3, <3>4 DEF RowsSound
    <3>6. t.value = Top
      BY <3>3, <3>4, <3>5 DEF Candidates
    <3> QED
      BY <3>1, <3>2, <3>3, <3>6
  <2> QED
    BY <2>2, <2>3
<1> QED
  BY <1>2, <1>3 DEF ScopeSound

\* A row in the partition stays one by right, or findable.
LEMMA ScopeStep ==
    ASSUME Shape, RowsSound, TagsSound, TodoSound, ScopeSound, [Next]_vars
    PROVE  ScopeSound'
<1>1. groups \subseteq groups'
  BY ScopeSteps
<1> SUFFICES ASSUME NEW new \in rows', new.isGroup
             PROVE  /\ GroupIdOf(new.event) \in groups' \/ Findable(new)'
                    /\ new.groupId \in {NoGroup, GroupIdOf(new.event)}
                    /\ scopeFixed' => /\ GroupIdOf(new.event) \in groups'
                                      /\ new.event.metadata => new.event.own
  BY DEF ScopeSound, GroupIdOf
\* It is one of the rows, changed perhaps, or a new one filed by right.
<1>2. \/ \E row \in rows :
           /\ row.isGroup /\ row.event = new.event
           /\ new.groupId \in {row.groupId, GroupIdOf(row.event)}
           /\ \A t \in tags : t.event = row.event =>
                \E u \in tags' : u.event = t.event /\ u.value = t.value
      \/ Inserts(new)
  <2>1. CASE UNCHANGED rowVars
    BY <2>1 DEF rowVars
  <2>2. ASSUME NEW row, Inserts(row)
        PROVE  new = row \/ (new \in rows /\ tags \subseteq tags')
    BY <2>2 DEF Inserts
  <2>3. ASSUME NEW row \in rows, Remove(row)
        PROVE  /\ new \in rows
               /\ \A t \in tags : t.event = new.event => t \in tags'
    <3>1. new \in rows /\ new # row
      BY <2>3 DEF Remove
    <3>2. new.event # row.event
      BY <3>1 DEF RowsSound
    <3> QED
      BY <2>3, <3>1, <3>2 DEF Remove
  <2>4. ASSUME NEW row \in rows, Publishes(row) \/ Stamps(row)
        PROVE  \E r \in rows :
                 /\ r.isGroup /\ r.event = new.event
                 /\ new.groupId \in {r.groupId, GroupIdOf(r.event)}
                 /\ \A t \in tags : \E u \in tags' : u.event = t.event /\ u.value = t.value
    <3>1. PICK put \in Row : /\ Replace(row, put) /\ put.event = row.event
                             /\ put.groupId \in Group \union {NoGroup}
                             /\ Publishes(row) => put.isGroup = FALSE
                             /\ ~Publishes(row) => put.isGroup = row.isGroup /\ put.groupId = GroupIdOf(row.event)
      BY <2>4, ReplacedRow
    <3>2. \A t \in tags : \E u \in tags' : u.event = t.event /\ u.value = t.value
      BY <3>1, ReplaceShape
    <3>3. new \in rows \/ new = put
      BY <3>1 DEF Replace
    <3> QED
      BY <3>1, <3>2, <3>3
  <2> QED
    BY <2>1, <2>2, <2>3, <2>4, RowSteps
<1>3. CASE Inserts(new)
  BY <1>1, <1>3 DEF Inserts
<1>4. ASSUME NEW row \in rows, row.isGroup, row.event = new.event,
             new.groupId \in {row.groupId, GroupIdOf(row.event)},
             \A t \in tags : t.event = row.event =>
                 \E u \in tags' : u.event = t.event /\ u.value = t.value
      PROVE  /\ GroupIdOf(new.event) \in groups' \/ Findable(new)'
             /\ new.groupId \in {NoGroup, GroupIdOf(new.event)}
             /\ scopeFixed' => /\ GroupIdOf(new.event) \in groups'
                               /\ new.event.metadata => new.event.own
  <2>1. GroupIdOf(row.event) \in groups \/ Findable(row)
    BY <1>4 DEF ScopeSound
  <2>2. GroupIdOf(new.event) \in groups' \/ Findable(new)'
    <3>1. CASE Findable(row)
      BY <1>4, <3>1, FindableStays
    <3>2. CASE GroupIdOf(row.event) \in groups
      BY <1>1, <1>4, <3>2
    <3> QED
      BY <2>1, <3>1, <3>2
  <2>3. row.groupId \in {NoGroup, GroupIdOf(row.event)}
    BY <1>4 DEF ScopeSound
  <2>4. new.groupId \in {NoGroup, GroupIdOf(new.event)}
    BY <1>4, <2>3
  <2>5. ASSUME scopeFixed'
        PROVE  GroupIdOf(row.event) \in groups /\ (row.event.metadata => row.event.own)
    <3>1. CASE scopeFixed
      BY <1>4, <3>1 DEF ScopeSound
    <3>2. CASE Candidates = {} /\ Top \in groups
      BY <1>4, <3>2, NothingMisfiled
    <3> QED
      BY <2>5, <3>1, <3>2, ScopeSteps
  <2> QED
    BY <1>1, <1>4, <2>2, <2>4, <2>5
<1> QED
  BY <1>2, <1>3, <1>4

\* The counts stay right, and the audit finds no drift in them, unless the
\* storing of an event broke off.
LEMMA CountsStep ==
    ASSUME Shape, RowsSound, TagsSound, TodoSound, CountsSound, [Next]_vars
    PROVE  CountsSound'
<1>1. ASSUME NEW row \in rows, Publishes(row), schema = "current", UNCHANGED <<schema, audit, cut>>
      PROVE  CountsSound'
  BY <1>1, PublishCounts DEF Publishes
<1>2. ASSUME UNCHANGED <<rows, countVars, audit, cut>>, schema' = schema \/ schema' = "old"
      PROVE  CountsSound'
  BY <1>2 DEF CountsSound, countVars, Agrees, CreatedIn, CameIn
<1>3. ASSUME NEW e \in Arriving, InsertEventRow(e) \/ InsertBreaksOff(e) PROVE CountsSound'
  <2>1. PICK row : row = RowFor(e)
    OBVIOUS
  <2>2. Inserts(row)
    BY <1>3, <2>1, InsertIsRight
  <2>3. row \in Row /\ row \notin rows /\ rows' = rows \union {row}
    BY <2>2 DEF Inserts
  <2>4. row.event = e /\ row.isGroup = IsGroupEvent(e) /\ row.ingested = now
    BY <2>1 DEF RowFor
  <2>5. schema = "current" /\ UNCHANGED <<schema, audit>> /\ BumpEventCounters(row.event, 1, row.isGroup)
    BY <1>3, <2>4 DEF InsertEventRow, InsertBreaksOff, Serving
  <2>6. CASE InsertEventRow(e)
    <3>1. ingestCounts' = Upsert(ingestCounts, row.ingested, 1, Half(row.isGroup)) /\ cut' = cut
      BY <2>4, <2>6 DEF InsertEventRow, BumpIngestCounters
    <3>2. row.ingested \in Hour
      BY <2>4 DEF Shape
    <3> QED
      BY <2>3, <2>5, <3>1, <3>2, InsertCounts
  <2>7. CASE InsertBreaksOff(e)
    <3>1. cut' /\ ingestCounts' = ingestCounts
      BY <2>7 DEF InsertBreaksOff
    <3>2. DOMAIN ingestCounts' \subseteq Hour
      BY <2>5, <3>1, CountsNow
    <3> QED
      BY <2>3, <2>5, <3>1, <3>2, InsertCounts
  <2> QED
    BY <1>3, <2>6, <2>7
<1>4. ASSUME NEW row \in rows, DeleteEventRow(row) PROVE CountsSound'
  BY <1>4, RemoveCounts DEF DeleteEventRow, Serving
<1>5. ASSUME NEW row \in rows, FixMisclassified(row) PROVE CountsSound'
  <2>1. row.isGroup = TRUE
    BY <1>5, RowShape DEF FixMisclassified, TodoSound, RowsSound
  <2>2. schema = "current" /\ UNCHANGED <<schema, audit, cut>>
    BY <1>5 DEF FixMisclassified, Shape
  <2>3. CASE Remove(row)
    BY <2>2, <2>3, RemoveCounts
  <2>4. CASE Publish(row)
    BY <1>1, <2>1, <2>2, <2>4 DEF Publishes
  <2>5. CASE UNCHANGED <<rowVars, countVars>>
    BY <1>2, <2>2, <2>5 DEF rowVars
  <2> QED
    BY <1>5, <2>3, <2>4, <2>5 DEF FixMisclassified
<1>6. ASSUME NEW row \in rows, MigrateMisfiled(row) PROVE CountsSound'
  <2>1. row.isGroup = TRUE
    BY <1>6, RowShape DEF MigrateMisfiled, TodoSound, RowsSound
  <2>2. schema = "current" /\ UNCHANGED <<schema, audit, cut>> /\ Publish(row)
    BY <1>6 DEF MigrateMisfiled, Shape
  <2> QED
    BY <1>1, <2>1, <2>2 DEF Publishes
<1>7. ASSUME NEW row \in rows, MigrateUnstamped(row) PROVE CountsSound'
  <2>1. row.groupId = NoGroup /\ cron = "stamp"
    BY <1>7 DEF MigrateUnstamped, TodoSound
  <2>2. schema = "current" /\ UNCHANGED <<countVars, schema, audit, cut>>
    BY <1>7 DEF MigrateUnstamped, Shape
  <2>3. CASE UNCHANGED rowVars
    BY <1>2, <2>2, <2>3 DEF rowVars
  <2>4. CASE Stamps(row)
    <3>1. ~Publishes(row)
      <4>1. Stamps(row) => row.groupId = NoGroup /\ GroupIdOf(row.event) # NoGroup
        BY DEF Stamps
      <4>2. row \in Row
        BY DEF RowsSound
      <4>3. [row EXCEPT !.groupId = GroupIdOf(row.event)] \in rows'
        BY <2>4 DEF Stamps, Replace
      <4>4. Publishes(row) => rows' = (rows \ {row}) \union {[row EXCEPT !.isGroup = FALSE]}
        BY DEF Publishes, Publish, Replace
      <4> QED
        BY <2>4, <4>1, <4>2, <4>3, <4>4 DEF RowsSound, Row
    <3>2. PICK new \in Row : /\ Replace(row, new) /\ new # row
                             /\ new.event = row.event /\ new.ingested = row.ingested
                             /\ new.isGroup = row.isGroup
      BY <2>4, <3>1, ReplacedRow
    <3> QED
      BY <2>2, <3>2, StampCounts DEF Replace
  <2> QED
    BY <1>7, <2>1, <2>3, <2>4 DEF MigrateUnstamped, Stamps, rowVars
<1>8. ASSUME Audit PROVE CountsSound'
  <2>1. schema = "current" /\ UNCHANGED <<rows, countVars, schema, cut>>
    BY <1>8 DEF Audit, Shape, rowVars
  <2>2. /\ maintained = Totals(Tally(rows))
        /\ Agrees(hourCounts, CreatedIn)
        /\ cut \/ Agrees(ingestCounts, CameIn)
    BY <2>1, CountsNow
  <2>3. Windowed(hourCounts) = Windowed(ByHour(rows))
    BY <2>2, ScanAgrees, WindowsAgree
  <2>4. cut \/ Windowed(ingestCounts) = Windowed(ByIngest(rows))
    BY <2>2, ScanAgrees, WindowsAgree
  <2>5. audit'.drift => cut
    BY <1>8, <2>2, <2>3, <2>4 DEF Audit, CountsSound
  <2>6. Agrees(hourCounts', CreatedIn') /\ (cut' \/ Agrees(ingestCounts', CameIn'))
    BY <2>1, <2>2 DEF countVars, Agrees, CreatedIn, CameIn
  <2>7. maintained' = Totals(Tally(rows')) /\ schema' = "current"
    BY <2>1, <2>2 DEF countVars
  <2>8. DOMAIN ingestCounts' \subseteq Hour
    BY <2>1, CountsNow DEF countVars
  <2> QED
    BY <2>1, <2>5, <2>6, <2>7, <2>8 DEF CountsSound, Totals
<1>9. ASSUME NEW statements \in 0 .. 5, InitSchema(statements) PROVE CountsSound'
  <2>1. schema = "old" /\ UNCHANGED <<rows, audit, cut>>
    BY <1>9 DEF InitSchema, rowVars
  <2>2. CreatedIn' = CreatedIn /\ CameIn' = CameIn /\ Tally(rows') = Tally(rows)
    BY <2>1 DEF CreatedIn, CameIn
  <2>3. schema' = "old" \/ statements = 5
    BY <1>9 DEF InitSchema
  <2>4. \/ cut' /\ DOMAIN ingestCounts' \subseteq Hour
        \/ schema' = "old" /\ ingestCounts' = << >>
        \/ Agrees(ingestCounts', CameIn)
    <3>1. \/ cut /\ DOMAIN ingestCounts \subseteq Hour
          \/ ingestCounts = << >>
          \/ Agrees(ingestCounts, CameIn)
      BY DEF CountsSound
    <3>2. Agrees(ByIngest(rows), CameIn)
      BY ScanAgrees
    <3>3. CASE statements >= 3
      <4>1. ingestCounts' = IF ingestCounts = << >> THEN ByIngest(rows) ELSE ingestCounts
        BY <1>9, <3>3 DEF InitSchema, SeedIngest
      <4> QED
        BY <2>1, <3>1, <3>2, <4>1
    <3>4. CASE ~(statements >= 3)
      <4>1. ingestCounts' = ingestCounts /\ schema' = "old"
        BY <1>9, <3>4 DEF InitSchema
      <4> QED
        BY <2>1, <3>1, <4>1
    <3> QED
      BY <3>3, <3>4
  <2>5. CASE maintained # {}
    <3>1. UNCHANGED <<hourCounts, maintained>> /\ Agrees(hourCounts, CreatedIn)
      BY <1>9, <2>5 DEF InitSchema, CountsSound
    <3>2. maintained = Totals(Tally(rows))
      BY <2>5 DEF CountsSound
    <3> QED
      BY <2>1, <2>2, <2>4, <2>5, <3>1, <3>2 DEF CountsSound
  <2>6. CASE maintained = {} /\ statements = 0
    <3>1. UNCHANGED <<hourCounts, maintained>> /\ schema' = "old"
      BY <1>9, <2>6 DEF InitSchema
    <3> QED
      BY <2>1, <2>2, <2>4, <2>6, <3>1 DEF CountsSound
  <2>7. CASE maintained = {} /\ statements = 1
    <3>1. hourCounts' = ByHour(rows) /\ maintained' = {} /\ schema' = "old"
      BY <1>9, <2>7 DEF InitSchema
    <3>2. Agrees(hourCounts', CreatedIn)
      BY <3>1, ScanAgrees
    <3> QED
      BY <2>1, <2>2, <2>4, <3>1, <3>2 DEF CountsSound
  <2>8. CASE maintained = {} /\ statements >= 2
    <3>1. hourCounts' = ByHour(rows) /\ maintained' = Totals(Sums(hourCounts', DOMAIN hourCounts'))
      BY <1>9, <2>8 DEF InitSchema
    <3>2. Agrees(hourCounts', CreatedIn)
      BY <3>1, ScanAgrees
    <3>3. maintained' = Totals(Tally(rows))
      BY <3>1, SeedAddsUp
    <3>4. maintained' # {}
      BY <3>3 DEF Totals
    <3> QED
      BY <2>1, <2>2, <2>4, <3>2, <3>3, <3>4 DEF CountsSound
  <2> QED
    BY <2>5, <2>6, <2>7, <2>8
<1>10. CASE Deploy
  BY <1>2, <1>10 DEF Deploy, rowVars
<1>11. CASE \/ \E g \in Group : CreateGroup(g)
            \/ Cron \/ Migrate \/ MigrateStamps \/ MigrateEnds \/ CronDies
            \/ Restart \/ Tick \/ UNCHANGED vars
  <2>1. UNCHANGED <<rows, countVars, audit, cut, schema>>
    BY <1>11 DEF CreateGroup, Cron, Migrate, MigrateStamps, MigrateEnds, CronDies, Restart, Tick,
                 vars, rowVars
  <2> QED
    BY <1>2, <2>1
<1> QED
  BY <1>3, <1>4, <1>5, <1>6, <1>7, <1>8, <1>9, <1>10, <1>11 DEF Next
-----------------------------------------------------------------------------
(* The cron's own state.                                                   *)

\* The rest of the state keeps its shape.
LEMMA ShapeStep ==
    ASSUME Shape, [Next]_vars
    PROVE  Shape'
<1>1. CASE \/ \E e \in Arriving : InsertEventRow(e) \/ InsertBreaksOff(e)
           \/ \E row \in rows : \/ DeleteEventRow(row) \/ FixMisclassified(row)
                                \/ MigrateMisfiled(row) \/ MigrateUnstamped(row)
  <2>1. UNCHANGED <<groups, schema, audit, now, cron, scopeFixed, multiGroup, membersTable>>
    BY <1>1 DEF InsertEventRow, InsertBreaksOff, DeleteEventRow, FixMisclassified, MigrateMisfiled,
                MigrateUnstamped, flagVars, groupVars, cronVars
  <2>2. hostedGroups' = hostedGroups \/ (hostedGroups' = {groups} /\ schema = "current")
    BY <1>1, HostedIsGroups DEF InsertEventRow, InsertBreaksOff, DeleteEventRow, FixMisclassified,
                MigrateMisfiled, MigrateUnstamped, groupVars, Serving, Shape
  <2>3. changed' \in BOOLEAN /\ cut' \in BOOLEAN
    BY <1>1 DEF InsertEventRow, InsertBreaksOff, DeleteEventRow, FixMisclassified, MigrateMisfiled,
                MigrateUnstamped, cronVars, Shape
  <2> QED
    BY <2>1, <2>2, <2>3 DEF Shape
<1>2. ASSUME NEW g \in Group, CreateGroup(g) PROVE Shape'
  BY <1>2 DEF CreateGroup, InvalidateHostedGroups, Shape, Serving, flagVars, cronVars
<1>3. CASE Cron
  BY <1>3 DEF Cron, Shape, Serving, groupVars
<1>4. CASE Migrate
  BY <1>4 DEF Migrate, Shape, groupVars
<1>5. CASE MigrateStamps \/ MigrateEnds \/ CronDies
  BY <1>5 DEF MigrateStamps, MigrateEnds, CronDies, InvalidateHostedGroups, Shape, groupVars, flagVars
<1>6. CASE Audit
  <2>1. audit' \in [at : Hour \union {NoHour}, drift : BOOLEAN]
    BY <1>6 DEF Audit, Shape
  <2> QED
    BY <1>6, <2>1 DEF Audit, Shape, groupVars, flagVars
<1>7. ASSUME NEW statements \in 0 .. 5, InitSchema(statements) PROVE Shape'
  <2>1. /\ schema = "old" /\ schema' \in {"old", "current"} /\ hostedGroups' = hostedGroups
        /\ groups' \in {groups, groups \union {Top}}
        /\ schema' = "current" => Top \in groups'
    BY <1>7 DEF InitSchema
  <2>2. UNCHANGED <<scopeFixed, multiGroup, membersTable, audit, now, cron, changed, cut>>
    BY <1>7 DEF InitSchema, flagVars, cronVars
  <2>3. Top \in Group
    BY CountersAssumption
  <2> QED
    BY <2>1, <2>2, <2>3 DEF Shape
<1>8. CASE Deploy
  BY <1>8 DEF Deploy, Shape, Serving, flagVars, cronVars
<1>9. CASE Restart \/ Tick
  BY <1>9 DEF Restart, Tick, Shape, Serving, flagVars, cronVars, groupVars
<1>10. CASE UNCHANGED vars
  BY <1>10 DEF vars, Shape, flagVars, cronVars, groupVars
<1> QED
  BY <1>1, <1>2, <1>3, <1>4, <1>5, <1>6, <1>7, <1>8, <1>9, <1>10 DEF Next

\* What a LIMIT selects: some rows, no more than it, and all if they are fewer.
LEMMA SelectionShape ==
    ASSUME NEW some, IsFiniteSet(some), NEW selected \in Selections(some)
    PROVE  /\ selected \subseteq some /\ Cardinality(selected) <= Limit
           /\ Cardinality(selected) < Limit => selected = some
<1> DEFINE k == IF Cardinality(some) < Limit THEN Cardinality(some) ELSE Limit
<1>1. selected \subseteq some /\ Cardinality(selected) = k
  BY DEF Selections, kSubset
<1>2. Cardinality(some) \in Nat /\ Limit \in Nat
  BY FS_CardinalityType, CountersAssumption
<1>3. Cardinality(selected) < Limit => Cardinality(selected) = Cardinality(some)
  BY <1>1, <1>2
<1> QED
  BY <1>1, <1>2, <1>3, FS_Subset

\* Nothing is selected only where there is nothing to select.
LEMMA SelectionFinds ==
    ASSUME NEW some, IsFiniteSet(some), {} \in Selections(some)
    PROVE  some = {}
<1>1. Cardinality({}) = 0 /\ 0 < Limit
  BY FS_EmptySet, CountersAssumption
<1> QED
  BY <1>1, SelectionShape

\* What a pass has before it is what it may change.
LEMMA TodoStep ==
    ASSUME Shape, RowsSound, TodoSound, [Next]_vars
    PROVE  TodoSound'
<1>0. IsFiniteSet(todo) /\ Cardinality(todo) \in Nat /\ Limit \in Nat
  BY FS_Subset, FS_CardinalityType, CountersAssumption DEF TodoSound, RowsSound
<1>1. ASSUME UNCHANGED <<todo, cron>>, multiGroup' = multiGroup, todo \subseteq rows' PROVE TodoSound'
  BY <1>1 DEF TodoSound
\* One row done, and the others as they were.
<1>2. ASSUME NEW row \in todo, todo' = todo \ {row}, UNCHANGED <<cron, multiGroup>>,
             rows \ {row} \subseteq rows'
      PROVE  TodoSound'
  <2>1. todo' \subseteq rows' /\ todo' \subseteq todo
    BY <1>2 DEF TodoSound
  <2>2. Cardinality(todo') <= Cardinality(todo) /\ Cardinality(todo') \in Nat
    BY <1>0, <2>1, FS_Subset, FS_CardinalityType
  <2>3. Cardinality(todo') <= Limit
    BY <1>0, <2>2 DEF TodoSound
  <2> QED
    BY <1>2, <2>1, <2>3 DEF TodoSound
\* A new selection.
<1>3. ASSUME NEW some, some \subseteq rows, todo' \in {{}} \union Selections(some), rows' = rows
      PROVE  todo' \subseteq some /\ Cardinality(todo') <= Limit
  <2>1. CASE todo' = {}
    BY <1>0, <2>1, FS_EmptySet
  <2>2. CASE todo' \in Selections(some)
    <3>1. IsFiniteSet(some)
      BY <1>3, FS_Subset DEF RowsSound
    <3> QED
      BY <2>2, <3>1, SelectionShape
  <2> QED
    BY <1>3, <2>1, <2>2
<1>4. CASE \E e \in Arriving : InsertEventRow(e) \/ InsertBreaksOff(e)
  BY <1>1, <1>4 DEF InsertEventRow, InsertBreaksOff, flagVars, cronVars, TodoSound
<1>5. ASSUME NEW row \in rows, DeleteEventRow(row) PROVE TodoSound'
  <2>1. todo = {}
    BY <1>5 DEF DeleteEventRow, Serving, TodoSound
  <2> QED
    BY <1>1, <1>5, <2>1 DEF DeleteEventRow, flagVars, cronVars
<1>6. ASSUME NEW row \in rows, FixMisclassified(row) \/ MigrateMisfiled(row) \/ MigrateUnstamped(row)
      PROVE  TodoSound'
  <2>1. row \in todo /\ todo' = todo \ {row} /\ UNCHANGED <<cron, multiGroup>>
    BY <1>6 DEF FixMisclassified, MigrateMisfiled, MigrateUnstamped, flagVars
  <2>2. rows \ {row} \subseteq rows'
    BY <1>6 DEF FixMisclassified, MigrateMisfiled, MigrateUnstamped, Remove, Publish, Replace, rowVars
  <2> QED
    BY <1>2, <2>1, <2>2
<1>7. CASE Cron
  <2>1. /\ cron' = "fix" /\ UNCHANGED <<rows, multiGroup>>
        /\ todo' \in {{}} \union Selections(Candidates)
    BY <1>7 DEF Cron, rowVars
  <2>2. todo' \subseteq Candidates /\ Cardinality(todo') <= Limit
    BY <1>3, <2>1 DEF Candidates
  <2> QED
    BY <2>1, <2>2 DEF TodoSound, Candidates
<1>8. CASE Migrate
  <2> DEFINE some == { row \in rows : row.isGroup /\ row.event.public }
  <2>1. /\ cron' = "move" /\ UNCHANGED <<rows, multiGroup>> /\ todo = {}
        /\ (multiGroup /\ todo' = {}) \/ todo' \in Selections(some)
    BY <1>8 DEF Migrate, rowVars
  <2>2. todo' \subseteq some /\ Cardinality(todo') <= Limit
    BY <1>3, <2>1
  <2>3. multiGroup \in BOOLEAN
    BY DEF Shape
  <2>4. multiGroup => todo' = {}
    BY <1>8 DEF Migrate
  <2> QED
    BY <2>1, <2>2, <2>3, <2>4 DEF TodoSound
<1>9. CASE MigrateStamps
  <2> DEFINE some == { row \in rows : row.isGroup /\ row.groupId = NoGroup }
  <2>1. /\ cron' = "stamp" /\ UNCHANGED <<rows, multiGroup>>
        /\ todo' \in {{}} \union Selections(some)
        /\ multiGroup => todo' = {}
    BY <1>9 DEF MigrateStamps, rowVars, flagVars
  <2>2. todo' \subseteq some /\ Cardinality(todo') <= Limit
    BY <1>3, <2>1
  <2> QED
    BY <2>1, <2>2 DEF TodoSound
<1>10. CASE MigrateEnds \/ Audit \/ CronDies
  <2>1. todo' = {} /\ cron' \in {"idle", "audit"} /\ Cardinality(todo') = 0
    BY <1>10, FS_EmptySet DEF MigrateEnds, Audit, CronDies, TodoSound
  <2> QED
    BY <1>0, <2>1 DEF TodoSound
<1>11. CASE \/ \E g \in Group : CreateGroup(g)
            \/ \E statements \in 0 .. 5 : InitSchema(statements)
            \/ Deploy \/ Restart \/ Tick \/ UNCHANGED vars
  <2>1. UNCHANGED <<todo, cron, multiGroup, rows>>
    BY <1>11 DEF CreateGroup, InitSchema, Deploy, Restart, Tick, vars, cronVars, flagVars, rowVars
  <2> QED
    BY <1>1, <2>1 DEF TodoSound
<1> QED
  BY <1>4, <1>5, <1>6, <1>7, <1>8, <1>9, <1>10, <1>11 DEF Next
-----------------------------------------------------------------------------
(* The theorems.                                                           *)

\* The old rows the second migration can do nothing for: metadata without a d
\* tag.  A pass selects no more than Limit rows, in no order: where there are
\* as many of these, it may select nothing else, change nothing, and call the
\* migration done over rows it has never selected.
Nameless == { o.event : o \in { p \in Old : p.event.metadata /\ p.event.d = NoGroup } }
NamelessFit == Cardinality(Nameless) < Limit

\* Then they cannot fill a pass.
LEMMA NamelessRows ==
    ASSUME NamelessFit, Shape, RowsSound, ScopeSound,
           NEW some, some \subseteq { row \in rows : row.isGroup /\ GroupIdOf(row.event) = NoGroup }
    PROVE  IsFiniteSet(some) /\ Cardinality(some) < Limit
<1>1. IsFiniteSet(Nameless)
  <2> DEFINE old == { p \in Old : p.event.metadata /\ p.event.d = NoGroup }
  <2>1. IsFiniteSet(old)
    BY FS_Subset, CountersAssumption
  <2>2. [o \in old |-> o.event] \in Surjection(old, Nameless)
    BY DEF Nameless, Surjection
  <2> HIDE DEF old
  <2> QED
    BY <2>1, <2>2, FS_Surjection
<1>2. ASSUME NEW row \in some PROVE row.event \in Nameless
  <2>1. row \in rows /\ row.isGroup /\ GroupIdOf(row.event) = NoGroup
    OBVIOUS
  <2>2. NoGroup \notin groups
    BY CountersAssumption DEF Shape
  <2>3. Findable(row)
    BY <2>1, <2>2 DEF ScopeSound
  <2> QED
    BY <2>1, <2>3 DEF Findable, IsAnyGroupEvent, GroupIdOf, Nameless
<1>3. [row \in some |-> row.event] \in Injection(some, Nameless)
  BY <1>2 DEF Injection, IsInjective, RowsSound
<1>4. IsFiniteSet(some) /\ Cardinality(some) <= Cardinality(Nameless)
  BY <1>1, <1>3, FS_Injection
<1> QED
  BY <1>1, <1>4, FS_CardinalityType, CountersAssumption DEF NamelessFit

\* The second migration is done when it says so.
LEMMA PassStep ==
    ASSUME NamelessFit, Shape, RowsSound, TagsSound, TodoSound, ScopeSound, PassSound, [Next]_vars
    PROVE  PassSound'
\* Once it is, no step puts a row where it would have to be moved again.
<1>1. ASSUME NonePublic, \A row \in rows : ~Awaits(row)
      PROVE  NonePublic' /\ (\A row \in rows : ~Awaits(row))'
  <2>1. CASE UNCHANGED rowVars
    BY <1>1, <2>1 DEF rowVars, NonePublic, Awaits, GroupIdOf
  <2>2. ASSUME NEW row, Inserts(row) PROVE NonePublic' /\ (\A r \in rows : ~Awaits(r))'
    BY <1>1, <2>2 DEF Inserts, NonePublic, Awaits, GroupIdOf
  <2>3. ASSUME NEW row \in rows, Remove(row) PROVE NonePublic' /\ (\A r \in rows : ~Awaits(r))'
    BY <1>1, <2>3 DEF Remove, NonePublic, Awaits, GroupIdOf
  <2>4. ASSUME NEW row \in rows, Publishes(row) \/ Stamps(row)
        PROVE  NonePublic' /\ (\A r \in rows : ~Awaits(r))'
    <3>1. PICK new \in Row : /\ Replace(row, new) /\ new.event = row.event
                             /\ Publishes(row) => new.isGroup = FALSE
                             /\ ~Publishes(row) => Stamps(row) /\ new.isGroup = row.isGroup
      BY <2>4, ReplacedRow
    <3>2. ~new.isGroup
      <4>1. CASE Publishes(row)
        BY <3>1, <4>1
      <4>2. CASE ~Publishes(row)
        BY <1>1, <3>1, <4>2 DEF Stamps, Awaits
      <4> QED
        BY <4>1, <4>2
    <3>3. rows' = (rows \ {row}) \union {new}
      BY <3>1 DEF Replace
    <3> QED
      BY <1>1, <3>2, <3>3 DEF NonePublic, Awaits, GroupIdOf
  <2> QED
    BY <2>1, <2>2, <2>3, <2>4, RowSteps
<1>2. ASSUME multiGroup' PROVE NonePublic' /\ (\A row \in rows : ~Awaits(row))'
  <2>1. CASE multiGroup
    BY <1>1, <2>1 DEF PassSound
  <2>2. CASE ~multiGroup
    <3>1. MigrateEnds
      BY <1>2, <2>2 DEF Next, InsertEventRow, InsertBreaksOff, DeleteEventRow, FixMisclassified,
                MigrateMisfiled, MigrateUnstamped, CreateGroup, Cron, Migrate, MigrateStamps, Audit,
                CronDies, InitSchema, Deploy, Restart, Tick, vars, flagVars
    <3>2. ~changed /\ cron = "stamp" /\ todo = {}
      BY <1>2, <2>2, <3>1 DEF MigrateEnds
    <3> QED
      BY <1>1, <2>2, <3>2 DEF PassSound
  <2> QED
    BY <2>1, <2>2
<1>3. ASSUME ~multiGroup', ~changed', cron' = "move", todo' = {} PROVE NonePublic'
  <2>1. CASE Migrate
    <3> DEFINE some == { row \in rows : row.isGroup /\ row.event.public }
    <3>1. {} \in Selections(some) /\ rows' = rows
      BY <1>3, <2>1 DEF Migrate, rowVars
    <3>2. some = {}
      BY <3>1, FS_Subset, SelectionFinds DEF RowsSound
    <3> QED
      BY <3>1, <3>2 DEF NonePublic
  <2>2. CASE UNCHANGED <<rows, cron, todo, multiGroup, changed>>
    BY <1>3, <2>2 DEF PassSound, NonePublic
  <2> QED
    BY <1>3, <2>1, <2>2 DEF Next, InsertEventRow, InsertBreaksOff, DeleteEventRow, FixMisclassified,
          MigrateMisfiled, MigrateUnstamped, CreateGroup, Cron, MigrateStamps, MigrateEnds, Audit,
          CronDies, InitSchema, Deploy, Restart, Tick, vars, rowVars, cronVars, flagVars, Serving, Shape
<1>4. ASSUME ~multiGroup', ~changed', cron' = "stamp"
      PROVE  NonePublic' /\ ((\E row \in rows : Awaits(row)) => \E row \in todo : Awaits(row))'
  <2>1. CASE MigrateStamps
    <3> DEFINE some == { row \in rows : row.isGroup /\ row.groupId = NoGroup }
    <3>1. /\ cron = "move" /\ todo = {} /\ ~multiGroup /\ ~changed
          /\ rows' = rows /\ todo' \in Selections(some)
      BY <1>4, <2>1 DEF MigrateStamps, rowVars, flagVars
    <3>2. NonePublic
      BY <3>1 DEF PassSound
    <3>3. ASSUME NEW row \in rows, Awaits(row) PROVE \E r \in todo' : Awaits(r)
      <4>1. IsFiniteSet(some)
        BY FS_Subset DEF RowsSound
      <4>2. row \in some
        BY <3>3 DEF Awaits
      <4>3. todo' \subseteq some /\ (Cardinality(todo') < Limit => todo' = some)
        BY <3>1, <4>1, SelectionShape
      <4>4. CASE todo' = some
        BY <3>3, <4>2, <4>4
      <4>5. CASE ~ (Cardinality(todo') < Limit)
        <5>1. ~ (todo' \subseteq { r \in rows : r.isGroup /\ GroupIdOf(r.event) = NoGroup })
          BY <4>5, NamelessRows
        <5> QED
          BY <4>3, <5>1 DEF Awaits
      <4> QED
        BY <4>3, <4>4, <4>5
    <3> QED
      BY <3>1, <3>2, <3>3 DEF NonePublic, Awaits, GroupIdOf
  <2>2. ASSUME NEW row \in rows, MigrateUnstamped(row)
        PROVE  NonePublic' /\ ((\E r \in rows : Awaits(r)) => \E r \in todo : Awaits(r))'
    <3>1. /\ cron = "stamp" /\ ~multiGroup /\ ~changed /\ rows' = rows
          /\ todo' = todo \ {row} /\ ~Awaits(row)
      BY <1>4, <2>2 DEF MigrateUnstamped, Awaits, rowVars, flagVars
    <3> QED
      BY <3>1 DEF PassSound, NonePublic, Awaits, GroupIdOf
  <2>3. CASE UNCHANGED <<rows, cron, todo, multiGroup, changed>>
    BY <1>4, <2>3 DEF PassSound, NonePublic, Awaits, GroupIdOf
  <2> QED
    BY <1>4, <2>1, <2>2, <2>3 DEF Next, InsertEventRow, InsertBreaksOff, DeleteEventRow, FixMisclassified,
          MigrateMisfiled, CreateGroup, Cron, Migrate, MigrateEnds, Audit,
          CronDies, InitSchema, Deploy, Restart, Tick, vars, rowVars, cronVars, flagVars, Serving, Shape
<1> QED
  BY <1>2, <1>3, <1>4 DEF PassSound

\* The invariant holds of a new database and of an older one.
LEMMA BooksInit ==
    ASSUME Init
    PROVE  BooksInv /\ PassSound
<1>1. ASSUME NEW row \in OldRows
      PROVE  /\ row \in Row /\ row.groupId = NoGroup
             /\ row.isGroup = IsAnyGroupEvent(row.event)
             /\ \E o \in Old : o.event = row.event /\ o.ingested = row.ingested
  <2>1. PICK o \in Old : row = [event |-> o.event, ingested |-> o.ingested,
                                isGroup |-> IsAnyGroupEvent(o.event), groupId |-> NoGroup]
    BY DEF OldRows
  <2>2. o.event \in Event /\ o.ingested \in Hour \union {NoHour}
    BY CountersAssumption
  <2>3. IsAnyGroupEvent(o.event) \in BOOLEAN
    BY <2>2, EventShape DEF IsAnyGroupEvent
  <2> QED
    BY <2>1, <2>2, <2>3 DEF Row
<1>2. rows \subseteq OldRows /\ rows \in {{}, OldRows}
  BY DEF Init
<1>3. RowsSound
  <2> DEFINE f == [o \in Old |-> [event |-> o.event, ingested |-> o.ingested,
                                  isGroup |-> IsAnyGroupEvent(o.event), groupId |-> NoGroup]]
  <2>1. f \in Surjection(Old, OldRows)
    BY DEF OldRows, Surjection
  <2>2. IsFiniteSet(OldRows)
    <3> HIDE DEF f
    <3> QED
      BY <2>1, FS_Surjection, CountersAssumption
  <2>3. IsFiniteSet(rows)
    BY <1>2, <2>2, FS_Subset
  <2>4. \A r, s \in OldRows : r.event = s.event => r = s
    BY CountersAssumption DEF OldRows
  <2> QED
    BY <1>1, <1>2, <2>3, <2>4 DEF RowsSound
<1>4. TagsSound
  <2>1. ASSUME NEW t \in tags
        PROVE  \E row \in rows : /\ t.event = row.event /\ t.isGroup = row.isGroup /\ t.groupId = row.groupId
                                 /\ t \in Tag
    <3>1. PICK row \in rows : t \in TagsOf(row)
      BY DEF Init
    <3>2. PICK i \in DOMAIN row.event.h :
            t = [event |-> row.event, value |-> row.event.h[i], isGroup |-> row.isGroup, groupId |-> row.groupId]
      BY <3>1 DEF TagsOf
    <3>3. row \in Row
      BY <1>3 DEF RowsSound
    <3>4. row.event.h[i] \in Group
      BY <3>3, RowShape, EventShape
    <3> QED
      BY <3>2, <3>3, <3>4, RowShape DEF Tag
  <2> QED
    BY <2>1 DEF TagsSound, TagsFollow
<1>5. CountsSound
  BY DEF Init, CountsSound
<1>6. Shape
  BY CountersAssumption DEF Init, Shape, Unread
<1>7. TodoSound
  BY FS_EmptySet, CountersAssumption DEF Init, TodoSound
<1>8. ASSUME NEW row \in rows, row.isGroup PROVE Findable(row) /\ row.groupId = NoGroup
  <2>1. IsAnyGroupEvent(row.event) /\ \E o \in Old : o.event = row.event
    BY <1>1, <1>2, <1>8
  <2>2. ASSUME NEW i \in DOMAIN row.event.h
        PROVE  \E t \in tags : t.event = row.event /\ t.value = row.event.h[i]
    <3> DEFINE t == [event |-> row.event, value |-> row.event.h[i],
                     isGroup |-> row.isGroup, groupId |-> row.groupId]
    <3>1. t \in TagsOf(row) /\ TagsOf(row) \subseteq tags
      BY DEF Init, TagsOf
    <3>2. t.event = row.event /\ t.value = row.event.h[i]
      OBVIOUS
    <3> QED
      BY <3>1, <3>2
  <2> QED
    BY <1>1, <1>2, <2>1, <2>2 DEF Findable
<1>9. ScopeSound
  BY <1>8 DEF ScopeSound, Init
<1>10. PassSound
  BY DEF Init, PassSound
<1> QED
  BY <1>3, <1>4, <1>5, <1>6, <1>7, <1>9, <1>10 DEF BooksInv

\* Every step keeps it.
LEMMA BooksStep ==
    ASSUME BooksInv, [Next]_vars
    PROVE  BooksInv'
BY RowsStep, CountsStep, ShapeStep, TodoStep, ScopeStep DEF BooksInv

\* THEOREM: the tables keep their types, and no count is ever negative but an
\* hour of arrival that an insert broke off in.
THEOREM TypeCorrect == Spec => []TypeOK
<1>1. BooksInv => TypeOK
  <2> SUFFICES ASSUME BooksInv PROVE TypeOK
    OBVIOUS
  <2> USE DEF BooksInv
  <2>1. maintained \subseteq [events : Nat, groupEvents : Nat] /\ Cardinality(maintained) <= 1
    <3>1. Tally(rows) \in Bucket
      BY TallyType DEF RowsSound
    <3>2. maintained = {} \/ maintained = {[events |-> Tally(rows).n, groupEvents |-> Tally(rows).group_n]}
      BY DEF CountsSound, Totals
    <3>3. maintained = {} \/ \E c : maintained = {c}
      BY <3>2
    <3>4. Cardinality(maintained) \in {0, 1}
      BY <3>3, FS_EmptySet, FS_Singleton
    <3> QED
      BY <3>1, <3>2, <3>4 DEF Bucket
  <2>2. ASSUME NEW counts, NEW of \in {CreatedIn, CameIn}, Agrees(counts, of), NEW hour \in DOMAIN counts
        PROVE  hour \in Hour /\ counts[hour] \in Bucket
    BY <2>2, HoursShape, TallyType DEF Agrees
  <2>3. DOMAIN hourCounts \subseteq Hour /\ \A hour \in DOMAIN hourCounts : hourCounts[hour] \in Bucket
    BY <2>2 DEF CountsSound
  <2>4. /\ DOMAIN ingestCounts \subseteq Hour
        /\ \A hour \in DOMAIN ingestCounts : ingestCounts[hour] \in Bucket \/ cut
    BY <2>2 DEF CountsSound
  <2> QED
    BY <2>1, <2>3, <2>4 DEF TypeOK, RowsSound, TagsSound, Shape, TodoSound
<1> QED
  BY <1>1, BooksInit, BooksStep, PTL DEF Spec

\* What of the books needs no bound on the old rows: whenever the schema is
\* current, the counts are true, the tags follow their rows, what the first
\* migration calls done is done, and the audit is silent.
FirstBooksBalance ==
    schema = "current" =>
        /\ CountsAreTrue
        /\ TagsFollow
        /\ \A row \in { r \in rows : r.isGroup } :
             scopeFixed => GroupIdOf(row.event) \in groups /\ (row.event.metadata => row.event.own)
        /\ audit.drift => cut

\* Counts that agree are what a scan would find.
LEMMA CountsTrue ==
    ASSUME BooksInv, schema = "current"
    PROVE  CountsAreTrue
<1>1. /\ maintained = Totals(Tally(rows))
      /\ Agrees(hourCounts, CreatedIn)
      /\ cut \/ Agrees(ingestCounts, CameIn)
  BY CountsNow DEF BooksInv
<1>2. Agrees(ByHour(rows), CreatedIn) /\ Agrees(ByIngest(rows), CameIn)
  BY ScanAgrees DEF BooksInv
<1>3. ASSUME NEW counts, NEW others, NEW of, Agrees(counts, of), Agrees(others, of), NEW hour \in Hour
      PROVE  (IF hour \in DOMAIN counts THEN counts[hour] ELSE Tally({})) =
             (IF hour \in DOMAIN others THEN others[hour] ELSE Tally({}))
  BY <1>3 DEF Agrees
<1> QED
  BY <1>1, <1>2, <1>3 DEF CountsAreTrue

\* THEOREM: for any old rows, the counts are what a scan of the rows would
\* find, the tags are filed as their events, the first migration is done when
\* it says so, and the audit raises no false alarm.
THEOREM FirstBooksTheorem == Spec => []FirstBooksBalance
<1>1. BooksInv => FirstBooksBalance
  BY CountsTrue DEF BooksInv, FirstBooksBalance, TagsSound, ScopeSound, CountsSound
<1> QED
  BY <1>1, BooksInit, BooksStep, PTL DEF Spec

\* THEOREM: the books balance, all of them, where fewer old rows than a pass
\* takes name no group.
THEOREM BooksTheorem == NamelessFit => (Spec => []BooksBalance)
<1> SUFFICES ASSUME NamelessFit PROVE Spec => []BooksBalance
  OBVIOUS
<1>1. ASSUME BooksInv, PassSound, [Next]_vars PROVE (BooksInv /\ PassSound)'
  BY <1>1, BooksStep, PassStep DEF BooksInv
<1>2. BooksInv /\ PassSound => BooksBalance
  <2> SUFFICES ASSUME BooksInv, PassSound, schema = "current"
               PROVE  CountsAreTrue /\ TagsFollow /\ FiledRight /\ (audit.drift => cut)
    BY DEF BooksBalance
  <2>1. FiledRight
    BY DEF FiledRight, BooksInv, ScopeSound, PassSound, NonePublic, Awaits
  <2> QED
    BY <2>1, CountsTrue DEF BooksInv, TagsSound, CountsSound
<1> QED
  BY <1>1, <1>2, BooksInit, PTL DEF Spec
=============================================================================
