----------------------------- MODULE PushProofs -----------------------------
(***************************************************************************)
(* What holds of the push queue and of the one alarm for every number of   *)
(* devices, members and sockets, every limit and every interleaving of the *)
(* drain with the calls it lets in while it waits.                         *)
(***************************************************************************)
EXTENDS Push, FiniteSetTheorems, WellFoundedInduction, TLAPS

-----------------------------------------------------------------------------
(* In place of induction: of the numbers for which a statement fails, the  *)
(* least.                                                                  *)

\* A set of naturals with a member has a least one.
LEMMA LeastNat ==
    ASSUME NEW S, S \subseteq Nat, S # {}
    PROVE  \E x \in S : \A y \in S : x <= y
<1> DEFINE less == { s \in Nat \X Nat : s[1] < s[2] }
<1>1. IsWellFoundedOn(less, Nat)
  BY NatLessThanWellFounded DEF OpToRel
<1>2. PICK x \in S : \A y \in S : ~ (<<y, x>> \in less)
  BY <1>1, WFMin
<1>3. ASSUME NEW y \in S PROVE x <= y
  <2>1. x \in Nat /\ y \in Nat
    OBVIOUS
  <2>2. ~ (y < x)
    BY <1>2, <2>1
  <2> QED
    BY <2>1, <2>2
<1> QED
  BY <1>3

\* Which is its Min.
LEMMA MinNat ==
    ASSUME NEW S, S \subseteq Nat, S # {}
    PROVE  Min(S) \in S /\ \A y \in S : Min(S) <= y
BY LeastNat DEF Min
-----------------------------------------------------------------------------
(* Sets of endpoints.                                                      *)

\* The last endpoint of a page.
LEMMA MaxEndpoint ==
    ASSUME NEW S, S \subseteq Endpoint, S # {}
    PROVE  Max(S) \in S /\ \A y \in S : y <= Max(S)
<1> DEFINE bounds == { u \in Nat : \A y \in S : y <= u }
<1>1. Devices \in bounds
  BY PushAssumption DEF Endpoint
<1>2. PICK m \in bounds : \A u \in bounds : m <= u
  <2>1. bounds \subseteq Nat /\ bounds # {}
    BY <1>1
  <2> HIDE DEF bounds
  <2> QED
    BY <2>1, LeastNat
<1>3. S \subseteq Nat \ {0}
  BY PushAssumption DEF Endpoint
<1>4. m \in S
  <2>1. SUFFICES ASSUME m \notin S PROVE FALSE
    OBVIOUS
  <2>2. \A y \in S : y <= m - 1
    BY <1>3, <2>1
  <2>3. PICK y \in S : TRUE
    OBVIOUS
  <2>4. m - 1 \in Nat
    BY <1>3, <2>2, <2>3
  <2>5. m - 1 \in bounds
    BY <2>2, <2>4
  <2> QED
    BY <1>2, <2>5
<1> QED
  BY <1>3, <1>4 DEF Max

\* There are finitely many endpoints.
LEMMA EndpointsAreFinite ==
    ASSUME NEW S, S \subseteq Endpoint
    PROVE  IsFiniteSet(S) /\ Cardinality(S) \in Nat
<1>1. IsFiniteSet(Endpoint)
  BY PushAssumption, FS_Interval DEF Endpoint
<1> QED
  BY <1>1, FS_Subset, FS_CardinalityType

-----------------------------------------------------------------------------
(* Pages.                                                                  *)

\* The devices after the row's cursor.
After(row) == { e \in Subscribed : e > row.cursor }

\* Targets are in the page, and the page after the cursor.
LEMMA PageTypes ==
    ASSUME NEW row, NEW budget
    PROVE  /\ Page(row, budget) \subseteq After(row)
           /\ After(row) \subseteq Subscribed
           /\ Subscribed \subseteq Endpoint
           /\ Endpoint \subseteq Nat \ {0}
           /\ Targets(row, budget) \subseteq Page(row, budget)
BY PushAssumption DEF Page, After, Subscribed, Targets, Endpoint

\* A page holds no more than it was asked for.
LEMMA PageWithinBudget ==
    ASSUME NEW row, NEW budget \in Nat
    PROVE  Cardinality(Page(row, budget)) <= budget
<1> DEFINE page == Page(row, budget)
<1>1. page \subseteq Endpoint
  BY PageTypes
<1>2. CASE page = {}
  BY <1>2, FS_EmptySet
<1>3. CASE page # {}
  <2> DEFINE last == Max(page)
             before == { f \in Subscribed : f > row.cursor /\ f < last }
  <2>1. last \in page /\ \A y \in page : y <= last
    BY <1>1, <1>3, MaxEndpoint
  <2>2. Cardinality(before) < budget
    BY <2>1 DEF Page
  <2>3. page \ {last} \subseteq before
    <3>1. SUFFICES ASSUME NEW e \in page, e # last PROVE e \in before
      OBVIOUS
    <3>2. e \in Nat /\ last \in Nat /\ e <= last
      BY <2>1, PageTypes
    <3>3. e \in Subscribed /\ e > row.cursor
      BY DEF Page
    <3> HIDE DEF page, last
    <3> QED
      BY <3>1, <3>2, <3>3
  <2>4. before \subseteq Endpoint
    BY DEF Subscribed
  <2> HIDE DEF page, before, last
  <2>5. IsFiniteSet(before) /\ Cardinality(before) \in Nat
        /\ IsFiniteSet(page) /\ Cardinality(page) \in Nat
    BY <2>4, <1>1, EndpointsAreFinite
  <2>6. Cardinality(page \ {last}) <= Cardinality(before)
    BY <2>3, <2>5, FS_Subset
  <2>7. Cardinality(page \ {last}) = Cardinality(page) - 1
    BY <2>1, <2>5, FS_RemoveElement
  <2>8. Cardinality(page) <= budget
    BY <2>2, <2>5, <2>6, <2>7
  <2> QED
    BY <2>8 DEF page
<1> QED
  BY <1>2, <1>3

\* What a page leaves out comes after all that is in it.
LEMMA PageComesFirst ==
    ASSUME NEW row, NEW budget \in Nat,
           NEW e \in After(row) \ Page(row, budget), NEW p \in Page(row, budget)
    PROVE  p < e
<1> DEFINE upTo(x) == { f \in Subscribed : f > row.cursor /\ f < x }
<1>1. e \in Nat /\ p \in Nat
  BY PageTypes
<1>2. e # p
  OBVIOUS
<1>3. CASE e < p
  <2>1. upTo(e) \subseteq upTo(p)
    BY <1>1, <1>3, PageTypes
  <2>2. upTo(p) \subseteq Endpoint
    BY DEF Subscribed
  <2>3. IsFiniteSet(upTo(p)) /\ Cardinality(upTo(p)) \in Nat
    BY <2>2, EndpointsAreFinite
  <2>4. Cardinality(upTo(e)) <= Cardinality(upTo(p)) /\ Cardinality(upTo(e)) \in Nat
    <3>1. upTo(e) \subseteq Endpoint
      BY <2>1, <2>2
    <3> HIDE DEF upTo
    <3> QED
      BY <2>1, <2>3, <3>1, EndpointsAreFinite, FS_Subset
  <2>5. Cardinality(upTo(p)) < budget
    BY DEF Page
  <2>6. Cardinality(upTo(e)) < budget
    BY <2>3, <2>4, <2>5
  <2>7. e \in Page(row, budget)
    BY <2>6 DEF Page, After
  <2> QED
    BY <2>7
<1> QED
  BY <1>1, <1>2, <1>3

\* A page that is short, or empty though there was budget, is the last.
LEMMA LastPage ==
    ASSUME NEW row, NEW budget \in Nat \ {0},
           Short(Page(row, budget), budget) \/ Page(row, budget) = {}
    PROVE  After(row) \subseteq Page(row, budget)
<1> DEFINE page == Page(row, budget)
           left == After(row) \ page
<1>1. SUFFICES ASSUME left # {} PROVE FALSE
  OBVIOUS
<1>2. left \subseteq Nat /\ page \subseteq Endpoint
  BY PageTypes
<1>3. PICK e \in left : \A y \in left : e <= y
  <2> HIDE DEF left
  <2> QED
    BY <1>1, <1>2, LeastNat
<1> DEFINE before == { f \in Subscribed : f > row.cursor /\ f < e }
<1>4. before \subseteq page
  <2>1. SUFFICES ASSUME NEW f \in before, f \notin page PROVE FALSE
    OBVIOUS
  <2>2. f \in left
    BY <2>1 DEF After
  <2>3. f \in Nat /\ e \in Nat /\ f < e
    BY <2>2, <1>2
  <2> QED
    BY <1>3, <2>2, <2>3
<1>5. Cardinality(page) < budget
  <2>1. CASE page = {}
    <3>1. Cardinality(page) = 0
      BY <2>1, FS_EmptySet
    <3> QED
      BY <3>1
  <2>2. CASE page # {}
    BY <2>2 DEF Short
  <2> QED
    BY <2>1, <2>2
<1>6. Cardinality(before) < budget
  <2> HIDE DEF before, page, left
  <2>1. IsFiniteSet(page) /\ Cardinality(page) \in Nat
    BY <1>2, EndpointsAreFinite
  <2>2. before \subseteq Endpoint
    BY <1>2, <1>4
  <2>3. Cardinality(before) \in Nat
    BY <2>2, EndpointsAreFinite
  <2>4. Cardinality(before) <= Cardinality(page)
    BY <1>4, <2>1, FS_Subset
  <2> QED
    BY <1>5, <2>1, <2>3, <2>4
<1>7. e \in page
  BY <1>6 DEF Page, After
<1> QED
  BY <1>7

-----------------------------------------------------------------------------
(* The allowance.                                                          *)

\* What is left of an allowance after row i, without Targets' definition.
Spent(i, left) == left - Cardinality(Targets(outbox[i], left))

\* The recursion of Budget defines it: there is a function that meets it.
LEMMA BudgetDef ==
    ASSUME TypeOK
    PROVE  Budget = [i \in 1 .. Len(outbox) + 1 |->
                       IF i = 1 THEN MaxPerTick ELSE Spent(i - 1, Budget[i - 1])]
<1> DEFINE Step(f, n) == [i \in 1 .. n |-> IF i = 1 THEN MaxPerTick ELSE Spent(i - 1, f[i - 1])]
           Meets(f, n) == f = Step(f, n)
           none == { n \in Nat : ~ \E f : Meets(f, n) }
<1>1. none = {}
  <2>1. SUFFICES ASSUME none # {} PROVE FALSE
    OBVIOUS
  <2>2. PICK n \in none : \A y \in none : n <= y
    <3> HIDE DEF none
    <3>1. none \subseteq Nat
      BY DEF none
    <3> QED
      BY <2>1, <3>1, LeastNat
  <2>3. CASE n = 0
    <3> DEFINE f == [i \in 1 .. 0 |-> 0]
    <3>1. Step(f, 0) = f
      OBVIOUS
    <3>2. Meets(f, 0)
      BY <3>1
    <3> QED
      BY <2>2, <2>3, <3>2
  <2>4. CASE n # 0
    <3>1. n \in Nat /\ n - 1 \in Nat /\ ~ (n <= n - 1)
      BY <2>4
    <3>2. n - 1 \notin none
      BY <2>2, <3>1
    <3>3. PICK f : Meets(f, n - 1)
      BY <3>1, <3>2
    <3> DEFINE g == Step(f, n)
    <3>4. \A i \in 1 .. n - 1 : g[i] = f[i]
      <4>1. TAKE i \in 1 .. n - 1
      <4>2. f[i] = Step(f, n - 1)[i]
        BY <3>3
      <4>3. i \in 1 .. n
        BY <3>1
      <4> QED
        BY <4>2, <4>3
    <3>5. Step(g, n) = Step(f, n)
      <4> HIDE DEF g
      <4>1. \A i \in 1 .. n : i # 1 => g[i - 1] = f[i - 1]
        BY <3>1, <3>4
      <4> QED
        BY <4>1
    <3>6. Meets(g, n)
      BY <3>5
    <3> QED
      BY <2>2, <3>6
  <2> QED
    BY <2>3, <2>4
<1>2. Len(outbox) + 1 \in Nat
  BY DEF TypeOK
<1>3. \E f : Meets(f, Len(outbox) + 1)
  BY <1>1, <1>2
<1>4. Budget = CHOOSE f : Meets(f, Len(outbox) + 1)
  BY DEF Budget, Spent
<1>5. Meets(Budget, Len(outbox) + 1)
  <2> HIDE DEF Meets
  <2> QED
    BY <1>3, <1>4
<1> QED
  BY <1>5

\* The devices of the first n rows' targets, each with its reason.
SentBy(n) ==
    UNION { Targets(outbox[i], Budget[i]) \X {outbox[i].reason} : i \in 1 .. n }

\* The recursion, step by step.
LEMMA BudgetSteps ==
    ASSUME TypeOK
    PROVE  /\ Len(outbox) \in Nat /\ DOMAIN outbox = 1 .. Len(outbox)
           /\ Budget[1] = MaxPerTick
           /\ \A n \in 1 .. Len(outbox) : Budget[n + 1] = Spent(n, Budget[n])
<1>1. Len(outbox) \in Nat /\ DOMAIN outbox = 1 .. Len(outbox)
  BY DEF TypeOK
<1>2. 1 \in 1 .. Len(outbox) + 1
  BY <1>1
<1>3. Budget[1] = MaxPerTick
  BY <1>2, BudgetDef
<1>4. ASSUME NEW n \in 1 .. Len(outbox) PROVE Budget[n + 1] = Spent(n, Budget[n])
  <2>1. n + 1 \in 1 .. Len(outbox) + 1 /\ n + 1 # 1 /\ n + 1 - 1 = n
    BY <1>1
  <2> QED
    BY <2>1, BudgetDef
<1> QED
  BY <1>1, <1>3, <1>4

\* The targets of one row are paired with its reason, one for one.
LEMMA TargetsOfRow ==
    ASSUME NEW row, NEW budget \in Nat, NEW reason
    PROVE  /\ IsFiniteSet(Targets(row, budget))
           /\ Cardinality(Targets(row, budget)) \in 0 .. budget
           /\ IsFiniteSet(Targets(row, budget) \X {reason})
           /\ Cardinality(Targets(row, budget) \X {reason}) = Cardinality(Targets(row, budget))
<1> DEFINE targets == Targets(row, budget)
           page == Page(row, budget)
<1>1. targets \subseteq page /\ page \subseteq Endpoint
  BY PageTypes
<1>2. Cardinality(page) <= budget
  BY PageWithinBudget
<1> HIDE DEF targets, page
<1>3. /\ IsFiniteSet(page) /\ Cardinality(page) \in Nat
      /\ IsFiniteSet(targets) /\ Cardinality(targets) \in Nat
  BY <1>1, EndpointsAreFinite
<1>4. Cardinality(targets) <= Cardinality(page)
  BY <1>1, <1>3, FS_Subset
<1>5. IsFiniteSet({reason}) /\ Cardinality({reason}) = 1
  BY FS_Singleton
<1>6. IsFiniteSet(targets \X {reason}) /\ Cardinality(targets \X {reason}) = Cardinality(targets)
  <2>1. /\ IsFiniteSet(targets \X {reason})
        /\ Cardinality(targets \X {reason}) = Cardinality(targets) * Cardinality({reason})
    BY <1>3, <1>5, FS_Product
  <2> QED
    BY <1>3, <1>5, <2>1
<1>7. Cardinality(targets) \in 0 .. budget
  BY <1>2, <1>3, <1>4
<1> QED
  BY <1>3, <1>6, <1>7 DEF targets

\* Row after row, what was planned to be sent and what is left of the
\* allowance make up the allowance.
LEMMA AllowanceHolds ==
    ASSUME TypeOK
    PROVE  \A n \in 0 .. Len(outbox) :
             /\ Budget[n + 1] \in 0 .. MaxPerTick
             /\ IsFiniteSet(SentBy(n))
             /\ Cardinality(SentBy(n)) <= MaxPerTick - Budget[n + 1]
<1> DEFINE Holds(n) == /\ Budget[n + 1] \in 0 .. MaxPerTick
                       /\ IsFiniteSet(SentBy(n))
                       /\ Cardinality(SentBy(n)) <= MaxPerTick - Budget[n + 1]
           bad == { n \in 0 .. Len(outbox) : ~ Holds(n) }
<1>1. Len(outbox) \in Nat /\ MaxPerTick \in Nat
  BY BudgetSteps, PushAssumption
<1>2. SUFFICES ASSUME bad # {} PROVE FALSE
  OBVIOUS
<1>3. PICK n \in bad : \A y \in bad : n <= y
  <2>1. bad \subseteq Nat
    BY <1>1
  <2> HIDE DEF bad
  <2> QED
    BY <1>2, <2>1, LeastNat
<1>4. n \in 0 .. Len(outbox) /\ ~ Holds(n)
  OBVIOUS
<1>5. CASE n = 0
  <2>1. SentBy(0) = {}
    BY DEF SentBy
  <2>2. IsFiniteSet(SentBy(0)) /\ Cardinality(SentBy(0)) = 0
    BY <2>1, FS_EmptySet
  <2>3. Budget[0 + 1] = MaxPerTick
    BY BudgetSteps
  <2>4. Holds(0)
    BY <1>1, <2>2, <2>3
  <2> QED
    BY <1>4, <1>5, <2>4
<1>6. CASE n # 0
  <2> DEFINE left == Budget[n]
             these == Targets(outbox[n], left)
             pairs == these \X {outbox[n].reason}
             earlier == SentBy(n - 1)
  <2>1. n \in 1 .. Len(outbox) /\ n - 1 \in 0 .. Len(outbox) /\ n - 1 + 1 = n /\ ~ (n <= n - 1)
    BY <1>1, <1>4, <1>6
  <2>2. Holds(n - 1)
    <3>1. n - 1 \notin bad
      BY <1>3, <2>1
    <3> QED
      BY <2>1, <3>1
  <2>3. left \in 0 .. MaxPerTick /\ IsFiniteSet(earlier) /\ Cardinality(earlier) <= MaxPerTick - left
    BY <2>1, <2>2
  <2>4. left \in Nat
    BY <1>1, <2>3
  <2>5. /\ Cardinality(these) \in 0 .. left
        /\ IsFiniteSet(pairs) /\ Cardinality(pairs) = Cardinality(these)
    BY <2>4, TargetsOfRow
  <2>6. Budget[n + 1] = left - Cardinality(these)
    BY <2>1, BudgetSteps DEF Spent
  <2>7. SentBy(n) = earlier \union pairs
    <3>1. 1 .. n = (1 .. n - 1) \union {n}
      BY <2>1
    <3> QED
      BY <3>1 DEF SentBy
  <2> HIDE DEF left, these, pairs, earlier, Holds, bad
  <2>8. Cardinality(earlier) \in Nat
    BY <2>3, FS_CardinalityType
  <2>9. /\ IsFiniteSet(SentBy(n))
        /\ Cardinality(SentBy(n)) = Cardinality(earlier) + Cardinality(pairs)
                                    - Cardinality(earlier \cap pairs)
    BY <2>3, <2>5, <2>7, FS_Union
  <2>10. Cardinality(earlier \cap pairs) \in Nat
    BY <2>3, FS_Intersection, FS_CardinalityType
  <2>11. Budget[n + 1] \in 0 .. MaxPerTick
    BY <1>1, <2>3, <2>5, <2>6
  <2>12. Cardinality(SentBy(n)) <= MaxPerTick - Budget[n + 1]
    BY <1>1, <2>3, <2>4, <2>5, <2>6, <2>8, <2>9, <2>10
  <2> QED
    BY <1>4, <2>9, <2>11, <2>12 DEF Holds
<1> QED
  BY <1>5, <1>6

-----------------------------------------------------------------------------
(* The inductive invariant.                                                *)

\* A queued row.  Its cursor parts the devices it has been sent to from those
\* it owes a push, and what it counts as sent is what it has been sent to.
RowSound(row) ==
    /\ \A e \in pushed[row.reason] : e <= row.cursor
    /\ \A e \in owed[row.reason] : e > row.cursor
    /\ row.sent = Cardinality(pushed[row.reason])
    /\ row.sent < MaxPerNotification

\* A batch: its page follows its row's cursor, its targets are new to it, and the devices owed a push come
\* in the page or after it, all in it when it is the last.
BatchSound(b) ==
    /\ b.targets \subseteq b.page
    /\ b.targets \intersect pushed[b.reason] = {}
    /\ Cardinality(b.targets) <= MaxPerTick
    /\ \E i \in DOMAIN outbox :
         /\ outbox[i].reason = b.reason
         /\ outbox[i].sent = b.sent
         /\ \A e \in b.page : e > outbox[i].cursor
    /\ \A o \in owed[b.reason] \ b.page : \A e \in b.page : e < o
    /\ b.exhausted \/ b.page = {} => owed[b.reason] \subseteq b.page

PlanSound(plan) ==
    /\ plan \in Sending
    /\ \A j, k \in DOMAIN plan.batches :
         plan.batches[j].reason = plan.batches[k].reason => j = k
    /\ \A k \in DOMAIN plan.batches : BatchSound(plan.batches[k])
    /\ Cardinality(Sends(plan)) <= MaxPerTick

\* Nothing is queued that the plan passes over, or it says so.
Covers(plan) ==
    plan.deferred \/ \A i \in DOMAIN outbox : BatchesOf(plan, outbox[i].reason) # {}

\* The inductive invariant.
PushInv ==
    /\ TypeOK
    /\ \A i \in DOMAIN outbox : RowSound(outbox[i])
    /\ PlanSound(sending)
    /\ FanOutBounded
    /\ \A r \in Reason : owed[r] \subseteq Subscribed
    /\ LiveFeedHasAlarm
    /\ QueueHasAlarm
    /\ sending # Idle => Covers(sending) \/ alarm # Never

-----------------------------------------------------------------------------
(* What the alarm plans.                                                   *)

\* The planned rows are the first ones, all with something left for them.
LEMMA PlannedPrefix ==
    ASSUME TypeOK
    PROVE  /\ Cardinality(Planned) \in 0 .. Len(outbox)
           /\ Planned = 1 .. Cardinality(Planned)
           /\ \A i \in Planned : i \in DOMAIN outbox /\ Budget[i] \in Nat \ {0}
<1> DEFINE rest == { i \in 1 .. Len(outbox) + 1 : i \notin Planned }
<1>1. Len(outbox) \in Nat /\ DOMAIN outbox = 1 .. Len(outbox)
  BY BudgetSteps
<1>2. Planned \subseteq 1 .. Len(outbox)
  BY <1>1 DEF Planned
<1>3. PICK m \in rest : \A y \in rest : m <= y
  <2>1. Len(outbox) + 1 \in rest
    BY <1>1, <1>2
  <2>2. rest \subseteq Nat
    BY <1>1
  <2> HIDE DEF rest
  <2> QED
    BY <2>1, <2>2, LeastNat
<1>4. m \in 1 .. Len(outbox) + 1 /\ m \notin Planned
  OBVIOUS
<1>5. Planned = 1 .. m - 1
  <2>1. ASSUME NEW i \in Planned PROVE i \in 1 .. m - 1
    <3>1. i \in 1 .. Len(outbox) /\ \A j \in 1 .. i : Budget[j] > 0
      BY <1>1 DEF Planned
    <3>2. SUFFICES ASSUME m <= i PROVE FALSE
      BY <1>1, <1>4, <3>1
    <3>3. m \in DOMAIN outbox /\ \A j \in 1 .. m : Budget[j] > 0
      BY <1>1, <1>4, <3>1, <3>2
    <3> QED
      BY <1>4, <3>3 DEF Planned
  <2>2. ASSUME NEW i \in 1 .. m - 1 PROVE i \in Planned
    <3>1. i \in 1 .. Len(outbox) + 1 /\ ~ (m <= i)
      BY <1>1, <1>4
    <3> QED
      BY <1>3, <3>1
  <2> QED
    BY <2>1, <2>2
<1>6. Cardinality(Planned) = m - 1
  <2>1. Cardinality(1 .. m - 1) = m - 1
    BY <1>1, <1>4, FS_Interval
  <2> QED
    BY <1>5, <2>1
<1>7. ASSUME NEW i \in Planned PROVE i \in DOMAIN outbox /\ Budget[i] \in Nat \ {0}
  <2>1. i \in 1 .. Len(outbox) /\ Budget[i] > 0
    BY <1>1 DEF Planned
  <2>2. i - 1 \in 0 .. Len(outbox) /\ i - 1 + 1 = i
    BY <1>1, <2>1
  <2>3. Budget[i] \in 0 .. MaxPerTick
    BY <2>2, AllowanceHolds
  <2>4. Budget[i] \in Nat \ {0}
    BY <2>1, <2>3, PushAssumption
  <2> QED
    BY <1>1, <2>1, <2>4
<1> QED
  BY <1>1, <1>4, <1>5, <1>6, <1>7

\* A batch that is planned is of its row, and sound.
LEMMA BatchOfIsSound ==
    ASSUME PushInv, NEW i \in Planned
    PROVE  /\ BatchOf(i) \in Batch
           /\ BatchSound(BatchOf(i))
<1> DEFINE row == outbox[i]
           budget == Budget[i]
           b == BatchOf(i)
<1>1. i \in DOMAIN outbox /\ budget \in Nat \ {0}
  BY PlannedPrefix DEF PushInv
<1>2. row \in Row /\ RowSound(row)
  BY <1>1 DEF PushInv, TypeOK
<1>3. /\ b.reason = row.reason /\ b.sent = row.sent
      /\ b.page = Page(row, budget) /\ b.targets = Targets(row, budget)
      /\ b.exhausted = Short(Page(row, budget), budget)
  BY DEF BatchOf
<1>4. b \in Batch
  <2>1. Page(row, budget) \subseteq Endpoint /\ Targets(row, budget) \subseteq Endpoint
    BY PageTypes
  <2>2. Short(Page(row, budget), budget) \in BOOLEAN
    BY DEF Short
  <2> QED
    BY <1>2, <2>1, <2>2 DEF BatchOf, Row, Batch
<1>5. owed[row.reason] \subseteq After(row)
  <2>1. owed[row.reason] \subseteq Subscribed
    BY <1>2 DEF PushInv, Row
  <2> QED
    BY <1>2, <2>1 DEF RowSound, After
<1>6. Cardinality(b.targets) <= MaxPerTick
  <2>1. i - 1 \in 0 .. Len(outbox) /\ i - 1 + 1 = i
    BY <1>1, BudgetSteps DEF PushInv
  <2>2. budget \in 0 .. MaxPerTick
    BY <2>1, AllowanceHolds DEF PushInv
  <2>3. Cardinality(Targets(row, budget)) \in 0 .. budget
    BY <1>1, TargetsOfRow
  <2> HIDE DEF row, budget, b
  <2> QED
    BY <1>1, <1>3, <2>2, <2>3, PushAssumption
<1>7. \A e \in b.page : e > row.cursor
  BY <1>3 DEF Page
<1>8. \A o \in owed[b.reason] \ b.page : \A e \in b.page : e < o
  <2> HIDE DEF row, budget, b
  <2> QED
    BY <1>1, <1>3, <1>5, PageComesFirst
<1>9. b.exhausted \/ b.page = {} => owed[b.reason] \subseteq b.page
  <2> HIDE DEF row, budget, b
  <2> QED
    BY <1>1, <1>3, <1>5, LastPage
<1>10. b.targets \subseteq b.page
  BY <1>3, PageTypes
<1>11. b.targets \intersect pushed[b.reason] = {}
  <2>1. SUFFICES ASSUME NEW e \in b.targets, e \in pushed[b.reason] PROVE FALSE
    OBVIOUS
  <2>2. e > row.cursor
    BY <1>7, <1>10
  <2>3. e <= row.cursor
    BY <1>2, <1>3, <2>1 DEF RowSound
  <2>4. e \in Nat /\ row.cursor \in Nat
    BY <1>2, <1>3, <1>10, PageTypes DEF Row
  <2> QED
    BY <2>2, <2>3, <2>4
<1>12. BatchSound(b)
  <2> HIDE DEF b
  <2> QED
    BY <1>1, <1>3, <1>6, <1>7, <1>8, <1>9, <1>10, <1>11 DEF BatchSound
<1> QED
  BY <1>4, <1>12

\* So is the plan, within the allowance, and it has a batch of every row unless
\* it says that it passed some over.
LEMMA PlanIsSound ==
    ASSUME PushInv
    PROVE  /\ PlanSound(Plan)
           /\ Covers(Plan)
<1> DEFINE n == Cardinality(Planned)
<1>1. /\ Len(outbox) \in Nat /\ DOMAIN outbox = 1 .. Len(outbox)
      /\ n \in 0 .. Len(outbox) /\ Planned = 1 .. n
  BY BudgetSteps, PlannedPrefix DEF PushInv
<1>2. /\ Plan.batches = [i \in 1 .. n |-> BatchOf(i)]
      /\ Plan.deferred = (Planned # DOMAIN outbox)
      /\ DOMAIN Plan.batches = Planned
      /\ \A i \in Planned : Plan.batches[i] = BatchOf(i)
  BY <1>1 DEF Plan
<1>3. \A i \in Planned : BatchOf(i).reason = outbox[i].reason
                         /\ BatchOf(i).targets = Targets(outbox[i], Budget[i])
  BY DEF BatchOf
<1>4. Plan \in Sending
  <2>1. [i \in 1 .. n |-> BatchOf(i)] \in Seq(Batch)
    <3>1. n \in Nat
      BY <1>1
    <3>2. \A i \in 1 .. n : BatchOf(i) \in Batch
      BY <1>1, BatchOfIsSound
    <3> HIDE DEF n
    <3> QED
      BY <3>1, <3>2
  <2> QED
    BY <2>1 DEF Plan, Sending
<1>5. \A j, k \in DOMAIN Plan.batches :
        Plan.batches[j].reason = Plan.batches[k].reason => j = k
  <2>1. ASSUME NEW j \in Planned, NEW k \in Planned,
               BatchOf(j).reason = BatchOf(k).reason
        PROVE  j = k
    <3>1. j \in DOMAIN outbox /\ k \in DOMAIN outbox
      BY <1>1
    <3>2. outbox[j].reason = outbox[k].reason
      BY <1>3, <2>1
    <3> QED
      BY <3>1, <3>2 DEF PushInv, TypeOK
  <2>2. ASSUME NEW j \in DOMAIN Plan.batches, NEW k \in DOMAIN Plan.batches,
               Plan.batches[j].reason = Plan.batches[k].reason
        PROVE  j = k
    <3>1. j \in Planned /\ k \in Planned
      BY <1>2
    <3>2. Plan.batches[j] = BatchOf(j) /\ Plan.batches[k] = BatchOf(k)
      BY <1>2, <3>1
    <3> QED
      BY <2>1, <2>2, <3>1, <3>2
  <2> QED
    BY <2>2
<1>6. \A k \in DOMAIN Plan.batches : BatchSound(Plan.batches[k])
  <2>1. ASSUME NEW k \in Planned PROVE BatchSound(BatchOf(k))
    BY BatchOfIsSound
  <2> HIDE DEF n
  <2> QED
    BY <1>2, <2>1
<1>7. Cardinality(Sends(Plan)) <= MaxPerTick
  <2>1. Sends(Plan) = SentBy(n)
    BY <1>1, <1>2, <1>3 DEF Sends, SentBy
  <2>2. /\ Budget[n + 1] \in 0 .. MaxPerTick
        /\ IsFiniteSet(SentBy(n))
        /\ Cardinality(SentBy(n)) <= MaxPerTick - Budget[n + 1]
    BY <1>1, AllowanceHolds DEF PushInv
  <2>3. Cardinality(SentBy(n)) \in Nat
    BY <2>2, FS_CardinalityType
  <2> HIDE DEF n
  <2> QED
    BY <2>1, <2>2, <2>3, PushAssumption
<1>8. Covers(Plan)
  <2> HIDE DEF n
  <2>1. CASE Planned # DOMAIN outbox
    <3>1. Plan.deferred
      BY <1>2, <2>1
    <3> QED
      BY <3>1 DEF Covers
  <2>2. CASE Planned = DOMAIN outbox
    <3>1. ASSUME NEW i \in DOMAIN outbox PROVE BatchesOf(Plan, outbox[i].reason) # {}
      <4>1. i \in DOMAIN Plan.batches /\ Plan.batches[i].reason = outbox[i].reason
        BY <1>2, <1>3, <2>2
      <4> QED
        BY <4>1 DEF BatchesOf
    <3> QED
      BY <3>1 DEF Covers
  <2> QED
    BY <2>1, <2>2
<1> QED
  BY <1>4, <1>5, <1>6, <1>7, <1>8 DEF PlanSound

-----------------------------------------------------------------------------
(* What is booked.                                                         *)

\* What the alarm is set to comes no later than any socket's end, and is set
\* when there is more to send.
LEMMA SweepSets ==
    ASSUME TypeOK, NEW more, NEW before \in Countdown, Sweep(more, before)
    PROVE  /\ live' \in [Slot -> Countdown]
           /\ alarm' \in Countdown
           /\ \A s \in Slot : live'[s] # Never => alarm' # Never /\ alarm' <= live'[s]
           /\ more \/ before # Never => alarm' # Never
<1> DEFINE open == { s \in Slot : live[s] > 0 }
           next == { live[s] : s \in open } \union (IF more THEN {Delay} ELSE {})
<1>1. \A s \in Slot : live[s] \in Nat \/ live[s] = Never
  BY DEF TypeOK, Countdown
<1>2. next \subseteq Nat
  BY <1>1, PushAssumption DEF Never
<1>3. /\ live' = [s \in Slot |-> IF s \in open THEN live[s] ELSE Never]
      /\ alarm' = IF next # {} THEN Min(next) ELSE before
  BY DEF Sweep
<1>4. live' \in [Slot -> Countdown]
  BY <1>1, <1>3 DEF Countdown
<1>5. CASE next = {}
  <2>1. open = {} /\ ~more /\ alarm' = before
    BY <1>3, <1>5
  <2>2. \A s \in Slot : live'[s] = Never
    BY <1>3, <2>1
  <2> QED
    BY <1>4, <2>1, <2>2
<1>6. CASE next # {}
  <2>1. alarm' \in next /\ \A y \in next : alarm' <= y
    <3> HIDE DEF next
    <3> QED
      BY <1>2, <1>3, <1>6, MinNat
  <2>2. alarm' \in Nat /\ alarm' # Never
    BY <1>2, <2>1 DEF Never
  <2>3. ASSUME NEW s \in Slot, live'[s] # Never PROVE alarm' <= live'[s]
    <3>1. s \in open /\ live'[s] = live[s]
      BY <1>3, <2>3
    <3> QED
      BY <2>1, <3>1
  <2> QED
    BY <1>4, <2>2, <2>3 DEF Countdown
<1> QED
  BY <1>5, <1>6

\* A reason has one batch at most.
LEMMA OneBatch ==
    ASSUME NEW plan, PlanSound(plan), NEW r, NEW b \in BatchesOf(plan, r)
    PROVE  BatchesOf(plan, r) = {b} /\ b \in Batch /\ BatchSound(b) /\ b.reason = r
<1>1. PICK k \in DOMAIN plan.batches : b = plan.batches[k] /\ plan.batches[k].reason = r
  BY DEF BatchesOf
<1>2. plan.batches \in Seq(Batch)
  BY DEF PlanSound, Sending
<1>3. b \in Batch
  BY <1>1, <1>2
<1>4. ASSUME NEW c \in BatchesOf(plan, r) PROVE c = b
  <2>1. PICK j \in DOMAIN plan.batches : c = plan.batches[j] /\ plan.batches[j].reason = r
    BY DEF BatchesOf
  <2>2. j = k
    BY <1>1, <2>1 DEF PlanSound
  <2> QED
    BY <1>1, <2>1, <2>2
<1>5. BatchSound(b)
  BY <1>1 DEF PlanSound
<1> QED
  BY <1>1, <1>3, <1>4, <1>5

\* What is counted as sent is what has been sent to.
LEMMA CountedIsSent ==
    ASSUME PushInv, NEW b \in Batch, BatchSound(b), NEW outcome
    PROVE  /\ Reached(b, outcome) \subseteq b.targets
           /\ Total(b, outcome) \in Nat
           /\ Cardinality(pushed[b.reason] \union Reached(b, outcome)) = Total(b, outcome)
           /\ Total(b, outcome) < MaxPerNotification + MaxPerTick
<1> DEFINE new == Reached(b, outcome)
           old == pushed[b.reason]
<1>1. new \subseteq b.targets
  BY DEF Reached
<1>2. b.targets \subseteq Endpoint /\ old \subseteq Endpoint /\ old \intersect new = {}
  BY <1>1 DEF Batch, BatchSound, PushInv, TypeOK
<1>3. PICK i \in DOMAIN outbox : outbox[i].reason = b.reason /\ outbox[i].sent = b.sent
  BY DEF BatchSound
<1>4. b.sent = Cardinality(old) /\ b.sent < MaxPerNotification /\ b.sent \in Nat
  BY <1>3 DEF PushInv, RowSound, Batch
<1>5. Total(b, outcome) = b.sent + Cardinality(new)
  BY DEF Total
<1>6. Cardinality(b.targets) <= MaxPerTick
  BY DEF BatchSound
<1> HIDE DEF new, old
<1>7. /\ IsFiniteSet(old) /\ Cardinality(old) \in Nat
      /\ IsFiniteSet(new) /\ Cardinality(new) \in Nat
      /\ IsFiniteSet(b.targets) /\ Cardinality(b.targets) \in Nat
  BY <1>1, <1>2, EndpointsAreFinite
<1>8. Cardinality(new) <= Cardinality(b.targets)
  BY <1>1, <1>7, FS_Subset
<1>9. Cardinality(old \union new) = Cardinality(old) + Cardinality(new)
  <2>1. Cardinality(old \cap new) = 0
    BY <1>2, FS_EmptySet
  <2>2. Cardinality(old \union new)
          = Cardinality(old) + Cardinality(new) - Cardinality(old \cap new)
    BY <1>7, FS_Union
  <2> QED
    BY <1>7, <2>1, <2>2
<1>10. MaxPerNotification \in Nat /\ MaxPerTick \in Nat
  BY PushAssumption
<1>11. /\ Total(b, outcome) \in Nat
       /\ Cardinality(old \union new) = Total(b, outcome)
       /\ Total(b, outcome) < MaxPerNotification + MaxPerTick
  BY <1>4, <1>5, <1>6, <1>7, <1>8, <1>9, <1>10
<1> QED
  BY <1>1, <1>11 DEF new, old

\* The devices a reason has been sent to, and those it owes a push, when a plan
\* has been booked.
PushedBy(r, plan, outcome) ==
    pushed[r] \union UNION { Reached(b, outcome) : b \in BatchesOf(plan, r) }

OwedAfter(r, plan, outcome) ==
    owed[r] \ (Gone(outcome) \union UNION { b.page : b \in BatchesOf(plan, r) })

\* A batch of a queued row starts where the row stands.
LEMMA BatchOfRow ==
    ASSUME PushInv, NEW plan, PlanSound(plan), NEW i \in DOMAIN outbox,
           NEW b \in BatchesOf(plan, outbox[i].reason)
    PROVE  /\ b.sent = outbox[i].sent
           /\ \A e \in b.page : e > outbox[i].cursor
<1>1. BatchSound(b) /\ b.reason = outbox[i].reason
  BY OneBatch
<1>2. PICK j \in DOMAIN outbox : /\ outbox[j].reason = b.reason
                                 /\ outbox[j].sent = b.sent
                                 /\ \A e \in b.page : e > outbox[j].cursor
  BY <1>1 DEF BatchSound
<1>3. j = i
  BY <1>1, <1>2 DEF PushInv, TypeOK
<1> QED
  BY <1>2, <1>3

\* A row that stays is a row still: its cursor parts what it has been sent to
\* from what it owes.
LEMMA BookedRow ==
    ASSUME PushInv, NEW plan, PlanSound(plan), NEW outcome,
           NEW i \in Kept(plan, outcome)
    PROVE  LET row == Booked(outbox[i], plan, outcome)
               r == outbox[i].reason
           IN  /\ row \in Row /\ row.reason = r
               /\ \A e \in PushedBy(r, plan, outcome) : e <= row.cursor
               /\ \A e \in OwedAfter(r, plan, outcome) : e > row.cursor
               /\ row.sent = Cardinality(PushedBy(r, plan, outcome))
               /\ row.sent < MaxPerNotification
<1> DEFINE row == Booked(outbox[i], plan, outcome)
           r == outbox[i].reason
<1>1. /\ i \in DOMAIN outbox
      /\ \A b \in BatchesOf(plan, r) : ~Over(b, Total(b, outcome))
  BY DEF Kept
<1>2. outbox[i] \in Row /\ RowSound(outbox[i])
  BY <1>1 DEF PushInv, TypeOK
<1>3. CASE BatchesOf(plan, r) = {}
  <2>1. row = outbox[i]
    BY <1>3 DEF Booked
  <2>2. PushedBy(r, plan, outcome) = pushed[r]
    BY <1>3 DEF PushedBy
  <2>3. OwedAfter(r, plan, outcome) \subseteq owed[r]
    BY DEF OwedAfter
  <2> QED
    BY <1>2, <2>1, <2>2, <2>3 DEF RowSound
<1>4. CASE BatchesOf(plan, r) # {}
  <2>1. PICK b \in BatchesOf(plan, r) : TRUE
    BY <1>4
  <2>2. BatchesOf(plan, r) = {b} /\ b \in Batch /\ BatchSound(b) /\ b.reason = r
    BY <2>1, OneBatch
  <2> DEFINE sent == Total(b, outcome)
             last == Max(b.page)
  <2>3. row = [outbox[i] EXCEPT !.cursor = last, !.sent = sent]
    <3>1. (CHOOSE c \in BatchesOf(plan, r) : TRUE) = b
      BY <2>2
    <3> QED
      BY <1>4, <3>1 DEF Booked, Advanced
  <2>4. b.page # {} /\ ~b.exhausted /\ ~(sent >= MaxPerNotification)
    BY <1>1, <2>2 DEF Over
  <2>5. b.page \subseteq Endpoint /\ b.targets \subseteq b.page
    BY <2>2 DEF Batch, BatchSound
  <2>6. last \in b.page /\ \A e \in b.page : e <= last
    BY <2>4, <2>5, MaxEndpoint
  <2>7. /\ Reached(b, outcome) \subseteq b.targets /\ sent \in Nat
        /\ Cardinality(pushed[r] \union Reached(b, outcome)) = sent
    BY <2>2, CountedIsSent
  <2>8. /\ PushedBy(r, plan, outcome) = pushed[r] \union Reached(b, outcome)
        /\ OwedAfter(r, plan, outcome) = owed[r] \ (Gone(outcome) \union b.page)
    BY <2>2 DEF PushedBy, OwedAfter
  <2>9. last \in Nat /\ outbox[i].cursor \in Nat /\ last > outbox[i].cursor
    <3>1. last > outbox[i].cursor
      BY <1>1, <2>1, <2>6, BatchOfRow
    <3> QED
      BY <1>2, <2>5, <2>6, <3>1, PushAssumption DEF Endpoint, Row
  <2> HIDE DEF last, sent, row
  <2>10. row \in Row /\ row.reason = r /\ row.cursor = last /\ row.sent = sent
    BY <1>2, <2>3, <2>7, <2>9 DEF Row
  <2>11. \A e \in pushed[r] \union Reached(b, outcome) : e <= last
    <3>1. ASSUME NEW e \in pushed[r] PROVE e <= last
      <4>1. e <= outbox[i].cursor
        BY <1>2 DEF RowSound
      <4>2. e \in Nat
        BY <1>2, PushAssumption DEF PushInv, TypeOK, Endpoint, Row
      <4> QED
        BY <2>9, <4>1, <4>2
    <3> QED
      BY <2>5, <2>6, <2>7, <3>1
  <2>12. \A e \in owed[r] \ b.page : e > last
    BY <2>2, <2>6 DEF BatchSound
  <2>13. sent < MaxPerNotification
    BY <2>4, <2>7, PushAssumption
  <2> QED
    BY <2>7, <2>8, <2>10, <2>11, <2>12, <2>13 DEF row
<1> QED
  BY <1>3, <1>4

\* Listing rows in the order they have lists each once.
LEMMA InOrderLists ==
    ASSUME TypeOK, NEW rows, rows \subseteq DOMAIN outbox, NEW f \in InOrder(rows)
    PROVE  /\ Cardinality(rows) \in Nat
           /\ f \in [1 .. Cardinality(rows) -> rows]
           /\ \A i, j \in 1 .. Cardinality(rows) : f[i] = f[j] => i = j
           /\ \A x \in rows : \E k \in 1 .. Cardinality(rows) : f[k] = x
<1> DEFINE n == Cardinality(rows)
<1>1. Len(outbox) \in Nat /\ DOMAIN outbox = 1 .. Len(outbox)
  BY DEF TypeOK
<1>2. rows \subseteq Nat
  BY <1>1
<1>3. IsFiniteSet(rows) /\ n \in Nat
  <2>1. IsFiniteSet(1 .. Len(outbox))
    BY <1>1, FS_Interval
  <2> QED
    BY <1>1, <2>1, FS_Subset, FS_CardinalityType
<1>4. f \in [1 .. n -> rows] /\ \A i, j \in 1 .. n : i < j => f[i] < f[j]
  BY DEF InOrder
<1> HIDE DEF n
<1>5. ASSUME NEW i \in 1 .. n, NEW j \in 1 .. n, f[i] = f[j] PROVE i = j
  <2>1. f[i] \in Nat /\ i \in Nat /\ j \in Nat
    BY <1>2, <1>3, <1>4
  <2>2. ~(i < j) /\ ~(j < i)
    BY <1>4, <1>5, <2>1
  <2> QED
    BY <2>1, <2>2
<1>6. \A x \in rows : \E k \in 1 .. n : f[k] = x
  <2>1. f \in Injection(1 .. n, rows)
    BY <1>4, <1>5 DEF Injection, IsInjective
  <2>2. Cardinality(1 .. n) = n
    BY <1>3, FS_Interval
  <2>3. f \in Surjection(1 .. n, rows)
    BY <1>3, <2>1, <2>2, FS_Injection DEF n
  <2> QED
    BY <2>3 DEF Surjection
<1> QED
  BY <1>3, <1>4, <1>5, <1>6 DEF n

\* The queue after a plan has been booked: rows of reasons that were queued,
\* each with its own, and sound.
LEMMA BookedQueue ==
    ASSUME PushInv, NEW plan, PlanSound(plan), NEW outcome, NEW before,
           Book(plan, outcome, before)
    PROVE  /\ outbox' \in Seq(Row)
           /\ \A i, j \in DOMAIN outbox' : outbox'[i].reason = outbox'[j].reason => i = j
           /\ \A i \in DOMAIN outbox' : RowSound(outbox[i])'
           /\ \A i \in Kept(plan, outcome) : outbox[i].reason \in Queued'
           /\ outbox' # << >> => Kept(plan, outcome) # {}
<1> DEFINE rows == Kept(plan, outcome)
           n == Cardinality(rows)
<1>1. PICK f \in InOrder(rows) :
        outbox' = [k \in DOMAIN f |-> Booked(outbox[f[k]], plan, outcome)]
  BY DEF Book
<1>2. rows \subseteq DOMAIN outbox
  BY DEF Kept
<1>3. /\ n \in Nat /\ f \in [1 .. n -> rows]
      /\ \A i, j \in 1 .. n : f[i] = f[j] => i = j
      /\ \A x \in rows : \E k \in 1 .. n : f[k] = x
  BY <1>2, InOrderLists DEF PushInv
<1>4. DOMAIN outbox' = 1 .. n
      /\ \A k \in 1 .. n : outbox'[k] = Booked(outbox[f[k]], plan, outcome)
  BY <1>1, <1>3
<1>5. /\ owed' = [r \in Reason |-> OwedAfter(r, plan, outcome)]
      /\ pushed' = [r \in Reason |-> PushedBy(r, plan, outcome)]
  BY DEF Book, OwedAfter, PushedBy
<1>6. ASSUME NEW k \in 1 .. n
      PROVE  /\ outbox'[k] \in Row
             /\ outbox'[k].reason = outbox[f[k]].reason
             /\ RowSound(outbox[k])'
  <2> DEFINE i == f[k]
             r == outbox[i].reason
             row == Booked(outbox[i], plan, outcome)
  <2>1. i \in Kept(plan, outcome)
    BY <1>3
  <2>2. outbox'[k] = row
    BY <1>4
  <2>3. /\ row \in Row /\ row.reason = r
        /\ \A e \in PushedBy(r, plan, outcome) : e <= row.cursor
        /\ \A e \in OwedAfter(r, plan, outcome) : e > row.cursor
        /\ row.sent = Cardinality(PushedBy(r, plan, outcome))
        /\ row.sent < MaxPerNotification
    BY <2>1, BookedRow
  <2>4. r \in Reason
    BY <2>3 DEF Row
  <2>5. owed'[r] = OwedAfter(r, plan, outcome) /\ pushed'[r] = PushedBy(r, plan, outcome)
    BY <1>5, <2>4
  <2> HIDE DEF i, r, row
  <2>6. RowSound(outbox[k])'
    BY <2>2, <2>3, <2>5 DEF RowSound
  <2> QED
    BY <2>2, <2>3, <2>6 DEF i, r
<1> HIDE DEF n
<1>7. outbox' \in Seq(Row)
  <2>1. outbox' = [k \in 1 .. n |-> Booked(outbox[f[k]], plan, outcome)]
    BY <1>1, <1>3
  <2>2. \A k \in 1 .. n : Booked(outbox[f[k]], plan, outcome) \in Row
    BY <1>4, <1>6
  <2> QED
    BY <1>3, <2>1, <2>2
<1>8. ASSUME NEW i \in DOMAIN outbox', NEW j \in DOMAIN outbox',
             outbox'[i].reason = outbox'[j].reason
      PROVE  i = j
  <2>1. i \in 1 .. n /\ j \in 1 .. n /\ f[i] \in DOMAIN outbox /\ f[j] \in DOMAIN outbox
    BY <1>2, <1>3, <1>4
  <2>2. outbox[f[i]].reason = outbox[f[j]].reason
    BY <1>6, <1>8, <2>1
  <2>3. f[i] = f[j]
    BY <2>1, <2>2 DEF PushInv, TypeOK
  <2> QED
    BY <1>3, <2>1, <2>3
<1>9. ASSUME NEW i \in rows PROVE outbox[i].reason \in Queued'
  <2>1. PICK k \in 1 .. n : f[k] = i
    BY <1>3
  <2>2. k \in DOMAIN outbox' /\ outbox'[k].reason = outbox[i].reason
    BY <1>4, <1>6, <2>1
  <2> QED
    BY <2>2 DEF Queued
<1>10. outbox' # << >> => rows # {}
  <2>1. SUFFICES ASSUME rows = {} PROVE outbox' = << >>
    OBVIOUS
  <2>2. n = 0
    BY <2>1, FS_EmptySet DEF n
  <2> QED
    BY <1>4, <1>7, <2>2
<1> QED
  BY <1>4, <1>6, <1>7, <1>8, <1>9, <1>10

\* A reason that leaves the queue has been sent to all it owed a push, or to as
\* many as one notification may be.
LEMMA BookedOut ==
    ASSUME PushInv, NEW plan, PlanSound(plan), NEW outcome, NEW before,
           Book(plan, outcome, before), NEW r \in Queued \ Queued'
    PROVE  owed'[r] = {} \/ Cardinality(pushed'[r]) >= MaxPerNotification
<1>1. PICK i \in DOMAIN outbox : outbox[i].reason = r
  BY DEF Queued
<1>2. i \notin Kept(plan, outcome)
  BY <1>1, BookedQueue
<1>3. PICK b \in BatchesOf(plan, r) : Over(b, Total(b, outcome))
  BY <1>1, <1>2 DEF Kept
<1>4. BatchesOf(plan, r) = {b} /\ b \in Batch /\ BatchSound(b) /\ b.reason = r
  BY <1>3, OneBatch
<1>5. r \in Reason
  <2>1. outbox[i] \in Row
    BY DEF PushInv, TypeOK
  <2> QED
    BY <1>1, <2>1 DEF Row
<1>6. /\ owed'[r] = owed[r] \ (Gone(outcome) \union b.page)
      /\ pushed'[r] = pushed[r] \union Reached(b, outcome)
  BY <1>4, <1>5 DEF Book
<1>7. CASE b.exhausted \/ b.page = {}
  <2>1. owed[r] \subseteq b.page
    BY <1>4, <1>7 DEF BatchSound
  <2> QED
    BY <1>6, <2>1
<1>8. CASE Total(b, outcome) >= MaxPerNotification
  <2>1. Cardinality(pushed[r] \union Reached(b, outcome)) = Total(b, outcome)
    BY <1>4, CountedIsSent
  <2> QED
    BY <1>6, <1>8, <2>1
<1> QED
  BY <1>3, <1>7, <1>8 DEF Over

\* What is booked leaves the other parts of the invariant true, and the alarm
\* set while anything is queued.
LEMMA BookKeeps ==
    ASSUME PushInv, NEW plan, PlanSound(plan), NEW outcome, NEW before \in Countdown,
           Covers(plan) \/ before # Never, Book(plan, outcome, before)
    PROVE  /\ subs' \in [Endpoint -> Pubkey \union {Nobody}]
           /\ alarm' \in Countdown /\ live' \in [Slot -> Countdown]
           /\ owed' \in [Reason -> SUBSET Endpoint]
           /\ pushed' \in [Reason -> SUBSET Endpoint]
           /\ \A r \in Reason : owed'[r] \subseteq Subscribed'
           /\ FanOutBounded'
           /\ \A s \in Slot : live'[s] # Never => alarm' # Never /\ alarm' <= live'[s]
           /\ outbox' # << >> => alarm' # Never
<1>1. subs' = [e \in Endpoint |-> IF e \in Gone(outcome) THEN Nobody ELSE subs[e]]
  BY DEF Book
<1>2. subs' \in [Endpoint -> Pubkey \union {Nobody}]
  BY <1>1 DEF PushInv, TypeOK
<1>3. /\ owed' = [r \in Reason |-> OwedAfter(r, plan, outcome)]
      /\ pushed' = [r \in Reason |-> PushedBy(r, plan, outcome)]
  BY DEF Book, OwedAfter, PushedBy
<1>4. ASSUME NEW r \in Reason
      PROVE  /\ OwedAfter(r, plan, outcome) \subseteq Endpoint
             /\ OwedAfter(r, plan, outcome) \subseteq Subscribed'
             /\ PushedBy(r, plan, outcome) \subseteq Endpoint
             /\ Cardinality(PushedBy(r, plan, outcome)) < MaxPerNotification + MaxPerTick
  <2>1. owed[r] \subseteq Subscribed /\ owed[r] \subseteq Endpoint /\ pushed[r] \subseteq Endpoint
    BY DEF PushInv, TypeOK
  <2>2. OwedAfter(r, plan, outcome) \subseteq owed[r] \ Gone(outcome)
    BY DEF OwedAfter
  <2>3. OwedAfter(r, plan, outcome) \subseteq Subscribed'
    BY <1>1, <2>1, <2>2 DEF Subscribed
  <2>4. CASE BatchesOf(plan, r) = {}
    <3>1. PushedBy(r, plan, outcome) = pushed[r]
      BY <2>4 DEF PushedBy
    <3> QED
      BY <2>1, <2>2, <2>3, <3>1 DEF PushInv, FanOutBounded
  <2>5. CASE BatchesOf(plan, r) # {}
    <3>1. PICK b \in BatchesOf(plan, r) : TRUE
      BY <2>5
    <3>2. BatchesOf(plan, r) = {b} /\ b \in Batch /\ BatchSound(b) /\ b.reason = r
      BY <3>1, OneBatch
    <3>3. PushedBy(r, plan, outcome) = pushed[r] \union Reached(b, outcome)
      BY <3>2 DEF PushedBy
    <3>4. /\ Reached(b, outcome) \subseteq b.targets
          /\ Cardinality(pushed[r] \union Reached(b, outcome)) = Total(b, outcome)
          /\ Total(b, outcome) < MaxPerNotification + MaxPerTick
      BY <3>2, CountedIsSent
    <3>5. b.targets \subseteq Endpoint
      BY <3>2 DEF Batch
    <3> QED
      BY <2>1, <2>2, <2>3, <3>3, <3>4, <3>5
  <2> QED
    BY <2>4, <2>5
<1>5. /\ owed' \in [Reason -> SUBSET Endpoint] /\ pushed' \in [Reason -> SUBSET Endpoint]
      /\ \A r \in Reason : owed'[r] \subseteq Subscribed'
      /\ FanOutBounded'
  BY <1>3, <1>4 DEF FanOutBounded
<1> DEFINE more == More(plan, outcome)
<1>6. Sweep(more, before)
  BY DEF Book
<1>7. /\ live' \in [Slot -> Countdown]
      /\ alarm' \in Countdown
      /\ \A s \in Slot : live'[s] # Never => alarm' # Never /\ alarm' <= live'[s]
      /\ more \/ before # Never => alarm' # Never
  <2> HIDE DEF more
  <2> QED
    BY <1>6, SweepSets DEF PushInv
<1>8. ASSUME outbox' # << >> PROVE alarm' # Never
  <2>1. PICK i \in Kept(plan, outcome) : TRUE
    BY <1>8, BookedQueue
  <2>2. i \in DOMAIN outbox
        /\ \A b \in BatchesOf(plan, outbox[i].reason) : ~Over(b, Total(b, outcome))
    BY <2>1 DEF Kept
  <2>3. CASE BatchesOf(plan, outbox[i].reason) = {}
    <3>1. plan.deferred \/ before # Never
      BY <2>2, <2>3 DEF Covers
    <3>2. more \/ before # Never
      BY <3>1 DEF More
    <3> QED
      BY <1>7, <3>2
  <2>4. CASE BatchesOf(plan, outbox[i].reason) # {}
    <3>1. PICK k \in DOMAIN plan.batches : plan.batches[k].reason = outbox[i].reason
      BY <2>4 DEF BatchesOf
    <3>2. plan.batches[k] \in BatchesOf(plan, outbox[i].reason)
      BY <3>1 DEF BatchesOf
    <3>3. ~Over(plan.batches[k], Total(plan.batches[k], outcome))
      BY <2>2, <3>2
    <3>4. more
      BY <3>3 DEF More
    <3> QED
      BY <1>7, <3>4
  <2> QED
    BY <2>3, <2>4
<1> QED
  BY <1>2, <1>5, <1>7, <1>8

-----------------------------------------------------------------------------
(* What the other steps leave sound.                                       *)

\* Nothing awaited is a sound plan.
LEMMA NothingAwaited ==
    ASSUME sending' = Idle
    PROVE  PlanSound(sending)'
<1>1. sending'.batches = << >> /\ sending'.deferred = FALSE
  BY DEF Idle
<1>2. DOMAIN sending'.batches = {}
  BY <1>1
<1>3. sending' \in Sending
  BY DEF Idle, Sending
<1>4. Cardinality(Sends(sending)') <= MaxPerTick
  <2>1. Sends(sending)' = {}
    BY <1>2 DEF Sends
  <2> QED
    BY <2>1, FS_EmptySet, PushAssumption
<1> QED
  BY <1>2, <1>3, <1>4 DEF PlanSound

\* What is awaited stays sound if each batch does.
LEMMA PlanKeeps ==
    ASSUME PlanSound(sending), sending' = sending,
           \A b \in Batch : BatchSound(b) => BatchSound(b)'
    PROVE  PlanSound(sending)'
<1>1. \A k \in DOMAIN sending.batches : sending.batches[k] \in Batch /\ BatchSound(sending.batches[k])
  BY DEF PlanSound, Sending
<1>2. \A k \in DOMAIN sending'.batches : BatchSound(sending.batches[k])'
  BY <1>1 DEF BatchSound
<1>3. Sends(sending)' = Sends(sending)
  BY DEF Sends
<1> QED
  BY <1>2, <1>3 DEF PlanSound

\* A step that leaves the queue and what was pushed, and at most takes a device
\* from those owed.
LEMMA QueueKept ==
    ASSUME PushInv, UNCHANGED <<outbox, pushed>>,
           \A r \in Reason : owed'[r] \subseteq owed[r]
    PROVE  /\ \A i \in DOMAIN outbox' : RowSound(outbox[i])'
           /\ \A b \in Batch : BatchSound(b) => BatchSound(b)'
           /\ FanOutBounded'
<1>1. ASSUME NEW i \in DOMAIN outbox' PROVE RowSound(outbox[i])'
  <2>1. RowSound(outbox[i]) /\ outbox[i] \in Row /\ outbox'[i] = outbox[i]
    BY DEF PushInv, TypeOK
  <2>2. owed'[outbox[i].reason] \subseteq owed[outbox[i].reason]
    BY <2>1 DEF Row
  <2> QED
    BY <2>1, <2>2 DEF RowSound
<1>2. ASSUME NEW b \in Batch, BatchSound(b) PROVE BatchSound(b)'
  <2>1. owed'[b.reason] \subseteq owed[b.reason]
    BY DEF Batch
  <2> QED
    BY <1>2, <2>1 DEF BatchSound
<1>3. FanOutBounded'
  BY DEF PushInv, FanOutBounded
<1> QED
  BY <1>1, <1>2, <1>3

\* A notification that folds into its row leaves every cursor; one that is new
\* has been sent to nobody and owes all.
LEMMA QueuePushKeeps ==
    ASSUME PushInv, NEW reason \in Reason, NEW actor \in Pubkey,
           QueuePush(reason, actor), subs' = subs
    PROVE  /\ outbox' \in Seq(Row)
           /\ \A i, j \in DOMAIN outbox' : outbox'[i].reason = outbox'[j].reason => i = j
           /\ owed' \in [Reason -> SUBSET Endpoint] /\ pushed' \in [Reason -> SUBSET Endpoint]
           /\ \A i \in DOMAIN outbox' : RowSound(outbox[i])'
           /\ \A b \in Batch : BatchSound(b) => BatchSound(b)'
           /\ FanOutBounded'
           /\ \A r \in Reason : owed'[r] \subseteq Subscribed'
           /\ Queued \subseteq Queued'
<1>1. /\ outbox \in Seq(Row) /\ Len(outbox) \in Nat /\ DOMAIN outbox = 1 .. Len(outbox)
      /\ \A i \in DOMAIN outbox : outbox[i] \in Row /\ RowSound(outbox[i])
      /\ \A i, j \in DOMAIN outbox : outbox[i].reason = outbox[j].reason => i = j
      /\ owed \in [Reason -> SUBSET Endpoint] /\ pushed \in [Reason -> SUBSET Endpoint]
      /\ \A r \in Reason : owed[r] \subseteq Subscribed
      /\ FanOutBounded
  BY DEF PushInv, TypeOK
<1>2. Subscribed' = Subscribed /\ Subscribed \subseteq Endpoint /\ Endpoint \subseteq Nat \ {0}
  BY PushAssumption DEF Subscribed, Endpoint
<1>3. CASE reason \in Queued
  <2> DEFINE fold(i) == IF outbox[i].reason = reason
                        THEN [outbox[i] EXCEPT !.actors = @ \union {actor}]
                        ELSE outbox[i]
  <2>1. outbox' = [i \in DOMAIN outbox |-> fold(i)] /\ UNCHANGED <<owed, pushed>>
    BY <1>3 DEF QueuePush
  <2>2. ASSUME NEW i \in DOMAIN outbox
        PROVE  /\ fold(i) \in Row /\ fold(i).reason = outbox[i].reason
               /\ fold(i).cursor = outbox[i].cursor /\ fold(i).sent = outbox[i].sent
    BY <1>1 DEF Row
  <2> HIDE DEF fold
  <2>3. DOMAIN outbox' = DOMAIN outbox /\ \A i \in DOMAIN outbox : outbox'[i] = fold(i)
    BY <2>1
  <2>4. outbox' \in Seq(Row)
    BY <1>1, <2>1, <2>2
  <2>5. ASSUME NEW i \in DOMAIN outbox' PROVE RowSound(outbox[i])'
    BY <1>1, <2>1, <2>2, <2>3 DEF RowSound
  <2>6. ASSUME NEW b \in Batch, BatchSound(b) PROVE BatchSound(b)'
    <3>1. PICK i \in DOMAIN outbox : /\ outbox[i].reason = b.reason
                                     /\ outbox[i].sent = b.sent
                                     /\ \A e \in b.page : e > outbox[i].cursor
      BY <2>6 DEF BatchSound
    <3>2. /\ i \in DOMAIN outbox'
          /\ outbox'[i].reason = b.reason
          /\ outbox'[i].sent = b.sent
          /\ \A e \in b.page : e > outbox'[i].cursor
      BY <2>2, <2>3, <3>1
    <3> QED
      BY <2>1, <2>6, <3>2 DEF BatchSound
  <2>7. Queued \subseteq Queued'
    BY <2>2, <2>3 DEF Queued
  <2>8. FanOutBounded'
    BY <1>1, <2>1 DEF FanOutBounded
  <2>9. \A i, j \in DOMAIN outbox' : outbox'[i].reason = outbox'[j].reason => i = j
    BY <1>1, <2>2, <2>3
  <2> QED
    BY <1>1, <1>2, <2>1, <2>4, <2>5, <2>6, <2>7, <2>8, <2>9
<1>4. CASE reason \notin Queued
  <2> DEFINE row == [reason |-> reason, actors |-> {actor}, cursor |-> NoCursor, sent |-> 0]
             n == Len(outbox)
  <2>1. /\ outbox' = Append(outbox, row)
        /\ owed' = [owed EXCEPT ![reason] = Subscribed]
        /\ pushed' = [pushed EXCEPT ![reason] = {}]
    BY <1>4 DEF QueuePush
  <2>2. row \in Row /\ row.reason = reason /\ row.cursor = 0 /\ row.sent = 0
    BY DEF Row, NoCursor
  <2> HIDE DEF row
  <2>3. /\ outbox' \in Seq(Row)
        /\ DOMAIN outbox' = 1 .. n + 1
        /\ outbox'[n + 1] = row
        /\ \A i \in DOMAIN outbox : i \in DOMAIN outbox' /\ outbox'[i] = outbox[i]
        /\ \A i \in DOMAIN outbox' : i \in DOMAIN outbox \/ i = n + 1
    BY <1>1, <2>1, <2>2
  <2> HIDE DEF n
  <2>4. \A i \in DOMAIN outbox : outbox[i].reason # reason
    BY <1>4 DEF Queued
  <2>5. /\ owed'[reason] = Subscribed /\ pushed'[reason] = {}
        /\ \A r \in Reason \ {reason} : owed'[r] = owed[r] /\ pushed'[r] = pushed[r]
    BY <1>1, <2>1
  <2>6. ASSUME NEW i \in DOMAIN outbox' PROVE RowSound(outbox[i])'
    <3>1. CASE i \in DOMAIN outbox
      <4>1. RowSound(outbox[i]) /\ outbox'[i] = outbox[i] /\ outbox[i].reason \in Reason \ {reason}
        BY <1>1, <2>3, <2>4, <3>1 DEF Row
      <4> QED
        BY <2>5, <4>1 DEF RowSound
    <3>2. CASE i = n + 1
      <4>1. outbox'[i] = row
        BY <2>3, <3>2
      <4>2. Cardinality({}) = 0 /\ 0 < MaxPerNotification
        BY FS_EmptySet, PushAssumption
      <4>3. \A e \in Subscribed : e > 0
        BY <1>2
      <4> QED
        BY <2>2, <2>5, <4>1, <4>2, <4>3 DEF RowSound
    <3> QED
      BY <2>3, <3>1, <3>2
  <2>7. ASSUME NEW b \in Batch, BatchSound(b) PROVE BatchSound(b)'
    <3>1. PICK i \in DOMAIN outbox : /\ outbox[i].reason = b.reason
                                     /\ outbox[i].sent = b.sent
                                     /\ \A e \in b.page : e > outbox[i].cursor
      BY <2>7 DEF BatchSound
    <3>2. i \in DOMAIN outbox' /\ outbox'[i] = outbox[i] /\ b.reason \in Reason \ {reason}
      BY <2>3, <2>4, <3>1 DEF Batch
    <3>3. owed'[b.reason] = owed[b.reason] /\ pushed'[b.reason] = pushed[b.reason]
      BY <2>5, <3>2
    <3> QED
      BY <2>7, <3>1, <3>2, <3>3 DEF BatchSound
  <2>8. FanOutBounded'
    <3>1. ASSUME NEW r \in Reason
          PROVE  Cardinality(pushed'[r]) < MaxPerNotification + MaxPerTick
      <4>1. CASE r = reason
        <5>1. Cardinality(pushed'[r]) = 0
          BY <2>5, <4>1, FS_EmptySet
        <5> QED
          BY <5>1, PushAssumption
      <4>2. CASE r # reason
        BY <1>1, <2>5, <4>2 DEF FanOutBounded
      <4> QED
        BY <4>1, <4>2
    <3> QED
      BY <3>1 DEF FanOutBounded
  <2>9. Queued \subseteq Queued'
    BY <2>3 DEF Queued
  <2>10. \A i, j \in DOMAIN outbox' : outbox'[i].reason = outbox'[j].reason => i = j
    BY <1>1, <2>2, <2>3, <2>4
  <2>11. /\ owed' \in [Reason -> SUBSET Endpoint] /\ pushed' \in [Reason -> SUBSET Endpoint]
         /\ \A r \in Reason : owed'[r] \subseteq Subscribed'
    BY <1>1, <1>2, <2>1, <2>5
  <2> QED
    BY <2>3, <2>6, <2>7, <2>8, <2>9, <2>10, <2>11
<1> QED
  BY <1>3, <1>4

\* Counts stay counts.
LEMMA CountsType ==
    ASSUME NEW count \in Count
    PROVE  /\ \A r \in Reason : Anew(count, r) \in Count
           /\ \A plan : Counted(count, plan) \in Count
           /\ StillQueued(count) \in Count
<1>1. NoneYet \in [Endpoint -> Nat]
  BY DEF NoneYet
<1>2. ASSUME NEW r \in Reason PROVE Anew(count, r) \in Count
  BY <1>1 DEF Anew, Count
<1>3. ASSUME NEW plan PROVE Counted(count, plan) \in Count
  BY DEF Counted, Count
<1>4. StillQueued(count) \in Count
  BY <1>1 DEF StillQueued, Count
<1> QED
  BY <1>2, <1>3, <1>4

LEMMA CountsStayTyped ==
    ASSUME TypeOK, [Next]_vars
    PROVE  tries' \in Count /\ cuts' \in Count
<1> USE DEF TypeOK
<1>1. ASSUME NEW t \in Trigger, NotePush(t[1], t[2]) \/ NotePushThenKilled(t[1], t[2])
      PROVE  tries' \in Count /\ cuts' \in Count
  <2>1. t[1] \in Reason
    BY PushAssumption
  <2>2. Anew(tries, t[1]) \in Count /\ Anew(cuts, t[1]) \in Count
    BY <2>1, CountsType
  <2>3. Counted(Anew(cuts, t[1]), sending) \in Count
    BY <2>2, CountsType
  <2> QED
    BY <1>1, <2>2, <2>3 DEF NotePush, NotePushThenKilled
<1>2. CASE Restart
  BY <1>2, CountsType DEF Restart
<1>3. CASE AlarmReachesNobody
  BY <1>3, CountsType DEF AlarmReachesNobody
<1>6. CASE AlarmSends
  BY <1>6, CountsType DEF AlarmSends
<1>4. CASE PushesAnswered
  BY <1>4, CountsType DEF PushesAnswered
<1>5. CASE UNCHANGED <<tries, cuts>>
  BY <1>5
<1> QED
  BY <1>1, <1>2, <1>3, <1>4, <1>5, <1>6
  DEF Next, vars, Alarm, AlarmFindsNothing, Subscribe, Unsubscribe, Authenticate, Disconnect, OpenLiveFeed, CloseLiveFeed, Tick

\* The alarm is set, no later than before and than is wanted.
LEMMA SoonerSets ==
    ASSUME TypeOK, NEW desired \in Nat
    PROVE  /\ Sooner(desired) \in Nat
           /\ Sooner(desired) <= desired
           /\ alarm # Never => Sooner(desired) <= alarm
BY DEF TypeOK, Countdown, Never, Sooner

-----------------------------------------------------------------------------
(* The invariant is inductive.                                             *)

\* It holds of a new database.
LEMMA InitSound == Init => PushInv
<1> SUFFICES ASSUME Init PROVE PushInv
  OBVIOUS
<1>1. outbox = << >> /\ sending = Idle /\ alarm = Never /\ lost = FALSE
  BY DEF Init
<1>2. DOMAIN outbox = {} /\ DOMAIN sending.batches = {} /\ outbox \in Seq(Row) /\ sending \in Sending
  BY <1>1 DEF Idle, Sending
<1>3. TypeOK
  <2>1. /\ subs \in [Endpoint -> Pubkey \union {Nobody}]
        /\ alarm \in Countdown /\ live \in [Slot -> Countdown]
        /\ online \subseteq Pubkey /\ lost \in BOOLEAN
        /\ owed \in [Reason -> SUBSET Endpoint] /\ pushed \in [Reason -> SUBSET Endpoint]
    BY DEF Init, Countdown
  <2>3. tries \in Count /\ cuts \in Count
    BY DEF Init, Count, NoneYet
  <2>2. restarts \in 0 .. MaxRestarts
    BY PushAssumption DEF Init
  <2> QED
    BY <1>2, <2>1, <2>2, <2>3 DEF TypeOK
<1>4. PlanSound(sending)
  <2>1. Sends(sending) = {}
    BY <1>2 DEF Sends
  <2>2. Cardinality(Sends(sending)) <= MaxPerTick
    BY <2>1, FS_EmptySet, PushAssumption
  <2> QED
    BY <1>2, <2>2 DEF PlanSound
<1>5. FanOutBounded
  <2>1. \A r \in Reason : Cardinality(pushed[r]) = 0
    BY FS_EmptySet DEF Init
  <2> QED
    BY <2>1, PushAssumption DEF FanOutBounded
<1>6. \A r \in Reason : owed[r] \subseteq Subscribed
  BY DEF Init
<1>7. LiveFeedHasAlarm /\ QueueHasAlarm
  BY DEF Init, LiveFeedHasAlarm, QueueHasAlarm
<1> QED
  BY <1>1, <1>2, <1>3, <1>4, <1>5, <1>6, <1>7 DEF PushInv

\* The parts of the invariant that a step which queues nothing, books nothing
\* and kills nothing can disturb are those of the alarm.
LEMMA QuietStep ==
    ASSUME PushInv, UNCHANGED <<outbox, sending, pushed, restarts, lost>>,
           subs' \in [Endpoint -> Pubkey \union {Nobody}],
           online' \subseteq Pubkey,
           owed' \in [Reason -> SUBSET Endpoint],
           \A r \in Reason : owed'[r] \subseteq owed[r] /\ owed'[r] \subseteq Subscribed',
           alarm' \in Countdown, live' \in [Slot -> Countdown],
           alarm # Never => alarm' # Never,
           tries' \in Count, cuts' \in Count,
           LiveFeedHasAlarm'
    PROVE  PushInv'
<1>1. /\ \A i \in DOMAIN outbox' : RowSound(outbox[i])'
      /\ \A b \in Batch : BatchSound(b) => BatchSound(b)'
      /\ FanOutBounded'
  BY QueueKept
<1>2. PlanSound(sending)'
  BY <1>1, PlanKeeps DEF PushInv
<1>3. TypeOK'
  BY DEF PushInv, TypeOK
<1>4. QueueHasAlarm'
  BY DEF PushInv, QueueHasAlarm
<1>5. sending' # Idle => Covers(sending)' \/ alarm' # Never
  BY DEF PushInv, Covers
<1> QED
  BY <1>1, <1>2, <1>3, <1>4, <1>5 DEF PushInv

\* Booking a sound plan leaves the invariant true.
LEMMA BookSound ==
    ASSUME PushInv, NEW plan, PlanSound(plan), NEW outcome, NEW before \in Countdown,
           Covers(plan) \/ before # Never, Book(plan, outcome, before),
           sending' = Idle, UNCHANGED <<online, restarts, lost>>,
           tries' \in Count, cuts' \in Count
    PROVE  PushInv'
<1>1. /\ outbox' \in Seq(Row)
      /\ \A i, j \in DOMAIN outbox' : outbox'[i].reason = outbox'[j].reason => i = j
      /\ \A i \in DOMAIN outbox' : RowSound(outbox[i])'
  BY BookedQueue
<1>2. /\ subs' \in [Endpoint -> Pubkey \union {Nobody}]
      /\ alarm' \in Countdown /\ live' \in [Slot -> Countdown]
      /\ owed' \in [Reason -> SUBSET Endpoint]
      /\ pushed' \in [Reason -> SUBSET Endpoint]
      /\ \A r \in Reason : owed'[r] \subseteq Subscribed'
      /\ FanOutBounded'
      /\ \A s \in Slot : live'[s] # Never => alarm' # Never /\ alarm' <= live'[s]
      /\ outbox' # << >> => alarm' # Never
  BY BookKeeps
<1>3. PlanSound(sending)'
  BY NothingAwaited
<1>4. TypeOK'
  BY <1>1, <1>2, <1>3 DEF PushInv, TypeOK, PlanSound
<1>5. LiveFeedHasAlarm' /\ QueueHasAlarm'
  BY <1>2 DEF LiveFeedHasAlarm, QueueHasAlarm
<1> QED
  BY <1>1, <1>2, <1>3, <1>4, <1>5 DEF PushInv

\* Nobody to push to is a plan that sends nothing, and so is Idle.
LEMMA IdleSendsNothing == Sends(Idle) = {}
BY DEF Sends, Idle

\* Every step keeps it.
LEMMA PushStep == PushInv /\ [Next]_vars => PushInv'
<1> SUFFICES ASSUME PushInv, [Next]_vars PROVE PushInv'
  OBVIOUS
<1>1. /\ TypeOK /\ PlanSound(sending) /\ FanOutBounded
      /\ LiveFeedHasAlarm /\ QueueHasAlarm
      /\ \A r \in Reason : owed[r] \subseteq Subscribed
      /\ sending # Idle => Covers(sending) \/ alarm # Never
  BY DEF PushInv
<1>2. Delay \in Nat /\ Lifetime \in Nat /\ Trigger \subseteq Reason \X Pubkey
      /\ Subscriber \subseteq Pubkey \X Endpoint
  BY PushAssumption
<1> tries' \in Count /\ cuts' \in Count
  BY <1>1, CountsStayTyped
<1>3. CASE UNCHANGED vars
  <2>1. LiveFeedHasAlarm'
    BY <1>1, <1>3 DEF vars, LiveFeedHasAlarm
  <2>2. \A r \in Reason : owed'[r] \subseteq owed[r] /\ owed'[r] \subseteq Subscribed'
    BY <1>1, <1>3 DEF vars, Subscribed
  <2> QED
    BY <1>1, <1>3, <2>1, <2>2, QuietStep DEF vars, TypeOK
<1>4. ASSUME NEW t \in Trigger, NotePush(t[1], t[2]) PROVE PushInv'
  <2>1. /\ t[1] \in Reason /\ t[2] \in Pubkey
        /\ QueuePush(t[1], t[2]) /\ alarm' = Sooner(Delay) /\ lost' = FALSE
        /\ UNCHANGED <<subs, live, online, sending, restarts>>
    BY <1>2, <1>4 DEF NotePush
  <2>2. /\ outbox' \in Seq(Row)
        /\ \A i, j \in DOMAIN outbox' : outbox'[i].reason = outbox'[j].reason => i = j
        /\ owed' \in [Reason -> SUBSET Endpoint] /\ pushed' \in [Reason -> SUBSET Endpoint]
        /\ \A i \in DOMAIN outbox' : RowSound(outbox[i])'
        /\ \A b \in Batch : BatchSound(b) => BatchSound(b)'
        /\ FanOutBounded'
        /\ \A r \in Reason : owed'[r] \subseteq Subscribed'
    BY <2>1, QueuePushKeeps
  <2>3. alarm' \in Nat /\ (alarm # Never => alarm' <= alarm)
    BY <1>1, <1>2, <2>1, SoonerSets
  <2>4. PlanSound(sending)'
    BY <1>1, <2>1, <2>2, PlanKeeps
  <2>5. alarm' # Never /\ alarm' \in Countdown
    BY <2>3 DEF Never, Countdown
  <2>6. TypeOK'
    BY <1>1, <2>1, <2>2, <2>5 DEF TypeOK
  <2>7. LiveFeedHasAlarm'
    <3>1. SUFFICES ASSUME NEW s \in Slot, live'[s] # Never, sending' = Idle
                   PROVE  alarm' # Never /\ alarm' <= live'[s]
      BY DEF LiveFeedHasAlarm
    <3>2. alarm # Never /\ alarm <= live[s]
      BY <1>1, <2>1, <3>1 DEF LiveFeedHasAlarm
    <3>3. alarm \in Nat /\ live[s] \in Nat /\ live'[s] = live[s]
      BY <1>1, <2>1, <3>1, <3>2 DEF TypeOK, Countdown
    <3> QED
      BY <2>3, <2>5, <3>2, <3>3
  <2>8. QueueHasAlarm'
    BY <2>5 DEF QueueHasAlarm
  <2> QED
    BY <2>2, <2>4, <2>5, <2>6, <2>7, <2>8 DEF PushInv
<1>5. ASSUME Killed
      PROVE  /\ PlanSound(sending)' /\ LiveFeedHasAlarm'
             /\ sending' = Idle /\ subs' = subs
             /\ alarm' \in Countdown /\ live' \in [Slot -> Countdown]
             /\ restarts' \in 0 .. MaxRestarts /\ online' \subseteq Pubkey
             /\ sending # Idle \/ alarm # Never => alarm' # Never
  <2>1. PlanSound(sending)'
    BY <1>5, NothingAwaited DEF Killed
  <2>2. LiveFeedHasAlarm'
    BY <1>5 DEF Killed, LiveFeedHasAlarm
  <2>3. restarts' \in 0 .. MaxRestarts
    BY <1>1, <1>5, PushAssumption DEF Killed, TypeOK
  <2>4. alarm' \in Countdown /\ live' \in [Slot -> Countdown]
    BY <1>1, <1>5 DEF Killed, TypeOK, Countdown
  <2> QED
    BY <1>5, <2>1, <2>2, <2>3, <2>4 DEF Killed, Never
<1>6. ASSUME NEW t \in Trigger, NotePushThenKilled(t[1], t[2]) PROVE PushInv'
  <2>1. /\ t[1] \in Reason /\ t[2] \in Pubkey
        /\ Killed /\ QueuePush(t[1], t[2]) /\ lost' = TRUE
    BY <1>2, <1>6 DEF NotePushThenKilled
  <2>2. /\ outbox' \in Seq(Row)
        /\ \A i, j \in DOMAIN outbox' : outbox'[i].reason = outbox'[j].reason => i = j
        /\ owed' \in [Reason -> SUBSET Endpoint] /\ pushed' \in [Reason -> SUBSET Endpoint]
        /\ \A i \in DOMAIN outbox' : RowSound(outbox[i])'
        /\ FanOutBounded'
        /\ \A r \in Reason : owed'[r] \subseteq Subscribed'
    BY <1>5, <2>1, QueuePushKeeps
  <2>3. TypeOK'
    BY <1>1, <1>5, <2>1, <2>2 DEF TypeOK, PlanSound
  <2>4. QueueHasAlarm'
    BY <2>1 DEF QueueHasAlarm
  <2> QED
    BY <1>5, <2>1, <2>2, <2>3, <2>4 DEF PushInv
<1>7. CASE Restart
  <2>1. Killed /\ UNCHANGED <<outbox, owed, pushed, lost>>
    BY <1>7 DEF Restart
  <2>2. \A i \in DOMAIN outbox' : RowSound(outbox[i])'
    BY <2>1, QueueKept
  <2>3. FanOutBounded'
    BY <2>1, QueueKept
  <2>4. TypeOK'
    BY <1>1, <1>5, <2>1 DEF TypeOK, PlanSound
  <2>5. QueueHasAlarm'
    BY <1>1, <1>5, <2>1 DEF QueueHasAlarm
  <2>6. \A r \in Reason : owed'[r] \subseteq Subscribed'
    BY <1>1, <1>5, <2>1 DEF Subscribed
  <2> QED
    BY <1>5, <2>1, <2>2, <2>3, <2>4, <2>5, <2>6 DEF PushInv
<1>8. CASE AlarmFindsNothing
  <2>1. /\ sending = Idle /\ outbox = << >>
        /\ UNCHANGED <<subs, outbox, online, sending, restarts, lost, owed, pushed>>
        /\ Sweep(FALSE, Never)
    BY <1>8 DEF AlarmFindsNothing
  <2>2. /\ live' \in [Slot -> Countdown] /\ alarm' \in Countdown
        /\ \A s \in Slot : live'[s] # Never => alarm' # Never /\ alarm' <= live'[s]
    BY <1>1, <2>1, SweepSets DEF Countdown
  <2>3. LiveFeedHasAlarm'
    BY <2>2 DEF LiveFeedHasAlarm
  <2>4. /\ \A i \in DOMAIN outbox' : RowSound(outbox[i])'
        /\ FanOutBounded'
    BY <2>1, QueueKept
  <2>5. PlanSound(sending)'
    BY <2>1, NothingAwaited
  <2>6. TypeOK' /\ QueueHasAlarm'
    BY <1>1, <2>1, <2>2 DEF TypeOK, QueueHasAlarm
  <2>7. \A r \in Reason : owed'[r] \subseteq Subscribed'
    BY <1>1, <2>1 DEF Subscribed
  <2> QED
    BY <2>1, <2>3, <2>4, <2>5, <2>6, <2>7 DEF PushInv
<1>9. CASE AlarmReachesNobody
  <2>1. Book(Plan, << >>, Never) /\ sending' = Idle /\ UNCHANGED <<online, restarts, lost>>
    BY <1>9 DEF AlarmReachesNobody
  <2>2. PlanSound(Plan) /\ Covers(Plan)
    BY PlanIsSound
  <2>3. Never \in Countdown
    BY DEF Countdown
  <2> QED
    BY <2>1, <2>2, <2>3, BookSound
<1>10. CASE AlarmSends
  <2>1. /\ Sends(Plan) # {} /\ sending' = Plan /\ alarm' = Never
        /\ UNCHANGED <<subs, outbox, live, online, restarts, lost, owed, pushed>>
    BY <1>10 DEF AlarmSends
  <2>2. PlanSound(Plan) /\ Covers(Plan)
    BY PlanIsSound
  <2>3. sending' # Idle
    BY <2>1, IdleSendsNothing
  <2>4. PlanSound(sending)'
    <3>1. \A b \in Batch : BatchSound(b) => BatchSound(b)'
      BY <2>1, QueueKept
    <3>2. \A k \in DOMAIN Plan.batches : Plan.batches[k] \in Batch /\ BatchSound(Plan.batches[k])
      BY <2>2 DEF PlanSound, Sending
    <3>3. \A k \in DOMAIN sending'.batches : BatchSound(sending.batches[k])'
      BY <2>1, <3>1, <3>2 DEF BatchSound
    <3>4. Sends(sending)' = Sends(Plan)
      BY <2>1 DEF Sends
    <3> QED
      BY <2>1, <2>2, <3>3, <3>4 DEF PlanSound
  <2>5. TypeOK'
    BY <1>1, <2>1, <2>4 DEF TypeOK, PlanSound, Countdown
  <2>6. /\ \A i \in DOMAIN outbox' : RowSound(outbox[i])'
        /\ FanOutBounded'
    BY <2>1, QueueKept
  <2>7. LiveFeedHasAlarm' /\ QueueHasAlarm'
    BY <2>3 DEF LiveFeedHasAlarm, QueueHasAlarm
  <2>8. Covers(sending)'
    <3>1. \A r : BatchesOf(sending, r)' = BatchesOf(Plan, r)
      BY <2>1 DEF BatchesOf
    <3> QED
      BY <2>1, <2>2, <3>1 DEF Covers
  <2>9. \A r \in Reason : owed'[r] \subseteq Subscribed'
    BY <1>1, <2>1 DEF Subscribed
  <2> QED
    BY <2>4, <2>5, <2>6, <2>7, <2>8, <2>9 DEF PushInv
<1>11. CASE PushesAnswered
  <2>1. sending # Idle /\ sending' = Idle /\ UNCHANGED <<online, restarts, lost>>
    BY <1>11 DEF PushesAnswered
  <2>2. PICK outcome : Book(sending, outcome, alarm)
    BY <1>11 DEF PushesAnswered
  <2>3. alarm \in Countdown
    BY <1>1 DEF TypeOK
  <2> QED
    BY <1>1, <2>1, <2>2, <2>3, BookSound
<1>12. ASSUME NEW d \in Subscriber, Subscribe(d[1], d[2]) PROVE PushInv'
  <2>1. d[1] \in Pubkey /\ d[2] \in Endpoint
    BY <1>2
  <2>2. /\ subs' \in [Endpoint -> Pubkey \union {Nobody}]
        /\ owed' = [r \in Reason |-> { e \in owed[r] : subs'[e] # Nobody }]
        /\ UNCHANGED <<outbox, alarm, live, online, sending, restarts, lost, pushed>>
    BY <1>1, <1>12, <2>1 DEF Subscribe, TypeOK
  <2>3. owed' \in [Reason -> SUBSET Endpoint]
        /\ \A r \in Reason : owed'[r] \subseteq owed[r] /\ owed'[r] \subseteq Subscribed'
    BY <1>1, <2>2 DEF TypeOK, Subscribed
  <2>4. LiveFeedHasAlarm'
    BY <1>1, <2>2 DEF LiveFeedHasAlarm
  <2> QED
    BY <1>1, <2>2, <2>3, <2>4, QuietStep DEF TypeOK
<1>13. ASSUME NEW d \in Subscriber, Unsubscribe(d[1], d[2]) PROVE PushInv'
  <2>1. d[2] \in Endpoint
    BY <1>2
  <2>2. /\ subs' = [subs EXCEPT ![d[2]] = Nobody]
        /\ owed' = [r \in Reason |-> owed[r] \ {d[2]}]
        /\ UNCHANGED <<outbox, alarm, live, online, sending, restarts, lost, pushed>>
    BY <1>13 DEF Unsubscribe
  <2>3. owed' \in [Reason -> SUBSET Endpoint]
        /\ \A r \in Reason : owed'[r] \subseteq owed[r] /\ owed'[r] \subseteq Subscribed'
    BY <1>1, <2>1, <2>2 DEF TypeOK, Subscribed
  <2>4. LiveFeedHasAlarm'
    BY <1>1, <2>2 DEF LiveFeedHasAlarm
  <2> QED
    BY <1>1, <2>1, <2>2, <2>3, <2>4, QuietStep DEF TypeOK
<1>14. ASSUME NEW p \in Owners, Authenticate(p) \/ Disconnect(p) PROVE PushInv'
  <2>1. p \in Pubkey
    BY <1>2 DEF Owners
  <2>2. /\ online' \subseteq Pubkey
        /\ UNCHANGED <<subs, outbox, alarm, live, sending, restarts, lost, owed, pushed>>
    BY <1>1, <1>14, <2>1 DEF Authenticate, Disconnect, TypeOK
  <2>3. LiveFeedHasAlarm'
        /\ \A r \in Reason : owed'[r] \subseteq owed[r] /\ owed'[r] \subseteq Subscribed'
    BY <1>1, <2>2 DEF LiveFeedHasAlarm, Subscribed
  <2> QED
    BY <1>1, <2>2, <2>3, QuietStep DEF TypeOK
<1>15. ASSUME NEW slot \in Slot, OpenLiveFeed(slot) PROVE PushInv'
  <2>1. /\ live' = [live EXCEPT ![slot] = Lifetime] /\ alarm' = Sooner(Lifetime)
        /\ UNCHANGED <<subs, outbox, online, sending, restarts, lost, owed, pushed>>
    BY <1>15 DEF OpenLiveFeed
  <2>2. alarm' \in Nat /\ alarm' <= Lifetime /\ (alarm # Never => alarm' <= alarm)
    BY <1>1, <1>2, <2>1, SoonerSets
  <2>3. alarm' # Never /\ alarm' \in Countdown /\ live' \in [Slot -> Countdown]
    BY <1>1, <1>2, <2>1, <2>2 DEF Never, Countdown, TypeOK
  <2>4. LiveFeedHasAlarm'
    <3>1. SUFFICES ASSUME NEW s \in Slot, live'[s] # Never, sending' = Idle
                   PROVE  alarm' <= live'[s]
      BY <2>3 DEF LiveFeedHasAlarm
    <3>2. CASE s = slot
      BY <1>1, <2>1, <2>2, <3>2 DEF TypeOK
    <3>3. CASE s # slot
      <4>1. live'[s] = live[s]
        BY <1>1, <2>1, <3>3 DEF TypeOK
      <4>2. alarm # Never /\ alarm <= live[s]
        BY <1>1, <2>1, <3>1, <4>1 DEF LiveFeedHasAlarm
      <4>3. alarm \in Nat /\ live[s] \in Nat
        BY <1>1, <3>1, <4>1, <4>2 DEF TypeOK, Countdown
      <4> QED
        BY <2>2, <4>1, <4>2, <4>3
    <3> QED
      BY <3>2, <3>3
  <2>5. \A r \in Reason : owed'[r] \subseteq owed[r] /\ owed'[r] \subseteq Subscribed'
    BY <1>1, <2>1 DEF Subscribed
  <2> QED
    BY <1>1, <2>1, <2>3, <2>4, <2>5, QuietStep DEF TypeOK
<1>16. ASSUME NEW slot \in Slot, CloseLiveFeed(slot) PROVE PushInv'
  <2>1. /\ live' = [live EXCEPT ![slot] = Never]
        /\ UNCHANGED <<subs, outbox, alarm, online, sending, restarts, lost, owed, pushed>>
    BY <1>16 DEF CloseLiveFeed
  <2>2. live' \in [Slot -> Countdown] /\ LiveFeedHasAlarm'
    BY <1>1, <2>1 DEF TypeOK, Countdown, LiveFeedHasAlarm
  <2>3. \A r \in Reason : owed'[r] \subseteq owed[r] /\ owed'[r] \subseteq Subscribed'
    BY <1>1, <2>1 DEF Subscribed
  <2> QED
    BY <1>1, <2>1, <2>2, <2>3, QuietStep DEF TypeOK
<1>17. CASE Tick
  <2> DEFINE less(t) == IF t > 0 THEN t - 1 ELSE t
  <2>1. /\ alarm' = less(alarm) /\ live' = [s \in Slot |-> less(live[s])]
        /\ UNCHANGED <<subs, outbox, online, sending, restarts, lost, owed, pushed>>
    BY <1>17 DEF Tick
  <2>2. \A t \in Countdown : less(t) \in Countdown /\ (less(t) # Never <=> t # Never)
    BY DEF Countdown, Never
  <2>3. \A t, u \in Nat : t <= u => less(t) <= less(u)
    OBVIOUS
  <2>4. alarm \in Countdown /\ \A s \in Slot : live[s] \in Countdown
    BY <1>1 DEF TypeOK
  <2> HIDE DEF less
  <2>5. LiveFeedHasAlarm'
    <3>1. SUFFICES ASSUME NEW s \in Slot, live'[s] # Never, sending' = Idle
                   PROVE  alarm' # Never /\ alarm' <= live'[s]
      BY DEF LiveFeedHasAlarm
    <3>2. live'[s] = less(live[s]) /\ live[s] # Never
      BY <2>1, <2>2, <2>4, <3>1
    <3>3. alarm # Never /\ alarm <= live[s]
      BY <1>1, <2>1, <3>1, <3>2 DEF LiveFeedHasAlarm
    <3>4. alarm \in Nat /\ live[s] \in Nat
      BY <2>4, <3>2, <3>3 DEF Countdown
    <3> QED
      BY <2>1, <2>2, <2>3, <2>4, <3>2, <3>3, <3>4
  <2>6. alarm' \in Countdown /\ live' \in [Slot -> Countdown] /\ (alarm # Never => alarm' # Never)
    BY <2>1, <2>2, <2>4
  <2>7. \A r \in Reason : owed'[r] \subseteq owed[r] /\ owed'[r] \subseteq Subscribed'
    BY <1>1, <2>1 DEF Subscribed
  <2> QED
    BY <1>1, <2>1, <2>5, <2>6, <2>7, QuietStep DEF TypeOK
<1> QED
  BY <1>3, <1>4, <1>6, <1>7, <1>8, <1>9, <1>10, <1>11, <1>12, <1>13, <1>14, <1>15, <1>16, <1>17
     DEF Next, Alarm

-----------------------------------------------------------------------------
(* What is sent again.                                                     *)

\* A device the queued notification has been sent to once more than it was cut
\* off is behind the row's cursor, or being sent to.
TriesSound ==
    /\ PushedOnce
    /\ \A i \in DOMAIN outbox, e \in Endpoint :
         LET r == outbox[i].reason
         IN  tries[r][e] <= cuts[r][e] \/ e <= outbox[i].cursor \/ <<e, r>> \in Sends(sending)

LEMMA ReasonOfRow ==
    ASSUME TypeOK, NEW i \in DOMAIN outbox
    PROVE  outbox[i] \in Row /\ outbox[i].reason \in Reason
<1>1. outbox[i] \in Row
  BY DEF TypeOK
<1> QED
  BY <1>1 DEF Row

\* What a plan sends, a batch of the reason sends to its targets.
LEMMA SentByBatch ==
    ASSUME NEW plan, NEW e, NEW r, <<e, r>> \in Sends(plan)
    PROVE  \E b \in BatchesOf(plan, r) : e \in b.targets
BY DEF Sends, BatchesOf

\* It is for a queued row, ahead of its cursor.
LEMMA SentIsAhead ==
    ASSUME PushInv, NEW plan, PlanSound(plan), NEW e, NEW r, <<e, r>> \in Sends(plan)
    PROVE  \E i \in DOMAIN outbox : outbox[i].reason = r /\ e > outbox[i].cursor
<1>1. PICK b \in BatchesOf(plan, r) : e \in b.targets
  BY SentByBatch
<1>2. BatchSound(b) /\ b.reason = r
  BY <1>1, OneBatch
<1> QED
  BY <1>1, <1>2 DEF BatchSound

\* Booking moves no cursor back, and moves one past what its batch sent.
LEMMA BookedCursor ==
    ASSUME PushInv, NEW plan, PlanSound(plan), NEW outcome,
           NEW i \in Kept(plan, outcome)
    PROVE  LET row == Booked(outbox[i], plan, outcome)
               r == outbox[i].reason
           IN  /\ row.reason = r
               /\ \A e \in Endpoint :
                    e <= outbox[i].cursor \/ <<e, r>> \in Sends(plan) => e <= row.cursor
<1> DEFINE row == Booked(outbox[i], plan, outcome)
           r == outbox[i].reason
<1>1. /\ i \in DOMAIN outbox
      /\ \A b \in BatchesOf(plan, r) : ~Over(b, Total(b, outcome))
  BY DEF Kept
<1>2. outbox[i] \in Row
  BY <1>1 DEF PushInv, TypeOK
<1>3. row.reason = r
  BY BookedRow
<1>4. CASE BatchesOf(plan, r) = {}
  <2>1. row = outbox[i]
    BY <1>4 DEF Booked
  <2>2. ASSUME NEW e \in Endpoint PROVE <<e, r>> \notin Sends(plan)
    BY <1>4, SentByBatch
  <2> HIDE DEF row
  <2> QED
    BY <1>3, <2>1, <2>2 DEF row
<1>5. CASE BatchesOf(plan, r) # {}
  <2>1. PICK b \in BatchesOf(plan, r) : TRUE
    BY <1>5
  <2>2. BatchesOf(plan, r) = {b} /\ b \in Batch /\ BatchSound(b) /\ b.reason = r
    BY <2>1, OneBatch
  <2> DEFINE last == Max(b.page)
  <2>3. row = [outbox[i] EXCEPT !.cursor = last, !.sent = Total(b, outcome)]
    <3>1. (CHOOSE c \in BatchesOf(plan, r) : TRUE) = b
      BY <2>2
    <3> QED
      BY <1>5, <3>1 DEF Booked, Advanced
  <2>4. b.page # {} /\ b.page \subseteq Endpoint /\ b.targets \subseteq b.page
    BY <1>1, <2>2 DEF Over, Batch, BatchSound
  <2>5. last \in b.page /\ \A e \in b.page : e <= last
    BY <2>4, MaxEndpoint
  <2>6. last > outbox[i].cursor
    BY <1>1, <2>1, <2>5, BatchOfRow
  <2>7. last \in Nat /\ outbox[i].cursor \in Nat /\ Endpoint \subseteq Nat
    BY <1>2, <2>4, <2>5, PushAssumption DEF Endpoint, Row
  <2>8. row.cursor = last
    BY <1>2, <2>3 DEF Row
  <2>9. ASSUME NEW e \in Endpoint, <<e, r>> \in Sends(plan) PROVE e <= last
    BY <2>2, <2>4, <2>5, <2>9, SentByBatch
  <2> HIDE DEF last, row
  <2>10. ASSUME NEW e \in Endpoint, e <= outbox[i].cursor PROVE e <= last
    BY <2>6, <2>7, <2>10
  <2> QED
    BY <1>3, <2>8, <2>9, <2>10 DEF row
<1> QED
  BY <1>4, <1>5

\* Booking what was sent keeps it: it is behind a cursor now.
LEMMA BookingTries ==
    ASSUME PushInv, TriesSound, NEW plan, PlanSound(plan), NEW outcome, NEW before,
           Book(plan, outcome, before), Sends(sending) \subseteq Sends(plan),
           tries' = StillQueued(tries), cuts' = StillQueued(cuts)
    PROVE  TriesSound'
<1> DEFINE rows == Kept(plan, outcome)
           n == Cardinality(rows)
<1>1. PICK f \in InOrder(rows) :
        outbox' = [k \in DOMAIN f |-> Booked(outbox[f[k]], plan, outcome)]
  BY DEF Book
<1>2. rows \subseteq DOMAIN outbox
  BY DEF Kept
<1>3. n \in Nat /\ f \in [1 .. n -> rows]
  BY <1>2, InOrderLists DEF PushInv
<1>4. /\ DOMAIN outbox' = 1 .. n
      /\ \A k \in 1 .. n : f[k] \in rows /\ outbox'[k] = Booked(outbox[f[k]], plan, outcome)
  BY <1>1, <1>3
<1>5. \A r \in Reason, e \in Endpoint :
        \/ tries'[r] = tries[r] /\ cuts'[r] = cuts[r]
        \/ tries'[r][e] = 0 /\ cuts'[r][e] = 0
  BY DEF StillQueued, NoneYet
<1>6. PushedOnce'
  <2>1. ASSUME NEW r \in Reason, NEW e \in Endpoint PROVE tries'[r][e] <= cuts'[r][e] + 1
    <3>1. tries[r][e] <= cuts[r][e] + 1
      BY DEF TriesSound, PushedOnce
    <3> QED
      BY <1>5, <3>1
  <2> QED
    BY <2>1 DEF PushedOnce
<1> HIDE DEF rows, n
<1>7. ASSUME NEW k \in DOMAIN outbox', NEW e \in Endpoint
      PROVE  LET r == outbox'[k].reason
             IN  tries'[r][e] <= cuts'[r][e] \/ e <= outbox'[k].cursor
  <2> DEFINE i == f[k]
             r == outbox[i].reason
             row == Booked(outbox[i], plan, outcome)
  <2>1. i \in rows /\ outbox'[k] = row /\ i \in DOMAIN outbox
    BY <1>2, <1>4
  <2>2. /\ row.reason = r
        /\ e <= outbox[i].cursor \/ <<e, r>> \in Sends(plan) => e <= row.cursor
    <3>1. i \in Kept(plan, outcome)
      BY <2>1 DEF rows
    <3> HIDE DEF i
    <3> QED
      BY <3>1, BookedCursor
  <2>3. tries[r][e] <= cuts[r][e] \/ e <= outbox[i].cursor \/ <<e, r>> \in Sends(sending)
    BY <2>1 DEF TriesSound
  <2>4. r \in Reason
    BY <2>1, ReasonOfRow DEF PushInv
  <2> HIDE DEF i, r, row
  <2>5. outbox'[k].reason = r /\ outbox'[k].cursor = row.cursor
    BY <2>1, <2>2
  <2> QED
    BY <1>5, <2>2, <2>3, <2>4, <2>5
<1> QED
  BY <1>6, <1>7 DEF TriesSound

\* Every step keeps it.
LEMMA TriesStep == PushInv /\ TriesSound /\ [Next]_vars => TriesSound'
<1> SUFFICES ASSUME PushInv, TriesSound, [Next]_vars PROVE TriesSound'
  OBVIOUS
<1>1. /\ TypeOK /\ PlanSound(sending) /\ tries \in Count /\ cuts \in Count
      /\ \A i \in DOMAIN outbox : outbox[i] \in Row /\ outbox[i].reason \in Reason
  <2>1. TypeOK
    BY DEF PushInv
  <2> QED
    BY <2>1, ReasonOfRow DEF PushInv, TypeOK
<1>2. \A r \in Reason, e \in Endpoint :
        tries[r][e] \in Nat /\ cuts[r][e] \in Nat /\ tries[r][e] <= cuts[r][e] + 1
  BY <1>1 DEF Count, TriesSound, PushedOnce
<1>3. CASE UNCHANGED <<outbox, sending, tries, cuts>>
  BY <1>3 DEF TriesSound, PushedOnce, Sends
\* A message that comes in moves no cursor; a new row starts its counts anew.
<1>4. ASSUME NEW t \in Trigger, QueuePush(t[1], t[2])
      PROVE  \A i \in DOMAIN outbox' :
               \/ outbox'[i].reason = t[1] /\ t[1] \notin Queued
               \/ \E j \in DOMAIN outbox :
                    /\ outbox[j].reason = outbox'[i].reason
                    /\ outbox[j].cursor = outbox'[i].cursor
                    /\ t[1] \notin Queued => outbox'[i].reason # t[1]
  <2>1. CASE t[1] \in Queued
    BY <1>1, <1>4, <2>1 DEF QueuePush, Row
  <2>2. CASE t[1] \notin Queued
    <3> DEFINE row == [reason |-> t[1], actors |-> {t[2]}, cursor |-> NoCursor, sent |-> 0]
               n == Len(outbox)
    <3>1. outbox \in Seq(Row) /\ n \in Nat /\ DOMAIN outbox = 1 .. n
      BY <1>1 DEF TypeOK
    <3>2. outbox' = Append(outbox, row) /\ row.reason = t[1]
      BY <1>4, <2>2 DEF QueuePush
    <3>3. \A j \in DOMAIN outbox : outbox[j].reason # t[1]
      BY <2>2 DEF Queued
    <3> HIDE DEF row
    <3>4. /\ DOMAIN outbox' = 1 .. n + 1 /\ outbox'[n + 1] = row
          /\ \A j \in DOMAIN outbox : outbox'[j] = outbox[j]
      BY <3>1, <3>2
    <3>5. \A i \in DOMAIN outbox' : i \in DOMAIN outbox \/ i = n + 1
      BY <3>1, <3>4
    <3> HIDE DEF n
    <3> QED
      BY <2>2, <3>2, <3>3, <3>4, <3>5
  <2> QED
    BY <2>1, <2>2
<1>5. ASSUME NEW t \in Trigger
      PROVE  \A r \in Reason, e \in Endpoint :
               \/ r = t[1] /\ t[1] \notin Queued
                  /\ Anew(tries, t[1])[r][e] = 0 /\ Anew(cuts, t[1])[r][e] = 0
               \/ (r = t[1] => t[1] \in Queued)
                  /\ Anew(tries, t[1])[r] = tries[r] /\ Anew(cuts, t[1])[r] = cuts[r]
  BY <1>1 DEF Anew, NoneYet, Count
<1>6. ASSUME NEW t \in Trigger, NotePush(t[1], t[2]) PROVE TriesSound'
  <2>1. /\ QueuePush(t[1], t[2]) /\ sending' = sending
        /\ tries' = Anew(tries, t[1]) /\ cuts' = Anew(cuts, t[1])
    BY <1>6 DEF NotePush
  <2>2. Sends(sending)' = Sends(sending)
    BY <2>1 DEF Sends
  <2>3. PushedOnce'
    BY <1>2, <1>5, <2>1 DEF PushedOnce
  <2>4. ASSUME NEW i \in DOMAIN outbox', NEW e \in Endpoint
        PROVE  LET r == outbox'[i].reason
               IN  tries'[r][e] <= cuts'[r][e] \/ e <= outbox'[i].cursor \/ <<e, r>> \in Sends(sending)'
    <3>1. CASE outbox'[i].reason = t[1] /\ t[1] \notin Queued
      <4>1. t[1] \in Reason
        BY PushAssumption
      <4> QED
        BY <1>5, <2>1, <3>1, <4>1
    <3>2. CASE ~(outbox'[i].reason = t[1] /\ t[1] \notin Queued)
      <4>1. PICK j \in DOMAIN outbox : /\ outbox[j].reason = outbox'[i].reason
                                       /\ outbox[j].cursor = outbox'[i].cursor
        BY <1>4, <2>1, <3>2
      <4>2. outbox'[i].reason \in Reason
        BY <1>1, <4>1
      <4>3. tries'[outbox'[i].reason] = tries[outbox'[i].reason]
            /\ cuts'[outbox'[i].reason] = cuts[outbox'[i].reason]
        BY <1>5, <2>1, <3>2, <4>2
      <4> QED
        BY <2>2, <4>1, <4>3 DEF TriesSound
    <3> QED
      BY <3>1, <3>2
  <2> QED
    BY <2>3, <2>4 DEF TriesSound
\* A kill counts every send it cuts off: none is more than one ahead of it.
<1>7. ASSUME NEW count \in Count,
             \A r \in Reason, e \in Endpoint : count[r][e] \in Nat
      PROVE  \A r \in Reason, e \in Endpoint :
               /\ Counted(count, sending)[r][e] \in Nat
               /\ Counted(count, sending)[r][e] >= count[r][e]
               /\ <<e, r>> \in Sends(sending) => Counted(count, sending)[r][e] = count[r][e] + 1
  BY <1>7 DEF Counted
<1>8. CASE Restart
  <2>1. /\ sending' = Idle /\ UNCHANGED <<outbox, tries>> /\ cuts' = Counted(cuts, sending)
    BY <1>8 DEF Restart, Killed
  <2>2. \A r \in Reason, e \in Endpoint :
          /\ cuts'[r][e] \in Nat /\ cuts'[r][e] >= cuts[r][e]
          /\ <<e, r>> \in Sends(sending) => cuts'[r][e] = cuts[r][e] + 1
    BY <1>1, <1>2, <1>7, <2>1
  <2>3. PushedOnce'
    <3>1. ASSUME NEW r \in Reason, NEW e \in Endpoint PROVE tries'[r][e] <= cuts'[r][e] + 1
      <4>1. /\ tries[r][e] \in Nat /\ cuts[r][e] \in Nat /\ tries[r][e] <= cuts[r][e] + 1
            /\ cuts'[r][e] \in Nat /\ cuts'[r][e] >= cuts[r][e]
        BY <1>2, <2>2
      <4> QED
        BY <2>1, <4>1
    <3> QED
      BY <3>1 DEF PushedOnce
  <2>4. ASSUME NEW i \in DOMAIN outbox, NEW e \in Endpoint
        PROVE  LET r == outbox[i].reason
               IN  tries[r][e] <= cuts'[r][e] \/ e <= outbox[i].cursor
    <3> DEFINE r == outbox[i].reason
    <3>1. r \in Reason /\ (tries[r][e] <= cuts[r][e] \/ e <= outbox[i].cursor
                           \/ <<e, r>> \in Sends(sending))
      BY <1>1 DEF TriesSound
    <3> HIDE DEF r
    <3>2. tries[r][e] <= cuts'[r][e] \/ e <= outbox[i].cursor
      BY <1>2, <2>2, <3>1
    <3> QED
      BY <3>2 DEF r
  <2> QED
    BY <2>1, <2>3, <2>4 DEF TriesSound
<1>9. ASSUME NEW t \in Trigger, NotePushThenKilled(t[1], t[2]) PROVE TriesSound'
  <2> DEFINE anew == Anew(cuts, t[1])
  <2>1. /\ QueuePush(t[1], t[2]) /\ sending' = Idle
        /\ tries' = Anew(tries, t[1]) /\ cuts' = Counted(anew, sending)
    BY <1>9 DEF NotePushThenKilled, Killed
  <2>2. t[1] \in Reason
    BY PushAssumption
  <2>3. anew \in Count
    BY <1>1, <2>2, CountsType
  <2>4. \A r \in Reason, e \in Endpoint : anew[r][e] \in Nat
    BY <2>3 DEF Count
  <2>5. \A r \in Reason, e \in Endpoint :
          \/ tries'[r][e] = 0 /\ anew[r][e] = 0
          \/ (r = t[1] => t[1] \in Queued) /\ tries'[r] = tries[r] /\ anew[r] = cuts[r]
    BY <1>5, <2>1
  <2> HIDE DEF anew
  <2>6. \A r \in Reason, e \in Endpoint :
          /\ cuts'[r][e] \in Nat /\ cuts'[r][e] >= anew[r][e]
          /\ <<e, r>> \in Sends(sending) => cuts'[r][e] = anew[r][e] + 1
    BY <1>7, <2>1, <2>3, <2>4
  <2>7. PushedOnce'
    <3>1. ASSUME NEW r \in Reason, NEW e \in Endpoint PROVE tries'[r][e] <= cuts'[r][e] + 1
      <4>1. /\ tries[r][e] \in Nat /\ cuts[r][e] \in Nat /\ tries[r][e] <= cuts[r][e] + 1
            /\ cuts'[r][e] \in Nat /\ cuts'[r][e] >= anew[r][e]
        BY <1>2, <2>6
      <4>2. CASE tries'[r][e] = 0 /\ anew[r][e] = 0
        BY <4>1, <4>2
      <4>3. CASE tries'[r] = tries[r] /\ anew[r] = cuts[r]
        BY <4>1, <4>3
      <4> QED
        BY <2>5, <4>2, <4>3
    <3> QED
      BY <3>1 DEF PushedOnce
  <2>8. ASSUME NEW i \in DOMAIN outbox', NEW e \in Endpoint
        PROVE  LET r == outbox'[i].reason
               IN  tries'[r][e] <= cuts'[r][e] \/ e <= outbox'[i].cursor
    <3> DEFINE r == outbox'[i].reason
    <3>1. r \in Reason
      <4>1. CASE r = t[1]
        BY <2>2, <4>1
      <4>2. CASE r # t[1]
        <5>1. PICK j \in DOMAIN outbox : outbox[j].reason = r
          BY <1>4, <2>1, <4>2
        <5> QED
          BY <1>1, <5>1
      <4> QED
        BY <4>1, <4>2
    <3>2. CASE tries'[r][e] = 0 /\ anew[r][e] = 0
      <4>1. cuts'[r][e] >= 0 /\ cuts'[r][e] \in Nat
        BY <2>6, <3>1, <3>2
      <4> QED
        BY <3>2, <4>1
    <3>3. CASE (r = t[1] => t[1] \in Queued) /\ tries'[r] = tries[r] /\ anew[r] = cuts[r]
      <4>1. PICK j \in DOMAIN outbox : outbox[j].reason = r /\ outbox[j].cursor = outbox'[i].cursor
        BY <1>4, <2>1, <3>3
      <4>2. tries[r][e] <= cuts[r][e] \/ e <= outbox[j].cursor \/ <<e, r>> \in Sends(sending)
        BY <4>1 DEF TriesSound
      <4> HIDE DEF r
      <4>3. tries'[r][e] <= cuts'[r][e] \/ e <= outbox'[i].cursor
        BY <1>2, <2>6, <3>1, <3>3, <4>1, <4>2
      <4> QED
        BY <4>3 DEF r
    <3>4. \/ tries'[r][e] = 0 /\ anew[r][e] = 0
          \/ (r = t[1] => t[1] \in Queued) /\ tries'[r] = tries[r] /\ anew[r] = cuts[r]
      BY <2>5, <3>1
    <3> QED
      BY <3>2, <3>3, <3>4
  <2> QED
    BY <2>7, <2>8 DEF TriesSound
<1>10. CASE AlarmSends
  <2>1. /\ sending = Idle /\ sending' = Plan /\ UNCHANGED <<outbox, cuts>>
        /\ tries' = Counted(tries, Plan)
    BY <1>10 DEF AlarmSends
  <2>2. Sends(sending) = {} /\ Sends(sending)' = Sends(Plan)
    BY <2>1, IdleSendsNothing DEF Sends
  <2>3. PlanSound(Plan)
    BY PlanIsSound
  <2>4. \A r \in Reason, e \in Endpoint :
          /\ <<e, r>> \in Sends(Plan) => tries'[r][e] = tries[r][e] + 1
          /\ <<e, r>> \notin Sends(Plan) => tries'[r][e] = tries[r][e]
    BY <2>1 DEF Counted
  <2>5. ASSUME NEW r \in Reason, NEW e \in Endpoint, <<e, r>> \in Sends(Plan)
        PROVE  tries[r][e] <= cuts[r][e]
    <3>1. PICK i \in DOMAIN outbox : outbox[i].reason = r /\ e > outbox[i].cursor
      BY <2>3, <2>5, SentIsAhead
    <3>2. e \in Nat /\ outbox[i].cursor \in Nat
      BY <1>1, PushAssumption DEF Endpoint, Row
    <3>3. ~(e <= outbox[i].cursor)
      BY <3>1, <3>2
    <3> QED
      BY <2>2, <3>1, <3>3 DEF TriesSound
  <2>6. PushedOnce'
    <3>1. ASSUME NEW r \in Reason, NEW e \in Endpoint PROVE tries'[r][e] <= cuts'[r][e] + 1
      <4>1. tries[r][e] \in Nat /\ cuts[r][e] \in Nat /\ tries[r][e] <= cuts[r][e] + 1
        BY <1>2
      <4>2. CASE <<e, r>> \in Sends(Plan)
        BY <2>1, <2>4, <2>5, <4>1, <4>2
      <4>3. CASE <<e, r>> \notin Sends(Plan)
        BY <2>1, <2>4, <4>1, <4>3
      <4> QED
        BY <4>2, <4>3
    <3> QED
      BY <3>1 DEF PushedOnce
  <2>7. ASSUME NEW i \in DOMAIN outbox, NEW e \in Endpoint
        PROVE  LET r == outbox[i].reason
               IN  tries'[r][e] <= cuts[r][e] \/ e <= outbox[i].cursor \/ <<e, r>> \in Sends(Plan)
    BY <1>1, <2>2, <2>4 DEF TriesSound
  <2> QED
    BY <2>1, <2>2, <2>6, <2>7 DEF TriesSound
<1>11. CASE AlarmReachesNobody
  <2>1. /\ Book(Plan, << >>, Never) /\ sending = Idle
        /\ tries' = StillQueued(tries) /\ cuts' = StillQueued(cuts)
    BY <1>11 DEF AlarmReachesNobody
  <2>2. Sends(sending) \subseteq Sends(Plan)
    BY <2>1, IdleSendsNothing
  <2> QED
    BY <2>1, <2>2, PlanIsSound, BookingTries
<1>12. CASE PushesAnswered
  <2>1. PICK outcome : Book(sending, outcome, alarm)
    BY <1>12 DEF PushesAnswered
  <2>2. tries' = StillQueued(tries) /\ cuts' = StillQueued(cuts)
    BY <1>12 DEF PushesAnswered
  <2> QED
    BY <1>1, <2>1, <2>2, BookingTries
<1> QED
  BY <1>3, <1>6, <1>8, <1>9, <1>10, <1>11, <1>12
  DEF Next, vars, Alarm, AlarmFindsNothing, Subscribe, Unsubscribe, Authenticate, Disconnect,
      OpenLiveFeed, CloseLiveFeed, Tick

-----------------------------------------------------------------------------
(* The theorems.                                                           *)

\* Whatever is queued, subscribed, sent, answered and killed, in whatever order,
\* every row and every batch that is awaited stays sound.
THEOREM PushSafety == Spec => []PushInv
BY InitSound, PushStep, PTL DEF Spec

\* Every variable keeps its type; a reason has one row and one batch.
THEOREM TypeCorrect == Spec => []TypeOK
<1>1. PushInv => TypeOK
  BY DEF PushInv
<1> QED
  BY <1>1, PushSafety, PTL

\* A queued notification always has its alarm, set or running, unless the
\* object was killed between writing the row and setting it.
THEOREM AlarmTheorem == Spec => []QueueHasAlarm
<1>1. PushInv => QueueHasAlarm
  BY DEF PushInv
<1> QED
  BY <1>1, PushSafety, PTL

\* The one alarm is shared without a live feed socket being forgotten: it never
\* comes later than any socket's end.
THEOREM LiveFeedTheorem == Spec => []LiveFeedHasAlarm
<1>1. PushInv => LiveFeedHasAlarm
  BY DEF PushInv
<1> QED
  BY <1>1, PushSafety, PTL

\* No device is sent one notification more often than once and once more for
\* each time the object was killed while it was being sent to: every send is
\* counted, those of a killed drain too.
THEOREM PushedOnceTheorem == Spec => []PushedOnce
<1>1. Init => TriesSound
  <2>1. ASSUME Init PROVE PushedOnce
    BY <2>1 DEF Init, PushedOnce, NoneYet
  <2>2. ASSUME Init PROVE DOMAIN outbox = {}
    BY <2>2 DEF Init
  <2> QED
    BY <2>1, <2>2 DEF TriesSound
<1>2. TriesSound => PushedOnce
  BY DEF TriesSound
<1> QED
  BY <1>1, <1>2, TriesStep, PushSafety, PTL DEF Spec

\* What one alarm sends is within its allowance, whatever rows share it.
THEOREM BudgetTheorem == Spec => []TickWithinBudget
<1>1. PushInv => TickWithinBudget
  BY DEF PushInv, PlanSound, TickWithinBudget
<1> QED
  BY <1>1, PushSafety, PTL

\* A fan-out passes its ceiling by less than one batch.
THEOREM FanOutTheorem == Spec => []FanOutBounded
<1>1. PushInv => FanOutBounded
  BY DEF PushInv
<1> QED
  BY <1>1, PushSafety, PTL

\* Only booking takes a row from the queue, and it takes none that owes a
\* device a push and is under its ceiling.
LEMMA OnlyBookingClears ==
    ASSUME PushInv, [Next]_vars, NEW r \in Queued \ Queued'
    PROVE  owed'[r] = {} \/ Cardinality(pushed'[r]) >= MaxPerNotification
<1>1. ASSUME outbox' = outbox PROVE FALSE
  BY <1>1 DEF Queued
<1>2. ASSUME NEW t \in Trigger, QueuePush(t[1], t[2]) PROVE FALSE
  <2>1. t[1] \in Reason /\ t[2] \in Pubkey
    BY PushAssumption
  <2>2. Len(outbox) \in Nat /\ DOMAIN outbox = 1 .. Len(outbox)
    BY DEF PushInv, TypeOK
  <2>3. PICK i \in DOMAIN outbox : outbox[i].reason = r
    BY DEF Queued
  <2>4. i \in DOMAIN outbox' /\ outbox'[i].reason = r
    <3>1. outbox[i] \in Row
      BY DEF PushInv, TypeOK
    <3>2. CASE t[1] \in Queued
      BY <1>2, <2>3, <3>1, <3>2 DEF QueuePush, Row
    <3>3. CASE t[1] \notin Queued
      BY <1>2, <2>2, <2>3, <3>3 DEF QueuePush, PushInv, TypeOK
    <3> QED
      BY <3>2, <3>3
  <2> QED
    BY <2>4 DEF Queued
<1>3. CASE AlarmReachesNobody
  <2>1. Book(Plan, << >>, Never) /\ PlanSound(Plan)
    BY <1>3, PlanIsSound DEF AlarmReachesNobody
  <2> QED
    BY <2>1, BookedOut
<1>4. CASE PushesAnswered
  <2>1. PICK outcome : Book(sending, outcome, alarm)
    BY <1>4 DEF PushesAnswered
  <2>2. PlanSound(sending)
    BY DEF PushInv
  <2> QED
    BY <2>1, <2>2, BookedOut
<1> QED
  BY <1>1, <1>2, <1>3, <1>4
     DEF Next, vars, Alarm, NotePush, NotePushThenKilled, Restart, AlarmFindsNothing, AlarmSends,
         Subscribe, Unsubscribe, Authenticate, Disconnect, OpenLiveFeed, CloseLiveFeed, Tick

\* A notification leaves the queue only when it has come to every device it
\* was owed to, or met its ceiling.
THEOREM NobodyLeftOutTheorem == Spec => NobodyLeftOut
<1>1. PushInv /\ [Next]_vars =>
        [ \A r \in Queued \ Queued' :
            owed'[r] = {} \/ Cardinality(pushed'[r]) >= MaxPerNotification ]_vars
  BY OnlyBookingClears
<1> QED
  BY <1>1, PushSafety, PTL DEF Spec, NobodyLeftOut
=============================================================================
