----------------------------- MODULE RoomProofs -----------------------------
(***************************************************************************)
(* What holds of the room and its sweep for any number of people, sockets  *)
(* and messages, and for any limits.                                       *)
(***************************************************************************)
EXTENDS Room, FiniteSetTheorems, TLAPS

-----------------------------------------------------------------------------
(* The watermark.                                                          *)

LEMMA MaxOfTwo ==
    ASSUME NEW a \in Nat, NEW b \in Nat
    PROVE  Max({a, b}) = IF a >= b THEN a ELSE b
<1> DEFINE m == IF a >= b THEN a ELSE b
<1>1. m \in {a, b} /\ \A y \in {a, b} : m >= y
  OBVIOUS
<1>2. \A x \in {a, b} : (\A y \in {a, b} : x >= y) => x = m
  OBVIOUS
<1> QED
  BY <1>1, <1>2 DEF Max

LEMMA MinOfTwo ==
    ASSUME NEW a \in Nat, NEW b \in Nat
    PROVE  Min({a, b}) = IF a <= b THEN a ELSE b
<1> DEFINE m == IF a <= b THEN a ELSE b
<1>1. m \in {a, b} /\ \A y \in {a, b} : m <= y
  OBVIOUS
<1>2. \A x \in {a, b} : (\A y \in {a, b} : x <= y) => x = m
  OBVIOUS
<1> QED
  BY <1>1, <1>2 DEF Min

\* The types, the watermark that never says two people met later than they
\* did, and what was swept staying swept.
RoomInv ==
    /\ TypeOK
    /\ metAt <= now
    /\ chat.lastOccupiedAt <= metAt
    /\ SweptStaysSwept

\* The watermark stays, or comes to now if two people are there.
LEMMA WatermarkMoves ==
    ASSUME RoomInv, NEW cs
    PROVE  WatermarkAfter(cs) = IF MaySample /\ Occupied(cs) THEN now ELSE chat.lastOccupiedAt
<1>1. chat.lastOccupiedAt \in Nat /\ now \in Nat /\ chat.lastOccupiedAt <= now
  BY DEF RoomInv, TypeOK, ChatState
<1> HIDE DEF MaySample, Occupied
<1>2. Max({chat.lastOccupiedAt, now}) = IF chat.lastOccupiedAt >= now THEN chat.lastOccupiedAt ELSE now
  BY <1>1, MaxOfTwo
<1>3. Max({chat.lastOccupiedAt, now}) = now
  BY <1>1, <1>2
<1> QED
  BY <1>3 DEF WatermarkAfter

\* What a note of the occupancy leaves, with the room as it was or as it is.
LEMMA NoteKeeps ==
    ASSUME RoomInv, NEW cs, NoteRoomOccupancy(cs), now' = now,
           metAt' = IF Occupied(conn) \/ Occupied(conn') THEN now' ELSE metAt,
           cs = conn \/ cs = conn'
    PROVE  /\ chat' \in ChatState /\ chat'.sweptThrough = chat.sweptThrough
           /\ chat'.sweptThrough <= chat'.lastOccupiedAt
           /\ chat'.lastOccupiedAt <= metAt'
           /\ sampledAt' \in Nat /\ sampledAt' <= now'
           /\ metAt' \in Nat /\ metAt' <= now'
<1>1. /\ chat \in ChatState /\ now \in Nat /\ sampledAt \in Nat /\ sampledAt <= now /\ metAt \in Nat
      /\ chat.sweptThrough <= chat.lastOccupiedAt /\ metAt <= now /\ chat.lastOccupiedAt <= metAt
  BY DEF RoomInv, TypeOK
<1>2. sampledAt' \in Nat /\ sampledAt' <= now'
  BY <1>1 DEF NoteRoomOccupancy
<1>3. metAt' \in Nat /\ metAt' <= now' /\ metAt <= metAt'
  BY <1>1
<1>4. /\ chat'.sweptThrough = chat.sweptThrough
      /\ chat'.lastOccupiedAt = IF MaySample /\ Occupied(cs) THEN now ELSE chat.lastOccupiedAt
      /\ chat' \in ChatState
  BY <1>1, WatermarkMoves DEF NoteRoomOccupancy, ChatState
<1>5. chat'.lastOccupiedAt <= metAt' /\ chat'.sweptThrough <= chat'.lastOccupiedAt
  BY <1>1, <1>3, <1>4 DEF ChatState
<1> QED
  BY <1>2, <1>3, <1>4, <1>5

-----------------------------------------------------------------------------
(* The sweep.                                                              *)

\* What one step may take away.
Takes ==
    \A m \in stored \ stored' :
        /\ m.created_at <= metAt
        /\ ~(Occupied(conn) /\ MaySample)


\* What a batch that came out short leaves behind is nothing.
LEMMA ShortBatchIsAll ==
    ASSUME NEW over, IsFiniteSet(over), NEW targets \in OldestBatch(over), RoomAssumption,
           Cardinality(targets) < SweepBatch
    PROVE  targets = over
<1>1. targets \in SUBSET over /\ Cardinality(targets) = Min({SweepBatch, Cardinality(over)})
  BY DEF OldestBatch
<1>2. Cardinality(over) \in Nat /\ SweepBatch \in Nat
  BY FS_CardinalityType, RoomAssumption
<1>3. Cardinality(targets) = IF SweepBatch <= Cardinality(over) THEN SweepBatch ELSE Cardinality(over)
  BY <1>1, <1>2, MinOfTwo
<1>4. Cardinality(targets) = Cardinality(over)
  BY <1>2, <1>3
<1> QED
  BY <1>1, <1>4, FS_Subset

\* What one cron does: the watermark is noted, and what goes is of a
\* conversation that ended Idle ago or longer, all of it if so recorded.
LEMMA CronStep ==
    ASSUME RoomInv, Cron, metAt' = IF Occupied(conn) \/ Occupied(conn') THEN now' ELSE metAt
    PROVE  RoomInv' /\ Takes
<1> DEFINE mark == WatermarkAfter(conn)
           cutoff == Cutoff(mark)
           over == { m \in stored : m.created_at <= cutoff }
<1>1. /\ chat \in ChatState /\ now \in Nat /\ sampledAt \in Nat /\ sampledAt <= now /\ metAt \in Nat
      /\ chat.sweptThrough <= chat.lastOccupiedAt /\ metAt <= now /\ chat.lastOccupiedAt <= metAt
      /\ chat.sweptThrough \in Nat /\ chat.lastOccupiedAt \in Nat
      /\ stored \subseteq Message /\ IsFiniteSet(stored)
      /\ \A m \in Message : m.created_at \in Nat
      /\ Idle \in Nat \ {0}
  BY RoomAssumption, FS_Subset DEF RoomInv, TypeOK, ChatState
<1>2. mark = IF MaySample /\ Occupied(conn) THEN now ELSE chat.lastOccupiedAt
  BY WatermarkMoves
<1>3. mark \in Nat /\ chat.lastOccupiedAt <= mark /\ mark <= now
  BY <1>1, <1>2
<1>4. cutoff = (IF now - mark >= Idle THEN mark ELSE 0) /\ cutoff \in Nat /\ cutoff <= mark
  BY <1>1, <1>3 DEF Cutoff
<1>5. PICK targets \in OldestBatch(IF cutoff <= chat.sweptThrough THEN {} ELSE over) :
        /\ stored' = stored \ targets
        /\ chat' = [lastOccupiedAt |-> mark,
                    sweptThrough |-> IF cutoff <= chat.sweptThrough
                                     THEN chat.sweptThrough
                                     ELSE SweptThrough(targets, cutoff)]
  BY DEF Cron
<1>6. UNCHANGED <<conn, member, now, says, unfetched, heard>> /\ sampledAt' = IF MaySample THEN now ELSE sampledAt
  BY DEF Cron
<1>7. metAt' \in Nat /\ metAt' <= now' /\ mark <= metAt'
  BY <1>1, <1>2, <1>6
<1> HIDE DEF mark, cutoff
<1>8. CASE cutoff <= chat.sweptThrough
  <2>1. targets = {}
    BY <1>5, <1>8 DEF OldestBatch
  <2>2. stored' = stored /\ chat' = [lastOccupiedAt |-> mark, sweptThrough |-> chat.sweptThrough]
    BY <1>5, <1>8, <2>1
  <2> QED
    BY <1>1, <1>3, <1>6, <1>7, <2>2 DEF RoomInv, TypeOK, SweptStaysSwept, ChatState, Takes
<1>9. CASE ~(cutoff <= chat.sweptThrough)
  <2>1. targets \in OldestBatch(over) /\ targets \subseteq over
    BY <1>5, <1>9 DEF OldestBatch
  <2>2. /\ stored' = stored \ targets
        /\ chat' = [lastOccupiedAt |-> mark, sweptThrough |-> SweptThrough(targets, cutoff)]
    BY <1>5, <1>9
  <2>3. Max({chat.sweptThrough, cutoff}) = cutoff
    <3>1. Max({chat.sweptThrough, cutoff}) = IF chat.sweptThrough >= cutoff THEN chat.sweptThrough ELSE cutoff
      BY <1>1, <1>4, MaxOfTwo
    <3> QED
      BY <1>1, <1>4, <1>9, <3>1
  <2>4. SweptThrough(targets, cutoff) = IF Cardinality(targets) < SweepBatch THEN cutoff ELSE chat.sweptThrough
    BY <2>3 DEF SweptThrough
  <2>5. chat'.sweptThrough \in Nat /\ chat'.sweptThrough <= mark
    BY <1>1, <1>3, <1>4, <2>2, <2>4
  <2>6. \A m \in stored' \ Imported : m.created_at > chat'.sweptThrough
    <3>1. CASE Cardinality(targets) < SweepBatch
      <4>1. IsFiniteSet(over)
        BY <1>1, FS_Subset
      <4>2. targets = over
        BY <2>1, <3>1, <4>1, ShortBatchIsAll, RoomAssumption
      <4>3. \A m \in stored' : m \in Message /\ ~(m.created_at <= cutoff)
        BY <1>1, <2>2, <4>2
      <4>4. chat'.sweptThrough = cutoff
        BY <2>2, <2>4, <3>1
      <4> QED
        BY <1>1, <1>4, <4>3, <4>4
    <3>2. CASE ~(Cardinality(targets) < SweepBatch)
      <4>1. chat'.sweptThrough = chat.sweptThrough
        BY <2>2, <2>4, <3>2
      <4> QED
        BY <2>2, <4>1 DEF RoomInv, SweptStaysSwept
    <3> QED
      BY <3>1, <3>2
  <2>7. RoomInv'
    BY <1>1, <1>3, <1>6, <1>7, <2>2, <2>5, <2>6 DEF RoomInv, TypeOK, SweptStaysSwept, ChatState
  <2>8. mark # now /\ ~(Occupied(conn) /\ MaySample)
    BY <1>1, <1>2, <1>3, <1>4, <1>9
  <2>9. \A m \in stored \ stored' : m.created_at <= metAt
    BY <1>1, <1>2, <1>4, <2>1, <2>2, <2>8
  <2> QED
    BY <2>7, <2>8, <2>9 DEF Takes
<1> QED
  BY <1>8, <1>9

-----------------------------------------------------------------------------
(* The room.                                                               *)

\* Every step keeps the invariant, and takes from the room only what the sweep
\* may take.
LEMMA RoomStep ==
    ASSUME RoomInv, Next
    PROVE  RoomInv' /\ Takes
<1>1. metAt' = IF Occupied(conn) \/ Occupied(conn') THEN now' ELSE metAt
  BY DEF Next
<1> USE RoomAssumption
<1>2. ASSUME now' = now, chat' = chat, sampledAt' = sampledAt \/ sampledAt' = 0
      PROVE  /\ metAt' \in Nat /\ metAt' <= now' /\ chat'.lastOccupiedAt <= metAt'
             /\ sampledAt' \in Nat /\ sampledAt' <= now'
  BY <1>1, <1>2 DEF RoomInv, TypeOK, ChatState
<1>3. ASSUME NEW c \in Conn, NEW p \in Pubkey, Authenticate(c, p) PROVE RoomInv' /\ stored' = stored
  <2>1. conn' \in [Conn -> ConnState]
    BY <1>3 DEF Authenticate, RoomInv, TypeOK, ConnState
  <2> QED
    BY <1>2, <1>3, <2>1 DEF Authenticate, RoomInv, TypeOK, SweptStaysSwept
<1>4. ASSUME NEW c \in Conn, NEW wantsChat \in BOOLEAN, Enter(c, wantsChat) PROVE RoomInv' /\ stored' = stored
  <2>1. conn' \in [Conn -> ConnState]
    BY <1>4 DEF Enter, RoomInv, TypeOK, ConnState
  <2>2. NoteRoomOccupancy(conn') /\ UNCHANGED <<member, stored, now, says, unfetched>>
    BY <1>4 DEF Enter
  <2>3. heard' \subseteq Message
    BY <1>4 DEF Enter, RoomInv, TypeOK
  <2> QED
    BY <1>1, <2>1, <2>2, <2>3, NoteKeeps DEF RoomInv, TypeOK, SweptStaysSwept
<1>5. ASSUME NEW c \in Conn, CloseSubscription(c) \/ Disconnect(c) PROVE RoomInv' /\ stored' = stored
  <2>1. Gone \in ConnState /\ conn \in [Conn -> ConnState]
    BY DEF Gone, ConnState, RoomInv, TypeOK
  <2>2. conn' \in [Conn -> ConnState]
    <3>1. CASE CloseSubscription(c)
      <4>1. [conn[c] EXCEPT !.hears = FALSE] \in ConnState
        BY <2>1 DEF ConnState
      <4> QED
        BY <2>1, <3>1, <4>1 DEF CloseSubscription
    <3>2. CASE Disconnect(c)
      BY <2>1, <3>2 DEF Disconnect
    <3> QED
      BY <1>5, <3>1, <3>2
  <2> QED
    BY <1>2, <1>5, <2>2 DEF CloseSubscription, Disconnect, RoomInv, TypeOK, SweptStaysSwept
<1>6. CASE Hibernate
  BY <1>2, <1>6 DEF Hibernate, RoomInv, TypeOK, SweptStaysSwept, Takes
<1>7. ASSUME NEW m \in Message, Say(m) PROVE RoomInv' /\ stored \subseteq stored'
  <2>1. /\ NoteRoomOccupancy(conn) /\ stored' = stored \union {m}
        /\ UNCHANGED <<conn, member, now, unfetched>>
    BY <1>7 DEF Say
  <2>2. says' \in 0 .. MaxSays /\ heard' \subseteq Message
    BY <1>7 DEF Say, RoomInv, TypeOK
  <2>3. chat'.sweptThrough = chat.sweptThrough
    BY <1>1, <2>1, NoteKeeps
  <2>4. SweptStaysSwept'
    BY <1>7, <2>1, <2>3 DEF Say, AfterSwept, RoomInv, SweptStaysSwept
  <2> QED
    BY <1>1, <2>1, <2>2, <2>4, NoteKeeps DEF RoomInv, TypeOK
<1>8. ASSUME NEW m \in Message, Import(m) PROVE RoomInv' /\ stored \subseteq stored'
  <2>1. m \in Imported /\ stored' = stored \union {m}
    BY <1>8 DEF Import, RoomInv, TypeOK
  <2> QED
    BY <1>2, <1>8, <2>1 DEF Import, RoomInv, TypeOK, SweptStaysSwept
<1>9. ASSUME NEW p \in Pubkey, Moderate(p) PROVE RoomInv' /\ stored' = stored
  <2>1. NoteRoomOccupancy(conn) /\ UNCHANGED <<conn, stored, now, says, unfetched, heard>> /\ member' \subseteq Pubkey
    BY <1>9 DEF Moderate, RoomInv, TypeOK
  <2> QED
    BY <1>1, <2>1, NoteKeeps DEF RoomInv, TypeOK, SweptStaysSwept
<1>10. CASE Cron
  BY <1>1, <1>10, CronStep
<1>11. CASE Tick
  BY <1>1, <1>11 DEF Tick, RoomInv, TypeOK, SweptStaysSwept, ChatState, Takes
<1> QED
  BY <1>3, <1>4, <1>5, <1>6, <1>7, <1>8, <1>9, <1>10, <1>11 DEF Next, Step, Tick, Hibernate, Takes

LEMMA RoomInvariance == Spec => []RoomInv
<1>1. Init => RoomInv
  BY RoomAssumption DEF Init, RoomInv, TypeOK, SweptStaysSwept, Gone, ConnState, ChatState
<1>2. RoomInv /\ UNCHANGED vars => RoomInv'
  BY DEF vars, RoomInv, TypeOK, SweptStaysSwept
<1> QED
  BY <1>1, <1>2, RoomStep, PTL DEF Spec

\* The tables and the sockets keep their types, and the sweep never gets ahead
\* of the conversations.
THEOREM TypeCorrect == Spec => []TypeOK
BY RoomInvariance, PTL DEF RoomInv

\* No message is as old as what was swept to the end, unless backfill brought it.
THEOREM SweptTheorem == Spec => []SweptStaysSwept
BY RoomInvariance, PTL DEF RoomInv

\* The sweep takes only what was said by the time two people last met, and
\* nothing while the cron sees two people there.
THEOREM SweepTheorem == Spec => SweepsConversationsOnly
<1>1. RoomInv /\ [Next]_vars => [Takes]_vars
  BY RoomStep DEF Takes
<1>2. Spec => [][Takes]_vars
  BY <1>1, RoomInvariance, PTL DEF Spec
<1> QED
  BY <1>2 DEF SweepsConversationsOnly, Takes
=============================================================================
