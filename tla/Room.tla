-------------------------------- MODULE Room --------------------------------
(***************************************************************************)
(* Ephemeral group chat with EPHEMERAL_CHAT=on: who is in the room (the    *)
(* sockets relay.ts groupOccupants walks), the watermark that records when *)
(* the room was last seen occupied (chat_state), the horizon a reader gets *)
(* and the hourly sweep (storage.ts), for the one group that has a         *)
(* watermark, the top-level one.                                           *)
(*                                                                         *)
(* Sockets and their attachments survive hibernation; roomSampledAt, which *)
(* spares the watermark most of its writes, does not.                      *)
(***************************************************************************)
EXTENDS Integers, FiniteSets, FiniteSetsExt

CONSTANTS
    Pubkey,         \* everyone who connects
    Owner,          \* the relay's owner, a member without a row
    Conn,           \* the sockets
    Message,        \* the kind-9 events: [id, author, created_at]
    Imported,       \* those only backfill brings, from another relay
    Idle,           \* CONVERSATION_IDLE_SECONDS
    SampleInterval, \* CHAT_OCCUPANCY_WRITE_INTERVAL_SECONDS
    Backlog,        \* CHAT_BACKLOG_SECONDS
    MinOccupants,   \* MIN_ROOM_OCCUPANTS
    FutureSkew,     \* MAX_CREATED_AT_FUTURE_SECONDS
    SweepBatch,     \* CHAT_SWEEP_BATCH_SIZE
    FirstNow,       \* the clock when the object first wakes
    MaxNow,         \* bound: the clock stops here
    MaxSays         \* bound: how many chat messages are accepted in all

Nobody == "nobody"
Time == FirstNow .. MaxNow
Gone == [who |-> Nobody, groupReader |-> FALSE, hears |-> FALSE]

ASSUME RoomAssumption ==
    /\ Owner \in Pubkey
    /\ Nobody \notin Pubkey
    /\ Imported \subseteq Message
    /\ IsFiniteSet(Message)
    /\ \A m \in Message : m.created_at \in Nat /\ m.author \in Pubkey
    /\ {SampleInterval, Backlog, FutureSkew, MaxNow, MaxSays} \subseteq Nat
    /\ {Idle, MinOccupants, SweepBatch, FirstNow} \subseteq Nat \ {0}

VARIABLES
    conn,       \* each socket's ConnState, as far as the room goes
    member,     \* `group_membership` of the top-level group
    chat,       \* `chat_state`
    stored,     \* the group's kind-9 rows
    sampledAt,  \* roomSampledAt, in memory
    now,        \* the clock
    says,       \* how many messages were accepted so far
    unfetched,  \* what backfill has not imported yet
    metAt,      \* history: when two people were last in the room
    heard       \* history: what reached somebody other than its author

vars == <<conn, member, chat, stored, sampledAt, now, says, unfetched, metAt, heard>>

ConnState == [who : Pubkey \union {Nobody}, groupReader : BOOLEAN, hears : BOOLEAN]
ChatState == [lastOccupiedAt : Nat, sweptThrough : Nat]

\* The watermarks lag the clock, and what was swept through was once occupied.
TypeOK ==
    /\ conn \in [Conn -> ConnState]
    /\ member \subseteq Pubkey
    /\ chat \in ChatState
    /\ chat.sweptThrough <= chat.lastOccupiedAt
    /\ stored \subseteq Message
    /\ sampledAt \in Nat /\ sampledAt <= now
    /\ now \in Nat
    /\ says \in 0 .. MaxSays
    /\ unfetched \subseteq Imported
    /\ metAt \in Nat
    /\ heard \subseteq Message

Init ==
    /\ conn = [c \in Conn |-> Gone]
    /\ member = {}
    /\ chat = [lastOccupiedAt |-> 0, sweptThrough |-> 0]
    /\ stored = {}
    /\ sampledAt = 0
    /\ now = FirstNow
    /\ says = 0
    /\ unfetched = Imported
    /\ metAt = 0
    /\ heard = {}

-----------------------------------------------------------------------------
(* Occupancy.                                                              *)

\* groupOccupants: the distinct pubkeys of the sockets that were let in.
Occupants(cs) == { cs[c].who : c \in { d \in Conn : cs[d].groupReader } } \ {Nobody}

Occupied(cs) == Cardinality(Occupants(cs)) >= MinOccupants

\* Whether enough time has passed to look again.
MaySample == now - sampledAt >= SampleInterval

\* Mutant: the author alone is company enough.
WatermarkAfterAnyone(cs) ==
    IF MaySample /\ Occupants(cs) # {} THEN now ELSE chat.lastOccupiedAt

\* noteRoomOccupancy, as it leaves lastOccupiedAt, with the sockets as in cs.
WatermarkAfter(cs) ==
    IF MaySample /\ Occupied(cs) THEN Max({chat.lastOccupiedAt, now}) ELSE chat.lastOccupiedAt

NoteRoomOccupancy(cs) ==
    /\ sampledAt' = IF MaySample THEN now ELSE sampledAt
    /\ chat' = [chat EXCEPT !.lastOccupiedAt = WatermarkAfter(cs)]

MayRead(p) == p = Owner \/ p \in member

\* chatHorizon, with the watermark as noteRoomOccupancy has just left it.
Horizon(lastOccupiedAt) == Min({now - Backlog, lastOccupiedAt})
-----------------------------------------------------------------------------
(* Sockets.                                                                *)

\* AUTH on a socket, the first or a later one: groupReader and the
\* subscriptions stay as they are.
Authenticate(c, p) ==
    /\ conn[c].who # p
    /\ conn' = [conn EXCEPT ![c].who = p]
    /\ UNCHANGED <<member, chat, stored, sampledAt, now, says, unfetched, heard>>

\* A REQ from somebody who may read the group; `wantsChat` if its filters
\* match the chat.  Occupancy is noted with the reader counted in, and the
\* horizon comes after.
Enter(c, wantsChat) ==
    /\ MayRead(conn[c].who)
    /\ conn' = [conn EXCEPT ![c].groupReader = TRUE, ![c].hears = wantsChat]
    /\ NoteRoomOccupancy(conn')
    /\ LET shown == { m \in stored : m.created_at >= Horizon(chat'.lastOccupiedAt) }
       IN  heard' = IF wantsChat
                    THEN heard \union { m \in shown : m.author # conn[c].who }
                    ELSE heard
    /\ UNCHANGED <<member, stored, now, says, unfetched>>

\* CLOSE of the chat subscription: the socket stays a group reader.
CloseSubscription(c) ==
    /\ conn[c].hears
    /\ conn' = [conn EXCEPT ![c].hears = FALSE]
    /\ UNCHANGED <<member, chat, stored, sampledAt, now, says, unfetched, heard>>

Disconnect(c) ==
    /\ conn[c] # Gone
    /\ conn' = [conn EXCEPT ![c] = Gone]
    /\ UNCHANGED <<member, chat, stored, sampledAt, now, says, unfetched, heard>>

\* Hibernation: the object forgets when it last looked.
Hibernate ==
    /\ sampledAt # 0
    /\ sampledAt' = 0
    /\ UNCHANGED <<conn, member, chat, stored, now, says, unfetched, heard>>
-----------------------------------------------------------------------------
(* Events.                                                                 *)

\* Mutant: the watermark of the swept conversations is not asked.
AlwaysAdmit(m) == TRUE

\* authorizeGroupWrite: a message of a conversation that is over is refused.
AfterSwept(m) == m.created_at > chat.sweptThrough

\* acceptEvent of a kind-9: stored, occupancy noted, then broadcast to the
\* members whose subscriptions match it.
Say(m) ==
    /\ m \notin stored \union Imported
    /\ m.created_at <= now + FutureSkew
    /\ AfterSwept(m)
    /\ MayRead(m.author)
    /\ says < MaxSays
    /\ says' = says + 1
    /\ stored' = stored \union {m}
    /\ NoteRoomOccupancy(conn)
    /\ heard' = IF \E c \in Conn : conn[c].hears /\ conn[c].who # m.author /\ MayRead(conn[c].who)
                THEN heard \union {m} ELSE heard
    /\ UNCHANGED <<conn, member, now, unfetched>>

\* The owner's put-user and remove-user, which are group events themselves.
Moderate(p) ==
    /\ p # Owner
    /\ member' = IF p \in member THEN member \ {p} ELSE member \union {p}
    /\ NoteRoomOccupancy(conn)
    /\ UNCHANGED <<conn, stored, now, says, unfetched, heard>>

\* Backfill stores what it fetched without asking authorizeGroupWrite, and
\* broadcasts nothing.
Import(m) ==
    /\ m \in unfetched
    /\ unfetched' = unfetched \ {m}
    /\ stored' = stored \union {m}
    /\ UNCHANGED <<conn, member, chat, sampledAt, now, says, heard>>
-----------------------------------------------------------------------------
(* The cron: occupancy first, then one batch of the sweep.                 *)

\* Mutant: what was said since the room emptied goes as well.
CutoffNow(lastOccupiedAt) == IF now - lastOccupiedAt >= Idle THEN now ELSE 0

\* chatSweepCutoff.
Cutoff(lastOccupiedAt) == IF now - lastOccupiedAt >= Idle THEN lastOccupiedAt ELSE 0

\* Any SweepBatch of S, oldest first.
OldestBatch(S) ==
    { T \in SUBSET S :
        /\ Cardinality(T) = Min({SweepBatch, Cardinality(S)})
        /\ \A m \in T, n \in S \ T : m.created_at <= n.created_at }

\* Mutant: swept through, though some of it is left.
SweptAtOnce(targets, cutoff) == cutoff

\* sweepChat: the checkpoint moves when a batch found less than it asked for.
SweptThrough(targets, cutoff) ==
    IF Cardinality(targets) < SweepBatch THEN Max({chat.sweptThrough, cutoff}) ELSE chat.sweptThrough

Cron ==
    /\ sampledAt' = IF MaySample THEN now ELSE sampledAt
    /\ LET cutoff == Cutoff(WatermarkAfter(conn))
           over == { m \in stored : m.created_at <= cutoff }
       IN  \E targets \in OldestBatch(IF cutoff <= chat.sweptThrough THEN {} ELSE over) :
               /\ stored' = stored \ targets
               /\ chat' = [lastOccupiedAt |-> WatermarkAfter(conn),
                           sweptThrough |-> IF cutoff <= chat.sweptThrough
                                            THEN chat.sweptThrough
                                            ELSE SweptThrough(targets, cutoff)]
    /\ UNCHANGED <<conn, member, now, says, unfetched, heard>>

Tick ==
    /\ now < MaxNow
    /\ now' = now + 1
    /\ UNCHANGED <<conn, member, chat, stored, sampledAt, says, unfetched, heard>>
-----------------------------------------------------------------------------
Step ==
    \/ \E c \in Conn :
        \/ \E p \in Pubkey : Authenticate(c, p)
        \/ \E wantsChat \in BOOLEAN : Enter(c, wantsChat)
        \/ CloseSubscription(c)
        \/ Disconnect(c)
    \/ Hibernate
    \/ \E m \in Message : Say(m) \/ Import(m)
    \/ \E p \in Pubkey : Moderate(p)
    \/ Cron
    \/ Tick

\* The room was not empty before the step or is not after it.
Next ==
    /\ Step
    /\ metAt' = IF Occupied(conn) \/ Occupied(conn') THEN now' ELSE metAt

Spec == Init /\ [][Next]_vars

\* The platform fires the cron every hour; nobody has to say anything.
FairSpec == Spec /\ WF_vars(Cron /\ metAt' = IF Occupied(conn) THEN now ELSE metAt)
-----------------------------------------------------------------------------
\* What the sweep takes was said no later than a moment when two people were
\* in the room, and a cron that finds two people there, when it looks, takes
\* nothing (sweepChat, chatSweepCutoff).
SweepsConversationsOnly ==
    [][ \A m \in stored \ stored' :
            /\ m.created_at <= metAt
            /\ ~(Occupied(conn) /\ MaySample) ]_vars

\* A conversation that was swept to the end stays gone, tombstones or not: no
\* row is as old as sweptThrough, unless backfill brought it.
SweptStaysSwept == \A m \in stored \ Imported : m.created_at > chat.sweptThrough

\* A conversation that is over leaves: once the room has been idle long enough
\* a message of it is swept, unless people come back first.
ConversationLeaves ==
    \A m \in Message \ Imported :
        (m \in stored /\ m.created_at <= Cutoff(chat.lastOccupiedAt))
            ~> (m \notin stored \/ now - chat.lastOccupiedAt < Idle)

\* Stated by limits.ts (the failure of being early, the coarseness of the
\* watermark): nothing goes until the room has been empty for Idle.
SweepWaits == [][stored' \subseteq stored /\ stored' # stored => now - metAt >= Idle]_vars

\* Stated by a test (ephemeral-chat.test.ts, "delivers a waiting note into the
\* next conversation"): a member who comes and asks for the chat is shown every
\* message that nobody but its author has heard.
ArrivalHearsNotes ==
    [][ \A c \in Conn : Enter(c, TRUE) =>
            \A m \in stored : m.author = conn[c].who \/ m \in heard' ]_vars
=============================================================================
