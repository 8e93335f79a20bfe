-------------------------------- MODULE Push --------------------------------
(***************************************************************************)
(* Web push notifications (relay.ts, with storage.ts's push tables): what  *)
(* an event queues, and the one alarm of the Durable Object, which drains  *)
(* the queue a batch at a time and closes live feed sockets that have been *)
(* open too long.                                                          *)
(*                                                                         *)
(* drainPushOutbox plans a batch, awaits the push services, and books what *)
(* they answered: while it waits the object serves everybody else.  Times  *)
(* are countdowns: how long until the alarm fires or a socket is too old.  *)
(* Push is configured throughout, and who is a member is Groups' business. *)
(***************************************************************************)
EXTENDS Integers, Sequences, FiniteSets, FiniteSetsExt

CONSTANTS
    Pubkey,         \* who posts, arrives in a call or has a device
    Member,         \* the members of the top-level group, and the owner
    Devices,        \* how many endpoints there may be
    Subscriber,     \* the <<pubkey, endpoint>> that may be subscribed
    Trigger,        \* the <<reason, pubkey>> that may be queued
    Slot,           \* live feed sockets: MAX_LIVE_FEED_CONNECTIONS of them
    MaxPerPubkey,   \* MAX_PUSH_SUBSCRIPTIONS_PER_PUBKEY
    MaxPerTick,     \* MAX_PUSHES_PER_TICK
    MaxPerNotification, \* MAX_PUSH_ENDPOINTS_PER_NOTIFICATION
    Delay,          \* PUSH_ALARM_DELAY_MS
    Lifetime,       \* LIVE_FEED_MAX_LIFETIME_MS
    MaxRestarts     \* bound: how often the object is killed

Reason == {"message", "voice"}
Endpoint == 1 .. Devices    \* numbered as ORDER BY sorts them
Nobody == "nobody"                          \* no row for this endpoint
Never == -1                                 \* no alarm, no socket
NoCursor == 0

ASSUME PushAssumption ==
    /\ Devices \in Nat
    /\ Subscriber \subseteq Pubkey \X Endpoint
    /\ Member \subseteq Pubkey
    /\ Nobody \notin Pubkey
    /\ Trigger \subseteq Reason \X Pubkey
    /\ {MaxPerPubkey, MaxPerTick, MaxPerNotification, Delay, Lifetime} \subseteq Nat \ {0}
    /\ Delay < Lifetime
    /\ MaxRestarts \in Nat

VARIABLES
    subs,       \* `push_subscriptions`: endpoint -> whose it is
    outbox,     \* `push_outbox`, ORDER BY queued_at
    alarm,      \* until the object's alarm fires
    live,       \* until each live feed socket is too old
    online,     \* whose authenticated sockets are open
    sending,    \* what drainPushOutbox awaits the answers to
    restarts,   \* how often the object was killed
    lost,       \* history: killed between queuing a row and setting the alarm
    owed,       \* history: the devices a queued notification has yet to reach
    pushed,     \* history: the devices it has been sent to
    tries,      \* history: how often it was sent to each device
    cuts        \* history: and how often the object was killed before the
                \* answer was booked

vars == <<subs, outbox, alarm, live, online, sending, restarts, lost, owed, pushed, tries, cuts>>

Row == [reason : Reason, actors : SUBSET Pubkey, cursor : Nat, sent : Nat]
Batch == [reason : Reason, page : SUBSET Endpoint, targets : SUBSET Endpoint,
          exhausted : BOOLEAN, sent : Nat]
Sending == [batches : Seq(Batch), deferred : BOOLEAN]
Idle == [batches |-> << >>, deferred |-> FALSE]
Countdown == {Never} \union Nat
Count == [Reason -> [Endpoint -> Nat]]
NoneYet == [e \in Endpoint |-> 0]

TypeOK ==
    /\ subs \in [Endpoint -> Pubkey \union {Nobody}]
    /\ outbox \in Seq(Row)
    /\ alarm \in Countdown
    /\ live \in [Slot -> Countdown]
    /\ online \subseteq Pubkey
    /\ sending \in Sending
    /\ restarts \in 0 .. MaxRestarts
    /\ lost \in BOOLEAN
    /\ owed \in [Reason -> SUBSET Endpoint]
    /\ pushed \in [Reason -> SUBSET Endpoint]
    /\ tries \in Count /\ cuts \in Count
    \* a reason has one row, and one batch
    /\ \A i, j \in DOMAIN outbox : outbox[i].reason = outbox[j].reason => i = j
    /\ LET batches == sending.batches
       IN  \A i, j \in DOMAIN batches : batches[i].reason = batches[j].reason => i = j

Init ==
    /\ subs = [e \in Endpoint |-> Nobody]
    /\ outbox = << >>
    /\ alarm = Never
    /\ live = [s \in Slot |-> Never]
    /\ online = {}
    /\ sending = Idle
    /\ restarts = 0
    /\ lost = FALSE
    /\ owed = [r \in Reason |-> {}]
    /\ pushed = [r \in Reason |-> {}]
    /\ tries = [r \in Reason |-> NoneYet]
    /\ cuts = [r \in Reason |-> NoneYet]

Subscribed == { e \in Endpoint : subs[e] # Nobody }
Queued == { outbox[i].reason : i \in DOMAIN outbox }

-----------------------------------------------------------------------------
(* Queuing: notePush, queuePush and settlePushAlarm.                       *)

\* Mutant: a second row beside the first.
QueueBeside(reason, actor) ==
    /\ outbox' = Append(outbox, [reason |-> reason, actors |-> {actor},
                                 cursor |-> NoCursor, sent |-> 0])
    /\ owed' = [owed EXCEPT ![reason] = Subscribed]
    /\ pushed' = [pushed EXCEPT ![reason] = {}]

\* queuePush folds into the row of the same reason; cursor and sent stay.
QueuePush(reason, actor) ==
    IF reason \in Queued
    THEN /\ outbox' = [i \in DOMAIN outbox |->
                         IF outbox[i].reason = reason
                         THEN [outbox[i] EXCEPT !.actors = @ \union {actor}]
                         ELSE outbox[i]]
         /\ UNCHANGED <<owed, pushed>>
    ELSE /\ outbox' = Append(outbox, [reason |-> reason, actors |-> {actor},
                                      cursor |-> NoCursor, sent |-> 0])
         /\ owed' = [owed EXCEPT ![reason] = Subscribed]
         /\ pushed' = [pushed EXCEPT ![reason] = {}]

\* Mutant: an alarm that is set already is moved.
SoonerOverwrites(desired) == desired

\* settlePushAlarm, scheduleLiveFeedAlarm: only if sooner.
Sooner(desired) == IF alarm = Never \/ alarm > desired THEN desired ELSE alarm

\* What is counted of a notification starts anew with its row.
Anew(count, reason) ==
    IF reason \in Queued THEN count ELSE [count EXCEPT ![reason] = NoneYet]

NotePush(reason, actor) ==
    /\ QueuePush(reason, actor)
    /\ tries' = Anew(tries, reason)
    /\ cuts' = Anew(cuts, reason)
    /\ alarm' = Sooner(Delay)
    /\ lost' = FALSE
    /\ UNCHANGED <<subs, live, online, sending, restarts>>

\* The devices a plan pushes to, each with the reason.
Sends(plan) ==
    UNION { plan.batches[k].targets \X {plan.batches[k].reason} : k \in DOMAIN plan.batches }

Counted(count, plan) ==
    LET sends == Sends(plan)
    IN  [r \in Reason |-> [e \in Endpoint |->
            IF <<e, r>> \in sends THEN count[r][e] + 1 ELSE count[r][e]]]

\* The object is killed: its sockets go, and an alarm that was running is run
\* again.
Killed ==
    /\ restarts < MaxRestarts
    /\ restarts' = restarts + 1
    /\ alarm' = IF sending # Idle THEN 0 ELSE alarm
    /\ sending' = Idle
    /\ live' = [s \in Slot |-> Never]
    /\ online' = {}
    /\ UNCHANGED subs

Restart ==
    /\ Killed
    /\ cuts' = Counted(cuts, sending)
    /\ UNCHANGED <<outbox, owed, pushed, tries, lost>>

\* Killed while settlePushAlarm awaits getAlarm: the row is there, the flag
\* pushAlarmWanted is gone.
NotePushThenKilled(reason, actor) ==
    /\ Killed
    /\ QueuePush(reason, actor)
    /\ tries' = Anew(tries, reason)
    /\ cuts' = Counted(Anew(cuts, reason), sending)
    /\ lost' = TRUE

-----------------------------------------------------------------------------
(* The alarm: alarmInner, and drainPushOutbox up to its await.             *)

\* Mutant: the page starts at the cursor, not after it.
PageFrom(row, budget) ==
    { e \in Subscribed : /\ e >= row.cursor
                         /\ Cardinality({ f \in Subscribed : f >= row.cursor /\ f < e }) < budget }

\* pushSubscriptionsAfter: the first endpoints after the cursor.
Page(row, budget) ==
    { e \in Subscribed : /\ e > row.cursor
                         /\ Cardinality({ f \in Subscribed : f > row.cursor /\ f < e }) < budget }

Targets(row, budget) ==
    { e \in Page(row, budget) : subs[e] \in Member \ (row.actors \union online) }

\* Mutant: every row gets the whole allowance.
BudgetOfEach == [i \in 1 .. Len(outbox) + 1 |-> MaxPerTick]

\* What is left of the allowance when row i is planned.
Budget ==
    LET left[i \in 1 .. Len(outbox) + 1] ==
          IF i = 1 THEN MaxPerTick
                   ELSE left[i - 1] - Cardinality(Targets(outbox[i - 1], left[i - 1]))
    IN  left

\* Mutant: a full page ends the table too.
ShortOrFull(page, budget) == Cardinality(page) <= budget

Short(page, budget) == Cardinality(page) < budget

\* Planning stops at the first row there is nothing left for.
Planned == { i \in DOMAIN outbox : \A j \in 1 .. i : Budget[j] > 0 }

BatchOf(i) ==
    LET page == Page(outbox[i], Budget[i])
    IN  [reason |-> outbox[i].reason,
         page |-> page,
         targets |-> Targets(outbox[i], Budget[i]),
         exhausted |-> Short(page, Budget[i]),
         sent |-> outbox[i].sent]

Plan == [batches |-> [i \in 1 .. Cardinality(Planned) |-> BatchOf(i)],
         deferred |-> Planned # DOMAIN outbox]

\* Mutant: the alarm is set again for the live feeds only.
SweepForFeeds(more, before) ==
    LET open == { s \in Slot : live[s] > 0 }
    IN  /\ live' = [s \in Slot |-> IF s \in open THEN live[s] ELSE Never]
        /\ alarm' = IF open # {} THEN Min({ live[s] : s \in open }) ELSE before

\* The rest of alarmInner: close what is too old, set the alarm for what comes
\* next, and leave it as it was if nothing does.
Sweep(more, before) ==
    LET open == { s \in Slot : live[s] > 0 }
        next == { live[s] : s \in open } \union (IF more THEN {Delay} ELSE {})
    IN  /\ live' = [s \in Slot |-> IF s \in open THEN live[s] ELSE Never]
        /\ alarm' = IF next # {} THEN Min(next) ELSE before

\* Mutants: the cursor stays where it was; nothing is too wide.
NotAdvanced(row, batch, sent) == [row EXCEPT !.sent = sent]
OverWhenExhausted(batch, sent) == batch.exhausted \/ batch.page = {}

\* advancePush.
Advanced(row, batch, sent) == [row EXCEPT !.cursor = Max(batch.page), !.sent = sent]

\* clearPush: the end of the table, or the ceiling, which drops the rest.
Over(batch, sent) ==
    batch.exhausted \/ batch.page = {} \/ sent >= MaxPerNotification

\* What the push services answered is a function of device and reason.
Reached(batch, outcome) == { e \in batch.targets : outcome[<<e, batch.reason>>] = "sent" }
Gone(outcome) == { d[1] : d \in { t \in DOMAIN outcome : outcome[t] = "gone" } }
Total(batch, outcome) == batch.sent + Cardinality(Reached(batch, outcome))

BatchesOf(plan, reason) ==
    { plan.batches[k] : k \in { n \in DOMAIN plan.batches : plan.batches[n].reason = reason } }

\* A row stays unless its batch was the last; one that was not planned stays.
Kept(plan, outcome) ==
    { i \in DOMAIN outbox :
        \A b \in BatchesOf(plan, outbox[i].reason) : ~Over(b, Total(b, outcome)) }

Booked(row, plan, outcome) ==
    IF BatchesOf(plan, row.reason) = {} THEN row
    ELSE LET b == CHOOSE b \in BatchesOf(plan, row.reason) : TRUE
         IN  Advanced(row, b, Total(b, outcome))

More(plan, outcome) ==
    \/ plan.deferred
    \/ \E k \in DOMAIN plan.batches : ~Over(plan.batches[k], Total(plan.batches[k], outcome))

\* The ways to list the rows of a set of them in the order they have.
InOrder(rows) ==
    { f \in [1 .. Cardinality(rows) -> rows] : \A i, j \in DOMAIN f : i < j => f[i] < f[j] }

\* drainPushOutbox after its await, and the rest of the alarm; `before` is the
\* alarm set while it waited.
Book(plan, outcome, before) ==
    LET of(r) == BatchesOf(plan, r)
    IN  /\ subs' = [e \in Endpoint |-> IF e \in Gone(outcome) THEN Nobody ELSE subs[e]]
        /\ \E f \in InOrder(Kept(plan, outcome)) :
             outbox' = [k \in DOMAIN f |-> Booked(outbox[f[k]], plan, outcome)]
        /\ owed' = [r \in Reason |-> owed[r] \ (Gone(outcome) \union UNION { b.page : b \in of(r) })]
        /\ pushed' = [r \in Reason |->
                         pushed[r] \union UNION { Reached(b, outcome) : b \in of(r) }]
        /\ Sweep(More(plan, outcome), before)

\* Nothing is counted of a notification that left the queue.
StillQueued(count) == [r \in Reason |-> IF r \in Queued' THEN count[r] ELSE NoneYet]

\* While alarm() runs there is no alarm: getAlarm answers null.
AlarmFindsNothing ==
    /\ alarm = 0
    /\ sending = Idle
    /\ outbox = << >>
    /\ Sweep(FALSE, Never)
    /\ UNCHANGED <<subs, outbox, online, sending, restarts, lost, owed, pushed, tries, cuts>>

\* Nobody to push to: nothing is awaited.
AlarmReachesNobody ==
    /\ alarm = 0
    /\ sending = Idle
    /\ outbox # << >>
    /\ Sends(Plan) = {}
    /\ Book(Plan, << >>, Never)
    /\ tries' = StillQueued(tries)
    /\ cuts' = StillQueued(cuts)
    /\ UNCHANGED <<online, sending, restarts, lost>>

AlarmSends ==
    /\ alarm = 0
    /\ sending = Idle
    /\ Sends(Plan) # {}
    /\ alarm' = Never
    /\ sending' = Plan
    /\ tries' = Counted(tries, Plan)
    /\ UNCHANGED <<subs, outbox, live, online, restarts, lost, owed, pushed, cuts>>

PushesAnswered ==
    /\ sending # Idle
    /\ \E outcome \in [Sends(sending) -> {"sent", "gone", "failed"}] :
         Book(sending, outcome, alarm)
    /\ sending' = Idle
    /\ tries' = StillQueued(tries)
    /\ cuts' = StillQueued(cuts)
    /\ UNCHANGED <<online, restarts, lost>>

-----------------------------------------------------------------------------
(* Devices, sockets and time.                                              *)

\* subscribepush: upsertPushSubscription.  An endpoint can change hands; past
\* the cap the pubkey's oldest go.  Which they are is left open: an endpoint
\* that changed hands keeps its rowid, and among rows of one second goes first.
Subscribe(pubkey, endpoint) ==
    LET mine == { e \in Endpoint : subs[e] = pubkey } \union {endpoint}
    IN  /\ \E keep \in SUBSET mine :
             /\ Cardinality(keep) = Min({MaxPerPubkey, Cardinality(mine)})
             /\ subs' = [e \in Endpoint |-> IF e \in keep THEN pubkey
                                            ELSE IF e \in mine THEN Nobody
                                            ELSE subs[e]]
        /\ owed' = [r \in Reason |-> { e \in owed[r] : subs'[e] # Nobody }]
        /\ UNCHANGED <<outbox, alarm, live, online, sending, restarts, lost, pushed, tries, cuts>>

\* unsubscribepush: only the caller's own.
Unsubscribe(pubkey, endpoint) ==
    /\ subs[endpoint] = pubkey
    /\ subs' = [subs EXCEPT ![endpoint] = Nobody]
    /\ owed' = [r \in Reason |-> owed[r] \ {endpoint}]
    /\ UNCHANGED <<outbox, alarm, live, online, sending, restarts, lost, pushed, tries, cuts>>

\* Only who may have a device is ever looked for among the sockets.
Owners == { s[1] : s \in Subscriber }

Authenticate(pubkey) ==
    /\ online' = online \union {pubkey}
    /\ UNCHANGED <<subs, outbox, alarm, live, sending, restarts, lost, owed, pushed, tries, cuts>>

Disconnect(pubkey) ==
    /\ online' = online \ {pubkey}
    /\ UNCHANGED <<subs, outbox, alarm, live, sending, restarts, lost, owed, pushed, tries, cuts>>

\* A free slot is MAX_LIVE_FEED_CONNECTIONS not reached.
OpenLiveFeed(slot) ==
    /\ live[slot] = Never
    /\ live' = [live EXCEPT ![slot] = Lifetime]
    /\ alarm' = Sooner(Lifetime)
    /\ UNCHANGED <<subs, outbox, online, sending, restarts, lost, owed, pushed, tries, cuts>>

CloseLiveFeed(slot) ==
    /\ live' = [live EXCEPT ![slot] = Never]
    /\ UNCHANGED <<subs, outbox, alarm, online, sending, restarts, lost, owed, pushed, tries, cuts>>

\* Alarms fire when due or later.
Tick ==
    LET less(t) == IF t > 0 THEN t - 1 ELSE t
    IN  /\ alarm' = less(alarm)
        /\ live' = [s \in Slot |-> less(live[s])]
        /\ UNCHANGED <<subs, outbox, online, sending, restarts, lost, owed, pushed, tries, cuts>>

Alarm == AlarmFindsNothing \/ AlarmReachesNobody \/ AlarmSends

Next ==
    \/ \E t \in Trigger : NotePush(t[1], t[2])
    \/ \E t \in Trigger : NotePushThenKilled(t[1], t[2])
    \/ Restart
    \/ Alarm
    \/ PushesAnswered
    \/ \E s \in Subscriber : Subscribe(s[1], s[2])
    \/ \E s \in Subscriber : Unsubscribe(s[1], s[2])
    \/ \E p \in Owners : Authenticate(p)
    \/ \E p \in Owners : Disconnect(p)
    \/ \E s \in Slot : OpenLiveFeed(s)
    \/ \E s \in Slot : CloseLiveFeed(s)
    \/ Tick

Spec == Init /\ [][Next]_vars

\* Time passes, an alarm that is due fires, and a push service answers or the
\* fetch to it fails.
FairSpec == Spec /\ WF_vars(Tick) /\ WF_vars(Alarm) /\ WF_vars(PushesAnswered)

-----------------------------------------------------------------------------
(* Properties.                                                             *)

\* Nothing waits for an alarm that is not coming: while a notification is
\* queued the alarm is set or running, unless the object was killed between
\* the two writes and nothing has been queued since.
QueueHasAlarm == outbox # << >> /\ sending = Idle => alarm # Never \/ lost

\* A live feed socket is not forgotten: the shared alarm never comes later
\* than the socket's own end.
LiveFeedHasAlarm ==
    \A s \in Slot : live[s] # Never /\ sending = Idle => alarm # Never /\ alarm <= live[s]

\* One invocation stays within its subrequests, however many rows share it.
TickWithinBudget == Cardinality(Sends(sending)) <= MaxPerTick

\* No device is pushed to twice for one notification, over all the batches,
\* devices that come and go and messages that fold into it meanwhile, but for
\* a batch the object was killed in: drainPushOutbox books its cursor after the
\* await, and the alarm is run again.  One kill repeats one push to a device.
PushedOnce ==
    \A r \in Reason, e \in Endpoint : tries[r][e] <= cuts[r][e] + 1

\* A fan-out ends at most one batch past its ceiling, as the queue counts it:
\* what a killed drain sent is in no count.
FanOutBounded ==
    \A r \in Reason : Cardinality(pushed[r]) < MaxPerNotification + MaxPerTick

\* A notification that leaves the queue has come to every device that was
\* subscribed when it was queued and still is, unless it met its ceiling.
NobodyLeftOut ==
    [][ \A r \in Queued \ Queued' :
          owed'[r] = {} \/ Cardinality(pushed'[r]) >= MaxPerNotification ]_vars

\* Every queued notification leaves the queue, however busy the room is.
QueueDrains == \A r \in Reason : (r \in Queued /\ ~lost) ~> r \notin Queued

\* "a notification waiting on the next live feed sweep would arrive up to ten
\* minutes late": a queued one is never that far from its drain.
PushIsSoon == outbox # << >> /\ sending = Idle /\ ~lost => alarm <= Delay
=============================================================================
