------------------------------ MODULE Counters ------------------------------
(***************************************************************************)
(* The books kept beside the rows: the running counts of storage.ts, the   *)
(* partition and group id stamped on an event and copied to its tags, the  *)
(* schema pass of schema.ts that seeds them on an older database, and the  *)
(* two migrations of the cron that file old rows anew.                     *)
(*                                                                         *)
(* An event is [hour, metadata, public, own, h, d]: the hour it was        *)
(* created, whether its kind is group metadata and one anybody may read,   *)
(* whether the relay signed it, the groups its h tags name in order, and   *)
(* the one its d tag names.                                                *)
(***************************************************************************)
EXTENDS Integers, Sequences, FiniteSets, FiniteSetsExt, Functions

CONSTANTS
    Event,      \* every event there may be
    Arriving,   \* those that come in from now on
    Old,        \* what an older version of the relay had stored: [event, ingested]
    Group,      \* group ids
    Top,        \* TOP_LEVEL_GROUP_ID
    Hour,       \* hours since the epoch
    Start,      \* the hour of the upgrade
    Day,        \* a day in hours
    Limit       \* VANISH_BATCH_SIZE, of one pass of a migration

NoGroup == "no group"
NoHour == -1
Unread == {}

ASSUME CountersAssumption ==
    /\ Event \subseteq [hour : Hour, metadata : BOOLEAN, public : BOOLEAN, own : BOOLEAN,
                        h : Seq(Group), d : Group \union {NoGroup}]
    /\ \A e \in Event : e.public => e.metadata
    /\ Arriving \subseteq Event
    /\ \A o \in Old : o.event \in Event /\ o.ingested \in Hour \union {NoHour}
    \* A table, whose key is the id; and the relay had one group to sign for.
    /\ IsFiniteSet(Old)
    /\ \A o, p \in Old : o.event = p.event => o = p
    /\ \A o \in Old : o.event.metadata /\ o.event.own => o.event.d = Top
    /\ Top \in Group /\ NoGroup \notin Group
    /\ Hour \subseteq Nat /\ Start \in Hour /\ Day \in Nat
    /\ Limit \in Nat \ {0}

VARIABLES
    rows,       \* `events`: each row's event, ingested_at, is_group, group_id
    tags,       \* `event_tags`, those named h: [event, value, isGroup, groupId]
    groups,     \* `groups`
    hostedGroups, \* hostsGroup's copy in memory: {what it holds}, or Unread
    schema,     \* `schema_meta`: whether the stored hash is this version's
    maintained, \* `maintained_counts`: none, or {[events, groupEvents]}
    hourCounts, \* `event_hour_counts`: hour -> [n, group_n]
    ingestCounts, \* `ingest_hour_counts`, the same
    scopeFixed, \* `relay_meta`.group_scope_fixed
    multiGroup, \* `relay_meta`.multi_group_migrated
    membersTable, \* whether the older `group_members` is there
    audit,      \* `maintained_counts`.audited_at and last_drift
    now,        \* the hour
    cron,       \* how far runCron has come
    todo,       \* the rows its current pass has selected and not yet done
    changed,    \* whether migrateToMultiGroup has changed anything in this pass
    cut         \* history: whether the storing of an event ever broke off

rowVars == <<rows, tags>>
countVars == <<maintained, hourCounts, ingestCounts>>
groupVars == <<groups, hostedGroups>>
flagVars == <<scopeFixed, multiGroup, membersTable>>
cronVars == <<cron, todo, changed>>
vars == <<rowVars, countVars, groupVars, schema, flagVars, audit, now, cronVars, cut>>

Row == [event : Event, ingested : Hour \union {NoHour}, isGroup : BOOLEAN, groupId : Group \union {NoGroup}]
Tag == [event : Event, value : Group, isGroup : BOOLEAN, groupId : Group \union {NoGroup}]
Bucket == [n : Nat, group_n : Nat]

\* No count is ever negative, but an hour of arrival that one broke off of;
\* and the groups in memory are those of the table.
TypeOK ==
    /\ rows \subseteq Row
    /\ tags \subseteq Tag
    /\ groups \subseteq Group
    /\ hostedGroups \in {Unread, {groups}}
    /\ schema \in {"old", "current"}
    /\ maintained \subseteq [events : Nat, groupEvents : Nat] /\ Cardinality(maintained) <= 1
    /\ \A counts \in {hourCounts, ingestCounts} :
        /\ DOMAIN counts \subseteq Hour
        /\ \A hour \in DOMAIN counts : counts[hour] \in Bucket \/ (cut /\ counts = ingestCounts)
    /\ {scopeFixed, multiGroup, membersTable, changed, cut} \subseteq BOOLEAN
    /\ cron \in {"idle", "fix", "move", "stamp", "audit"}
    /\ todo \subseteq rows /\ Cardinality(todo) <= Limit
    /\ audit \in [at : Hour \union {NoHour}, drift : BOOLEAN]
    /\ now \in Hour
-----------------------------------------------------------------------------
\* groupIdOf.
GroupIdOf(e) == IF e.metadata THEN e.d ELSE IF e.h = <<>> THEN NoGroup ELSE Head(e.h)

\* hostsGroup, read once and kept.
Hosted == IF hostedGroups = Unread THEN groups ELSE UNION hostedGroups

\* isGroupEvent.
IsGroupEvent(e) == ~e.public /\ GroupIdOf(e) \in Hosted

\* isAnyGroupEvent, by which the older version filed.
IsAnyGroupEvent(e) == e.metadata \/ GroupIdOf(e) # NoGroup

TagsOf(row) == { [event |-> row.event, value |-> row.event.h[i], isGroup |-> row.isGroup, groupId |-> row.groupId] :
                 i \in DOMAIN row.event.h }

OldRows == { [event |-> o.event, ingested |-> o.ingested, isGroup |-> IsAnyGroupEvent(o.event), groupId |-> NoGroup] :
             o \in Old }

\* A new database, or one of the older version.
Init ==
    /\ rows \in {{}, OldRows}
    /\ tags = UNION { TagsOf(row) : row \in rows }
    /\ groups = {} /\ hostedGroups = Unread
    /\ schema = "old"
    /\ maintained = {} /\ hourCounts = << >> /\ ingestCounts = << >>
    /\ scopeFixed = FALSE /\ multiGroup = FALSE
    /\ membersTable = (rows # {})
    /\ audit = [at |-> NoHour, drift |-> FALSE]
    /\ now = Start
    /\ cron = "idle" /\ todo = {} /\ changed = FALSE
    /\ cut = FALSE
-----------------------------------------------------------------------------
(* The counts.                                                             *)

Tally(some) == [n |-> Cardinality(some), group_n |-> Cardinality({ row \in some : row.isGroup })]

\* What the hours of creation and of arrival hold, by the rows.
ByHour(some) == [ hour \in { row.event.hour : row \in some } |-> Tally({ row \in some : row.event.hour = hour }) ]
ByIngest(some) ==
    LET dated == { row \in some : row.ingested # NoHour }
    IN  [ hour \in { row.ingested : row \in dated } |-> Tally({ row \in dated : row.ingested = hour }) ]

\* INSERT ... ON CONFLICT DO UPDATE: the bucket is made if it is missing.
Upsert(counts, hour, n, group_n) ==
    [ k \in DOMAIN counts \union {hour} |->
        IF k # hour THEN counts[k]
        ELSE IF hour \in DOMAIN counts THEN [n |-> counts[k].n + n, group_n |-> counts[k].group_n + group_n]
        ELSE [n |-> n, group_n |-> group_n] ]

\* UPDATE ... WHERE hour: a missing bucket stays missing.
Lower(counts, hour, n, group_n) == IF hour \in DOMAIN counts THEN Upsert(counts, hour, -n, -group_n) ELSE counts

Half(isGroup) == IF isGroup THEN 1 ELSE 0

Bump(n, group_n) == maintained' = { [events |-> c.events + n, groupEvents |-> c.groupEvents + group_n] : c \in maintained }

\* bumpEventCounters.
BumpEventCounters(e, delta, isGroup) ==
    /\ Bump(delta, delta * Half(isGroup))
    /\ hourCounts' = IF delta = 1 THEN Upsert(hourCounts, e.hour, 1, Half(isGroup))
                     ELSE Lower(hourCounts, e.hour, 1, Half(isGroup))

\* bumpIngestCounters, of one event.
BumpIngestCounters(isGroup) == ingestCounts' = Upsert(ingestCounts, now, 1, Half(isGroup))

\* The hour an event came in gives it back; one that was never counted does not.
LowerIngest(row, n, group_n) ==
    ingestCounts' = IF row.ingested = NoHour THEN ingestCounts ELSE Lower(ingestCounts, row.ingested, n, group_n)
-----------------------------------------------------------------------------
(* The two writers of `events`.                                            *)

RowFor(e) == [event |-> e, ingested |-> now, isGroup |-> IsGroupEvent(e),
              groupId |-> IF IsGroupEvent(e) THEN GroupIdOf(e) ELSE NoGroup]

\* storeEvent's refusals, as far as they matter here: what is stored already,
\* and metadata the relay did not sign.
Storable(e) == (\A row \in rows : row.event # e) /\ (e.metadata => e.own)

\* Between handlers, with the schema pass behind it.
Serving == schema = "current" /\ cron = "idle"

\* insertEventRow.
InsertEventRow(e) ==
    /\ Serving
    /\ Storable(e)
    /\ rows' = rows \union {RowFor(e)}
    /\ tags' = tags \union TagsOf(RowFor(e))
    /\ BumpEventCounters(e, 1, IsGroupEvent(e))
    /\ BumpIngestCounters(IsGroupEvent(e))
    /\ hostedGroups' = {Hosted}
    /\ UNCHANGED <<groups, schema, flagVars, audit, now, cronVars, cut>>

\* insertEventRow when the insert of a tag throws: the row and its counters
\* are there, the tags so far are, the hour of arrival has not been counted.
\* Bound: it happens once.
InsertBreaksOff(e) ==
    /\ Serving
    /\ ~cut
    /\ Storable(e)
    /\ TagsOf(RowFor(e)) # {}
    /\ \E some \in SUBSET TagsOf(RowFor(e)) : some # TagsOf(RowFor(e)) /\ tags' = tags \union some
    /\ rows' = rows \union {RowFor(e)}
    /\ BumpEventCounters(e, 1, IsGroupEvent(e))
    /\ cut' = TRUE
    /\ hostedGroups' = {Hosted}
    /\ UNCHANGED <<ingestCounts, groups, schema, flagVars, audit, now, cronVars>>

\* What deleteEventRow takes away, and what it counts by.
Remove(row) ==
    /\ rows' = rows \ {row}
    /\ tags' = { t \in tags : t.event # row.event }
    /\ BumpEventCounters(row.event, -1, row.isGroup)
    /\ LowerIngest(row, 1, Half(row.isGroup))

\* deleteEventRow, for whichever of its callers.
DeleteEventRow(row) ==
    /\ Serving
    /\ Remove(row)
    /\ UNCHANGED <<groupVars, schema, flagVars, audit, now, cronVars, cut>>

\* Mutant: the copy in memory is not dropped.
KeepHosted(hosted) == hosted

\* invalidateHostedGroups.
InvalidateHostedGroups(hosted) == Unread

\* createGroup.
CreateGroup(g) ==
    /\ Serving
    /\ g \notin groups
    /\ groups' = groups \union {g}
    /\ hostedGroups' = InvalidateHostedGroups(hostedGroups)
    /\ UNCHANGED <<rowVars, countVars, schema, flagVars, audit, now, cronVars, cut>>
-----------------------------------------------------------------------------
(* The cron: two migrations and the audit.  It is synchronous, and may die *)
(* between two rows, each of which is changed in a transaction.            *)

\* Mutant: only the row itself changes partition.
RowOnly(t, row) == t

\* UPDATE event_tags, beside the same UPDATE of the row.
TagFollows(t, row) == IF t.event = row.event THEN [t EXCEPT !.isGroup = row.isGroup, !.groupId = row.groupId] ELSE t

Replace(row, new) ==
    /\ rows' = (rows \ {row}) \union {new}
    /\ tags' = { TagFollows(t, new) : t \in tags }

\* A row of the group partition becomes one of the public one.
Publish(row) ==
    /\ Replace(row, [row EXCEPT !.isGroup = FALSE])
    /\ Bump(0, -1)
    /\ hourCounts' = Lower(hourCounts, row.event.hour, 0, 1)
    /\ LowerIngest(row, 0, 1)

\* SELECT ... LIMIT: some of them, in no order one may count on.
Selections(some) == kSubset(IF Cardinality(some) < Limit THEN Cardinality(some) ELSE Limit, some)

\* The candidates of fixMisclassifiedGroupEvents: a tag that names another
\* group than the top-level one, or metadata of another signer.
Candidates ==
    { row \in rows : row.isGroup /\ \/ \E t \in tags : t.event = row.event /\ t.isGroup /\ t.value # Top
                                    \/ row.event.metadata /\ ~row.event.own }

Cron ==
    /\ Serving
    /\ cron' = "fix"
    /\ scopeFixed' = (scopeFixed \/ Candidates = {})
    /\ todo' \in IF scopeFixed THEN {{}} ELSE Selections(Candidates)
    /\ UNCHANGED <<rowVars, countVars, groupVars, schema, multiGroup, membersTable, audit, now, changed, cut>>

\* Metadata of another signer is purged; what is a group's after all is left.
FixMisclassified(row) ==
    /\ cron = "fix" /\ row \in todo
    /\ todo' = todo \ {row}
    /\ IF row.event.metadata
       THEN Remove(row) /\ UNCHANGED hostedGroups
       ELSE /\ hostedGroups' = {Hosted}
            /\ IF IsGroupEvent(row.event) THEN UNCHANGED <<rowVars, countVars>> ELSE Publish(row)
    /\ UNCHANGED <<groups, schema, flagVars, audit, now, cron, changed, cut>>

\* migrateToMultiGroup: the older table of members is taken over, then the
\* documents anybody may read are selected.
Migrate ==
    /\ cron = "fix" /\ todo = {}
    /\ cron' = "move"
    /\ IF multiGroup THEN UNCHANGED <<membersTable, changed, todo>>
       ELSE /\ membersTable' = FALSE
            /\ changed' = membersTable
            /\ todo' \in Selections({ row \in rows : row.isGroup /\ row.event.public })
    /\ UNCHANGED <<rowVars, countVars, groupVars, schema, scopeFixed, multiGroup, audit, now, cut>>

MigrateMisfiled(row) ==
    /\ cron = "move" /\ row \in todo
    /\ todo' = todo \ {row}
    /\ Publish(row)
    /\ changed' = TRUE
    /\ UNCHANGED <<groupVars, schema, flagVars, audit, now, cron, cut>>

MigrateStamps ==
    /\ cron = "move" /\ todo = {}
    /\ cron' = "stamp"
    /\ todo' \in IF multiGroup THEN {{}} ELSE Selections({ row \in rows : row.isGroup /\ row.groupId = NoGroup })
    /\ UNCHANGED <<rowVars, countVars, groupVars, schema, flagVars, audit, now, changed, cut>>

\* A row that names no group is left alone, and does not count as a change.
MigrateUnstamped(row) ==
    /\ cron = "stamp" /\ row \in todo
    /\ todo' = todo \ {row}
    /\ IF GroupIdOf(row.event) = NoGroup THEN UNCHANGED <<rowVars, changed>>
       ELSE Replace(row, [row EXCEPT !.groupId = GroupIdOf(row.event)]) /\ changed' = TRUE
    /\ UNCHANGED <<countVars, groupVars, schema, flagVars, audit, now, cron, cut>>

\* The pass that changed nothing was the last.
MigrateEnds ==
    /\ cron = "stamp" /\ todo = {}
    /\ cron' = "audit"
    /\ IF multiGroup \/ changed THEN UNCHANGED <<multiGroup, hostedGroups>>
       ELSE multiGroup' = TRUE /\ hostedGroups' = InvalidateHostedGroups(hostedGroups)
    /\ changed' = FALSE
    /\ UNCHANGED <<rowVars, countVars, groups, schema, scopeFixed, membersTable, audit, now, todo, cut>>

\* SELECT SUM(n), SUM(group_n), of some of the buckets.
Sums(counts, hours) == [n |-> SumFunction([hour \in hours |-> counts[hour].n]),
                        group_n |-> SumFunction([hour \in hours |-> counts[hour].group_n])]

\* countEvents24h and readIngestCounts: the buckets from a day ago on.
Windowed(counts) == Sums(counts, { hour \in DOMAIN counts : hour >= now - Day })

Totals(tally) == {[events |-> tally.n, groupEvents |-> tally.group_n]}

\* auditMaintainedCounts, at most once a day; it reports and corrects nothing.
Audit ==
    /\ cron = "audit"
    /\ cron' = "idle"
    /\ audit' = IF audit.at # NoHour /\ now - audit.at < Day THEN audit
                ELSE [at |-> now,
                      drift |-> \/ maintained # Totals(Tally(rows))
                                \/ Windowed(hourCounts) # Windowed(ByHour(rows))
                                \/ Windowed(ingestCounts) # Windowed(ByIngest(rows))]
    /\ UNCHANGED <<rowVars, countVars, groupVars, schema, flagVars, now, todo, changed, cut>>

\* A throw or a kill in the middle of it.
CronDies ==
    /\ cron # "idle"
    /\ cron' = "idle" /\ todo' = {} /\ changed' = FALSE
    /\ hostedGroups' \in {hostedGroups, Unread}
    /\ UNCHANGED <<rowVars, countVars, groups, schema, flagVars, audit, now, cut>>
-----------------------------------------------------------------------------
(* The schema pass, on the first wake after a deployment.                  *)

\* seedIngestCounts: only a table that is empty.
SeedIngest(counts) == IF counts = << >> THEN ByIngest(rows) ELSE counts

\* initSchema, which may throw after any of its statements; the hash, last,
\* says that it was completed.
InitSchema(statements) ==
    /\ schema = "old"
    /\ hourCounts' = IF statements >= 1 /\ maintained = {} THEN ByHour(rows) ELSE hourCounts
    /\ maintained' =
        IF statements >= 2 /\ maintained = {}
        THEN Totals(Sums(hourCounts', DOMAIN hourCounts'))
        ELSE maintained
    /\ ingestCounts' = IF statements >= 3 THEN SeedIngest(ingestCounts) ELSE ingestCounts
    /\ groups' = IF statements >= 4 THEN groups \union {Top} ELSE groups
    /\ schema' = IF statements >= 5 THEN "current" ELSE "old"
    /\ UNCHANGED <<rowVars, hostedGroups, flagVars, audit, now, cronVars, cut>>

\* A deployment that changes the declared schema.
Deploy ==
    /\ Serving
    /\ schema' = "old"
    /\ hostedGroups' = Unread
    /\ UNCHANGED <<rowVars, countVars, groups, flagVars, audit, now, cronVars, cut>>

\* Hibernation or an eviction.
Restart ==
    /\ Serving
    /\ hostedGroups # Unread
    /\ hostedGroups' = Unread
    /\ UNCHANGED <<rowVars, countVars, groups, schema, flagVars, audit, now, cronVars, cut>>

Tick ==
    /\ Serving
    /\ now + 1 \in Hour
    /\ now' = now + 1
    /\ UNCHANGED <<rowVars, countVars, groupVars, schema, flagVars, audit, cronVars, cut>>

Next ==
    \/ \E e \in Arriving : InsertEventRow(e) \/ InsertBreaksOff(e)
    \/ \E row \in rows :
        \/ DeleteEventRow(row)
        \/ FixMisclassified(row)
        \/ MigrateMisfiled(row)
        \/ MigrateUnstamped(row)
    \/ \E g \in Group : CreateGroup(g)
    \/ Cron
    \/ Migrate
    \/ MigrateStamps
    \/ MigrateEnds
    \/ Audit
    \/ CronDies
    \/ \E statements \in 0 .. 5 : InitSchema(statements)
    \/ Deploy
    \/ Restart
    \/ Tick

Spec == Init /\ [][Next]_vars
-----------------------------------------------------------------------------
\* Every count is what a scan of the rows would find.  The hours of arrival
\* are the one exception, and only once the storing of an event broke off.
CountsAreTrue ==
    /\ maintained = Totals(Tally(rows))
    /\ \A hour \in Hour :
        LET of(counts) == IF hour \in DOMAIN counts THEN counts[hour] ELSE Tally({})
        IN  of(hourCounts) = of(ByHour(rows)) /\ (cut \/ of(ingestCounts) = of(ByIngest(rows)))

\* A tag is in the partition, and of the group, its event is in.
TagsFollow ==
    \A t \in tags : \E row \in rows : t.event = row.event /\ t.isGroup = row.isGroup /\ t.groupId = row.groupId

\* A migration that calls itself done has left nothing behind.
FiledRight ==
    \A row \in { r \in rows : r.isGroup } :
        /\ scopeFixed => GroupIdOf(row.event) \in groups /\ (row.event.metadata => row.event.own)
        /\ multiGroup => ~row.event.public /\ row.groupId = GroupIdOf(row.event)

\* The books agree with the rows whenever the relay serves, or is in the
\* middle of a pass of the cron that may die there, over an upgrade of an old
\* database, both migrations and any change of the rows meanwhile; and the
\* audit raises no alarm unless the storing of an event broke off.
BooksBalance ==
    schema = "current" => CountsAreTrue /\ TagsFollow /\ FiledRight /\ (audit.drift => cut)
=============================================================================
