------------------------------ MODULE Filters ------------------------------
(***************************************************************************)
(* What a REQ filter asks, costs and finds: filters.ts, groups.ts and      *)
(* limits.ts boundFilter, over the events as sets of records.              *)
(*                                                                         *)
(* A filter is a record of the fields it names; `#p` and `#h` stand for    *)
(* the single-letter tags, as the fields p and h: in a filter the set of   *)
(* values asked for, in an event the sequence of the values its tags name. *)
(* A row's partition follows from its tags, for the hosted groups do not   *)
(* change here.                                                            *)
(***************************************************************************)
EXTENDS Integers, FiniteSets, FiniteSetsExt

CONSTANTS
    Group,              \* the ids of the groups this relay hosts
    MaxFilterLimit,     \* MAX_FILTER_LIMIT
    MaxFilterRowsRead,  \* MAX_FILTER_ROWS_READ
    MaxQueryBoundParams,\* MAX_QUERY_BOUND_PARAMS
    TagScanDepth        \* TAG_SCAN_DEPTH

NoGroup == "none"
NoExpiration == -1

GiftWrap == 1059
CreateInvite == 9009
MetadataKinds == 39000 .. 39005
PublicMetadata == {39000, 39001}

PublicScope == 0
GroupScope == 1

TagFields == {"p", "h"}
SetFields == {"ids", "authors", "kinds"} \union TagFields

RowsReadPerMatch == 2
TagRowsReadPerMatch == 4
MaxFilterCombinations == MaxFilterRowsRead \div (RowsReadPerMatch + 1)

\* The values a filter names in a field, none if it does not name the field.
Named(f, field) == IF field \in DOMAIN f THEN f[field] ELSE {}

Count(f, field) == Cardinality(Named(f, field))

\* tagFilterEntries, those that name a value.
Tags(f) == { t \in TagFields : Named(f, t) # {} }
-----------------------------------------------------------------------------
(* groups.ts.                                                              *)

\* groupIdOf: the d of a metadata event, the first h of any other.
GroupIdOf(e) ==
    IF e.kind \in MetadataKinds THEN e.d
    ELSE IF e.h = <<>> THEN NoGroup ELSE e.h[1]

\* isGroupEvent.
IsGroupEvent(e) == e.kind \notin PublicMetadata /\ GroupIdOf(e) \in Group

ScopeOf(e) == IF IsGroupEvent(e) THEN GroupScope ELSE PublicScope

\* filterNamesGroup, for a reader as in Reader below.
NamesGroup(f, reader) ==
    /\ ~reader.owner
    /\ IF Named(f, "h") # {}
       THEN ~(f.h \subseteq reader.groups)
       ELSE Named(f, "kinds") \intersect (MetadataKinds \ PublicMetadata) # {} /\ reader.groups = {}
-----------------------------------------------------------------------------
(* What a filter costs (limits.ts).                                        *)

Max1(n) == IF n > 1 THEN n ELSE 1

\* expandFilterCount.
ExpandCount(f) == Max1(Count(f, "authors")) * Max1(Count(f, "kinds"))

\* filterReadCost's access paths into events, cheapest first, each at scopes
\* runs of every combination; none if nothing bounds the scan.
Driver(f, scopes) ==
    LET runs == ExpandCount(f) * scopes
    IN  (IF Named(f, "ids") # {} THEN {runs * Count(f, "ids")} ELSE {})
        \union (IF Named(f, "authors") \union Named(f, "kinds") # {}
                THEN {runs * (RowsReadPerMatch * f.limit + 1)} ELSE {})

TagValues(f) == Count(f, "p") + Count(f, "h")

Unbounded(f) == Driver(f, 1) = {} /\ TagValues(f) = 0

\* filterReadCost of a filter with a limit that is not Unbounded.
ReadCost(f, scopes) ==
    LET driver == Driver(f, scopes)
    IN  (IF driver = {} THEN 0 ELSE Min(driver))
        + TagValues(f) * TagRowsReadPerMatch * TagScanDepth * f.limit

\* since and until, where they are named.
Window(f) == Cardinality({"since", "until"} \intersect DOMAIN f)

\* What the tags' subqueries bind: each the partition, the name, the values,
\* the window pushed down into it and the scan's limit.
TagParams(f) == TagValues(f) + Cardinality(Tags(f)) * (3 + Window(f))

\* filterParamCount, of one of the queries a filter expands to.
ParamCount(f) ==
    2 + Count(f, "ids")
    + Cardinality({ field \in {"authors", "kinds"} : Named(f, field) # {} })
    + Window(f) + TagParams(f) + 1

\* What the limit may be halved by.
HalvingSteps == {1, 2, 4, 8, 16, 32, 64, 128, 256}

WithLimit(f, n) == [ field \in DOMAIN f \union {"limit"} |-> IF field = "limit" THEN n ELSE f[field] ]

Requested(f) == IF "limit" \in DOMAIN f THEN Min({f.limit, MaxFilterLimit}) ELSE MaxFilterLimit

\* The limits boundFilter tries, and those within the budget.
Affordable(f, budget, scopes) ==
    { n \in { Requested(f) \div d : d \in HalvingSteps } :
        n >= 1 /\ ReadCost(WithLimit(f, n), scopes) <= budget }

\* Whether boundFilter admits the filter.
Admits(f, budget, scopes) ==
    /\ ExpandCount(f) * scopes <= MaxFilterCombinations
    /\ ParamCount(f) <= MaxQueryBoundParams
    /\ ~Unbounded(WithLimit(f, Requested(f)))
    /\ Affordable(f, budget, scopes) # {}

\* The filter boundFilter returns.
Bounded(f, budget, scopes) == WithLimit(f, Max(Affordable(f, budget, scopes)))
-----------------------------------------------------------------------------
(* What a filter finds.                                                    *)

\* compareEvents: newest first, and of one second the lower id first.
Before(a, b) == a.created_at > b.created_at \/ (a.created_at = b.created_at /\ a.id < b.id)

\* ORDER BY created_at DESC, id ASC LIMIT n.
Newest(S, n) == { e \in S : Cardinality({ x \in S : Before(x, e) }) < n }

TagOf(e, t) == { e[t][i] : i \in DOMAIN e[t] }

InWindow(e, f) ==
    /\ "since" \in DOMAIN f => e.created_at >= f.since
    /\ "until" \in DOMAIN f => e.created_at <= f.until

\* matchesFilter; a field that is named and empty matches nothing.
Matches(e, f) ==
    /\ "ids" \in DOMAIN f => e.id \in f.ids
    /\ "authors" \in DOMAIN f => e.pubkey \in f.authors
    /\ "kinds" \in DOMAIN f => e.kind \in f.kinds
    /\ InWindow(e, f)
    /\ \A t \in TagFields \intersect DOMAIN f : TagOf(e, t) \intersect f[t] # {}

\* One field of a filter split into singletons, and expandFilter.
Split(f, field) ==
    IF field \in DOMAIN f THEN { [f EXCEPT ![field] = {x}] : x \in f[field] } ELSE {f}

Expand(f) == UNION { Split(g, "kinds") : g \in Split(f, "authors") }

\* excludeGiftWraps and excludeInvites: the first only where no kind is named,
\* for a REQ that names 1059 is refused; the second for members only.
Excluded(f, reader) ==
    IF reader.owner THEN {}
    ELSE (IF "kinds" \in DOMAIN f THEN {} ELSE {GiftWrap})
         \union (IF reader.groups = {} THEN {} ELSE {CreateInvite})

Scopes(reader) == IF reader.owner \/ reader.groups # {} THEN {PublicScope, GroupScope} ELSE {PublicScope}

\* scopedTagScanLimit: the depth is shared among the partitions.
ScanLimit(limit, scopes) ==
    Max1((limit * TagScanDepth) \div scopes + (IF (limit * TagScanDepth) % scopes = 0 THEN 0 ELSE 1))

\* The groups the query is restricted to: an owner's names none.
GroupsOf(scope, reader) == IF scope = PublicScope \/ reader.owner THEN Group ELSE reader.groups

\* buildFilterQuery: the statement and its parameters, but for the time.
Query(f, scope, reader) ==
    [filter |-> f, scope |-> scope, restricted |-> scope = GroupScope /\ ~reader.owner,
     groups |-> GroupsOf(scope, reader), excluded |-> Excluded(f, reader),
     scan |-> ScanLimit(f.limit, Cardinality(Scopes(reader)))]

\* The queries that answer one filter; one that names an empty field is none.
Queries(f, reader) ==
    { Query(g, scope, reader) :
        g \in { h \in Expand(f) : \A field \in SetFields \intersect DOMAIN h : h[field] # {} },
        scope \in Scopes(reader) }

\* How many parameters it binds.
BoundParams(q) ==
    LET groups == IF q.restricted THEN Cardinality(q.groups) ELSE 0
    IN  ParamCount(q.filter) + Cardinality(q.excluded) + groups * (1 + Cardinality(Tags(q.filter)))

InPartition(e, q) ==
    /\ ScopeOf(e) = q.scope
    /\ q.restricted => GroupIdOf(e) \in q.groups

Unexpired(e, now) == e.expiration = NoExpiration \/ e.expiration > now

\* The rows of event_tags that carry one of a tag's values: one for every such
\* tag of an event, so an event may have several.
TagRows(q, t, rows) ==
    UNION { {e} \X { i \in DOMAIN e[t] : e[t][i] \in q.filter[t] } :
              e \in { x \in rows : InPartition(x, q) /\ InWindow(x, q.filter) } }

\* The rows of the events before e.
RowsBefore(R, e) == { r \in R : Before(r[1], e) }

\* The events a tag's subquery selects: those of its newest rows, whatever else
\* the filter asks. Of rows of one second the statement takes any; here, those
\* of the lower id.
TagScan(q, t, rows) ==
    LET R == TagRows(q, t, rows)
    IN  { e \in rows : (\E r \in R : r[1] = e) /\ Cardinality(RowsBefore(R, e)) < q.scan }

\* What the query finds among the rows.
Rows(q, rows, now) ==
    Newest({ e \in rows : /\ Unexpired(e, now)
                          /\ InPartition(e, q)
                          /\ Matches(e, q.filter)
                          /\ e.kind \notin q.excluded
                          /\ \A t \in Tags(q.filter) : e \in TagScan(q, t, rows) }, q.filter.limit)
=============================================================================
