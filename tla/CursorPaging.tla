--------------------------- MODULE CursorPaging ---------------------------
(***************************************************************************)
(* Reading a list endpoint page by page while rows come and go.  An        *)
(* endpoint selects limit + 1 rows in some order, returns the first limit, *)
(* and encodes the key columns of the last one as the cursor; the next     *)
(* page asks for the rows whose key is smaller.  Four endpoints keep each  *)
(* page in Redis under its query and answer from there until it expires,   *)
(* so the pages of one walk may be of different moments, some before it.   *)
(* A listing is its ORDER BY columns, its cursor's columns, and whether it *)
(* is cached and a row in it may move.  All listings that are modelled     *)
(* sort descending.                                                        *)
(***************************************************************************)
EXTENDS Integers, Sequences, FiniteSets

CONSTANTS
    Ids,       \* row ids, unique
    Times,     \* values of the timestamp column; a transaction's rows share one
    Others,    \* values of the third column: priority, score, agent, path
    Limit,     \* the page size
    MaxCached  \* bound: pages in the cache at once

VARIABLES
    listing, \* the endpoint being read
    table,   \* its rows
    now,     \* the clock, which new timestamps are taken from
    cached,  \* the pages Redis holds: the cursor they were asked with, rows, next_cursor
    cursor,  \* the row whose key the client holds; << >> before the first page
    seen,    \* the rows returned so far
    again,   \* history: a row was returned a second time
    start,   \* history: rows there since the walk began, or one TTL longer if the listing is
             \* cached, and not deleted or moved since
    walk     \* "before": within the last TTL before the first request; "open"; "over"

vars == <<listing, table, now, cached, cursor, seen, again, start, walk>>

Row == [id : Ids, ts : Times, other : Others]

------------------------------------------------------------------------------
(* The endpoints.                                                          *)

\* paginate_keyset: ORDER BY ts_col DESC, tie_col DESC and a cursor of the same columns.
Keyset == [sort |-> <<"ts", "id">>, key |-> <<"ts", "id">>, moves |-> FALSE, cache |-> FALSE]

\* The same by hand, behind a cache of 60 and 30 seconds.
ListJobs == [Keyset EXCEPT !.cache = TRUE]
ListServers == [Keyset EXCEPT !.cache = TRUE]
ListAlerts == Keyset
ListIncidents == Keyset
ListEvents == Keyset
ListDriftEvents == Keyset
ListExceptions == Keyset
ListAssessments == Keyset
ListRules == Keyset
ListPolicySets == Keyset
ListReports == Keyset
ListBaselines == Keyset
ListRemediationPlans == Keyset
\* list_signals sorts by last_seen, which a recurring signal moves forward.
ListSignals == [Keyset EXCEPT !.moves = TRUE]

\* Sorted by priority first, with a cursor that does not know the priority.
ListWorkflows == [Keyset EXCEPT !.sort = <<"other", "ts">>]
ListPolicies == [Keyset EXCEPT !.sort = <<"other", "ts">>]
\* Sorted by score, with a cursor of the id alone; cached for an hour.
ListVulnerabilities == [Keyset EXCEPT !.sort = <<"other", "id">>, !.key = <<"id">>, !.cache = TRUE]
\* Sorted by time of discovery, with a cursor of the id alone; cached for an hour.
ListServerVulnerabilities == [Keyset EXCEPT !.key = <<"id">>, !.cache = TRUE]
\* Sorted by time alone, with a cursor that breaks ties.
ListWorkflowRuns == [Keyset EXCEPT !.sort = <<"ts">>]
\* Sorted by time and agent (time and path), which several rows may share.
ListFindings == [Keyset EXCEPT !.sort = <<"ts", "other">>, !.key = <<"ts", "other">>]
ListFileChanges == [Keyset EXCEPT !.sort = <<"ts">>, !.key = <<"ts", "other">>]

\* The listings whose cursor knows all of their order, and the others.
Exact == {ListJobs, ListAlerts, ListServers, ListIncidents, ListEvents,
          ListDriftEvents, ListExceptions, ListAssessments, ListRules, ListPolicySets,
          ListReports, ListBaselines, ListRemediationPlans, ListSignals}
Loose == {ListWorkflows, ListPolicies, ListVulnerabilities, ListServerVulnerabilities,
          ListWorkflowRuns, ListFindings, ListFileChanges}

------------------------------------------------------------------------------
\* Lexicographic order on the given columns: a comes after b in the list.
After(cols, a, b) ==
    \E i \in 1..Len(cols) : /\ a[cols[i]] < b[cols[i]]
                            /\ \A j \in 1..(i - 1) : a[cols[j]] = b[cols[j]]

\* The keyset predicate: the rows of T that follow cursor c.
Remaining(T, c) == IF c = << >> THEN T ELSE {r \in T : After(listing.key, r, c[1])}

\* The first n rows of R, with nothing in front of them left out.  Rows equal in all ORDER BY
\* columns come in any order.
FirstRows(R, n) ==
    {P \in SUBSET R : Cardinality(P) = n /\ \A r \in P, q \in R \ P : ~After(listing.sort, r, q)}

\* Mutant: the cursor is taken from the extra row that only shows there is more.
Pages_Skips(c) ==
    LET R == Remaining(table, c) IN
    IF Cardinality(R) > Limit
    THEN UNION {{[at |-> c, rows |-> P, next |-> <<last>>] :
                    last \in {q \in R \ P : \A r \in R \ P : ~After(listing.sort, q, r)}} : P \in FirstRows(R, Limit)}
    ELSE {[at |-> c, rows |-> R, next |-> << >>]}

\* The pages the database may return for cursor c: all that remains, or limit rows of it and
\* the last of them as the next cursor.
Pages(c) ==
    LET R == Remaining(table, c) IN
    IF Cardinality(R) > Limit
    THEN UNION {{[at |-> c, rows |-> P, next |-> <<last>>] :
                    last \in {q \in P : \A r \in P : ~After(listing.sort, r, q)}} : P \in FirstRows(R, Limit)}
    ELSE {[at |-> c, rows |-> R, next |-> << >>]}

\* get_cached, then the database.
Answers(c) == IF \E e \in cached : e.at = c THEN {e \in cached : e.at = c} ELSE Pages(c)

Init ==
    /\ listing \in Exact \cup Loose
    /\ now \in Times
    /\ table \in {T \in SUBSET Row : \A a, b \in T : a.ts <= now /\ (a.id = b.id => a = b)}
    /\ cached = {}
    /\ cursor = << >>
    /\ seen = {} /\ again = FALSE
    /\ start = table
    /\ walk = IF listing.cache THEN "before" ELSE "open"

\* set_cached, which does nothing when Redis fails.
Store(e) ==
    \/ UNCHANGED cached
    \/ listing.cache /\ Cardinality(cached \cup {e}) <= MaxCached /\ cached' = cached \cup {e}

\* One request of the walk.
FetchPage ==
    /\ walk = "open"
    /\ \E e \in Answers(cursor) :
          /\ Store(e)
          /\ again' = (again \/ \E r \in e.rows, q \in seen : r.id = q.id)
          /\ seen' = seen \cup e.rows
          /\ cursor' = e.next
          /\ walk' = IF e.next = << >> THEN "over" ELSE "open"
    /\ UNCHANGED <<listing, table, now, start>>

\* The first request is about to be sent: what was cached a TTL ago has expired.
BeginWalk ==
    /\ walk = "before" /\ walk' = "open"
    /\ UNCHANGED <<listing, table, now, cached, cursor, seen, again, start>>

\* Another client makes the same query, with any cursor.
ReadElsewhere(c) ==
    /\ walk # "over" /\ listing.cache
    /\ \E e \in Pages(c) : (\A f \in cached : f.at # c) /\ Store(e) /\ cached' # cached
    /\ UNCHANGED <<listing, table, now, cursor, seen, again, start, walk>>

\* A page expires, is evicted, or is deleted by a write (job:list:*, server:list:*).
ForgetPage ==
    /\ walk # "over"
    /\ \E e \in cached : cached' = cached \ {e}
    /\ UNCHANGED <<listing, table, now, cursor, seen, again, start, walk>>

Known == table \cup start \cup seen \cup UNION {e.rows : e \in cached}

\* A new row has a new id and the time of its insertion.
InsertRow ==
    /\ walk # "over"
    /\ \E r \in Row : /\ \A q \in Known : q.id # r.id
                      /\ r.ts >= now /\ now' = r.ts
                      /\ table' = table \cup {r}
    /\ UNCHANGED <<listing, cached, cursor, seen, again, start, walk>>

DeleteRow ==
    /\ walk # "over"
    /\ \E r \in table : table' = table \ {r} /\ start' = start \ {r}
    /\ UNCHANGED <<listing, now, cached, cursor, seen, again, walk>>

\* The column a list is sorted by moves forward: a signal that recurs has a new last_seen.
TouchRow ==
    /\ walk # "over" /\ listing.moves
    /\ \E r \in table, t \in Times :
          /\ t > r.ts /\ t >= now /\ now' = t
          /\ table' = (table \ {r}) \cup {[r EXCEPT !.ts = t]}
          /\ start' = start \ {r}
    /\ UNCHANGED <<listing, cached, cursor, seen, again, walk>>

Next == \/ BeginWalk \/ FetchPage \/ ForgetPage \/ InsertRow \/ DeleteRow \/ TouchRow
        \/ ReadElsewhere(<< >>) \/ \E r \in Known : ReadElsewhere(<<r>>)

Spec == Init /\ [][Next]_vars

------------------------------------------------------------------------------
\* Where the cursor has the columns the list is sorted by, reading page after page returns
\* every row that was there all the time, however ties fall and whatever is inserted, deleted
\* or moved meanwhile, and no row twice.  For a cached listing "all the time" begins one TTL
\* before the walk (paginate_keyset, list_jobs, list_servers).
NothingLost ==
    listing \in Exact => ~again /\ (walk = "over" => start \subseteq seen)

============================================================================
