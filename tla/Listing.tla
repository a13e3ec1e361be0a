------------------------------ MODULE Listing ------------------------------
(***************************************************************************)
(* A client that lists the table: get_all of mixin.py, with a              *)
(* PaginationQuery page after page, or without one.  A page is two SELECTs *)
(* of base.py's get_many, each of what is committed when it runs.          *)
(***************************************************************************)
EXTENDS Pagination

CONSTANTS
    Queries,
    Limit       \* of get_all without pagination

VARIABLES
    query,
    phase,
    page,       \* the page asked for
    total,      \* total_records of the last answer
    shown       \* the pages answered

listing == <<query, phase, page, total, shown>>

\* Without pagination there is no filter_by.
ASSUME ListingAssumption ==
    /\ Queries \subseteq Query /\ Limit \in Nat \ {0}
    /\ \A q \in Queries : ~q.paged => q.filter = << >>

ListingInit ==
    /\ query \in Queries
    /\ phase = "asked" /\ page = 1 /\ total = 0 /\ shown = << >>

\* The query is validated and converted; what is not accepted is an answer too.
Validate ==
    /\ phase = "asked" /\ query.paged
    /\ phase' = IF Verdict(query) = 200 THEN "accepted" ELSE "refused"
    /\ UNCHANGED <<query, page, total, shown>>

\* The conditions, as filter_fields makes them.
Conditions == {Condition(query.filter[k]) : k \in DOMAIN query.filter}

\* Mutant: the count leaves out the filter.
Count_All ==
    /\ phase = "accepted"
    /\ phase' = IF \A c \in Conditions : Comparable(c) THEN "counted" ELSE "refused"
    /\ total' = Cardinality({i \in Ids : table[i] # NoRow})
    /\ UNCHANGED <<query, page, shown>>

Count ==
    /\ phase = "accepted"
    /\ phase' = IF \A c \in Conditions : Comparable(c) THEN "counted" ELSE "refused"
    /\ total' = IF phase' = "counted" THEN Cardinality(Matching(table, query)) ELSE total
    /\ UNCHANGED <<query, page, shown>>

ReadPage ==
    /\ phase = "counted"
    /\ \E f \in Arrangements(table, query) : shown' = Append(shown, PageOf(f, page, query.size))
    /\ phase' = "answered"
    /\ UNCHANGED <<query, page, total>>

\* The client goes on while total_records says that there is more.
NextPage ==
    /\ phase = "answered"
    /\ IF page * query.size < total THEN page' = page + 1 /\ phase' = "asked"
       ELSE phase' = "done" /\ UNCHANGED page
    /\ UNCHANGED <<query, total, shown>>

\* Without a PaginationQuery: one SELECT, of at most Limit rows.
ReadAll ==
    /\ phase = "asked" /\ ~query.paged
    /\ \E f \in Arrangements(table, query) : shown' = <<PageOf(f, 1, Limit)>>
    /\ phase' = "done"
    /\ UNCHANGED <<query, page, total>>

ListingNext == Validate \/ Count \/ ReadPage \/ NextPage \/ ReadAll

=============================================================================
