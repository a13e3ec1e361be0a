------------------------ MODULE RepositoryProperties ------------------------
(***************************************************************************)
(* Requests that write a table (Repository) and a client that lists it     *)
(* (Listing), and what they promise.                                       *)
(***************************************************************************)
EXTENDS Repository, Listing

CONSTANT Scenarios      \* the tables, programs and queries that meet

VARIABLE steady         \* history: the table has not changed since the listing began

vars == <<repository, listing, steady>>

Init ==
    /\ \E x \in Scenarios : table = x.table /\ program = x.program /\ query = x.query
    /\ RepositoryInit /\ ListingInit
    /\ steady = TRUE

Write == RepositoryNext /\ steady' = (steady /\ table' = table) /\ UNCHANGED listing

List == ListingNext /\ steady' = (steady \/ (page = 1 /\ phase = "asked")) /\ UNCHANGED repository

Next == Write \/ List

Spec == Init /\ [][Next]_vars

RepositoryTypeOK ==
    /\ table \in Table
    /\ pending \in [Sessions -> Writes] /\ before \in [Sessions -> Writes]
    /\ program \in [Sessions -> Seq(Call)]
    /\ pc \in [Sessions -> {"open", "working", "committing", "reading", "raised", "closed"}]
    /\ done \in [Sessions -> Nat] /\ missing \in [Sessions -> BOOLEAN]
    /\ \A s \in Sessions :
         /\ pc[s] \in {"working", "committing", "reading"} => program[s] # << >>
         /\ pc[s] = "working" => done[s] < Statements(Running(s))
         /\ pc[s] = "committing" => done[s] = Statements(Running(s))

ListingTypeOK ==
    /\ query \in Queries /\ page \in Nat \ {0} /\ total \in Nat
    /\ phase \in {"asked", "accepted", "counted", "answered", "refused", "done"}
    /\ shown \in Seq(Seq(Ids))

(***************************************************************************)
(* The type invariant.  A request that is in a call has a statement of it  *)
(* left to make, and one that commits has made them all: create_many stops *)
(* with the last batch that has rows (base.py:207).                        *)
(***************************************************************************)
TypeOK == RepositoryTypeOK /\ ListingTypeOK /\ steady \in BOOLEAN

\* The writes of the calls of s that are complete.
unit ==
    [s \in Sessions |->
       IF pc[s] \in {"working", "committing"} /\ done[s] < Statements(Running(s))
       THEN before[s] ELSE pending[s]]

UOW == INSTANCE UnitOfWork WITH table <- table, unit <- unit

(***************************************************************************)
(* The calls of a session are published together, by a call with commit,   *)
(* or not at all: no batch of create_many and no row of update_many_by_id  *)
(* is seen without the others, and when any call fails nothing of the      *)
(* calls before it, since the last commit, is (base.py:207, 180, 566;      *)
(* session.py:42).                                                         *)
(***************************************************************************)
WorksInUnits == UOW!Spec

\* '<field><op><value>', as the message of factory.py:165 gives the format.
AsWritten(pair) ==
    [field |-> pair[1], op |-> pair[2], text |-> SubSeq(pair, 3, Len(pair))]

\* A filter that the validators let through is read as it is written, also when
\* its value has operators in it: operator.py:30 takes the first operator of its
\* own list, wherever it stands in the pair.
AcceptedReadAsWritten ==
    phase \notin {"asked", "refused"} =>
        \A k \in DOMAIN query.filter : Condition(query.filter[k]) = AsWritten(query.filter[k])

\* The places where the answers show the row i.
Places(i) ==
    {pk \in (DOMAIN shown) \X (1 .. query.size + Limit) :
       pk[2] \in DOMAIN shown[pk[1]] /\ shown[pk[1]][pk[2]] = i}

Total == query.sort # << >> /\ \E k \in DOMAIN query.sort : query.sort[k].name = "key"

\* When the table does not change meanwhile and the sort fields tell all rows
\* apart, the pages show every row that the filter asks for once, and no other;
\* a listing without pages does when there are at most Limit rows (base.py:258, 275).
PagesPartition ==
    phase = "done" /\ steady
      /\ (IF query.paged THEN Total ELSE Cardinality(Matching(table, query)) <= Limit) =>
        \A i \in Ids : Cardinality(Places(i)) = IF i \in Matching(table, query) THEN 1 ELSE 0

\* When the table does not change meanwhile, whatever the sort: the pages have as
\* many rows as total_records says, and no page is empty unless all is (base.py:248, 258).
CountMatchesPages ==
    phase = "done" /\ steady /\ query.paged =>
        /\ Cardinality(UNION {Places(i) : i \in Ids}) = total
        /\ \A p \in DOMAIN shown : shown[p] = << >> => total = 0

=============================================================================
