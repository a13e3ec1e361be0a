---------------------------- MODULE MCRepository ----------------------------
(***************************************************************************)
(* Two requests and a client, over a table of up to three rows.            *)
(***************************************************************************)
EXTENDS RepositoryProperties

CONSTANTS s1, s2

MCSessions == {s1, s2}

R(k, v) == [key |-> k, value |-> v]

MCCall(op, rows, where, commit) ==
    [op |-> op, rows |-> rows, ids |-> [k \in DOMAIN rows |-> k], where |-> where,
     on_conflict |-> "do_update", dicts |-> FALSE, commit |-> commit]

\* What one request calls: a batch of changes as ActivityService makes it, each of
\* the other operations, and calls that refuse or change nothing.
MCPrograms1 == {
    <<MCCall("delete_many", << >>, {1}, FALSE), MCCall("upsert_one", <<R(2, 1)>>, NoClause, FALSE),
      MCCall("upsert_many", <<R(1, 2), R(3, 1)>>, NoClause, TRUE)>>,
    <<MCCall("create", <<R(3, Null)>>, NoClause, FALSE),
      MCCall("create_many", <<R(1, 1), R(2, 1)>>, NoClause, TRUE)>>,
    <<[MCCall("create_many", <<R(2, 2), R(3, 2)>>, NoClause, TRUE) EXCEPT !.dicts = TRUE]>>,
    <<MCCall("update_one", <<R(3, Null)>>, {1, 2}, FALSE), MCCall("delete_one", << >>, {2}, TRUE)>>,
    <<MCCall("update_many_by_id", <<R(1, 1), R(2, 2)>>, NoClause, TRUE),
      MCCall("create", <<R(3, 1)>>, NoClause, FALSE)>>,
    <<MCCall("update_many_by_whereclause", <<R(1, 2)>>, NoClause, FALSE),
      MCCall("upsert_many", << >>, NoClause, TRUE)>>,
    <<[MCCall("upsert_one", <<R(1, 2)>>, NoClause, TRUE) EXCEPT !.on_conflict = "do_nothing"],
      MCCall("delete_many", << >>, NoClause, TRUE)>>,
    << >>}

MCPrograms == {<<p, q>> : p, q \in MCPrograms1}
MCSessionPrograms == {[s \in MCSessions |-> IF s = s1 THEN p[1] ELSE p[2]] : p \in MCPrograms}

MCTables == {
    [i \in 1 .. 4 |-> NoRow],
    [i \in 1 .. 4 |-> IF i = 1 THEN R(1, 1) ELSE NoRow],
    [i \in 1 .. 4 |-> IF i = 1 THEN R(3, Null) ELSE IF i = 2 THEN R(2, 2) ELSE NoRow],
    [i \in 1 .. 4 |-> IF i <= 3 THEN R(i, IF i = 2 THEN Null ELSE 1) ELSE NoRow]}

\* Texts: "a", "eq__b" and "b" are the keys 1, 2 and 3, and "1" and "2" numerals.
MCPlace == [t \in {<<"a">>, <<"eq", "b">>, <<"b">>, <<"1">>} |->
    IF t = <<"a">> THEN 1 ELSE IF t = <<"eq", "b">> THEN 2 ELSE IF t = <<"b">> THEN 3 ELSE 0]
MCNumber == [t \in {<<"1">>, <<"2">>} |-> IF t = <<"1">> THEN 1 ELSE 2]
MCContains == [t \in DOMAIN MCPlace |-> IF t = <<"b">> THEN {2, 3} ELSE {MCPlace[t]} \ {0}]
MCEndsWith == MCContains

Asc(f) == [name |-> f, dashes |-> 0]
Desc(f) == [name |-> f, dashes |-> 1]

MCFilters == {
    << >>, <<<<"value", "gte", "1">>>>, <<<<"value", "ne", "1">>, <<"key", "lt", "b">>>>,
    <<<<"key", "eq", "eq", "b">>>>, <<<<"key", "ne", "a">>>>, <<<<"key", "lte", "eq", "b">>>>,
    <<<<"key", "il", "b">>>>, <<<<"key", "nil", "b">>>>, <<<<"value", "gt", "2">>>>,
    \* refused: an operator in front of the one that is meant, no operator, a field
    \* that is not there, a text for a number, ILIKE of a number
    <<<<"key", "eq", "a", "gte", "1">>>>, <<<<"key", "1">>>>, <<<<"b", "eq", "1">>, << >>>>,
    <<<<"value", "eq", "a">>>>, <<<<"value", "il", "1">>>>}
MCSorts == {<<Asc("key")>>, <<Desc("value"), Asc("key")>>, <<Asc("value")>>, << >>}

MCPaged ==
    {[filter |-> f, sort |-> o, size |-> n, paged |-> TRUE] :
       f \in MCFilters, o \in MCSorts, n \in {1, 2}}
MCRefused ==
    {[filter |-> << >>, sort |-> << >>, size |-> 0, paged |-> TRUE],
     [filter |-> << >>, sort |-> <<Asc("b")>>, size |-> 1, paged |-> TRUE]}
MCWhole == [filter |-> << >>, sort |-> << >>, size |-> 0, paged |-> FALSE]
MCQueries == MCPaged \cup MCRefused \cup {MCWhole}

\* Two requests without a client, and a client beside one.
MCScenarios ==
    {[table |-> t, program |-> p, query |-> q] :
       t \in MCTables, p \in MCSessionPrograms, q \in {MCWhole}}
      \cup {[table |-> t, program |-> p, query |-> q] :
              t \in MCTables,
              p \in {m \in MCSessionPrograms : m[s2] = << >> /\ Len(m[s1]) # 2},
              q \in MCPaged \cup MCRefused}

=============================================================================
