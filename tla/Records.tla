------------------------------ MODULE Records ------------------------------
(***************************************************************************)
(* The rows of one table with a unique key, and what a transaction has     *)
(* written of them.  Keys and values are numbers: of a text, its place in  *)
(* the order of texts.                                                     *)
(***************************************************************************)
EXTENDS Integers

CONSTANTS
    Ids, Keys, Values,
    Null,
    NoRow,      \* the id has no row
    Same        \* the row is not written

VARIABLE table  \* what is committed

Row == [key : Keys, value : Values \cup {Null}]

ASSUME RecordsAssumption ==
    /\ Keys \subseteq Int /\ Values \subseteq Int /\ Null \notin Int
    /\ NoRow \notin Row /\ Same \notin Row /\ Same # NoRow

Table == [Ids -> Row \cup {NoRow}]
Writes == [Ids -> Row \cup {NoRow, Same}]

Nothing == [i \in Ids |-> Same]

Touched(w) == {i \in Ids : w[i] # Same}

\* A table, or earlier writes, with the writes w.
Written(t, w) == [i \in Ids |-> IF w[i] = Same THEN t[i] ELSE w[i]]

UniqueKey(t) ==
    \A i, j \in Ids : i # j /\ t[i] # NoRow /\ t[j] # NoRow => t[i].key # t[j].key

=============================================================================
