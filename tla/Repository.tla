----------------------------- MODULE Repository -----------------------------
(***************************************************************************)
(* The generic operations of src/app/core/database/base.py and mixin.py    *)
(* that write, over one table, as requests use them: each request has a    *)
(* session, makes the calls of its program one after another, some with    *)
(* commit and some without, and ends at the first one that raises.         *)
(*                                                                         *)
(* A statement, and a commit, is one step.  Statements see what is         *)
(* committed and what their own session has written, and wait for rows and *)
(* keys another session has written.                                       *)
(***************************************************************************)
EXTENDS Records, Sequences, FiniteSets

CONSTANTS
    Sessions,
    Programs,       \* what the requests call: the functions "program" starts as
    BatchSize,      \* of create_many
    NoClause        \* where_clause is None or empty; for delete_one, val is None

VARIABLES
    pending,        \* pending[s]: what s has written and not committed
    program,        \* program[s]: the calls s is still to make, the running one first
    pc,
    done,           \* done[s]: statements of the running call that are executed
    missing,        \* missing[s]: the result of the running call is None
    before          \* history: pending[s] when the running call began

repository == <<table, pending, program, pc, done, missing, before>>

Singles == {"create", "upsert_one", "update_one", "delete_one"}
Lists == {"create_many", "upsert_many", "update_many_by_id"}
Inserting == {"create", "create_many", "upsert_one", "upsert_many"}
OneRow == {"create", "upsert_one", "update_one", "update_many_by_whereclause"}
Ops == Singles \cup Lists \cup {"delete_many", "update_many_by_whereclause"}

\* "rows" is the data; "dicts" says that it is not made of models.  "ids" are the
\* ids that the data of update_many_by_id names.  A where_clause is the ids it selects.
Call ==
    {c \in [op : Ops, rows : Seq(Row), ids : Seq(Ids), where : (SUBSET Ids) \cup {NoClause},
            on_conflict : {"do_update", "do_nothing"}, dicts : BOOLEAN, commit : BOOLEAN] :
       /\ c.op \in OneRow => Len(c.rows) = 1
       /\ c.op = "update_many_by_id" => Len(c.ids) = Len(c.rows)}

ASSUME ProgramsAssumption ==
    /\ Programs \subseteq [Sessions -> Seq(Call)]
    /\ BatchSize \in Nat \ {0}

View(s) == Written(table, pending[s])
Running(s) == program[s][1]

(***************************************************************************)
(* The statements of a call, and what each writes.                         *)
(***************************************************************************)
Statements(c) ==
    IF c.op = "create_many" THEN (Len(c.rows) + BatchSize - 1) \div BatchSize
    ELSE IF c.op = "update_many_by_id" THEN Len(c.rows) ELSE 1

\* create_many sends models in batches.  Dicts are not sliced: each batch is all of them.
Batch(c, k) ==
    IF c.op # "create_many" \/ c.dicts THEN c.rows
    ELSE SubSeq(c.rows, (k - 1) * BatchSize + 1,
                IF k * BatchSize < Len(c.rows) THEN k * BatchSize ELSE Len(c.rows))

\* A model leaves out what is None: the column keeps its value.
Assigned(old, row, dicts) ==
    IF row.value = Null /\ ~dicts THEN [row EXCEPT !.value = old.value] ELSE row

Unused == {i \in Ids : table[i] = NoRow /\ \A s \in Sessions : pending[s][i] = Same}

\* rows[k] goes to the row f[k], the first of them where several do.
Placed(rows, f) ==
    [i \in Ids |-> IF \A k \in DOMAIN rows : f[k] # i THEN Same
                   ELSE rows[CHOOSE k \in DOMAIN rows :
                               f[k] = i /\ \A j \in DOMAIN rows : f[j] = i => k <= j]]

Inserts(rows) ==
    {Placed(rows, f) :
       f \in {g \in [DOMAIN rows -> Unused] : \A j, k \in DOMAIN rows : g[j] = g[k] => j = k}}

\* The rows where INSERT ... ON CONFLICT on the key puts its data: the row that has
\* the key, or a new one.
Slots(v, rows) ==
    LET Holds(i, key) == v[i] # NoRow /\ v[i].key = key
    IN  {f \in [DOMAIN rows -> Ids] : \A j, k \in DOMAIN rows :
           /\ Holds(f[k], rows[k].key) \/ (f[k] \in Unused /\ \A i \in Ids : ~Holds(i, rows[k].key))
           /\ f[j] = f[k] <=> rows[j].key = rows[k].key}

\* DO UPDATE is refused when two rows have one key, and so are rows of which only
\* some have a value.
Mixed(c) ==
    \E j, k \in DOMAIN c.rows : j # k /\
      \/ c.on_conflict = "do_update" /\ c.rows[j].key = c.rows[k].key
      \/ c.rows[j].value = Null /\ c.rows[k].value # Null

\* What of the placed rows w is written where there is a row already.
Merged(v, w, on_conflict) ==
    [i \in Ids |-> IF w[i] = Same \/ v[i] = NoRow THEN w[i]
                   ELSE IF on_conflict = "do_nothing" THEN Same ELSE Assigned(v[i], w[i], FALSE)]

Upserts(v, c) ==
    {Merged(v, Placed(c.rows, f), c.on_conflict) : f \in {g \in Slots(v, c.rows) : ~Mixed(c)}}

\* UPDATE and DELETE write the rows of ids that there are; new[i] is what i becomes.
Changed(v, ids, new) == [i \in Ids |-> IF i \in ids /\ v[i] # NoRow THEN new[i] ELSE Same]

\* Without a where_clause update_many_by_whereclause changes every row.
Selected(c) == IF c.where = NoClause THEN Ids ELSE c.where

\* update_many_by_id updates by primary key.  A where_clause is a further condition,
\* which SQLAlchemy takes in a bulk update when synchronize_session is None, as it
\* is here; without one, a row that is not found may also end the call (Fail).
Effects(v, c, k) ==
    LET row == c.rows[IF c.op = "update_many_by_id" THEN k ELSE 1]
        updated == [i \in Ids |-> Assigned(v[i], row, c.dicts)]
        revalued == [i \in Ids |-> [updated[i] EXCEPT !.key = v[i].key]]
        deleted == [i \in Ids |-> NoRow]
    IN  IF c.op \in {"create", "create_many"} THEN Inserts(Batch(c, k))
        ELSE IF c.op \in Inserting THEN Upserts(v, c)
        ELSE IF c.op = "update_one" THEN {Changed(v, c.where, updated)}
        ELSE IF c.op = "update_many_by_id" THEN {Changed(v, {c.ids[k]} \cap Selected(c), updated)}
        ELSE IF c.op = "update_many_by_whereclause" THEN {Changed(v, Selected(c), revalued)}
        ELSE {Changed(v, c.where, deleted)}

(***************************************************************************)
(* What a statement waits for: rows that another session has written, and  *)
(* keys that it has given to a row, or taken from one.                     *)
(***************************************************************************)
Claims(t, w) ==
    {w[i].key : i \in {j \in Touched(w) : w[j] # NoRow}}
      \cup {t[i].key : i \in {j \in Touched(w) : t[j] # NoRow}}

Sought(c, k) == IF c.op \in Inserting THEN {Batch(c, k)[j].key : j \in DOMAIN Batch(c, k)} ELSE {}

Free(s, w) ==
    \A r \in Sessions \ {s} :
        /\ Touched(w) \cap Touched(pending[r]) = {}
        /\ (Claims(View(s), w) \cup Sought(Running(s), done[s] + 1)) \cap Claims(table, pending[r]) = {}

RepositoryInit ==
    /\ table \in Table /\ UniqueKey(table)
    /\ program \in Programs
    /\ pending = [s \in Sessions |-> Nothing]
    /\ pc = [s \in Sessions |-> "open"]
    /\ done = [s \in Sessions |-> 0]
    /\ missing = [s \in Sessions |-> FALSE]
    /\ before = [s \in Sessions |-> Nothing]

(***************************************************************************)
(* The operations.                                                         *)
(***************************************************************************)
\* What is refused before any statement.
Refuses(c) == c.where = NoClause /\ c.op \in {"update_one", "delete_one", "delete_many"}

\* An empty list is answered at once, with [], and commits nothing.
Begin(s) ==
    /\ pc[s] = "open" /\ program[s] # << >>
    /\ IF Running(s).op \in Lists /\ Running(s).rows = << >>
       THEN /\ program' = [program EXCEPT ![s] = Tail(@)]
            /\ UNCHANGED <<pc, done, before>>
       ELSE /\ pc' = [pc EXCEPT ![s] = IF Refuses(Running(s)) THEN "raised" ELSE "working"]
            /\ done' = [done EXCEPT ![s] = 0]
            /\ before' = [before EXCEPT ![s] = pending[s]]
            /\ UNCHANGED program
    /\ UNCHANGED <<table, pending, missing>>

\* Mutant: the loop runs once more.
After_OneMore(c, k) ==
    IF k <= Statements(c) THEN "working" ELSE IF c.commit THEN "committing" ELSE "answering"

\* Mutant: create_many commits in its loop.
After_CommitsEachBatch(c, k) ==
    IF c.commit THEN "committing" ELSE IF k < Statements(c) THEN "working" ELSE "answering"

\* What follows statement k of c.
After(c, k) ==
    IF k < Statements(c) THEN "working" ELSE IF c.commit THEN "committing" ELSE "answering"

\* The end of a call: update_many_by_id reads its rows again; a result of None
\* is not found, or fails its validation, unless it is returned as it is.
Answer(s, none) ==
    IF Running(s).op = "update_many_by_id"
    THEN /\ pc' = [pc EXCEPT ![s] = "reading"]
         /\ UNCHANGED program
    ELSE /\ \E next \in {"open"} \cup {p \in {"raised"} : none} : pc' = [pc EXCEPT ![s] = next]
         /\ program' = [program EXCEPT ![s] = Tail(@)]

Execute(s) ==
    /\ pc[s] = "working"
    /\ \E w \in Effects(View(s), Running(s), done[s] + 1) :
         /\ Free(s, w) /\ UniqueKey(Written(View(s), w))
         /\ pending' = [pending EXCEPT ![s] = Written(@, w)]
         /\ done' = [done EXCEPT ![s] = @ + 1]
         /\ LET none == Running(s).op \in Singles /\ w = Nothing
            IN  /\ missing' = [missing EXCEPT ![s] = none]
                /\ IF After(Running(s), done[s] + 1) = "answering" THEN Answer(s, none)
                   ELSE /\ pc' = [pc EXCEPT ![s] = After(Running(s), done[s] + 1)]
                        /\ UNCHANGED program
    /\ UNCHANGED <<table, before>>

\* A statement fails: IntegrityError, StaleDataError, a deadlock, a lost connection.  PostgreSQL
\* ends the transaction, and with it what earlier calls have written; rollback()
\* follows in the operation or, for update_one and get_*, in session().
Fail(s) ==
    /\ pc[s] \in {"working", "reading"}
    /\ pending' = [pending EXCEPT ![s] = Nothing]
    /\ pc' = [pc EXCEPT ![s] = "raised"]
    /\ UNCHANGED <<table, program, done, missing, before>>

CommitCall(s) ==
    /\ pc[s] = "committing"
    /\ table' = View(s)
    /\ pending' = [pending EXCEPT ![s] = Nothing]
    /\ Answer(s, missing[s])
    /\ UNCHANGED <<done, missing, before>>

\* The connection is lost before the answer to COMMIT: it was done, or not.
CommitLost(s) ==
    /\ pc[s] = "committing"
    /\ table' \in {table, View(s)}
    /\ pending' = [pending EXCEPT ![s] = Nothing]
    /\ pc' = [pc EXCEPT ![s] = "raised"]
    /\ UNCHANGED <<program, done, missing, before>>

\* update_many_by_id returns the rows as they are now.
ReadBack(s) ==
    /\ pc[s] = "reading"
    /\ pc' = [pc EXCEPT ![s] = "open"]
    /\ program' = [program EXCEPT ![s] = Tail(@)]
    /\ UNCHANGED <<table, pending, done, missing, before>>

\* The end of the request: after an exception session() rolls back, and close()
\* rolls back what no call has committed.
End(s) ==
    /\ pc[s] = "raised" \/ (pc[s] = "open" /\ program[s] = << >>)
    /\ pc' = [pc EXCEPT ![s] = "closed"]
    /\ pending' = [pending EXCEPT ![s] = Nothing]
    /\ UNCHANGED <<table, program, done, missing, before>>

RepositoryNext == \E s \in Sessions :
    \/ Begin(s) \/ Execute(s) \/ Fail(s) \/ CommitCall(s) \/ CommitLost(s)
    \/ ReadBack(s) \/ End(s)

=============================================================================
