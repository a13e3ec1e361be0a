-------------------------- MODULE RepositoryProofs --------------------------
(***************************************************************************)
(* Proofs about the generic operations and the listing: sessions keep      *)
(* their rows and keys apart, so that what each publishes is a whole unit  *)
(* on a table whose keys stay unique; an accepted filter is read as it is  *)
(* written; and the pages of a quiet table show each row once, and as many *)
(* rows as were counted.                                                   *)
(***************************************************************************)
EXTENDS RepositoryProperties, WellFoundedInduction, FiniteSetTheorems, TLAPS

(***************************************************************************)
(* How a filter is read.                                                   *)
(***************************************************************************)
\* A set of numbers has a least one.
LEMMA Least ==
  ASSUME NEW S, S \subseteq Nat, S # {}
  PROVE  \E m \in S : \A n \in S : m <= n
<1> DEFINE R == OpToRel(<, Nat)
<1>1. IsWellFoundedOn(R, Nat)
  BY NatLessThanWellFounded
<1> HIDE DEF R
<1>2. PICK m \in S : \A n \in S : <<n, m>> \notin R
  BY <1>1, WFMin
<1>3. \A n \in S : ~(n < m)
  BY <1>2 DEF R, OpToRel
<1> QED  BY <1>3

\* The operator of a pair is one of its inner pieces, and the first with its name.
LEMMA OperatorStands ==
  ASSUME NEW pair \in Seq(Pieces), Found(pair) # {}
  PROVE  /\ At(pair) \in Interior(pair)
         /\ pair[At(pair)] = DetermineOperator(pair)
<1>1. \E n \in Found(pair) : \A m \in Found(pair) : n <= m
  BY DEF Found, Operators
<1>2. PICK n \in Found(pair) : DetermineOperator(pair) = Operators[n]
  BY <1>1 DEF DetermineOperator
<1> DEFINE here == {k \in Interior(pair) : pair[k] = DetermineOperator(pair)}
<1>3. here # {} /\ here \subseteq Nat
  <2>1. Interior(pair) \subseteq Nat
    BY DEF Interior
  <2> QED  BY <1>2, <2>1 DEF Found
<1>4. \E k \in here : \A j \in here : k <= j
  BY <1>3, Least
<1> QED  BY <1>4 DEF At

\* A pair whose field is allowed is read as it is written.
THEOREM AllowedIsReadAsWritten ==
  ASSUME NEW pair \in Seq(Pieces), Found(pair) # {}, Allowed(pair)
  PROVE  Condition(pair) = AsWritten(pair)
<1>1. At(pair) \in 2 .. Len(pair) - 1 /\ pair[At(pair)] = DetermineOperator(pair)
  BY OperatorStands DEF Interior
<1>2. PICK f : KeyOf(pair) = <<f>>
  BY DEF Allowed
<1>3. Len(KeyOf(pair)) = At(pair) - 1 /\ KeyOf(pair)[1] = pair[1]
  BY <1>1 DEF KeyOf
<1>4. At(pair) = 2
  BY <1>1, <1>2, <1>3
<1>5. TextOf(pair) = SubSeq(pair, 3, Len(pair))
  BY <1>4 DEF TextOf
<1>6. KeyOf(pair)[1] = pair[1] /\ DetermineOperator(pair) = pair[2]
  BY <1>1, <1>3, <1>4
<1> QED  BY <1>5, <1>6 DEF Condition, AsWritten

\* A query that is accepted has a filter whose pairs are all allowed.
LEMMA AcceptedIsAllowed ==
  ASSUME NEW q, Verdict(q) = 200
  PROVE  \A k \in DOMAIN q.filter : Found(q.filter[k]) # {} /\ Allowed(q.filter[k])
<1>1. Rejected(q) = {}
  BY DEF Verdict
<1> QED  BY <1>1 DEF Rejected

\* What the listing goes on with has been accepted.
Accepted ==
  /\ query \in Queries
  /\ phase \notin {"asked", "refused"} /\ query.paged => Verdict(query) = 200

\* The query of a listing that goes on has been accepted, in every reachable state.
THEOREM ListingGoesOnAccepted == Spec => []Accepted
<1>1. Init => Accepted
  BY DEF Init, ListingInit, Accepted
<1>2. Accepted /\ [Next]_vars => Accepted'
  <2> SUFFICES ASSUME Accepted, [Next]_vars PROVE Accepted'
    OBVIOUS
  <2> USE DEF Accepted
  <2>1. CASE UNCHANGED listing
    BY <2>1 DEF listing
  <2>2. CASE Validate
    <3>1. phase' \notin {"asked", "refused"} => Verdict(query) = 200
      BY <2>2 DEF Validate
    <3>2. query' = query /\ Verdict(query)' = Verdict(query')
      BY <2>2 DEF Validate
    <3> QED  BY <3>1, <3>2 DEF Verdict, Rejected
  <2>3. CASE Count \/ ReadPage \/ NextPage
    <3>1. query' = query /\ (phase' \notin {"asked", "refused"} => phase \notin {"asked", "refused"})
      BY <2>3 DEF Count, ReadPage, NextPage
    <3> QED  BY <3>1 DEF Verdict, Rejected
  <2>4. CASE ReadAll
    BY <2>4 DEF ReadAll
  <2> QED  BY <2>1, <2>2, <2>3, <2>4 DEF Next, Write, List, ListingNext, vars, listing
<1> QED  BY <1>1, <1>2, PTL DEF Spec

\* An accepted filter is read as it is written, in every reachable state.
THEOREM FiltersReadAsWritten == Spec => []AcceptedReadAsWritten
<1>1. Accepted => AcceptedReadAsWritten
  <2> SUFFICES ASSUME Accepted, phase \notin {"asked", "refused"}, NEW k \in DOMAIN query.filter
               PROVE  Condition(query.filter[k]) = AsWritten(query.filter[k])
    BY DEF AcceptedReadAsWritten
  <2>1. query.filter \in Seq(Seq(Pieces)) /\ query.paged
    BY ListingAssumption DEF Accepted, Query
  <2>2. query.filter[k] \in Seq(Pieces)
    BY <2>1
  <2>3. Found(query.filter[k]) # {} /\ Allowed(query.filter[k])
    BY <2>1, AcceptedIsAllowed DEF Accepted
  <2> QED  BY <2>2, <2>3, AllowedIsReadAsWritten
<1> QED  BY <1>1, ListingGoesOnAccepted, PTL

(***************************************************************************)
(* Writes on a table.                                                      *)
(***************************************************************************)
\* Writes after writes are seen as both.
LEMMA WrittenTwice ==
  ASSUME NEW t, NEW p, NEW w
  PROVE  /\ Written(t, Written(p, w)) = Written(Written(t, p), w)
         /\ Touched(Written(p, w)) = Touched(p) \cup Touched(w)
  BY DEF Written, Touched

\* The keys that writes and later writes claim are claimed by one or the other.
LEMMA ClaimsOfBoth ==
  ASSUME NEW t, NEW p, NEW w
  PROVE  Claims(t, Written(p, w)) \subseteq Claims(t, p) \cup Claims(Written(t, p), w)
  BY DEF Claims, Written, Touched

\* Who has written nothing claims nothing.
LEMMA NothingIsClaimed ==
  ASSUME NEW t
  PROVE  /\ Touched(Nothing) = {} /\ Claims(t, Nothing) = {}
         /\ UniqueKey(t) => UniqueKey(Written(t, Nothing))
  BY DEF Claims, Touched, Nothing, Written, UniqueKey

\* Two sessions with rows and keys apart do not break each other's table.
LEMMA ViewAfterCommit ==
  ASSUME NEW t, NEW p, NEW q,
         Touched(p) \cap Touched(q) = {}, Claims(t, p) \cap Claims(t, q) = {},
         UniqueKey(Written(t, p)), UniqueKey(Written(t, q))
  PROVE  UniqueKey(Written(Written(t, p), q))
<1> DEFINE v == Written(Written(t, p), q)
<1> SUFFICES ASSUME NEW i \in Ids, NEW j \in Ids, i # j, v[i] # NoRow, v[j] # NoRow
             PROVE  v[i].key # v[j].key
  BY DEF UniqueKey
<1>1. \A x \in Ids : v[x] = IF x \in Touched(q) THEN q[x] ELSE IF x \in Touched(p) THEN p[x] ELSE t[x]
  BY DEF Written, Touched
<1>2. \A x \in Ids : Written(t, p)[x] = IF x \in Touched(p) THEN p[x] ELSE t[x]
  BY DEF Written, Touched
<1>3. \A x \in Ids : Written(t, q)[x] = IF x \in Touched(q) THEN q[x] ELSE t[x]
  BY DEF Written, Touched
<1> HIDE DEF v
<1>4. CASE i \in Touched(q) /\ j \in Touched(p)
  <2>1. q[i].key \in Claims(t, q) /\ p[j].key \in Claims(t, p)
    BY <1>1, <1>4 DEF Claims
  <2> QED  BY <2>1, <1>1, <1>4
<1>5. CASE j \in Touched(q) /\ i \in Touched(p)
  <2>1. q[j].key \in Claims(t, q) /\ p[i].key \in Claims(t, p)
    BY <1>1, <1>5 DEF Claims
  <2> QED  BY <2>1, <1>1, <1>5
<1>6. CASE i \notin Touched(p) /\ j \notin Touched(p)
  BY <1>1, <1>3, <1>6 DEF UniqueKey
<1>7. CASE i \notin Touched(q) /\ j \notin Touched(q)
  BY <1>1, <1>2, <1>7 DEF UniqueKey
<1> QED  BY <1>4, <1>5, <1>6, <1>7

(***************************************************************************)
(* What a statement writes.                                                *)
(***************************************************************************)
\* A row in which what is None keeps its value is a row.
LEMMA AssignedIsRow ==
  ASSUME NEW old \in Row, NEW row \in Row, NEW dicts
  PROVE  Assigned(old, row, dicts) \in Row /\ Assigned(old, row, dicts).key = row.key
  BY DEF Assigned, Row

\* Where some of the rows go to an id, there is a first of them.
LEMMA FirstPlaced ==
  ASSUME NEW rows \in Seq(Row), NEW f, NEW i, ~ \A k \in DOMAIN rows : f[k] # i
  PROVE  (CHOOSE k \in DOMAIN rows : f[k] = i /\ \A j \in DOMAIN rows : f[j] = i => k <= j)
           \in DOMAIN rows
<1> DEFINE there == {k \in DOMAIN rows : f[k] = i}
<1>1. there # {} /\ there \subseteq Nat
  OBVIOUS
<1> HIDE DEF there
<1>2. \E k \in there : \A j \in there : k <= j
  BY <1>1, Least
<1> QED  BY <1>2 DEF there

\* The batches of a call are of rows.
LEMMA BatchIsRows ==
  ASSUME NEW c \in Call, NEW k \in Nat \ {0}
  PROVE  /\ Batch(c, k) \in Seq(Row)
         /\ c.op # "create_many" => Batch(c, k) = c.rows
<1>1. c.rows \in Seq(Row)
  BY DEF Call
<1>2. CASE c.op # "create_many" \/ c.dicts
  BY <1>1, <1>2 DEF Batch
<1>3. CASE ~(c.op # "create_many" \/ c.dicts)
  <2> DEFINE m == (k - 1) * BatchSize
             n == IF k * BatchSize < Len(c.rows) THEN k * BatchSize ELSE Len(c.rows)
  <2>1. m \in Nat /\ n \in Nat /\ n <= Len(c.rows)
    BY <1>1, ProgramsAssumption
  <2>2. Batch(c, k) = SubSeq(c.rows, m + 1, n)
    BY <1>3 DEF Batch
  <2> HIDE DEF m, n
  <2> QED  BY <1>1, <1>3, <2>1, <2>2
<1> QED  BY <1>2, <1>3

\* Rows that are placed are writes.
LEMMA PlacedAreWrites ==
  ASSUME NEW rows \in Seq(Row), NEW f
  PROVE  Placed(rows, f) \in [Ids -> Row \cup {Same}]
<1> DEFINE First(i) == CHOOSE k \in DOMAIN rows : f[k] = i /\ \A j \in DOMAIN rows : f[j] = i => k <= j
<1>1. ASSUME NEW i \in Ids, ~ \A k \in DOMAIN rows : f[k] # i
      PROVE  First(i) \in DOMAIN rows
  BY <1>1, FirstPlaced
<1>2. Placed(rows, f) = [i \in Ids |-> IF \A k \in DOMAIN rows : f[k] # i THEN Same ELSE rows[First(i)]]
  BY DEF Placed
<1> HIDE DEF First
<1> QED  BY <1>1, <1>2

\* Upserted rows are writes.
LEMMA UpsertsAreWrites ==
  ASSUME NEW v \in Table, NEW c \in Call, NEW w \in Upserts(v, c)
  PROVE  w \in Writes
<1>1. PICK p \in [Ids -> Row \cup {Same}] : w = Merged(v, p, c.on_conflict)
  BY PlacedAreWrites DEF Upserts, Call
<1>2. ASSUME NEW i \in Ids
      PROVE  w[i] \in Row \cup {NoRow, Same}
  BY <1>1, AssignedIsRow DEF Merged, Table
<1> QED  BY <1>1, <1>2 DEF Merged, Writes

\* Whatever a statement does to the rows of a table, it leaves writes.
LEMMA EffectsAreWrites ==
  ASSUME NEW v \in Table, NEW c \in Call, NEW k \in Nat \ {0}, k <= Statements(c),
         NEW w \in Effects(v, c, k)
  PROVE  w \in Writes
<1> DEFINE n == IF c.op = "update_many_by_id" THEN k ELSE 1
           updated == [i \in Ids |-> Assigned(v[i], c.rows[n], c.dicts)]
           revalued == [i \in Ids |-> [updated[i] EXCEPT !.key = v[i].key]]
           deleted == [i \in Ids |-> NoRow]
<1>1. c.rows \in Seq(Row)
  BY DEF Call
<1>2. CASE c.op \in {"create", "create_many"}
  BY <1>2, BatchIsRows, PlacedAreWrites DEF Effects, Inserts, Writes
<1>3. CASE c.op \in {"upsert_one", "upsert_many"}
  BY <1>3, UpsertsAreWrites DEF Effects, Inserting
<1>4. CASE c.op \in {"update_one", "update_many_by_id", "update_many_by_whereclause"}
  <2>1. c.rows[n] \in Row
    BY <1>1, <1>4 DEF Call, OneRow, Statements
  <2> HIDE DEF n
  <2>2. ASSUME NEW i \in Ids, v[i] \in Row
        PROVE  updated[i] \in Row /\ revalued[i] \in Row
    <3>1. updated[i] \in Row
      BY <2>1, <2>2, AssignedIsRow
    <3>2. revalued[i] = [updated[i] EXCEPT !.key = v[i].key]
      OBVIOUS
    <3> HIDE DEF updated, revalued
    <3> QED  BY <2>2, <3>1, <3>2 DEF Row
  <2>3. \/ \E ids : w = Changed(v, ids, updated)
        \/ \E ids : w = Changed(v, ids, revalued)
    BY <1>4 DEF Effects, Inserting, n
  <2> HIDE DEF updated, revalued
  <2> QED  BY <2>2, <2>3 DEF Changed, Writes, Table
<1>5. CASE c.op \in {"delete_one", "delete_many"}
  <2>1. w = Changed(v, c.where, deleted)
    BY <1>5 DEF Effects, Inserting
  <2> QED  BY <2>1 DEF Changed, Writes
<1> QED  BY <1>2, <1>3, <1>4, <1>5 DEF Call, Ops, Singles, Lists

(***************************************************************************)
(* Type correctness.                                                       *)
(***************************************************************************)
\* What a session sees is a table, and writes after writes are writes.
LEMMA WrittenTyped ==
  /\ \A t \in Table, w \in Writes : Written(t, w) \in Table
  /\ \A p, w \in Writes : Written(p, w) \in Writes
  BY DEF Written, Table, Writes

\* A call that is not answered at once has a statement to make.
LEMMA SomethingToSend ==
  ASSUME NEW c \in Call, ~(c.op \in Lists /\ c.rows = << >>)
  PROVE  Statements(c) \in Nat /\ 0 < Statements(c)
<1>1. c.rows \in Seq(Row) /\ Len(c.rows) \in Nat /\ (c.op \in Lists => Len(c.rows) > 0)
  BY DEF Call
<1>2. CASE c.op = "create_many"
  <2> DEFINE n == Len(c.rows) + BatchSize - 1
  <2>1. n \in Nat /\ BatchSize \in Nat /\ 0 < BatchSize /\ BatchSize <= n
    BY <1>1, <1>2, ProgramsAssumption DEF Lists
  <2> HIDE DEF n
  <2>2. n \div BatchSize \in Nat /\ 0 < n \div BatchSize
    BY <2>1
  <2> QED  BY <1>2, <2>2 DEF Statements, n
<1>3. CASE c.op # "create_many"
  BY <1>1, <1>3 DEF Statements, Lists
<1> QED  BY <1>2, <1>3

\* Every call has a number of statements.
LEMMA StatementsTyped ==
  ASSUME NEW c \in Call
  PROVE  Statements(c) \in Int
<1>1. c.rows \in Seq(Row) /\ Len(c.rows) \in Nat
  BY DEF Call
<1>2. CASE c.op \in Lists /\ c.rows = << >>
  <2>1. Len(c.rows) + BatchSize - 1 \in Nat /\ BatchSize \in Nat \ {0}
    BY <1>1, ProgramsAssumption
  <2> DEFINE n == Len(c.rows) + BatchSize - 1
  <2> HIDE DEF n
  <2>2. n \div BatchSize \in Int
    BY <2>1 DEF n
  <2> QED  BY <1>1, <2>2 DEF Statements, n
<1> QED  BY <1>2, SomethingToSend

\* A session that makes a statement, commits or reads has a call in hand.
LEMMA CallInHand ==
  ASSUME RepositoryTypeOK, NEW s \in Sessions, program[s] # << >>
  PROVE  /\ Running(s) \in Call
         /\ Tail(program[s]) \in Seq(Call)
  BY DEF RepositoryTypeOK, Running

\* The end of a call keeps the types.
LEMMA AnswerTyped ==
  ASSUME RepositoryTypeOK, NEW s \in Sessions, program[s] # << >>, NEW none, Answer(s, none)
  PROVE  /\ program' \in [Sessions -> Seq(Call)]
         /\ pc' \in [Sessions -> {"open", "working", "committing", "reading", "raised", "closed"}]
         /\ pc'[s] \in {"open", "raised", "reading"}
         /\ pc'[s] = "reading" => program'[s] # << >>
         /\ \A r \in Sessions \ {s} : pc'[r] = pc[r] /\ program'[r] = program[r]
<1> USE DEF RepositoryTypeOK
<1>1. Tail(program[s]) \in Seq(Call)
  BY CallInHand
<1>2. CASE Running(s).op = "update_many_by_id"
  BY <1>2 DEF Answer
<1>3. CASE Running(s).op # "update_many_by_id"
  BY <1>1, <1>3 DEF Answer
<1> QED  BY <1>2, <1>3

\* A statement keeps the types.
LEMMA ExecuteTyped ==
  ASSUME RepositoryTypeOK, NEW s \in Sessions, Execute(s)
  PROVE  RepositoryTypeOK'
<1> USE DEF RepositoryTypeOK
<1> DEFINE c == Running(s)
           k == done[s] + 1
<1>1. pc[s] = "working" /\ program[s] # << >> /\ done[s] < Statements(c)
  BY DEF Execute
<1>2. c \in Call /\ k \in Nat \ {0} /\ Statements(c) \in Int /\ k <= Statements(c)
  BY <1>1, CallInHand, StatementsTyped
<1>3. PICK w \in Effects(View(s), c, k) :
         /\ pending' = [pending EXCEPT ![s] = Written(pending[s], w)]
         /\ done' = [done EXCEPT ![s] = k]
         /\ LET none == c.op \in Singles /\ w = Nothing
            IN  /\ missing' = [missing EXCEPT ![s] = none]
                /\ IF After(c, k) = "answering" THEN Answer(s, none)
                   ELSE /\ pc' = [pc EXCEPT ![s] = After(c, k)]
                        /\ UNCHANGED program
  BY DEF Execute
<1>4. View(s) \in Table
  BY WrittenTyped DEF View
<1>5. w \in Writes
  BY <1>2, <1>4, EffectsAreWrites
<1>6. /\ pending' \in [Sessions -> Writes] /\ done' \in [Sessions -> Nat]
      /\ missing' \in [Sessions -> BOOLEAN]
      /\ table' = table /\ before' = before
  BY <1>2, <1>3, <1>5, WrittenTyped DEF Execute
<1>7. \A r \in Sessions \ {s} : done'[r] = done[r]
  BY <1>3
<1>8. done'[s] = k
  BY <1>3
<1> HIDE DEF c, k
<1>9. CASE After(c, k) = "answering"
  <2>1. PICK none : Answer(s, none)
    BY <1>3, <1>9
  <2>2. /\ program' \in [Sessions -> Seq(Call)]
        /\ pc' \in [Sessions -> {"open", "working", "committing", "reading", "raised", "closed"}]
        /\ pc'[s] \in {"open", "raised", "reading"}
        /\ pc'[s] = "reading" => program'[s] # << >>
        /\ \A r \in Sessions \ {s} : pc'[r] = pc[r] /\ program'[r] = program[r]
    BY <1>1, <2>1, AnswerTyped
  <2> QED  BY <1>6, <1>7, <2>2 DEF Running
<1>10. CASE After(c, k) # "answering"
  <2>1. pc' = [pc EXCEPT ![s] = After(c, k)] /\ program' = program
    BY <1>3, <1>10
  <2>2. \/ After(c, k) = "working" /\ k < Statements(c)
        \/ After(c, k) = "committing" /\ k = Statements(c)
    BY <1>2, <1>10 DEF After
  <2> QED  BY <1>1, <1>6, <1>7, <1>8, <2>1, <2>2 DEF Running, c
<1> QED  BY <1>9, <1>10

\* The operations keep the types of their tables and calls.
LEMMA RepositoryTyped ==
  ASSUME RepositoryTypeOK, RepositoryNext
  PROVE  RepositoryTypeOK'
<1> USE DEF RepositoryTypeOK
<1>1. PICK s \in Sessions :
        \/ Begin(s) \/ Execute(s) \/ Fail(s) \/ CommitCall(s) \/ CommitLost(s)
        \/ ReadBack(s) \/ End(s)
  BY DEF RepositoryNext
<1>2. Nothing \in Writes
  BY DEF Nothing, Writes
<1>3. CASE Begin(s)
  <2>1. Running(s) \in Call /\ Tail(program[s]) \in Seq(Call)
    BY <1>3, CallInHand DEF Begin
  <2>2. CASE Running(s).op \in Lists /\ Running(s).rows = << >>
    BY <1>3, <2>1, <2>2 DEF Begin, Running
  <2>3. CASE ~(Running(s).op \in Lists /\ Running(s).rows = << >>)
    <3>1. 0 < Statements(Running(s))
      BY <2>1, <2>3, SomethingToSend
    <3>2. /\ program' = program /\ done' = [done EXCEPT ![s] = 0]
          /\ before' = [before EXCEPT ![s] = pending[s]]
          /\ UNCHANGED <<table, pending, missing>>
      BY <1>3, <2>3 DEF Begin
    <3>3. \E p \in {"raised", "working"} : pc' = [pc EXCEPT ![s] = p]
      BY <1>3, <2>3 DEF Begin
    <3>4. program[s] # << >>
      BY <1>3 DEF Begin
    <3> QED  BY <3>1, <3>2, <3>3, <3>4 DEF Running
  <2> QED  BY <2>2, <2>3
<1>4. CASE Execute(s)
  BY <1>4, ExecuteTyped
<1>5. CASE Fail(s)
  BY <1>2, <1>5 DEF Fail, Running
<1>6. CASE CommitCall(s)
  <2>1. /\ program' \in [Sessions -> Seq(Call)]
        /\ pc' \in [Sessions -> {"open", "working", "committing", "reading", "raised", "closed"}]
        /\ pc'[s] \in {"open", "raised", "reading"}
        /\ pc'[s] = "reading" => program'[s] # << >>
        /\ \A r \in Sessions \ {s} : pc'[r] = pc[r] /\ program'[r] = program[r]
    BY <1>6, AnswerTyped DEF CommitCall
  <2>2. table' \in Table /\ pending' \in [Sessions -> Writes]
    BY <1>2, <1>6, WrittenTyped DEF CommitCall, View
  <2> QED  BY <1>6, <2>1, <2>2 DEF CommitCall, Running
<1>7. CASE CommitLost(s)
  <2>1. table' \in Table
    BY <1>7, WrittenTyped DEF CommitLost, View
  <2> QED  BY <1>2, <1>7, <2>1 DEF CommitLost, Running
<1>8. CASE ReadBack(s)
  <2>1. Tail(program[s]) \in Seq(Call)
    BY <1>8, CallInHand DEF ReadBack
  <2> QED  BY <1>8, <2>1 DEF ReadBack, Running
<1>9. CASE End(s)
  BY <1>2, <1>9 DEF End, Running
<1> QED  BY <1>1, <1>3, <1>4, <1>5, <1>6, <1>7, <1>8, <1>9

\* A page of an order of rows is a sequence of their ids.
LEMMA PagesTyped ==
  ASSUME NEW q, NEW f \in Arrangements(table, q), NEW p \in Nat \ {0}, NEW n \in Nat
  PROVE  PageOf(f, p, n) \in Seq(Ids)
<1>1. f \in Seq(Ids)
  <2> DEFINE ids == Matching(table, q)
  <2>1. ids \subseteq Ids
    BY DEF Matching
  <2>2. Cardinality(ids) \in Nat
    BY <2>1, PaginationAssumption, FS_Subset, FS_CardinalityType
  <2>3. f \in [1 .. Cardinality(ids) -> ids]
    BY DEF Arrangements
  <2> HIDE DEF ids
  <2> QED  BY <2>1, <2>2, <2>3
<1> DEFINE m == (p - 1) * n
           e == IF p * n < Len(f) THEN p * n ELSE Len(f)
<1>2. m \in Nat /\ e \in Nat /\ e <= Len(f)
  BY <1>1
<1>3. PageOf(f, p, n) = SubSeq(f, m + 1, e)
  BY DEF PageOf
<1> HIDE DEF m, e
<1> QED  BY <1>1, <1>2, <1>3

\* The listing keeps its types.
LEMMA ListingTyped ==
  ASSUME ListingTypeOK, ListingNext
  PROVE  ListingTypeOK'
<1> USE DEF ListingTypeOK
<1>1. query.size \in Nat /\ query \in Query
  BY ListingAssumption DEF Query
<1>2. CASE Validate
  BY <1>2 DEF Validate
<1>3. CASE Count
  <2>1. Matching(table, query) \subseteq Ids
    BY DEF Matching
  <2>2. Cardinality(Matching(table, query)) \in Nat
    BY <2>1, PaginationAssumption, FS_Subset, FS_CardinalityType
  <2> QED  BY <1>3, <2>2 DEF Count
<1>4. CASE ReadPage
  <2>1. PICK f \in Arrangements(table, query) : shown' = Append(shown, PageOf(f, page, query.size))
    BY <1>4 DEF ReadPage
  <2>2. PageOf(f, page, query.size) \in Seq(Ids)
    BY <1>1, PagesTyped
  <2> QED  BY <1>4, <2>1, <2>2 DEF ReadPage
<1>5. CASE NextPage
  BY <1>5 DEF NextPage
<1>6. CASE ReadAll
  <2>1. PICK f \in Arrangements(table, query) : shown' = <<PageOf(f, 1, Limit)>>
    BY <1>6 DEF ReadAll
  <2>2. PageOf(f, 1, Limit) \in Seq(Ids)
    BY PagesTyped, ListingAssumption
  <2> QED  BY <1>6, <2>1, <2>2 DEF ReadAll
<1> QED  BY <1>2, <1>3, <1>4, <1>5, <1>6 DEF ListingNext

\* Type correctness: the writes of every operation are rows of the table, no call
\* runs out of statements before its commit, and pages are of ids.
THEOREM RepositoryTypeCorrect == Spec => []TypeOK
<1>1. Init => TypeOK
  <2> SUFFICES ASSUME Init PROVE TypeOK
    OBVIOUS
  <2>1. Nothing \in Writes
    BY DEF Nothing, Writes
  <2>2. RepositoryTypeOK
    BY <2>1, ProgramsAssumption DEF Init, RepositoryInit, RepositoryTypeOK
  <2> QED  BY <2>2 DEF Init, ListingInit, ListingTypeOK, TypeOK
<1>2. TypeOK /\ [Next]_vars => TypeOK'
  <2> SUFFICES ASSUME TypeOK, [Next]_vars PROVE TypeOK'
    OBVIOUS
  <2>1. CASE Write
    BY <2>1, RepositoryTyped DEF Write, TypeOK, ListingTypeOK, listing
  <2>2. CASE List
    BY <2>2, ListingTyped DEF List, TypeOK, RepositoryTypeOK, repository, Running
  <2>3. CASE UNCHANGED vars
    BY <2>3 DEF vars, TypeOK, RepositoryTypeOK, ListingTypeOK, repository, listing, Running
  <2> QED  BY <2>1, <2>2, <2>3 DEF Next
<1> QED  BY <1>1, <1>2, PTL DEF Spec

(***************************************************************************)
(* Sessions are kept apart, and publish whole units.                       *)
(***************************************************************************)
\* No row is written by two sessions, and no key claimed by two.
Apart ==
  \A r, s \in Sessions : r # s =>
    /\ Touched(pending[r]) \cap Touched(pending[s]) = {}
    /\ Claims(table, pending[r]) \cap Claims(table, pending[s]) = {}

\* Keys are unique in the table and in what each session sees.
Unique == UniqueKey(table) /\ \A s \in Sessions : UniqueKey(View(s))

\* What a session had written before its call it has written still.
Grows ==
  \A s \in Sessions :
    pc[s] \in {"working", "committing"} => Touched(before[s]) \subseteq Touched(pending[s])

IInv == RepositoryTypeOK /\ Apart /\ Unique /\ Grows

\* A statement writes rows and keys that are free.
LEMMA ExecuteKeepsApart ==
  ASSUME IInv, NEW s \in Sessions, Execute(s)
  PROVE  Apart' /\ Unique' /\ Grows'
<1> USE DEF IInv, RepositoryTypeOK
<1>1. PICK w : /\ Free(s, w) /\ UniqueKey(Written(View(s), w))
               /\ pending' = [pending EXCEPT ![s] = Written(pending[s], w)]
  BY DEF Execute
<1>2. table' = table /\ before' = before
  BY DEF Execute
<1>3. pending'[s] = Written(pending[s], w) /\ \A r \in Sessions \ {s} : pending'[r] = pending[r]
  BY <1>1
<1>4. Touched(pending'[s]) = Touched(pending[s]) \cup Touched(w)
  BY <1>3, WrittenTwice
<1>5. Claims(table, pending'[s]) \subseteq Claims(table, pending[s]) \cup Claims(View(s), w)
  BY <1>3, ClaimsOfBoth DEF View
<1>6. \A r \in Sessions \ {s} :
        /\ Touched(pending'[s]) \cap Touched(pending[r]) = {}
        /\ Claims(table, pending'[s]) \cap Claims(table, pending[r]) = {}
  <2>1. \A r \in Sessions \ {s} :
          /\ Touched(w) \cap Touched(pending[r]) = {}
          /\ Claims(View(s), w) \cap Claims(table, pending[r]) = {}
    BY <1>1 DEF Free
  <2> QED  BY <1>4, <1>5, <2>1 DEF Apart
<1>7. Apart'
  <2> SUFFICES ASSUME NEW q \in Sessions, NEW r \in Sessions, q # r
               PROVE  /\ Touched(pending'[q]) \cap Touched(pending'[r]) = {}
                      /\ Claims(table', pending'[q]) \cap Claims(table', pending'[r]) = {}
    BY DEF Apart
  <2>1. CASE q = s
    BY <1>2, <1>3, <1>6, <2>1
  <2>2. CASE r = s
    BY <1>2, <1>3, <1>6, <2>2
  <2>3. CASE q # s /\ r # s
    BY <1>2, <1>3, <2>3 DEF Apart
  <2> QED  BY <2>1, <2>2, <2>3
<1>8. Unique'
  <2>1. Written(table, pending'[s]) = Written(View(s), w)
    BY <1>3, WrittenTwice DEF View
  <2>2. UniqueKey(Written(table, pending'[s]))
    BY <1>1, <2>1
  <2>3. \A r \in Sessions \ {s} : UniqueKey(Written(table, pending'[r]))
    BY <1>3 DEF Unique, View
  <2> QED  BY <1>2, <2>2, <2>3 DEF Unique, View
<1>9. Grows'
  <2>1. \A r \in Sessions \ {s} : pc'[r] = pc[r]
    BY DEF Execute, Answer
  <2>2. pc[s] = "working"
    BY DEF Execute
  <2> QED  BY <1>2, <1>3, <1>4, <2>1, <2>2 DEF Grows
<1> QED  BY <1>7, <1>8, <1>9

\* To give up what it has written, a session needs nothing of the others.
LEMMA DroppedKeepsApart ==
  ASSUME IInv, NEW s \in Sessions, table' = table, pending' = [pending EXCEPT ![s] = Nothing]
  PROVE  Apart' /\ Unique'
<1> USE DEF IInv, RepositoryTypeOK
<1>1. pending'[s] = Nothing /\ \A r \in Sessions \ {s} : pending'[r] = pending[r]
  OBVIOUS
<1>2. Apart'
  BY <1>1, NothingIsClaimed DEF Apart
<1>3. Unique'
  BY <1>1, NothingIsClaimed DEF Unique, View
<1> QED  BY <1>2, <1>3

\* What a session publishes leaves the rows and keys of the others alone.
LEMMA PublishedKeepsApart ==
  ASSUME IInv, NEW s \in Sessions, table' = View(s), pending' = [pending EXCEPT ![s] = Nothing]
  PROVE  Apart' /\ Unique'
<1> USE DEF IInv, RepositoryTypeOK
<1>1. pending'[s] = Nothing /\ \A r \in Sessions \ {s} : pending'[r] = pending[r]
  OBVIOUS
<1>2. ASSUME NEW r \in Sessions \ {s}
      PROVE  Claims(table', pending[r]) = Claims(table, pending[r])
  <2>1. \A i \in Touched(pending[r]) : i \in Ids /\ i \notin Touched(pending[s])
    BY DEF Apart, Touched
  <2>2. \A i \in Touched(pending[r]) : table'[i] = table[i]
    BY <2>1 DEF View, Written, Touched
  <2> QED  BY <2>2 DEF Claims
<1>3. Apart'
  BY <1>1, <1>2, NothingIsClaimed DEF Apart
<1>4. UniqueKey(table')
  BY DEF Unique
<1>5. ASSUME NEW r \in Sessions \ {s}
      PROVE  UniqueKey(Written(table', pending[r]))
  BY ViewAfterCommit DEF Apart, Unique, View
<1>6. Unique'
  BY <1>1, <1>4, <1>5, NothingIsClaimed DEF Unique, View
<1> QED  BY <1>3, <1>6

\* Sessions stay apart, and keys unique, in every reachable state.
THEOREM SessionsStayApart == Spec => []IInv
<1>1. Init => IInv
  <2> SUFFICES ASSUME Init PROVE IInv
    OBVIOUS
  <2>1. RepositoryTypeOK
    <3>1. Nothing \in Writes
      BY DEF Nothing, Writes
    <3> QED  BY <3>1, ProgramsAssumption DEF Init, RepositoryInit, RepositoryTypeOK
  <2>2. \A s \in Sessions : pending[s] = Nothing /\ pc[s] = "open"
    BY DEF Init, RepositoryInit
  <2>3. UniqueKey(table)
    BY DEF Init, RepositoryInit
  <2> QED  BY <2>1, <2>2, <2>3, NothingIsClaimed DEF IInv, Apart, Unique, Grows, View
<1>2. IInv /\ [Next]_vars => IInv'
  <2> SUFFICES ASSUME IInv, [Next]_vars PROVE IInv'
    OBVIOUS
  <2> USE DEF IInv
  <2>1. CASE UNCHANGED repository
    <3> USE <2>1 DEF repository
    <3>1. RepositoryTypeOK'
      BY DEF RepositoryTypeOK, Running
    <3> QED  BY <3>1 DEF Apart, Unique, Grows, View
  <2>2. CASE RepositoryNext
    <3>1. RepositoryTypeOK'
      BY <2>2, RepositoryTyped
    <3>2. PICK s \in Sessions :
            \/ Begin(s) \/ Execute(s) \/ Fail(s) \/ CommitCall(s) \/ CommitLost(s)
            \/ ReadBack(s) \/ End(s)
      BY <2>2 DEF RepositoryNext
    <3> USE DEF RepositoryTypeOK
    <3>3. CASE Execute(s)
      BY <3>1, <3>3, ExecuteKeepsApart
    <3>4. CASE Begin(s)
      BY <3>1, <3>4 DEF Begin, Apart, Unique, Grows, View
    <3>5. CASE ReadBack(s)
      BY <3>1, <3>5 DEF ReadBack, Apart, Unique, Grows, View
    <3>6. CASE Fail(s) \/ End(s)
      <4>1. Apart' /\ Unique'
        BY <3>6, DroppedKeepsApart DEF Fail, End
      <4>2. Grows'
        BY <3>6 DEF Fail, End, Grows
      <4> QED  BY <3>1, <4>1, <4>2
    <3>7. CASE CommitCall(s) \/ CommitLost(s)
      <4>1. pending' = [pending EXCEPT ![s] = Nothing] /\ (table' = View(s) \/ table' = table)
        BY <3>7 DEF CommitCall, CommitLost
      <4>2. Apart' /\ Unique'
        BY <4>1, DroppedKeepsApart, PublishedKeepsApart
      <4>3. /\ pc'[s] \notin {"working", "committing"} /\ before' = before
            /\ \A r \in Sessions \ {s} : pc'[r] = pc[r]
        BY <3>7 DEF CommitCall, CommitLost, Answer
      <4>4. Grows'
        BY <4>1, <4>3 DEF Grows
      <4> QED  BY <3>1, <4>2, <4>4
    <3> QED  BY <3>2, <3>3, <3>4, <3>5, <3>6, <3>7
  <2> QED  BY <2>1, <2>2 DEF Next, Write, List, vars, repository
<1> QED  BY <1>1, <1>2, PTL DEF Spec

(***************************************************************************)
(* The refinement.                                                         *)
(***************************************************************************)
\* A unit takes up no more than its session has written.
LEMMA UnitsAreWritten ==
  ASSUME IInv, NEW s \in Sessions
  PROVE  Touched(unit[s]) \subseteq Touched(pending[s])
  BY DEF IInv, Grows, unit

\* The operators of UnitOfWork are those of Records.
LEMMA SameRecords ==
  /\ UOW!Nothing = Nothing
  /\ \A w : UOW!Touched(w) = Touched(w)
  /\ \A t, w : UOW!Written(t, w) = Written(t, w)
  /\ \A t : UOW!UniqueKey(t) = UniqueKey(t)
  BY DEF UOW!Nothing, Nothing, UOW!Touched, Touched, UOW!Written, Written, UOW!UniqueKey, UniqueKey

\* A session drops its unit when it fails, or ends.
LEMMA DropsUnit ==
  ASSUME IInv, NEW s \in Sessions, table' = table, pending' = [pending EXCEPT ![s] = Nothing],
         pc'[s] \notin {"working", "committing"},
         \A r \in Sessions \ {s} :
           pc'[r] = pc[r] /\ program'[r] = program[r] /\ done'[r] = done[r] /\ before'[r] = before[r]
  PROVE  UOW!Drop(s)
<1>1. pending'[s] = Nothing /\ \A r \in Sessions \ {s} : pending'[r] = pending[r]
  BY DEF IInv, RepositoryTypeOK
<1>2. unit' = [unit EXCEPT ![s] = Nothing]
  <2>1. unit'[s] = Nothing
    BY <1>1 DEF unit
  <2>2. \A r \in Sessions \ {s} : unit'[r] = unit[r]
    BY <1>1 DEF unit, Running
  <2>3. unit = [r \in Sessions |-> unit[r]] /\ unit' = [r \in Sessions |-> unit'[r]]
    BY DEF unit
  <2> QED  BY <2>1, <2>2, <2>3
<1> QED  BY <1>2, SameRecords DEF UOW!Drop

\* A commit publishes what the calls of the session have written.
LEMMA PublishesUnit ==
  ASSUME IInv, NEW s \in Sessions, pc[s] = "committing", table' = View(s),
         pending' = [pending EXCEPT ![s] = Nothing], pc'[s] \notin {"working", "committing"},
         \A r \in Sessions \ {s} :
           pc'[r] = pc[r] /\ program'[r] = program[r] /\ done'[r] = done[r] /\ before'[r] = before[r]
  PROVE  UOW!Publish(s)
<1>1. pending'[s] = Nothing /\ \A r \in Sessions \ {s} : pending'[r] = pending[r]
  BY DEF IInv, RepositoryTypeOK
<1>2. unit' = [unit EXCEPT ![s] = Nothing]
  <2>1. unit'[s] = Nothing
    BY <1>1 DEF unit
  <2>2. \A r \in Sessions \ {s} : unit'[r] = unit[r]
    BY <1>1 DEF unit, Running
  <2>3. unit = [r \in Sessions |-> unit[r]] /\ unit' = [r \in Sessions |-> unit'[r]]
    BY DEF unit
  <2> QED  BY <2>1, <2>2, <2>3
<1>3. done[s] \in Nat /\ done[s] = Statements(Running(s))
  BY DEF IInv, RepositoryTypeOK
<1>4. unit[s] = pending[s]
  BY <1>3 DEF unit
<1>5. UniqueKey(table') /\ table' = Written(table, unit[s])
  BY <1>4 DEF IInv, Unique, View
<1> QED  BY <1>2, <1>5, SameRecords DEF UOW!Publish

\* A statement that is not the last of its call changes no unit, and the last one
\* extends that of its session.
LEMMA ExtendsUnit ==
  ASSUME IInv, NEW s \in Sessions, Execute(s)
  PROVE  UNCHANGED <<table, unit>> \/ UOW!Extend(s)
<1> USE DEF IInv, RepositoryTypeOK
<1>1. pc[s] = "working" /\ done[s] < Statements(Running(s)) /\ table' = table /\ before' = before
  BY DEF Execute
<1>2. \A r \in Sessions \ {s} :
        pc'[r] = pc[r] /\ program'[r] = program[r] /\ done'[r] = done[r] /\ pending'[r] = pending[r]
  BY DEF Execute, Answer
<1>3. \A r \in Sessions \ {s} : unit'[r] = unit[r]
  BY <1>1, <1>2 DEF unit, Running
<1>4. unit'[s] \in {unit[s], pending'[s]}
  BY <1>1 DEF unit
<1>5. CASE unit'[s] = unit[s]
  BY <1>1, <1>3, <1>5 DEF unit
<1>6. CASE unit'[s] = pending'[s]
  <2>1. \A r \in Sessions \ {s} : Touched(pending'[s]) \cap Touched(pending'[r]) = {}
    BY ExecuteKeepsApart DEF Apart
  <2>2. \A r \in Sessions \ {s} : Touched(unit[r]) \subseteq Touched(pending[r])
    BY UnitsAreWritten
  <2>3. \A r \in Sessions \ {s} : Touched(unit'[s]) \cap Touched(unit[r]) = {}
    BY <1>2, <1>6, <2>1, <2>2
  <2> QED  BY <1>1, <1>3, <2>3, SameRecords DEF UOW!Extend
<1> QED  BY <1>4, <1>5, <1>6

\* The operations implement UnitOfWork: for any number of sessions and any programs,
\* calls are published together with the calls since the last commit, whole, or dropped.
THEOREM PublishesWholeUnits == Spec => WorksInUnits
<1>1. Init => UOW!Init
  <2> SUFFICES ASSUME Init PROVE UOW!Init
    OBVIOUS
  <2>1. unit = [s \in Sessions |-> Nothing] /\ UniqueKey(table)
    BY DEF Init, RepositoryInit, unit
  <2> QED  BY <2>1, SameRecords DEF UOW!Init
<1>2. IInv /\ [Next]_vars => [UOW!Next]_<<table, unit>>
  <2> SUFFICES ASSUME IInv, [Next]_vars PROVE [UOW!Next]_<<table, unit>>
    OBVIOUS
  <2>1. CASE UNCHANGED repository
    BY <2>1 DEF repository, unit, Running
  <2>2. CASE RepositoryNext
    <3>1. PICK s \in Sessions :
            \/ Begin(s) \/ Execute(s) \/ Fail(s) \/ CommitCall(s) \/ CommitLost(s)
            \/ ReadBack(s) \/ End(s)
      BY <2>2 DEF RepositoryNext
    <3> USE DEF IInv, RepositoryTypeOK
    <3>2. CASE Begin(s)
      <4>1. \A r \in Sessions \ {s} :
              pc'[r] = pc[r] /\ program'[r] = program[r] /\ done'[r] = done[r] /\ before'[r] = before[r]
        BY <3>2 DEF Begin
      <4>2. pc[s] = "open" /\ pending' = pending /\ table' = table
        BY <3>2 DEF Begin
      <4>3. pc'[s] = "open" \/ pc'[s] = "raised" \/ before'[s] = pending[s]
        BY <3>2 DEF Begin
      <4>4. pc'[s] # "committing"
        BY <3>2 DEF Begin
      <4>5. unit'[s] = unit[s]
        BY <4>2, <4>3, <4>4 DEF unit
      <4>6. \A r \in Sessions \ {s} : unit'[r] = unit[r]
        BY <4>1, <4>2 DEF unit, Running
      <4> QED  BY <4>2, <4>5, <4>6 DEF unit
    <3>3. CASE Execute(s)
      BY <3>3, ExtendsUnit DEF UOW!Next
    <3>4. CASE Fail(s) \/ End(s)
      <4>1. UOW!Drop(s)
        BY <3>4, DropsUnit DEF Fail, End
      <4> QED  BY <4>1 DEF UOW!Next
    <3>5. CASE CommitCall(s) \/ CommitLost(s)
      <4>1. /\ pending' = [pending EXCEPT ![s] = Nothing] /\ (table' = View(s) \/ table' = table)
            /\ pc[s] = "committing" /\ pc'[s] \notin {"working", "committing"}
            /\ done' = done /\ before' = before
            /\ \A r \in Sessions \ {s} : pc'[r] = pc[r] /\ program'[r] = program[r]
        BY <3>5 DEF CommitCall, CommitLost, Answer
      <4>2. UOW!Drop(s) \/ UOW!Publish(s)
        BY <4>1, DropsUnit, PublishesUnit
      <4> QED  BY <4>2 DEF UOW!Next
    <3>6. CASE ReadBack(s)
      <4>1. \A r \in Sessions \ {s} : pc'[r] = pc[r] /\ program'[r] = program[r]
        BY <3>6 DEF ReadBack
      <4>2. pc[s] = "reading" /\ pc'[s] = "open" /\ UNCHANGED <<table, pending, done, before>>
        BY <3>6 DEF ReadBack
      <4> QED  BY <4>1, <4>2 DEF unit, Running
    <3> QED  BY <3>1, <3>2, <3>3, <3>4, <3>5, <3>6
  <2> QED  BY <2>1, <2>2 DEF Next, Write, List, vars, repository
<1> QED  BY <1>1, <1>2, SessionsStayApart, PTL DEF Spec, WorksInUnits, UOW!Spec


(***************************************************************************)
(* The pages.                                                              *)
(***************************************************************************)
\* The rows that the page p leaves to the pages before it.
Start(p) == (p - 1) * query.size

\* The pages are cut one after another.
LEMMA PagesFollow ==
  ASSUME query.size \in Nat \ {0}
  PROVE  /\ \A p \in Int : Start(p) \in Int /\ Start(p + 1) = Start(p) + query.size
         /\ Start(1) = 0
         /\ \A p, q \in Int : p < q => Start(p) + query.size <= Start(q)
<1> DEFINE n == query.size
<1>0. n \in Nat /\ n >= 1
  OBVIOUS
<1>1. \A p \in Int : Start(p) \in Int /\ Start(p + 1) = Start(p) + n
  BY DEF Start
<1>2. Start(1) = 0
  BY DEF Start
<1>3. ASSUME NEW p \in Int, NEW q \in Int, p < q
      PROVE  Start(p) + n <= Start(q)
  <2>1. PICK d \in Nat : q = p + 1 + d
    <3>1. q - p - 1 \in Nat /\ q = p + 1 + (q - p - 1)
      BY <1>3
    <3> QED  BY <3>1
  <2>2. d * n \in Nat
    BY <1>0
  <2> HIDE DEF n
  <2>3. (q - 1) * n = (p - 1) * n + n + d * n
    <3>1. q - 1 = p + d
      BY <2>1
    <3>2. (p + d) * n = (p - 1) * n + n + d * n
      BY <1>0
    <3> QED  BY <3>1, <3>2
  <2> QED  BY <1>0, <2>2, <2>3 DEF Start, n
<1> QED  BY <1>1, <1>2, <1>3

\* Every number is a place on one page.
LEMMA PlaceOf ==
  ASSUME query.size \in Nat \ {0}, NEW m \in Nat \ {0}
  PROVE  \E p \in Nat \ {0}, k \in 1 .. query.size : m = Start(p) + k
<1> DEFINE n == query.size
           far == {p \in Nat : m <= Start(p + 1)}
<1>1. m \in far
  <2>1. Start(m + 1) = m * n
    BY DEF Start
  <2>2. m * n >= m
    OBVIOUS
  <2> QED  BY <2>1, <2>2
<1>2. PICK p \in far : \A q \in far : p <= q
  BY <1>1, Least
<1>3. p >= 1
  <2>1. p \in Nat /\ m <= Start(p + 1) /\ Start(1) = 0
    BY <1>2, PagesFollow
  <2>2. p # 0
    <3>1. ASSUME p = 0 PROVE p + 1 = 1
      BY <3>1
    <3> QED  BY <2>1, <3>1
  <2> QED  BY <2>1, <2>2
<1>4. p - 1 \in Nat /\ p - 1 \notin far
  BY <1>2, <1>3
<1>5. Start(p) < m /\ m <= Start(p) + n
  <2>0. p \in Int
    BY <1>2
  <2>1. Start(p) \in Int /\ Start(p + 1) = Start(p) + n
    BY <2>0, PagesFollow
  <2>2. p - 1 + 1 = p
    BY <1>2
  <2> QED  BY <1>2, <1>4, <2>1, <2>2
<1>6. m - Start(p) \in 1 .. n /\ m = Start(p) + (m - Start(p))
  <2>1. Start(p) \in Int
    BY <1>2, PagesFollow
  <2> QED  BY <1>5, <2>1
<1> QED  BY <1>2, <1>3, <1>6

\* And on one only.
LEMMA OnePlace ==
  ASSUME query.size \in Nat \ {0}, NEW p \in Int, NEW q \in Int,
         NEW j \in 1 .. query.size, NEW k \in 1 .. query.size, Start(p) + j = Start(q) + k
  PROVE  p = q /\ j = k
<1>1. Start(p) \in Int /\ Start(q) \in Int
  BY PagesFollow
<1>2. ~(p < q) /\ ~(q < p)
  <2>1. CASE p < q
    <3>1. Start(p) + query.size <= Start(q)
      BY <2>1, PagesFollow
    <3> QED  BY <1>1, <3>1
  <2>2. CASE q < p
    <3>1. Start(q) + query.size <= Start(p)
      BY <2>2, PagesFollow
    <3> QED  BY <1>1, <3>1
  <2> QED  BY <2>1, <2>2
<1>3. p = q
  BY <1>2
<1> QED  BY <1>1, <1>3

\* An arrangement has every row that the filter asks for, at one place.
LEMMA ArrangementIsWhole ==
  ASSUME NEW t, NEW q, NEW f \in Arrangements(t, q)
  PROVE  LET ids == Matching(t, q)
             n == Cardinality(ids)
         IN  /\ n \in Nat /\ f \in Seq(ids) /\ Len(f) = n /\ DOMAIN f = 1 .. n
             /\ \A j, k \in 1 .. n : f[j] = f[k] => j = k
             /\ \A i \in ids : \E k \in 1 .. n : f[k] = i
<1> DEFINE ids == Matching(t, q)
           n == Cardinality(ids)
<1>1. IsFiniteSet(ids)
  BY PaginationAssumption, FS_Subset DEF Matching
<1>2. n \in Nat
  BY <1>1, FS_CardinalityType
<1>3. f \in [1 .. n -> ids] /\ \A j, k \in 1 .. n : j < k => f[j] # f[k]
  BY DEF Arrangements
<1> HIDE DEF n, ids
<1>4. \A j, k \in 1 .. n : f[j] = f[k] => j = k
  <2> SUFFICES ASSUME NEW j \in 1 .. n, NEW k \in 1 .. n, f[j] = f[k] PROVE j = k
    OBVIOUS
  <2>1. ~(j < k) /\ ~(k < j)
    BY <1>3
  <2> QED  BY <1>2, <2>1
<1>5. f \in Injection(1 .. n, ids)
  BY <1>3, <1>4 DEF Injection, IsInjective
<1>6. Cardinality(1 .. n) = Cardinality(ids)
  <2>1. 1 \in Int /\ n \in Int
    BY <1>2
  <2>2. Cardinality(1 .. n) = IF 1 > n THEN 0 ELSE n - 1 + 1
    BY <2>1, FS_Interval
  <2>3. Cardinality(1 .. n) = n
    BY <1>2, <2>2
  <2> QED  BY <2>3 DEF n
<1>7. f \in Surjection(1 .. n, ids)
  BY <1>1, <1>5, <1>6, FS_Injection
<1>8. \A i \in ids : \E k \in 1 .. n : f[k] = i
  BY <1>7 DEF Surjection
<1>9. f \in Seq(ids) /\ Len(f) = n
  BY <1>2, <1>3
<1> QED  BY <1>2, <1>3, <1>4, <1>8, <1>9 DEF n, ids

\* Sort fields that include the key put any two rows in order.
LEMMA RowsAreInOrder ==
  ASSUME query \in Queries, Total, NEW a, NEW b, a.key \in Int, b.key \in Int, a.key # b.key
  PROVE  Precedes(query, a, b) \/ Precedes(query, b, a)
<1> DEFINE differ == {k \in DOMAIN query.sort : Before(query.sort[k], a, b) \/ Before(query.sort[k], b, a)}
<1>1. differ # {} /\ differ \subseteq Nat
  <2>1. PICK k \in DOMAIN query.sort : query.sort[k].name = "key"
    BY DEF Total
  <2>2. Less(a.key, b.key) \/ Less(b.key, a.key)
    BY RecordsAssumption DEF Less
  <2>3. query.sort \in Seq([name : STRING, dashes : Nat])
    BY ListingAssumption DEF Query
  <2> QED  BY <2>1, <2>2, <2>3 DEF Before
<1>2. PICK k \in differ : \A j \in differ : k <= j
  BY <1>1, Least
<1>3. 1 .. k - 1 \subseteq DOMAIN query.sort
  <2>1. query.sort \in Seq([name : STRING, dashes : Nat])
    BY ListingAssumption DEF Query
  <2> QED  BY <2>1
<1>4. \A j \in 1 .. k - 1 : j \notin differ
  BY <1>1, <1>2
<1>5. \A j \in 1 .. k - 1 : ~Before(query.sort[j], a, b) /\ ~Before(query.sort[j], b, a)
  BY <1>3, <1>4
<1> QED  BY <1>2, <1>5 DEF Precedes

\* So there is one arrangement only.
LEMMA OneArrangement ==
  ASSUME query \in Queries, Total, table \in Table, UniqueKey(table),
         NEW f \in Arrangements(table, query), NEW g \in Arrangements(table, query)
  PROVE  f = g
<1> DEFINE ids == Matching(table, query)
           n == Cardinality(ids)
<1>1. /\ n \in Nat /\ f \in [1 .. n -> ids] /\ g \in [1 .. n -> ids]
      /\ \A i \in ids : \E k \in 1 .. n : f[k] = i
      /\ \A i \in ids : \E k \in 1 .. n : g[k] = i
  <2>1. f \in [1 .. n -> ids] /\ g \in [1 .. n -> ids]
    BY DEF Arrangements
  <2> QED  BY <2>1, ArrangementIsWhole
<1>2. \A j, k \in 1 .. n : j < k =>
         ~Precedes(query, table[f[k]], table[f[j]]) /\ ~Precedes(query, table[g[k]], table[g[j]])
  BY DEF Arrangements
<1>3. \A a, b \in ids : a # b =>
         Precedes(query, table[a], table[b]) \/ Precedes(query, table[b], table[a])
  <2> SUFFICES ASSUME NEW a \in ids, NEW b \in ids, a # b
               PROVE  Precedes(query, table[a], table[b]) \/ Precedes(query, table[b], table[a])
    OBVIOUS
  <2>1. a \in Ids /\ b \in Ids /\ table[a] # NoRow /\ table[b] # NoRow
    BY DEF Matching
  <2>2. table[a] \in Row /\ table[b] \in Row
    BY <2>1 DEF Table
  <2>3. table[a].key \in Int /\ table[b].key \in Int
    BY <2>2, RecordsAssumption DEF Row
  <2>4. table[a].key # table[b].key
    BY <2>1 DEF UniqueKey
  <2> QED  BY <2>3, <2>4, RowsAreInOrder
<1> HIDE DEF ids, n
<1> DEFINE differ == {k \in 1 .. n : f[k] # g[k]}
<1>4. differ = {}
  <2> SUFFICES ASSUME differ # {} PROVE FALSE
    OBVIOUS
  <2>1. differ \subseteq Nat
    BY <1>1
  <2>2. PICK k \in differ : \A j \in differ : k <= j
    BY <2>1, Least
  <2>3. k \in 1 .. n /\ f[k] # g[k] /\ f[k] \in ids /\ g[k] \in ids
    BY <1>1, <2>2
  <2>4. \A j \in 1 .. n : j < k => f[j] = g[j]
    BY <1>1, <2>2
  <2>5. PICK j \in 1 .. n : g[j] = f[k]
    BY <1>1, <2>3
  <2>6. PICK l \in 1 .. n : f[l] = g[k]
    BY <1>1, <2>3
  <2>7. k < j
    <3>1. j # k
      BY <2>3, <2>5
    <3>2. ~(j < k)
      <4>1. ASSUME j < k PROVE FALSE
        <5>1. f[j] = f[k]
          BY <2>4, <2>5, <4>1
        <5> QED  BY <2>3, <4>1, <5>1 DEF Arrangements, n, ids
      <4> QED  BY <4>1
    <3> QED  BY <1>1, <2>3, <3>1, <3>2
  <2>8. k < l
    <3>1. l # k
      BY <2>3, <2>6
    <3>2. ~(l < k)
      <4>1. ASSUME l < k PROVE FALSE
        <5>1. g[l] = g[k]
          BY <2>4, <2>6, <4>1
        <5> QED  BY <2>3, <4>1, <5>1 DEF Arrangements, n, ids
      <4> QED  BY <4>1
    <3> QED  BY <1>1, <2>3, <3>1, <3>2
  <2>9. ~Precedes(query, table[g[k]], table[f[k]])
    BY <1>2, <2>3, <2>6, <2>8
  <2>10. ~Precedes(query, table[f[k]], table[g[k]])
    BY <1>2, <2>3, <2>5, <2>7
  <2> QED  BY <1>3, <2>3, <2>9, <2>10
<1>5. \A k \in 1 .. n : f[k] = g[k]
  BY <1>4
<1> QED  BY <1>1, <1>5

\* What a page shows.
LEMMA PageHas ==
  ASSUME query.size \in Nat \ {0}, NEW t, NEW f \in Arrangements(t, query), NEW p \in Nat \ {0},
         Start(p) <= Cardinality(Matching(t, query))
  PROVE  LET n == Cardinality(Matching(t, query))
             shows == PageOf(f, p, query.size)
         IN  /\ DOMAIN shows = {k \in 1 .. query.size : Start(p) + k <= n}
             /\ \A k \in DOMAIN shows : shows[k] = f[Start(p) + k]
             /\ shows = << >> => n <= Start(p)
<1> DEFINE n == Cardinality(Matching(t, query))
           m == Start(p)
           e == IF m + query.size < n THEN m + query.size ELSE n
           shows == PageOf(f, p, query.size)
<1>1. n \in Nat /\ f \in Seq(Matching(t, query)) /\ Len(f) = n
  BY ArrangementIsWhole
<1>2. m \in Nat /\ p * query.size = m + query.size
  <2>1. p * query.size = Start(p + 1) /\ Start(p + 1) = m + query.size
    BY PagesFollow DEF Start
  <2>2. m \in Int /\ (p = 1 \/ 1 < p) /\ Start(1) = 0
    BY PagesFollow
  <2>3. CASE p = 1
    BY <2>1, <2>2, <2>3
  <2>4. CASE 1 < p
    <3>1. Start(1) + query.size <= m
      BY <2>4, PagesFollow
    <3> QED  BY <2>1, <2>2, <3>1
  <2> QED  BY <2>2, <2>3, <2>4
<1>3. shows = SubSeq(f, m + 1, e)
  BY <1>1, <1>2 DEF PageOf, Start
<1>4. m <= n
  OBVIOUS
<1> HIDE DEF n, m, shows
<1>5. e \in Nat /\ m <= e /\ e <= n /\ e <= m + query.size
  BY <1>1, <1>2, <1>4
<1> HIDE DEF e
<1>6. Len(shows) = e - m /\ DOMAIN shows = 1 .. e - m /\ \A k \in 1 .. e - m : shows[k] = f[m + k]
  BY <1>1, <1>2, <1>3, <1>5
<1>7. 1 .. e - m = {k \in 1 .. query.size : m + k <= n}
  BY <1>1, <1>2, <1>4 DEF e
<1>8. shows = << >> => n <= m
  <2>1. shows = << >> => e - m = 0
    BY <1>5, <1>6
  <2> QED  BY <1>1, <1>2, <1>5, <2>1 DEF e
<1> QED  BY <1>6, <1>7, <1>8 DEF n, m, shows

\* The page p was read off an order of the rows as they are.
PageRead(p) == \E f \in Arrangements(table, query) : shown[p] = PageOf(f, p, query.size)

\* As long as nobody has changed the table, each page that was shown is the page of its
\* number, the count is that of the rows, and a next page is asked for only while rows
\* are left. Without pages there is one answer, of the first Limit rows.
PagesInv ==
  /\ Len(shown) = IF phase \in {"answered", "done"} THEN page ELSE page - 1
  /\ query.paged \/ (page = 1 /\ phase \in {"asked", "done"})
  /\ steady /\ query.paged =>
       /\ \A p \in DOMAIN shown : PageRead(p)
       /\ phase \in {"counted", "answered", "done"} => total = Cardinality(Matching(table, query))
       /\ page > 1 => Start(page) < Cardinality(Matching(table, query))
       /\ phase = "done" => total <= Start(page + 1)
  /\ steady /\ ~query.paged /\ phase = "done" =>
       \E f \in Arrangements(table, query) : shown = <<PageOf(f, 1, Limit)>>

\* The listing keeps it while the table stays as it is.
LEMMA PagesStep ==
  ASSUME TypeOK, PagesInv, ListingNext, UNCHANGED table,
         steady' = (steady \/ (page = 1 /\ phase = "asked"))
  PROVE  PagesInv'
<1> USE DEF TypeOK, ListingTypeOK, PagesInv
<1>1. page \in Nat /\ page >= 1 /\ shown \in Seq(Seq(Ids)) /\ query \in Query
  BY ListingAssumption
<1>2. ASSUME query' = query
      PROVE  /\ Arrangements(table, query)' = Arrangements(table, query)
             /\ Matching(table, query)' = Matching(table, query)
             /\ \A p : Start(p)' = Start(p)
  BY <1>2 DEF Arrangements, Matching, Start, Precedes
<1>3. phase = "asked" /\ page = 1 => shown = << >>
  BY <1>1
<1>4. CASE Validate
  <2>1. /\ query' = query /\ page' = page /\ shown' = shown /\ query.paged /\ phase = "asked"
        /\ phase' \in {"accepted", "refused"}
    BY <1>4 DEF Validate
  <2> QED  BY <1>1, <1>2, <1>3, <2>1 DEF PageRead
<1>5. CASE Count
  <2>1. /\ query' = query /\ page' = page /\ shown' = shown /\ phase = "accepted"
        /\ phase' = "refused" \/ (phase' = "counted" /\ total' = Cardinality(Matching(table, query)))
    BY <1>5 DEF Count
  <2> QED  BY <1>1, <1>2, <2>1 DEF PageRead
<1>6. CASE ReadPage
  <2>1. PICK f \in Arrangements(table, query) : shown' = Append(shown, PageOf(f, page, query.size))
    BY <1>6 DEF ReadPage
  <2>2. phase = "counted" /\ phase' = "answered" /\ UNCHANGED <<query, page, total>>
    BY <1>6 DEF ReadPage
  <2>3. Len(shown) = page - 1 /\ Len(shown') = page /\ DOMAIN shown' = 1 .. page
    BY <1>1, <2>1, <2>2
  <2>4. \A p \in 1 .. page : shown'[p] = IF p = page THEN PageOf(f, page, query.size) ELSE shown[p]
    BY <1>1, <2>1, <2>3
  <2>5. \A p \in 1 .. page : p # page => p \in DOMAIN shown
    BY <1>1, <2>3
  <2>6. steady' /\ query.paged => \A p \in DOMAIN shown' : PageRead(p)'
    <3>1. ASSUME steady, query.paged, NEW p \in 1 .. page
          PROVE  \E g \in Arrangements(table, query) : shown'[p] = PageOf(g, p, query.size)
      BY <2>4, <2>5, <3>1 DEF PageRead
    <3> QED  BY <1>2, <2>2, <2>3, <3>1 DEF PageRead
  <2> QED  BY <1>1, <1>2, <2>2, <2>3, <2>6
<1>7. CASE NextPage
  <2>1. /\ phase = "answered" /\ UNCHANGED <<query, total, shown>>
        /\ IF page * query.size < total THEN page' = page + 1 /\ phase' = "asked"
           ELSE phase' = "done" /\ page' = page
    BY <1>7 DEF NextPage
  <2>2. Start(page + 1) = page * query.size /\ page * query.size \in Nat /\ total \in Nat
    BY <1>1 DEF Start, Query
  <2>3. /\ \A p : PageRead(p)' = PageRead(p)
        /\ Matching(table, query)' = Matching(table, query)
        /\ steady' => steady
    BY <1>2, <2>1 DEF PageRead
  <2>4. CASE page * query.size < total
    <3>1. phase' = "asked" /\ page' = page + 1
      BY <2>1, <2>4
    <3>2. Start(page)' = page * query.size
      BY <1>1, <2>1, <3>1 DEF Start, Query
    <3>3. steady /\ query.paged => page * query.size < Cardinality(Matching(table, query))
      BY <2>1, <2>4
    <3>4. Len(shown') = page' - 1 /\ query'.paged
      BY <1>1, <2>1, <3>1
    <3>5. steady' /\ query'.paged => \A p \in DOMAIN shown' : PageRead(p)'
      BY <2>1, <2>3
    <3>6. steady' /\ query'.paged => Start(page)' < Cardinality(Matching(table, query)')
      BY <2>1, <2>3, <3>2, <3>3
    <3> QED  BY <3>1, <3>4, <3>5, <3>6
  <2>5. CASE ~(page * query.size < total)
    <3>1. phase' = "done" /\ page' = page
      BY <2>1, <2>5
    <3>2. Start(page)' = Start(page) /\ Start(page + 1)' = page * query.size
      BY <1>1, <2>1, <3>1 DEF Start, Query
    <3>3. total <= page * query.size
      BY <2>2, <2>5
    <3> QED  BY <1>1, <2>1, <2>3, <3>1, <3>2, <3>3
  <2> QED  BY <2>4, <2>5
<1>8. CASE ReadAll
  <2>1. /\ phase = "asked" /\ ~query.paged /\ phase' = "done" /\ UNCHANGED <<query, page, total>>
        /\ \E f \in Arrangements(table, query) : shown' = <<PageOf(f, 1, Limit)>>
    BY <1>8 DEF ReadAll
  <2> QED  BY <1>1, <1>2, <2>1
<1> QED  BY <1>4, <1>5, <1>6, <1>7, <1>8 DEF ListingNext

\* What the pages of a listing that is done are.
LEMMA PagesAtEnd ==
  ASSUME TypeOK, Accepted, PagesInv, phase = "done", steady, query.paged
  PROVE  LET n == Cardinality(Matching(table, query))
         IN  /\ query \in Queries /\ query.size \in Nat \ {0} /\ n \in Nat /\ page \in Nat \ {0}
             /\ DOMAIN shown = 1 .. page /\ total = n
             /\ \A p \in 1 .. page : PageRead(p) /\ Start(p) <= n /\ (n <= Start(p) => n = 0)
             /\ \A p \in Nat \ {0} : Start(p) < n => p \in 1 .. page
<1> DEFINE n == Cardinality(Matching(table, query))
<1> USE DEF TypeOK, ListingTypeOK
<1>1. query \in Queries /\ query.size \in Nat \ {0} /\ page \in Nat \ {0}
  <2>1. query.size \in Nat
    BY ListingAssumption DEF Query
  <2>2. ~(query.size < 1)
    BY DEF Accepted, Verdict
  <2> QED  BY <2>1, <2>2
<1>2. n \in Nat
  <2>1. Matching(table, query) \subseteq Ids
    BY DEF Matching
  <2> QED  BY <2>1, PaginationAssumption, FS_Subset, FS_CardinalityType
<1>3. /\ Len(shown) = page /\ total = n /\ (page > 1 => Start(page) < n) /\ total <= Start(page + 1)
      /\ \A p \in DOMAIN shown : PageRead(p)
  BY DEF PagesInv
<1>4. DOMAIN shown = 1 .. page
  BY <1>3
<1> HIDE DEF n
<1>5. ASSUME NEW p \in 1 .. page
      PROVE  Start(p) <= n /\ (n <= Start(p) => n = 0)
  <2>0. p \in Int /\ page \in Int
    BY <1>1
  <2>1. Start(p) \in Int /\ Start(page) \in Int /\ Start(1) = 0
    BY <1>1, <2>0, PagesFollow
  <2>2. CASE p = 1
    BY <1>2, <2>1, <2>2
  <2>3. CASE p # 1
    <3>1. page > 1 /\ (p = page \/ p < page)
      BY <1>1, <2>3
    <3>2. p < page => Start(p) + query.size <= Start(page)
      BY <1>1, <2>0, PagesFollow
    <3> QED  BY <1>1, <1>2, <1>3, <2>1, <3>1, <3>2
  <2> QED  BY <2>2, <2>3
<1>6. ASSUME NEW p \in Nat \ {0}, Start(p) < n
      PROVE  p \in 1 .. page
  <2>1. ~(page < p)
    <3>1. ASSUME page < p PROVE FALSE
      <4>1. page + 1 \in Int /\ p \in Int /\ (p = page + 1 \/ page + 1 < p)
        BY <1>1, <3>1
      <4>2. page + 1 < p => Start(page + 1) + query.size <= Start(p)
        BY <1>1, <4>1, PagesFollow
      <4>3. Start(page + 1) \in Int /\ Start(p) \in Int
        BY <1>1, <4>1, PagesFollow
      <4> QED  BY <1>1, <1>2, <1>3, <1>6, <4>1, <4>2, <4>3
    <3> QED  BY <3>1
  <2> QED  BY <1>1, <2>1
<1> QED  BY <1>1, <1>2, <1>3, <1>4, <1>5, <1>6 DEF n

\* The places of its rows.
Positions ==
  {pk \in (1 .. page) \X (1 .. query.size) :
     Start(pk[1]) + pk[2] <= Cardinality(Matching(table, query))}

\* There are as many as there are rows.
LEMMA PositionsCount ==
  ASSUME TypeOK, Accepted, PagesInv, phase = "done", steady, query.paged
  PROVE  Cardinality(Positions) = Cardinality(Matching(table, query))
<1> DEFINE n == Cardinality(Matching(table, query))
           at == [pk \in Positions |-> Start(pk[1]) + pk[2]]
<1>1. query.size \in Nat \ {0} /\ n \in Nat /\ page \in Nat \ {0}
      /\ \A p \in Nat \ {0} : Start(p) < n => p \in 1 .. page
  BY PagesAtEnd
<1>2. Positions = {pk \in (1 .. page) \X (1 .. query.size) : Start(pk[1]) + pk[2] <= n}
  BY DEF Positions
<1> HIDE DEF n
<1>3. IsFiniteSet(Positions)
  <2>1. 1 \in Int /\ page \in Int /\ query.size \in Int
    BY <1>1
  <2>2. IsFiniteSet(1 .. page) /\ IsFiniteSet(1 .. query.size)
    BY <2>1, FS_Interval
  <2>3. IsFiniteSet((1 .. page) \X (1 .. query.size))
    BY <2>2, FS_Product
  <2> QED  BY <1>2, <2>3, FS_Subset
<1>4. at \in [Positions -> 1 .. n]
  <2> SUFFICES ASSUME NEW pk \in Positions PROVE Start(pk[1]) + pk[2] \in 1 .. n
    OBVIOUS
  <2>1. pk[1] \in 1 .. page /\ pk[2] \in 1 .. query.size /\ Start(pk[1]) + pk[2] <= n
    BY <1>2
  <2>a. 1 \in Int /\ pk[1] \in Int /\ (pk[1] = 1 \/ 1 < pk[1])
    BY <1>1, <2>1
  <2>2. Start(pk[1]) \in Int /\ Start(1) = 0
    BY <1>1, <2>a, PagesFollow
  <2>3. 1 < pk[1] => Start(1) + query.size <= Start(pk[1])
    BY <1>1, <2>a, PagesFollow
  <2> QED  BY <1>1, <2>1, <2>a, <2>2, <2>3
<1>5. \A x, y \in Positions : at[x] = at[y] => x = y
  <2> SUFFICES ASSUME NEW x \in Positions, NEW y \in Positions, at[x] = at[y] PROVE x = y
    OBVIOUS
  <2>1. /\ x = <<x[1], x[2]>> /\ x[1] \in Int /\ x[2] \in 1 .. query.size
        /\ y = <<y[1], y[2]>> /\ y[1] \in Int /\ y[2] \in 1 .. query.size
    BY <1>1, <1>2
  <2>2. x[1] = y[1] /\ x[2] = y[2]
    BY <1>1, <2>1, OnePlace
  <2> QED  BY <2>1, <2>2
<1>6. \A m \in 1 .. n : \E x \in Positions : at[x] = m
  <2> SUFFICES ASSUME NEW m \in 1 .. n PROVE \E x \in Positions : at[x] = m
    OBVIOUS
  <2>1. PICK p \in Nat \ {0}, k \in 1 .. query.size : m = Start(p) + k
    <3>1. m \in Nat \ {0}
      BY <1>1
    <3> QED  BY <1>1, <3>1, PlaceOf
  <2>2. Start(p) < n
    <3>1. Start(p) \in Int
      BY <1>1, <2>1, PagesFollow
    <3> QED  BY <1>1, <2>1, <3>1
  <2>3. <<p, k>> \in Positions
    BY <1>1, <1>2, <2>1, <2>2
  <2> QED  BY <2>1, <2>3
<1>7. at \in Bijection(Positions, 1 .. n)
  BY <1>4, <1>5, <1>6 DEF Bijection, Injection, Surjection, IsInjective
<1>8. Cardinality(1 .. n) = Cardinality(Positions)
  BY <1>3, <1>7, FS_Bijection DEF ExistsBijection
<1>9. Cardinality(1 .. n) = n
  <2>1. 1 \in Int /\ n \in Int
    BY <1>1
  <2>2. Cardinality(1 .. n) = IF 1 > n THEN 0 ELSE n - 1 + 1
    BY <2>1, FS_Interval
  <2> QED  BY <1>1, <2>2
<1> QED  BY <1>8, <1>9 DEF n

\* What is shown is a page of an order of the rows.
LEMMA PagesShow ==
  ASSUME TypeOK, Accepted, PagesInv, phase = "done", steady, query.paged, NEW p \in 1 .. page
  PROVE  LET n == Cardinality(Matching(table, query))
         IN  /\ DOMAIN shown[p] = {k \in 1 .. query.size : Start(p) + k <= n}
             /\ \E f \in Arrangements(table, query) :
                  /\ shown[p] = PageOf(f, p, query.size)
                  /\ \A k \in DOMAIN shown[p] : shown[p][k] = f[Start(p) + k]
             /\ shown[p] = << >> => n = 0
<1>1. /\ query.size \in Nat \ {0} /\ page \in Nat \ {0} /\ PageRead(p)
      /\ Start(p) <= Cardinality(Matching(table, query))
      /\ Cardinality(Matching(table, query)) <= Start(p) => Cardinality(Matching(table, query)) = 0
  BY PagesAtEnd
<1>2. PICK f \in Arrangements(table, query) : shown[p] = PageOf(f, p, query.size)
  BY <1>1 DEF PageRead
<1>3. p \in Nat \ {0}
  BY <1>1
<1>4. /\ DOMAIN PageOf(f, p, query.size)
           = {k \in 1 .. query.size : Start(p) + k <= Cardinality(Matching(table, query))}
      /\ \A k \in DOMAIN PageOf(f, p, query.size) : PageOf(f, p, query.size)[k] = f[Start(p) + k]
      /\ PageOf(f, p, query.size) = << >> => Cardinality(Matching(table, query)) <= Start(p)
  BY <1>1, <1>3, PageHas
<1> QED  BY <1>1, <1>2, <1>4

\* The pages show something at these places, and only there.
LEMMA PositionsShown ==
  ASSUME TypeOK, Accepted, PagesInv, phase = "done", steady, query.paged, NEW i \in Ids
  PROVE  Places(i) = {pk \in Positions : shown[pk[1]][pk[2]] = i}
<1> DEFINE n == Cardinality(Matching(table, query))
<1>1. /\ query.size \in Nat \ {0} /\ n \in Nat /\ page \in Nat \ {0} /\ DOMAIN shown = 1 .. page
      /\ \A p \in 1 .. page : PageRead(p) /\ Start(p) <= n
  BY PagesAtEnd
<1>2. \A p \in 1 .. page : DOMAIN shown[p] = {k \in 1 .. query.size : Start(p) + k <= n}
  BY PagesShow
<1>3. 1 .. query.size \subseteq 1 .. query.size + Limit
  BY <1>1, ListingAssumption
<1>4. Positions = {pk \in (1 .. page) \X (1 .. query.size) : Start(pk[1]) + pk[2] <= n}
  BY DEF Positions
<1> HIDE DEF n
<1> QED  BY <1>1, <1>2, <1>3, <1>4 DEF Places

\* So a listing that is done shows as many rows as there are, on full pages.
LEMMA EndMatchesCount ==
  ASSUME TypeOK, Accepted, PagesInv
  PROVE  CountMatchesPages
<1> SUFFICES ASSUME phase = "done", steady, query.paged
             PROVE  /\ Cardinality(UNION {Places(i) : i \in Ids}) = total
                    /\ \A p \in DOMAIN shown : shown[p] = << >> => total = 0
  BY DEF CountMatchesPages
<1> DEFINE n == Cardinality(Matching(table, query))
<1>1. /\ query.size \in Nat \ {0} /\ n \in Nat /\ page \in Nat \ {0} /\ DOMAIN shown = 1 .. page
      /\ total = n
      /\ \A p \in 1 .. page : PageRead(p) /\ Start(p) <= n /\ (n <= Start(p) => n = 0)
  BY PagesAtEnd
<1>2. UNION {Places(i) : i \in Ids} = Positions
  <2>1. ASSUME NEW pk \in Positions PROVE \E i \in Ids : pk \in Places(i)
    <3>1. PICK p \in 1 .. page, k \in 1 .. query.size : pk = <<p, k>> /\ Start(p) + k <= n
      BY DEF Positions
    <3>4. k \in DOMAIN shown[p] /\ p \in DOMAIN shown
      BY <1>1, <3>1, PagesShow
    <3>5. shown[p][k] \in Ids
      BY <1>1, <3>4 DEF TypeOK, ListingTypeOK
    <3> QED  BY <3>1, <3>5, PositionsShown
  <2>2. \A i \in Ids : Places(i) \subseteq Positions
    BY PositionsShown
  <2> QED  BY <2>1, <2>2
<1>3. \A p \in 1 .. page : shown[p] = << >> => n = 0
  BY PagesShow
<1> QED  BY <1>1, <1>2, <1>3, PositionsCount

\* When its sort fields tell all rows apart, the pages of a listing are cut from one
\* order of them.
LEMMA EndPartitionsPaged ==
  ASSUME TypeOK, Accepted, PagesInv, UniqueKey(table), phase = "done", steady, query.paged, Total,
         NEW i \in Ids
  PROVE  Cardinality(Places(i)) = IF i \in Matching(table, query) THEN 1 ELSE 0
<1> DEFINE ids == Matching(table, query)
           n == Cardinality(ids)
<1>1. /\ query \in Queries /\ query.size \in Nat \ {0} /\ n \in Nat /\ page \in Nat \ {0}
      /\ \A p \in Nat \ {0} : Start(p) < n => p \in 1 .. page
  BY PagesAtEnd
<1>2. table \in Table
  BY DEF TypeOK, RepositoryTypeOK
<1>3. 1 \in 1 .. page
  BY <1>1
<1>4. PICK f \in Arrangements(table, query) : TRUE
  BY <1>3, PagesShow
<1>5. \A g \in Arrangements(table, query) : g = f
  BY <1>1, <1>2, OneArrangement
<1>6. \A p \in 1 .. page :
         /\ DOMAIN shown[p] = {k \in 1 .. query.size : Start(p) + k <= n}
         /\ \A k \in DOMAIN shown[p] : shown[p][k] = f[Start(p) + k]
  <2> SUFFICES ASSUME NEW p \in 1 .. page
               PROVE  /\ DOMAIN shown[p] = {k \in 1 .. query.size : Start(p) + k <= n}
                      /\ \A k \in DOMAIN shown[p] : shown[p][k] = f[Start(p) + k]
    OBVIOUS
  <2>1. DOMAIN shown[p] = {k \in 1 .. query.size : Start(p) + k <= n}
    BY PagesShow
  <2>2. \E g \in Arrangements(table, query) :
           \A k \in DOMAIN shown[p] : shown[p][k] = g[Start(p) + k]
    BY PagesShow
  <2> QED  BY <1>5, <2>1, <2>2
<1>7. Positions = {pk \in (1 .. page) \X (1 .. query.size) : Start(pk[1]) + pk[2] <= n}
  BY DEF Positions
<1>8. Places(i) = {pk \in Positions : f[Start(pk[1]) + pk[2]] = i}
  <2>1. \A pk \in Positions : shown[pk[1]][pk[2]] = f[Start(pk[1]) + pk[2]]
    BY <1>6, <1>7
  <2> QED  BY <2>1, PositionsShown
<1>9. /\ \A j, k \in 1 .. n : f[j] = f[k] => j = k
      /\ \A x \in ids : \E k \in 1 .. n : f[k] = x
      /\ \A k \in 1 .. n : f[k] \in ids
  <2>1. f \in [1 .. n -> ids]
    BY DEF Arrangements
  <2> QED  BY <2>1, ArrangementIsWhole
<1>10. \A pk \in Positions : Start(pk[1]) + pk[2] \in 1 .. n
  <2> SUFFICES ASSUME NEW pk \in Positions PROVE Start(pk[1]) + pk[2] \in 1 .. n
    OBVIOUS
  <2>1. pk[1] \in 1 .. page /\ pk[2] \in 1 .. query.size /\ Start(pk[1]) + pk[2] <= n
    BY <1>7
  <2>2. 1 \in Int /\ pk[1] \in Int /\ (pk[1] = 1 \/ 1 < pk[1])
    BY <1>1, <2>1
  <2>3. Start(pk[1]) \in Int /\ Start(1) = 0
    BY <1>1, <2>2, PagesFollow
  <2>4. 1 < pk[1] => Start(1) + query.size <= Start(pk[1])
    BY <1>1, <2>2, PagesFollow
  <2> QED  BY <1>1, <2>1, <2>2, <2>3, <2>4
<1> HIDE DEF ids, n
<1>11. CASE i \notin ids
  <2>1. Places(i) = {}
    BY <1>8, <1>9, <1>10, <1>11
  <2> QED  BY <1>11, <2>1, FS_EmptySet DEF ids
<1>12. CASE i \in ids
  <2>1. PICK m \in 1 .. n : f[m] = i
    BY <1>9, <1>12
  <2>2. PICK p \in Nat \ {0}, k \in 1 .. query.size : m = Start(p) + k
    <3>1. m \in Nat \ {0}
      BY <1>1
    <3> QED  BY <1>1, <3>1, PlaceOf
  <2>3. <<p, k>> \in Positions
    <3>1. p \in Int
      OBVIOUS
    <3>2. Start(p) \in Int
      BY <1>1, <3>1, PagesFollow
    <3>3. p \in 1 .. page
      BY <1>1, <2>2, <3>2
    <3> QED  BY <1>1, <1>7, <2>2, <3>3
  <2>4. ASSUME NEW pk \in Places(i)
        PROVE  pk = <<p, k>>
    <3>1. /\ pk = <<pk[1], pk[2]>> /\ pk[1] \in Int /\ pk[2] \in 1 .. query.size
          /\ f[Start(pk[1]) + pk[2]] = i /\ Start(pk[1]) + pk[2] \in 1 .. n
      BY <1>1, <1>7, <1>8, <1>10
    <3>2. Start(pk[1]) + pk[2] = Start(p) + k
      BY <1>9, <2>1, <2>2, <3>1
    <3>3. p \in Int
      OBVIOUS
    <3>4. pk[1] = p /\ pk[2] = k
      BY <1>1, <3>1, <3>2, <3>3, OnePlace
    <3> QED  BY <3>1, <3>4
  <2>5. Places(i) = {<<p, k>>}
    BY <1>8, <2>1, <2>2, <2>3, <2>4
  <2> QED  BY <1>12, <2>5, FS_Singleton DEF ids
<1> QED  BY <1>11, <1>12

\* And so is a listing without pages, whatever the order, when all rows fit.
LEMMA EndPartitionsWhole ==
  ASSUME TypeOK, Accepted, PagesInv, phase = "done", steady, ~query.paged,
         Cardinality(Matching(table, query)) <= Limit, NEW i \in Ids
  PROVE  Cardinality(Places(i)) = IF i \in Matching(table, query) THEN 1 ELSE 0
<1> DEFINE ids == Matching(table, query)
           n == Cardinality(ids)
<1>1. PICK f \in Arrangements(table, query) : shown = <<PageOf(f, 1, Limit)>>
  BY DEF PagesInv
<1>2. /\ n \in Nat /\ f \in Seq(ids) /\ Len(f) = n /\ DOMAIN f = 1 .. n
      /\ \A j, k \in 1 .. n : f[j] = f[k] => j = k
      /\ \A x \in ids : \E k \in 1 .. n : f[k] = x
  BY ArrangementIsWhole
<1>3. query.size \in Nat /\ Limit \in Nat /\ n <= Limit
  BY ListingAssumption DEF TypeOK, ListingTypeOK, Query
<1> HIDE DEF ids, n
<1>4. PageOf(f, 1, Limit) = SubSeq(f, 1, n)
  <2>1. (1 - 1) * Limit + 1 = 1 /\ 1 * Limit = Limit
    BY <1>3
  <2> QED  BY <1>2, <1>3, <2>1 DEF PageOf
<1>5. DOMAIN shown = {1} /\ DOMAIN shown[1] = 1 .. n /\ \A k \in 1 .. n : shown[1][k] = f[k]
  <2>1. DOMAIN SubSeq(f, 1, n) = 1 .. n /\ \A k \in 1 .. n : SubSeq(f, 1, n)[k] = f[k]
    BY <1>2
  <2> DEFINE g == SubSeq(f, 1, n)
  <2>2. shown = <<g>>
    BY <1>1, <1>4
  <2> HIDE DEF g
  <2>3. DOMAIN shown = {1} /\ shown[1] = g
    BY <2>2
  <2>4. DOMAIN g = 1 .. n /\ \A k \in 1 .. n : g[k] = f[k]
    BY <2>1 DEF g
  <2> QED  BY <2>3, <2>4
<1>6. 1 .. n \subseteq 1 .. query.size + Limit
  BY <1>2, <1>3
<1>7. Places(i) = {pk \in {1} \X (1 .. n) : f[pk[2]] = i}
  BY <1>5, <1>6 DEF Places
<1>8. CASE i \notin ids
  <2>1. Places(i) = {}
    BY <1>2, <1>7, <1>8
  <2> QED  BY <1>8, <2>1, FS_EmptySet DEF ids
<1>9. CASE i \in ids
  <2>1. PICK k \in 1 .. n : f[k] = i
    BY <1>2, <1>9
  <2>2. Places(i) = {<<1, k>>}
    BY <1>2, <1>7, <2>1
  <2> QED  BY <1>9, <2>2, FS_Singleton DEF ids
<1> QED  BY <1>8, <1>9

\* In every reachable state the pages that a listing has shown are cut, one after
\* another, from orders of the rows as they are, unless the table has changed since.
THEOREM PagesAreCutInOrder == Spec => []PagesInv
<1>1. Init => PagesInv
  BY DEF Init, ListingInit, PagesInv
<1>2. TypeOK /\ PagesInv /\ [Next]_vars => PagesInv'
  <2> SUFFICES ASSUME TypeOK, PagesInv, [Next]_vars PROVE PagesInv'
    OBVIOUS
  <2>1. ASSUME UNCHANGED listing, steady' => steady /\ table' = table
        PROVE  PagesInv'
    <3>1. UNCHANGED <<query, phase, page, total, shown>>
      BY <2>1 DEF listing
    <3>2. steady' => /\ Arrangements(table, query)' = Arrangements(table, query)
                     /\ Matching(table, query)' = Matching(table, query)
      BY <2>1, <3>1 DEF Arrangements, Matching, Precedes
    <3>3. \A p : Start(p)' = Start(p)
      BY <3>1 DEF Start
    <3>4. steady' => \A p : PageRead(p)' = PageRead(p)
      BY <3>1, <3>2 DEF PageRead
    <3> QED  BY <2>1, <3>1, <3>2, <3>3, <3>4 DEF PagesInv
  <2>2. CASE Write
    BY <2>1, <2>2 DEF Write
  <2>3. CASE List
    BY <2>3, PagesStep DEF List, repository
  <2>4. CASE UNCHANGED vars
    BY <2>1, <2>4 DEF vars, repository
  <2> QED  BY <2>2, <2>3, <2>4 DEF Next
<1> QED  BY <1>1, <1>2, RepositoryTypeCorrect, PTL DEF Spec

\* On a table that does not change meanwhile, a listing that sorts by the key shows
\* every row that the filter asks for once, for any page size, and so does one without
\* pages of a table that fits.
THEOREM PagesShowEveryRowOnce == Spec => []PagesPartition
<1>1. TypeOK /\ Accepted /\ PagesInv /\ IInv => PagesPartition
  BY EndPartitionsPaged, EndPartitionsWhole DEF IInv, Unique, PagesPartition
<1> QED  BY <1>1, RepositoryTypeCorrect, ListingGoesOnAccepted, PagesAreCutInOrder, SessionsStayApart, PTL

\* And, however it is sorted, it shows as many rows as total_records says, on pages of
\* which none is empty unless all is.
THEOREM PagesShowAsManyAsCounted == Spec => []CountMatchesPages
  BY EndMatchesCount, RepositoryTypeCorrect, ListingGoesOnAccepted, PagesAreCutInOrder, PTL

=============================================================================
