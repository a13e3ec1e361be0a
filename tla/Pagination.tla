----------------------------- MODULE Pagination -----------------------------
(***************************************************************************)
(* src/app/core/pagination: what sort_by and filter_by ask of a table      *)
(* whose column "key" is a text and "value" an integer that may be NULL.   *)
(*                                                                         *)
(* A pair of filter_by is the sequence of the pieces between its "__", a   *)
(* blank one is empty.  No piece begins with "_".                          *)
(***************************************************************************)
EXTENDS Records, Sequences, FiniteSets

CONSTANTS
    Pieces,
    SortFields, FilterFields,   \* the columns that are not excluded
    Place,          \* Place[text]: the place of the text among the keys
    Number,         \* int(text), for the texts that are numerals
    Contains,       \* Contains[text]: the keys that contain it
    EndsWith        \* EndsWith[text]: the keys that end with it

Columns == {"key", "value"}

ASSUME PaginationAssumption ==
    /\ SortFields \subseteq Columns /\ FilterFields \subseteq Columns
    /\ IsFiniteSet(Ids)

\* In the order in which determine_operator looks for them.
Operators == <<"gte", "gt", "lte", "lt", "ne", "eq", "nil", "il">>

Query == [filter : Seq(Seq(Pieces)), sort : Seq([name : STRING, dashes : Nat]),
          size : Nat, paged : BOOLEAN]

Interior(pair) == 2 .. Len(pair) - 1
Found(pair) == {n \in DOMAIN Operators : \E k \in Interior(pair) : pair[k] = Operators[n]}
DetermineOperator(pair) == Operators[CHOOSE n \in Found(pair) : \A m \in Found(pair) : n <= m]

\* pair.split(operator, 1)
At(pair) ==
    CHOOSE k \in Interior(pair) : pair[k] = DetermineOperator(pair)
      /\ \A j \in Interior(pair) : pair[j] = DetermineOperator(pair) => k <= j
KeyOf(pair) == SubSeq(pair, 1, At(pair) - 1)
TextOf(pair) == SubSeq(pair, At(pair) + 1, Len(pair))

(***************************************************************************)
(* The validators, and the conversion of values.                           *)
(***************************************************************************)
\* Mutant: the field is what stands before the first operator.
Allowed_FirstPiece(pair) == pair[1] \in FilterFields

\* validate_field
Allowed(pair) == KeyOf(pair) \in {<<f>> : f \in FilterFields}

Rejected(q) == {k \in DOMAIN q.filter : Found(q.filter[k]) = {} \/ ~Allowed(q.filter[k])}

Convertible(pair) == KeyOf(pair) = <<"value">> => TextOf(pair) \in DOMAIN Number

\* A field that is not allowed raises BadRequestException at once; a ValueError is
\* collected with those of page and size.  A value that cannot be converted ends
\* in BadRequestException(detail=...), a TypeError.
Verdict(q) ==
    IF \E k \in DOMAIN q.sort : q.sort[k].name \notin SortFields THEN 400
    ELSE IF \E k \in Rejected(q) : Found(q.filter[k]) # {} /\ \A j \in Rejected(q) : k <= j THEN 400
    ELSE IF Rejected(q) # {} \/ q.size < 1 THEN 422
    ELSE IF \E k \in DOMAIN q.filter : ~Convertible(q.filter[k]) THEN 500 ELSE 200

(***************************************************************************)
(* The WHERE clause.                                                       *)
(***************************************************************************)
Condition(pair) ==
    [field |-> KeyOf(pair)[1], op |-> DetermineOperator(pair), text |-> TextOf(pair)]

Patterns == {"il", "nil"}

\* PostgreSQL has no ILIKE for integers.
Comparable(c) == c.op \in Patterns => c.field = "key"

Compares(op, a, b) ==
    \/ op = "gte" /\ a >= b
    \/ op = "gt" /\ a > b
    \/ op = "lte" /\ a <= b
    \/ op = "lt" /\ a < b
    \/ op = "ne" /\ a # b
    \/ op = "eq" /\ a = b

\* No condition on NULL holds.  The pattern of not_ilike has no "%" at its end.
Satisfies(row, c) ==
    IF c.op = "il" THEN row.key \in Contains[c.text]
    ELSE IF c.op = "nil" THEN row.key \notin EndsWith[c.text]
    ELSE row[c.field] # Null
         /\ Compares(c.op, row[c.field], IF c.field = "key" THEN Place[c.text] ELSE Number[c.text])

Matching(t, q) ==
    {i \in Ids : t[i] # NoRow
       /\ \A k \in DOMAIN q.filter : Satisfies(t[i], Condition(q.filter[k]))}

(***************************************************************************)
(* ORDER BY, OFFSET and LIMIT.  For PostgreSQL NULL is the greatest value. *)
(***************************************************************************)
Less(a, b) == a # Null /\ (b = Null \/ a < b)

Before(f, a, b) == IF f.dashes > 0 THEN Less(b[f.name], a[f.name]) ELSE Less(a[f.name], b[f.name])

Precedes(q, a, b) ==
    \E k \in DOMAIN q.sort : Before(q.sort[k], a, b) /\ \A j \in 1 .. k - 1 : ~Before(q.sort[j], b, a)

\* The orders in which a SELECT may return the rows.
Arrangements(t, q) ==
    LET ids == Matching(t, q)
        n == Cardinality(ids)
    IN  {f \in [1 .. n -> ids] : \A j, k \in 1 .. n :
           j < k => f[j] # f[k] /\ ~Precedes(q, t[f[k]], t[f[j]])}

\* Mutant: pages are counted from 0.
PageOf_FromZero(f, page, size) ==
    SubSeq(f, page * size + 1, IF (page + 1) * size < Len(f) THEN (page + 1) * size ELSE Len(f))

PageOf(f, page, size) ==
    SubSeq(f, (page - 1) * size + 1, IF page * size < Len(f) THEN page * size ELSE Len(f))

=============================================================================
