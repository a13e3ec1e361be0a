----------------------------- MODULE UnitOfWork -----------------------------
(***************************************************************************)
(* What a session of the database promises the request that uses it: its   *)
(* calls add up to a unit, which is published as a whole or dropped as a   *)
(* whole.  There are no statements, locks or exceptions here; Repository   *)
(* implements it.                                                          *)
(***************************************************************************)
EXTENDS Records

CONSTANT Sessions

VARIABLE unit       \* unit[s]: what the calls of s have written since its last commit

Init ==
    /\ UniqueKey(table)
    /\ unit = [s \in Sessions |-> Nothing]

\* A call of s is complete.  No row is in two units.
Extend(s) ==
    /\ \A r \in Sessions \ {s} :
         unit'[r] = unit[r] /\ Touched(unit'[s]) \cap Touched(unit[r]) = {}
    /\ UNCHANGED table

Publish(s) ==
    /\ table' = Written(table, unit[s])
    /\ UniqueKey(table')
    /\ unit' = [unit EXCEPT ![s] = Nothing]

Drop(s) ==
    /\ unit' = [unit EXCEPT ![s] = Nothing]
    /\ UNCHANGED table

Next == \E s \in Sessions : Extend(s) \/ Publish(s) \/ Drop(s)

Spec == Init /\ [][Next]_<<table, unit>>

=============================================================================
