----------------------------- MODULE MCTracker -----------------------------
(***************************************************************************)
(* Instances of Tracker for TLC.                                           *)
(***************************************************************************)
EXTENDS TrackerProperties, MCWorklogBatch

CONSTANT c1

\* A day's hours on a task that is there, by whoever sends them.
TakeOver == BatchOf({}, <<TaskOf(t1, A, <<LogOf(Null, d1, 800)>>)>>)

TrackerBatches == {FullDay, TakeOver, Edit, Replace}

OneDay == {{d1}}

=============================================================================
