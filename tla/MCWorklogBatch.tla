--------------------------- MODULE MCWorklogBatch ---------------------------
(***************************************************************************)
(* Instances of WorklogBatch for TLC.                                      *)
(***************************************************************************)
EXTENDS WorklogBatchProperties, TLC

CONSTANTS r1, r2, t1, t2, t3, w1, w2, w3, u1, u2, d1, d2, a1, a2, A, B, C

TaskOf(id, title, logs) == [id |-> id, title |-> title, activity |-> a1, worklogs |-> logs]
LogOf(id, date, duration) == [id |-> id, date |-> date, duration |-> duration]
BatchOf(deletions, items) == [deletions |-> deletions, tasks |-> items]

\* A new task with a new cell; the rows sent again with their ids, the cell
\* changed or cleared.
Create == BatchOf({}, <<TaskOf(Null, A, <<LogOf(Null, d1, 400)>>)>>)
Edit   == BatchOf({}, <<TaskOf(t1, A, <<LogOf(w1, d1, 800)>>)>>)
Clear  == BatchOf({}, <<TaskOf(t1, A, <<LogOf(w1, d1, 0)>>)>>)

\* The same two tasks in both orders, with a cell that another task may have
\* held; the dates of the first task are not checked.
Forth == BatchOf({}, <<TaskOf(t1, A, <<LogOf(w2, d2, 500)>>), TaskOf(t2, B, << >>)>>)
Back  == BatchOf({}, <<TaskOf(t2, B, <<LogOf(w1, d2, 400)>>), TaskOf(t1, A, << >>)>>)

\* A task deleted while another one is saved, and a task deleted and saved.
Replace  == BatchOf({t1}, <<TaskOf(t2, B, << >>)>>)
Recreate == BatchOf({t1}, <<TaskOf(t1, B, <<LogOf(w2, d2, 100)>>)>>)

\* Two cells that exchange dates: each meets the other's old place.
Swap == BatchOf({}, <<TaskOf(t1, A, <<LogOf(w1, d2, 100), LogOf(w2, d1, 100)>>)>>)

\* What fails: no tasks, null deletions, an unknown activity, 0.95 hours (0.9 are
\* stored).
DeleteOnly      == BatchOf({t1}, << >>)
NullDeletions   == BatchOf(Null, << >>)
UnknownActivity == BatchOf({}, <<[TaskOf(Null, B, << >>) EXCEPT !.activity = a2]>>)
TooShort        == BatchOf({}, <<TaskOf(t2, B, <<LogOf(Null, d1, 95)>>)>>)

\* 8 hours on a date; an hour more, on a second task; both in one batch.
FullDay      == BatchOf({}, <<TaskOf(Null, A, <<LogOf(Null, d1, 800)>>)>>)
HourMore     == BatchOf({}, <<TaskOf(Null, B, <<LogOf(Null, d1, 105)>>)>>)
FullDayTwice == BatchOf({}, <<TaskOf(Null, A, <<LogOf(Null, d1, 800)>>),
                              TaskOf(Null, B, <<LogOf(Null, d1, 100)>>),
                              TaskOf(Null, C, << >>)>>)

\* Users and request slots are interchangeable: no batch names one.
UsersAndRequests == Permutations(Users) \cup Permutations(Requests)

ConcurrentBatches ==
    {Edit, Clear, Forth, Back, Replace, Recreate, Swap, HourMore,
     DeleteOnly, NullDeletions, UnknownActivity, TooShort}

OneBatchTwoTasks  == {FullDayTwice}
TwoBatchesOneDay  == {FullDay, HourMore}
CreateThenReplace == {Create, Replace}
OnlyDeletions     == {Create, DeleteOnly}

=============================================================================
