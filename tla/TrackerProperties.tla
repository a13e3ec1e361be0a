------------------------- MODULE TrackerProperties -------------------------
(***************************************************************************)
(* What is checked of Tracker, beside the properties of its batches.       *)
(***************************************************************************)
EXTENDS Tracker, WorklogBatchProperties

\* The commit of a batch puts what it has saved into its user's journal: a cell
\* that was sent is there under the task it was sent with, whoever owned the task
\* before, if the user is assigned to the activity
\* (activity.py:87-108, domain/activity.py:27-41).
SavedIsShown ==
    [][\A r \in Requests, u \in Users, b \in Batches :
         pc[r] = "commit" /\ outcome'[r] = "ok" /\ job[r] = [user |-> u, batch |-> b] =>
           \A c \in ToUpsert(b) :
             /\ <<u, tasks'[current[r][c[1]]].activity>> \in assigned
             /\ Cell(b, c).id \notin ToDelete(b)
             => \E w \in JournalLogs(u, {Cell(b, c).date}, JournalTasks(u))' :
                  /\ worklogs'[w].task = current[r][c[1]]
                  /\ worklogs'[w].duration = Stored(Cell(b, c).duration)]_trackerVars

\* What a user's whole journal shows.
InJournal(u) == JournalLogs(u, Dates, JournalTasks(u))

\* And there it stays: a cell leaves a user's journal, or changes in it, only by
\* the commit of a batch that names the cell or its task.  Such a batch may be
\* another user's: whoever sends a task takes it over, and its cells leave the
\* journals of the users who saved them (activity.py:80-87, models.py:133).
SavedStaysShown ==
    [][\A u \in Users : \A w \in InJournal(u) :
         \/ w \in InJournal(u)' /\ worklogs'[w] = worklogs[w]
         \/ \E r \in Requests :
              /\ Commits(r)
              /\ \/ w \in NamedLogs(Batch(r))
                 \/ worklogs[w].task \in NamedTasks(Batch(r))]_trackerVars

\* Between the two SELECTs of a journal, what it will show does not change but by
\* the user's own batches, and by those that name the cell or delete its task:
\* others may take the user's tasks over meanwhile and book hours on them
\* (domain/activity.py:24-46).
JournalHoldsStill ==
    [][\A c \in Clients, w \in LogId :
         /\ call[c] # Null /\ call[c].kind = "journal" /\ call'[c] = call[c]
         /\ \/ w \in Shown(c) /\ w \notin Shown(c)'
            \/ w \in Shown(c)' /\ w \notin Shown(c)
            \/ w \in Shown(c) /\ worklogs'[w] # worklogs[w]
         => \E r \in Requests :
              /\ Commits(r)
              /\ \/ job[r].user = call[c].user
                 \/ w \in NamedLogs(Batch(r))
                 \/ worklogs[w] # NoRow /\ worklogs[w].task \in Batch(r).deletions]_trackerVars

=============================================================================
