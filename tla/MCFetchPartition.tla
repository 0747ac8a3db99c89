-------------------------- MODULE MCFetchPartition --------------------------
(* The applications and configurations that FetchPartition is checked with.  *)
(* Each plan is small, and is there for one kind of interleaving.            *)
EXTENDS FetchPartition

CONSTANTS t1, t2, b1, b2

Plain ==
  [reset |-> BEGINNING, commit |-> FALSE, committed |-> INVALID,
   starts |-> {0}, seeks |-> {}, pauses |-> "never",
   callers |-> {t1}, consumer |-> t1, leaders |-> {b1},
   lookupFails |-> FALSE, calls |-> 3, faults |-> 0]

AllPlans == {
  \* a seek or a stop during the look-up of the start
  [Plain EXCEPT !.starts = {BEGINNING}, !.seeks = {0, END}],
  \* automatic commits, and one that fails or a leader that goes
  [Plain EXCEPT !.starts = {STORED}, !.commit = TRUE, !.calls = 2,
                !.faults = 1],
  [Plain EXCEPT !.starts = {STORED}, !.commit = TRUE, !.committed = 1],
  \* the leader changes during a look-up, a fetch or a stop
  [Plain EXCEPT !.leaders = {b1, b2}, !.seeks = {BEGINNING}, !.calls = 2,
                !.faults = 1],
  [Plain EXCEPT !.leaders = {b1, b2}, !.starts = {BEGINNING}, !.calls = 2,
                !.faults = 1],
  [Plain EXCEPT !.leaders = {b1, b2}, !.starts = {STORED}, !.committed = 1,
                !.calls = 1, !.faults = 2],
  \* two threads call, and their operations overtake one another
  [Plain EXCEPT !.callers = {t1, t2}, !.pauses = "paired"],
  [Plain EXCEPT !.callers = {t1, t2}, !.seeks = {END}],
  \* pauses around seeks and failing look-ups
  [Plain EXCEPT !.seeks = {1}, !.pauses = "paired", !.calls = 4],
  [Plain EXCEPT !.starts = {BEGINNING}, !.pauses = "any"],
  [Plain EXCEPT !.starts = {BEGINNING}, !.pauses = "paired",
                !.lookupFails = TRUE, !.calls = 2, !.faults = 1],
  \* positions outside the log, and counted from its end
  [Plain EXCEPT !.starts = {1, TAIL_BASE - 1}, !.seeks = {Hi + 1},
                !.calls = 2] }

\* A stop that finds a look-up, or a commit, under way.
LookupPlan == {[Plain EXCEPT !.starts = {BEGINNING}, !.calls = 2]}
CommitPlan == {[Plain EXCEPT !.starts = {STORED}, !.commit = TRUE,
                             !.calls = 2]}
=============================================================================
