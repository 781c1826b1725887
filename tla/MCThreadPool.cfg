\* Two workers, two clients, three tasks of which two share a name;
\* Stop may come while tasks are queued or running.
SPECIFICATION FairSpec
CONSTANTS
  w1 = w1  w2 = w2  c1 = c1  c2 = c2
  t1 = t1  t2 = t2  t3 = t3  n1 = n1  n2 = n2
  Workers = {w1, w2}
  Clients = {c1, c2}
  Tasks = {t1, t2, t3}
  Names = {n1, n2}
  NameOf <- MCNameOf
  SubmittingTasks = {t1}
  WaitingTasks = {t3}
  NoThread = NoThread
  NoTask = NoTask
INVARIANTS StatusSound WaitAfterRun StopQuiesces
PROPERTIES ImplementsTaskPool CallsReturn
CHECK_DEADLOCK FALSE
