--------------------------- MODULE CompleteTasks ---------------------------
(***************************************************************************)
(* How CompleteTasks (utils/concurrency) shares out tasks 0..tasks-1 among  *)
(* its workers: each has a range of numToCheck tasks, the last ones have    *)
(* less or nothing.                                                         *)
(***************************************************************************)
EXTENDS Integers

\* As many workers as tasks when there is no limit (0) or one they do not reach.
NumWorkers(limit, tasks) == IF tasks < limit \/ limit = 0 THEN tasks ELSE limit

NumToCheck(limit, tasks) ==
    (tasks + NumWorkers(limit, tasks) - 1) \div NumWorkers(limit, tasks)

\* The numbers of the workers; none is started without a task.
Workers(limit, tasks) == 0..(NumWorkers(limit, tasks) - 1)

\* The positions worker w goes through, in ascending order.
Share(limit, tasks, w) ==
    LET q == NumToCheck(limit, tasks)
    IN  {pos \in 0..(tasks - 1) : w * q <= pos /\ pos < (w + 1) * q}
=============================================================================
