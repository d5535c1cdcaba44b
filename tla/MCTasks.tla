--------------------------------- MODULE MCTasks ---------------------------------
(* Instances of Tasks for TLC *)
EXTENDS Tasks, TLC

\* Requests are interchangeable
RequestSymmetry == Permutations(Requests)

\* A rewarded cron task, and a plain one whose expression cannot be parsed
Templates == <<[type |-> "cron", crontab |-> "good", rewarded |-> TRUE],
               [type |-> "cron", crontab |-> "bad", rewarded |-> FALSE]>>
=============================================================================
