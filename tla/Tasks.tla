--------------------------------- MODULE Tasks ---------------------------------
(***************************************************************************)
(* Tasks of a user: UserTaskService creates them from templates, reports   *)
(* their progress and pays their rewards, TaskService changes and removes  *)
(* them, TaskSchedulerService runs the cron jobs of those it found at its  *)
(* last boot.                                                              *)
(*                                                                         *)
(* A request works on a copy of the row; save writes the copy over the row *)
(* and inserts it when the row is gone, update changes a row only if it is *)
(* there.  An action is what happens from one await to the next.           *)
(***************************************************************************)
EXTENDS Integers, Sequences, FiniteSets

CONSTANTS
    Requests,       \* calls of the services
    Ticks,          \* executions of a cron job that may overlap
    MaxTasks,       \* how many tasks are ever created
    Group,          \* the templates of the task group, in the order they are read
    MaxFaults, MaxCrashes

Template == [type: {"custom", "cron"}, crontab: {"good", "bad", "none"}, rewarded: BOOLEAN]

ASSUME TasksAssumption ==
    /\ MaxTasks \in Nat /\ MaxFaults \in Nat /\ MaxCrashes \in Nat
    /\ IsFiniteSet(Requests)
    /\ Group \in Seq(Template)

VARIABLES
    rows,       \* the task rows, by id
    made,       \* how many ids have been given out
    jobs,       \* tasks with a job in the SchedulerRegistry
    tick,       \* the executions of jobs
    granted,    \* user_reward rows inserted for a task
    reward,     \* the row of the reward the templates name: no user_reward, some, or gone
    run,        \* the requests
    \* history: tasks somebody patched, ids given out before the last boot, did
    \* that boot load every task, did two requests ever overlap
    touched, booted, loaded, overlapped,
    faults, crashes

taskVars == <<rows, made, granted, reward>>
historyVars == <<touched, booted, loaded, overlapped>>
vars == <<taskVars, jobs, tick, run, historyVars, faults, crashes>>

TaskIds == 1..MaxTasks
Statuses == {"pending", "in_progress", "completed", "cancelled"}
Progress == {"none", "some", "all"}     \* 0, between, 100 or more
NoRow == [status |-> "absent", progress |-> "none", type |-> "custom", template |-> 0]
Row == [status: Statuses, progress: Progress, type: {"custom", "cron"}, template: DOMAIN Group]
       \cup {NoRow}
NewRow(i) == [status |-> "pending", progress |-> "none", type |-> Group[i].type,
              template |-> i]

Exists(t) == rows[t].status # "absent"
Rewarded(row) == Group[row.template].rewarded

PCs == {"idle", "insert", "save", "reward", "grant", "patch", "remove",
        "edit", "award", "done", "rejected", "lost"}
Request == [op: {"none", "create", "report", "status", "patch", "remove", "reward"}, pc: PCs,
            task: 0..MaxTasks, row: Row, left: Seq(DOMAIN Group)]
IdleRequest == [op |-> "none", pc |-> "idle", task |-> 0, row |-> NoRow, left |-> <<>>]

Tick == [pc: {"none", "start", "finish", "cancel"}, task: 0..MaxTasks]
NoTick == [pc |-> "none", task |-> 0]

\* What a PATCH names: one column, or every column of the row
Same == [status |-> "same", type |-> "same", progress |-> "same", whole |-> FALSE]
Patches == {[Same EXCEPT !.status = s] : s \in Statuses}
           \cup {[Same EXCEPT !.type = y] : y \in {"custom", "cron"}}
           \cup {[Same EXCEPT !.progress = "all"]}
           \cup {[status |-> "pending", type |-> "cron", progress |-> "none", whole |-> TRUE]}

Init ==
    /\ rows = [t \in TaskIds |-> NoRow] /\ made = 0 /\ jobs = {}
    /\ tick = [k \in Ticks |-> NoTick]
    /\ granted = [t \in TaskIds |-> 0] /\ reward = "free"
    /\ run = [r \in Requests |-> IdleRequest]
    /\ touched = {} /\ booted = 0 /\ loaded = TRUE /\ overlapped = FALSE
    /\ faults = 0 /\ crashes = 0

-----------------------------------------------------------------------------
Ended == {"idle", "done", "rejected", "lost"}
Live(r) == run[r].pc \notin Ended

\* A request that begins; afterwards only what it has left to do matters
Begin(r, q) ==
    /\ run[r].pc = "idle"
    /\ run' = [run EXCEPT ![r] = q]
    /\ overlapped' = (overlapped \/ \E o \in Requests : Live(o))
Become(r, q) == run' = [run EXCEPT ![r] = q]
Answer(q, point) == [q EXCEPT !.pc = point, !.row = NoRow, !.left = <<>>]
Goto(r, point) == Become(r, [run[r] EXCEPT !.pc = point])

\* repository.save of a loaded task: the row becomes the copy, absent or not
Save(t, row) == rows' = [rows EXCEPT ![t] = row]
\* repository.update(id, { status }): nothing happens without a row
UpdateStatus(t, status) ==
    rows' = IF Exists(t) THEN [rows EXCEPT ![t].status = status] ELSE rows

-----------------------------------------------------------------------------
(* UserTaskService *)

\* createTasksFromGroup reads the group's items; createTaskFromTemplate is the
\* same with one item
ReadTemplates(r, left) ==
    /\ Begin(r, [IdleRequest EXCEPT !.op = "create", !.left = left,
                                    !.pc = IF left = <<>> THEN "done" ELSE "insert"])
    /\ UNCHANGED <<taskVars, jobs, tick, touched, booted, loaded, faults, crashes>>

\* One PENDING row per item, each inserted on its own
InsertTask(r) ==
    LET q == run[r] IN
    /\ q.pc = "insert" /\ made < MaxTasks
    /\ made' = made + 1
    /\ Save(made', NewRow(Head(q.left)))
    /\ Become(r, IF Len(q.left) = 1 THEN Answer(q, "done")
                                    ELSE [q EXCEPT !.left = Tail(@)])
    /\ UNCHANGED <<granted, reward, jobs, tick, historyVars, faults, crashes>>

\* Plausible bug: the status is saved before the reward is granted
ReadForReport_SavesFirst(r, t, p) ==
    LET row == [rows[t] EXCEPT !.progress = p, !.status =
                    CASE p = "all" -> "completed" [] p = "some" -> "in_progress" [] OTHER -> @]
        q == [IdleRequest EXCEPT !.op = "report", !.task = t] IN
    /\ Begin(r, IF Exists(t)
                THEN [q EXCEPT !.row = row,
                               !.pc = IF p = "all" /\ Rewarded(row) THEN "reward" ELSE "save"]
                ELSE Answer(q, "rejected"))
    /\ rows' = IF Exists(t) THEN [rows EXCEPT ![t] = row] ELSE rows
    /\ UNCHANGED <<made, granted, reward, jobs, tick, touched, booted, loaded, faults, crashes>>

\* updateTaskProgress loads the task, whatever its status; a report of 100 first
\* grants the reward, any progress is then saved
ReadForReport(r, t, p) ==
    LET row == [rows[t] EXCEPT !.progress = p, !.status =
                    CASE p = "all" -> "completed" [] p = "some" -> "in_progress" [] OTHER -> @]
        q == [IdleRequest EXCEPT !.op = "report", !.task = t] IN
    /\ Begin(r, IF Exists(t)
                THEN [q EXCEPT !.row = row,
                               !.pc = IF p = "all" /\ Rewarded(row) THEN "reward" ELSE "save"]
                ELSE Answer(q, "rejected"))
    /\ UNCHANGED <<taskVars, jobs, tick, touched, booted, loaded, faults, crashes>>

\* grantReward: find the reward, then insert the user's; nothing ties it to the
\* task
FindReward(r) ==
    /\ run[r].pc = "reward"
    /\ IF reward # "gone" THEN Goto(r, "grant") ELSE Become(r, Answer(run[r], "rejected"))
    /\ UNCHANGED <<taskVars, jobs, tick, historyVars, faults, crashes>>

\* The insert needs the reward's row
GrantReward(r) ==
    /\ run[r].pc = "grant"
    /\ IF reward = "gone"
       THEN Become(r, Answer(run[r], "rejected")) /\ UNCHANGED <<granted, reward>>
       ELSE /\ granted' = [granted EXCEPT ![run[r].task] = @ + 1]
            /\ reward' = "granted"
            /\ Goto(r, "save")
    /\ UNCHANGED <<rows, made, jobs, tick, historyVars, faults, crashes>>

-----------------------------------------------------------------------------
(* TaskService *)

ValidTransitions == {<<"pending", "in_progress">>, <<"pending", "cancelled">>,
                     <<"in_progress", "completed">>, <<"in_progress", "cancelled">>}

\* startTask and endTask: updateTaskStatus loads and tests the transition
ReadForStatus(r, t, status) ==
    LET q == [IdleRequest EXCEPT !.op = "status", !.task = t] IN
    /\ Begin(r, IF <<rows[t].status, status>> \in ValidTransitions
                THEN [q EXCEPT !.pc = "save", !.row = [rows[t] EXCEPT !.status = status]]
                ELSE Answer(q, "rejected"))
    /\ UNCHANGED <<taskVars, jobs, tick, touched, booted, loaded, faults, crashes>>

SaveTask(r) ==
    LET q == run[r] IN
    /\ q.pc = "save"
    /\ Save(q.task, q.row)
    /\ Become(r, Answer(q, "done"))
    /\ UNCHANGED <<made, granted, reward, jobs, tick, historyVars, faults, crashes>>

\* update: the columns the body names, with no test of what they held
Patched(row, p) == [row EXCEPT !.status   = IF p.status = "same" THEN @ ELSE p.status,
                               !.type     = IF p.type = "same" THEN @ ELSE p.type,
                               !.progress = IF p.progress = "same" THEN @ ELSE p.progress]

ReadForPatch(r, t) ==
    /\ Begin(r, [IdleRequest EXCEPT !.op = "patch", !.task = t, !.row = rows[t],
                                    !.pc = IF Exists(t) THEN "patch" ELSE "rejected"])
    /\ UNCHANGED <<taskVars, jobs, tick, touched, booted, loaded, faults, crashes>>

\* Columns the body does not name are undefined in the copy, and save skips
\* them: a row that is gone can only be inserted again by a whole body
SavePatch(r, p) ==
    LET q == run[r] IN
    /\ q.pc = "patch"
    /\ IF Exists(q.task) \/ p.whole
       THEN /\ Save(q.task, Patched(IF Exists(q.task) THEN rows[q.task] ELSE q.row, p))
            /\ touched' = touched \cup {q.task}
            /\ Become(r, Answer(q, "done"))
       ELSE Become(r, Answer(q, "rejected")) /\ UNCHANGED <<rows, touched>>
    /\ UNCHANGED <<made, granted, reward, jobs, tick, booted, loaded, overlapped, faults, crashes>>

\* unscheduleTask
Unscheduled(t) == jobs \ {t}

\* Plausible bug: the job is only stopped while the task is still due
ReadForRemoval_IfPending(r, t) ==
    /\ Begin(r, [IdleRequest EXCEPT !.op = "remove", !.task = t,
                                    !.pc = IF Exists(t) THEN "remove" ELSE "done"])
    /\ jobs' = IF rows[t].type = "cron" /\ rows[t].status = "pending" THEN jobs \ {t} ELSE jobs
    /\ UNCHANGED <<taskVars, tick, touched, booted, loaded, faults, crashes>>

\* remove loads the task and, if it is a cron task now, stops its job
ReadForRemoval(r, t) ==
    /\ Begin(r, [IdleRequest EXCEPT !.op = "remove", !.task = t,
                                    !.pc = IF Exists(t) THEN "remove" ELSE "done"])
    /\ jobs' = IF rows[t].type = "cron" THEN Unscheduled(t) ELSE jobs
    /\ UNCHANGED <<taskVars, tick, touched, booted, loaded, faults, crashes>>

RemoveTask(r) ==
    /\ run[r].pc = "remove"
    /\ Save(run[r].task, NoRow)
    /\ Become(r, Answer(run[r], "done"))
    /\ UNCHANGED <<made, granted, reward, jobs, tick, historyVars, faults, crashes>>

-----------------------------------------------------------------------------
(* RewardService *)

\* update, and an administrator's grant (refused for a reward that is not active):
\* the reward is found first
ReadReward(r, point) ==
    /\ Begin(r, [IdleRequest EXCEPT !.op = "reward",
                                    !.pc = IF reward = "gone" THEN "rejected" ELSE point])
    /\ UNCHANGED <<taskVars, jobs, tick, touched, booted, loaded, faults, crashes>>

\* save inserts the reward again when it is gone
SaveReward(r) ==
    /\ run[r].pc = "edit"
    /\ reward' = IF reward = "gone" THEN "free" ELSE reward
    /\ Become(r, Answer(run[r], "done"))
    /\ UNCHANGED <<rows, made, granted, jobs, tick, historyVars, faults, crashes>>

\* The same insert as a report's, for no task of the model
AwardReward(r) ==
    /\ run[r].pc = "award"
    /\ reward' = IF reward = "gone" THEN reward ELSE "granted"
    /\ Become(r, Answer(run[r], IF reward = "gone" THEN "rejected" ELSE "done"))
    /\ UNCHANGED <<rows, made, granted, jobs, tick, historyVars, faults, crashes>>

\* remove: the database refuses it once a user has the reward
RemoveReward ==
    /\ reward = "free"
    /\ reward' = "gone"
    /\ UNCHANGED <<rows, made, granted, jobs, tick, run, historyVars, faults, crashes>>

-----------------------------------------------------------------------------
(* TaskSchedulerService *)

\* A job is due; the run before may not have ended
FireJob(k, t) ==
    /\ t \in jobs /\ tick[k].pc = "none"
    /\ tick' = [tick EXCEPT ![k] = [pc |-> "start", task |-> t]]
    /\ UNCHANGED <<taskVars, jobs, run, historyVars, faults, crashes>>

\* Plausible bug: a tick saves the task it was scheduled with
StartTick_Saves(k) ==
    /\ tick[k].pc = "start"
    /\ Save(tick[k].task, [NewRow(1) EXCEPT !.status = "in_progress"])
    /\ tick' = [tick EXCEPT ![k].pc = "finish"]
    /\ UNCHANGED <<made, granted, reward, jobs, run, historyVars, faults, crashes>>

\* executeTask: IN_PROGRESS, the work that is still to be written, COMPLETED
StartTick(k) ==
    /\ tick[k].pc = "start"
    /\ UpdateStatus(tick[k].task, "in_progress")
    /\ tick' = [tick EXCEPT ![k].pc = "finish"]
    /\ UNCHANGED <<made, granted, reward, jobs, run, historyVars, faults, crashes>>

FinishTick(k) ==
    /\ tick[k].pc = "finish"
    /\ UpdateStatus(tick[k].task, "completed")
    /\ tick' = [tick EXCEPT ![k] = NoTick]
    /\ UNCHANGED <<made, granted, reward, jobs, run, historyVars, faults, crashes>>

\* The catch block
CancelTick(k) ==
    /\ tick[k].pc = "cancel"
    /\ UpdateStatus(tick[k].task, "cancelled")
    /\ tick' = [tick EXCEPT ![k] = NoTick]
    /\ UNCHANGED <<made, granted, reward, jobs, run, historyVars, faults, crashes>>

\* The tasks loadCronTasks finds that have an expression
Due == {t \in TaskIds : /\ rows[t].status = "pending" /\ rows[t].type = "cron"
                        /\ Group[rows[t].template].crontab # "none"}
Parses(t) == Group[rows[t].template].crontab = "good"

\* Plausible bug: only one task is scheduled
Loads_One == IF Due = {} THEN {{}} ELSE {{t} : t \in {u \in Due : Parses(u)}}

\* They are scheduled in the order the query returns them, up to one whose
\* expression cannot be parsed
Loads == IF \A t \in Due : Parses(t) THEN {Due} ELSE SUBSET {t \in Due : Parses(t)}

\* The process dies and boots: requests, ticks and jobs are gone, and the jobs
\* are loaded again before the first request is served
Restart ==
    /\ crashes < MaxCrashes
    /\ crashes' = crashes + 1
    /\ \/ jobs' \in Loads /\ loaded' = (\A t \in Due : Parses(t)) /\ UNCHANGED faults
       \/ faults < MaxFaults /\ faults' = faults + 1 /\ jobs' = {} /\ loaded' = FALSE
    /\ booted' = made
    /\ tick' = [k \in Ticks |-> NoTick]
    /\ run' = [r \in Requests |-> IF Live(r) THEN Answer(run[r], "lost") ELSE run[r]]
    /\ UNCHANGED <<taskVars, touched, overlapped>>

-----------------------------------------------------------------------------
(* The environment: the pending query of a request or of a tick fails *)

RequestFails(r) ==
    /\ faults < MaxFaults /\ Live(r)
    /\ faults' = faults + 1
    /\ Become(r, Answer(run[r], "rejected"))
    /\ UNCHANGED <<taskVars, jobs, tick, historyVars, crashes>>

TickFails(k) ==
    /\ faults < MaxFaults /\ tick[k].pc # "none"
    /\ faults' = faults + 1
    /\ tick' = [tick EXCEPT ![k] = IF @.pc = "cancel" THEN NoTick ELSE [@ EXCEPT !.pc = "cancel"]]
    /\ UNCHANGED <<taskVars, jobs, run, historyVars, crashes>>

Call(r) ==
    \/ ReadTemplates(r, [i \in DOMAIN Group |-> i])
    \/ \E i \in DOMAIN Group : ReadTemplates(r, <<i>>)
    \/ \E point \in {"edit", "award", "rejected"} : ReadReward(r, point)
    \/ \E t \in 1..made :
        \/ \E p \in Progress : ReadForReport(r, t, p)
        \/ \E status \in {"in_progress", "completed"} : ReadForStatus(r, t, status)
        \/ ReadForPatch(r, t)
        \/ ReadForRemoval(r, t)

Advance(r) ==
    \/ InsertTask(r) \/ FindReward(r) \/ GrantReward(r) \/ SaveTask(r) \/ RemoveTask(r)
    \/ SaveReward(r) \/ AwardReward(r)
    \/ \E p \in Patches : SavePatch(r, p)

Next ==
    \/ \E r \in Requests : Call(r) \/ Advance(r) \/ RequestFails(r)
    \/ \E k \in Ticks : \/ \E t \in TaskIds : FireJob(k, t)
                        \/ StartTick(k) \/ FinishTick(k) \/ CancelTick(k) \/ TickFails(k)
    \/ RemoveReward
    \/ Restart

Spec == Init /\ [][Next]_vars
-----------------------------------------------------------------------------
(* What the task services promise *)

TypeOK ==
    /\ rows \in [TaskIds -> Row] /\ made \in 0..MaxTasks
    /\ jobs \subseteq 1..made /\ tick \in [Ticks -> Tick]
    /\ granted \in [TaskIds -> Nat] /\ reward \in {"free", "granted", "gone"}
    /\ run \in [Requests -> Request]
    /\ touched \subseteq 1..made /\ booted \in 0..made /\ loaded \in BOOLEAN /\ overlapped \in BOOLEAN
    /\ faults \in 0..MaxFaults /\ crashes \in 0..MaxCrashes

Reports(t) == {r \in Requests : run[r].op = "report" /\ run[r].task = t}

\* However reports overlap, fail or are cut off: a task a report completed has
\* been paid for, and no report pays twice.  (Two reports of one task are two
\* payments: updateTaskProgress does not look at the status.)
RewardsAccounted ==
    \A t \in 1..made : Exists(t) /\ Rewarded(rows[t]) /\ t \notin touched =>
        /\ rows[t].progress = "all" => granted[t] >= 1
        /\ granted[t] <= Cardinality(Reports(t))

\* As long as requests do not overlap, a task that is removed is not inserted
\* again, not by a tick of its job that was already under way either
RemovedStaysRemoved ==
    [][\A t \in 1..made : ~Exists(t) /\ ~overlapped => ~Exists(t)']_vars

\* Whatever overlaps: a job outlives its task only if a PATCH came between, which
\* may make the cron task one of another type before it is removed
JobsBacked == \A t \in jobs : Exists(t) \/ t \in touched

Removing(t) == \E r \in Requests : run[r].op = "remove" /\ run[r].task = t

\* Whatever overlaps: when the last boot met no expression that it could not parse,
\* a cron task of before that boot that is PENDING, and that nobody removes, has
\* its job
ScheduleComplete ==
    loaded =>
        \A t \in 1..booted :
            /\ rows[t].status = "pending" /\ rows[t].type = "cron"
            /\ Group[rows[t].template].crontab # "none"
            /\ t \notin touched /\ ~Removing(t)
            => t \in jobs
=============================================================================
