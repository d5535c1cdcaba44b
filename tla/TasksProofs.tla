------------------------------ MODULE TasksProofs ------------------------------
(***************************************************************************)
(* For any number of requests, ticks, tasks and templates, any failing     *)
(* queries and restarts: rewards are accounted for, jobs and tasks match,  *)
(* and while requests do not overlap a removed task stays removed.         *)
(***************************************************************************)
EXTENDS Tasks, FiniteSetTheorems, TLAPS

\* A row that is all done, of a rewarded template, has been paid for
Paid(t, row) == row.progress = "all" /\ Rewarded(row) => granted[t] >= 1

\* A cron task that is due at the next boot, if its expression can be parsed
Waits(row) == row.status = "pending" /\ row.type = "cron" /\ Group[row.template].crontab # "none"

RowFits(t) ==
    /\ t \notin 1..made => rows[t] = NoRow
    /\ Exists(t) /\ t \notin touched => Paid(t, rows[t])
    /\ t \in jobs \ touched => Exists(t) /\ rows[t].type = "cron"
    /\ loaded /\ t \in (1..booted) \ touched /\ ~Removing(t) /\ Waits(rows[t]) => t \in jobs

\* Where a request holds a copy, and where it will save that copy as it is
Holding == {"reward", "grant", "save", "patch"}
Saving == {"reward", "grant", "save"}

\* A copy that is to be saved fits like a row; a task under removal has no job
Fits(q) ==
    /\ q.pc = "idle" => q.op = "none"
    /\ q.pc = "insert" => q.left # <<>>
    /\ q.pc \in {"reward", "grant"} => q.op = "report"
    /\ q.pc \in Holding \cup {"remove"} => q.task \in 1..made
    /\ q.pc \in Holding => q.row.status # "absent"
    /\ q.pc = "remove" => q.op = "remove" /\ q.task \notin jobs \ touched
    /\ q.pc = "save" /\ q.task \notin touched => Paid(q.task, q.row)
    /\ q.pc \in Saving /\ q.task \in jobs \ touched => q.row.type = "cron"
    /\ q.pc \in Saving /\ loaded /\ q.task \in (1..booted) \ touched
       /\ ~Removing(q.task) /\ Waits(q.row) => q.task \in jobs

\* The reports of a task that are past the insert of its reward
Settled(t) == {r \in Reports(t) : run[r].pc \notin {"reward", "grant"}}

IInv ==
    /\ TypeOK
    /\ \A t \in TaskIds : RowFits(t)
    /\ \A r \in Requests : Fits(run[r])
    /\ \A k \in Ticks : tick[k].pc # "none" => tick[k].task \in 1..made
    /\ \A t \in TaskIds : granted[t] <= Cardinality(Settled(t))

\* While requests do not overlap there is one at a time, and the row it holds a
\* copy of stays
InTurn ==
    /\ \A r, o \in Requests : Live(r) /\ Live(o) => r = o
    /\ \A r \in Requests : run[r].pc \in Holding => Exists(run[r].task)

TInv == IInv /\ (~overlapped => InTurn)

-----------------------------------------------------------------------------
(* Rows, requests and their parts *)

\* A row that is there is a record of columns; it keeps to them under an update
LEMMA RowColumns ==
    ASSUME NEW row \in Row, row.status # "absent"
    PROVE  /\ row \in [status: Statuses, progress: Progress, type: {"custom", "cron"},
                       template: DOMAIN Group]
           /\ \A s \in Statuses : [row EXCEPT !.status = s] \in Row
BY DEF Row, NoRow

\* Any status but "absent" is a status of a row that is there
LEMMA RowThere ==
    ASSUME NEW row \in [status: Statuses, progress: Progress, type: {"custom", "cron"},
                        template: DOMAIN Group]
    PROVE  row \in Row /\ row.status # "absent" /\ row # NoRow
BY DEF Row, NoRow, Statuses

LEMMA NewRowThere ==
    ASSUME NEW i \in DOMAIN Group
    PROVE  /\ NewRow(i) \in [status: Statuses, progress: Progress, type: {"custom", "cron"},
                             template: DOMAIN Group]
           /\ NewRow(i).progress = "none"
<1>1. Group[i] \in Template
  BY TasksAssumption
<1>2. QED
  BY <1>1 DEF NewRow, Statuses, Progress, Template

LEMMA NoRowFacts == NoRow \in Row /\ NoRow.status = "absent" /\ NoRow.progress = "none"
BY DEF NoRow, Row

LEMMA IdleFacts ==
    /\ IdleRequest \in Request
    /\ IdleRequest.row = NoRow /\ IdleRequest.task = 0 /\ IdleRequest.left = <<>>
    /\ IdleRequest.op = "none" /\ IdleRequest.pc = "idle"
BY TasksAssumption DEF IdleRequest, Request, PCs, NoRow, Row

\* An answered request keeps what it was asked
LEMMA AnswerFacts ==
    ASSUME NEW q \in Request, NEW c \in PCs
    PROVE  /\ Answer(q, c) \in Request /\ Answer(q, c).pc = c
           /\ Answer(q, c).op = q.op /\ Answer(q, c).task = q.task
<1>1. <<>> \in Seq(DOMAIN Group)
  OBVIOUS
<1>2. QED
  BY <1>1, NoRowFacts DEF Answer, Request

LEMMA GotoFacts ==
    ASSUME NEW q \in Request, NEW c \in PCs, NEW p, p = [q EXCEPT !.pc = c]
    PROVE  /\ p \in Request /\ p.pc = c /\ p.op = q.op /\ p.task = q.task
           /\ p.row = q.row /\ p.left = q.left
BY DEF Request

-----------------------------------------------------------------------------
(* What a step of a request does to the others *)

\* Request r begins, or goes on and keeps what it was asked; it is on its way to
\* a grant only if it was before
Goes(r) ==
    /\ run' \in [Requests -> Request]
    /\ \A o \in Requests \ {r} : run'[o] = run[o]
    /\ \/ run[r].pc = "idle"
       \/ /\ run'[r].op = run[r].op /\ run'[r].task = run[r].task
          /\ run'[r].pc \in {"reward", "grant"} => run[r].pc \in {"reward", "grant"}

\* What is made, touched or granted stays so; jobs are only stopped, for a removal
Grows ==
    /\ made' \in Nat /\ made <= made' /\ touched \subseteq touched'
    /\ \A t \in TaskIds : granted'[t] \in Nat /\ granted[t] <= granted'[t]
    /\ jobs' \subseteq jobs /\ \A t \in jobs \ jobs' : Removing(t)'
    /\ UNCHANGED <<booted, loaded>>

\* One request is replaced by p, and the others stay
LEMMA ReplaceGoes ==
    ASSUME IInv, NEW r \in Requests, NEW p \in Request, run' = [run EXCEPT ![r] = p],
           \/ run[r].pc = "idle"
           \/ /\ p.op = run[r].op /\ p.task = run[r].task
              /\ p.pc \in {"reward", "grant"} => run[r].pc \in {"reward", "grant"}
    PROVE  Goes(r) /\ run'[r] = p
BY DEF IInv, TypeOK, Goes

LEMMA RemovingStays ==
    ASSUME IInv, NEW r \in Requests, Goes(r), NEW t, Removing(t)
    PROVE  Removing(t)'
<1>1. PICK o \in Requests : run[o].op = "remove" /\ run[o].task = t
  BY DEF Removing
<1>2. CASE o # r
  BY <1>1, <1>2 DEF Goes, Removing
<1>3. CASE o = r
  <2>1. run[r].pc # "idle"
    BY <1>1, <1>3 DEF IInv, Fits
  <2>2. QED
    BY <1>1, <1>3, <2>1 DEF Goes, Removing
<1>4. QED
  BY <1>2, <1>3

LEMMA SettledGrows ==
    ASSUME IInv, NEW r \in Requests, Goes(r), NEW t
    PROVE  /\ Settled(t) \subseteq Settled(t)' /\ IsFiniteSet(Settled(t)')
           /\ Cardinality(Settled(t)) <= Cardinality(Settled(t)')
<1>1. Settled(t) \subseteq Settled(t)'
  BY DEF IInv, Fits, Settled, Reports, Goes
<1>2. IsFiniteSet(Settled(t)')
  <2>1. Settled(t)' \subseteq Requests
    BY DEF Settled, Reports
  <2>2. QED
    BY <2>1, TasksAssumption, FS_Subset
<1>3. QED
  BY <1>1, <1>2, FS_Subset

\* The other requests still fit
LEMMA OthersFit ==
    ASSUME IInv, NEW r \in Requests, Goes(r), Grows, NEW o \in Requests \ {r}
    PROVE  Fits(run[o])'
<1> DEFINE q == run[o]
<1>1. run'[o] = q /\ q \in Request /\ Fits(q)
  BY DEF Goes, IInv, TypeOK
<1>2. Removing(q.task) => (\E x \in Requests : run'[x].op = "remove" /\ run'[x].task = q.task)
  <2>1. \A t : Removing(t) => Removing(t)'
    BY RemovingStays
  <2>2. QED
    BY <2>1 DEF Removing
<1>3. 1..made \subseteq 1..made' /\ jobs' \subseteq jobs /\ touched \subseteq touched'
  BY TasksAssumption DEF IInv, TypeOK, Grows
<1>4. \A t \in 1..made : t \in TaskIds /\ granted[t] \in Nat /\ granted[t] <= granted'[t]
                         /\ granted'[t] \in Nat
  BY TasksAssumption DEF IInv, TypeOK, Grows, TaskIds
<1>5. \A t \in jobs \ jobs' : \E x \in Requests : run'[x].op = "remove" /\ run'[x].task = t
  BY DEF Grows, Removing, IInv, TypeOK, TaskIds
<1>6. q.pc = "save" /\ q.task \notin touched' => Paid(q.task, q.row)'
  BY <1>1, <1>3, <1>4 DEF Fits, Holding, Paid, Rewarded
<1>7. q.pc \in Saving /\ loaded' /\ q.task \in (1..booted') \ touched'
      /\ ~Removing(q.task)' /\ Waits(q.row) => q.task \in jobs'
  <2> SUFFICES ASSUME q.pc \in Saving, loaded, q.task \in (1..booted) \ touched,
                      ~Removing(q.task)', Waits(q.row)
               PROVE  q.task \in jobs'
    BY <1>3 DEF Grows
  <2>1. ~(\E x \in Requests : run'[x].op = "remove" /\ run'[x].task = q.task)
    BY <1>1 DEF Removing
  <2>2. q.task \in jobs
    BY <1>1, <1>2, <2>1 DEF Fits
  <2>3. QED
    BY <1>5, <2>1, <2>2
<1>8. Fits(q)
  BY <1>1
<1>9. QED
  BY <1>1, <1>3, <1>6, <1>7, <1>8 DEF Fits, Waits

\* A row that stays as it is still fits
LEMMA RowStays ==
    ASSUME IInv, NEW r \in Requests, Goes(r), Grows, NEW t \in TaskIds, rows'[t] = rows[t]
    PROVE  RowFits(t)'
<1>1. 1..made \subseteq 1..made' /\ jobs' \subseteq jobs /\ touched \subseteq touched'
  BY TasksAssumption DEF IInv, TypeOK, Grows
<1>2. granted[t] \in Nat /\ granted'[t] \in Nat /\ granted[t] <= granted'[t]
  BY DEF IInv, TypeOK, Grows
<1>3. RowFits(t) /\ (Removing(t) => Removing(t)')
  BY RemovingStays DEF IInv
<1>4. Exists(t)' <=> Exists(t)
  BY DEF Exists
<1>5. Paid(t, rows[t]) => Paid(t, rows[t])'
  BY <1>2 DEF Paid, Rewarded
<1>6. t \in jobs /\ ~Removing(t)' => t \in jobs'
  BY DEF Grows
<1>7. loaded' = loaded /\ booted' = booted
  BY DEF Grows
<1>8. Waits(rows[t])' <=> Waits(rows[t])
  BY DEF Waits
<1>9. QED
  BY <1>1, <1>3, <1>4, <1>5, <1>6, <1>7, <1>8 DEF RowFits

\* A step of a request keeps the invariant when it fits, with the rows it changes
LEMMA StepKeeps ==
    ASSUME IInv, NEW r \in Requests, Goes(r), Grows, TypeOK', Fits(run[r])', UNCHANGED tick,
           \A t \in TaskIds : rows'[t] = rows[t] \/ RowFits(t)',
           \A t \in TaskIds : granted'[t] = granted[t]
                              \/ granted'[t] <= Cardinality(Settled(t)')
    PROVE  IInv'
<1>1. \A t \in TaskIds : RowFits(t)'
  BY RowStays
<1>2. \A o \in Requests : Fits(run[o])'
  BY OthersFit
<1>3. \A k \in Ticks : tick'[k].pc # "none" => tick'[k].task \in 1..made'
  <2>1. 1..made \subseteq 1..made'
    BY TasksAssumption DEF IInv, TypeOK, Grows
  <2>2. QED
    BY <2>1 DEF IInv
<1>4. ASSUME NEW t \in TaskIds
      PROVE  granted'[t] <= Cardinality(Settled(t)')
  <2>1. CASE granted'[t] = granted[t]
    <3>1. granted[t] <= Cardinality(Settled(t)) /\ granted[t] \in Nat
      BY DEF IInv, TypeOK
    <3>2. /\ Cardinality(Settled(t)) <= Cardinality(Settled(t)') /\ Cardinality(Settled(t)') \in Nat
          /\ IsFiniteSet(Settled(t))
      BY SettledGrows, FS_CardinalityType, FS_Subset
    <3>3. Cardinality(Settled(t)) \in Nat
      BY <3>2, FS_CardinalityType
    <3>4. QED
      BY <2>1, <3>1, <3>2, <3>3
  <2>2. QED
    BY <2>1
<1>5. QED
  BY <1>1, <1>2, <1>3, <1>4 DEF IInv

\* A step that only changes the request
LEMMA MoveKeeps ==
    ASSUME IInv, NEW r \in Requests, NEW p \in Request, run' = [run EXCEPT ![r] = p],
           \/ run[r].pc = "idle"
           \/ /\ p.op = run[r].op /\ p.task = run[r].task
              /\ p.pc \in {"reward", "grant"} => run[r].pc \in {"reward", "grant"},
           Fits(run[r])',
           UNCHANGED <<rows, made, granted, jobs, tick, touched, booted, loaded>>,
           reward' \in {"free", "granted", "gone"}, overlapped' \in BOOLEAN,
           faults' \in 0..MaxFaults, crashes' = crashes
    PROVE  IInv'
<1>1. Goes(r)
  BY ReplaceGoes
<1>2. Grows
  BY TasksAssumption DEF Grows, IInv, TypeOK
<1>3. TypeOK'
  BY DEF IInv, TypeOK
<1>4. QED
  BY <1>1, <1>2, <1>3, StepKeeps

\* Every call of the services
LEMMA CallKeeps ==
    ASSUME IInv, NEW r \in Requests, Call(r)
    PROVE  IInv'
<1>0. /\ TypeOK /\ IdleRequest \in Request /\ run[r] \in Request /\ made \in Nat
      /\ 1..made \subseteq 0..MaxTasks /\ 1..made \subseteq TaskIds
  BY TasksAssumption, IdleFacts DEF IInv, TypeOK, TaskIds
<1>1. ASSUME NEW left \in Seq(DOMAIN Group), ReadTemplates(r, left)
      PROVE  IInv'
  <2> DEFINE c == IF left = <<>> THEN "done" ELSE "insert"
             p == [IdleRequest EXCEPT !.op = "create", !.left = left, !.pc = c]
  <2>1. c \in PCs /\ c \in {"done", "insert"} /\ (c = "insert" => left # <<>>)
    BY DEF PCs
  <2> HIDE DEF c
  <2>2. p \in Request /\ p.pc = c /\ p.left = left
    BY <1>0, <2>1 DEF Request
  <2>3. run' = [run EXCEPT ![r] = p] /\ run[r].pc = "idle"
    BY <1>1 DEF ReadTemplates, Begin, c
  <2>4. run'[r] = p
    BY <1>0, <2>3 DEF TypeOK
  <2>5. Fits(run[r])'
    BY <2>1, <2>2, <2>4 DEF Fits, Holding, Saving
  <2>6. overlapped' \in BOOLEAN
    BY <1>0, <1>1 DEF ReadTemplates, Begin, TypeOK
  <2>7. QED
    BY <1>0, <1>1, <2>2, <2>3, <2>5, <2>6, MoveKeeps DEF ReadTemplates, TypeOK, taskVars
<1>2. ASSUME NEW q \in Request, q.op # "remove", NEW c \in {"done", "rejected"},
             run[r].pc = "idle", run' = [run EXCEPT ![r] = Answer(q, c)],
             UNCHANGED <<rows, made, granted, jobs, tick, touched, booted, loaded>>,
             reward' \in {"free", "granted", "gone"}, overlapped' \in BOOLEAN,
             UNCHANGED <<faults, crashes>>
      PROVE  IInv'
  <2>1. c \in PCs
    BY DEF PCs
  <2>2. Answer(q, c) \in Request /\ Answer(q, c).pc = c
    BY <2>1, AnswerFacts
  <2>3. run'[r] = Answer(q, c)
    BY <1>0, <1>2 DEF TypeOK
  <2>4. Fits(run[r])'
    BY <2>2, <2>3 DEF Fits, Holding, Saving
  <2>5. QED
    BY <1>0, <1>2, <2>2, <2>4, MoveKeeps DEF TypeOK
<1>3. ASSUME NEW t \in 1..made
      PROVE  /\ rows[t] \in Row /\ t \in 0..MaxTasks /\ t \in TaskIds /\ RowFits(t)
             /\ Exists(t) => rows[t] \in [status: Statuses, progress: Progress,
                                          type: {"custom", "cron"}, template: DOMAIN Group]
  BY <1>0, RowColumns DEF IInv, TypeOK, Exists
<1>4. ASSUME NEW t \in 1..made, NEW p \in Progress, ReadForReport(r, t, p)
      PROVE  IInv'
  <2> DEFINE s == CASE p = "all" -> "completed" [] p = "some" -> "in_progress" [] OTHER -> rows[t].status
             row == [rows[t] EXCEPT !.progress = p, !.status = s]
             l == [IdleRequest EXCEPT !.op = "report", !.task = t]
             c == IF p = "all" /\ Rewarded(row) THEN "reward" ELSE "save"
             q == [l EXCEPT !.row = row, !.pc = c]
  <2>1. run[r].pc = "idle" /\ overlapped' \in BOOLEAN
    BY <1>0, <1>4 DEF ReadForReport, Begin, TypeOK
  <2>2. l \in Request /\ l.op = "report" /\ l.task = t
    BY <1>0, <1>3 DEF Request
  <2>3. CASE ~Exists(t)
    <3>1. run' = [run EXCEPT ![r] = Answer(l, "rejected")]
      BY <1>4, <2>3 DEF ReadForReport, Begin
    <3> HIDE DEF l
    <3>2. QED
      BY <1>0, <1>2, <1>4, <2>1, <2>2, <3>1 DEF ReadForReport, TypeOK, taskVars
  <2>4. CASE Exists(t)
    <3>1. rows[t] \in [status: Statuses, progress: Progress,
                       type: {"custom", "cron"}, template: DOMAIN Group]
      BY <1>3, <2>4
    <3>2. /\ s \in Statuses /\ (s = "pending" => rows[t].status = "pending")
          /\ (s = "pending" => p = "none") /\ c \in {"reward", "save"}
      BY <3>1 DEF Statuses, Progress
    <3>3. run' = [run EXCEPT ![r] = q]
      BY <1>4, <2>4 DEF ReadForReport, Begin
    <3>4. c = "save" => p # "all" \/ ~Rewarded(row)
      OBVIOUS
    <3> HIDE DEF s, c, l
    <3>5. /\ row \in [status: Statuses, progress: Progress,
                      type: {"custom", "cron"}, template: DOMAIN Group]
          /\ row.status = s /\ row.progress = p /\ row.type = rows[t].type
          /\ row.template = rows[t].template
      BY <3>1, <3>2
    <3> HIDE DEF row
    <3>6. row \in Row /\ row.status # "absent"
      BY <3>5, RowThere
    <3>7. c \in PCs
      BY <3>2 DEF PCs
    <3>8. q \in Request /\ q.pc = c /\ q.row = row /\ q.task = t /\ q.op = "report"
      BY <2>2, <3>6, <3>7 DEF Request
    <3>9. run'[r] = q
      BY <1>0, <3>3 DEF TypeOK
    <3>10. UNCHANGED <<rows, made, granted, jobs, tick, touched, booted, loaded>>
      BY <1>4 DEF ReadForReport, taskVars
    <3>11. c = "save" => Paid(t, run[r].row)'
      BY <3>4, <3>5, <3>8, <3>9 DEF Paid, Rewarded
    <3>12. Waits(run[r].row)' => Waits(rows[t])
      BY <3>2, <3>5, <3>8, <3>9 DEF Waits
    <3>13. Removing(t) => Removing(t)'
      BY <1>0, <2>1, <3>3, <3>8, RemovingStays, ReplaceGoes
    <3>14. Fits(run[r])'
      BY <1>3, <3>2, <3>5, <3>6, <3>8, <3>9, <3>10, <3>11, <3>12, <3>13
         DEF Fits, Holding, Saving, RowFits, Removing
    <3>15. QED
      BY <1>0, <1>4, <2>1, <3>3, <3>8, <3>10, <3>14, MoveKeeps
         DEF ReadForReport, TypeOK, taskVars
  <2>5. QED
    BY <2>3, <2>4
<1>5. ASSUME NEW point \in {"edit", "award", "rejected"}, ReadReward(r, point)
      PROVE  IInv'
  <2> DEFINE c == IF reward = "gone" THEN "rejected" ELSE point
             p == [IdleRequest EXCEPT !.op = "reward", !.pc = c]
  <2>1. c \in PCs /\ c \in {"edit", "award", "rejected"}
    BY DEF PCs
  <2>2. run' = [run EXCEPT ![r] = p] /\ run[r].pc = "idle" /\ overlapped' \in BOOLEAN
    BY <1>0, <1>5 DEF ReadReward, Begin, TypeOK
  <2> HIDE DEF c
  <2>3. p \in Request /\ p.pc = c
    BY <1>0, <2>1 DEF Request
  <2>4. run'[r] = p
    BY <1>0, <2>2 DEF TypeOK
  <2>5. Fits(run[r])'
    BY <2>1, <2>3, <2>4 DEF Fits, Holding, Saving
  <2>6. QED
    BY <1>0, <1>5, <2>2, <2>3, <2>5, MoveKeeps DEF ReadReward, TypeOK, taskVars
<1>6. ASSUME NEW t \in 1..made, NEW status \in {"in_progress", "completed"},
             ReadForStatus(r, t, status)
      PROVE  IInv'
  <2> DEFINE row == [rows[t] EXCEPT !.status = status]
             l == [IdleRequest EXCEPT !.op = "status", !.task = t]
             q == [l EXCEPT !.pc = "save", !.row = row]
             valid == <<rows[t].status, status>> \in ValidTransitions
  <2>1. run[r].pc = "idle" /\ overlapped' \in BOOLEAN
    BY <1>0, <1>6 DEF ReadForStatus, Begin, TypeOK
  <2>2. l \in Request /\ l.op = "status" /\ l.task = t
    BY <1>0, <1>3 DEF Request
  <2>3. CASE ~valid
    <3>1. run' = [run EXCEPT ![r] = Answer(l, "rejected")]
      BY <1>6, <2>3 DEF ReadForStatus, Begin
    <3> HIDE DEF l, valid
    <3>2. QED
      BY <1>0, <1>2, <1>6, <2>1, <2>2, <3>1 DEF ReadForStatus, TypeOK, taskVars
  <2>4. CASE valid
    <3>1. run' = [run EXCEPT ![r] = q]
      BY <1>6, <2>4 DEF ReadForStatus, Begin
    <3>2. Exists(t)
      BY <2>4 DEF ValidTransitions, Exists
    <3>3. rows[t] \in [status: Statuses, progress: Progress,
                       type: {"custom", "cron"}, template: DOMAIN Group]
      BY <1>3, <3>2
    <3>4. /\ row \in [status: Statuses, progress: Progress,
                      type: {"custom", "cron"}, template: DOMAIN Group]
          /\ row.status = status /\ row.progress = rows[t].progress
          /\ row.type = rows[t].type /\ row.template = rows[t].template
      BY <3>3 DEF Statuses
    <3> HIDE DEF row, l, valid
    <3>5. row \in Row /\ row.status # "absent"
      BY <3>4, RowThere
    <3>6. q \in Request /\ q.pc = "save" /\ q.row = row /\ q.task = t /\ q.op = "status"
      BY <2>2, <3>5 DEF Request, PCs
    <3>7. run'[r] = q
      BY <1>0, <3>1 DEF TypeOK
    <3>8. UNCHANGED <<rows, made, granted, jobs, tick, touched, booted, loaded>>
      BY <1>6 DEF ReadForStatus, taskVars
    <3>9. t \notin touched => Paid(t, run[r].row)'
      BY <1>3, <3>2, <3>4, <3>6, <3>7, <3>8 DEF RowFits, Paid, Rewarded
    <3>10. ~Waits(run[r].row)'
      BY <3>4, <3>6, <3>7 DEF Waits
    <3>11. Fits(run[r])'
      BY <1>3, <3>4, <3>5, <3>6, <3>7, <3>8, <3>9, <3>10
         DEF Fits, Holding, Saving, RowFits
    <3>12. QED
      BY <1>0, <1>6, <2>1, <3>1, <3>6, <3>8, <3>11, MoveKeeps
         DEF ReadForStatus, TypeOK, taskVars
  <2>5. QED
    BY <2>3, <2>4
<1>7. ASSUME NEW t \in 1..made, ReadForPatch(r, t)
      PROVE  IInv'
  <2> DEFINE c == IF Exists(t) THEN "patch" ELSE "rejected"
             p == [IdleRequest EXCEPT !.op = "patch", !.task = t, !.row = rows[t], !.pc = c]
  <2>1. c \in PCs /\ c \in {"patch", "rejected"} /\ (c = "patch" => Exists(t))
    BY DEF PCs
  <2>2. run' = [run EXCEPT ![r] = p] /\ run[r].pc = "idle" /\ overlapped' \in BOOLEAN
    BY <1>0, <1>7 DEF ReadForPatch, Begin, TypeOK
  <2> HIDE DEF c
  <2>3. p \in Request /\ p.pc = c /\ p.task = t /\ p.row = rows[t]
    BY <1>0, <1>3, <2>1 DEF Request
  <2>4. run'[r] = p
    BY <1>0, <2>2 DEF TypeOK
  <2>5. made' = made
    BY <1>7 DEF ReadForPatch, taskVars
  <2>6. Fits(run[r])'
    BY <2>1, <2>3, <2>4, <2>5 DEF Fits, Holding, Saving, Exists
  <2>7. QED
    BY <1>0, <1>7, <2>2, <2>3, <2>6, MoveKeeps DEF ReadForPatch, TypeOK, taskVars
<1>8. ASSUME NEW t \in 1..made, ReadForRemoval(r, t)
      PROVE  IInv'
  <2> DEFINE c == IF Exists(t) THEN "remove" ELSE "done"
             p == [IdleRequest EXCEPT !.op = "remove", !.task = t, !.pc = c]
  <2>1. c \in PCs /\ c \in {"remove", "done"}
    BY DEF PCs
  <2>2. /\ run' = [run EXCEPT ![r] = p] /\ run[r].pc = "idle" /\ overlapped' \in BOOLEAN
        /\ UNCHANGED <<rows, made, granted, reward, tick, touched, booted, loaded, faults, crashes>>
        /\ jobs' = IF rows[t].type = "cron" THEN jobs \ {t} ELSE jobs
    BY <1>0, <1>8 DEF ReadForRemoval, Begin, TypeOK, Unscheduled, taskVars
  <2> HIDE DEF c
  <2>3. p \in Request /\ p.pc = c /\ p.task = t /\ p.op = "remove"
    BY <1>0, <1>3, <2>1 DEF Request
  <2> HIDE DEF p
  <2>4. Goes(r) /\ run'[r] = p
    BY <2>2, <2>3, ReplaceGoes
  <2>5. Grows
    BY <1>0, <2>2, <2>3, <2>4 DEF TypeOK, Grows, Removing
  <2>6. TypeOK'
    BY <1>0, <2>2, <2>4 DEF TypeOK, Goes
  <2>7. Fits(run[r])'
    BY <1>3, <2>1, <2>2, <2>3, <2>4 DEF Fits, Holding, Saving, RowFits
  <2>8. QED
    BY <2>2, <2>4, <2>5, <2>6, <2>7, StepKeeps
<1>9. [i \in DOMAIN Group |-> i] \in Seq(DOMAIN Group)
  BY TasksAssumption
<1>10. \A i \in DOMAIN Group : <<i>> \in Seq(DOMAIN Group)
  OBVIOUS
<1>11. QED
  BY <1>1, <1>4, <1>5, <1>6, <1>7, <1>8, <1>9, <1>10 DEF Call

-----------------------------------------------------------------------------
(* Every step of a request under way *)

Column == [status: Statuses, progress: Progress, type: {"custom", "cron"}, template: DOMAIN Group]

\* The columns a PATCH names keep a row a row
LEMMA PatchedFacts ==
    ASSUME NEW row \in Row, row.status # "absent", NEW p \in Patches
    PROVE  Patched(row, p) \in Row /\ Patched(row, p).status # "absent"
<1>1. row \in Column
  BY RowColumns DEF Column
<1>2. /\ p.status \in Statuses \cup {"same"} /\ p.type \in {"custom", "cron", "same"}
      /\ p.progress \in Progress \cup {"same"}
  BY DEF Patches, Same, Statuses, Progress
<1> DEFINE s == IF p.status = "same" THEN row.status ELSE p.status
           y == IF p.type = "same" THEN row.type ELSE p.type
           g == IF p.progress = "same" THEN row.progress ELSE p.progress
<1>3. s \in Statuses /\ y \in {"custom", "cron"} /\ g \in Progress
  BY <1>1, <1>2 DEF Column
<1>4. Patched(row, p) = [row EXCEPT !.status = s, !.type = y, !.progress = g]
  BY DEF Patched
<1> HIDE DEF s, y, g
<1>5. [row EXCEPT !.status = s, !.type = y, !.progress = g] \in Column
  BY <1>1, <1>3 DEF Column
<1>6. QED
  BY <1>4, <1>5, RowThere DEF Column

\* A request that is answered and leaves everything but the reward alone
LEMMA AnswerKeeps ==
    ASSUME IInv, NEW r \in Requests, Live(r), NEW c \in {"done", "rejected"},
           run' = [run EXCEPT ![r] = Answer(run[r], c)],
           UNCHANGED <<rows, made, granted, jobs, tick, historyVars>>,
           reward' \in {"free", "granted", "gone"}, faults' \in 0..MaxFaults, crashes' = crashes
    PROVE  IInv'
<1>1. c \in PCs
  BY DEF PCs
<1>2. run[r] \in Request
  BY DEF IInv, TypeOK
<1> DEFINE p == Answer(run[r], c)
<1>3. p \in Request /\ p.pc = c /\ p.op = run[r].op /\ p.task = run[r].task
  BY <1>1, <1>2, AnswerFacts
<1> HIDE DEF p
<1>4. run' = [run EXCEPT ![r] = p]
  BY DEF p
<1>5. run'[r] = p
  BY <1>4 DEF IInv, TypeOK
<1>6. Fits(run[r])'
  BY <1>3, <1>5 DEF Fits, Holding, Saving
<1>7. overlapped' \in BOOLEAN
  BY DEF IInv, TypeOK, historyVars
<1>8. QED
  BY <1>3, <1>4, <1>6, <1>7, MoveKeeps DEF historyVars

\* What is left of the templates to insert
LEMMA LeftFacts ==
    ASSUME NEW left \in Seq(DOMAIN Group), left # <<>>
    PROVE  /\ Head(left) \in DOMAIN Group
           /\ Len(left) # 1 => Tail(left) \in Seq(DOMAIN Group) /\ Tail(left) # <<>>
<1>1. Head(left) \in DOMAIN Group /\ Tail(left) \in Seq(DOMAIN Group) /\ Len(left) \in Nat
  OBVIOUS
<1>2. Len(left) # 0 /\ Len(Tail(left)) = Len(left) - 1
  OBVIOUS
<1>3. Len(left) # 1 => Len(Tail(left)) # 0
  BY <1>1, <1>2
<1>4. \A s : Len(s) # 0 => s # <<>>
  OBVIOUS
<1>5. QED
  BY <1>1, <1>3, <1>4

LEMMA AdvanceKeeps ==
    ASSUME IInv, NEW r \in Requests, Advance(r)
    PROVE  IInv'
<1> DEFINE q == run[r]
<1>0. /\ TypeOK /\ q \in Request /\ Fits(q) /\ made \in Nat /\ MaxTasks \in Nat
      /\ 1..made \subseteq 0..MaxTasks /\ 1..made \subseteq TaskIds /\ "done" \in PCs
  BY TasksAssumption DEF IInv, TypeOK, TaskIds, PCs
<1>1. ASSUME NEW p \in Request, p.pc = "done", p.op = q.op, p.task = q.task, run' = [run EXCEPT ![r] = p],
             Live(r)
      PROVE  Goes(r) /\ run'[r] = p /\ Fits(run[r])'
  <2>1. Goes(r) /\ run'[r] = p
    BY <1>1, ReplaceGoes
  <2>2. QED
    BY <1>1, <2>1 DEF Fits, Holding, Saving
<1>2. Answer(q, "done") \in Request /\ Answer(q, "done").pc = "done"
      /\ Answer(q, "done").op = q.op /\ Answer(q, "done").task = q.task
  BY <1>0, AnswerFacts
<1>3. CASE InsertTask(r)
  <2>0. PICK t \in Nat : t = made + 1
    BY <1>0
  <2> DEFINE i == Head(q.left)
             p == IF Len(q.left) = 1 THEN Answer(q, "done") ELSE [q EXCEPT !.left = Tail(@)]
  <2>1. /\ q.pc = "insert" /\ made < MaxTasks /\ made' = t /\ rows' = [rows EXCEPT ![t] = NewRow(i)]
        /\ run' = [run EXCEPT ![r] = p]
        /\ UNCHANGED <<granted, reward, jobs, tick, touched, booted, loaded, overlapped, faults, crashes>>
    BY <2>0, <1>3 DEF InsertTask, Save, Become, historyVars
  <2>2. q.left \in Seq(DOMAIN Group) /\ q.left # <<>>
    BY <1>0, <2>1 DEF Request, Fits
  <2>3. i \in DOMAIN Group /\ (Len(q.left) # 1 => Tail(q.left) \in Seq(DOMAIN Group) /\ Tail(q.left) # <<>>)
    BY <2>2, LeftFacts
  <2>4. /\ p \in Request /\ p.op = q.op /\ p.task = q.task
        /\ p.pc = "done" \/ (p.pc = "insert" /\ p.left # <<>>)
    BY <1>0, <1>2, <2>1, <2>3 DEF Request
  <2> HIDE DEF p, i
  <2>5. Goes(r) /\ run'[r] = p
    BY <2>1, <2>4, ReplaceGoes
  <2>6. Fits(run[r])'
    BY <2>4, <2>5 DEF Fits, Holding, Saving
  <2>7. NewRow(i) \in Row /\ NewRow(i).status # "absent" /\ NewRow(i).progress = "none"
    BY <2>3, NewRowThere, RowThere
  <2>8. rows \in [TaskIds -> Row] /\ t \in TaskIds /\ t \notin 1..made
    BY <2>0, <1>0, <2>1 DEF TypeOK, TaskIds
  <2>9. rows'[t] = NewRow(i) /\ \A u \in TaskIds : u # t => rows'[u] = rows[u]
    BY <2>1, <2>8
  <2>10. RowFits(t)'
    <3>1. t \notin jobs /\ t \notin 1..booted /\ t \in 1..t
      BY <2>0, <1>0 DEF TypeOK
    <3>2. QED
      BY <2>1, <2>7, <2>9, <3>1 DEF RowFits, Paid
  <2>11. TypeOK'
    <3>1. made' \in 0..MaxTasks /\ 1..made \subseteq 1..made' /\ 0..made \subseteq 0..made'
      BY <2>0, <1>0, <2>1
    <3>2. rows' \in [TaskIds -> Row]
      BY <2>1, <2>7, <2>8
    <3>3. QED
      BY <1>0, <2>1, <2>5, <3>1, <3>2 DEF TypeOK, Goes
  <2>12. Grows
    BY <2>0, <1>0, <2>1 DEF Grows, TypeOK
  <2>13. QED
    BY <2>1, <2>5, <2>6, <2>9, <2>10, <2>11, <2>12, StepKeeps
<1>4. CASE FindReward(r)
  <2>1. CASE reward = "gone"
    BY <1>0, <1>4, <2>1, AnswerKeeps DEF FindReward, Become, taskVars, Live, Ended, TypeOK
  <2>2. CASE reward # "gone"
    <3>0. PICK t \in 0..MaxTasks : t = q.task
      BY <1>0 DEF Request
    <3> DEFINE p == [q EXCEPT !.pc = "grant"]
    <3>1. run' = [run EXCEPT ![r] = p] /\ q.pc = "reward"
      BY <1>4, <2>2 DEF FindReward, Goto, Become
    <3>2. "grant" \in PCs
      BY DEF PCs
    <3>3. /\ p \in Request /\ p.pc = "grant" /\ p.op = q.op /\ p.task = q.task
          /\ p.row = q.row /\ p.left = q.left
      BY <1>0, <3>2, GotoFacts
    <3> HIDE DEF p
    <3>4. Goes(r) /\ run'[r] = p
      BY <3>1, <3>3, ReplaceGoes
    <3>5. UNCHANGED <<rows, made, granted, reward, jobs, tick, touched, booted, loaded, overlapped, faults, crashes>>
      BY <1>4 DEF FindReward, taskVars, historyVars
    <3>6. Removing(t) => Removing(t)'
      BY <3>4, RemovingStays
    <3>7. Waits(run[r].row)' => Waits(q.row)
      BY <3>3, <3>4 DEF Waits
    <3>8. Fits(run[r])'
      BY <1>0, <3>0, <3>1, <3>3, <3>4, <3>5, <3>6, <3>7 DEF Fits, Holding, Saving, Removing
    <3>9. QED
      BY <1>0, <3>1, <3>3, <3>5, <3>8, MoveKeeps DEF TypeOK
  <2>3. QED
    BY <2>1, <2>2
<1>5. CASE GrantReward(r)
  <2>1. CASE reward = "gone"
    BY <1>0, <1>5, <2>1, AnswerKeeps DEF GrantReward, Become, Live, Ended, TypeOK
  <2>2. CASE reward # "gone"
    <3>0. PICK t \in 0..MaxTasks : t = q.task
      BY <1>0 DEF Request
    <3> DEFINE p == [q EXCEPT !.pc = "save"]
    <3>1. /\ run' = [run EXCEPT ![r] = p] /\ q.pc = "grant"
          /\ granted' = [granted EXCEPT ![t] = @ + 1] /\ reward' = "granted"
          /\ UNCHANGED <<rows, made, jobs, tick, touched, booted, loaded, overlapped, faults, crashes>>
      BY <1>5, <2>2, <3>0 DEF GrantReward, Goto, Become, historyVars
    <3>2. "save" \in PCs
      BY DEF PCs
    <3>3. /\ p \in Request /\ p.pc = "save" /\ p.op = q.op /\ p.task = t
          /\ p.row = q.row /\ p.left = q.left
      BY <1>0, <3>0, <3>2, GotoFacts
    <3> HIDE DEF p
    <3>4. Goes(r) /\ run'[r] = p
      BY <3>0, <3>1, <3>3, ReplaceGoes
    <3>5. t \in TaskIds /\ t \in 1..made /\ granted \in [TaskIds -> Nat] /\ q.op = "report"
      BY <1>0, <3>0, <3>1 DEF Fits, Holding, TypeOK
    <3>6. /\ granted'[t] = granted[t] + 1 /\ granted[t] \in Nat /\ granted' \in [TaskIds -> Nat]
          /\ \A u \in TaskIds : u # t => granted'[u] = granted[u]
      BY <3>1, <3>5
    <3>7. Removing(t) => Removing(t)'
      BY <3>4, RemovingStays
    <3>8. Waits(run[r].row)' => Waits(q.row)
      BY <3>3, <3>4 DEF Waits
    <3>9. Paid(t, run[r].row)'
      BY <3>6 DEF Paid
    <3>10. Fits(run[r])'
      BY <1>0, <3>0, <3>1, <3>3, <3>4, <3>5, <3>7, <3>8, <3>9 DEF Fits, Holding, Saving, Removing
    <3>11. granted'[t] <= Cardinality(Settled(t)')
      <4>1. Settled(t) \cup {r} \subseteq Settled(t)' /\ r \notin Settled(t)
        BY <3>0, <3>1, <3>3, <3>4, <3>5, SettledGrows DEF Settled, Reports
      <4>2. IsFiniteSet(Settled(t)')
        BY <3>4, SettledGrows
      <4>3. IsFiniteSet(Settled(t)) /\ IsFiniteSet(Settled(t) \cup {r})
        BY <4>1, <4>2, FS_Subset
      <4>4. Cardinality(Settled(t) \cup {r}) = Cardinality(Settled(t)) + 1
        BY <4>1, <4>3, FS_AddElement
      <4>5. Cardinality(Settled(t) \cup {r}) <= Cardinality(Settled(t)')
        BY <4>1, <4>2, FS_Subset
      <4>6. Cardinality(Settled(t)) \in Nat /\ Cardinality(Settled(t)') \in Nat
        BY <4>2, <4>3, FS_CardinalityType
      <4>7. granted[t] <= Cardinality(Settled(t))
        BY <3>5 DEF IInv
      <4>8. QED
        BY <3>6, <4>4, <4>5, <4>6, <4>7
    <3>12. Grows
      BY <1>0, <3>1, <3>6 DEF Grows, TypeOK
    <3>13. TypeOK'
      BY <1>0, <3>1, <3>4, <3>6 DEF TypeOK, Goes
    <3>14. QED
      BY <3>1, <3>4, <3>6, <3>10, <3>11, <3>12, <3>13, StepKeeps
  <2>3. QED
    BY <2>1, <2>2
<1>6. CASE SaveTask(r)
  <2>0. PICK t \in 0..MaxTasks : t = q.task
    BY <1>0 DEF Request
  <2>1. /\ q.pc = "save" /\ rows' = [rows EXCEPT ![t] = q.row]
        /\ run' = [run EXCEPT ![r] = Answer(q, "done")]
        /\ UNCHANGED <<made, granted, reward, jobs, tick, touched, booted, loaded, overlapped, faults, crashes>>
    BY <1>6, <2>0 DEF SaveTask, Save, Become, historyVars
  <2>2. /\ Goes(r) /\ run'[r] = Answer(q, "done") /\ Fits(run[r])'
    BY <1>1, <1>2, <2>1 DEF Live, Ended
  <2>3. t \in 1..made /\ t \in TaskIds /\ q.row \in Row /\ q.row.status # "absent"
    BY <1>0, <2>0, <2>1 DEF Fits, Holding, Request
  <2>4. /\ rows' \in [TaskIds -> Row] /\ rows'[t] = q.row
        /\ \A u \in TaskIds : u # t => rows'[u] = rows[u]
    BY <1>0, <2>1, <2>3 DEF TypeOK
  <2>5. TypeOK' /\ Grows
    BY <1>0, <2>1, <2>2, <2>4 DEF TypeOK, Goes, Grows
  <2>6. RowFits(t)'
    <3>1. Removing(t) => Removing(t)'
      BY <2>2, RemovingStays
    <3>2. Waits(rows[t])' <=> Waits(q.row)
      BY <2>4 DEF Waits
    <3>3. Paid(t, rows[t])' <=> Paid(t, q.row)
      BY <2>1, <2>4 DEF Paid, Rewarded
    <3>4. QED
      BY <1>0, <2>0, <2>1, <2>3, <2>4, <3>1, <3>2, <3>3 DEF RowFits, Fits, Saving, Holding, Removing, Exists
  <2>7. QED
    BY <2>1, <2>2, <2>4, <2>5, <2>6, StepKeeps
<1>7. CASE RemoveTask(r)
  <2>0. PICK t \in 0..MaxTasks : t = q.task
    BY <1>0 DEF Request
  <2>1. /\ q.pc = "remove" /\ rows' = [rows EXCEPT ![t] = NoRow]
        /\ run' = [run EXCEPT ![r] = Answer(q, "done")]
        /\ UNCHANGED <<made, granted, reward, jobs, tick, touched, booted, loaded, overlapped, faults, crashes>>
    BY <1>7, <2>0 DEF RemoveTask, Save, Become, historyVars
  <2>2. /\ Goes(r) /\ run'[r] = Answer(q, "done") /\ Fits(run[r])'
    BY <1>1, <1>2, <2>1 DEF Live, Ended
  <2>3. t \in 1..made /\ t \in TaskIds /\ t \notin jobs \ touched
    BY <1>0, <2>0, <2>1 DEF Fits, Holding
  <2>4. /\ rows' \in [TaskIds -> Row] /\ rows'[t] = NoRow
        /\ \A u \in TaskIds : u # t => rows'[u] = rows[u]
    BY <1>0, <2>1, <2>3, NoRowFacts DEF TypeOK
  <2>5. TypeOK' /\ Grows
    BY <1>0, <2>1, <2>2, <2>4 DEF TypeOK, Goes, Grows
  <2>6. RowFits(t)'
    BY <2>1, <2>3, <2>4, NoRowFacts DEF RowFits, Exists, Waits
  <2>7. QED
    BY <2>1, <2>2, <2>4, <2>5, <2>6, StepKeeps
<1>8. CASE SaveReward(r)
  <2>1. reward' \in {"free", "granted", "gone"}
    BY <1>0, <1>8 DEF SaveReward, TypeOK
  <2>2. QED
    BY <1>0, <1>8, <2>1, AnswerKeeps DEF SaveReward, Become, Live, Ended, TypeOK
<1>9. CASE AwardReward(r)
  <2> DEFINE c == IF reward = "gone" THEN "rejected" ELSE "done"
  <2>1. reward' \in {"free", "granted", "gone"} /\ c \in {"done", "rejected"}
    BY <1>0, <1>9 DEF AwardReward, TypeOK
  <2>2. run' = [run EXCEPT ![r] = Answer(run[r], c)]
    BY <1>9 DEF AwardReward, Become
  <2> HIDE DEF c
  <2>3. QED
    BY <1>0, <1>9, <2>1, <2>2, AnswerKeeps DEF AwardReward, Live, Ended, TypeOK
<1>10. ASSUME NEW p \in Patches, SavePatch(r, p)
       PROVE  IInv'
  <2>0. PICK t \in 0..MaxTasks : t = q.task
    BY <1>0 DEF Request
  <2> DEFINE from == IF Exists(t) THEN rows[t] ELSE q.row
  <2>1. CASE ~(Exists(t) \/ p.whole)
    BY <1>0, <1>10, <2>0, <2>1, AnswerKeeps DEF SavePatch, Become, Live, Ended, TypeOK, historyVars
  <2>2. CASE Exists(t) \/ p.whole
    <3>1. /\ q.pc = "patch" /\ rows' = [rows EXCEPT ![t] = Patched(from, p)]
          /\ run' = [run EXCEPT ![r] = Answer(q, "done")] /\ touched' = touched \cup {t}
          /\ UNCHANGED <<made, granted, reward, jobs, tick, booted, loaded, overlapped, faults, crashes>>
      BY <1>10, <2>0, <2>2 DEF SavePatch, Save, Become
    <3>2. /\ Goes(r) /\ run'[r] = Answer(q, "done") /\ Fits(run[r])'
      BY <1>1, <1>2, <3>1 DEF Live, Ended
    <3>3. t \in 1..made /\ t \in TaskIds /\ from \in Row /\ from.status # "absent"
      BY <1>0, <2>0, <3>1 DEF Fits, Holding, Request, Exists, TypeOK
    <3> HIDE DEF from
    <3>4. Patched(from, p) \in Row
      BY <3>3, PatchedFacts
    <3>5. rows' \in [TaskIds -> Row] /\ \A u \in TaskIds : u # t => rows'[u] = rows[u]
      BY <1>0, <3>1, <3>3, <3>4 DEF TypeOK
    <3>6. TypeOK' /\ Grows
      BY <1>0, <3>1, <3>2, <3>3, <3>5 DEF TypeOK, Goes, Grows
    <3>7. RowFits(t)'
      BY <3>1, <3>3 DEF RowFits
    <3>8. QED
      BY <3>1, <3>2, <3>5, <3>6, <3>7, StepKeeps
  <2>3. QED
    BY <2>1, <2>2
<1>11. QED
  BY <1>3, <1>4, <1>5, <1>6, <1>7, <1>8, <1>9, <1>10 DEF Advance

-----------------------------------------------------------------------------
(* The jobs, the boots, and what fails *)

\* A step that gives or takes no copy, changes no reward and no job: rows only
\* change their status, and to none that waits
LEMMA StatusKeeps ==
    ASSUME IInv, UNCHANGED <<made, granted, reward, jobs, run, historyVars, crashes>>,
           faults' \in 0..MaxFaults, tick' \in [Ticks -> Tick],
           \A k \in Ticks : tick'[k].pc # "none" => tick'[k].task \in 1..made,
           NEW t \in 0..MaxTasks, NEW status \in Statuses \ {"pending"},
           rows' = rows \/ UpdateStatus(t, status)
    PROVE  IInv'
<1>0. TypeOK /\ UNCHANGED <<made, granted, reward, jobs, run, touched, booted, loaded, overlapped>>
  BY DEF IInv, historyVars
<1>1. \A u \in TaskIds : /\ rows'[u] \in Row
                         /\ \/ rows'[u] = rows[u]
                            \/ /\ Exists(u) /\ rows'[u].status = status
                               /\ rows'[u].progress = rows[u].progress
                               /\ rows'[u].type = rows[u].type
                               /\ rows'[u].template = rows[u].template
  <2>1. CASE rows' = rows
    BY <1>0, <2>1 DEF TypeOK
  <2>2. CASE UpdateStatus(t, status) /\ ~Exists(t)
    BY <1>0, <2>2 DEF TypeOK, UpdateStatus
  <2>3. CASE UpdateStatus(t, status) /\ Exists(t)
    <3>1. rows' = [rows EXCEPT ![t].status = status]
      BY <2>3 DEF UpdateStatus
    <3>2. CASE t \notin TaskIds
      BY <1>0, <3>1, <3>2 DEF TypeOK
    <3>3. CASE t \in TaskIds
      <4>1. rows[t] \in Column /\ rows[t] \in Row
        BY <1>0, <2>3, <3>3, RowColumns DEF TypeOK, Exists, Column
      <4>2. [rows[t] EXCEPT !.status = status] \in Row
        BY <2>3, <4>1, RowColumns DEF Exists
      <4>3. rows'[t] = [rows[t] EXCEPT !.status = status]
        BY <1>0, <3>1, <3>3 DEF TypeOK
      <4>4. /\ rows'[t].status = status /\ rows'[t].progress = rows[t].progress
            /\ rows'[t].type = rows[t].type /\ rows'[t].template = rows[t].template
        BY <4>1, <4>3 DEF Column
      <4>5. \A u \in TaskIds : u # t => rows'[u] = rows[u] /\ rows[u] \in Row
        BY <1>0, <3>1 DEF TypeOK
      <4>6. QED
        BY <2>3, <4>2, <4>3, <4>4, <4>5
    <3>4. QED
      BY <3>2, <3>3
  <2>4. QED
    BY <2>1, <2>2, <2>3
<1>2. rows' \in [TaskIds -> Row]
  <2>1. rows' = [u \in TaskIds |-> rows'[u]]
    BY <1>0 DEF TypeOK, UpdateStatus
  <2>2. QED
    BY <1>1, <2>1
<1>3. TypeOK'
  BY <1>0, <1>2 DEF TypeOK
<1>4. status # "absent" /\ status # "pending"
  BY DEF Statuses
<1>5. ASSUME NEW u \in TaskIds
      PROVE  RowFits(u)'
  <2>1. RowFits(u) /\ (Removing(u)' <=> Removing(u))
    BY <1>0 DEF IInv, Removing
  <2>2. rows[u] = NoRow => ~Exists(u)
    BY NoRowFacts DEF Exists
  <2>3. (Exists(u)' <=> Exists(u)) /\ (Waits(rows[u])' => Waits(rows[u]))
    BY <1>1, <1>4 DEF Exists, Waits
  <2>4. Paid(u, rows[u])' <=> Paid(u, rows[u])
    BY <1>0, <1>1 DEF Paid, Rewarded
  <2>5. rows'[u].type = rows[u].type /\ (rows'[u] = rows[u] \/ Exists(u))
    BY <1>1
  <2>6. QED
    BY <1>0, <2>1, <2>2, <2>3, <2>4, <2>5 DEF RowFits
<1>6. ASSUME NEW r \in Requests
      PROVE  Fits(run[r])'
  <2>1. Fits(run[r])
    BY DEF IInv
  <2>2. QED
    BY <1>0, <2>1 DEF Fits, Paid, Rewarded, Waits, Removing
<1>7. \A u \in TaskIds : Settled(u)' = Settled(u)
  BY <1>0 DEF Settled, Reports
<1>8. QED
  BY <1>0, <1>3, <1>5, <1>6, <1>7 DEF IInv

LEMMA TickKeeps ==
    ASSUME IInv, NEW k \in Ticks,
           \/ \E t \in TaskIds : FireJob(k, t)
           \/ StartTick(k) \/ FinishTick(k) \/ CancelTick(k) \/ TickFails(k)
    PROVE  IInv'
<1>0. TypeOK /\ tick[k] \in Tick /\ NoTick \in Tick /\ NoTick.pc = "none"
      /\ (tick[k].pc # "none" => tick[k].task \in 1..made)
  BY TasksAssumption DEF IInv, TypeOK, NoTick, Tick
<1>1. {"in_progress", "completed", "cancelled"} \subseteq Statuses \ {"pending"}
      /\ tick[k].task \in 0..MaxTasks
  BY <1>0 DEF Statuses, Tick
<1>2. ASSUME NEW x \in Tick, tick' = [tick EXCEPT ![k] = x], x.pc # "none" => x.task \in 1..made
      PROVE  /\ tick' \in [Ticks -> Tick]
             /\ \A j \in Ticks : tick'[j].pc # "none" => tick'[j].task \in 1..made
  BY <1>0, <1>2 DEF IInv, TypeOK
<1>3. ASSUME NEW t \in TaskIds, FireJob(k, t)
      PROVE  IInv'
  <2>1. [pc |-> "start", task |-> t] \in Tick /\ t \in 1..made
    BY <1>0, <1>3 DEF FireJob, Tick, TaskIds, TypeOK
  <2>2. QED
    BY <1>0, <1>1, <1>2, <1>3, <2>1, StatusKeeps DEF FireJob, taskVars, TypeOK
<1>4. CASE StartTick(k)
  <2> DEFINE x == [tick[k] EXCEPT !.pc = "finish"]
  <2>1. x \in Tick /\ x.task = tick[k].task
    BY <1>0 DEF Tick
  <2>2. tick' = [tick EXCEPT ![k] = x] /\ tick[k].task \in 1..made
    BY <1>0, <1>4 DEF StartTick
  <2> HIDE DEF x
  <2>3. QED
    BY <1>0, <1>1, <1>2, <1>4, <2>1, <2>2, StatusKeeps DEF StartTick, TypeOK
<1>5. CASE FinishTick(k)
  BY <1>0, <1>1, <1>2, <1>5, StatusKeeps DEF FinishTick, TypeOK
<1>6. CASE CancelTick(k)
  BY <1>0, <1>1, <1>2, <1>6, StatusKeeps DEF CancelTick, TypeOK
<1>7. CASE TickFails(k)
  <2> DEFINE x == IF tick[k].pc = "cancel" THEN NoTick ELSE [tick[k] EXCEPT !.pc = "cancel"]
  <2>1. x \in Tick /\ (x.pc # "none" => x.task = tick[k].task)
    BY <1>0 DEF Tick
  <2>2. tick' = [tick EXCEPT ![k] = x] /\ tick[k].task \in 1..made /\ rows' = rows
    BY <1>0, <1>7 DEF TickFails, taskVars
  <2> HIDE DEF x
  <2>3. faults' \in 0..MaxFaults
    BY <1>0, <1>7, TasksAssumption DEF TickFails, TypeOK
  <2>4. QED
    BY <1>0, <1>1, <1>2, <1>7, <2>1, <2>2, <2>3, StatusKeeps DEF TickFails, taskVars
<1>8. QED
  BY <1>3, <1>4, <1>5, <1>6, <1>7

LEMMA FailureKeeps ==
    ASSUME IInv, NEW r \in Requests, RequestFails(r)
    PROVE  IInv'
<1>1. faults' \in 0..MaxFaults /\ reward' \in {"free", "granted", "gone"}
  BY TasksAssumption DEF IInv, TypeOK, RequestFails, taskVars
<1>2. QED
  BY <1>1, AnswerKeeps DEF RequestFails, Become, taskVars

LEMMA RemoveRewardKeeps ==
    ASSUME IInv, RemoveReward
    PROVE  IInv'
<1>1. UNCHANGED <<rows, made, granted, jobs, tick, run, touched, booted, loaded, overlapped,
                  faults, crashes>>
  BY DEF RemoveReward, historyVars
<1>2. TypeOK'
  BY <1>1 DEF IInv, TypeOK, RemoveReward
<1>3. \A t \in TaskIds : RowFits(t)'
  BY <1>1 DEF IInv, RowFits, Exists, Paid, Rewarded, Waits, Removing
<1>4. \A r \in Requests : Fits(run[r])'
  BY <1>1 DEF IInv, Fits, Paid, Rewarded, Waits, Removing
<1>5. \A t \in TaskIds : Settled(t)' = Settled(t)
  BY <1>1 DEF Settled, Reports
<1>6. QED
  BY <1>1, <1>2, <1>3, <1>4, <1>5 DEF IInv

\* At a boot the jobs are those of the rows, whatever was under way
LEMMA RestartKeeps ==
    ASSUME IInv, Restart
    PROVE  IInv'
<1>0. /\ TypeOK /\ made \in Nat /\ UNCHANGED <<rows, made, granted, reward, touched, overlapped>>
      /\ booted' = made
  BY DEF IInv, Restart, taskVars, TypeOK
<1>1. /\ jobs' \subseteq Due /\ loaded' \in BOOLEAN /\ faults' \in 0..MaxFaults
      /\ loaded' => jobs' = Due
  <2>1. CASE jobs' \in Loads /\ loaded' = (\A t \in Due : Parses(t)) /\ UNCHANGED faults
    BY <1>0, <2>1 DEF Loads, TypeOK
  <2>2. CASE faults < MaxFaults /\ faults' = faults + 1 /\ jobs' = {} /\ loaded' = FALSE
    <3>1. faults' \in 0..MaxFaults
      BY <1>0, <2>2, TasksAssumption DEF TypeOK
    <3>2. QED
      BY <2>2, <3>1
  <2>3. QED
    BY <2>1, <2>2 DEF Restart
<1>2. \A t \in TaskIds : RowFits(t)
  BY DEF IInv
<1>3. \A t \in Due : t \in 1..made /\ rows[t].status = "pending" /\ rows[t].type = "cron" /\ t \in TaskIds
  <2>1. ASSUME NEW t \in Due
        PROVE  rows[t].status = "pending" /\ rows[t].type = "cron" /\ t \in TaskIds
    BY DEF Due
  <2>2. ASSUME NEW t \in Due, t \notin 1..made
        PROVE  FALSE
    BY <1>2, <2>1, <2>2, NoRowFacts DEF RowFits
  <2>3. QED
    BY <2>1, <2>2
<1>4. ASSUME NEW r \in Requests
      PROVE  /\ run'[r] \in Request /\ run'[r].op = run[r].op /\ run'[r].task = run[r].task
             /\ run'[r].pc \in Ended /\ (run'[r].pc = "idle" => run[r].pc = "idle")
  <2>1. run[r] \in Request /\ "lost" \in PCs
    BY <1>0 DEF TypeOK, PCs
  <2>2. run'[r] = IF Live(r) THEN Answer(run[r], "lost") ELSE run[r]
    BY DEF Restart
  <2>3. /\ Answer(run[r], "lost") \in Request /\ Answer(run[r], "lost").pc = "lost"
        /\ Answer(run[r], "lost").op = run[r].op /\ Answer(run[r], "lost").task = run[r].task
    BY <2>1, AnswerFacts
  <2>4. CASE Live(r)
    BY <2>2, <2>3, <2>4 DEF Ended
  <2>5. CASE ~Live(r)
    BY <2>1, <2>2, <2>5 DEF Live
  <2>6. QED
    BY <2>4, <2>5
<1>5. TypeOK'
  <2>1. run' \in [Requests -> Request] /\ tick' \in [Ticks -> Tick]
    <3>1. NoTick \in Tick
      BY TasksAssumption DEF NoTick, Tick
    <3>2. run' = [r \in Requests |-> run'[r]]
      BY DEF Restart
    <3>3. QED
      BY <1>4, <3>1, <3>2 DEF Restart
  <2>2. jobs' \subseteq 1..made' /\ booted' \in 0..made'
    BY <1>0, <1>1, <1>3
  <2>3. crashes' \in 0..MaxCrashes
    BY <1>0, TasksAssumption DEF Restart, TypeOK
  <2>4. QED
    BY <1>0, <1>1, <2>1, <2>2, <2>3 DEF TypeOK
<1>6. ASSUME NEW t \in TaskIds
      PROVE  RowFits(t)'
  <2>1. RowFits(t) /\ (Removing(t)' <=> Removing(t))
    BY <1>2, <1>4 DEF Removing
  <2>2. Exists(t)' <=> Exists(t)
    BY <1>0 DEF Exists
  <2>3. Paid(t, rows[t])' <=> Paid(t, rows[t])
    BY <1>0 DEF Paid, Rewarded
  <2>4. t \in jobs' => Exists(t) /\ rows[t].type = "cron"
    BY <1>1, <1>3 DEF Exists
  <2>5. loaded' /\ Waits(rows[t]) => t \in jobs'
    BY <1>1 DEF Waits, Due
  <2>6. Waits(rows[t])' <=> Waits(rows[t])
    BY <1>0 DEF Waits
  <2>7. QED
    BY <1>0, <2>1, <2>2, <2>3, <2>4, <2>5, <2>6 DEF RowFits
<1>7. ASSUME NEW r \in Requests
      PROVE  Fits(run[r])'
  <2>1. Fits(run[r])
    BY DEF IInv
  <2>2. QED
    BY <1>4, <2>1 DEF Fits, Holding, Saving, Ended
<1>8. \A k \in Ticks : tick'[k].pc = "none"
  BY DEF Restart, NoTick
<1>9. ASSUME NEW t \in TaskIds
      PROVE  granted'[t] <= Cardinality(Settled(t)')
  <2>1. Settled(t) \subseteq Settled(t)' /\ Settled(t)' \subseteq Requests
    BY <1>4 DEF Settled, Reports, Ended
  <2>2. IsFiniteSet(Settled(t)') /\ IsFiniteSet(Settled(t))
    BY <2>1, TasksAssumption, FS_Subset
  <2>3. /\ Cardinality(Settled(t)) <= Cardinality(Settled(t)')
        /\ Cardinality(Settled(t)) \in Nat /\ Cardinality(Settled(t)') \in Nat
    BY <2>1, <2>2, FS_Subset, FS_CardinalityType
  <2>4. granted'[t] = granted[t] /\ granted[t] \in Nat /\ granted[t] <= Cardinality(Settled(t))
    BY <1>0 DEF IInv, TypeOK
  <2>5. QED
    BY <2>3, <2>4
<1>10. QED
  BY <1>5, <1>6, <1>7, <1>8, <1>9 DEF IInv

LEMMA InitInv ==
    ASSUME Init
    PROVE  IInv
<1>1. TypeOK
  <2>1. NoTick \in Tick
    BY TasksAssumption DEF NoTick, Tick
  <2>2. /\ made \in 0..MaxTasks /\ booted \in 0..made /\ faults \in 0..MaxFaults
        /\ crashes \in 0..MaxCrashes /\ granted \in [TaskIds -> Nat]
    BY TasksAssumption DEF Init
  <2>3. rows \in [TaskIds -> Row] /\ run \in [Requests -> Request] /\ tick \in [Ticks -> Tick]
    BY <2>1, IdleFacts, NoRowFacts DEF Init
  <2>4. QED
    BY <2>2, <2>3 DEF Init, TypeOK
<1>2. \A t \in TaskIds : RowFits(t)
  BY NoRowFacts DEF Init, RowFits, Exists, Waits
<1>3. \A r \in Requests : Fits(run[r])
  BY IdleFacts DEF Init, Fits, Holding, Saving
<1>4. \A k \in Ticks : tick[k].pc = "none"
  BY DEF Init, NoTick
<1>5. ASSUME NEW t \in TaskIds
      PROVE  granted[t] <= Cardinality(Settled(t))
  <2>1. Settled(t) = {} /\ granted[t] = 0
    BY IdleFacts DEF Init, Settled, Reports
  <2>2. QED
    BY <2>1, FS_EmptySet
<1>6. QED
  BY <1>1, <1>2, <1>3, <1>4, <1>5 DEF IInv

\* Every step keeps the invariant
LEMMA NextInv ==
    ASSUME IInv, [Next]_vars
    PROVE  IInv'
<1>1. ASSUME NEW r \in Requests, Call(r) \/ Advance(r) \/ RequestFails(r)
      PROVE  IInv'
  BY <1>1, CallKeeps, AdvanceKeeps, FailureKeeps
<1>2. CASE UNCHANGED vars
  <2>1. UNCHANGED <<rows, made, granted, reward, jobs, tick, run, touched, booted, loaded,
                    overlapped, faults, crashes>>
    BY <1>2 DEF vars, taskVars, historyVars
  <2>2. TypeOK'
    BY <2>1 DEF IInv, TypeOK
  <2>3. \A t \in TaskIds : RowFits(t)'
    BY <2>1 DEF IInv, RowFits, Exists, Paid, Rewarded, Waits, Removing
  <2>4. \A r \in Requests : Fits(run[r])'
    BY <2>1 DEF IInv, Fits, Paid, Rewarded, Waits, Removing
  <2>5. \A t \in TaskIds : Settled(t)' = Settled(t)
    BY <2>1 DEF Settled, Reports
  <2>6. QED
    BY <2>1, <2>2, <2>3, <2>4, <2>5 DEF IInv
<1>3. QED
  BY <1>1, <1>2, TickKeeps, RemoveRewardKeeps, RestartKeeps DEF Next
-----------------------------------------------------------------------------
(* While requests do not overlap *)

LEMMA LiveFacts ==
    ASSUME NEW r
    PROVE  /\ run[r].pc \in Holding \cup {"insert", "remove", "edit", "award"} => Live(r)
           /\ (Live(r)' <=> run'[r].pc \notin Ended)
BY DEF Live, Ended, Holding

\* No step of this kind brings a removed task back
NoneBack == \A t \in 1..made : ~Exists(t) => ~Exists(t)'

\* A request that begins holds a copy of a row that is there
LEMMA CallHolds ==
    ASSUME IInv, NEW r \in Requests, Call(r)
    PROVE  run'[r].pc \in Holding => Exists(run'[r].task)
<1>0. IdleRequest \in Request /\ run \in [Requests -> Request]
  BY IdleFacts DEF IInv, TypeOK
<1>1. ASSUME NEW left, ReadTemplates(r, left)
      PROVE  run'[r].pc \notin Holding
  <2> DEFINE c == IF left = <<>> THEN "done" ELSE "insert"
             p == [IdleRequest EXCEPT !.op = "create", !.left = left, !.pc = c]
  <2>1. c \notin Holding
    BY DEF Holding
  <2>2. run' = [run EXCEPT ![r] = p]
    BY <1>1 DEF ReadTemplates, Begin, c
  <2> HIDE DEF c
  <2>3. p.pc = c
    BY <1>0 DEF Request
  <2>4. QED
    BY <1>0, <2>1, <2>2, <2>3
<1>2. ASSUME NEW point \in {"edit", "award", "rejected"}, ReadReward(r, point)
      PROVE  run'[r].pc \notin Holding
  <2> DEFINE c == IF reward = "gone" THEN "rejected" ELSE point
             p == [IdleRequest EXCEPT !.op = "reward", !.pc = c]
  <2>1. c \notin Holding
    BY DEF Holding
  <2>2. run' = [run EXCEPT ![r] = p]
    BY <1>2 DEF ReadReward, Begin, c
  <2> HIDE DEF c
  <2>3. p.pc = c
    BY <1>0 DEF Request
  <2>4. QED
    BY <1>0, <2>1, <2>2, <2>3
<1>3. ASSUME NEW t \in 1..made, NEW l \in Request, run' = [run EXCEPT ![r] = Answer(l, "rejected")]
      PROVE  run'[r].pc \notin Holding
  <2>1. Answer(l, "rejected").pc = "rejected"
    BY AnswerFacts DEF PCs
  <2>2. QED
    BY <1>0, <1>3, <2>1 DEF Holding
<1>4. ASSUME NEW t \in 1..made
      PROVE  t \in 0..MaxTasks
  BY TasksAssumption DEF IInv, TypeOK
<1>5. ASSUME NEW t \in 1..made, NEW p \in Progress, ReadForReport(r, t, p)
      PROVE  run'[r].pc \in Holding => Exists(run'[r].task)
  <2> DEFINE s == CASE p = "all" -> "completed" [] p = "some" -> "in_progress" [] OTHER -> rows[t].status
             row == [rows[t] EXCEPT !.progress = p, !.status = s]
             l == [IdleRequest EXCEPT !.op = "report", !.task = t]
             c == IF p = "all" /\ Rewarded(row) THEN "reward" ELSE "save"
             q == [l EXCEPT !.row = row, !.pc = c]
  <2>1. l \in Request
    BY <1>0, <1>4 DEF Request
  <2>2. CASE ~Exists(t)
    <3>1. run' = [run EXCEPT ![r] = Answer(l, "rejected")]
      BY <1>5, <2>2 DEF ReadForReport, Begin
    <3> HIDE DEF l
    <3>2. QED
      BY <1>3, <2>1, <3>1
  <2>3. CASE Exists(t)
    <3>1. run' = [run EXCEPT ![r] = q]
      BY <1>5, <2>3 DEF ReadForReport, Begin
    <3> HIDE DEF s, row, c
    <3>2. q.task = t
      BY <1>0, <1>4 DEF Request
    <3>3. run'[r] = q
      BY <1>0, <3>1
    <3> HIDE DEF q
    <3>4. QED
      BY <2>3, <3>2, <3>3
  <2>4. QED
    BY <2>2, <2>3
<1>6. ASSUME NEW t \in 1..made, NEW status, ReadForStatus(r, t, status)
      PROVE  run'[r].pc \in Holding => Exists(run'[r].task)
  <2> DEFINE row == [rows[t] EXCEPT !.status = status]
             l == [IdleRequest EXCEPT !.op = "status", !.task = t]
             q == [l EXCEPT !.pc = "save", !.row = row]
             valid == <<rows[t].status, status>> \in ValidTransitions
  <2>1. l \in Request
    BY <1>0, <1>4 DEF Request
  <2>2. CASE ~valid
    <3>1. run' = [run EXCEPT ![r] = Answer(l, "rejected")]
      BY <1>6, <2>2 DEF ReadForStatus, Begin
    <3> HIDE DEF l, valid
    <3>2. QED
      BY <1>3, <2>1, <3>1
  <2>3. CASE valid
    <3>1. run' = [run EXCEPT ![r] = q]
      BY <1>6, <2>3 DEF ReadForStatus, Begin
    <3>2. Exists(t)
      BY <2>3 DEF ValidTransitions, Exists
    <3> HIDE DEF row, valid
    <3>3. q.task = t
      BY <1>0, <1>4 DEF Request
    <3>4. run'[r] = q
      BY <1>0, <3>1
    <3> HIDE DEF q
    <3>5. QED
      BY <3>2, <3>3, <3>4
  <2>4. QED
    BY <2>2, <2>3
<1>7. ASSUME NEW t \in 1..made, ReadForPatch(r, t)
      PROVE  run'[r].pc \in Holding => Exists(run'[r].task)
  <2> DEFINE c == IF Exists(t) THEN "patch" ELSE "rejected"
             p == [IdleRequest EXCEPT !.op = "patch", !.task = t, !.row = rows[t], !.pc = c]
  <2>1. c \in Holding => Exists(t)
    BY DEF Holding
  <2>2. run' = [run EXCEPT ![r] = p]
    BY <1>7 DEF ReadForPatch, Begin, c
  <2> HIDE DEF c
  <2>3. p.pc = c /\ p.task = t
    BY <1>0, <1>4 DEF Request
  <2>4. run'[r] = p
    BY <1>0, <2>2
  <2> HIDE DEF p
  <2>5. QED
    BY <2>1, <2>3, <2>4
<1>8. ASSUME NEW t \in 1..made, ReadForRemoval(r, t)
      PROVE  run'[r].pc \notin Holding
  <2> DEFINE c == IF Exists(t) THEN "remove" ELSE "done"
             p == [IdleRequest EXCEPT !.op = "remove", !.task = t, !.pc = c]
  <2>1. c \notin Holding
    BY DEF Holding
  <2>2. run' = [run EXCEPT ![r] = p]
    BY <1>8 DEF ReadForRemoval, Begin, c
  <2> HIDE DEF c
  <2>3. p.pc = c
    BY <1>0, <1>4 DEF Request
  <2>4. QED
    BY <1>0, <2>1, <2>2, <2>3
<1>9. QED
  BY <1>1, <1>2, <1>5, <1>6, <1>7, <1>8 DEF Call

\* A request that begins when there was no overlap, and is not recorded as one,
\* is alone
LEMMA CallTakesTurn ==
    ASSUME TInv, NEW r \in Requests, Call(r)
    PROVE  (~overlapped' => InTurn') /\ NoneBack
<1>1. PICK q : Begin(r, q)
  BY DEF Call, ReadTemplates, ReadReward, ReadForReport, ReadForStatus, ReadForPatch, ReadForRemoval
<1>2. rows' = rows
  BY DEF Call, ReadTemplates, ReadReward, ReadForReport, ReadForStatus, ReadForPatch,
         ReadForRemoval, taskVars
<1>3. NoneBack
  BY <1>2 DEF NoneBack, Exists
<1>4. ASSUME ~overlapped'
      PROVE  InTurn'
  <2>1. \A o \in Requests : ~Live(o)
    BY <1>1, <1>4 DEF Begin, TInv, IInv, TypeOK
  <2>2. \A o \in Requests \ {r} : run'[o] = run[o]
    BY <1>1 DEF Begin, TInv, IInv, TypeOK
  <2>3. \A o \in Requests \ {r} : run'[o].pc \in Ended
    BY <2>1, <2>2 DEF Live
  <2>4. run'[r].pc \in Holding => Exists(run'[r].task)
    BY CallHolds DEF TInv
  <2>5. \A t : Exists(t)' <=> Exists(t)
    BY <1>2 DEF Exists
  <2>6. \A o \in Requests : run'[o].pc \in Holding => Exists(run[o].task)'
    BY <1>2, <2>3, <2>4 DEF Ended, Holding, Exists
  <2>7. \A o \in Requests : Live(o)' => o = r
    BY <2>3 DEF Live
  <2>8. QED
    BY <2>6, <2>7 DEF InTurn
<1>5. QED
  BY <1>3, <1>4

\* The request whose turn it is goes on, or is answered or given up
LEMMA TurnGoesOn ==
    ASSUME TInv, ~overlapped, NEW r \in Requests, Live(r), NEW p \in Request,
           run' = [run EXCEPT ![r] = p],
           p.pc \in Holding => p.task = run[r].task /\ run[r].pc \in Holding /\ rows' = rows
    PROVE  InTurn'
<1>1. InTurn /\ \A o \in Requests \ {r} : run[o].pc \in Ended
  BY DEF TInv, InTurn, Live
<1>2. run'[r] = p /\ \A o \in Requests \ {r} : run'[o] = run[o]
  BY DEF TInv, IInv, TypeOK
<1>3. \A o \in Requests : Live(o)' => o = r
  BY <1>1, <1>2 DEF Live
<1>4. \A o \in Requests : run'[o].pc \in Holding => o = r
  BY <1>1, <1>2 DEF Ended, Holding
<1>5. p.pc \in Holding => Exists(run[r].task)'
  BY <1>1, <1>2 DEF InTurn, Exists
<1>6. QED
  BY <1>2, <1>3, <1>4, <1>5 DEF InTurn

\* Every step of a request whose turn it is
LEMMA AdvanceTakesTurn ==
    ASSUME TInv, ~overlapped, NEW r \in Requests, Advance(r) \/ RequestFails(r)
    PROVE  InTurn' /\ NoneBack
<1> DEFINE q == run[r]
<1>0. /\ q \in Request /\ Fits(q) /\ rows \in [TaskIds -> Row] /\ made \in Nat
      /\ run \in [Requests -> Request] /\ {"done", "rejected", "grant", "save"} \subseteq PCs
  BY TasksAssumption DEF TInv, IInv, TypeOK, PCs
<1>1. ASSUME NEW c \in {"done", "rejected"}, run' = [run EXCEPT ![r] = Answer(q, c)], Live(r)
      PROVE  InTurn'
  <2>1. Answer(q, c) \in Request /\ Answer(q, c).pc = c
    BY <1>0, AnswerFacts
  <2>2. QED
    BY <1>1, <2>1, TurnGoesOn DEF Holding
<1>2. ASSUME NEW c \in {"grant", "save"}, run' = [run EXCEPT ![r] = [q EXCEPT !.pc = c]],
             rows' = rows, q.pc \in {"reward", "grant"}
      PROVE  InTurn'
  <2> DEFINE p == [q EXCEPT !.pc = c]
  <2>1. p \in Request /\ p.task = q.task
    BY <1>0, GotoFacts
  <2>2. run' = [run EXCEPT ![r] = p] /\ Live(r) /\ q.pc \in Holding
    BY <1>2 DEF Live, Ended, Holding
  <2> HIDE DEF p
  <2>3. QED
    BY <1>2, <2>1, <2>2, TurnGoesOn
<1>3. ASSUME rows' = rows
      PROVE  NoneBack
  BY <1>3 DEF NoneBack, Exists
<1>4. CASE InsertTask(r)
  <2> DEFINE i == Head(q.left)
             p == IF Len(q.left) = 1 THEN Answer(q, "done") ELSE [q EXCEPT !.left = Tail(@)]
  <2>1. /\ q.pc = "insert" /\ rows' = [rows EXCEPT ![made + 1] = NewRow(i)]
        /\ run' = [run EXCEPT ![r] = p]
    BY <1>4 DEF InsertTask, Save, Become
  <2>2. q.left \in Seq(DOMAIN Group) /\ q.left # <<>> /\ Live(r)
    BY <1>0, <2>1 DEF Request, Fits, Live, Ended
  <2>3. Len(q.left) # 1 => Tail(q.left) \in Seq(DOMAIN Group)
    BY <2>2, LeftFacts
  <2>4. /\ Answer(q, "done") \in Request /\ Answer(q, "done").pc = "done"
    BY <1>0, AnswerFacts
  <2>5. p \in Request /\ p.pc \in {"done", "insert"}
    BY <1>0, <2>1, <2>3, <2>4 DEF Request
  <2> HIDE DEF p, i
  <2>6. InTurn'
    BY <2>1, <2>2, <2>5, TurnGoesOn DEF Holding
  <2>7. \A t \in 1..made : rows'[t] = rows[t]
    BY <1>0, <2>1
  <2>8. NoneBack
    BY <2>7 DEF NoneBack, Exists
  <2>9. QED
    BY <2>6, <2>8
<1>5. CASE FindReward(r)
  BY <1>1, <1>2, <1>3, <1>5 DEF FindReward, Goto, Become, taskVars, Live, Ended
<1>6. CASE GrantReward(r)
  BY <1>1, <1>2, <1>3, <1>6 DEF GrantReward, Goto, Become, Live, Ended
<1>7. CASE SaveTask(r)
  <2>1. InTurn' /\ Exists(q.task)
    BY <1>1, <1>7 DEF SaveTask, Become, Live, Ended, TInv, InTurn, Holding
  <2>2. \A t \in 1..made : t # q.task => rows'[t] = rows[t]
    BY <1>0, <1>7 DEF SaveTask, Save
  <2>3. NoneBack
    BY <2>1, <2>2 DEF NoneBack, Exists
  <2>4. QED
    BY <2>1, <2>3
<1>8. CASE RemoveTask(r)
  <2>1. InTurn'
    BY <1>1, <1>8 DEF RemoveTask, Become, Live, Ended
  <2>2. \A t \in TaskIds : rows'[t] = rows[t] \/ rows'[t] = NoRow
    BY <1>0, <1>8 DEF RemoveTask, Save
  <2>3. 1..made \subseteq TaskIds
    BY TasksAssumption DEF TInv, IInv, TypeOK, TaskIds
  <2>4. NoneBack
    BY <2>2, <2>3, NoRowFacts DEF NoneBack, Exists
  <2>5. QED
    BY <2>1, <2>4
<1>9. CASE SaveReward(r)
  BY <1>1, <1>3, <1>9 DEF SaveReward, Become, Live, Ended
<1>10. CASE AwardReward(r)
  BY <1>1, <1>3, <1>10 DEF AwardReward, Become, Live, Ended
<1>11. ASSUME NEW p \in Patches, SavePatch(r, p)
       PROVE  InTurn' /\ NoneBack
  <2>1. q.pc = "patch" /\ Live(r) /\ Exists(q.task)
    BY <1>11 DEF SavePatch, Live, Ended, TInv, InTurn, Holding
  <2>2. InTurn'
    BY <1>1, <1>11, <2>1 DEF SavePatch, Become
  <2>3. \A t \in 1..made : t # q.task => rows'[t] = rows[t]
    <3>1. \/ \E row : rows' = [rows EXCEPT ![q.task] = row]
          \/ rows' = rows
      BY <1>11 DEF SavePatch, Save
    <3>2. CASE rows' = rows
      BY <3>2
    <3>3. ASSUME NEW row, rows' = [rows EXCEPT ![q.task] = row]
          PROVE  \A t \in 1..made : t # q.task => rows'[t] = rows[t]
      <4>1. 1..made \subseteq TaskIds
        BY TasksAssumption DEF TInv, IInv, TypeOK, TaskIds
      <4>2. QED
        BY <1>0, <3>3, <4>1
    <3>4. QED
      BY <3>1, <3>2, <3>3
  <2>4. NoneBack
    BY <2>1, <2>3 DEF NoneBack, Exists
  <2>5. QED
    BY <2>2, <2>4
<1>12. CASE RequestFails(r)
  BY <1>1, <1>3, <1>12 DEF RequestFails, Become, taskVars
<1>13. QED
  BY <1>4, <1>5, <1>6, <1>7, <1>8, <1>9, <1>10, <1>11, <1>12 DEF Advance

\* A tick, a restart and the rest leave the requests that are under way alone, or
\* end them
LEMMA OthersTakeTurn ==
    ASSUME TInv, NEW t \in 0..MaxTasks, NEW status \in Statuses,
           rows' = rows \/ UpdateStatus(t, status), overlapped' = overlapped,
           \A r \in Requests : run'[r] = run[r] \/ run'[r].pc \in Ended
    PROVE  (~overlapped' => InTurn') /\ NoneBack
<1>1. \A u \in TaskIds : Exists(u)' <=> Exists(u)
  <2>1. status # "absent" /\ rows \in [TaskIds -> Row]
    BY DEF Statuses, TInv, IInv, TypeOK
  <2>2. CASE rows' = rows
    BY <2>2 DEF Exists
  <2>3. CASE UpdateStatus(t, status) /\ ~Exists(t)
    BY <2>3 DEF UpdateStatus, Exists
  <2>4. CASE UpdateStatus(t, status) /\ Exists(t)
    <3>1. rows' = [rows EXCEPT ![t].status = status]
      BY <2>4 DEF UpdateStatus
    <3>2. \A u \in TaskIds : u # t => rows'[u] = rows[u]
      BY <2>1, <3>1
    <3>3. t \in TaskIds => rows'[t].status = status
      <4>1. t \in TaskIds => rows'[t] = [rows[t] EXCEPT !.status = status]
        BY <2>1, <3>1
      <4>2. t \in TaskIds => rows[t] \in Column
        BY <2>1, <2>4, RowColumns DEF Exists, Column
      <4>3. QED
        BY <4>1, <4>2 DEF Column
    <3>4. QED
      BY <2>1, <2>4, <3>2, <3>3 DEF Exists
  <2>5. QED
    BY <2>2, <2>3, <2>4
<1>2. 1..made \subseteq TaskIds
  BY TasksAssumption DEF TInv, IInv, TypeOK, TaskIds
<1>3. NoneBack
  BY <1>1, <1>2 DEF NoneBack
<1>4. ASSUME ~overlapped
      PROVE  InTurn'
  <2>1. \A r \in Requests : Live(r)' => Live(r)
    BY DEF Live
  <2>2. ASSUME NEW r \in Requests, run'[r].pc \in Holding
        PROVE  Exists(run[r].task)'
    <3>1. run'[r] = run[r]
      BY <2>2 DEF Ended, Holding
    <3>2. run[r].task \in TaskIds /\ Exists(run[r].task)
      BY <1>2, <1>4, <2>2, <3>1 DEF TInv, InTurn, IInv, Fits
    <3>3. QED
      BY <1>1, <3>1, <3>2 DEF Exists
  <2>3. QED
    BY <1>4, <2>1, <2>2 DEF TInv, InTurn
<1>5. QED
  BY <1>3, <1>4

LEMMA NextTakesTurn ==
    ASSUME TInv, [Next]_vars
    PROVE  (~overlapped' => InTurn') /\ (~overlapped => NoneBack)
<1>1. {"in_progress", "completed", "cancelled"} \subseteq Statuses /\ 0 \in 0..MaxTasks
      /\ \A k \in Ticks : tick[k].task \in 0..MaxTasks
  BY TasksAssumption DEF Statuses, TInv, IInv, TypeOK, Tick
<1>2. ASSUME NEW r \in Requests, Advance(r) \/ RequestFails(r)
      PROVE  overlapped' = overlapped
  BY <1>2 DEF Advance, InsertTask, FindReward, GrantReward, SaveTask, RemoveTask, SaveReward,
              AwardReward, SavePatch, RequestFails, historyVars
<1>3. ASSUME NEW r \in Requests, Call(r) \/ Advance(r) \/ RequestFails(r)
      PROVE  (~overlapped' => InTurn') /\ (~overlapped => NoneBack)
  BY <1>2, <1>3, CallTakesTurn, AdvanceTakesTurn
<1>4. ASSUME NEW k \in Ticks, NEW t \in TaskIds, FireJob(k, t)
      PROVE  (~overlapped' => InTurn') /\ NoneBack
  BY <1>1, <1>4, OthersTakeTurn DEF FireJob, taskVars, historyVars
<1>5. ASSUME NEW k \in Ticks, StartTick(k)
      PROVE  (~overlapped' => InTurn') /\ NoneBack
  BY <1>1, <1>5, OthersTakeTurn DEF StartTick, historyVars
<1>6. ASSUME NEW k \in Ticks, FinishTick(k)
      PROVE  (~overlapped' => InTurn') /\ NoneBack
  BY <1>1, <1>6, OthersTakeTurn DEF FinishTick, historyVars
<1>7. ASSUME NEW k \in Ticks, CancelTick(k)
      PROVE  (~overlapped' => InTurn') /\ NoneBack
  BY <1>1, <1>7, OthersTakeTurn DEF CancelTick, historyVars
<1>8. ASSUME NEW k \in Ticks, TickFails(k)
      PROVE  (~overlapped' => InTurn') /\ NoneBack
  BY <1>1, <1>8, OthersTakeTurn DEF TickFails, taskVars, historyVars
<1>9. CASE RemoveReward
  BY <1>1, <1>9, OthersTakeTurn DEF RemoveReward, historyVars
<1>10. CASE Restart
  <2>1. \A r \in Requests : run'[r] = run[r] \/ run'[r].pc \in Ended
    <3>1. ASSUME NEW r \in Requests
          PROVE  Answer(run[r], "lost").pc = "lost"
      BY AnswerFacts DEF TInv, IInv, TypeOK, PCs
    <3>2. QED
      BY <1>10, <3>1 DEF Restart, Ended
  <2>2. QED
    BY <1>1, <1>10, <2>1, OthersTakeTurn DEF Restart, taskVars
<1>11. CASE UNCHANGED vars
  BY <1>1, <1>11, OthersTakeTurn DEF vars, taskVars, historyVars
<1>12. QED
  BY <1>3, <1>4, <1>5, <1>6, <1>7, <1>8, <1>9, <1>10, <1>11 DEF Next

-----------------------------------------------------------------------------
(* The theorems *)

LEMMA Invariance == Spec => []TInv
<1>1. Init => TInv
  <2>1. ASSUME Init
        PROVE  InTurn
    BY <2>1, IdleFacts DEF Init, InTurn, Live, Ended, Holding
  <2>2. QED
    BY <2>1, InitInv DEF TInv
<1>2. TInv /\ [Next]_vars => TInv'
  <2> SUFFICES ASSUME TInv, [Next]_vars
               PROVE  IInv' /\ (~overlapped' => InTurn')
    BY DEF TInv
  <2>1. IInv'
    BY NextInv DEF TInv
  <2>2. ~overlapped' => InTurn'
    BY NextTakesTurn
  <2>3. QED
    BY <2>1, <2>2
<1>3. QED
  BY <1>1, <1>2, PTL DEF Spec

\* Every row, request and tick has the columns the services give it
THEOREM TypeCorrect == Spec => []TypeOK
<1>1. TInv => TypeOK
  BY DEF TInv, IInv
<1>2. QED
  BY <1>1, Invariance, PTL

\* However many reports overlap, fail or are cut off by a restart: a task that a
\* report of updateTaskProgress completed has been paid for, and no report pays
\* twice
THEOREM RewardsPaid == Spec => []RewardsAccounted
<1>1. ASSUME TInv
      PROVE  RewardsAccounted
  <2>1. ASSUME NEW t \in 1..made, Exists(t), Rewarded(rows[t]), t \notin touched
        PROVE  /\ rows[t].progress = "all" => granted[t] >= 1
               /\ granted[t] <= Cardinality(Reports(t))
    <3>1. t \in TaskIds /\ granted[t] \in Nat
      BY <1>1, TasksAssumption DEF TInv, IInv, TypeOK, TaskIds
    <3>2. rows[t].progress = "all" => granted[t] >= 1
      BY <1>1, <2>1, <3>1 DEF TInv, IInv, RowFits, Paid
    <3>3. Settled(t) \subseteq Reports(t) /\ Reports(t) \subseteq Requests
      BY DEF Settled, Reports
    <3>4. IsFiniteSet(Reports(t)) /\ IsFiniteSet(Settled(t))
      BY <3>3, TasksAssumption, FS_Subset
    <3>5. Cardinality(Settled(t)) <= Cardinality(Reports(t))
      BY <3>3, <3>4, FS_Subset
    <3>6. Cardinality(Settled(t)) \in Nat /\ Cardinality(Reports(t)) \in Nat
      BY <3>4, FS_CardinalityType
    <3>7. granted[t] <= Cardinality(Settled(t))
      BY <1>1, <3>1 DEF TInv, IInv
    <3>8. QED
      BY <3>1, <3>2, <3>5, <3>6, <3>7
  <2>2. QED
    BY <2>1 DEF RewardsAccounted
<1>2. QED
  BY <1>1, Invariance, PTL

\* Whatever overlaps: the SchedulerRegistry keeps a job for a task that is gone
\* only if a PATCH came between
THEOREM JobsMatched == Spec => []JobsBacked
<1>1. TInv => JobsBacked
  <2>1. TInv => jobs \subseteq TaskIds
    BY TasksAssumption DEF TInv, IInv, TypeOK, TaskIds
  <2>2. QED
    BY <2>1 DEF TInv, IInv, RowFits, JobsBacked
<1>2. QED
  BY <1>1, Invariance, PTL

\* After a boot that could parse every expression, no pending cron task that
\* nobody patches or removes is without its job
THEOREM SchedulesComplete == Spec => []ScheduleComplete
<1>1. TInv => ScheduleComplete
  <2>1. TInv => 1..booted \subseteq TaskIds
    BY TasksAssumption DEF TInv, IInv, TypeOK, TaskIds
  <2>2. QED
    BY <2>1 DEF TInv, IInv, RowFits, Waits, ScheduleComplete
<1>2. QED
  BY <1>1, Invariance, PTL

\* As long as requests do not overlap, no save of a loaded task and no tick of a
\* job brings back a task that was removed
THEOREM RemovedStays == Spec => RemovedStaysRemoved
<1>1. ASSUME TInv, [Next]_vars
      PROVE  \A t \in 1..made : ~Exists(t) /\ ~overlapped => ~Exists(t)'
  BY <1>1, NextTakesTurn DEF NoneBack
<1>2. QED
  BY <1>1, Invariance, PTL DEF Spec, RemovedStaysRemoved
=============================================================================
