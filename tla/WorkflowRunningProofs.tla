------------------------- MODULE WorkflowRunningProofs -------------------------
(***************************************************************************)
(* Any number of overlapping requests, in any graph:                       *)
(*  - a row stored as RUNNING has a request that will still save it, since *)
(*    a request stops working for its execution only after it has saved    *)
(*    another status (Driven);                                             *)
(*  - no request announces two ends, since below the activation that       *)
(*    announced one nothing is left to do (VInv);                          *)
(*  - a RUNNING step belongs to one request, since an activation takes a   *)
(*    new step and completes or fails it before it leaves the stack (FInv);*)
(*  - the counter of a loop stays within maxIterations, since only a copy  *)
(*    that stands in the loop has one, and a loop is begun again below it  *)
(*    (LInv, for graphs whose loops are closed).                           *)
(* The last part is about requests that do not overlap.                    *)
(***************************************************************************)
EXTENDS WorkflowEngineProofs

\* Where a request is at work for its execution
AtWork == {"enter", "create", "body", "bodysave", "complete", "merge", "finish",
           "catch", "fail"}

Driven ==
    \A e \in Executions : db[e].status = "running" =>
        \E r \in Requests : run[r].exec = e /\ run[r].pc \in AtWork

Undisturbed == SoundDefinition /\ faults = 0 /\ crashes = 0

DInv == IInv /\ (Undisturbed => Driven)

-----------------------------------------------------------------------------
(* A step of one request *)

\* The rows that are RUNNING after the step are the ones request r drives after
\* it, and ones that were RUNNING and that r did not drive before it
LEMMA StepKeepsDriven ==
    ASSUME IInv, Driven, NEW r \in Requests, NEW p, run' = [run EXCEPT ![r] = p],
           \A e \in Executions : db'[e].status = "running" =>
               \/ p.exec = e /\ p.pc \in AtWork
               \/ /\ db[e].status = "running"
                  /\ run[r].exec # e \/ run[r].pc \notin AtWork
    PROVE  Driven'
<1> SUFFICES ASSUME NEW e \in Executions, db'[e].status = "running"
             PROVE  \E o \in Requests : run'[o].exec = e /\ run'[o].pc \in AtWork
  BY DEF Driven
<1>1. DOMAIN run = Requests
  BY DEF IInv, TypeOK
<1>2. CASE p.exec = e /\ p.pc \in AtWork
  BY <1>1, <1>2
<1>3. CASE db[e].status = "running" /\ (run[r].exec # e \/ run[r].pc \notin AtWork)
  <2>1. PICK o \in Requests : run[o].exec = e /\ run[o].pc \in AtWork
    BY <1>3 DEF Driven
  <2>2. o # r
    BY <1>3, <2>1
  <2>3. run'[o] = run[o]
    BY <1>1, <2>2
  <2>4. QED
    BY <2>1, <2>3
<1>4. QED
  BY <1>2, <1>3

\* A step that saves nothing, of a request that goes on working or was not at work
LEMMA MoveKeepsDriven ==
    ASSUME IInv, Driven, NEW r \in Requests, NEW p, run' = [run EXCEPT ![r] = p],
           UNCHANGED db,
           \/ p.exec = run[r].exec /\ p.pc \in AtWork
           \/ run[r].pc \notin AtWork
    PROVE  Driven'
BY StepKeepsDriven

\* A step that saves the copy: the request goes on working, or the copy it
\* saves is not RUNNING
LEMMA SaveKeepsDriven ==
    ASSUME IInv, Driven, NEW r \in Requests, NEW p, run' = [run EXCEPT ![r] = p],
           Save(r),
           \/ p.exec = run[r].exec /\ p.pc \in AtWork
           \/ run[r].row.status # "running"
    PROVE  Driven'
<1>1. \A e \in Executions : db'[e] = IF e = run[r].exec THEN run[r].row ELSE db[e]
  BY DEF IInv, TypeOK, Save
<1>2. \A e \in Executions : db'[e].status = "running" =>
         \/ p.exec = e /\ p.pc \in AtWork
         \/ db[e].status = "running" /\ (run[r].exec # e \/ run[r].pc \notin AtWork)
  BY <1>1
<1>3. QED
  BY <1>2, StepKeepsDriven

\* Changing the control point alone keeps the execution
LEMMA GotoPoint ==
    ASSUME IInv, NEW r \in Requests, NEW c, Goto(r, c)
    PROVE  \E p : run' = [run EXCEPT ![r] = p] /\ p.exec = run[r].exec /\ p.pc = c
<1>1. run[r] \in Request
  BY DEF IInv, TypeOK
<1> DEFINE p == [run[r] EXCEPT !.pc = c]
<1>2. p.exec = run[r].exec /\ p.pc = c
  BY <1>1 DEF Request
<1>3. run' = [run EXCEPT ![r] = p]
  BY DEF Goto
<1>4. QED
  BY <1>2, <1>3

\* Inside an activation continueToNextNode leaves the request at work: an
\* exception is caught by the activation
LEMMA ContinueInside ==
    ASSUME NEW q \in Request, CopiesInv(q), q.row.status = "running", q.stack # <<>>,
           NEW n, NEW p \in Continue(q, n)
    PROVE  p.exec = q.exec /\ p.pc \in AtWork
<1>1. CASE Edges[q.version][n] = <<>>
  BY <1>1 DEF Continue, Request, AtWork
<1>2. CASE Edges[q.version][n] # <<>>
  <2>1. PICK t \in Targets(q.version, n) :
           p = IF t \in Nodes /\ Has(q.version, t) THEN Enter(q, t) ELSE Throw(q, q.stack)
    BY <1>2 DEF Continue
  <2>2. q.stack \in Seq(Frame)
    BY DEF Request
  <2>3. QED
    BY <2>1, <2>2, EnterGood, ThrowGood DEF AtWork
<1>3. QED
  BY <1>1, <1>2

\* From a waiting node of a sound definition it throws no exception at all
LEMMA ContinueFromWait ==
    ASSUME SoundDefinition, NEW q \in Request, CopiesInv(q), q.row.status = "running",
           NEW n, AtWaitNode(n), NEW p \in Continue(q, n)
    PROVE  Has(q.version, n) /\ p.exec = q.exec /\ p.pc \in AtWork
<1>1. q.version \in 1..Versions /\ n \in Nodes
  BY DEF Request, AtWaitNode
<1>2. NodeType[q.version][n] \in WaitTypes
  BY <1>1 DEF AtWaitNode, SoundDefinition
<1>3. CASE Edges[q.version][n] = <<>>
  BY <1>2, <1>3 DEF Continue, Request, AtWork, Has, WaitTypes
<1>4. CASE Edges[q.version][n] # <<>>
  <2> DEFINE t == Edges[q.version][n][1]
  <2>1. Targets(q.version, n) = {t}
    BY <1>2 DEF Targets, WaitTypes
  <2>2. Edges[q.version][n] \in Seq(Nodes)
    BY <1>1, GraphAssumption
  <2>3. t \in Nodes /\ 1 \in DOMAIN Edges[q.version][n]
    BY <1>4, <2>2
  <2>4. Has(q.version, t)
    BY <1>1, <2>3 DEF SoundDefinition
  <2>5. p = Enter(q, t)
    BY <1>4, <2>1, <2>3, <2>4 DEF Continue
  <2>6. QED
    BY <1>2, <2>3, <2>5, EnterGood DEF AtWork, Has, WaitTypes
<1>5. QED
  BY <1>3, <1>4

-----------------------------------------------------------------------------
(* Beginning a request *)

LEMMA ExecuteDriven ==
    ASSUME IInv, Driven, SoundDefinition, NEW r \in Requests, NEW e \in Executions,
           ExecuteWorkflow(r, e)
    PROVE  Driven'
<1> DEFINE new == [NoRow EXCEPT !.status = "running"]
           q == [IdleRequest EXCEPT !.op = "execute", !.exec = e,
                                    !.row = new, !.version = version]
<1>1. run[r].pc = "idle" /\ db' = [db EXCEPT ![e] = new] /\ version \in 1..Versions
  BY DEF ExecuteWorkflow, MayBegin, IInv, TypeOK
<1>2. \E n \in Nodes : NodeType[version][n] = "start"
  BY <1>1 DEF SoundDefinition
<1>3. PICK n \in Nodes : run' = [run EXCEPT ![r] = Enter(q, n)]
  BY <1>2 DEF ExecuteWorkflow
<1>4. Enter(q, n).exec = e /\ Enter(q, n).pc = "enter"
  BY DEF Enter, IdleRequest
<1>5. \A x \in Executions : x # e => db'[x] = db[x]
  BY <1>1 DEF IInv, TypeOK
<1> HIDE DEF q, new
<1> DEFINE p == Enter(q, n)
<1> HIDE DEF p
<1>6. p.exec = e /\ p.pc \in AtWork /\ run[r].pc \notin AtWork
  BY <1>1, <1>4 DEF AtWork, p
<1>7. \A x \in Executions : db'[x].status = "running" =>
         \/ p.exec = x /\ p.pc \in AtWork
         \/ db[x].status = "running" /\ (run[r].exec # x \/ run[r].pc \notin AtWork)
  BY <1>5, <1>6
<1>8. run' = [run EXCEPT ![r] = p]
  BY <1>3 DEF p
<1>9. QED
  BY <1>7, <1>8, StepKeepsDriven

LEMMA BeginDriven ==
    ASSUME IInv, Driven, SoundDefinition, NEW r \in Requests, Begin(r)
    PROVE  Driven'
<1>1. CASE \E e \in Executions : ExecuteWorkflow(r, e)
  BY <1>1, ExecuteDriven
<1>2. CASE \/ \E e \in Executions, o \in {"continue", "approve"} : LoadToResume(r, e, o)
           \/ LoadWaiting(r)
           \/ \E e \in Executions : LoadToCancel(r, e)
  <2>1. run[r].pc \notin AtWork /\ UNCHANGED db
    BY <1>2 DEF LoadToResume, LoadWaiting, LoadToCancel, MayBegin, AtWork
  <2>2. \E p : run' = [run EXCEPT ![r] = p]
    BY <1>2 DEF LoadToResume, LoadWaiting, LoadToCancel
  <2>3. QED
    BY <2>1, <2>2, MoveKeepsDriven
<1>3. QED
  BY <1>1, <1>2 DEF Begin

-----------------------------------------------------------------------------
(* The steps of a request *)

LEMMA ResumeDriven ==
    ASSUME IInv, Driven, SoundDefinition, NEW r \in Requests, Resume(r)
    PROVE  Driven'
<1> DEFINE q == run[r]
<1>1. /\ q \in Request /\ CopiesInv(q) /\ q.row.status = "running"
      /\ AtWaitNode(q.row.current) /\ Save(r)
  BY DEF IInv, Good, PointInv, Resume
<1>2. Has(q.version, q.row.current)
  BY <1>1 DEF AtWaitNode, SoundDefinition, Request, Has, WaitTypes
<1>3. PICK p \in Continue(q, q.row.current) : run' = [run EXCEPT ![r] = p]
  BY <1>2 DEF Resume
<1>4. p.exec = q.exec /\ p.pc \in AtWork
  BY <1>1, <1>3, ContinueFromWait
<1>5. QED
  BY <1>1, <1>3, <1>4, SaveKeepsDriven

\* Steps that move on inside an activation
LEMMA InsideDriven ==
    ASSUME IInv, Driven, NEW r \in Requests,
           RunTask(r) \/ CheckLoop(r) \/ CompleteStep(r) \/ CreateStep(r)
           \/ SetStatus(r) \/ StartLoop(r) \/ FailStep(r)
    PROVE  Driven'
<1>1. run[r] \in Request /\ run \in [Requests -> Request] /\ UNCHANGED db
  BY DEF IInv, TypeOK, RunTask, CheckLoop, CompleteStep, CreateStep, SetStatus,
         StartLoop, FailStep
<1>2. CASE RunTask(r) \/ CheckLoop(r) \/ CompleteStep(r)
  <2>1. PICK c \in AtWork : Goto(r, c)
    BY <1>2 DEF RunTask, CheckLoop, CompleteStep, AtWork
  <2>2. QED
    BY <1>1, <2>1, GotoPoint, MoveKeepsDriven
<1>3. CASE CreateStep(r) \/ SetStatus(r) \/ StartLoop(r) \/ FailStep(r)
  <2>1. PICK p : /\ run' = [run EXCEPT ![r] = p]
                 /\ p.exec = run[r].exec /\ p.pc \in AtWork
    <3>1. CASE CreateStep(r)
      <4> DEFINE q == [run[r] EXCEPT !.pc = "body",
                     !.stack[Len(run[r].stack)].step = Len(steps) + 1]
      <4>1. q.exec = run[r].exec /\ q.pc \in AtWork
        BY <1>1 DEF Request, AtWork
      <4>2. run' = [run EXCEPT ![r] = q]
        BY <1>1, <3>1 DEF CreateStep
      <4>3. QED
        BY <4>1, <4>2
    <3>2. CASE SetStatus(r)
      <4> DEFINE q == [run[r] EXCEPT !.pc = "bodysave",
                                   !.row.status = StatusSetBy(TopType(run[r]))]
      <4>1. q.exec = run[r].exec /\ q.pc \in AtWork
        BY <1>1 DEF Request, AtWork
      <4>2. run' = [run EXCEPT ![r] = q]
        BY <1>1, <3>2 DEF SetStatus
      <4>3. QED
        BY <4>1, <4>2
    <3>3. CASE StartLoop(r)
      <4> DEFINE q == [run[r] EXCEPT !.pc = "bodysave",
                                   !.row.loops[LoopOf[Top(run[r]).node]] = @ + 1]
      <4>1. q.exec = run[r].exec /\ q.pc \in AtWork
        BY <1>1 DEF Request, AtWork
      <4>2. run' = [run EXCEPT ![r] = q]
        BY <1>1, <3>3 DEF StartLoop
      <4>3. QED
        BY <4>1, <4>2
    <3>4. CASE FailStep(r)
      <4> DEFINE q == [run[r] EXCEPT !.pc = "fail", !.row.status = "failed"]
      <4>1. q.exec = run[r].exec /\ q.pc \in AtWork
        BY <1>1 DEF Request, AtWork
      <4>2. run' = [run EXCEPT ![r] = q]
        BY <1>1, <3>4 DEF FailStep
      <4>3. QED
        BY <4>1, <4>2
    <3>5. QED
      BY <1>3, <3>1, <3>2, <3>3, <3>4
  <2>2. QED
    BY <1>1, <2>1, MoveKeepsDriven
<1>4. QED
  BY <1>2, <1>3

LEMMA EndLoopDriven ==
    ASSUME IInv, Driven, NEW r \in Requests, EndLoop(r) PROVE Driven'
<1> DEFINE l == LoopOf[Top(run[r]).node]
           inner == [run[r] EXCEPT !.stack[Len(run[r].stack)].inner = TRUE]
<1>1. run[r] \in Request /\ UNCHANGED db
  BY DEF IInv, TypeOK, EndLoop
<1>2. PICK p : /\ run' = [run EXCEPT ![r] = p]
               /\ p.exec = run[r].exec /\ p.pc \in AtWork
  <2>1. CASE Goto(r, "catch")
    BY <2>1, GotoPoint DEF AtWork
  <2>2. CASE run' = [run EXCEPT ![r] = [run[r] EXCEPT !.pc = "bodysave", !.row.loops[l] = 0]]
    <3> DEFINE q == [run[r] EXCEPT !.pc = "bodysave", !.row.loops[l] = 0]
    <3>1. q.exec = run[r].exec /\ q.pc \in AtWork
      BY <1>1 DEF Request, AtWork
    <3>2. QED
      BY <2>2, <3>1
  <2>3. CASE run' = [run EXCEPT ![r] = Enter(inner, LoopStart[l])]
    <3>1. inner.exec = run[r].exec /\ DOMAIN inner = DOMAIN run[r]
      BY <1>1 DEF Request
    <3>2. Enter(inner, LoopStart[l]).exec = inner.exec /\ Enter(inner, LoopStart[l]).pc = "enter"
      BY <1>1, <3>1 DEF Enter, Request
    <3>3. QED
      BY <2>3, <3>1, <3>2 DEF AtWork
  <2>4. QED
    BY <2>1, <2>2, <2>3 DEF EndLoop
<1>3. QED
  BY <1>1, <1>2, MoveKeepsDriven

\* Steps that save the copy and go on
LEMMA SaveAndGoOnDriven ==
    ASSUME IInv, Driven, NEW r \in Requests, SaveCurrentNode(r) \/ SaveInBody(r)
    PROVE  Driven'
<1>1. run[r] \in Request /\ Save(r)
  BY DEF IInv, TypeOK, SaveCurrentNode, SaveInBody
<1>2. PICK p : /\ run' = [run EXCEPT ![r] = p]
               /\ p.exec = run[r].exec /\ p.pc \in AtWork
  BY <1>1 DEF SaveCurrentNode, SaveInBody, Goto, Request, AtWork
<1>3. QED
  BY <1>1, <1>2, SaveKeepsDriven

LEMMA MergeResultDriven ==
    ASSUME IInv, Driven, NEW r \in Requests, MergeResult(r) PROVE Driven'
<1> DEFINE q == run[r]
<1>1. q \in Request /\ CopiesInv(q) /\ q.stack # <<>> /\ Save(r)
  BY DEF IInv, Good, PointInv, InActivation, MergeResult
<1>2. CASE q.row.status = "running"
  <2>1. PICK p \in Continue(q, Top(q).node) : run' = [run EXCEPT ![r] = p]
    BY <1>2 DEF MergeResult
  <2>2. p.exec = q.exec /\ p.pc \in AtWork
    BY <1>1, <1>2, <2>1, ContinueInside
  <2>3. QED
    BY <1>1, <2>1, <2>2, SaveKeepsDriven
<1>3. CASE q.row.status # "running"
  BY <1>1, <1>3, SaveKeepsDriven DEF MergeResult
<1>4. QED
  BY <1>2, <1>3

\* Steps that stop working: the copy saved says how the execution ended
LEMMA StopDriven ==
    ASSUME IInv, Driven, NEW r \in Requests,
           FinishWithoutEdge(r) \/ FailExecution(r) \/ CancelExecution(r)
    PROVE  Driven'
<1>1. run[r].row.status # "running"
  BY DEF IInv, Good, PointInv, FinishWithoutEdge, FailExecution, CancelExecution
<1>2. Save(r) /\ \E p : run' = [run EXCEPT ![r] = p]
  BY DEF FinishWithoutEdge, FailExecution, CancelExecution, Goto
<1>3. QED
  BY <1>1, <1>2, SaveKeepsDriven

\* Steps of a request that was not at work
LEMMA ElsewhereDriven ==
    ASSUME IInv, Driven, NEW r \in Requests, NextWaiting(r) \/ ReturnToCaller(r)
    PROVE  Driven'
<1>1. run[r].pc \notin AtWork /\ UNCHANGED db /\ \E p : run' = [run EXCEPT ![r] = p]
  BY DEF NextWaiting, ReturnToCaller, Goto, AtWork
<1>2. QED
  BY <1>1, MoveKeepsDriven

LEMMA NextDriven ==
    ASSUME IInv, Undisturbed => Driven, [Next]_vars
    PROVE  (Undisturbed => Driven)'
<1> SUFFICES ASSUME Undisturbed' PROVE Driven'
  OBVIOUS
<1>1. faults \in Nat /\ crashes \in Nat
  BY GraphAssumption DEF IInv, TypeOK
<1>2. SoundDefinition
  BY DEF Undisturbed, SoundDefinition, Has
<1>3. ~Crash /\ \A r \in Requests : ~WriteFails(r)
  BY <1>1 DEF Undisturbed, Crash, WriteFails
<1>4. ASSUME NEW r \in Requests, Begin(r) PROVE Driven'
  <2>1. faults' = faults /\ crashes' = crashes
    BY <1>4 DEF Begin, ExecuteWorkflow, LoadToResume, LoadWaiting, LoadToCancel
  <2>2. QED
    BY <1>2, <1>4, <2>1, BeginDriven DEF Undisturbed
<1>5. ASSUME NEW r \in Requests, Advance(r) PROVE Driven'
  <2>1. faults' = faults /\ crashes' = crashes
    BY <1>5 DEF Advance, NextWaiting, Resume, CancelExecution, SaveCurrentNode,
       CreateStep, RunTask, SetStatus, StartLoop, CheckLoop, EndLoop, SaveInBody,
       CompleteStep, MergeResult, FinishWithoutEdge, FailStep, FailExecution, ReturnToCaller
  <2>2. Driven
    BY <1>2, <2>1 DEF Undisturbed
  <2>3. QED
    BY <1>2, <1>5, <2>2, ResumeDriven, InsideDriven, EndLoopDriven, SaveAndGoOnDriven,
       MergeResultDriven, StopDriven, ElsewhereDriven DEF Advance
<1>6. CASE UpdateWorkflow \/ UNCHANGED vars
  BY <1>2, <1>6 DEF UpdateWorkflow, vars, Undisturbed, Driven
<1>7. QED
  BY <1>3, <1>4, <1>5, <1>6 DEF Next

\* For every sound definition and any number of overlapping requests, as long
\* as no write fails and the process lives: a RUNNING row is being run
THEOREM RunningDriven == Spec => []RunningIsDriven
<1>1. Init => DInv
  BY InitIInv DEF DInv, Init, Driven, NoRow
<1>2. DInv /\ [Next]_vars => DInv'
  BY NextIInv, NextDriven DEF DInv
<1>3. DInv => RunningIsDriven
  BY DEF DInv, Undisturbed, Driven, RunningIsDriven, Live, Ended, AtWork
<1>4. QED
  BY <1>1, <1>2, <1>3, PTL DEF Spec
-----------------------------------------------------------------------------
(* What each step does to its request and leaves alone *)

\* What it was asked, for which execution, with which payloads
Kept(q, p) ==
    /\ p \in Request
    /\ p.op = q.op /\ p.exec = q.exec /\ p.version = q.version
    /\ p.queue = q.queue /\ p.snapshot = q.snapshot /\ p.row.answer = q.row.answer

Only(r) == \A o \in Requests \ {r} : run'[o] = run[o]

\* A stack in which only the last activation may have changed
TopOnly(s, t) ==
    /\ s \in Seq(Frame) /\ t \in Seq(Frame) /\ s # <<>> /\ Len(t) = Len(s)
    /\ \A k \in 1..(Len(s) - 1) : t[k] = s[k]

LEMMA BecomesIs ==
    ASSUME IInv, NEW r \in Requests, NEW p, run' = [run EXCEPT ![r] = p]
    PROVE  run'[r] = p /\ Only(r)
BY DEF IInv, TypeOK, Only

LEMMA GotoIs ==
    ASSUME IInv, NEW r \in Requests, NEW c \in PCs, Goto(r, c)
    PROVE  /\ Kept(run[r], run'[r]) /\ Only(r) /\ run'[r].pc = c
           /\ run'[r].row = run[r].row /\ run'[r].stack = run[r].stack
           /\ run'[r].verdicts = run[r].verdicts
<1> DEFINE p == [run[r] EXCEPT !.pc = c]
<1>1. run[r] \in Request
  BY DEF IInv, TypeOK
<1>2. run' = [run EXCEPT ![r] = p]
  BY DEF Goto
<1>3. /\ p \in Request /\ p.pc = c /\ p.op = run[r].op /\ p.exec = run[r].exec
      /\ p.version = run[r].version /\ p.queue = run[r].queue /\ p.snapshot = run[r].snapshot
      /\ p.row = run[r].row /\ p.stack = run[r].stack /\ p.verdicts = run[r].verdicts
  BY <1>1 DEF Request
<1> HIDE DEF p
<1>4. QED
  BY <1>2, <1>3, BecomesIs DEF Kept

LEMMA EnterIs ==
    ASSUME NEW q \in Request, NEW n \in Nodes, NEW p, p = Enter(q, n)
    PROVE  /\ Kept(q, p) /\ p.pc = "enter" /\ p.row.status = q.row.status
           /\ p.verdicts = q.verdicts
           /\ \E f \in Frame : f.step = 0 /\ p.stack = Append(q.stack, f)
<1> DEFINE f == [node |-> n, step |-> 0, inner |-> FALSE]
           s == Append(q.stack, f)
           row == [q.row EXCEPT !.current = n]
<1>1. q.stack \in Seq(Frame) /\ q.row \in Row
  BY DEF Request
<1>2. f \in Frame /\ f.step = 0
  BY DEF Frame
<1>3. row \in Row /\ row.status = q.row.status /\ row.answer = q.row.answer
  BY <1>1 DEF Row
<1>4. p = [q EXCEPT !.pc = "enter", !.row = row, !.stack = s]
  BY DEF Enter, Request
<1> HIDE DEF f, row
<1>5. s \in Seq(Frame)
  BY <1>1, <1>2
<1> HIDE DEF s
<1>6. /\ p \in Request /\ p.pc = "enter" /\ p.op = q.op /\ p.exec = q.exec
      /\ p.version = q.version /\ p.queue = q.queue /\ p.snapshot = q.snapshot
      /\ p.row = row /\ p.stack = s /\ p.verdicts = q.verdicts
  BY <1>3, <1>4, <1>5 DEF Request, PCs
<1>7. QED
  BY <1>2, <1>3, <1>6 DEF Kept, s

LEMMA ThrowIs ==
    ASSUME NEW q \in Request, NEW s \in Seq(Frame), NEW p, p = Throw(q, s)
    PROVE  /\ Kept(q, p) /\ p.stack = s /\ p.verdicts = q.verdicts
           /\ s # <<>> => p.pc = "catch" /\ p.row.status = q.row.status
           /\ s = <<>> => IF q.op = "execute" THEN p.pc = "fail" /\ p.row.status = "failed"
                          ELSE p.pc = "rejected" /\ p.row.status = q.row.status
<1> DEFINE st == IF s = <<>> /\ q.op = "execute" THEN "failed" ELSE q.row.status
           row == [q.row EXCEPT !.status = st]
           point == IF s # <<>> THEN "catch"
                    ELSE IF q.op = "execute" THEN "fail" ELSE "rejected"
<1>1. row \in Row /\ row.status = st /\ row.answer = q.row.answer
  BY DEF Row, Request, Statuses
<1>2. p = [q EXCEPT !.stack = s, !.pc = point, !.row = row]
  BY DEF Throw, Request
<1> HIDE DEF row
<1>3. point \in PCs
  BY DEF PCs
<1>4. /\ p \in Request /\ p.pc = point /\ p.op = q.op /\ p.exec = q.exec
      /\ p.version = q.version /\ p.queue = q.queue /\ p.snapshot = q.snapshot
      /\ p.row = row /\ p.stack = s /\ p.verdicts = q.verdicts
  <2> HIDE DEF point
  <2>1. QED
    BY <1>1, <1>2, <1>3 DEF Request
<1>5. QED
  BY <1>1, <1>4 DEF Kept

LEMMA ReturnIs ==
    ASSUME NEW q \in Request, NEW p, p = Return(q)
    PROVE  /\ Kept(q, p) /\ p.pc = "return" /\ p.row = q.row /\ p.verdicts = q.verdicts
           /\ p.stack = Pop(q.stack)
<1> DEFINE s == Pop(q.stack)
<1>1. s \in Seq(Frame)
  BY PopType DEF Request
<1>2. p = [q EXCEPT !.pc = "return", !.stack = s]
  BY DEF Return, Request
<1> HIDE DEF s
<1>3. /\ p \in Request /\ p.pc = "return" /\ p.op = q.op /\ p.exec = q.exec
      /\ p.version = q.version /\ p.queue = q.queue /\ p.snapshot = q.snapshot
      /\ p.row = q.row /\ p.stack = s /\ p.verdicts = q.verdicts
  BY <1>1, <1>2 DEF Request, PCs
<1>4. QED
  BY <1>3 DEF Kept, s

\* continueToNextNode goes on to a node, finishes the execution or throws
LEMMA ContinueIs ==
    ASSUME NEW q \in Request, q.row.status = "running", NEW n, NEW p \in Continue(q, n)
    PROVE  /\ Kept(q, p) /\ p.verdicts = q.verdicts
           /\ \/ p.pc = "finish" /\ p.stack = q.stack /\ p.row.status = "completed"
              \/ /\ p.pc = "enter" /\ p.row.status = "running"
                 /\ \E f \in Frame : f.step = 0 /\ p.stack = Append(q.stack, f)
              \/ p.pc = "catch" /\ p.stack = q.stack /\ q.stack # <<>> /\ p.row.status = "running"
              \/ p.pc = "fail" /\ p.stack = q.stack /\ q.op = "execute" /\ q.stack = <<>>
                 /\ p.row.status = "failed"
              \/ p.pc = "rejected" /\ p.stack = q.stack /\ q.stack = <<>>
                 /\ p.row.status = "running"
<1>1. CASE Edges[q.version][n] = <<>>
  <2> DEFINE row == [q.row EXCEPT !.status = "completed"]
  <2>1. row \in Row /\ row.status = "completed" /\ row.answer = q.row.answer
    BY DEF Row, Request, Statuses
  <2>2. p = [q EXCEPT !.pc = "finish", !.row = row]
    BY <1>1 DEF Continue, Request
  <2> HIDE DEF row
  <2>3. /\ p \in Request /\ p.pc = "finish" /\ p.op = q.op /\ p.exec = q.exec
        /\ p.version = q.version /\ p.queue = q.queue /\ p.snapshot = q.snapshot
        /\ p.row = row /\ p.stack = q.stack /\ p.verdicts = q.verdicts
    BY <2>1, <2>2 DEF Request, PCs
  <2>4. QED
    BY <2>1, <2>3 DEF Kept
<1>2. CASE Edges[q.version][n] # <<>>
  <2>1. PICK t \in Targets(q.version, n) :
           p = IF t \in Nodes /\ Has(q.version, t) THEN Enter(q, t) ELSE Throw(q, q.stack)
    BY <1>2 DEF Continue
  <2>2. q.stack \in Seq(Frame)
    BY DEF Request
  <2>3. CASE t \in Nodes /\ Has(q.version, t)
    BY <2>1, <2>3, EnterIs
  <2>4. CASE ~(t \in Nodes /\ Has(q.version, t))
    BY <2>1, <2>2, <2>4, ThrowIs
  <2>5. QED
    BY <2>3, <2>4
<1>3. QED
  BY <1>1, <1>2

\* The body of a node prepares its save
LEMMA SavePrepared ==
    ASSUME IInv, NEW r \in Requests, SetStatus(r) \/ StartLoop(r)
    PROVE  /\ Kept(run[r], run'[r]) /\ Only(r)
           /\ run[r].pc = "body" /\ run'[r].pc = "bodysave"
           /\ run'[r].stack = run[r].stack /\ run'[r].verdicts = run[r].verdicts
           /\ UNCHANGED <<db, steps, owed>>
           /\ \/ /\ TopType(run[r]) \in WaitTypes \cup {"end"}
                 /\ run'[r].row.status = StatusSetBy(TopType(run[r]))
              \/ TopType(run[r]) = "loop_start" /\ run'[r].row.status = "running"
<1> DEFINE q == run[r]
<1>1. /\ q \in Request /\ q.pc = "body" /\ q.row \in Row /\ Top(q).node \in Nodes
      /\ q.row.status = "running" /\ UNCHANGED <<db, steps, owed>>
  BY AtBody DEF SetStatus, StartLoop
<1>2. ASSUME NEW row \in Row, row.answer = q.row.answer,
             run' = [run EXCEPT ![r] = [q EXCEPT !.pc = "bodysave", !.row = row]]
      PROVE  /\ Kept(q, run'[r]) /\ Only(r) /\ run'[r].pc = "bodysave" /\ run'[r].row = row
             /\ run'[r].stack = q.stack /\ run'[r].verdicts = q.verdicts
  <2> DEFINE p == [q EXCEPT !.pc = "bodysave", !.row = row]
  <2>1. /\ p \in Request /\ p.pc = "bodysave" /\ p.op = q.op /\ p.exec = q.exec
        /\ p.version = q.version /\ p.queue = q.queue /\ p.snapshot = q.snapshot
        /\ p.row = row /\ p.stack = q.stack /\ p.verdicts = q.verdicts
    BY <1>1 DEF Request, PCs
  <2> HIDE DEF p
  <2>2. run'[r] = p /\ Only(r)
    BY <1>2, BecomesIs DEF p
  <2>3. QED
    BY <1>2, <2>1, <2>2 DEF Kept
<1>3. CASE SetStatus(r)
  <2> DEFINE st == StatusSetBy(TopType(q))
             row == [q.row EXCEPT !.status = st]
  <2>1. TopType(q) \in WaitTypes \cup {"end"}
    BY <1>3 DEF SetStatus
  <2>2. row \in Row /\ row.status = st /\ row.answer = q.row.answer
    BY <1>1, <2>1 DEF Row, Statuses, WaitingStatuses, WaitTypes, StatusSetBy
  <2>3. run' = [run EXCEPT ![r] = [q EXCEPT !.pc = "bodysave", !.row = row]]
    <3>1. [q EXCEPT !.pc = "bodysave", !.row = row]
             = [q EXCEPT !.pc = "bodysave", !.row.status = st]
      <4> HIDE DEF st
      <4>1. QED
        BY <1>1 DEF Request
    <3>2. QED
      BY <1>3, <3>1 DEF SetStatus
  <2> HIDE DEF row, st
  <2>4. QED
    BY <1>1, <1>2, <2>1, <2>2, <2>3 DEF st
<1>4. CASE StartLoop(r)
  <2> DEFINE l == LoopOf[Top(q).node]
             row == [q.row EXCEPT !.loops[l] = @ + 1]
  <2>1. l \in Loops /\ TopType(q) = "loop_start"
    BY <1>1, <1>4, GraphAssumption DEF StartLoop
  <2>2. row \in Row /\ row.status = "running" /\ row.answer = q.row.answer
    BY <1>1, <2>1 DEF Row
  <2>3. run' = [run EXCEPT ![r] = [q EXCEPT !.pc = "bodysave", !.row = row]]
    <3>1. [q EXCEPT !.pc = "bodysave", !.row = row]
             = [q EXCEPT !.pc = "bodysave", !.row.loops[l] = @ + 1]
      BY <1>1 DEF Request
    <3>2. QED
      BY <1>4, <3>1 DEF StartLoop
  <2> HIDE DEF row
  <2>4. QED
    BY <1>1, <1>2, <2>1, <2>2, <2>3
<1>5. QED
  BY <1>3, <1>4

\* The activation on top is given its step
LEMMA CreateStepIs ==
    ASSUME IInv, NEW r \in Requests, CreateStep(r)
    PROVE  /\ Kept(run[r], run'[r]) /\ Only(r)
           /\ run[r].pc = "create" /\ run'[r].pc = "body" /\ run'[r].row = run[r].row
           /\ run'[r].verdicts = run[r].verdicts
           /\ TopOnly(run[r].stack, run'[r].stack)
           /\ run'[r].stack[Len(run[r].stack)].step = Len(steps) + 1
           /\ UNCHANGED <<db, owed>> /\ steps' = Append(steps, "running")
<1> DEFINE q == run[r]
           f == [Top(q) EXCEPT !.step = Len(steps) + 1]
           s == [q.stack EXCEPT ![Len(q.stack)] = f]
           p == [q EXCEPT !.pc = "body", !.stack = s]
<1>1. /\ q \in Request /\ q.pc = "create" /\ q.stack # <<>> /\ Top(q) \in Frame
      /\ q.stack \in Seq(Frame) /\ steps \in Seq(StepStatus)
  <2>1. q \in Request /\ q.pc = "create" /\ q.stack # <<>> /\ steps \in Seq(StepStatus)
    BY DEF IInv, Good, CreateStep, PointInv, InActivation, TypeOK, StepStatus
  <2>2. QED
    BY <2>1, TopIsFrame DEF Request
<1>2. Len(steps) + 1 \in Nat
  BY <1>1
<1>3. f \in Frame /\ f.step = Len(steps) + 1
  BY <1>1, <1>2 DEF Frame
<1>4. run' = [run EXCEPT ![r] = p]
  <2>1. s = [q.stack EXCEPT ![Len(q.stack)].step = Len(steps) + 1]
    BY DEF Top
  <2>2. p = [q EXCEPT !.pc = "body", !.stack[Len(q.stack)].step = Len(steps) + 1]
    BY <1>1, <2>1 DEF Request
  <2>3. QED
    BY <2>2 DEF CreateStep
<1> HIDE DEF f
<1>5. TopOnly(q.stack, s) /\ s[Len(q.stack)] = f
  <2>1. Len(q.stack) \in 1..Len(q.stack)
    BY <1>1
  <2>2. s \in Seq(Frame) /\ Len(s) = Len(q.stack) /\ s[Len(q.stack)] = f
    BY <1>1, <1>3, <2>1
  <2>3. \A k \in 1..(Len(q.stack) - 1) : s[k] = q.stack[k]
    BY <1>1
  <2>4. QED
    BY <1>1, <2>2, <2>3 DEF TopOnly
<1> HIDE DEF s
<1>6. /\ p \in Request /\ p.pc = "body" /\ p.op = q.op /\ p.exec = q.exec
      /\ p.version = q.version /\ p.queue = q.queue /\ p.snapshot = q.snapshot
      /\ p.row = q.row /\ p.stack = s /\ p.verdicts = q.verdicts
  BY <1>1, <1>5 DEF Request, PCs, TopOnly
<1> HIDE DEF p
<1>7. run'[r] = p /\ Only(r)
  BY <1>4, BecomesIs
<1>8. QED
  BY <1>1, <1>3, <1>5, <1>6, <1>7 DEF Kept, CreateStep

\* A loop ends, begins again inside the activation, or fails
LEMMA EndLoopIs ==
    ASSUME IInv, NEW r \in Requests, EndLoop(r)
    PROVE  /\ Kept(run[r], run'[r]) /\ Only(r)
           /\ run[r].pc = "body" /\ TopType(run[r]) = "loop_end"
           /\ run'[r].row.status = "running" /\ run'[r].verdicts = run[r].verdicts
           /\ UNCHANGED <<db, steps, owed>>
           /\ \/ run'[r].pc \in {"catch", "bodysave"} /\ run'[r].stack = run[r].stack
              \/ /\ run'[r].pc = "enter"
                 /\ \E s \in Seq(Frame), f \in Frame :
                        /\ TopOnly(run[r].stack, s)
                        /\ s[Len(s)].inner /\ s[Len(s)].step = Top(run[r]).step
                        /\ f.step = 0 /\ run'[r].stack = Append(s, f)
<1> DEFINE q == run[r]
           l == LoopOf[Top(q).node]
           row == [q.row EXCEPT !.loops[l] = 0]
           top == [Top(q) EXCEPT !.inner = TRUE]
           s == [q.stack EXCEPT ![Len(q.stack)] = top]
           inner == [q EXCEPT !.stack = s]
<1>1. /\ q \in Request /\ q.pc = "body" /\ q.row \in Row /\ TopType(q) = "loop_end"
      /\ q.row.status = "running" /\ l \in Loops /\ LoopStart[l] \in Nodes
      /\ q.stack # <<>> /\ Top(q) \in Frame /\ q.stack \in Seq(Frame)
      /\ UNCHANGED <<db, steps, owed>>
  BY AtBody, GraphAssumption DEF EndLoop, Request
<1>2. CASE Goto(r, "catch")
  BY <1>1, <1>2, GotoIs DEF PCs
<1>3. CASE run' = [run EXCEPT ![r] = [q EXCEPT !.pc = "bodysave", !.row.loops[l] = 0]]
  <2> DEFINE p == [q EXCEPT !.pc = "bodysave", !.row = row]
  <2>1. row \in Row /\ row.status = "running" /\ row.answer = q.row.answer
    BY <1>1 DEF Row
  <2>2. p = [q EXCEPT !.pc = "bodysave", !.row.loops[l] = 0]
    BY <1>1 DEF Request
  <2> HIDE DEF row
  <2>3. /\ p \in Request /\ p.pc = "bodysave" /\ p.op = q.op /\ p.exec = q.exec
        /\ p.version = q.version /\ p.queue = q.queue /\ p.snapshot = q.snapshot
        /\ p.row = row /\ p.stack = q.stack /\ p.verdicts = q.verdicts
    BY <1>1, <2>1 DEF Request, PCs
  <2> HIDE DEF p
  <2>4. run'[r] = p /\ Only(r)
    BY <1>3, <2>2, BecomesIs
  <2>5. QED
    BY <1>1, <2>1, <2>3, <2>4 DEF Kept
<1>4. CASE run' = [run EXCEPT ![r] =
              Enter([q EXCEPT !.stack[Len(q.stack)].inner = TRUE], LoopStart[l])]
  <2>1. top \in Frame /\ top.inner /\ top.step = Top(q).step
    BY <1>1 DEF Frame
  <2>2. [q EXCEPT !.stack[Len(q.stack)].inner = TRUE] = inner
    <3>1. s = [q.stack EXCEPT ![Len(q.stack)].inner = TRUE]
      BY DEF Top
    <3>2. QED
      BY <1>1, <3>1 DEF Request
  <2> HIDE DEF top
  <2>3. TopOnly(q.stack, s) /\ s[Len(s)] = top
    <3>1. Len(q.stack) \in 1..Len(q.stack)
      BY <1>1
    <3>2. s \in Seq(Frame) /\ Len(s) = Len(q.stack) /\ s[Len(s)] = top
      BY <1>1, <2>1, <3>1
    <3>3. \A k \in 1..(Len(q.stack) - 1) : s[k] = q.stack[k]
      BY <1>1
    <3>4. QED
      BY <1>1, <3>2, <3>3 DEF TopOnly
  <2> HIDE DEF s
  <2>4. /\ inner \in Request /\ Kept(q, inner) /\ inner.stack = s
        /\ inner.row = q.row /\ inner.verdicts = q.verdicts
    BY <1>1, <2>3 DEF Request, TopOnly, Kept
  <2> HIDE DEF inner
  <2> DEFINE p == Enter(inner, LoopStart[l])
  <2>5. /\ Kept(inner, p) /\ p.pc = "enter" /\ p.row.status = inner.row.status
        /\ p.verdicts = inner.verdicts
        /\ \E f \in Frame : f.step = 0 /\ p.stack = Append(inner.stack, f)
    BY <1>1, <2>4, EnterIs
  <2>6. run' = [run EXCEPT ![r] = p]
    BY <1>4, <2>2
  <2> HIDE DEF p
  <2>7. run'[r] = p /\ Only(r)
    BY <2>6, BecomesIs
  <2>8. Kept(q, p)
    BY <2>4, <2>5 DEF Kept
  <2>9. s \in Seq(Frame) /\ s[Len(s)].inner /\ s[Len(s)].step = Top(q).step
    BY <2>1, <2>3 DEF TopOnly
  <2>10. QED
    BY <1>1, <2>3, <2>4, <2>5, <2>7, <2>8, <2>9
<1>5. QED
  BY <1>2, <1>3, <1>4 DEF EndLoop

LEMMA SaveInBodyIs ==
    ASSUME IInv, NEW r \in Requests, SaveInBody(r)
    PROVE  /\ Kept(run[r], run'[r]) /\ Only(r)
           /\ run[r].pc = "bodysave" /\ run'[r].pc = "complete" /\ run'[r].row = run[r].row
           /\ run'[r].stack = run[r].stack /\ Save(r) /\ steps' = steps
           /\ run'[r].verdicts = IF TopType(run[r]) = "end" THEN run[r].verdicts + 1
                                 ELSE run[r].verdicts
           /\ owed' = [owed EXCEPT ![run[r].exec] =
                           IF TopType(run[r]) \in WaitTypes THEN @ + 1 ELSE @]
<1> DEFINE q == run[r]
           n == IF TopType(q) = "end" THEN q.verdicts + 1 ELSE q.verdicts
           p == [q EXCEPT !.pc = "complete", !.verdicts = n]
<1>1. q \in Request /\ q.pc = "bodysave"
  BY DEF IInv, Good, SaveInBody
<1>2. n \in Nat
  BY <1>1 DEF Request
<1>3. run' = [run EXCEPT ![r] = p]
  BY DEF SaveInBody
<1> HIDE DEF n
<1>4. /\ p \in Request /\ p.pc = "complete" /\ p.op = q.op /\ p.exec = q.exec
      /\ p.version = q.version /\ p.queue = q.queue /\ p.snapshot = q.snapshot
      /\ p.row = q.row /\ p.stack = q.stack /\ p.verdicts = n
  BY <1>1, <1>2 DEF Request, PCs
<1> HIDE DEF p
<1>5. run'[r] = p /\ Only(r)
  BY <1>3, BecomesIs
<1>6. QED
  BY <1>1, <1>4, <1>5 DEF Kept, SaveInBody, n

LEMMA FailStepIs ==
    ASSUME IInv, NEW r \in Requests, FailStep(r)
    PROVE  /\ Kept(run[r], run'[r]) /\ Only(r)
           /\ run[r].pc = "catch" /\ run'[r].pc = "fail" /\ run'[r].row.status = "failed"
           /\ run'[r].stack = run[r].stack /\ run'[r].verdicts = run[r].verdicts
           /\ UNCHANGED <<db, owed>>
           /\ steps' = [steps EXCEPT ![Top(run[r]).step] = "failed"]
<1> DEFINE q == run[r]
           row == [q.row EXCEPT !.status = "failed"]
           p == [q EXCEPT !.pc = "fail", !.row = row]
<1>1. q \in Request /\ q.row \in Row /\ run \in [Requests -> Request]
  BY DEF IInv, Request, TypeOK
<1>2. row \in Row /\ row.status = "failed" /\ row.answer = q.row.answer
  BY <1>1 DEF Row, Statuses
<1>3. run' = [run EXCEPT ![r] = p]
  BY <1>1 DEF FailStep, Request
<1> HIDE DEF row
<1>4. /\ p \in Request /\ p.pc = "fail" /\ p.op = q.op /\ p.exec = q.exec
      /\ p.version = q.version /\ p.queue = q.queue /\ p.snapshot = q.snapshot
      /\ p.row = row /\ p.stack = q.stack /\ p.verdicts = q.verdicts
  BY <1>1, <1>2 DEF Request, PCs
<1> HIDE DEF p
<1>5. run'[r] = p /\ Only(r)
  BY <1>3, BecomesIs
<1>6. QED
  BY <1>2, <1>4, <1>5 DEF Kept, FailStep

LEMMA FailExecutionIs ==
    ASSUME IInv, NEW r \in Requests, FailExecution(r)
    PROVE  /\ Kept(run[r], run'[r]) /\ Only(r)
           /\ run[r].pc = "fail" /\ run'[r].pc = "return" /\ run'[r].row = run[r].row
           /\ run'[r].stack = Pop(run[r].stack) /\ run'[r].verdicts = run[r].verdicts + 1
           /\ Save(r) /\ UNCHANGED <<steps, owed>>
<1> DEFINE q == run[r]
           n == q.verdicts + 1
           p == [q EXCEPT !.verdicts = n]
           p2 == Return(p)
<1>1. q \in Request
  BY DEF IInv, TypeOK
<1>2. n \in Nat
  BY <1>1 DEF Request
<1>3. run' = [run EXCEPT ![r] = p2]
  BY DEF FailExecution
<1> HIDE DEF n
<1>4. Kept(q, p) /\ p.row = q.row /\ p.stack = q.stack /\ p.verdicts = n
  BY <1>1, <1>2 DEF Request, Kept
<1> HIDE DEF p
<1>5. /\ Kept(p, p2) /\ p2.pc = "return" /\ p2.row = p.row /\ p2.verdicts = p.verdicts
      /\ p2.stack = Pop(p.stack)
  BY <1>4, ReturnIs DEF Kept
<1> HIDE DEF p2
<1>6. run'[r] = p2 /\ Only(r)
  BY <1>3, BecomesIs
<1>7. QED
  BY <1>4, <1>5, <1>6 DEF Kept, FailExecution, n

\* The last activation returned, or one inside a loop goes on, or one returns too
LEMMA ReturnToCallerIs ==
    ASSUME IInv, NEW r \in Requests, ReturnToCaller(r)
    PROVE  /\ Kept(run[r], run'[r]) /\ Only(r)
           /\ run[r].pc = "return" /\ run'[r].row = run[r].row
           /\ run'[r].verdicts = run[r].verdicts /\ UNCHANGED <<db, steps, owed>>
           /\ \/ /\ run[r].stack = <<>> /\ run'[r].stack = <<>>
                 /\ run'[r].pc = IF run[r].op = "event" THEN "events" ELSE "done"
              \/ /\ run'[r].pc = "complete" /\ TopOnly(run[r].stack, run'[r].stack)
                 /\ run'[r].stack[Len(run[r].stack)].step = Top(run[r]).step
              \/ /\ run'[r].pc = "return" /\ run[r].stack # <<>> /\ ~Top(run[r]).inner
                 /\ run'[r].stack = Pop(run[r].stack)
<1> DEFINE q == run[r]
           top == [Top(q) EXCEPT !.inner = FALSE]
           s == [q.stack EXCEPT ![Len(q.stack)] = top]
           p == [q EXCEPT !.pc = "complete", !.stack = s]
<1>1. q \in Request /\ q.stack \in Seq(Frame) /\ q.pc = "return" /\ UNCHANGED <<db, steps, owed>>
  BY DEF IInv, Good, Request, ReturnToCaller
<1>2. CASE q.stack = <<>>
  <2> DEFINE c == IF q.op = "event" THEN "events" ELSE "done"
  <2>1. run' = [run EXCEPT ![r] = [q EXCEPT !.pc = c]] /\ c \in PCs
    BY <1>2 DEF ReturnToCaller, PCs
  <2>2. Goto(r, c)
    BY <2>1 DEF Goto
  <2>3. QED
    BY <1>1, <1>2, <2>1, <2>2, GotoIs
<1>3. CASE q.stack # <<>> /\ Top(q).inner
  <2>1. Top(q) \in Frame
    BY <1>1, <1>3, TopIsFrame
  <2>2. top \in Frame /\ top.step = Top(q).step
    BY <2>1 DEF Frame
  <2>3. run' = [run EXCEPT ![r] = p]
    <3>1. s = [q.stack EXCEPT ![Len(q.stack)].inner = FALSE]
      BY DEF Top
    <3>2. p = [q EXCEPT !.pc = "complete", !.stack[Len(q.stack)].inner = FALSE]
      BY <1>1, <3>1 DEF Request
    <3>3. QED
      BY <1>3, <3>2 DEF ReturnToCaller
  <2> HIDE DEF top
  <2>4. TopOnly(q.stack, s) /\ s[Len(q.stack)] = top
    <3>1. Len(q.stack) \in 1..Len(q.stack)
      BY <1>1, <1>3
    <3>2. s \in Seq(Frame) /\ Len(s) = Len(q.stack) /\ s[Len(q.stack)] = top
      BY <1>1, <2>2, <3>1
    <3>3. \A k \in 1..(Len(q.stack) - 1) : s[k] = q.stack[k]
      BY <1>1
    <3>4. QED
      BY <1>1, <1>3, <3>2, <3>3 DEF TopOnly
  <2> HIDE DEF s
  <2>5. /\ p \in Request /\ p.pc = "complete" /\ p.op = q.op /\ p.exec = q.exec
        /\ p.version = q.version /\ p.queue = q.queue /\ p.snapshot = q.snapshot
        /\ p.row = q.row /\ p.stack = s /\ p.verdicts = q.verdicts
    BY <1>1, <2>4 DEF Request, PCs, TopOnly
  <2> HIDE DEF p
  <2>6. run'[r] = p /\ Only(r)
    BY <2>3, BecomesIs
  <2>7. QED
    BY <1>1, <2>2, <2>4, <2>5, <2>6 DEF Kept
<1>4. CASE q.stack # <<>> /\ ~Top(q).inner
  <2> DEFINE p2 == Return(q)
  <2>1. run' = [run EXCEPT ![r] = p2]
    BY <1>4 DEF ReturnToCaller
  <2>2. /\ Kept(q, p2) /\ p2.pc = "return" /\ p2.row = q.row /\ p2.verdicts = q.verdicts
        /\ p2.stack = Pop(q.stack)
    BY <1>1, ReturnIs
  <2> HIDE DEF p2
  <2>3. run'[r] = p2 /\ Only(r)
    BY <2>1, BecomesIs
  <2>4. QED
    BY <1>1, <1>4, <2>2, <2>3
<1>5. QED
  BY <1>2, <1>3, <1>4

-----------------------------------------------------------------------------
(* What beginning a request does, and taking the next execution of an event *)

\* A new request: what it was asked, with an empty queue and no verdict
Fresh(r, o) ==
    /\ run[r].pc = "idle" /\ Only(r)
    /\ run'[r] \in Request /\ run'[r].op = o /\ run'[r].verdicts = 0
    /\ UNCHANGED <<steps, owed>>

LEMMA ExecuteIs ==
    ASSUME IInv, NEW r \in Requests, NEW e \in Executions, ExecuteWorkflow(r, e)
    PROVE  /\ Fresh(r, "execute") /\ db[e].status = "absent"
           /\ db' = [db EXCEPT ![e] = [NoRow EXCEPT !.status = "running"]]
           /\ run'[r].exec = e /\ run'[r].queue = {}
           /\ run'[r].row.status = "running" /\ run'[r].row.answer = {}
           /\ \/ /\ run'[r].pc = "enter"
                 /\ \E f \in Frame : f.step = 0 /\ run'[r].stack = Append(<<>>, f)
              \/ run'[r].pc = "rejected" /\ run'[r].stack = <<>>
<1> DEFINE new == [NoRow EXCEPT !.status = "running"]
           q   == [IdleRequest EXCEPT !.op = "execute", !.exec = e,
                                      !.row = new, !.version = version]
<1>1. new \in Row /\ new.status = "running" /\ new.answer = {}
  BY DEF NoRow, Row, Statuses
<1>2. version \in 1..Versions
  BY DEF IInv, TypeOK
<1>3. /\ IdleRequest.queue = {} /\ IdleRequest.stack = <<>> /\ IdleRequest.verdicts = 0
  BY DEF IdleRequest
<1> DEFINE goes == \E n \in Nodes : run' = [run EXCEPT ![r] = Enter(q, n)]
           stops == run' = [run EXCEPT ![r] = [q EXCEPT !.pc = "rejected"]]
<1>4. /\ run[r].pc = "idle" /\ db[e].status = "absent" /\ UNCHANGED <<steps, owed>>
      /\ db' = [db EXCEPT ![e] = [NoRow EXCEPT !.status = "running"]]
      /\ goes \/ stops
  BY DEF ExecuteWorkflow, MayBegin
<1> HIDE DEF new
<1>5. /\ q \in Request /\ q.op = "execute" /\ q.exec = e /\ q.row = new /\ q.queue = {}
      /\ q.stack = <<>> /\ q.verdicts = 0
  BY <1>1, <1>2, <1>3, IdleType DEF Request, Operations
<1> HIDE DEF q
<1>6. CASE goes
  <2>1. PICK n \in Nodes : run' = [run EXCEPT ![r] = Enter(q, n)]
    BY <1>6
  <2> DEFINE p == Enter(q, n)
  <2>2. /\ Kept(q, p) /\ p.pc = "enter" /\ p.row.status = "running" /\ p.verdicts = 0
        /\ \E f \in Frame : f.step = 0 /\ p.stack = Append(<<>>, f)
    BY <1>1, <1>5, EnterIs
  <2>3. run' = [run EXCEPT ![r] = p]
    BY <2>1
  <2> HIDE DEF p
  <2>4. run'[r] = p /\ Only(r)
    BY <2>3, BecomesIs
  <2>5. QED
    BY <1>1, <1>4, <1>5, <2>2, <2>4 DEF Kept, Fresh
<1>7. CASE stops
  <2> DEFINE p == [q EXCEPT !.pc = "rejected"]
  <2>1. /\ p \in Request /\ p.pc = "rejected" /\ p.op = q.op /\ p.exec = q.exec
        /\ p.row = q.row /\ p.queue = q.queue /\ p.stack = q.stack /\ p.verdicts = q.verdicts
    BY <1>5 DEF Request, PCs
  <2>2. run' = [run EXCEPT ![r] = p]
    BY <1>7
  <2> HIDE DEF p
  <2>3. run'[r] = p /\ Only(r)
    BY <2>2, BecomesIs
  <2>4. QED
    BY <1>1, <1>4, <1>5, <2>1, <2>3 DEF Fresh
<1>8. QED
  BY <1>4, <1>6, <1>7

LEMMA LoadToResumeIs ==
    ASSUME IInv, NEW r \in Requests, NEW e \in Executions,
           NEW o \in {"continue", "approve"}, LoadToResume(r, e, o)
    PROVE  /\ Fresh(r, o) /\ UNCHANGED db
           /\ run'[r].exec = e /\ run'[r].queue = {} /\ run'[r].stack = <<>>
           /\ \/ /\ run'[r].pc = "resume" /\ db[e].status \in WaitingStatuses
                 /\ run'[r].row.status = "running"
                 /\ run'[r].row.answer = {r}
              \/ run'[r].pc = "rejected"
<1> DEFINE q == [IdleRequest EXCEPT !.op = o, !.exec = e, !.version = version]
           row == [db[e] EXCEPT !.status = "running", !.answer = {r}]
           p == IF db[e].status = Resuming(o)
                THEN [q EXCEPT !.pc = "resume", !.row = row]
                ELSE [q EXCEPT !.pc = "rejected"]
<1>1. version \in 1..Versions /\ db[e] \in Row
  BY DEF IInv, TypeOK
<1>2. row \in Row /\ row.status = "running" /\ row.answer = {r}
  BY <1>1 DEF Row, Statuses
<1>3. IdleRequest.queue = {} /\ IdleRequest.stack = <<>> /\ IdleRequest.verdicts = 0
  BY DEF IdleRequest
<1>4. run[r].pc = "idle" /\ run' = [run EXCEPT ![r] = p] /\ UNCHANGED <<db, steps, owed>>
  BY DEF LoadToResume, MayBegin
<1> HIDE DEF row
<1>5. /\ q \in Request /\ q.op = o /\ q.exec = e /\ q.queue = {} /\ q.stack = <<>>
      /\ q.verdicts = 0
  BY <1>1, <1>3, IdleType DEF Request, Operations
<1> HIDE DEF q
<1>6. /\ p \in Request /\ p.op = q.op /\ p.exec = q.exec /\ p.queue = q.queue
      /\ p.stack = q.stack /\ p.verdicts = q.verdicts
      /\ \/ p.pc = "resume" /\ p.row = row /\ db[e].status = Resuming(o)
         \/ p.pc = "rejected"
  <2>1. CASE db[e].status = Resuming(o)
    <3>1. p = [q EXCEPT !.pc = "resume", !.row = row]
      BY <2>1
    <3> HIDE DEF p
    <3>2. QED
      BY <1>2, <1>5, <2>1, <3>1 DEF Request, PCs
  <2>2. CASE db[e].status # Resuming(o)
    <3>1. p = [q EXCEPT !.pc = "rejected"]
      BY <2>2
    <3> HIDE DEF p
    <3>2. QED
      BY <1>5, <3>1 DEF Request, PCs
  <2>3. QED
    BY <2>1, <2>2
<1> HIDE DEF p
<1>7. run'[r] = p /\ Only(r)
  BY <1>4, BecomesIs
<1>8. QED
  BY <1>2, <1>4, <1>5, <1>6, <1>7 DEF Fresh, Resuming, WaitingStatuses

LEMMA LoadWaitingIs ==
    ASSUME IInv, NEW r \in Requests, LoadWaiting(r)
    PROVE  /\ Fresh(r, "event") /\ UNCHANGED db
           /\ run'[r].pc = "events" /\ run'[r].stack = <<>> /\ run'[r].snapshot = db
           /\ run'[r].queue = {e \in Executions : db[e].status = "waiting_event"}
<1> DEFINE Q == {e \in Executions : db[e].status = "waiting_event"}
           p == [IdleRequest EXCEPT !.op = "event", !.pc = "events", !.version = version,
                                    !.queue = Q, !.snapshot = db]
<1>1. version \in 1..Versions /\ db \in [Executions -> Row] /\ Q \in SUBSET Executions
  BY DEF IInv, TypeOK
<1>2. IdleRequest.stack = <<>> /\ IdleRequest.verdicts = 0
  BY DEF IdleRequest
<1>3. run[r].pc = "idle" /\ run' = [run EXCEPT ![r] = p] /\ UNCHANGED <<db, steps, owed>>
  BY DEF LoadWaiting, MayBegin
<1> HIDE DEF Q
<1>4. /\ p \in Request /\ p.op = "event" /\ p.pc = "events" /\ p.queue = Q
      /\ p.snapshot = db /\ p.stack = <<>> /\ p.verdicts = 0
  BY <1>1, <1>2, IdleType DEF Request, Operations, PCs
<1> HIDE DEF p
<1>5. run'[r] = p /\ Only(r)
  BY <1>3, BecomesIs
<1>6. QED
  BY <1>3, <1>4, <1>5 DEF Fresh, Q

LEMMA LoadToCancelIs ==
    ASSUME IInv, NEW r \in Requests, NEW e \in Executions, LoadToCancel(r, e)
    PROVE  /\ Fresh(r, "cancel") /\ UNCHANGED db /\ db[e].status # "absent"
           /\ run'[r].exec = e /\ run'[r].queue = {} /\ run'[r].stack = <<>>
           /\ run'[r].pc = "cancel" /\ run'[r].row.status = "cancelled"
           /\ run'[r].row.answer = db[e].answer
<1> DEFINE row == [db[e] EXCEPT !.status = "cancelled"]
           p == [IdleRequest EXCEPT !.op = "cancel", !.exec = e, !.pc = "cancel",
                                    !.version = version, !.row = row]
<1>1. version \in 1..Versions /\ db[e] \in Row
  BY DEF IInv, TypeOK
<1>2. row \in Row /\ row.status = "cancelled" /\ row.answer = db[e].answer
  BY <1>1 DEF Row, Statuses
<1>3. IdleRequest.queue = {} /\ IdleRequest.stack = <<>> /\ IdleRequest.verdicts = 0
  BY DEF IdleRequest
<1>4. /\ run[r].pc = "idle" /\ run' = [run EXCEPT ![r] = p] /\ db[e].status # "absent"
      /\ UNCHANGED <<db, steps, owed>>
  BY DEF LoadToCancel, MayBegin
<1> HIDE DEF row
<1>5. /\ p \in Request /\ p.op = "cancel" /\ p.exec = e /\ p.pc = "cancel" /\ p.row = row
      /\ p.queue = {} /\ p.stack = <<>> /\ p.verdicts = 0
  BY <1>1, <1>2, <1>3, IdleType DEF Request, Operations, PCs
<1> HIDE DEF p
<1>6. run'[r] = p /\ Only(r)
  BY <1>4, BecomesIs
<1>7. QED
  BY <1>2, <1>4, <1>5, <1>6 DEF Fresh

\* The queue is done, an execution is skipped, or it is resumed
LEMMA NextWaitingIs ==
    ASSUME IInv, NEW r \in Requests, NextWaiting(r)
    PROVE  /\ run[r].pc = "events" /\ Only(r) /\ UNCHANGED <<db, steps, owed>>
           /\ run'[r] \in Request /\ run'[r].op = run[r].op
           /\ run'[r].snapshot = run[r].snapshot /\ run'[r].stack = run[r].stack
           /\ \/ /\ run'[r].pc \in {"done", "events"} /\ run'[r].queue \subseteq run[r].queue
                 /\ run'[r].exec = run[r].exec /\ run'[r].row = run[r].row
                 /\ run'[r].verdicts = run[r].verdicts
              \/ \E e \in run[r].queue :
                    /\ run'[r].pc = "resume" /\ run'[r].exec = e /\ run'[r].verdicts = 0
                    /\ run'[r].queue = run[r].queue \ {e}
                    /\ run'[r].row.status = "running"
                    /\ run'[r].row.answer = {r}
<1> DEFINE q == run[r]
<1>1. q \in Request /\ q.pc = "events" /\ UNCHANGED <<db, steps, owed>>
  BY DEF IInv, TypeOK, NextWaiting
<1>2. q.queue \in SUBSET Executions /\ q.snapshot \in [Executions -> Row]
  BY <1>1 DEF Request
<1>3. CASE Goto(r, "done")
  BY <1>1, <1>3, GotoIs DEF PCs, Kept
<1>4. ASSUME NEW e \in q.queue, run' = [run EXCEPT ![r].queue = @ \ {e}]
      PROVE  /\ Only(r) /\ run'[r] \in Request /\ run'[r].op = q.op
             /\ run'[r].snapshot = q.snapshot /\ run'[r].stack = q.stack
             /\ run'[r].pc = q.pc /\ run'[r].queue \subseteq q.queue
             /\ run'[r].exec = q.exec /\ run'[r].row = q.row /\ run'[r].verdicts = q.verdicts
  <2> DEFINE Q == q.queue \ {e}
             p == [q EXCEPT !.queue = Q]
  <2>1. Q \in SUBSET Executions /\ Q \subseteq q.queue
    BY <1>2
  <2>2. run' = [run EXCEPT ![r] = p]
    BY <1>4
  <2> HIDE DEF Q
  <2>3. /\ p \in Request /\ p.op = q.op /\ p.snapshot = q.snapshot /\ p.stack = q.stack
        /\ p.pc = q.pc /\ p.queue = Q /\ p.exec = q.exec /\ p.row = q.row
        /\ p.verdicts = q.verdicts
    BY <1>1, <2>1 DEF Request
  <2> HIDE DEF p
  <2>4. run'[r] = p /\ Only(r)
    BY <2>2, BecomesIs
  <2>5. QED
    BY <2>1, <2>3, <2>4
<1>5. ASSUME NEW e \in q.queue,
             run' = [run EXCEPT ![r] = [q EXCEPT
                 !.queue = @ \ {e}, !.exec = e, !.pc = "resume", !.verdicts = 0,
                 !.row = [q.snapshot[e] EXCEPT !.status = "running", !.answer = {r}]]]
      PROVE  /\ Only(r) /\ run'[r] \in Request /\ run'[r].op = q.op
             /\ run'[r].snapshot = q.snapshot /\ run'[r].stack = q.stack
             /\ run'[r].pc = "resume" /\ run'[r].exec = e /\ run'[r].verdicts = 0
             /\ run'[r].queue = q.queue \ {e} /\ run'[r].row.status = "running"
             /\ run'[r].row.answer = {r}
  <2> DEFINE Q == q.queue \ {e}
             row == [q.snapshot[e] EXCEPT !.status = "running", !.answer = {r}]
             p == [q EXCEPT !.queue = Q, !.exec = e, !.pc = "resume", !.verdicts = 0,
                            !.row = row]
  <2>1. Q \in SUBSET Executions /\ e \in Executions /\ q.snapshot[e] \in Row
    BY <1>2
  <2>2. row \in Row /\ row.status = "running" /\ row.answer = {r}
    BY <2>1 DEF Row, Statuses
  <2>3. run' = [run EXCEPT ![r] = p]
    BY <1>5
  <2> HIDE DEF Q, row
  <2>4. /\ p \in Request /\ p.op = q.op /\ p.snapshot = q.snapshot /\ p.stack = q.stack
        /\ p.pc = "resume" /\ p.queue = Q /\ p.exec = e /\ p.row = row /\ p.verdicts = 0
    BY <1>1, <2>1, <2>2 DEF Request, PCs
  <2> HIDE DEF p
  <2>5. run'[r] = p /\ Only(r)
    BY <2>3, BecomesIs
  <2>6. QED
    BY <2>2, <2>4, <2>5 DEF Q
<1>6. CASE \E e \in q.queue : run' = [run EXCEPT ![r].queue = @ \ {e}]
  BY <1>1, <1>4, <1>6
<1>7. CASE \E e \in q.queue : run' = [run EXCEPT ![r] = [q EXCEPT
                 !.queue = @ \ {e}, !.exec = e, !.pc = "resume", !.verdicts = 0,
                 !.row = [q.snapshot[e] EXCEPT !.status = "running", !.answer = {r}]]]
  BY <1>1, <1>5, <1>7
<1>8. QED
  BY <1>3, <1>6, <1>7 DEF NextWaiting

\* The save of a resumed execution: it goes on from its node, or the node is gone
LEMMA ResumeIs ==
    ASSUME IInv, NEW r \in Requests, Resume(r)
    PROVE  /\ Kept(run[r], run'[r]) /\ Only(r) /\ run[r].pc = "resume"
           /\ run[r].row.status = "running" /\ run'[r].verdicts = run[r].verdicts
           /\ Save(r) /\ steps' = steps /\ owed' = [owed EXCEPT ![run[r].exec] = @ - 1]
           /\ \/ run'[r].pc = "done" /\ run'[r].stack = run[r].stack
                 /\ run'[r].row = run[r].row
              \/ run'[r].pc = "finish" /\ run'[r].stack = run[r].stack
                 /\ run'[r].row.status = "completed"
              \/ /\ run'[r].pc = "enter" /\ run'[r].row.status = "running"
                 /\ \E f \in Frame : f.step = 0 /\ run'[r].stack = Append(run[r].stack, f)
              \/ run'[r].pc = "catch" /\ run'[r].stack = run[r].stack /\ run[r].stack # <<>>
                 /\ run'[r].row.status = "running"
              \/ run'[r].pc = "fail" /\ run'[r].stack = run[r].stack
                 /\ run[r].op = "execute" /\ run[r].stack = <<>>
                 /\ run'[r].row.status = "failed"
              \/ run'[r].pc = "rejected" /\ run'[r].stack = run[r].stack /\ run[r].stack = <<>>
                 /\ run'[r].row.status = "running"
<1>1. /\ run[r] \in Request /\ run[r].pc = "resume" /\ run[r].row.status = "running"
      /\ Save(r) /\ steps' = steps /\ owed' = [owed EXCEPT ![run[r].exec] = @ - 1]
  BY DEF IInv, Good, PointInv, Resume
<1>2. CASE Goto(r, "done")
  BY <1>1, <1>2, GotoIs DEF PCs
<1>3. CASE \E next \in Continue(run[r], run[r].row.current) : run' = [run EXCEPT ![r] = next]
  <2>1. PICK p \in Continue(run[r], run[r].row.current) : run' = [run EXCEPT ![r] = p]
    BY <1>3
  <2>2. run'[r] = p /\ Only(r)
    BY <2>1, BecomesIs
  <2>3. QED
    BY <1>1, <2>2, ContinueIs
<1>4. QED
  BY <1>2, <1>3 DEF Resume

\* Only a RUNNING copy goes on after a node; any other one returns
LEMMA MergeResultIs ==
    ASSUME IInv, NEW r \in Requests, MergeResult(r)
    PROVE  /\ Kept(run[r], run'[r]) /\ Only(r) /\ run[r].pc = "merge" /\ run[r].stack # <<>>
           /\ run'[r].verdicts = run[r].verdicts /\ Save(r) /\ UNCHANGED <<steps, owed>>
           /\ \/ /\ run[r].row.status # "running" /\ run'[r].pc = "return"
                 /\ run'[r].row = run[r].row /\ run'[r].stack = Pop(run[r].stack)
              \/ /\ run[r].row.status = "running"
                 /\ run'[r].pc = "finish" /\ run'[r].stack = run[r].stack
                 /\ run'[r].row.status = "completed"
              \/ /\ run[r].row.status = "running"
                 /\ run'[r].pc = "enter" /\ run'[r].row.status = "running"
                 /\ \E f \in Frame : f.step = 0 /\ run'[r].stack = Append(run[r].stack, f)
              \/ /\ run[r].row.status = "running"
                 /\ run'[r].pc = "catch" /\ run'[r].stack = run[r].stack
                 /\ run'[r].row.status = "running"
<1>1. /\ run[r] \in Request /\ run[r].pc = "merge" /\ run[r].stack # <<>>
      /\ Save(r) /\ UNCHANGED <<steps, owed>>
  BY DEF IInv, Good, PointInv, InActivation, MergeResult
<1>2. CASE run[r].row.status = "running"
  <2>1. PICK p \in Continue(run[r], Top(run[r]).node) : run' = [run EXCEPT ![r] = p]
    BY <1>2 DEF MergeResult
  <2>2. run'[r] = p /\ Only(r)
    BY <2>1, BecomesIs
  <2>3. QED
    BY <1>1, <1>2, <2>2, ContinueIs
<1>3. CASE run[r].row.status # "running"
  <2>1. run' = [run EXCEPT ![r] = Return(run[r])]
    BY <1>3 DEF MergeResult
  <2>2. run'[r] = Return(run[r]) /\ Only(r)
    BY <2>1, BecomesIs
  <2>3. QED
    BY <1>1, <1>3, <2>2, ReturnIs
<1>4. QED
  BY <1>2, <1>3

LEMMA FinishIs ==
    ASSUME IInv, NEW r \in Requests, FinishWithoutEdge(r)
    PROVE  /\ Kept(run[r], run'[r]) /\ Only(r) /\ run[r].pc = "finish"
           /\ run[r].row.status = "completed" /\ run'[r].pc = "return"
           /\ run'[r].row = run[r].row /\ run'[r].verdicts = run[r].verdicts
           /\ run'[r].stack = Pop(run[r].stack) /\ Save(r) /\ UNCHANGED <<steps, owed>>
<1>1. /\ run[r] \in Request /\ run[r].pc = "finish" /\ run[r].row.status = "completed"
      /\ Save(r) /\ UNCHANGED <<steps, owed>>
  BY DEF IInv, Good, PointInv, FinishWithoutEdge
<1>2. run'[r] = Return(run[r]) /\ Only(r)
  BY BecomesIs DEF FinishWithoutEdge
<1>3. QED
  BY <1>1, <1>2, ReturnIs

\* Steps that change nothing but the control point
LEMMA MoveIs ==
    ASSUME IInv, NEW r \in Requests,
           \/ CancelExecution(r) \/ SaveCurrentNode(r) \/ RunTask(r) \/ CheckLoop(r)
           \/ CompleteStep(r)
    PROVE  /\ Kept(run[r], run'[r]) /\ Only(r) /\ run'[r].row = run[r].row
           /\ run'[r].stack = run[r].stack /\ run'[r].verdicts = run[r].verdicts
           /\ owed' = owed
           /\ \/ run[r].pc = "cancel" /\ run'[r].pc = "done" /\ Save(r) /\ steps' = steps
              \/ run[r].pc = "enter" /\ run'[r].pc = "create" /\ Save(r) /\ steps' = steps
              \/ /\ run[r].pc = "body" /\ run'[r].pc \in {"complete", "catch"}
                 /\ UNCHANGED <<db, steps>>
              \/ /\ run[r].pc = "complete" /\ run'[r].pc = "merge" /\ db' = db
                 /\ steps' = [steps EXCEPT ![Top(run[r]).step] = "completed"]
<1>1. CASE CancelExecution(r)
  BY <1>1, GotoIs DEF CancelExecution, PCs
<1>2. CASE SaveCurrentNode(r)
  BY <1>2, GotoIs DEF SaveCurrentNode, PCs
<1>3. CASE RunTask(r) \/ CheckLoop(r)
  <2>1. PICK c \in {"complete", "catch"} : Goto(r, c)
    BY <1>3 DEF RunTask, CheckLoop
  <2>2. QED
    BY <1>3, <2>1, GotoIs DEF RunTask, CheckLoop, PCs
<1>4. CASE CompleteStep(r)
  BY <1>4, GotoIs DEF CompleteStep, PCs
<1>5. QED
  BY <1>1, <1>2, <1>3, <1>4

-----------------------------------------------------------------------------
(* A request announces one verdict *)

\* A request that has told how its execution ended no longer holds a RUNNING
\* copy, so it neither goes on to another node nor has an exception to report;
\* an end node's verdict is announced after its save
Told(q) ==
    /\ q.verdicts \in {0, 1}
    /\ q.verdicts = 1 => q.row.status # "running" /\ q.pc \notin {"catch", "fail", "bodysave"}
    /\ q.pc = "bodysave" /\ TopType(q) = "end" => q.row.status # "running"

VInv == IInv /\ (faults = 0 => \A r \in Requests : Told(run[r]))

LEMMA StepIsQuiet ==
    ASSUME NEW r \in Requests, Begin(r) \/ Advance(r)
    PROVE  UNCHANGED <<version, faults, crashes>>
<1>1. CASE Begin(r)
  BY <1>1 DEF Begin, ExecuteWorkflow, LoadToResume, LoadWaiting, LoadToCancel
<1>2. CASE Advance(r)
  BY <1>2 DEF Advance, NextWaiting, Resume, CancelExecution, SaveCurrentNode,
     CreateStep, RunTask, SetStatus, StartLoop, CheckLoop, EndLoop, SaveInBody,
     CompleteStep, MergeResult, FinishWithoutEdge, FailStep, FailExecution, ReturnToCaller
<1>3. QED
  BY <1>1, <1>2

LEMMA SameTopType ==
    ASSUME NEW q, NEW p, Kept(q, p), p.stack = q.stack
    PROVE  TopType(p) = TopType(q)
BY DEF Kept, TopType, Top

LEMMA BeginTold ==
    ASSUME IInv, NEW r \in Requests, Begin(r)
    PROVE  Told(run'[r]) /\ Only(r)
<1>1. CASE \E e \in Executions : ExecuteWorkflow(r, e)
  BY <1>1, ExecuteIs DEF Fresh, Told
<1>2. CASE \E e \in Executions, o \in {"continue", "approve"} : LoadToResume(r, e, o)
  BY <1>2, LoadToResumeIs DEF Fresh, Told
<1>3. CASE LoadWaiting(r)
  BY <1>3, LoadWaitingIs DEF Fresh, Told
<1>4. CASE \E e \in Executions : LoadToCancel(r, e)
  BY <1>4, LoadToCancelIs DEF Fresh, Told
<1>5. QED
  BY <1>1, <1>2, <1>3, <1>4 DEF Begin

LEMMA AdvanceTold ==
    ASSUME IInv, NEW r \in Requests, Told(run[r]), Advance(r)
    PROVE  Told(run'[r]) /\ Only(r)
<1>1. /\ run[r].pc \in {"enter", "create", "body", "resume"} => run[r].row.status = "running"
      /\ run[r].pc = "fail" => run[r].row.status = "failed"
  BY DEF IInv, Good, PointInv
<1>2. CASE NextWaiting(r)
  BY <1>2, NextWaitingIs DEF Told
<1>3. CASE Resume(r)
  BY <1>3, ResumeIs DEF Told
<1>4. CASE CancelExecution(r) \/ SaveCurrentNode(r) \/ RunTask(r) \/ CheckLoop(r) \/ CompleteStep(r)
  BY <1>1, <1>4, MoveIs DEF Told
<1>5. CASE CreateStep(r)
  BY <1>5, CreateStepIs DEF Told
<1>6. CASE SetStatus(r) \/ StartLoop(r)
  <2>1. /\ run[r].pc = "body" /\ run'[r].verdicts = run[r].verdicts
        /\ TopType(run'[r]) = TopType(run[r]) /\ Only(r)
    BY <1>6, SavePrepared, SameTopType
  <2>2. run[r].verdicts = 0
    BY <1>1, <2>1 DEF Told
  <2>3. TopType(run[r]) = "end" => run'[r].row.status = "completed"
    BY <1>6, SavePrepared DEF StatusSetBy
  <2>4. QED
    BY <2>1, <2>2, <2>3 DEF Told
<1>7. CASE EndLoop(r)
  <2>1. run[r].verdicts = 0 /\ run'[r].verdicts = 0 /\ Only(r)
    BY <1>1, <1>7, EndLoopIs DEF Told
  <2>2. run'[r].pc = "bodysave" => TopType(run'[r]) = "loop_end"
    BY <1>7, EndLoopIs, SameTopType
  <2>3. QED
    BY <2>1, <2>2 DEF Told
<1>8. CASE SaveInBody(r)
  <2>1. /\ run[r].pc = "bodysave" /\ run'[r].pc = "complete" /\ run'[r].row = run[r].row
        /\ Only(r)
        /\ run'[r].verdicts = IF TopType(run[r]) = "end" THEN run[r].verdicts + 1
                              ELSE run[r].verdicts
    BY <1>8, SaveInBodyIs
  <2>2. run[r].verdicts = 0
    BY <2>1 DEF Told
  <2>3. QED
    BY <2>1, <2>2 DEF Told
<1>9. CASE MergeResult(r)
  BY <1>9, MergeResultIs DEF Told
<1>10. CASE FinishWithoutEdge(r)
  BY <1>10, FinishIs DEF Told
<1>11. CASE FailStep(r)
  BY <1>11, FailStepIs DEF Told
<1>12. CASE FailExecution(r)
  <2>1. /\ run[r].pc = "fail" /\ run'[r].pc = "return" /\ run'[r].row = run[r].row
        /\ run'[r].verdicts = run[r].verdicts + 1 /\ Only(r)
    BY <1>12, FailExecutionIs
  <2>2. run[r].verdicts = 0
    BY <2>1 DEF Told
  <2>3. QED
    BY <1>1, <2>1, <2>2 DEF Told
<1>13. CASE ReturnToCaller(r)
  BY <1>13, ReturnToCallerIs DEF Told
<1>14. QED
  BY <1>2, <1>3, <1>4, <1>5, <1>6, <1>7, <1>8, <1>9, <1>10, <1>11, <1>12, <1>13 DEF Advance

LEMMA CrashTold ==
    ASSUME IInv, \A r \in Requests : Told(run[r]), Crash
    PROVE  \A r \in Requests : Told(run'[r])
<1> SUFFICES ASSUME NEW r \in Requests PROVE Told(run'[r])
  OBVIOUS
<1>1. run[r] \in Request /\ Told(run[r])
  BY DEF IInv, TypeOK
<1>2. run'[r] = IF Live(r) THEN [run[r] EXCEPT !.pc = "lost"] ELSE run[r]
  BY DEF Crash
<1>3. run'[r].verdicts = run[r].verdicts /\ run'[r].row = run[r].row
  BY <1>1, <1>2 DEF Request
<1>4. run'[r].pc = "lost" \/ run'[r] = run[r]
  BY <1>1, <1>2 DEF Request
<1>5. QED
  BY <1>1, <1>3, <1>4 DEF Told

LEMMA NextTold == ASSUME VInv, [Next]_vars PROVE VInv'
<1>1. IInv'
  BY NextIInv DEF VInv
<1> SUFFICES ASSUME faults' = 0 PROVE \A r \in Requests : Told(run'[r])
  BY <1>1 DEF VInv
<1>2. faults \in Nat
  BY GraphAssumption DEF VInv, IInv, TypeOK
<1>3. \A r \in Requests : ~WriteFails(r)
  BY <1>2 DEF WriteFails
<1>4. ASSUME NEW r \in Requests, Begin(r) \/ Advance(r)
      PROVE  \A o \in Requests : Told(run'[o])
  <2>1. \A o \in Requests : Told(run[o])
    BY <1>4, StepIsQuiet DEF VInv
  <2>2. Told(run'[r]) /\ Only(r)
    BY <1>4, <2>1, BeginTold, AdvanceTold DEF VInv
  <2>3. QED
    BY <2>1, <2>2 DEF Only
<1>5. CASE Crash
  <2>1. faults' = faults
    BY <1>5 DEF Crash
  <2>2. QED
    BY <1>5, <2>1, CrashTold DEF VInv
<1>6. CASE UpdateWorkflow \/ UNCHANGED vars
  BY <1>6 DEF UpdateWorkflow, vars, VInv
<1>7. QED
  BY <1>3, <1>4, <1>5, <1>6 DEF Next

\* As long as no write fails, and whatever requests overlap, restarts happen and
\* activations nest, a request tells the outside at most once how its execution
\* ended: the catch blocks of executeNode do not report a failure twice
THEOREM VerdictOnce == Spec => []OneVerdict
<1>1. Init => VInv
  <2>1. IdleRequest.verdicts = 0 /\ IdleRequest.pc = "idle"
    BY DEF IdleRequest
  <2>2. QED
    BY <2>1, InitIInv DEF Init, VInv, Told
<1>2. VInv /\ [Next]_vars => VInv'
  BY NextTold
<1>3. VInv => OneVerdict
  BY DEF VInv, Told, OneVerdict
<1>4. QED
  BY <1>1, <1>2, <1>3, PTL DEF Spec

-----------------------------------------------------------------------------
(* A RUNNING step belongs to one activation *)

Unentered == {"enter", "create"}
Passed == {"merge", "finish", "fail"}

\* An activation has its step from CreateStep on; the step is RUNNING until
\* the activation goes on to another node or returns, except while it is
\* suspended inside a loop_end node
Backed(r, k) ==
    LET q == run[r]
        i == q.stack[k].step
    IN /\ IF k = Len(q.stack) /\ q.pc \in Unentered THEN i = 0 ELSE i \in DOMAIN steps
       /\ k < Len(q.stack) \/ q.pc = "return" => q.stack[k].inner \/ steps[i] # "running"
       /\ k = Len(q.stack) /\ q.pc \in Passed => steps[i] # "running"

\* A request has activations only while it is inside executeNode
Framed(r) ==
    /\ run[r].pc \in Ended \cup {"resume", "cancel", "events"} => run[r].stack = <<>>
    /\ \A k \in DOMAIN run[r].stack : Backed(r, k)

\* No two activations share a step
Distinct ==
    \A r, o \in Requests : \A k \in DOMAIN run[r].stack, j \in DOMAIN run[o].stack :
        run[r].stack[k].step = run[o].stack[j].step /\ run[r].stack[k].step # 0
            => r = o /\ k = j

\* No activation leaves a RUNNING step behind
Owned == \A i \in DOMAIN steps : steps[i] = "running" => \E r \in Requests : Holds(r, i)

Calm == faults = 0 /\ crashes = 0

FInv == IInv /\ (Calm => (\A r \in Requests : Framed(r)) /\ Distinct /\ Owned)

\* A step only adds RUNNING steps, or ends some
Grows ==
    /\ DOMAIN steps \subseteq DOMAIN steps'
    /\ \A i \in DOMAIN steps : steps'[i] = "running" => steps[i] = "running"

LEMMA OthersFramed ==
    ASSUME IInv, NEW r \in Requests, Only(r), Grows,
           \A o \in Requests : Framed(o), Framed(r)'
    PROVE  (\A o \in Requests : Framed(o))'
<1> SUFFICES ASSUME NEW o \in Requests, o # r PROVE Framed(o)'
  OBVIOUS
<1>1. run'[o] = run[o] /\ Framed(o) /\ run[o] \in Request
  BY DEF Only, IInv, TypeOK
<1>2. run[o].stack \in Seq(Frame)
  BY <1>1 DEF Request
<1>3. ASSUME NEW k \in DOMAIN run[o].stack PROVE Backed(o, k)'
  <2>1. Backed(o, k)
    BY <1>1, <1>3 DEF Framed
  <2>2. k = Len(run[o].stack) \/ k < Len(run[o].stack)
    BY <1>2, <1>3
  <2>3. Len(run[o].stack) \notin {k} => k < Len(run[o].stack)
    BY <2>2
  <2>4. k < Len(run[o].stack) => k # Len(run[o].stack)
    BY <1>2, <1>3
  <2>5. ~(k = Len(run[o].stack) /\ run[o].pc \in Unentered) => run[o].stack[k].step \in DOMAIN steps
    BY <2>1 DEF Backed
  <2>6. run[o].pc \in Unentered => run[o].pc # "return" /\ run[o].pc \notin Passed
    BY DEF Unentered, Passed
  <2>7. QED
    BY <1>1, <2>1, <2>4, <2>5, <2>6 DEF Backed, Grows
<1>4. QED
  BY <1>1, <1>3 DEF Framed

\* The steps of the activations of r after the step were theirs before
LEMMA DistinctKept ==
    ASSUME Distinct, NEW r \in Requests, Only(r),
           \A k \in DOMAIN run'[r].stack : run'[r].stack[k].step # 0 =>
               k \in DOMAIN run[r].stack /\ run[r].stack[k].step = run'[r].stack[k].step
    PROVE  Distinct'
<1> SUFFICES ASSUME NEW a \in Requests, NEW b \in Requests,
                    NEW k \in DOMAIN run'[a].stack, NEW j \in DOMAIN run'[b].stack,
                    run'[a].stack[k].step = run'[b].stack[j].step,
                    run'[a].stack[k].step # 0
             PROVE  a = b /\ k = j
  BY DEF Distinct
<1>1. k \in DOMAIN run[a].stack /\ run[a].stack[k].step = run'[a].stack[k].step
  BY DEF Only
<1>2. j \in DOMAIN run[b].stack /\ run[b].stack[j].step = run'[b].stack[j].step
  BY DEF Only
<1>3. QED
  BY <1>1, <1>2 DEF Distinct

\* Steps that are RUNNING after it were before, and r keeps the ones it held
LEMMA OwnedKept ==
    ASSUME Owned, NEW r \in Requests, Only(r),
           \A i \in DOMAIN steps' : steps'[i] = "running" =>
               /\ i \in DOMAIN steps /\ steps[i] = "running"
               /\ Holds(r, i) => Holds(r, i)'
    PROVE  Owned'
<1> SUFFICES ASSUME NEW i \in DOMAIN steps', steps'[i] = "running"
             PROVE  \E o \in Requests : Holds(o, i)'
  BY DEF Owned
<1>1. PICK o \in Requests : Holds(o, i)
  BY DEF Owned
<1>2. CASE o = r
  BY <1>1, <1>2
<1>3. CASE o # r
  BY <1>1, <1>3 DEF Only, Holds
<1>4. QED
  BY <1>2, <1>3

\* What a step of r keeps
Keeps(r) == Framed(r)' /\ Distinct' /\ Owned' /\ Grows

\* The stack and the steps stay as they are
LEMMA SameStackKeeps ==
    ASSUME IInv, NEW r \in Requests, Framed(r), Distinct, Owned, Only(r),
           run'[r].stack = run[r].stack, steps' = steps,
           \/ run'[r].stack = <<>>
           \/ /\ run'[r].pc \notin Ended \cup {"resume", "cancel", "events", "return"}
              /\ run[r].pc \in Unentered <=> run'[r].pc \in Unentered
              /\ run'[r].pc \in Passed => run[r].pc \in Passed
    PROVE  Keeps(r)
<1>1. Framed(r)'
  <2>1. CASE run'[r].stack = <<>>
    BY <2>1 DEF Framed
  <2>2. CASE /\ run'[r].pc \notin Ended \cup {"resume", "cancel", "events", "return"}
             /\ run[r].pc \in Unentered <=> run'[r].pc \in Unentered
             /\ run'[r].pc \in Passed => run[r].pc \in Passed
    BY <2>2 DEF Framed, Backed
  <2>3. QED
    BY <2>1, <2>2
<1>2. Distinct'
  BY DistinctKept
<1>3. Owned'
  BY OwnedKept DEF Holds
<1>4. QED
  BY <1>1, <1>2, <1>3 DEF Keeps, Grows

\* The step of the last activation ends
LEMMA EndedStepKeeps ==
    ASSUME IInv, NEW r \in Requests, Framed(r), Distinct, Owned, Only(r),
           run'[r].stack = run[r].stack, run[r].stack # <<>>,
           NEW st \in {"completed", "failed"},
           steps' = [steps EXCEPT ![Top(run[r]).step] = st],
           run[r].pc \notin Unentered,
           run'[r].pc \notin Ended \cup {"resume", "cancel", "events", "return"} \cup Unentered
    PROVE  Keeps(r)
<1> DEFINE i == Top(run[r]).step
           n == Len(run[r].stack)
<1>1. run[r] \in Request /\ run[r].stack \in Seq(Frame) /\ steps \in Seq(StepStatus)
  BY DEF IInv, TypeOK, Request, StepStatus
<1>2. n \in DOMAIN run[r].stack /\ i = run[r].stack[n].step
  BY <1>1 DEF Top
<1>3. i \in DOMAIN steps
  BY <1>2 DEF Framed, Backed
<1>4. DOMAIN steps' = DOMAIN steps
  BY <1>1
<1>5. steps'[i] = st /\ \A j \in DOMAIN steps : j # i => steps'[j] = steps[j]
  BY <1>1, <1>3
<1>6. Grows
  BY <1>4, <1>5 DEF Grows
<1>7. Framed(r)'
  <2>1. ASSUME NEW k \in DOMAIN run[r].stack PROVE Backed(r, k)'
    <3>1. Backed(r, k)
      BY <2>1 DEF Framed
    <3>2. run[r].stack[k].step \in DOMAIN steps
      BY <3>1 DEF Backed
    <3>3. k = n => steps'[run[r].stack[k].step] # "running"
      BY <1>2, <1>5
    <3>4. k < n => run[r].stack[k].inner \/ steps[run[r].stack[k].step] # "running"
      BY <3>1 DEF Backed
    <3>5. k < n => run[r].stack[k].inner \/ steps'[run[r].stack[k].step] # "running"
      BY <1>6, <3>2, <3>4 DEF Grows
    <3> HIDE DEF i
    <3>6. QED
      BY <1>4, <3>2, <3>3, <3>5 DEF Backed
  <2>2. QED
    BY <2>1 DEF Framed
<1>8. Distinct'
  BY DistinctKept
<1>9. Owned'
  <2>1. \A j \in DOMAIN steps' : steps'[j] = "running" =>
            j \in DOMAIN steps /\ steps[j] = "running" /\ (Holds(r, j) => Holds(r, j)')
    BY <1>4, <1>5 DEF Holds
  <2>2. QED
    BY <2>1, OwnedKept
<1>10. QED
  BY <1>6, <1>7, <1>8, <1>9 DEF Keeps

\* A new activation, without a step yet, on a stack that keeps its steps
LEMMA CallKeeps ==
    ASSUME IInv, NEW r \in Requests, Framed(r), Distinct, Owned, Only(r), steps' = steps,
           run[r].pc \notin Unentered, run'[r].pc = "enter",
           NEW s \in Seq(Frame), NEW f \in Frame, f.step = 0,
           run'[r].stack = Append(s, f), Len(s) = Len(run[r].stack),
           \A k \in 1..Len(s) : s[k].step = run[r].stack[k].step,
           \A k \in 1..Len(s) : k < Len(s) => s[k].inner = run[r].stack[k].inner,
           Len(s) # 0 => s[Len(s)].inner \/ steps[s[Len(s)].step] # "running"
    PROVE  Keeps(r)
<1> DEFINE n == Len(s)
           t == run'[r].stack
<1>1. run[r] \in Request /\ run[r].stack \in Seq(Frame)
  BY DEF IInv, TypeOK, Request
<1>2. n \in Nat /\ DOMAIN run[r].stack = 1..n
  BY <1>1
<1>3. Len(t) = n + 1 /\ DOMAIN t = 1..(n + 1) /\ t[n + 1] = f
  OBVIOUS
<1>4. \A k \in 1..n : t[k] = s[k]
  OBVIOUS
<1> HIDE DEF n, t
<1>5. Framed(r)'
  <2>1. ASSUME NEW k \in 1..(n + 1) PROVE Backed(r, k)'
    <3>1. CASE k = n + 1
      <4>1. k = Len(t) /\ t[k].step = 0
        BY <1>3, <3>1
      <4>2. ~(k < Len(t))
        BY <1>2, <1>3, <3>1
      <4>3. QED
        BY <4>1, <4>2 DEF Backed, Unentered, Passed, t
    <3>2. CASE k \in 1..n
      <4>1. k # Len(t) /\ k < Len(t)
        BY <1>2, <1>3, <3>2
      <4>2. Backed(r, k) /\ t[k] = s[k]
        BY <1>2, <1>4, <3>2 DEF Framed
      <4>3. t[k].step = run[r].stack[k].step
        BY <3>2, <4>2 DEF n
      <4>4. t[k].step \in DOMAIN steps
        BY <4>2, <4>3 DEF Backed
      <4>5. t[k].inner \/ steps[t[k].step] # "running"
        <5>1. CASE k = n
          BY <1>2, <3>2, <4>2, <5>1 DEF n
        <5>2. CASE k < n
          <6>1. t[k].inner = run[r].stack[k].inner
            BY <3>2, <4>2, <5>2 DEF n
          <6>2. run[r].stack[k].inner \/ steps[run[r].stack[k].step] # "running"
            BY <4>2, <5>2 DEF Backed, n
          <6>3. QED
            BY <4>3, <6>1, <6>2
        <5>3. QED
          BY <1>2, <3>2, <5>1, <5>2
      <4>6. QED
        BY <4>1, <4>4, <4>5 DEF Backed, t
    <3>3. QED
      BY <1>2, <2>1, <3>1, <3>2
  <2>2. QED
    BY <1>3, <2>1 DEF Framed, Ended, t
<1>6. ASSUME NEW k \in DOMAIN t, t[k].step # 0
      PROVE  k \in DOMAIN run[r].stack /\ run[r].stack[k].step = t[k].step
  <2>1. k \in 1..n
    BY <1>2, <1>3, <1>6
  <2>2. QED
    BY <1>2, <1>4, <2>1 DEF n
<1>7. Distinct'
  BY <1>6, DistinctKept DEF t
<1>8. Owned'
  <2>1. ASSUME NEW i \in DOMAIN steps, Holds(r, i) PROVE Holds(r, i)'
    <3>1. PICK k \in DOMAIN run[r].stack : run[r].stack[k].step = i
      BY <2>1 DEF Holds
    <3>2. k \in 1..n /\ k \in DOMAIN t
      BY <1>2, <1>3, <3>1
    <3>3. t[k].step = i
      BY <1>4, <3>1, <3>2 DEF n
    <3>4. QED
      BY <3>2, <3>3 DEF Holds, t
  <2>2. QED
    BY <2>1, OwnedKept
<1>9. QED
  BY <1>5, <1>7, <1>8 DEF Keeps, Grows

LEMMA PopIs ==
    ASSUME NEW s \in Seq(Frame), s # <<>>
    PROVE  Len(Pop(s)) = Len(s) - 1 /\ \A k \in 1..(Len(s) - 1) : Pop(s)[k] = s[k]
<1> DEFINE n == Len(s) - 1
<1>1. n \in Nat /\ n < Len(s) /\ Pop(s) = SubSeq(s, 1, n)
  BY EmptySeq DEF Pop
<1> HIDE DEF n
<1>2. Len(SubSeq(s, 1, n)) = n /\ \A k \in 1..n : SubSeq(s, 1, n)[k] = s[k]
  BY <1>1
<1>3. QED
  BY <1>1, <1>2 DEF n

LEMMA PopEmpty == Pop(<<>>) = <<>>
BY SubSeqProperties, EmptySeq DEF Pop

\* An activation whose step has ended returns
LEMMA ReturnKeeps ==
    ASSUME IInv, NEW r \in Requests, Framed(r), Distinct, Owned, Only(r), steps' = steps,
           run'[r].pc = "return", run'[r].stack = Pop(run[r].stack),
           run[r].stack # <<>> => steps[Top(run[r]).step] # "running"
    PROVE  Keeps(r)
<1>1. run[r] \in Request /\ run[r].stack \in Seq(Frame)
  BY DEF IInv, TypeOK, Request
<1>2. CASE run[r].stack = <<>>
  <2>1. run'[r].stack = <<>>
    BY <1>2, PopEmpty
  <2>2. QED
    BY <1>2, <2>1, SameStackKeeps
<1>3. CASE run[r].stack # <<>>
  <2> DEFINE n == Len(run[r].stack)
             t == run'[r].stack
  <2>1. n \in Nat /\ n # 0 /\ DOMAIN run[r].stack = 1..n
    BY <1>1, <1>3, EmptySeq
  <2>2. Len(t) = n - 1 /\ DOMAIN t = 1..(n - 1) /\ \A k \in 1..(n - 1) : t[k] = run[r].stack[k]
    <3>1. t \in Seq(Frame) /\ Len(t) = n - 1 /\ \A k \in 1..(n - 1) : t[k] = run[r].stack[k]
      BY <1>1, <1>3, PopIs, PopType
    <3>2. QED
      BY <3>1
  <2>3. Top(run[r]).step = run[r].stack[n].step
    BY DEF Top
  <2> HIDE DEF n, t
  <2>4. Framed(r)'
    <3>1. ASSUME NEW k \in DOMAIN t PROVE Backed(r, k)'
      <4>1. k \in 1..n /\ k < n /\ t[k] = run[r].stack[k]
        BY <2>1, <2>2, <3>1
      <4>2. Backed(r, k) /\ k # n
        BY <2>1, <4>1 DEF Framed
      <4>3. t[k].step \in DOMAIN steps
        BY <4>1, <4>2 DEF Backed, n
      <4>4. t[k].inner \/ steps[t[k].step] # "running"
        BY <4>1, <4>2 DEF Backed, n
      <4>5. QED
        BY <4>3, <4>4 DEF Backed, Unentered, Passed, t
    <3>2. QED
      BY <3>1 DEF Framed, Ended, t
  <2>5. ASSUME NEW k \in DOMAIN t, t[k].step # 0
        PROVE  k \in DOMAIN run[r].stack /\ run[r].stack[k].step = t[k].step
    BY <2>1, <2>2, <2>5
  <2>6. Distinct'
    BY <2>5, DistinctKept DEF t
  <2>7. Owned'
    <3>1. ASSUME NEW i \in DOMAIN steps, steps[i] = "running", Holds(r, i)
          PROVE  Holds(r, i)'
      <4>1. PICK k \in 1..n : run[r].stack[k].step = i
        BY <2>1, <3>1 DEF Holds
      <4>2. k # n
        BY <1>3, <2>3, <3>1, <4>1
      <4>3. k \in DOMAIN t /\ t[k].step = i
        BY <2>1, <2>2, <4>1, <4>2
      <4>4. QED
        BY <4>3 DEF Holds, t
    <3>2. QED
      BY <3>1, OwnedKept
  <2>8. QED
    BY <2>4, <2>6, <2>7 DEF Keeps, Grows
<1>4. QED
  BY <1>2, <1>3

\* An activation suspended inside a loop_end node goes on with its own step
LEMMA InnerKeeps ==
    ASSUME IInv, NEW r \in Requests, Framed(r), Distinct, Owned, Only(r), steps' = steps,
           run[r].pc = "return", run'[r].pc = "complete", TopOnly(run[r].stack, run'[r].stack),
           run'[r].stack[Len(run[r].stack)].step = Top(run[r]).step
    PROVE  Keeps(r)
<1> DEFINE n == Len(run[r].stack)
           t == run'[r].stack
<1>1. /\ n \in Nat /\ DOMAIN run[r].stack = 1..n /\ DOMAIN t = 1..n /\ Len(t) = n
      /\ \A k \in 1..(n - 1) : t[k] = run[r].stack[k]
  BY DEF TopOnly
<1>2. t[n].step = run[r].stack[n].step
  BY DEF Top
<1> HIDE DEF n, t
<1>3. \A k \in 1..n : t[k].step = run[r].stack[k].step /\ (k < n => t[k] = run[r].stack[k])
  BY <1>1, <1>2
<1>4. Framed(r)'
  <2>1. ASSUME NEW k \in 1..n PROVE Backed(r, k)'
    <3>1. Backed(r, k)
      BY <1>1, <2>1 DEF Framed
    <3>2. t[k].step \in DOMAIN steps
      BY <1>3, <3>1 DEF Backed, Unentered
    <3>3. k < n => t[k].inner \/ steps[t[k].step] # "running"
      BY <1>3, <3>1 DEF Backed, n
    <3>4. QED
      BY <1>1, <3>2, <3>3 DEF Backed, Unentered, Passed, t
  <2>2. QED
    BY <1>1, <2>1 DEF Framed, Ended, t
<1>5. Distinct'
  BY <1>1, <1>3, DistinctKept DEF t
<1>6. Owned'
  <2>1. ASSUME NEW i, Holds(r, i) PROVE Holds(r, i)'
    BY <1>1, <1>3, <2>1 DEF Holds, t
  <2>2. QED
    BY <2>1, OwnedKept
<1>7. QED
  BY <1>4, <1>5, <1>6 DEF Keeps, Grows

\* The last activation is given a new step
LEMMA CreateKeeps ==
    ASSUME IInv, NEW r \in Requests, Framed(r), \A o \in Requests : Framed(o),
           Distinct, Owned, CreateStep(r)
    PROVE  Keeps(r)
<1> DEFINE n == Len(run[r].stack)
           t == run'[r].stack
           new == Len(steps) + 1
<1>1. /\ Only(r) /\ run[r].pc = "create" /\ run'[r].pc = "body"
      /\ TopOnly(run[r].stack, t) /\ t[n].step = new /\ steps' = Append(steps, "running")
  BY CreateStepIs
<1>2. /\ n \in Nat /\ n # 0 /\ DOMAIN run[r].stack = 1..n /\ DOMAIN t = 1..n /\ Len(t) = n
      /\ \A k \in 1..(n - 1) : t[k] = run[r].stack[k]
  BY <1>1, EmptySeq DEF TopOnly
<1>3. /\ DOMAIN steps = 1..Len(steps) /\ Len(steps) \in Nat /\ new \in Nat
      /\ DOMAIN steps' = 1..new /\ new \notin DOMAIN steps /\ new # 0
      /\ \A i \in DOMAIN steps : steps'[i] = steps[i]
  <2>1. steps \in Seq(StepStatus) /\ "running" \in StepStatus
    BY DEF IInv, TypeOK, StepStatus
  <2>2. QED
    BY <1>1, <2>1
<1> HIDE DEF n, t, new
<1>4. \A k \in 1..n : k # n => k \in 1..(n - 1) /\ k < n
  BY <1>2
<1>5. Grows
  BY <1>3 DEF Grows, new
<1>6. ASSUME NEW o \in Requests, NEW k \in DOMAIN run[o].stack
      PROVE  run[o].stack[k].step \in DOMAIN steps \cup {0}
  BY <1>6 DEF Framed, Backed
<1>7. Framed(r)'
  <2>1. ASSUME NEW k \in 1..n PROVE Backed(r, k)'
    <3>1. CASE k = n
      <4>1. t[k].step \in DOMAIN steps' /\ ~(k < n)
        BY <1>1, <1>2, <1>3, <3>1 DEF t, n
      <4>2. QED
        BY <1>1, <1>2, <4>1 DEF Backed, Unentered, Passed, t
    <3>2. CASE k # n
      <4>1. Backed(r, k) /\ t[k] = run[r].stack[k] /\ k < n
        BY <1>2, <1>4, <2>1, <3>2 DEF Framed
      <4>2. t[k].step \in DOMAIN steps
        BY <3>2, <4>1 DEF Backed, n
      <4>3. t[k].inner \/ steps[t[k].step] # "running"
        BY <4>1 DEF Backed, n
      <4>4. t[k].step \in DOMAIN steps' /\ steps'[t[k].step] = steps[t[k].step]
        BY <1>3, <4>2, <1>5 DEF Grows
      <4>5. QED
        BY <1>1, <1>2, <3>2, <4>3, <4>4 DEF Backed, Unentered, Passed, t
    <3>3. QED
      BY <3>1, <3>2
  <2>2. QED
    BY <1>1, <1>2, <2>1 DEF Framed, Ended, t
<1>8. Distinct'
  <2>1. ASSUME NEW o \in Requests, NEW j \in DOMAIN run'[o].stack
        PROVE  \/ o = r /\ j = n /\ run'[o].stack[j].step = new
               \/ /\ j \in DOMAIN run[o].stack /\ run'[o].stack[j].step = run[o].stack[j].step
                  /\ run'[o].stack[j].step # new
    <3>1. CASE o = r
      <4>1. CASE j = n
        BY <1>1, <3>1, <4>1 DEF t, n
      <4>2. CASE j # n
        <5>1. j \in DOMAIN run[r].stack /\ t[j] = run[r].stack[j]
          BY <1>2, <1>4, <2>1, <3>1, <4>2 DEF t
        <5>2. QED
          BY <1>3, <1>6, <3>1, <5>1 DEF t
      <4>3. QED
        BY <4>1, <4>2
    <3>2. CASE o # r
      BY <1>1, <1>3, <1>6, <2>1, <3>2 DEF Only
    <3>3. QED
      BY <3>1, <3>2
  <2> SUFFICES ASSUME NEW a \in Requests, NEW b \in Requests,
                      NEW k \in DOMAIN run'[a].stack, NEW j \in DOMAIN run'[b].stack,
                      run'[a].stack[k].step = run'[b].stack[j].step,
                      run'[a].stack[k].step # 0
               PROVE  a = b /\ k = j
    BY DEF Distinct
  <2>2. CASE run'[a].stack[k].step = new
    BY <2>1, <2>2
  <2>3. CASE run'[a].stack[k].step # new
    <3>1. k \in DOMAIN run[a].stack /\ run'[a].stack[k].step = run[a].stack[k].step
      BY <2>1, <2>3
    <3>2. j \in DOMAIN run[b].stack /\ run'[b].stack[j].step = run[b].stack[j].step
      BY <2>1, <2>3
    <3>3. run[a].stack[k].step = run[b].stack[j].step /\ run[a].stack[k].step # 0
      BY <3>1, <3>2
    <3> HIDE DEF new
    <3>4. QED
      BY <3>1, <3>2, <3>3 DEF Distinct
  <2>4. QED
    BY <2>2, <2>3
<1>9. Owned'
  <2> SUFFICES ASSUME NEW i \in DOMAIN steps', steps'[i] = "running"
               PROVE  \E o \in Requests : Holds(o, i)'
    BY DEF Owned
  <2>1. CASE i = new
    <3>1. n \in DOMAIN t /\ t[n].step = i
      BY <1>1, <1>2, <2>1 DEF t, n
    <3>2. Holds(r, i)'
      BY <3>1 DEF Holds, t
    <3>3. QED
      BY <3>2
  <2>2. CASE i # new
    <3>1. i \in DOMAIN steps /\ steps[i] = "running"
      BY <1>3, <2>2 DEF new
    <3>2. PICK o \in Requests : Holds(o, i)
      BY <3>1 DEF Owned
    <3>3. PICK k \in DOMAIN run[o].stack : run[o].stack[k].step = i
      BY <3>2 DEF Holds
    <3>4. CASE o # r
      BY <1>1, <3>2, <3>4 DEF Only, Holds
    <3>5. CASE o = r
      <4>1. Backed(r, k) /\ i # 0 /\ k \in 1..n
        BY <1>2, <1>3, <3>1, <3>3, <3>5 DEF Framed
      <4>2. k # n
        BY <1>1, <3>3, <3>5, <4>1 DEF Backed, Unentered, n
      <4>3. k \in DOMAIN t /\ t[k].step = i
        BY <1>2, <1>4, <3>3, <3>5, <4>1, <4>2
      <4>4. Holds(r, i)'
        BY <4>3 DEF Holds, t
      <4>5. QED
        BY <4>4
    <3>6. QED
      BY <3>4, <3>5
  <2>3. QED
    BY <2>1, <2>2
<1>10. QED
  BY <1>5, <1>7, <1>8, <1>9 DEF Keeps

\* continueToNextNode calls executeNode from a stack left as it is
LEMMA NextNodeKeeps ==
    ASSUME IInv, NEW r \in Requests, Framed(r), Distinct, Owned, Only(r), steps' = steps,
           run[r].pc \notin Unentered, run'[r].pc = "enter",
           \E f \in Frame : f.step = 0 /\ run'[r].stack = Append(run[r].stack, f),
           run[r].stack # <<>> => steps[Top(run[r]).step] # "running"
    PROVE  Keeps(r)
<1>1. PICK f \in Frame : f.step = 0 /\ run'[r].stack = Append(run[r].stack, f)
  OBVIOUS
<1> DEFINE s == run[r].stack
<1>2. s \in Seq(Frame)
  BY DEF IInv, TypeOK, Request
<1>3. Len(s) # 0 => s # <<>> /\ Top(run[r]) = s[Len(s)]
  BY DEF Top
<1>4. QED
  BY <1>1, <1>2, <1>3, CallKeeps

\* The step of the last activation has ended where the request is past its body
LEMMA TopEnded ==
    ASSUME IInv, NEW r \in Requests, Framed(r), run[r].stack # <<>>,
           run[r].pc \notin Passed => run[r].pc = "return" /\ ~Top(run[r]).inner
    PROVE  steps[Top(run[r]).step] # "running"
<1>1. run[r].stack \in Seq(Frame)
  BY DEF IInv, TypeOK, Request
<1>2. Len(run[r].stack) \in DOMAIN run[r].stack
  BY <1>1
<1>3. QED
  BY <1>2 DEF Framed, Backed, Top

LEMMA BeginKeeps ==
    ASSUME IInv, NEW r \in Requests, Framed(r), Distinct, Owned, Begin(r)
    PROVE  Only(r) /\ Keeps(r)
<1>1. CASE \E e \in Executions : ExecuteWorkflow(r, e)
  <2>1. /\ run[r].pc = "idle" /\ Only(r) /\ steps' = steps
        /\ \/ /\ run'[r].pc = "enter"
              /\ \E f \in Frame : f.step = 0 /\ run'[r].stack = Append(<<>>, f)
           \/ run'[r].stack = <<>>
    BY <1>1, ExecuteIs DEF Fresh
  <2>2. run[r].stack = <<>>
    BY <2>1 DEF Framed, Ended
  <2>3. QED
    BY <2>1, <2>2, SameStackKeeps, NextNodeKeeps DEF Unentered
<1>2. CASE \/ \E e \in Executions, o \in {"continue", "approve"} : LoadToResume(r, e, o)
           \/ LoadWaiting(r)
           \/ \E e \in Executions : LoadToCancel(r, e)
  <2>1. run[r].pc = "idle" /\ Only(r) /\ steps' = steps /\ run'[r].stack = <<>>
    BY <1>2, LoadToResumeIs, LoadWaitingIs, LoadToCancelIs DEF Fresh
  <2>2. run[r].stack = <<>>
    BY <2>1 DEF Framed, Ended
  <2>3. QED
    BY <2>1, <2>2, SameStackKeeps
<1>3. QED
  BY <1>1, <1>2 DEF Begin

LEMMA AdvanceKeeps ==
    ASSUME IInv, NEW r \in Requests, \A o \in Requests : Framed(o), Distinct, Owned,
           Advance(r)
    PROVE  Only(r) /\ Keeps(r)
<1>1. Framed(r)
  OBVIOUS
<1>2. CASE NextWaiting(r)
  <2>1. /\ run[r].pc = "events" /\ Only(r) /\ steps' = steps
        /\ run'[r].stack = run[r].stack
    BY <1>2, NextWaitingIs
  <2>2. run'[r].stack = <<>>
    BY <2>1 DEF Framed
  <2>3. QED
    BY <2>1, <2>2, SameStackKeeps
<1>3. CASE Resume(r)
  <2>1. /\ run[r].pc = "resume" /\ Only(r) /\ steps' = steps
        /\ \/ run'[r].stack = run[r].stack
           \/ /\ run'[r].pc = "enter"
              /\ \E f \in Frame : f.step = 0 /\ run'[r].stack = Append(run[r].stack, f)
    BY <1>3, ResumeIs
  <2>2. run[r].stack = <<>>
    BY <2>1 DEF Framed
  <2>3. QED
    BY <2>1, <2>2, SameStackKeeps, NextNodeKeeps DEF Unentered
<1>4. CASE CancelExecution(r)
  <2>1. /\ run[r].pc = "cancel" /\ Only(r) /\ steps' = steps
        /\ run'[r].stack = run[r].stack
    BY <1>4, MoveIs DEF CancelExecution
  <2>2. run[r].stack = <<>>
    BY <2>1 DEF Framed
  <2>3. QED
    BY <2>1, <2>2, SameStackKeeps
<1>5. CASE SaveCurrentNode(r) \/ RunTask(r) \/ CheckLoop(r)
  <2>1. /\ Only(r) /\ steps' = steps /\ run'[r].stack = run[r].stack
        /\ \/ run[r].pc = "enter" /\ run'[r].pc = "create"
           \/ run[r].pc = "body" /\ run'[r].pc \in {"complete", "catch"}
    BY <1>5, MoveIs DEF SaveCurrentNode, RunTask, CheckLoop
  <2>2. QED
    BY <2>1, SameStackKeeps DEF Unentered, Passed, Ended
<1>6. CASE CompleteStep(r)
  <2>1. /\ Only(r) /\ run'[r].stack = run[r].stack
        /\ run[r].pc = "complete" /\ run'[r].pc = "merge"
        /\ steps' = [steps EXCEPT ![Top(run[r]).step] = "completed"]
    BY <1>6, MoveIs DEF CompleteStep
  <2>2. run[r].stack # <<>>
    BY <2>1 DEF IInv, Good, PointInv, InActivation
  <2>3. QED
    BY <2>1, <2>2, EndedStepKeeps DEF Unentered, Ended
<1>7. CASE CreateStep(r)
  BY <1>7, CreateKeeps, CreateStepIs
<1>8. CASE SetStatus(r) \/ StartLoop(r)
  BY <1>8, SavePrepared, SameStackKeeps DEF Unentered, Passed, Ended
<1>9. CASE EndLoop(r)
  <2>1. Only(r) /\ run[r].pc = "body" /\ steps' = steps
    BY <1>9, EndLoopIs
  <2>2. CASE run'[r].pc \in {"catch", "bodysave"} /\ run'[r].stack = run[r].stack
    BY <2>1, <2>2, SameStackKeeps DEF Unentered, Passed, Ended
  <2>3. CASE /\ run'[r].pc = "enter"
             /\ \E s \in Seq(Frame), f \in Frame :
                    /\ TopOnly(run[r].stack, s)
                    /\ s[Len(s)].inner /\ s[Len(s)].step = Top(run[r]).step
                    /\ f.step = 0 /\ run'[r].stack = Append(s, f)
    <3>1. PICK s \in Seq(Frame), f \in Frame :
              /\ TopOnly(run[r].stack, s)
              /\ s[Len(s)].inner /\ s[Len(s)].step = Top(run[r]).step
              /\ f.step = 0 /\ run'[r].stack = Append(s, f)
      BY <2>3
    <3>2. Len(s) = Len(run[r].stack) /\ Len(s) \in Nat
      BY <3>1 DEF TopOnly
    <3>3. \A k \in 1..Len(s) : k = Len(s) \/ k \in 1..(Len(s) - 1)
      BY <3>2
    <3>4. \A k \in 1..(Len(s) - 1) : s[k] = run[r].stack[k]
      BY <3>1, <3>2 DEF TopOnly
    <3>5. \A k \in 1..Len(s) : s[k].step = run[r].stack[k].step
      BY <3>1, <3>2, <3>3, <3>4 DEF Top
    <3>6. \A k \in 1..Len(s) : k < Len(s) => s[k].inner = run[r].stack[k].inner
      BY <3>2, <3>3, <3>4
    <3>7. QED
      BY <2>1, <2>3, <3>1, <3>2, <3>5, <3>6, CallKeeps DEF Unentered
  <2>4. QED
    BY <1>9, <2>1, <2>2, <2>3, EndLoopIs
<1>10. CASE SaveInBody(r)
  BY <1>10, SaveInBodyIs, SameStackKeeps DEF Unentered, Passed, Ended
<1>11. CASE MergeResult(r)
  <2>1. /\ Only(r) /\ run[r].pc = "merge" /\ steps' = steps /\ run[r].stack # <<>>
        /\ \/ run'[r].pc = "return" /\ run'[r].stack = Pop(run[r].stack)
           \/ run'[r].pc \in {"finish", "catch"} /\ run'[r].stack = run[r].stack
           \/ /\ run'[r].pc = "enter"
              /\ \E f \in Frame : f.step = 0 /\ run'[r].stack = Append(run[r].stack, f)
    BY <1>11, MergeResultIs
  <2>2. steps[Top(run[r]).step] # "running"
    <3>1. run[r].pc \in Passed
      BY <2>1 DEF Passed
    <3>2. QED
      BY <1>1, <2>1, <3>1, TopEnded
  <2>3. CASE run'[r].pc = "return" /\ run'[r].stack = Pop(run[r].stack)
    BY <2>1, <2>2, <2>3, ReturnKeeps
  <2>4. CASE run'[r].pc \in {"finish", "catch"} /\ run'[r].stack = run[r].stack
    BY <2>1, <2>4, SameStackKeeps DEF Unentered, Passed, Ended
  <2>5. CASE /\ run'[r].pc = "enter"
             /\ \E f \in Frame : f.step = 0 /\ run'[r].stack = Append(run[r].stack, f)
    BY <2>1, <2>2, <2>5, NextNodeKeeps DEF Unentered
  <2>6. QED
    BY <2>1, <2>3, <2>4, <2>5
<1>12. CASE FinishWithoutEdge(r) \/ FailExecution(r)
  <2>1. /\ Only(r) /\ run[r].pc \in Passed /\ steps' = steps
        /\ run'[r].pc = "return" /\ run'[r].stack = Pop(run[r].stack)
    BY <1>12, FinishIs, FailExecutionIs DEF Passed
  <2>2. run[r].stack # <<>> => steps[Top(run[r]).step] # "running"
    BY <1>1, <2>1, TopEnded
  <2>3. QED
    BY <1>1, <2>1, <2>2, ReturnKeeps
<1>13. CASE FailStep(r)
  <2>1. /\ Only(r) /\ run'[r].stack = run[r].stack
        /\ run[r].pc = "catch" /\ run'[r].pc = "fail"
        /\ steps' = [steps EXCEPT ![Top(run[r]).step] = "failed"]
    BY <1>13, FailStepIs
  <2>2. run[r].stack # <<>>
    BY <2>1 DEF IInv, Good, PointInv, InActivation
  <2>3. QED
    BY <2>1, <2>2, EndedStepKeeps DEF Unentered, Ended
<1>14. CASE ReturnToCaller(r)
  <2>1. /\ Only(r) /\ run[r].pc = "return" /\ steps' = steps
        /\ \/ run[r].stack = <<>> /\ run'[r].stack = <<>>
           \/ /\ run'[r].pc = "complete" /\ TopOnly(run[r].stack, run'[r].stack)
              /\ run'[r].stack[Len(run[r].stack)].step = Top(run[r]).step
           \/ /\ run'[r].pc = "return" /\ run[r].stack # <<>> /\ ~Top(run[r]).inner
              /\ run'[r].stack = Pop(run[r].stack)
    BY <1>14, ReturnToCallerIs
  <2>2. CASE run[r].stack = <<>> /\ run'[r].stack = <<>>
    BY <2>1, <2>2, SameStackKeeps
  <2>3. CASE /\ run'[r].pc = "complete" /\ TopOnly(run[r].stack, run'[r].stack)
             /\ run'[r].stack[Len(run[r].stack)].step = Top(run[r]).step
    BY <2>1, <2>3, InnerKeeps
  <2>4. CASE /\ run'[r].pc = "return" /\ run[r].stack # <<>> /\ ~Top(run[r]).inner
             /\ run'[r].stack = Pop(run[r].stack)
    BY <1>1, <2>1, <2>4, TopEnded, ReturnKeeps
  <2>5. QED
    BY <2>1, <2>2, <2>3, <2>4
<1>15. QED
  BY <1>2, <1>3, <1>4, <1>5, <1>6, <1>7, <1>8, <1>9, <1>10, <1>11, <1>12, <1>13, <1>14
     DEF Advance

LEMMA NextFInv == ASSUME FInv, [Next]_vars PROVE FInv'
<1>1. IInv /\ IInv'
  BY NextIInv DEF FInv
<1> SUFFICES ASSUME Calm' PROVE ((\A r \in Requests : Framed(r)) /\ Distinct /\ Owned)'
  BY <1>1 DEF FInv
<1>2. faults \in Nat /\ crashes \in Nat
  BY <1>1, GraphAssumption DEF IInv, TypeOK
<1>3. ~Crash /\ \A r \in Requests : ~WriteFails(r)
  BY <1>2 DEF Calm, Crash, WriteFails
<1>4. ASSUME NEW r \in Requests, Begin(r) \/ Advance(r)
      PROVE  ((\A o \in Requests : Framed(o)) /\ Distinct /\ Owned)'
  <2>1. (\A o \in Requests : Framed(o)) /\ Distinct /\ Owned
    BY <1>4, StepIsQuiet DEF FInv, Calm
  <2>2. Only(r) /\ Keeps(r)
    BY <1>1, <1>4, <2>1, BeginKeeps, AdvanceKeeps
  <2>3. (\A o \in Requests : Framed(o))'
    BY <1>1, <2>1, <2>2, OthersFramed DEF Keeps
  <2>4. QED
    BY <2>2, <2>3 DEF Keeps
<1>5. CASE UpdateWorkflow \/ UNCHANGED vars
  <2>1. (\A o \in Requests : Framed(o)) /\ Distinct /\ Owned /\ UNCHANGED <<run, steps>>
    BY <1>5 DEF UpdateWorkflow, vars, FInv, Calm
  <2>2. QED
    BY <2>1 DEF Framed, Backed, Distinct, Owned, Holds
<1>6. QED
  BY <1>3, <1>4, <1>5 DEF Next

\* As long as no write fails and the process lives, and whatever requests
\* overlap: a step stored as RUNNING belongs to exactly one activation of a live
\* request, which completes or fails it when it goes on or returns
THEOREM StepsOwned == Spec => []RunningStepOwned
<1>1. Init => FInv
  <2>1. IdleRequest.stack = <<>>
    BY DEF IdleRequest
  <2>2. QED
    BY <2>1, InitIInv DEF Init, FInv, Framed, Distinct, Owned
<1>2. FInv /\ [Next]_vars => FInv'
  BY NextFInv
<1>3. FInv => RunningStepOwned
  <2> SUFFICES ASSUME FInv, Calm, NEW i \in DOMAIN steps, steps[i] = "running"
               PROVE  \E r \in Requests : /\ Live(r) /\ Holds(r, i)
                                          /\ \A o \in Requests \ {r} : ~Holds(o, i)
    BY DEF RunningStepOwned, Calm
  <2>1. PICK r \in Requests : Holds(r, i)
    BY DEF FInv, Owned
  <2>2. PICK k \in DOMAIN run[r].stack : run[r].stack[k].step = i
    BY <2>1 DEF Holds
  <2>3. i # 0
    BY DEF FInv, IInv, TypeOK
  <2>4. Live(r)
    <3>1. run[r].stack # <<>>
      BY <2>2
    <3>2. QED
      BY <3>1 DEF FInv, Framed, Live
  <2>5. \A o \in Requests \ {r} : ~Holds(o, i)
    BY <2>2, <2>3 DEF FInv, Distinct, Holds
  <2>6. QED
    BY <2>1, <2>4, <2>5
<1>4. QED
  BY <1>1, <1>2, <1>3, PTL DEF Spec

-----------------------------------------------------------------------------
(* Loops are left at their loop_end nodes *)

\* Only a loop the execution stands in has a counter
Settled(Body, row) == \A l \in Loops : row.current \notin Body[l] => row.loops[l] = 0

Bounded(Body, row) ==
    /\ \A l \in Loops : row.loops[l] <= Limit(l)
    /\ row.status \in WaitingStatuses => Settled(Body, row)

BeforeBody == {"enter", "create", "body"}
AfterBody == {"bodysave", "complete", "merge"}

\* What a copy has counted: one less than the limit before a loop_start, nothing
\* after a loop_end, and a call that returns holds no RUNNING copy, so that the
\* activation suspended in a loop_end does not go on
Counts(Body, q) ==
    /\ Bounded(Body, q.row)
    /\ \A e \in Executions : Bounded(Body, q.snapshot[e])
    /\ q.row.status = "running" /\ q.pc \in {"resume"} \cup BeforeBody \cup AfterBody =>
           Settled(Body, q.row)
    /\ q.pc \in BeforeBody =>
           \A l \in Loops : q.row.current = LoopStart[l] => q.row.loops[l] < Limit(l)
    /\ q.row.status = "running" /\ q.pc \in AfterBody =>
           /\ q.row.current = Top(q).node
           /\ TopType(q) = "loop_end" => q.row.loops[LoopOf[Top(q).node]] = 0
    /\ q.pc = "return" => q.row.status # "running"

LInv(Body) ==
    /\ IInv
    /\ \A e \in Executions : Bounded(Body, db[e])
    /\ \A r \in Requests : Counts(Body, run[r])

LEMMA LimitPositive == \A l \in Loops : Limit(l) \in Nat /\ 0 < Limit(l)
BY GraphAssumption DEF Limit

\* A copy that does not go on into a loop from where it stands
LEMMA CountsElsewhere ==
    ASSUME NEW Body, NEW q, Counts(Body, q), NEW p, p.snapshot = q.snapshot,
           Bounded(Body, p.row),
           \/ p.row.status # "running" /\ p.pc \notin BeforeBody
           \/ p.pc \notin {"resume", "return"} \cup BeforeBody \cup AfterBody
    PROVE  Counts(Body, p)
BY DEF Counts

LEMMA EnterCounts ==
    ASSUME NEW Body, NEW q \in Request, Counts(Body, q), q.row.status = "running",
           NEW n \in Nodes,
           \A l \in Loops : n \notin Body[l] => q.row.loops[l] = 0,
           \A l \in Loops : n = LoopStart[l] => q.row.loops[l] < Limit(l),
           NEW p, p = Enter(q, n)
    PROVE  Counts(Body, p)
<1> DEFINE row == [q.row EXCEPT !.current = n]
           s == Append(q.stack, [node |-> n, step |-> 0, inner |-> FALSE])
<1>1. /\ row.status = "running" /\ row.current = n /\ row.loops = q.row.loops
  BY DEF Request, Row
<1>2. p = [q EXCEPT !.pc = "enter", !.row = row, !.stack = s]
  BY DEF Enter, Request
<1> HIDE DEF row, s
<1>3. p.pc = "enter" /\ p.row = row /\ p.snapshot = q.snapshot
  BY <1>2 DEF Request
<1>4. Bounded(Body, row) /\ Settled(Body, row)
  BY <1>1 DEF Counts, Bounded, Settled, WaitingStatuses
<1>5. QED
  BY <1>1, <1>3, <1>4 DEF Counts, BeforeBody, AfterBody

LEMMA ThrowCounts ==
    ASSUME NEW Body, NEW q \in Request, Counts(Body, q), NEW s \in Seq(Frame),
           NEW p, p = Throw(q, s)
    PROVE  Counts(Body, p)
<1> DEFINE st == IF s = <<>> /\ q.op = "execute" THEN "failed" ELSE q.row.status
           row == [q.row EXCEPT !.status = st]
           point == IF s # <<>> THEN "catch"
                    ELSE IF q.op = "execute" THEN "fail" ELSE "rejected"
<1>1. row.status = st /\ row.current = q.row.current /\ row.loops = q.row.loops
  BY DEF Request, Row
<1>2. p = [q EXCEPT !.stack = s, !.pc = point, !.row = row]
  BY DEF Throw, Request
<1>3. p.pc = point /\ p.row = row /\ p.snapshot = q.snapshot
  <2> HIDE DEF row, point
  <2>1. QED
    BY <1>2 DEF Request
<1>4. Bounded(Body, row)
  <2> HIDE DEF row
  <2>1. QED
    BY <1>1 DEF Counts, Bounded, Settled, WaitingStatuses
<1>5. p.pc \notin {"resume", "return"} \cup BeforeBody \cup AfterBody
  BY <1>3 DEF BeforeBody, AfterBody
<1>6. QED
  BY <1>3, <1>4, <1>5, CountsElsewhere

\* continueToNextNode from the node a RUNNING copy stands at
LEMMA ContinueCounts ==
    ASSUME NEW Body, Encloses(Body), NEW q \in Request, Counts(Body, q),
           q.row.status = "running", Settled(Body, q.row),
           NEW n \in Nodes, q.row.current = n,
           NodeType[q.version][n] = "loop_end" => q.row.loops[LoopOf[n]] = 0,
           NEW p \in Continue(q, n)
    PROVE  Counts(Body, p)
<1>1. CASE Edges[q.version][n] = <<>>
  <2> DEFINE row == [q.row EXCEPT !.status = "completed"]
  <2>1. /\ row.status = "completed" /\ row.loops = q.row.loops
    BY DEF Request, Row
  <2>2. p = [q EXCEPT !.pc = "finish", !.row = row]
    BY <1>1 DEF Continue, Request
  <2> HIDE DEF row
  <2>3. p.pc = "finish" /\ p.row = row /\ p.snapshot = q.snapshot
    BY <2>2 DEF Request
  <2>4. Bounded(Body, row)
    BY <2>1 DEF Counts, Bounded, WaitingStatuses
  <2>5. QED
    BY <2>1, <2>3, <2>4, CountsElsewhere DEF BeforeBody
<1>2. CASE Edges[q.version][n] # <<>>
  <2>1. PICK t \in Targets(q.version, n) :
           p = IF t \in Nodes /\ Has(q.version, t) THEN Enter(q, t) ELSE Throw(q, q.stack)
    BY <1>2 DEF Continue
  <2>2. q.version \in 1..Versions /\ q.stack \in Seq(Frame)
    BY DEF Request
  <2>3. CASE t \in Nodes /\ Has(q.version, t)
    <3>1. ASSUME NEW l \in Loops, t \notin Body[l] \/ t = LoopStart[l]
          PROVE  q.row.loops[l] = 0
      <4>1. CASE n \in Body[l]
        <5>1. NodeType[q.version][n] = "loop_end" /\ LoopOf[n] = l
          BY <1>2, <2>1, <2>2, <2>3, <3>1, <4>1 DEF Encloses
        <5>2. QED
          BY <5>1
      <4>2. CASE n \notin Body[l]
        BY <4>2 DEF Settled
      <4>3. QED
        BY <4>1, <4>2
    <3>2. QED
      BY <2>1, <2>3, <3>1, LimitPositive, EnterCounts
  <2>4. CASE ~(t \in Nodes /\ Has(q.version, t))
    BY <2>1, <2>2, <2>4, ThrowCounts
  <2>5. QED
    BY <2>3, <2>4
<1>3. QED
  BY <1>1, <1>2

-----------------------------------------------------------------------------
(* Steps keep the counters *)

\* A step of request r that leaves it with a copy that counts well, and the rows too
LEMMA StepCounts ==
    ASSUME NEW Body, LInv(Body), IInv', NEW r \in Requests, Counts(Body, run'[r]), Only(r),
           UNCHANGED db \/ Save(r)
    PROVE  LInv(Body)'
<1>1. \A o \in Requests : Counts(Body, run'[o])
  BY DEF LInv, Only
<1>2. Bounded(Body, run[r].row) /\ db \in [Executions -> Row]
  BY DEF LInv, Counts, IInv, TypeOK
<1>3. \A e \in Executions : db'[e] = db[e] \/ db'[e] = run[r].row
  BY <1>2 DEF Save
<1>4. \A e \in Executions : Bounded(Body, db'[e])
  BY <1>2, <1>3 DEF LInv
<1>5. QED
  BY <1>1, <1>4 DEF LInv

LEMMA NoRowBounded == ASSUME NEW Body PROVE Bounded(Body, NoRow)
<1>1. \A l \in Loops : NoRow.loops[l] = 0 /\ 0 <= Limit(l)
  BY LimitPositive DEF NoRow
<1>2. NoRow.status \notin WaitingStatuses
  BY DEF NoRow, WaitingStatuses
<1>3. QED
  BY <1>1, <1>2 DEF Bounded

LEMMA IdleCounts == ASSUME NEW Body PROVE Counts(Body, IdleRequest)
<1>1. /\ IdleRequest.row = NoRow /\ IdleRequest.pc = "idle"
      /\ \A e \in Executions : IdleRequest.snapshot[e] = NoRow
  BY DEF IdleRequest
<1>2. QED
  BY <1>1, NoRowBounded DEF Counts, BeforeBody, AfterBody

\* A row copied with another status, that waits no more
LEMMA RestatusBounded ==
    ASSUME NEW Body, NEW row, Bounded(Body, row), NEW new,
           new.loops = row.loops, new.status \notin WaitingStatuses
    PROVE  Bounded(Body, new)
BY DEF Bounded

LEMMA ExecuteCounts ==
    ASSUME NEW Body, LInv(Body), IInv', NEW r \in Requests, NEW e \in Executions,
           ExecuteWorkflow(r, e)
    PROVE  LInv(Body)'
<1> DEFINE new == [NoRow EXCEPT !.status = "running"]
           q   == [IdleRequest EXCEPT !.op = "execute", !.exec = e,
                                      !.row = new, !.version = version]
<1>1. IInv /\ version \in 1..Versions /\ db \in [Executions -> Row]
  BY DEF LInv, IInv, TypeOK
<1>2. /\ new \in Row /\ new.status = "running" /\ new.loops = NoRow.loops
      /\ \A l \in Loops : new.loops[l] = 0
  BY DEF NoRow, Row, Statuses
<1>3. Bounded(Body, new)
  BY <1>2, NoRowBounded, RestatusBounded DEF WaitingStatuses
<1> HIDE DEF new
<1>4. q \in Request /\ q.pc = "idle" /\ q.row = new /\ q.snapshot = IdleRequest.snapshot
  BY <1>1, <1>2, IdleType DEF IdleRequest, Request, Operations
<1> HIDE DEF q
<1>5. Counts(Body, q)
  BY <1>3, <1>4, IdleCounts, CountsElsewhere DEF BeforeBody, AfterBody
<1>6. \/ \E n \in Nodes : run' = [run EXCEPT ![r] = Enter(q, n)]
      \/ run' = [run EXCEPT ![r] = [q EXCEPT !.pc = "rejected"]]
  BY DEF ExecuteWorkflow, q, new
<1>7. Counts(Body, run'[r]) /\ Only(r)
  <2>1. ASSUME NEW n \in Nodes, run' = [run EXCEPT ![r] = Enter(q, n)]
        PROVE  Counts(Body, run'[r]) /\ Only(r)
    <3>1. \A l \in Loops : q.row.loops[l] = 0 /\ q.row.loops[l] < Limit(l)
      BY <1>2, <1>4, LimitPositive
    <3>2. Counts(Body, Enter(q, n))
      BY <1>2, <1>4, <1>5, <3>1, EnterCounts
    <3>3. QED
      BY <1>1, <2>1, <3>2, BecomesIs
  <2>2. CASE run' = [run EXCEPT ![r] = [q EXCEPT !.pc = "rejected"]]
    <3> DEFINE p == [q EXCEPT !.pc = "rejected"]
    <3>1. p.pc = "rejected" /\ p.row = q.row /\ p.snapshot = q.snapshot
      BY <1>4 DEF Request
    <3>2. Counts(Body, p)
      BY <1>3, <1>4, <1>5, <3>1, CountsElsewhere DEF BeforeBody, AfterBody
    <3>3. QED
      BY <1>1, <2>2, <3>2, BecomesIs
  <2>3. QED
    BY <1>6, <2>1, <2>2
<1>8. db' = [db EXCEPT ![e] = new]
  BY DEF ExecuteWorkflow, new
<1>9. \A x \in Executions : Bounded(Body, db'[x])
  BY <1>1, <1>3, <1>8 DEF LInv
<1>10. QED
  BY <1>7, <1>9 DEF LInv, Only

LEMMA LoadToResumeCounts ==
    ASSUME NEW Body, LInv(Body), IInv', NEW r \in Requests, NEW e \in Executions,
           NEW o \in {"continue", "approve"}, LoadToResume(r, e, o)
    PROVE  LInv(Body)'
<1> DEFINE q == [IdleRequest EXCEPT !.op = o, !.exec = e, !.version = version]
           row == [db[e] EXCEPT !.status = "running", !.answer = {r}]
           p == IF db[e].status = Resuming(o)
                THEN [q EXCEPT !.pc = "resume", !.row = row]
                ELSE [q EXCEPT !.pc = "rejected"]
<1>1. IInv /\ version \in 1..Versions /\ db[e] \in Row /\ Bounded(Body, db[e])
  BY DEF LInv, IInv, TypeOK
<1>2. row.status = "running" /\ row.current = db[e].current /\ row.loops = db[e].loops
  BY <1>1 DEF Row
<1>3. run' = [run EXCEPT ![r] = p] /\ UNCHANGED db
  BY DEF LoadToResume
<1>4. /\ q \in Request /\ q.pc = "idle" /\ q.row = NoRow /\ q.snapshot = IdleRequest.snapshot
  BY <1>1, IdleType DEF IdleRequest, Request, Operations
<1> HIDE DEF row, q
<1>5. Counts(Body, p)
  <2>1. CASE db[e].status = Resuming(o)
    <3>1. p.pc = "resume" /\ p.row = row /\ p.snapshot = IdleRequest.snapshot
      BY <1>4, <2>1 DEF Request
    <3>2. db[e].status \in WaitingStatuses
      BY <2>1 DEF Resuming, WaitingStatuses
    <3>3. Bounded(Body, row) /\ Settled(Body, row)
      BY <1>1, <1>2, <3>2 DEF Bounded, Settled, WaitingStatuses
    <3>4. \A x \in Executions : Bounded(Body, p.snapshot[x])
      BY <3>1, IdleCounts DEF Counts
    <3> HIDE DEF p
    <3>5. QED
      BY <3>1, <3>3, <3>4 DEF Counts, BeforeBody, AfterBody
  <2>2. CASE db[e].status # Resuming(o)
    <3>1. p.pc = "rejected" /\ p.row = NoRow /\ p.snapshot = IdleRequest.snapshot
      BY <1>4, <2>2 DEF Request
    <3> HIDE DEF p
    <3>2. QED
      BY <3>1, IdleCounts, NoRowBounded, CountsElsewhere DEF BeforeBody, AfterBody
  <2>3. QED
    BY <2>1, <2>2
<1> HIDE DEF p
<1>6. QED
  BY <1>1, <1>3, <1>5, BecomesIs, StepCounts

LEMMA LoadWaitingCounts ==
    ASSUME NEW Body, LInv(Body), IInv', NEW r \in Requests, LoadWaiting(r)
    PROVE  LInv(Body)'
<1> DEFINE Q == {e \in Executions : db[e].status = "waiting_event"}
           p == [IdleRequest EXCEPT !.op = "event", !.pc = "events", !.version = version,
                                    !.queue = Q, !.snapshot = db]
<1>1. IInv /\ run' = [run EXCEPT ![r] = p] /\ UNCHANGED db
  BY DEF LInv, LoadWaiting
<1> HIDE DEF Q
<1>2. p.pc = "events" /\ p.row = NoRow /\ p.snapshot = db
  BY DEF IdleRequest
<1> HIDE DEF p
<1>3. Counts(Body, p)
  BY <1>2, NoRowBounded DEF LInv, Counts, BeforeBody, AfterBody
<1>4. QED
  BY <1>1, <1>3, BecomesIs, StepCounts

LEMMA LoadToCancelCounts ==
    ASSUME NEW Body, LInv(Body), IInv', NEW r \in Requests, NEW e \in Executions,
           LoadToCancel(r, e)
    PROVE  LInv(Body)'
<1> DEFINE row == [db[e] EXCEPT !.status = "cancelled"]
           p == [IdleRequest EXCEPT !.op = "cancel", !.exec = e, !.pc = "cancel",
                                    !.version = version, !.row = row]
<1>1. IInv /\ db[e] \in Row /\ Bounded(Body, db[e])
  BY DEF LInv, IInv, TypeOK
<1>2. row.status = "cancelled" /\ row.loops = db[e].loops
  BY <1>1 DEF Row
<1>3. run' = [run EXCEPT ![r] = p] /\ UNCHANGED db
  BY DEF LoadToCancel
<1> HIDE DEF row
<1>4. p.pc = "cancel" /\ p.row = row /\ p.snapshot = IdleRequest.snapshot
  BY DEF IdleRequest
<1> HIDE DEF p
<1>5. Bounded(Body, row)
  BY <1>1, <1>2, RestatusBounded DEF WaitingStatuses
<1>6. Counts(Body, p)
  BY <1>4, <1>5, IdleCounts, CountsElsewhere DEF BeforeBody, AfterBody
<1>7. QED
  BY <1>1, <1>3, <1>6, BecomesIs, StepCounts

LEMMA NextWaitingCounts ==
    ASSUME NEW Body, LInv(Body), IInv', NEW r \in Requests, NextWaiting(r)
    PROVE  LInv(Body)'
<1> DEFINE q == run[r]
<1>1. IInv /\ q \in Request /\ Counts(Body, q) /\ q.pc = "events" /\ UNCHANGED db
  BY DEF LInv, IInv, TypeOK, NextWaiting
<1>2. CASE Goto(r, "done")
  <2>1. Only(r) /\ run'[r].pc = "done" /\ run'[r].row = q.row /\ run'[r].snapshot = q.snapshot
    BY <1>1, <1>2, GotoIs DEF PCs, Kept
  <2>2. Bounded(Body, q.row)
    BY <1>1 DEF Counts
  <2>3. Counts(Body, run'[r])
    BY <1>1, <2>1, <2>2, CountsElsewhere DEF BeforeBody, AfterBody
  <2>4. QED
    BY <1>1, <2>1, <2>3, StepCounts
<1>3. ASSUME NEW e \in q.queue, run' = [run EXCEPT ![r].queue = @ \ {e}]
      PROVE  LInv(Body)'
  <2> DEFINE p == [q EXCEPT !.queue = q.queue \ {e}]
  <2>1. p.pc = "events" /\ p.row = q.row /\ p.snapshot = q.snapshot
    BY <1>1 DEF Request
  <2>2. run' = [run EXCEPT ![r] = p]
    BY <1>3
  <2> HIDE DEF p
  <2>3. Counts(Body, p)
    BY <1>1, <2>1, CountsElsewhere DEF Counts, BeforeBody, AfterBody
  <2>4. QED
    BY <1>1, <2>2, <2>3, BecomesIs, StepCounts
<1>4. ASSUME NEW e \in q.queue,
             run' = [run EXCEPT ![r] = [q EXCEPT
                       !.queue = @ \ {e}, !.exec = e, !.pc = "resume", !.verdicts = 0,
                       !.row = [q.snapshot[e] EXCEPT !.status = "running",
                                                     !.answer = {r}]]]
      PROVE  LInv(Body)'
  <2> DEFINE row == [q.snapshot[e] EXCEPT !.status = "running", !.answer = {r}]
             p == [q EXCEPT !.queue = @ \ {e}, !.exec = e, !.pc = "resume", !.verdicts = 0,
                            !.row = row]
  <2>1. /\ e \in Executions /\ q.snapshot[e] \in Row
        /\ q.snapshot[e].status \in WaitingStatuses
    BY <1>1 DEF Request, IInv, Good, CopiesInv, WaitingStatuses
  <2>2. /\ row.status = "running" /\ row.current = q.snapshot[e].current
        /\ row.loops = q.snapshot[e].loops
    BY <2>1 DEF Row
  <2> HIDE DEF row
  <2>3. p.pc = "resume" /\ p.row = row /\ p.snapshot = q.snapshot
    BY <1>1 DEF Request
  <2>4. run' = [run EXCEPT ![r] = p]
    BY <1>4 DEF row
  <2> HIDE DEF p
  <2>5. Bounded(Body, row) /\ Settled(Body, row)
    BY <1>1, <2>1, <2>2 DEF Counts, Bounded, Settled, WaitingStatuses
  <2>6. Counts(Body, p)
    BY <1>1, <2>3, <2>5 DEF Counts, BeforeBody, AfterBody
  <2>7. QED
    BY <1>1, <2>4, <2>6, BecomesIs, StepCounts
<1>5. QED
  BY <1>2, <1>3, <1>4 DEF NextWaiting

\* Resumed from a waiting node, which is no loop_end in any version
LEMMA ResumeCounts ==
    ASSUME NEW Body, Encloses(Body), LInv(Body), IInv', NEW r \in Requests, Resume(r)
    PROVE  LInv(Body)'
<1> DEFINE q == run[r]
<1>1. /\ IInv /\ q \in Request /\ Counts(Body, q) /\ q.pc = "resume" /\ Save(r)
      /\ q.row.status = "running" /\ AtWaitNode(q.row.current) /\ q.version \in 1..Versions
  BY DEF LInv, IInv, Good, PointInv, Resume, Request
<1>2. CASE Goto(r, "done")
  <2>1. Only(r) /\ run'[r].pc = "done" /\ run'[r].row = q.row /\ run'[r].snapshot = q.snapshot
    BY <1>1, <1>2, GotoIs DEF PCs, Kept
  <2>2. Counts(Body, run'[r])
    BY <1>1, <2>1, CountsElsewhere DEF Counts, BeforeBody, AfterBody
  <2>3. QED
    BY <1>1, <2>1, <2>2, StepCounts
<1>3. ASSUME NEW p \in Continue(q, q.row.current), run' = [run EXCEPT ![r] = p]
      PROVE  LInv(Body)'
  <2>1. q.row.current \in Nodes /\ NodeType[q.version][q.row.current] # "loop_end"
    BY <1>1 DEF AtWaitNode, Encloses
  <2>2. Settled(Body, q.row)
    BY <1>1 DEF Counts
  <2>3. Counts(Body, p)
    BY <1>1, <2>1, <2>2, ContinueCounts
  <2>4. QED
    BY <1>1, <1>3, <2>3, BecomesIs, StepCounts
<1>4. QED
  BY <1>2, <1>3 DEF Resume

\* Steps that leave the copy as it is
LEMMA MoveCounts ==
    ASSUME NEW Body, LInv(Body), IInv', NEW r \in Requests,
           \/ CancelExecution(r) \/ SaveCurrentNode(r) \/ RunTask(r) \/ CheckLoop(r)
           \/ CompleteStep(r)
    PROVE  LInv(Body)'
<1> DEFINE q == run[r]
           p == run'[r]
<1>1. IInv /\ Counts(Body, q) /\ Bounded(Body, q.row)
  BY DEF LInv, Counts
<1>2. /\ Only(r) /\ Kept(q, p) /\ p.snapshot = q.snapshot /\ p.row = q.row
      /\ p.stack = q.stack /\ TopType(p) = TopType(q) /\ Top(p) = Top(q)
      /\ db' = db \/ Save(r)
  BY <1>1, MoveIs, SameTopType DEF Kept, Top
<1>3. \/ q.pc = "cancel" /\ p.pc = "done"
      \/ q.pc = "enter" /\ p.pc = "create"
      \/ q.pc = "body" /\ p.pc \in {"complete", "catch"} /\ TopType(q) # "loop_end"
      \/ q.pc = "complete" /\ p.pc = "merge"
  <2>1. RunTask(r) \/ CheckLoop(r) => TopType(q) # "loop_end"
    BY DEF RunTask, CheckLoop, FallibleTypes
  <2>2. CancelExecution(r) \/ SaveCurrentNode(r) \/ CompleteStep(r) => q.pc # "body"
    BY DEF CancelExecution, SaveCurrentNode, CompleteStep
  <2>3. QED
    BY <1>1, <2>1, <2>2, MoveIs
<1>4. q.pc = "body" => q.row.current = Top(q).node
  BY <1>1, AtBody
<1>5. Counts(Body, p)
  <2>1. CASE p.pc \in {"done", "catch"}
    BY <1>1, <1>2, <2>1, CountsElsewhere DEF BeforeBody, AfterBody
  <2>2. CASE q.pc = "enter" /\ p.pc = "create"
    BY <1>1, <1>2, <2>2 DEF Counts, BeforeBody, AfterBody
  <2>3. CASE q.pc = "body" /\ p.pc = "complete" /\ TopType(q) # "loop_end"
    BY <1>1, <1>2, <1>4, <2>3 DEF Counts, BeforeBody, AfterBody
  <2>4. CASE q.pc = "complete" /\ p.pc = "merge"
    BY <1>1, <1>2, <2>4 DEF Counts, BeforeBody, AfterBody
  <2>5. QED
    BY <1>3, <2>1, <2>2, <2>3, <2>4
<1>6. QED
  BY <1>1, <1>2, <1>5, StepCounts

LEMMA CreateStepCounts ==
    ASSUME NEW Body, LInv(Body), IInv', NEW r \in Requests, CreateStep(r)
    PROVE  LInv(Body)'
<1>1. IInv /\ Counts(Body, run[r])
  BY DEF LInv
<1>2. /\ Only(r) /\ run'[r].snapshot = run[r].snapshot /\ run'[r].row = run[r].row
      /\ run[r].pc = "create" /\ run'[r].pc = "body" /\ UNCHANGED db
  BY <1>1, CreateStepIs DEF Kept
<1>3. Counts(Body, run'[r])
  BY <1>1, <1>2 DEF Counts, BeforeBody, AfterBody
<1>4. QED
  BY <1>1, <1>2, <1>3, StepCounts

LEMMA SetStatusCounts ==
    ASSUME NEW Body, LInv(Body), IInv', NEW r \in Requests, SetStatus(r)
    PROVE  LInv(Body)'
<1> DEFINE q == run[r]
           st == StatusSetBy(TopType(q))
           row == [q.row EXCEPT !.status = st]
           p == [q EXCEPT !.pc = "bodysave", !.row = row]
<1>1. /\ IInv /\ q \in Request /\ q.row \in Row /\ Counts(Body, q) /\ q.pc = "body"
      /\ q.row.status = "running" /\ UNCHANGED db
  BY AtBody DEF LInv, SetStatus
<1>2. st # "running"
  BY DEF SetStatus, StatusSetBy, WaitTypes
<1>3. run' = [run EXCEPT ![r] = p]
  <2>1. p = [q EXCEPT !.pc = "bodysave", !.row.status = st]
    <3> HIDE DEF st
    <3>1. QED
      BY <1>1 DEF Request
  <2>2. QED
    BY <2>1 DEF SetStatus
<1> HIDE DEF st
<1>4. row.status = st /\ row.current = q.row.current /\ row.loops = q.row.loops
  BY <1>1 DEF Row
<1> HIDE DEF row
<1>5. p.pc = "bodysave" /\ p.row = row /\ p.snapshot = q.snapshot
  BY <1>1 DEF Request
<1> HIDE DEF p
<1>6. Bounded(Body, row)
  BY <1>1, <1>4 DEF Counts, BeforeBody, Bounded, Settled
<1>7. Counts(Body, p)
  BY <1>1, <1>2, <1>4, <1>5, <1>6, CountsElsewhere DEF BeforeBody
<1>8. QED
  BY <1>1, <1>3, <1>7, BecomesIs, StepCounts

\* The one place that counts up
LEMMA StartLoopCounts ==
    ASSUME NEW Body, Encloses(Body), LInv(Body), IInv', NEW r \in Requests, StartLoop(r)
    PROVE  LInv(Body)'
<1> DEFINE q == run[r]
           n == Top(q).node
           l == LoopOf[n]
           row == [q.row EXCEPT !.loops[l] = @ + 1]
           p == [q EXCEPT !.pc = "bodysave", !.row = row]
<1>1. /\ IInv /\ q \in Request /\ q.row \in Row /\ Counts(Body, q) /\ q.pc = "body"
      /\ q.row.status = "running" /\ q.row.current = n /\ n \in Nodes
      /\ TopType(q) = "loop_start" /\ UNCHANGED db /\ q.version \in 1..Versions
  BY AtBody DEF LInv, StartLoop, Request
<1>2. NodeType[q.version][n] = "loop_start"
  BY <1>1 DEF TopType
<1>3. l \in Loops /\ n = LoopStart[l] /\ n \in Body[l]
  BY <1>1, <1>2, GraphAssumption DEF Encloses
<1>4. run' = [run EXCEPT ![r] = p]
  <2>1. p = [q EXCEPT !.pc = "bodysave", !.row.loops[l] = @ + 1]
    BY <1>1 DEF Request
  <2>2. QED
    BY <2>1 DEF StartLoop
<1>5. q.row.loops[l] < Limit(l) /\ q.row.loops[l] \in Nat
  BY <1>1, <1>3 DEF Counts, BeforeBody, Row
<1>6. /\ row.status = "running" /\ row.current = n
      /\ \A k \in Loops : row.loops[k] = IF k = l THEN q.row.loops[l] + 1 ELSE q.row.loops[k]
  BY <1>1 DEF Row
<1> HIDE DEF row
<1>7. p.pc = "bodysave" /\ p.row = row /\ p.snapshot = q.snapshot /\ p.stack = q.stack
      /\ p.version = q.version
  BY <1>1 DEF Request
<1> HIDE DEF p
<1>8. Bounded(Body, row)
  <2>1. \A k \in Loops : row.loops[k] <= Limit(k)
    BY <1>1, <1>5, <1>6, LimitPositive DEF Counts, Bounded
  <2>2. QED
    BY <1>6, <2>1 DEF Bounded, WaitingStatuses
<1>9. Settled(Body, row)
  BY <1>1, <1>3, <1>6 DEF Counts, BeforeBody, Settled
<1>10. Top(p).node = n /\ TopType(p) = "loop_start"
  BY <1>1, <1>7 DEF Top, TopType
<1>11. Counts(Body, p)
  <2>1. \A e \in Executions : Bounded(Body, p.snapshot[e])
    BY <1>1, <1>7 DEF Counts
  <2>2. QED
    BY <1>6, <1>7, <1>8, <1>9, <1>10, <2>1 DEF Counts, BeforeBody, AfterBody
<1>12. QED
  BY <1>1, <1>4, <1>11, BecomesIs, StepCounts

LEMMA EndLoopCounts ==
    ASSUME NEW Body, Encloses(Body), LInv(Body), IInv', NEW r \in Requests, EndLoop(r)
    PROVE  LInv(Body)'
<1> DEFINE q == run[r]
           n == Top(q).node
           l == LoopOf[n]
<1>1. /\ IInv /\ q \in Request /\ q.row \in Row /\ Counts(Body, q) /\ q.pc = "body"
      /\ q.row.status = "running" /\ q.row.current = n /\ n \in Nodes
      /\ TopType(q) = "loop_end" /\ UNCHANGED db /\ q.version \in 1..Versions
      /\ q.stack # <<>> /\ q.stack \in Seq(Frame) /\ Top(q) \in Frame
  BY AtBody DEF LInv, EndLoop, Request
<1>2. NodeType[q.version][n] = "loop_end" /\ l \in Loops /\ LoopStart[l] \in Nodes
  BY <1>1, GraphAssumption DEF TopType
<1>3. Settled(Body, q.row) /\ \A k \in Loops : q.row.loops[k] \in Nat
  BY <1>1 DEF Counts, BeforeBody, Row
<1>4. CASE Goto(r, "catch")
  <2>1. /\ Only(r) /\ run'[r].pc = "catch" /\ run'[r].row = q.row
        /\ run'[r].snapshot = q.snapshot
    BY <1>1, <1>4, GotoIs DEF PCs, Kept
  <2>2. Counts(Body, run'[r])
    BY <1>1, <2>1, CountsElsewhere DEF Counts, BeforeBody, AfterBody
  <2>3. QED
    BY <1>1, <2>1, <2>2, StepCounts
<1>5. CASE run' = [run EXCEPT ![r] = [q EXCEPT !.pc = "bodysave", !.row.loops[l] = 0]]
  <2> DEFINE row == [q.row EXCEPT !.loops[l] = 0]
             p == [q EXCEPT !.pc = "bodysave", !.row = row]
  <2>1. run' = [run EXCEPT ![r] = p]
    <3>1. p = [q EXCEPT !.pc = "bodysave", !.row.loops[l] = 0]
      BY <1>1 DEF Request
    <3>2. QED
      BY <1>5, <3>1
  <2>2. /\ row.status = "running" /\ row.current = n
        /\ \A k \in Loops : row.loops[k] = IF k = l THEN 0 ELSE q.row.loops[k]
    BY <1>1 DEF Row
  <2> HIDE DEF row
  <2>3. p.pc = "bodysave" /\ p.row = row /\ p.snapshot = q.snapshot /\ p.stack = q.stack
    BY <1>1 DEF Request
  <2> HIDE DEF p
  <2>4. Bounded(Body, row)
    <3>1. \A k \in Loops : row.loops[k] <= Limit(k)
      BY <1>1, <2>2, LimitPositive DEF Counts, Bounded
    <3>2. QED
      BY <2>2, <3>1 DEF Bounded, WaitingStatuses
  <2>5. Settled(Body, row)
    BY <1>1, <1>3, <2>2 DEF Settled
  <2>6. Top(p).node = n
    BY <2>3 DEF Top
  <2>7. row.loops[LoopOf[Top(p).node]] = 0
    BY <1>2, <2>2, <2>6
  <2>8. \A e \in Executions : Bounded(Body, p.snapshot[e])
    BY <1>1, <2>3 DEF Counts
  <2>9. Counts(Body, p)
    BY <2>2, <2>3, <2>4, <2>5, <2>6, <2>7, <2>8 DEF Counts, BeforeBody, AfterBody
  <2>10. QED
    BY <1>1, <2>1, <2>9, BecomesIs, StepCounts
<1>6. ASSUME q.row.loops[l] \in 1..(MaxIterations[l] - 1),
             run' = [run EXCEPT ![r] =
                        Enter([q EXCEPT !.stack[Len(q.stack)].inner = TRUE], LoopStart[l])]
      PROVE  LInv(Body)'
  <2> DEFINE top == [Top(q) EXCEPT !.inner = TRUE]
             s == [q.stack EXCEPT ![Len(q.stack)] = top]
             inner == [q EXCEPT !.stack = s]
             p == Enter(inner, LoopStart[l])
  <2>1. run' = [run EXCEPT ![r] = p]
    <3>1. s = [q.stack EXCEPT ![Len(q.stack)].inner = TRUE]
      BY DEF Top
    <3>2. [q EXCEPT !.stack[Len(q.stack)].inner = TRUE] = inner
      BY <1>1, <3>1 DEF Request
    <3>3. QED
      BY <1>6, <3>2
  <2>2. s \in Seq(Frame)
    <3>1. top \in Frame
      BY <1>1 DEF Frame
    <3> HIDE DEF top
    <3>2. QED
      BY <1>1, <3>1
  <2> HIDE DEF s
  <2>3. /\ inner \in Request /\ inner.row = q.row /\ inner.snapshot = q.snapshot
        /\ inner.pc = "body"
    BY <1>1, <2>2 DEF Request
  <2> HIDE DEF inner
  <2>4. Counts(Body, inner)
    BY <1>1, <2>3 DEF Counts, BeforeBody, AfterBody
  <2>5. ASSUME NEW k \in Loops, LoopStart[l] \notin Body[k] PROVE q.row.loops[k] = 0
    <3>1. n \notin Body[k]
      BY <1>1, <1>2, <2>5 DEF Encloses
    <3>2. QED
      BY <1>1, <1>3, <3>1 DEF Settled
  <2>6. ASSUME NEW k \in Loops, LoopStart[l] = LoopStart[k] PROVE q.row.loops[k] < Limit(k)
    <3>1. k = l
      BY <1>2, <2>6 DEF Encloses
    <3>2. MaxIterations[l] \in Nat
      BY <1>2, GraphAssumption
    <3>3. QED
      BY <1>6, <3>1, <3>2 DEF Limit
  <2>7. Counts(Body, p)
    BY <1>1, <1>2, <2>3, <2>4, <2>5, <2>6, EnterCounts
  <2> HIDE DEF p
  <2>8. QED
    BY <1>1, <2>1, <2>7, BecomesIs, StepCounts
<1>7. QED
  BY <1>4, <1>5, <1>6 DEF EndLoop

LEMMA SaveInBodyCounts ==
    ASSUME NEW Body, LInv(Body), IInv', NEW r \in Requests, SaveInBody(r)
    PROVE  LInv(Body)'
<1> DEFINE q == run[r]
           p == run'[r]
<1>1. IInv /\ Counts(Body, q)
  BY DEF LInv
<1>2. /\ Only(r) /\ p.snapshot = q.snapshot /\ p.row = q.row /\ TopType(p) = TopType(q)
      /\ Top(p) = Top(q) /\ q.pc = "bodysave" /\ p.pc = "complete" /\ Save(r)
  BY <1>1, SaveInBodyIs, SameTopType DEF Kept, Top
<1>3. Counts(Body, p)
  BY <1>1, <1>2 DEF Counts, BeforeBody, AfterBody
<1>4. QED
  BY <1>1, <1>2, <1>3, StepCounts

LEMMA MergeResultCounts ==
    ASSUME NEW Body, Encloses(Body), LInv(Body), IInv', NEW r \in Requests, MergeResult(r)
    PROVE  LInv(Body)'
<1> DEFINE q == run[r]
<1>1. /\ IInv /\ q \in Request /\ Counts(Body, q) /\ q.pc = "merge" /\ Save(r)
      /\ q.stack # <<>>
  BY DEF LInv, IInv, Good, PointInv, InActivation, MergeResult
<1>2. CASE q.row.status = "running"
  <2>1. PICK p \in Continue(q, Top(q).node) : run' = [run EXCEPT ![r] = p]
    BY <1>2 DEF MergeResult
  <2>2. /\ q.row.current = Top(q).node /\ Settled(Body, q.row)
        /\ TopType(q) = "loop_end" => q.row.loops[LoopOf[Top(q).node]] = 0
    BY <1>1, <1>2 DEF Counts, AfterBody
  <2>3. Top(q).node \in Nodes
    BY <1>1, TopIsFrame DEF Frame
  <2>4. Counts(Body, p)
    BY <1>1, <1>2, <2>2, <2>3, ContinueCounts DEF TopType
  <2>5. QED
    BY <1>1, <2>1, <2>4, BecomesIs, StepCounts
<1>3. CASE q.row.status # "running"
  <2>1. /\ Only(r) /\ run'[r].pc = "return" /\ run'[r].row = q.row
        /\ run'[r].snapshot = q.snapshot
    BY <1>1, <1>3, MergeResultIs DEF Kept
  <2>2. Counts(Body, run'[r])
    BY <1>1, <1>3, <2>1, CountsElsewhere DEF Counts, BeforeBody
  <2>3. QED
    BY <1>1, <2>1, <2>2, StepCounts
<1>4. QED
  BY <1>2, <1>3

LEMMA FailStepCounts ==
    ASSUME NEW Body, LInv(Body), IInv', NEW r \in Requests, FailStep(r)
    PROVE  LInv(Body)'
<1> DEFINE q == run[r]
           row == [q.row EXCEPT !.status = "failed"]
           p == [q EXCEPT !.pc = "fail", !.row = row]
<1>1. /\ IInv /\ q \in Request /\ q.row \in Row /\ Counts(Body, q) /\ Bounded(Body, q.row)
      /\ run \in [Requests -> Request] /\ UNCHANGED db
  BY DEF LInv, Counts, IInv, TypeOK, Request, FailStep
<1>2. row.status = "failed" /\ row.loops = q.row.loops
  BY <1>1 DEF Row
<1>3. run' = [run EXCEPT ![r] = p]
  BY <1>1 DEF FailStep, Request
<1> HIDE DEF row
<1>4. p.pc = "fail" /\ p.row = row /\ p.snapshot = q.snapshot
  BY <1>1 DEF Request
<1> HIDE DEF p
<1>5. Bounded(Body, row)
  BY <1>1, <1>2, RestatusBounded DEF WaitingStatuses
<1>6. Counts(Body, p)
  BY <1>1, <1>2, <1>4, <1>5, CountsElsewhere DEF BeforeBody
<1>7. QED
  BY <1>1, <1>3, <1>6, BecomesIs, StepCounts

\* Calls that return hold no RUNNING copy
LEMMA StopCounts ==
    ASSUME NEW Body, LInv(Body), IInv', NEW r \in Requests,
           FinishWithoutEdge(r) \/ FailExecution(r) \/ ReturnToCaller(r)
    PROVE  LInv(Body)'
<1> DEFINE q == run[r]
           p == run'[r]
<1>1. IInv /\ Counts(Body, q) /\ Bounded(Body, q.row)
  BY DEF LInv, Counts
<1>2. /\ Only(r) /\ p.snapshot = q.snapshot /\ p.row = q.row /\ q.row.status # "running"
      /\ p.pc \notin BeforeBody
      /\ db' = db \/ Save(r)
  <2>1. CASE FinishWithoutEdge(r)
    BY <1>1, <2>1, FinishIs DEF Kept, BeforeBody
  <2>2. CASE FailExecution(r)
    <3>1. q.row.status = "failed"
      BY <1>1, <2>2 DEF FailExecution, IInv, Good, PointInv
    <3>2. QED
      BY <1>1, <2>2, <3>1, FailExecutionIs DEF Kept, BeforeBody
  <2>3. CASE ReturnToCaller(r)
    <3>1. q.row.status # "running"
      BY <1>1, <2>3 DEF ReturnToCaller, Counts
    <3>2. QED
      BY <1>1, <2>3, <3>1, ReturnToCallerIs DEF Kept, BeforeBody
  <2>4. QED
    BY <2>1, <2>2, <2>3
<1>3. Counts(Body, p)
  <2>1. Bounded(Body, p.row) /\ p.row.status # "running"
    BY <1>1, <1>2
  <2>2. QED
    BY <1>1, <1>2, <2>1, CountsElsewhere
<1>4. QED
  BY <1>1, <1>2, <1>3, StepCounts

LEMMA WriteFailsCounts ==
    ASSUME NEW Body, LInv(Body), IInv', NEW r \in Requests, WriteFails(r)
    PROVE  LInv(Body)'
<1> DEFINE q == run[r]
<1>1. /\ IInv /\ q \in Request /\ Counts(Body, q) /\ UNCHANGED db
      /\ q.stack \in Seq(Frame) /\ Pop(q.stack) \in Seq(Frame)
  BY PopType DEF LInv, IInv, TypeOK, Request, WriteFails
<1>2. CASE \E s \in Seq(Frame) : run' = [run EXCEPT ![r] = Throw(q, s)]
  <2>1. PICK s \in Seq(Frame) : run' = [run EXCEPT ![r] = Throw(q, s)]
    BY <1>2
  <2>2. Counts(Body, Throw(q, s))
    BY <1>1, ThrowCounts
  <2>3. QED
    BY <1>1, <2>1, <2>2, BecomesIs, StepCounts
<1>3. CASE Goto(r, "rejected")
  <2>1. /\ Only(r) /\ run'[r].pc = "rejected" /\ run'[r].row = q.row
        /\ run'[r].snapshot = q.snapshot
    BY <1>1, <1>3, GotoIs DEF PCs, Kept
  <2>2. Counts(Body, run'[r])
    BY <1>1, <2>1, CountsElsewhere DEF Counts, BeforeBody, AfterBody
  <2>3. QED
    BY <1>1, <2>1, <2>2, StepCounts
<1>4. QED
  BY <1>1, <1>2, <1>3 DEF WriteFails

LEMMA CrashCounts == ASSUME NEW Body, LInv(Body), IInv', Crash PROVE LInv(Body)'
<1>1. ASSUME NEW r \in Requests PROVE Counts(Body, run'[r])
  <2>1. run[r] \in Request /\ Counts(Body, run[r])
    BY DEF LInv, IInv, TypeOK
  <2>2. run'[r] = IF Live(r) THEN [run[r] EXCEPT !.pc = "lost"] ELSE run[r]
    BY DEF Crash
  <2> DEFINE p == [run[r] EXCEPT !.pc = "lost"]
  <2>3. p.pc = "lost" /\ p.row = run[r].row /\ p.snapshot = run[r].snapshot
    BY <2>1 DEF Request
  <2> HIDE DEF p
  <2>4. Counts(Body, p)
    BY <2>1, <2>3, CountsElsewhere DEF Counts, BeforeBody, AfterBody
  <2>5. QED
    BY <2>1, <2>2, <2>4 DEF p
<1>2. \A e \in Executions : Bounded(Body, db'[e])
  BY DEF LInv, Crash
<1>3. QED
  BY <1>1, <1>2 DEF LInv

LEMMA NextCounts ==
    ASSUME NEW Body, Encloses(Body), LInv(Body), [Next]_vars
    PROVE  LInv(Body)'
<1>1. IInv'
  BY NextIInv DEF LInv
<1>2. ASSUME NEW r \in Requests, Begin(r) PROVE LInv(Body)'
  BY <1>1, <1>2, ExecuteCounts, LoadToResumeCounts, LoadWaitingCounts, LoadToCancelCounts
     DEF Begin
<1>3. ASSUME NEW r \in Requests, Advance(r) PROVE LInv(Body)'
  <2>1. CASE NextWaiting(r) \/ Resume(r) \/ CancelExecution(r) \/ SaveCurrentNode(r)
             \/ CreateStep(r) \/ RunTask(r) \/ SetStatus(r) \/ StartLoop(r)
    BY <1>1, <2>1, NextWaitingCounts, ResumeCounts, MoveCounts, CreateStepCounts,
       SetStatusCounts, StartLoopCounts
  <2>2. CASE CheckLoop(r) \/ EndLoop(r) \/ SaveInBody(r) \/ CompleteStep(r)
             \/ MergeResult(r) \/ FinishWithoutEdge(r) \/ FailStep(r)
             \/ FailExecution(r) \/ ReturnToCaller(r)
    BY <1>1, <2>2, MoveCounts, EndLoopCounts, SaveInBodyCounts, MergeResultCounts,
       FailStepCounts, StopCounts
  <2>3. QED
    BY <1>3, <2>1, <2>2 DEF Advance
<1>4. CASE UpdateWorkflow \/ UNCHANGED vars
  BY <1>1, <1>4 DEF UpdateWorkflow, vars, LInv, Counts
<1>5. QED
  BY <1>1, <1>2, <1>3, <1>4, WriteFailsCounts, CrashCounts DEF Next

\* Whatever requests overlap, fail, wait and are restarted, and whatever is edited
\* meanwhile: where loops are left, and begun again, only at their loop_end nodes,
\* no execution counts more iterations than maxIterations.  executeLoopEndNode
\* tests the counter, executeLoopStartNode only counts
THEOREM LoopsBounded == Spec => []LoopWithinBounds
<1>1. CASE ClosedLoops
  <2>1. PICK Body \in [Loops -> SUBSET Nodes] : Encloses(Body)
    BY <1>1 DEF ClosedLoops
  <2>2. Init => LInv(Body)
    <3> SUFFICES ASSUME Init PROVE LInv(Body)
      OBVIOUS
    <3>1. \A e \in Executions : db[e] = NoRow
      BY DEF Init
    <3>2. \A r \in Requests : run[r] = IdleRequest
      BY DEF Init
    <3>3. QED
      BY <3>1, <3>2, InitIInv, NoRowBounded, IdleCounts DEF LInv
  <2>3. LInv(Body) /\ [Next]_vars => LInv(Body)'
    BY <2>1, NextCounts
  <2>4. LInv(Body) => LoopWithinBounds
    BY DEF LInv, Bounded, LoopWithinBounds
  <2>5. QED
    BY <2>2, <2>3, <2>4, PTL DEF Spec
<1>2. CASE ~ClosedLoops
  <2>1. LoopWithinBounds
    BY <1>2 DEF LoopWithinBounds
  <2>2. QED
    BY <2>1, PTL
<1>3. QED
  BY <1>1, <1>2

-----------------------------------------------------------------------------
(***************************************************************************)
(* Requests that do not overlap: what the engine promises to a caller who  *)
(* awaits one request before it sends the next (Overlap = FALSE), for      *)
(* every graph, edit of it, failed write and restart: one answer per wait, *)
(* and, when no write fails, the abstract life cycle of ExecutionLifecycle.*)
(* None of it holds while requests overlap: a stale copy overwrites a row. *)
(***************************************************************************)

\* A request that holds the copy of a row it is going to save
Working(q) == q.pc \notin Ended \cup {"events"}

\* The copy of the working request holds the answer of the row, and its own one
\* until it is saved
CopyInv(r) ==
    LET q == run[r] IN
    Working(q) =>
        /\ q.row.status # "absent"
        /\ q.row.answer = IF q.pc = "resume" THEN {r} ELSE db[q.exec].answer
        /\ q.pc = "resume" => db[q.exec].status \in WaitingStatuses

\* A copy that waits has announced its wait, except while its body saves it or
\* an exception is on its way
WaitInv(r) ==
    LET q == run[r] IN
    Working(q) /\ q.row.status \in WaitingStatuses =>
        /\ q.pc \notin {"bodysave", "catch"} => owed[q.exec] >= 1
        /\ q.pc = "bodysave" => TopType(q) \in WaitTypes

\* The executions an event has still to resume are as its query found them
QueueInv(r) ==
    LET q == run[r] IN
    Live(r) => \A e \in q.queue : /\ db[e].status = "waiting_event"
                                  /\ q.snapshot[e].answer = db[e].answer
                                  /\ r \notin db[e].answer
                                  /\ q.pc # "events" => e # q.exec

\* Before its answer is saved, no row holds it
PayloadInv(r) ==
    LET q == run[r] IN
    /\ q.pc = "resume" => r \notin db[q.exec].answer
    /\ q.pc = "idle" => \A e \in Executions : r \notin db[e].answer

Turn(r) == CopyInv(r) /\ WaitInv(r) /\ QueueInv(r) /\ PayloadInv(r)

\* The waits of an execution that are announced and not resumed
Paid(e) ==
    /\ owed[e] >= 0
    /\ db[e].status \in WaitingStatuses => owed[e] >= 1
    /\ db[e].status = "absent" => db[e].answer = {}

SInv ==
    /\ IInv
    /\ \A r, o \in Requests : Live(r) /\ Live(o) => r = o
    /\ \A e \in Executions : Paid(e)
    /\ \A r \in Requests : Turn(r)

\* The row of the working request, when no write fails
Follows(r) ==
    LET q == run[r] IN
    /\ q.pc \in {"bodysave", "finish", "fail", "catch"} => db[q.exec].status = "running"
    /\ q.pc \in {"enter", "create", "body", "complete", "merge", "return"}
           => db[q.exec].status = q.row.status
    /\ q.pc = "cancel" => db[q.exec].status # "absent"
    /\ q.pc = "bodysave" => q.row.status \in WaitingStatuses \cup {"running", "completed"}

FollowInv == SInv /\ \A r \in Requests : Follows(r)

-----------------------------------------------------------------------------
(* A step of the one live request *)

\* The requests that do not step are not live: they only say that the rows do not
\* hold their answers yet, and no row gains one of another request
LEMMA OthersTurn ==
    ASSUME SInv, NEW r \in Requests, Only(r),
           \A o \in Requests \ {r} : ~Live(o),
           \A e \in Executions : db'[e].answer \in {db[e].answer, {r}}
    PROVE  \A o \in Requests \ {r} : Turn(o)' /\ ~Live(o)'
<1> SUFFICES ASSUME NEW o \in Requests, o # r PROVE Turn(o)' /\ ~Live(o)'
  OBVIOUS
<1>1. run'[o] = run[o] /\ run[o] \in Request /\ Turn(o) /\ ~Live(o)
  BY DEF Only, SInv, IInv, TypeOK
<1>2. run[o].pc \in Ended /\ run[o].pc \notin {"resume"} /\ run[o].exec \in Executions
  BY <1>1 DEF Live, Ended, Request
<1>3. CopyInv(o)' /\ WaitInv(o)' /\ QueueInv(o)' /\ ~Live(o)'
  BY <1>1, <1>2 DEF CopyInv, WaitInv, QueueInv, Working, Live
<1>4. PayloadInv(o)'
  <2>1. PayloadInv(o)
    BY <1>1 DEF Turn
  <2>2. \A e \in Executions : o \in db'[e].answer => o \in db[e].answer
    OBVIOUS
  <2>3. QED
    BY <1>1, <1>2, <2>1, <2>2 DEF PayloadInv
<1>5. QED
  BY <1>3, <1>4 DEF Turn

\* A live request is the only one
LEMMA Alone ==
    ASSUME SInv, NEW r \in Requests, Live(r)
    PROVE  \A o \in Requests \ {r} : ~Live(o)
BY DEF SInv

\* The invariant after a step of r that saves nothing
LEMMA QuietSInv ==
    ASSUME SInv, IInv', NEW r \in Requests, Only(r), \A o \in Requests \ {r} : ~Live(o),
           UNCHANGED <<db, owed>>, Turn(r)'
    PROVE  SInv'
<1>1. \A o \in Requests \ {r} : Turn(o)' /\ ~Live(o)'
  BY OthersTurn
<1>2. \A o \in Requests : Turn(o)'
  BY <1>1
<1>3. \A o, a \in Requests : Live(o)' /\ Live(a)' => o = a
  BY <1>1
<1>4. \A e \in Executions : Paid(e)'
  BY DEF SInv, Paid
<1>5. QED
  BY <1>2, <1>3, <1>4 DEF SInv

\* The copy, the queue and the payload of r after such a step
LEMMA QuietTurn ==
    ASSUME SInv, NEW r \in Requests, Live(r), UNCHANGED <<db, owed>>,
           Kept(run[r], run'[r]), run[r].pc \notin {"events", "resume"},
           run'[r].pc \notin {"idle", "resume"},
           run'[r].row.status # "absent",
           run'[r].row.status \in WaitingStatuses =>
               \/ run'[r].pc \in Ended \cup {"events", "catch"}
               \/ run'[r].pc = "bodysave" /\ TopType(run'[r]) \in WaitTypes
               \/ /\ run'[r].pc # "bodysave"
                  /\ run[r].row.status \in WaitingStatuses /\ run[r].pc \notin {"bodysave", "catch"}
    PROVE  Turn(r)'
<1>1. /\ run[r].pc \notin Ended /\ Working(run[r]) /\ Turn(r)
      /\ run[r].pc # "idle" /\ run[r].pc # "rejected" /\ run[r].pc # "lost"
  BY DEF SInv, Live, Working, Ended
<1>2. /\ run'[r].exec = run[r].exec /\ run'[r].row.answer = run[r].row.answer
      /\ run'[r].op = run[r].op /\ run'[r].queue = run[r].queue
      /\ run'[r].snapshot = run[r].snapshot
  BY DEF Kept
<1>3. CopyInv(r)'
  BY <1>1, <1>2 DEF Turn, CopyInv
<1>4. WaitInv(r)'
  BY <1>1, <1>2 DEF Turn, WaitInv, Working
<1>5. QueueInv(r)'
  BY <1>1, <1>2 DEF Turn, QueueInv, Live
<1>6. PayloadInv(r)'
  BY <1>1, <1>2 DEF Turn, PayloadInv
<1>7. QED
  BY <1>3, <1>4, <1>5, <1>6 DEF Turn

\* A request that is rejected or lost promises nothing
LEMMA EndedTurn ==
    ASSUME NEW r \in Requests, run'[r].pc \in {"rejected", "lost"}
    PROVE  Turn(r)'
BY DEF Turn, CopyInv, WaitInv, QueueInv, PayloadInv, Working, Live, Ended

\* A step that saves the copy
LEMMA SaveSInv ==
    ASSUME SInv, IInv', NEW r \in Requests, Only(r), Live(r), Save(r),
           Kept(run[r], run'[r]), run[r].pc # "events",
           run'[r].pc \notin {"idle", "resume"},
           NEW x \in Nat, owed' = [owed EXCEPT ![run[r].exec] = x],
           run[r].row.status \in WaitingStatuses => x >= 1,
           run'[r].row.status # "absent",
           run'[r].row.status \in WaitingStatuses =>
               run'[r].pc # "bodysave" /\ (run'[r].pc = "catch" \/ x >= 1)
    PROVE  SInv'
<1> DEFINE e0 == run[r].exec
<1>1. /\ run[r].pc \notin Ended /\ Working(run[r]) /\ Turn(r)
      /\ run[r].pc # "idle" /\ run[r].pc # "rejected" /\ run[r].pc # "lost"
  BY DEF SInv, Live, Working, Ended
<1>2. /\ e0 \in Executions /\ db \in [Executions -> Row] /\ owed \in [Executions -> Int]
      /\ run[r] \in Request
  BY DEF SInv, IInv, TypeOK, Request
<1>3. /\ run'[r].exec = e0 /\ run'[r].row.answer = run[r].row.answer
      /\ run'[r].op = run[r].op /\ run'[r].queue = run[r].queue
      /\ run'[r].snapshot = run[r].snapshot
  BY DEF Kept
<1>4. /\ db'[e0] = run[r].row /\ \A e \in Executions : e # e0 => db'[e] = db[e]
  BY <1>2 DEF Save
<1>5. /\ owed'[e0] = x /\ \A e \in Executions : e # e0 => owed'[e] = owed[e]
  BY <1>2
<1> HIDE DEF e0
<1>6. /\ run[r].row.status # "absent"
      /\ run[r].row.answer = IF run[r].pc = "resume" THEN {r} ELSE db[e0].answer
  BY <1>1 DEF Turn, CopyInv, e0
<1>7. \A e \in Executions : db'[e].answer \in {db[e].answer, {r}}
  BY <1>4, <1>6
<1>8. \A o \in Requests \ {r} : Turn(o)' /\ ~Live(o)'
  BY <1>7, Alone, OthersTurn
<1>9. CopyInv(r)'
  BY <1>3, <1>4 DEF CopyInv
<1>10. WaitInv(r)'
  BY <1>3, <1>5 DEF WaitInv
<1>11. QueueInv(r)'
  <2> SUFFICES ASSUME NEW e \in run[r].queue
               PROVE  /\ db'[e].status = "waiting_event"
                      /\ run[r].snapshot[e].answer = db'[e].answer
                      /\ r \notin db'[e].answer /\ e # e0
    BY <1>3 DEF QueueInv
  <2>1. /\ db[e].status = "waiting_event" /\ run[r].snapshot[e].answer = db[e].answer
        /\ r \notin db[e].answer /\ e # e0
    BY <1>1 DEF Turn, QueueInv, e0
  <2>2. e \in Executions
    BY <1>2 DEF Request
  <2>3. QED
    BY <1>4, <2>1, <2>2
<1>12. PayloadInv(r)'
  BY DEF PayloadInv
<1>13. \A o \in Requests : Turn(o)'
  BY <1>8, <1>9, <1>10, <1>11, <1>12 DEF Turn
<1>14. \A o, a \in Requests : Live(o)' /\ Live(a)' => o = a
  BY <1>8
<1>15. \A e \in Executions : Paid(e)'
  <2>1. ASSUME NEW e \in Executions, e # e0 PROVE Paid(e)'
    BY <1>4, <1>5, <2>1 DEF SInv, Paid
  <2>2. ASSUME NEW e \in Executions, e = e0 PROVE Paid(e)'
    BY <1>4, <1>5, <1>6, <2>2 DEF Paid
  <2>3. QED
    BY <2>1, <2>2
<1>16. QED
  BY <1>13, <1>14, <1>15 DEF SInv

-----------------------------------------------------------------------------
(* Beginning a request, when no other one is live *)

LEMMA FreshTurn ==
    ASSUME SInv, NEW r \in Requests, NEW o, Fresh(r, o), NEW e \in Executions,
           run'[r].exec = e, run'[r].queue = {},
           run'[r].pc \in Ended \cup {"resume", "enter", "cancel"}, run'[r].pc # "idle",
           run'[r].pc = "resume" => db'[e].status \in WaitingStatuses /\ r \notin db'[e].answer,
           run'[r].pc \notin Ended =>
               /\ run'[r].row.status \notin WaitingStatuses \cup {"absent"}
               /\ run'[r].row.answer = IF run'[r].pc = "resume" THEN {r} ELSE db'[e].answer
    PROVE  Turn(r)'
<1>1. CopyInv(r)'
  BY DEF CopyInv, Working, Ended
<1>2. WaitInv(r)'
  BY DEF WaitInv, Working, Ended
<1>3. QueueInv(r)'
  BY DEF QueueInv
<1>4. PayloadInv(r)'
  BY DEF PayloadInv
<1>5. QED
  BY <1>1, <1>2, <1>3, <1>4 DEF Turn

LEMMA BeginSInv ==
    ASSUME ~Overlap, SInv, IInv', NEW r \in Requests, Begin(r)
    PROVE  SInv'
<1>1. run[r].pc = "idle" /\ \A o \in Requests : ~Live(o)
  BY DEF Begin, ExecuteWorkflow, LoadToResume, LoadWaiting, LoadToCancel, MayBegin
<1>2. IInv /\ db \in [Executions -> Row] /\ \A e \in Executions : r \notin db[e].answer
  BY <1>1 DEF SInv, Turn, PayloadInv, IInv, TypeOK
<1>3. ASSUME NEW e \in Executions, ExecuteWorkflow(r, e) PROVE SInv'
  <2>1. /\ Fresh(r, "execute") /\ db[e].status = "absent"
        /\ db' = [db EXCEPT ![e] = [NoRow EXCEPT !.status = "running"]]
        /\ run'[r].exec = e /\ run'[r].queue = {}
        /\ run'[r].row.status = "running" /\ run'[r].row.answer = {}
        /\ run'[r].pc \in {"enter", "rejected"}
    BY <1>2, <1>3, ExecuteIs
  <2> DEFINE new == [NoRow EXCEPT !.status = "running"]
  <2>2. new.status = "running" /\ new.answer = {}
    BY DEF NoRow
  <2>3. db' = [db EXCEPT ![e] = new]
    BY <2>1
  <2> HIDE DEF new
  <2>4. /\ db'[e].status = "running" /\ db'[e].answer = {}
        /\ \A x \in Executions : x # e => db'[x] = db[x]
    BY <1>2, <2>2, <2>3
  <2>5. db[e].answer = {}
    BY <2>1 DEF SInv, Paid
  <2>6. \A o \in Requests \ {r} : Turn(o)' /\ ~Live(o)'
    BY <1>1, <2>1, <2>4, <2>5, OthersTurn DEF Fresh
  <2>7. Turn(r)'
    <3>1. /\ run'[r].op = "execute" /\ run'[r].pc # "idle"
          /\ run'[r].pc \in Ended \cup {"resume", "enter", "cancel"}
          /\ run'[r].row.status \notin WaitingStatuses \cup {"absent"}
          /\ run'[r].pc # "resume" /\ run'[r].pc # "cancel"
      BY <2>1 DEF Fresh, Ended, WaitingStatuses
    <3>2. QED
      BY <2>1, <2>4, <3>1, FreshTurn
  <2>8. \A x \in Executions : Paid(x)'
    BY <2>1, <2>4 DEF SInv, Paid, Fresh, WaitingStatuses
  <2>9. QED
    BY <2>6, <2>7, <2>8 DEF SInv
<1>4. ASSUME NEW e \in Executions, NEW o \in {"continue", "approve"}, LoadToResume(r, e, o)
      PROVE  SInv'
  <2>1. /\ Fresh(r, o) /\ UNCHANGED db /\ run'[r].exec = e /\ run'[r].queue = {}
        /\ \/ /\ run'[r].pc = "resume" /\ db[e].status \in WaitingStatuses
              /\ run'[r].row.status = "running"
              /\ run'[r].row.answer = {r}
           \/ run'[r].pc = "rejected"
    BY <1>2, <1>4, LoadToResumeIs
  <2>2. Turn(r)'
    <3>1. CASE run'[r].pc = "rejected"
      BY <3>1, EndedTurn
    <3>2. CASE run'[r].pc = "resume"
      <4>1. /\ run'[r].row.status \notin WaitingStatuses \cup {"absent"}
            /\ run'[r].row.answer = {r}
            /\ db'[e].status \in WaitingStatuses /\ r \notin db'[e].answer
            /\ run'[r].pc \notin Ended
        BY <1>2, <2>1, <3>2 DEF WaitingStatuses, Ended
      <4>2. QED
        BY <2>1, <3>2, <4>1, FreshTurn
    <3>3. QED
      BY <2>1, <3>1, <3>2
  <2>3. QED
    BY <1>1, <2>1, <2>2, QuietSInv DEF Fresh
<1>5. CASE LoadWaiting(r)
  <2>1. /\ Fresh(r, "event") /\ UNCHANGED db /\ run'[r].pc = "events"
        /\ run'[r].snapshot = db
        /\ run'[r].queue = {e \in Executions : db[e].status = "waiting_event"}
    BY <1>2, <1>5, LoadWaitingIs
  <2>2. Turn(r)'
    <3>1. QueueInv(r)'
      BY <1>2, <2>1 DEF QueueInv
    <3>2. CopyInv(r)' /\ WaitInv(r)' /\ PayloadInv(r)'
      BY <2>1 DEF CopyInv, WaitInv, PayloadInv, Working, Fresh
    <3>3. QED
      BY <3>1, <3>2 DEF Turn
  <2>3. QED
    BY <1>1, <2>1, <2>2, QuietSInv DEF Fresh
<1>6. ASSUME NEW e \in Executions, LoadToCancel(r, e) PROVE SInv'
  <2>1. /\ Fresh(r, "cancel") /\ UNCHANGED db /\ run'[r].exec = e /\ run'[r].queue = {}
        /\ run'[r].pc = "cancel" /\ run'[r].row.status = "cancelled"
        /\ run'[r].row.answer = db[e].answer
    BY <1>2, <1>6, LoadToCancelIs
  <2>2. Turn(r)'
    <3>1. run'[r].row.status \notin WaitingStatuses \cup {"absent"} /\ run'[r].op = "cancel"
      BY <2>1 DEF WaitingStatuses, Fresh
    <3>2. QED
      BY <2>1, <3>1, FreshTurn
  <2>3. QED
    BY <1>1, <2>1, <2>2, QuietSInv DEF Fresh
<1>7. QED
  BY <1>3, <1>4, <1>5, <1>6 DEF Begin

-----------------------------------------------------------------------------
(* The steps of a request *)

\* The next execution of an event is still as the query found it
LEMMA NextWaitingSInv ==
    ASSUME SInv, IInv', NEW r \in Requests, NextWaiting(r)
    PROVE  SInv'
<1>1. /\ run[r].pc = "events" /\ Only(r) /\ UNCHANGED <<db, owed>>
      /\ run'[r].op = run[r].op /\ run'[r].snapshot = run[r].snapshot
      /\ \/ /\ run'[r].pc \in {"done", "events"} /\ run'[r].queue \subseteq run[r].queue
            /\ run'[r].exec = run[r].exec
         \/ \E e \in run[r].queue :
               /\ run'[r].pc = "resume" /\ run'[r].exec = e
               /\ run'[r].queue = run[r].queue \ {e}
               /\ run'[r].row.status = "running"
               /\ run'[r].row.answer = {r}
  BY NextWaitingIs DEF SInv
<1>2. Live(r) /\ Turn(r) /\ run[r].pc # "idle" /\ run[r].pc # "rejected"
  BY <1>1 DEF SInv, Live, Ended
<1>3. \A e \in run[r].queue : /\ db[e].status = "waiting_event"
                              /\ run[r].snapshot[e].answer = db[e].answer
                              /\ r \notin db[e].answer
  BY <1>2 DEF Turn, QueueInv
<1>4. Turn(r)'
  <2>1. CASE /\ run'[r].pc \in {"done", "events"} /\ run'[r].queue \subseteq run[r].queue
             /\ run'[r].exec = run[r].exec
    <3>1. CopyInv(r)' /\ WaitInv(r)'
      BY <2>1 DEF CopyInv, WaitInv, Working, Ended
    <3>2. QueueInv(r)'
      BY <1>1, <1>3, <2>1 DEF QueueInv, Live, Ended
    <3>3. PayloadInv(r)'
      BY <2>1 DEF PayloadInv
    <3>4. QED
      BY <3>1, <3>2, <3>3 DEF Turn
  <2>2. ASSUME NEW e \in run[r].queue,
               run'[r].pc = "resume", run'[r].exec = e,
               run'[r].queue = run[r].queue \ {e},
               run'[r].row.status = "running",
               run'[r].row.answer = {r}
        PROVE  Turn(r)'
    <3>1. CopyInv(r)' /\ WaitInv(r)'
      BY <1>1, <1>3, <2>2 DEF CopyInv, WaitInv, WaitingStatuses
    <3>2. QueueInv(r)'
      BY <1>1, <1>3, <2>2 DEF QueueInv
    <3>3. PayloadInv(r)'
      BY <1>1, <1>3, <2>2 DEF PayloadInv
    <3>4. QED
      BY <3>1, <3>2, <3>3 DEF Turn
  <2>3. QED
    BY <1>1, <2>1, <2>2
<1>5. QED
  BY <1>1, <1>2, <1>4, Alone, QuietSInv

LEMMA LiveFacts ==
    ASSUME SInv, NEW r \in Requests, run[r].pc \notin Ended \cup {"events"}
    PROVE  /\ Live(r) /\ IInv /\ run[r] \in Request /\ run[r].exec \in Executions
           /\ run[r].row.status # "absent"
           /\ owed[run[r].exec] \in Nat /\ owed \in [Executions -> Int]
           /\ run[r].row.status \in WaitingStatuses =>
                /\ run[r].pc \notin {"bodysave", "catch"} => owed[run[r].exec] >= 1
                /\ run[r].pc = "bodysave" => TopType(run[r]) \in WaitTypes
           /\ run[r].pc = "resume" => owed[run[r].exec] >= 1
<1>1. Live(r) /\ Working(run[r]) /\ Turn(r) /\ IInv
  BY DEF Live, Working, SInv
<1>2. run[r] \in Request /\ run[r].exec \in Executions /\ owed \in [Executions -> Int]
  BY <1>1 DEF IInv, TypeOK, Request
<1>3. Paid(run[r].exec)
  BY <1>2 DEF SInv
<1>4. owed[run[r].exec] \in Nat
  BY <1>2, <1>3 DEF Paid
<1>5. QED
  BY <1>1, <1>2, <1>3, <1>4 DEF Turn, CopyInv, WaitInv, Paid

LEMMA ResumeSInv ==
    ASSUME SInv, IInv', NEW r \in Requests, Resume(r) PROVE SInv'
<1>1. run[r].pc = "resume" /\ run[r].pc \notin Ended \cup {"events"}
  BY DEF Resume, Ended
<1>2. /\ Live(r) /\ IInv /\ owed[run[r].exec] \in Nat /\ owed[run[r].exec] >= 1
  BY <1>1, LiveFacts
<1> DEFINE x == owed[run[r].exec] - 1
<1>3. x \in Nat
  BY <1>2
<1>4. /\ Kept(run[r], run'[r]) /\ Only(r) /\ Save(r) /\ owed' = [owed EXCEPT ![run[r].exec] = x]
      /\ run[r].row.status = "running" /\ run'[r].pc \notin {"idle", "resume"}
      /\ run'[r].row.status \in {"running", "completed", "failed"}
  BY <1>2, ResumeIs
<1> HIDE DEF x
<1>5. /\ run[r].row.status \notin WaitingStatuses /\ run'[r].row.status # "absent"
      /\ run'[r].row.status \notin WaitingStatuses
  BY <1>4 DEF WaitingStatuses
<1>6. QED
  BY <1>1, <1>2, <1>3, <1>4, <1>5, SaveSInv

\* A save that leaves the count of waits alone
LEMMA PlainSaveSInv ==
    ASSUME SInv, IInv', NEW r \in Requests, Only(r), Save(r), Kept(run[r], run'[r]),
           owed' = owed, run[r].pc \notin Ended \cup {"events", "resume", "bodysave", "catch"},
           run'[r].pc \notin {"idle", "resume", "bodysave"},
           \/ run'[r].row.status = run[r].row.status
           \/ run'[r].row.status \in {"running", "completed"}
    PROVE  SInv'
<1> DEFINE x == owed[run[r].exec]
<1>1. /\ Live(r) /\ run[r].row.status # "absent" /\ x \in Nat /\ owed \in [Executions -> Int]
      /\ run[r].row.status \in WaitingStatuses => x >= 1
  BY LiveFacts
<1>2. owed' = [owed EXCEPT ![run[r].exec] = x]
  BY <1>1
<1> HIDE DEF x
<1>3. run'[r].row.status # "absent" /\ (run'[r].row.status \in WaitingStatuses => x >= 1)
  BY <1>1 DEF WaitingStatuses
<1>4. QED
  BY <1>1, <1>2, <1>3, SaveSInv

LEMMA SaveInBodySInv ==
    ASSUME SInv, IInv', NEW r \in Requests, SaveInBody(r) PROVE SInv'
<1>1. run[r].pc = "bodysave" /\ run[r].pc \notin Ended \cup {"events"}
  BY DEF SaveInBody, Ended
<1>2. /\ Live(r) /\ IInv /\ owed[run[r].exec] \in Nat /\ run[r].row.status # "absent"
      /\ run[r].row.status \in WaitingStatuses => TopType(run[r]) \in WaitTypes
  BY <1>1, LiveFacts
<1> DEFINE x == IF TopType(run[r]) \in WaitTypes THEN owed[run[r].exec] + 1
                ELSE owed[run[r].exec]
<1>3. x \in Nat /\ (run[r].row.status \in WaitingStatuses => x >= 1)
  BY <1>2
<1>4. /\ Kept(run[r], run'[r]) /\ Only(r) /\ Save(r) /\ run'[r].row = run[r].row
      /\ run'[r].pc = "complete"
      /\ owed' = [owed EXCEPT ![run[r].exec] =
                      IF TopType(run[r]) \in WaitTypes THEN @ + 1 ELSE @]
  BY <1>2, SaveInBodyIs
<1>5. owed' = [owed EXCEPT ![run[r].exec] = x]
  BY <1>4
<1> HIDE DEF x
<1>6. QED
  BY <1>1, <1>2, <1>3, <1>4, <1>5, SaveSInv

\* A step that saves nothing
LEMMA QuietStepSInv ==
    ASSUME SInv, IInv', NEW r \in Requests, Only(r), Kept(run[r], run'[r]),
           UNCHANGED <<db, owed>>, run[r].pc \notin Ended \cup {"events", "resume"},
           run'[r].pc \notin {"idle", "resume"},
           \/ run'[r].row.status \in {"running", "completed", "failed"}
           \/ /\ run'[r].row.status = run[r].row.status
              /\ run'[r].pc \in Ended \cup {"events", "catch"}
           \/ /\ run'[r].row.status = run[r].row.status /\ run'[r].pc # "bodysave"
              /\ run[r].pc \notin {"bodysave", "catch"}
           \/ /\ run'[r].row.status \in WaitingStatuses
              /\ run'[r].pc = "bodysave" /\ TopType(run'[r]) \in WaitTypes
    PROVE  SInv'
<1>1. Live(r) /\ run[r].row.status # "absent"
  BY LiveFacts
<1>2. run'[r].row.status # "absent"
  BY <1>1 DEF WaitingStatuses
<1>3. run'[r].row.status \in WaitingStatuses =>
          \/ run'[r].pc \in Ended \cup {"events", "catch"}
          \/ run'[r].pc = "bodysave" /\ TopType(run'[r]) \in WaitTypes
          \/ /\ run'[r].pc # "bodysave"
             /\ run[r].row.status \in WaitingStatuses /\ run[r].pc \notin {"bodysave", "catch"}
  BY DEF WaitingStatuses
<1>4. Turn(r)'
  BY <1>1, <1>2, <1>3, QuietTurn
<1>5. QED
  BY <1>1, <1>4, Alone, QuietSInv

LEMMA AdvanceSInv ==
    ASSUME SInv, IInv', NEW r \in Requests, Advance(r) PROVE SInv'
<1>1. IInv /\ (run[r].pc \in {"enter", "create", "body"} => run[r].row.status = "running")
  BY DEF SInv, IInv, Good, PointInv
<1>2. CASE NextWaiting(r)
  BY <1>2, NextWaitingSInv
<1>3. CASE Resume(r)
  BY <1>3, ResumeSInv
<1>4. CASE CancelExecution(r) \/ SaveCurrentNode(r) \/ RunTask(r) \/ CheckLoop(r) \/ CompleteStep(r)
  <2>1. /\ Kept(run[r], run'[r]) /\ Only(r) /\ run'[r].row = run[r].row /\ owed' = owed
        /\ \/ run[r].pc = "cancel" /\ run'[r].pc = "done" /\ Save(r)
           \/ run[r].pc = "enter" /\ run'[r].pc = "create" /\ Save(r)
           \/ run[r].pc = "body" /\ run'[r].pc \in {"complete", "catch"} /\ UNCHANGED db
           \/ run[r].pc = "complete" /\ run'[r].pc = "merge" /\ db' = db
    BY <1>1, <1>4, MoveIs
  <2>2. CASE run[r].pc \in {"cancel", "enter"} /\ run'[r].pc \in {"done", "create"} /\ Save(r)
    BY <2>1, <2>2, PlainSaveSInv DEF Ended
  <2>3. CASE /\ run[r].pc \in {"body", "complete"} /\ run'[r].pc \in {"complete", "catch", "merge"}
             /\ UNCHANGED db
    BY <2>1, <2>3, QuietStepSInv DEF Ended
  <2>4. QED
    BY <2>1, <2>2, <2>3
<1>5. CASE CreateStep(r)
  <2>1. /\ Kept(run[r], run'[r]) /\ Only(r) /\ run'[r].row = run[r].row
        /\ run[r].pc = "create" /\ run'[r].pc = "body" /\ UNCHANGED <<db, owed>>
    BY <1>1, <1>5, CreateStepIs
  <2>2. QED
    BY <2>1, QuietStepSInv DEF Ended
<1>6. CASE SetStatus(r) \/ StartLoop(r)
  <2>1. /\ Kept(run[r], run'[r]) /\ Only(r) /\ run[r].pc = "body" /\ run'[r].pc = "bodysave"
        /\ run'[r].stack = run[r].stack /\ UNCHANGED <<db, owed>>
        /\ \/ /\ TopType(run[r]) \in WaitTypes \cup {"end"}
              /\ run'[r].row.status = StatusSetBy(TopType(run[r]))
           \/ run'[r].row.status = "running"
    BY <1>1, <1>6, SavePrepared
  <2>2. TopType(run'[r]) = TopType(run[r])
    BY <2>1, SameTopType
  <2>3. \/ run'[r].row.status \in {"running", "completed", "failed"}
        \/ run'[r].row.status \in WaitingStatuses /\ TopType(run'[r]) \in WaitTypes
    BY <2>1, <2>2 DEF StatusSetBy, WaitTypes, WaitingStatuses
  <2>4. QED
    BY <2>1, <2>3, QuietStepSInv DEF Ended
<1>7. CASE EndLoop(r)
  <2>1. /\ Kept(run[r], run'[r]) /\ Only(r) /\ run[r].pc = "body"
        /\ run'[r].pc \in {"catch", "bodysave", "enter"} /\ UNCHANGED <<db, owed>>
        /\ run'[r].row.status = "running"
    BY <1>1, <1>7, EndLoopIs
  <2>2. QED
    BY <2>1, QuietStepSInv DEF Ended
<1>8. CASE SaveInBody(r)
  BY <1>8, SaveInBodySInv
<1>9. CASE MergeResult(r)
  <2>1. /\ Kept(run[r], run'[r]) /\ Only(r) /\ run[r].pc = "merge" /\ Save(r) /\ owed' = owed
        /\ run'[r].pc \in {"return", "finish", "enter", "catch"}
        /\ \/ run'[r].row.status = run[r].row.status
           \/ run'[r].row.status \in {"running", "completed"}
    BY <1>1, <1>9, MergeResultIs
  <2>2. QED
    BY <2>1, PlainSaveSInv DEF Ended
<1>10. CASE FinishWithoutEdge(r)
  <2>1. /\ Kept(run[r], run'[r]) /\ Only(r) /\ run[r].pc = "finish" /\ Save(r) /\ owed' = owed
        /\ run'[r].pc = "return" /\ run'[r].row.status = run[r].row.status
    BY <1>1, <1>10, FinishIs
  <2>2. QED
    BY <2>1, PlainSaveSInv DEF Ended
<1>11. CASE FailStep(r)
  <2>1. /\ Kept(run[r], run'[r]) /\ Only(r) /\ run[r].pc = "catch" /\ UNCHANGED <<db, owed>>
        /\ run'[r].pc = "fail" /\ run'[r].row.status = "failed"
    BY <1>1, <1>11, FailStepIs
  <2>2. QED
    BY <2>1, QuietStepSInv DEF Ended
<1>12. CASE FailExecution(r)
  <2>1. /\ Kept(run[r], run'[r]) /\ Only(r) /\ run[r].pc = "fail" /\ Save(r) /\ owed' = owed
        /\ run'[r].pc = "return" /\ run'[r].row.status = run[r].row.status
    BY <1>1, <1>12, FailExecutionIs
  <2>2. QED
    BY <2>1, PlainSaveSInv DEF Ended
<1>13. CASE ReturnToCaller(r)
  <2>1. /\ Kept(run[r], run'[r]) /\ Only(r) /\ run[r].pc = "return" /\ UNCHANGED <<db, owed>>
        /\ run'[r].pc \in {"events", "done", "complete", "return"}
        /\ run'[r].row.status = run[r].row.status
    BY <1>1, <1>13, ReturnToCallerIs
  <2>2. QED
    BY <2>1, QuietStepSInv DEF Ended
<1>14. QED
  BY <1>2, <1>3, <1>4, <1>5, <1>6, <1>7, <1>8, <1>9, <1>10, <1>11, <1>12, <1>13 DEF Advance

LEMMA WriteFailsSInv ==
    ASSUME SInv, IInv', NEW r \in Requests, WriteFails(r) PROVE SInv'
<1>1. IInv /\ run[r] \in Request /\ run[r].stack \in Seq(Frame) /\ UNCHANGED <<db, owed>>
  BY DEF SInv, IInv, TypeOK, Request, WriteFails
<1>2. /\ run[r].pc \in {"bodysave", "complete", "merge", "finish", "enter", "create", "catch",
                        "fail", "resume", "cancel"}
      /\ run[r].pc \notin Ended \cup {"events"} /\ Live(r)
  BY DEF WriteFails, Ended, Live
<1>3. CASE Goto(r, "rejected")
  <2>1. run'[r].pc = "rejected" /\ Only(r)
    BY <1>1, <1>3, GotoIs DEF PCs
  <2>2. QED
    BY <1>1, <1>2, <2>1, EndedTurn, Alone, QuietSInv
<1>4. ASSUME NEW s \in Seq(Frame), run' = [run EXCEPT ![r] = Throw(run[r], s)],
             run[r].pc # "resume"
      PROVE  SInv'
  <2>1. run'[r] = Throw(run[r], s) /\ Only(r)
    BY <1>1, <1>4, BecomesIs
  <2>2. /\ Kept(run[r], run'[r])
        /\ \/ run'[r].pc \in {"catch", "rejected"} /\ run'[r].row.status = run[r].row.status
           \/ run'[r].pc = "fail" /\ run'[r].row.status = "failed"
    BY <1>1, <2>1, ThrowIs
  <2>3. QED
    BY <1>1, <1>2, <1>4, <2>1, <2>2, QuietStepSInv DEF Ended
<1>5. Pop(run[r].stack) \in Seq(Frame)
  BY <1>1, PopType
<1>6. \/ Goto(r, "rejected")
      \/ run' = [run EXCEPT ![r] = Throw(run[r], run[r].stack)] /\ run[r].pc # "resume"
      \/ run' = [run EXCEPT ![r] = Throw(run[r], Pop(run[r].stack))] /\ run[r].pc # "resume"
  BY DEF WriteFails
<1>7. QED
  BY <1>1, <1>3, <1>4, <1>5, <1>6

LEMMA CrashSInv == ASSUME SInv, IInv', Crash PROVE SInv'
<1>1. UNCHANGED <<db, owed>> /\ run \in [Requests -> Request]
  BY DEF Crash, SInv, IInv, TypeOK
<1>2. \A r \in Requests :
          run'[r] = IF Live(r) THEN [run[r] EXCEPT !.pc = "lost"] ELSE run[r]
  BY DEF Crash
<1>3. ASSUME NEW r \in Requests PROVE Turn(r)' /\ ~Live(r)'
  <2>1. CASE Live(r)
    <3>1. run'[r].pc = "lost"
      BY <1>1, <1>2, <2>1 DEF Request
    <3>2. QED
      BY <3>1, EndedTurn DEF Live, Ended
  <2>2. CASE ~Live(r)
    <3>1. run'[r] = run[r] /\ Turn(r)
      BY <1>2, <2>2 DEF SInv
    <3>2. QED
      BY <1>1, <2>2, <3>1 DEF Turn, CopyInv, WaitInv, QueueInv, PayloadInv, Live, Working
  <2>3. QED
    BY <2>1, <2>2
<1>4. \A e \in Executions : Paid(e)'
  BY <1>1 DEF SInv, Paid
<1>5. QED
  BY <1>3, <1>4 DEF SInv

LEMMA UnchangedSInv == ASSUME SInv, IInv', UNCHANGED <<db, run, owed>> PROVE SInv'
BY DEF SInv, Turn, CopyInv, WaitInv, QueueInv, PayloadInv, Live, Working, Paid, TopType

LEMMA NextSInv == ASSUME ~Overlap, SInv, [Next]_vars PROVE SInv'
<1>1. IInv'
  BY NextIInv DEF SInv
<1>2. CASE UpdateWorkflow \/ UNCHANGED vars
  BY <1>1, <1>2, UnchangedSInv DEF UpdateWorkflow, vars
<1>3. QED
  BY <1>1, <1>2, BeginSInv, AdvanceSInv, WriteFailsSInv, CrashSInv DEF Next

LEMMA InitSInv == ASSUME Init PROVE SInv
<1>1. IInv
  BY InitIInv
<1>2. /\ IdleRequest.pc = "idle" /\ IdleRequest.op = "none" /\ IdleRequest.queue = {}
      /\ NoRow.status = "absent" /\ NoRow.answer = {}
  BY DEF IdleRequest, NoRow
<1>3. \A r \in Requests : run[r] = IdleRequest /\ ~Live(r)
  BY <1>2 DEF Init, Live, Ended
<1>4. \A e \in Executions : db[e] = NoRow /\ owed[e] = 0
  BY DEF Init
<1>5. \A e \in Executions : Paid(e)
  BY <1>2, <1>4 DEF Paid, WaitingStatuses
<1>6. \A r \in Requests : Turn(r)
  BY <1>2, <1>3, <1>4 DEF Turn, CopyInv, WaitInv, QueueInv, PayloadInv, Working, Live, Ended
<1>7. QED
  BY <1>1, <1>3, <1>5, <1>6 DEF SInv

LEMMA SerialInvariance == ASSUME ~Overlap PROVE Spec => []SInv
<1>1. Init => SInv
  BY InitSInv
<1>2. SInv /\ [Next]_vars => SInv'
  BY NextSInv
<1>3. QED
  BY <1>1, <1>2, PTL DEF Spec

\* Requests that do not overlap resume every wait at most once, whatever writes
\* fail, whenever the process restarts, however the workflow is edited
THEOREM OneResumePerWait == ASSUME ~Overlap PROVE Spec => []ResumedOncePerWait
<1>1. SInv => ResumedOncePerWait
  BY DEF SInv, Paid, ResumedOncePerWait
<1>2. QED
  BY <1>1, SerialInvariance, PTL

-----------------------------------------------------------------------------
(* The abstract life cycle *)

\* What a step means for somebody who only sees the status and the answer of the rows
LifeMove == [Life!Next]_<<[e \in Executions |-> db[e].status],
                          [e \in Executions |-> db[e].answer]>>

\* The rows an execution may come to, from row old, in one step
MayBecome(old, row) ==
    \/ /\ row.answer = old.answer
       /\ \/ row.status = old.status
          \/ old.status = "absent" /\ row.status = "running"
          \/ old.status = "running" /\ row.status \in WaitingStatuses \cup {"completed", "failed"}
          \/ old.status # "absent" /\ row.status = "cancelled"
    \/ /\ old.status \in WaitingStatuses /\ row.status = "running"
       /\ \E p \in Requests : old.answer # {p} /\ row.answer = {p}

LEMMA RowMoves ==
    ASSUME IInv, NEW e \in Executions, NEW row \in Row, db' = [db EXCEPT ![e] = row],
           MayBecome(db[e], row)
    PROVE  LifeMove
<1> DEFINE status == [x \in Executions |-> db[x].status]
           answer == [x \in Executions |-> db[x].answer]
<1>1. db \in [Executions -> Row]
  BY DEF IInv, TypeOK
<1>2. db'[e] = row /\ \A x \in Executions : x # e => db'[x] = db[x]
  BY <1>1
<1>3. [x \in Executions |-> db'[x].status] = [status EXCEPT ![e] = row.status]
  <2>1. [status EXCEPT ![e] = row.status]
          = [x \in Executions |-> IF x = e THEN row.status ELSE db[x].status]
    OBVIOUS
  <2>2. \A x \in Executions : db'[x].status = IF x = e THEN row.status ELSE db[x].status
    BY <1>2
  <2>3. QED
    BY <2>1, <2>2
<1>4. [x \in Executions |-> db'[x].answer] = [answer EXCEPT ![e] = row.answer]
  <2>1. [answer EXCEPT ![e] = row.answer]
          = [x \in Executions |-> IF x = e THEN row.answer ELSE db[x].answer]
    OBVIOUS
  <2>2. \A x \in Executions : db'[x].answer = IF x = e THEN row.answer ELSE db[x].answer
    BY <1>2
  <2>3. QED
    BY <2>1, <2>2
<1>5. status[e] = db[e].status /\ answer[e] = db[e].answer
  OBVIOUS
<1>6. CASE row.answer = db[e].answer
  <2>1. [x \in Executions |-> db'[x].answer] = answer
    BY <1>2, <1>6
  <2>2. CASE row.status = db[e].status
    <3>1. [x \in Executions |-> db'[x].status] = status
      BY <1>2, <2>2
    <3>2. QED
      BY <2>1, <3>1 DEF LifeMove
  <2>3. CASE db[e].status = "absent" /\ row.status = "running"
    BY <1>3, <1>5, <2>1, <2>3 DEF LifeMove, Life!Next, Life!Start
  <2>4. CASE db[e].status = "running" /\ row.status \in WaitingStatuses
    BY <1>3, <1>5, <2>1, <2>4 DEF LifeMove, Life!Next, Life!Wait, Life!Waiting, WaitingStatuses
  <2>5. CASE db[e].status = "running" /\ row.status \in {"completed", "failed"}
    BY <1>3, <1>5, <2>1, <2>5 DEF LifeMove, Life!Next, Life!End
  <2>6. CASE db[e].status # "absent" /\ row.status = "cancelled"
    BY <1>3, <1>5, <2>1, <2>6 DEF LifeMove, Life!Next, Life!Cancel
  <2>7. CASE /\ db[e].status \in WaitingStatuses /\ row.status = "running"
             /\ \E p \in Requests : db[e].answer # {p} /\ row.answer = {p}
    BY <1>6, <2>7
  <2>8. QED
    BY <2>2, <2>3, <2>4, <2>5, <2>6, <2>7 DEF MayBecome
<1>7. CASE /\ db[e].status \in WaitingStatuses /\ row.status = "running"
           /\ \E p \in Requests : db[e].answer # {p} /\ row.answer = {p}
  <2>1. PICK p \in Requests : db[e].answer # {p} /\ row.answer = {p}
    BY <1>7
  <2>2. Life!Resume(e, p)
    BY <1>3, <1>4, <1>5, <1>7, <2>1 DEF Life!Resume, Life!Waiting, WaitingStatuses
  <2>3. QED
    BY <2>2 DEF LifeMove, Life!Next
<1>8. QED
  BY <1>6, <1>7 DEF MayBecome

LEMMA RowsStay == ASSUME UNCHANGED db PROVE LifeMove
BY DEF LifeMove

\* The save of a working request
LEMMA SaveMoves ==
    ASSUME SInv, NEW r \in Requests, Save(r), run[r].pc \notin Ended \cup {"events"},
           LET old == db[run[r].exec].status
               new == run[r].row.status
           IN \/ run[r].pc # "resume"
                 /\ \/ new = old
                    \/ old = "running" /\ new \in WaitingStatuses \cup {"completed", "failed"}
                    \/ old # "absent" /\ new = "cancelled"
              \/ run[r].pc = "resume" /\ new = "running"
    PROVE  LifeMove
<1>1. IInv /\ run[r].exec \in Executions /\ run[r].row \in Row /\ Turn(r) /\ Working(run[r])
  BY DEF SInv, IInv, TypeOK, Request, Working
<1>2. /\ run[r].row.answer = IF run[r].pc = "resume" THEN {r} ELSE db[run[r].exec].answer
      /\ run[r].pc = "resume" => /\ db[run[r].exec].status \in WaitingStatuses
                                 /\ r \notin db[run[r].exec].answer
  BY <1>1 DEF Turn, CopyInv, PayloadInv
<1>3. MayBecome(db[run[r].exec], run[r].row)
  <2>1. CASE run[r].pc # "resume"
    <3>1. run[r].row.answer = db[run[r].exec].answer
      BY <1>2, <2>1
    <3>2. QED
      BY <2>1, <3>1 DEF MayBecome
  <2>2. CASE run[r].pc = "resume"
    BY <1>2, <2>2 DEF MayBecome
  <2>3. QED
    BY <2>1, <2>2
<1>4. QED
  BY <1>1, <1>3, RowMoves DEF Save

\* What the save leaves in the row
LEMMA SavedRow ==
    ASSUME IInv, NEW r \in Requests, Save(r), Kept(run[r], run'[r])
    PROVE  db'[run'[r].exec] = run[r].row
BY DEF IInv, TypeOK, Save, Request, Kept

LEMMA BeginFollows ==
    ASSUME ~Overlap, FollowInv, NEW r \in Requests, Begin(r)
    PROVE  Only(r) /\ Follows(r)' /\ LifeMove
<1>1. IInv /\ SInv /\ db \in [Executions -> Row]
  BY DEF FollowInv, SInv, IInv, TypeOK
<1>2. ASSUME NEW e \in Executions, ExecuteWorkflow(r, e)
      PROVE  Only(r) /\ Follows(r)' /\ LifeMove
  <2> DEFINE new == [NoRow EXCEPT !.status = "running"]
  <2>1. new \in Row /\ new.status = "running" /\ new.answer = {}
    BY DEF NoRow, Row, Statuses
  <2>2. /\ Only(r) /\ db[e].status = "absent" /\ run'[r].exec = e
        /\ db' = [db EXCEPT ![e] = [NoRow EXCEPT !.status = "running"]]
        /\ run'[r].row.status = "running" /\ run'[r].pc \in {"enter", "rejected"}
    BY <1>1, <1>2, ExecuteIs DEF Fresh
  <2>3. db' = [db EXCEPT ![e] = new]
    BY <2>2
  <2> HIDE DEF new
  <2>4. db'[e].status = "running"
    BY <1>1, <2>1, <2>3
  <2>5. Follows(r)'
    BY <2>2, <2>4 DEF Follows
  <2>6. db[e].answer = {}
    BY <1>1, <2>2 DEF SInv, Paid
  <2>7. MayBecome(db[e], new)
    BY <2>1, <2>2, <2>6 DEF MayBecome
  <2>8. QED
    BY <1>1, <2>1, <2>2, <2>3, <2>5, <2>7, RowMoves
<1>3. CASE \E e \in Executions, o \in {"continue", "approve"} : LoadToResume(r, e, o)
  <2>1. Only(r) /\ UNCHANGED db /\ run'[r].pc \in {"resume", "rejected"}
    BY <1>1, <1>3, LoadToResumeIs DEF Fresh
  <2>2. QED
    BY <2>1, RowsStay DEF Follows
<1>4. CASE LoadWaiting(r)
  <2>1. Only(r) /\ UNCHANGED db /\ run'[r].pc = "events"
    BY <1>1, <1>4, LoadWaitingIs DEF Fresh
  <2>2. QED
    BY <2>1, RowsStay DEF Follows
<1>5. ASSUME NEW e \in Executions, LoadToCancel(r, e)
      PROVE  Only(r) /\ Follows(r)' /\ LifeMove
  <2>1. /\ Only(r) /\ UNCHANGED db /\ run'[r].pc = "cancel" /\ run'[r].exec = e
        /\ db[e].status # "absent"
    BY <1>1, <1>5, LoadToCancelIs DEF Fresh
  <2>2. QED
    BY <2>1, RowsStay DEF Follows
<1>6. QED
  BY <1>2, <1>3, <1>4, <1>5 DEF Begin

LEMMA AdvanceFollows ==
    ASSUME FollowInv, NEW r \in Requests, Advance(r)
    PROVE  Only(r) /\ Follows(r)' /\ LifeMove
<1>1. IInv /\ SInv /\ Follows(r)
  BY DEF FollowInv, SInv
<1>2. /\ run[r].pc \in {"enter", "create", "body"} => run[r].row.status = "running"
      /\ run[r].pc = "resume" => run[r].row.status = "running"
      /\ run[r].pc = "cancel" => run[r].row.status = "cancelled"
      /\ run[r].pc = "fail" => run[r].row.status = "failed"
  BY <1>1 DEF IInv, Good, PointInv
<1>3. CASE NextWaiting(r)
  <2>1. Only(r) /\ UNCHANGED db /\ run'[r].pc \in {"done", "events", "resume"}
    BY <1>1, <1>3, NextWaitingIs
  <2>2. QED
    BY <2>1, RowsStay DEF Follows
<1>4. CASE Resume(r)
  <2>1. /\ Kept(run[r], run'[r]) /\ Only(r) /\ Save(r)
        /\ run[r].pc = "resume" /\ run[r].row.status = "running"
        /\ \/ run'[r].pc \in {"done", "rejected", "finish", "catch", "fail"}
           \/ run'[r].pc = "enter" /\ run'[r].row.status = "running"
    BY <1>1, <1>4, ResumeIs
  <2>2. db'[run'[r].exec].status = "running"
    BY <1>1, <2>1, SavedRow
  <2>3. Follows(r)'
    BY <2>1, <2>2 DEF Follows
  <2>4. LifeMove
    BY <1>1, <2>1, SaveMoves DEF Ended
  <2>5. QED
    BY <2>1, <2>3, <2>4
<1>5. CASE CancelExecution(r) \/ SaveCurrentNode(r)
  <2>1. /\ Kept(run[r], run'[r]) /\ Only(r) /\ run'[r].row = run[r].row /\ Save(r)
        /\ \/ run[r].pc = "cancel" /\ run'[r].pc = "done"
           \/ run[r].pc = "enter" /\ run'[r].pc = "create"
    BY <1>1, <1>5, MoveIs DEF CancelExecution, SaveCurrentNode
  <2>2. db'[run'[r].exec] = run[r].row
    BY <1>1, <2>1, SavedRow
  <2>3. Follows(r)'
    BY <2>1, <2>2 DEF Follows
  <2>4. LifeMove
    BY <1>1, <1>2, <2>1, SaveMoves DEF Ended, Follows
  <2>5. QED
    BY <2>1, <2>3, <2>4
<1>6. CASE RunTask(r) \/ CheckLoop(r) \/ CompleteStep(r)
  <2>1. /\ Kept(run[r], run'[r]) /\ Only(r) /\ run'[r].row = run[r].row /\ UNCHANGED db
        /\ \/ run[r].pc = "body" /\ run'[r].pc \in {"complete", "catch"}
           \/ run[r].pc = "complete" /\ run'[r].pc = "merge"
    BY <1>1, <1>6, MoveIs DEF RunTask, CheckLoop, CompleteStep
  <2>2. QED
    BY <1>1, <1>2, <2>1, RowsStay DEF Follows, Kept
<1>7. CASE CreateStep(r)
  <2>1. /\ Kept(run[r], run'[r]) /\ Only(r) /\ run'[r].row = run[r].row /\ UNCHANGED db
        /\ run[r].pc = "create" /\ run'[r].pc = "body"
    BY <1>1, <1>7, CreateStepIs
  <2>2. QED
    BY <1>1, <2>1, RowsStay DEF Follows, Kept
<1>8. CASE SetStatus(r) \/ StartLoop(r)
  <2>1. /\ Kept(run[r], run'[r]) /\ Only(r) /\ UNCHANGED db
        /\ run[r].pc = "body" /\ run'[r].pc = "bodysave"
        /\ \/ /\ TopType(run[r]) \in WaitTypes \cup {"end"}
              /\ run'[r].row.status = StatusSetBy(TopType(run[r]))
           \/ run'[r].row.status = "running"
    BY <1>1, <1>8, SavePrepared
  <2>2. run'[r].row.status \in WaitingStatuses \cup {"running", "completed"}
    BY <2>1 DEF StatusSetBy, WaitTypes, WaitingStatuses
  <2>3. QED
    BY <1>1, <1>2, <2>1, <2>2, RowsStay DEF Follows, Kept
<1>9. CASE EndLoop(r)
  <2>1. /\ Kept(run[r], run'[r]) /\ Only(r) /\ UNCHANGED db
        /\ run[r].pc = "body" /\ run'[r].pc \in {"catch", "bodysave", "enter"}
        /\ run'[r].row.status = "running"
    BY <1>1, <1>9, EndLoopIs
  <2>2. QED
    BY <1>1, <1>2, <2>1, RowsStay DEF Follows, Kept
<1>10. CASE SaveInBody(r)
  <2>1. /\ Kept(run[r], run'[r]) /\ Only(r) /\ run'[r].row = run[r].row /\ Save(r)
        /\ run[r].pc = "bodysave" /\ run'[r].pc = "complete"
    BY <1>1, <1>10, SaveInBodyIs
  <2>2. db'[run'[r].exec] = run[r].row
    BY <1>1, <2>1, SavedRow
  <2>3. Follows(r)'
    BY <2>1, <2>2 DEF Follows
  <2>4. LifeMove
    BY <1>1, <2>1, SaveMoves DEF Ended, Follows
  <2>5. QED
    BY <2>1, <2>3, <2>4
<1>11. CASE MergeResult(r)
  <2>1. /\ Kept(run[r], run'[r]) /\ Only(r) /\ Save(r) /\ run[r].pc = "merge"
        /\ \/ run'[r].pc = "return" /\ run'[r].row = run[r].row
           \/ /\ run[r].row.status = "running"
              /\ \/ run'[r].pc \in {"finish", "catch"}
                 \/ run'[r].pc = "enter" /\ run'[r].row.status = "running"
    BY <1>1, <1>11, MergeResultIs
  <2>2. db'[run'[r].exec] = run[r].row
    BY <1>1, <2>1, SavedRow
  <2>3. Follows(r)'
    BY <2>1, <2>2 DEF Follows
  <2>4. LifeMove
    BY <1>1, <2>1, SaveMoves DEF Ended, Follows
  <2>5. QED
    BY <2>1, <2>3, <2>4
<1>12. CASE FinishWithoutEdge(r) \/ FailExecution(r)
  <2>1. /\ Kept(run[r], run'[r]) /\ Only(r) /\ Save(r) /\ run'[r].row = run[r].row
        /\ run'[r].pc = "return"
        /\ \/ run[r].pc = "finish" /\ run[r].row.status = "completed"
           \/ run[r].pc = "fail" /\ run[r].row.status = "failed"
    BY <1>1, <1>2, <1>12, FinishIs, FailExecutionIs
  <2>2. db'[run'[r].exec] = run[r].row
    BY <1>1, <2>1, SavedRow
  <2>3. Follows(r)'
    BY <2>1, <2>2 DEF Follows
  <2>4. LifeMove
    BY <1>1, <2>1, SaveMoves DEF Ended, Follows
  <2>5. QED
    BY <2>1, <2>3, <2>4
<1>13. CASE FailStep(r)
  <2>1. /\ Kept(run[r], run'[r]) /\ Only(r) /\ UNCHANGED db
        /\ run[r].pc = "catch" /\ run'[r].pc = "fail"
    BY <1>1, <1>13, FailStepIs
  <2>2. QED
    BY <1>1, <2>1, RowsStay DEF Follows, Kept
<1>14. CASE ReturnToCaller(r)
  <2>1. /\ Kept(run[r], run'[r]) /\ Only(r) /\ UNCHANGED db /\ run'[r].row = run[r].row
        /\ run[r].pc = "return" /\ run'[r].pc \in {"events", "done", "complete", "return"}
    BY <1>1, <1>14, ReturnToCallerIs
  <2>2. QED
    BY <1>1, <2>1, RowsStay DEF Follows, Kept
<1>15. QED
  BY <1>3, <1>4, <1>5, <1>6, <1>7, <1>8, <1>9, <1>10, <1>11, <1>12, <1>13, <1>14 DEF Advance

LEMMA NextLife ==
    ASSUME ~Overlap, MaxFaults = 0, FollowInv, [Next]_vars
    PROVE  FollowInv' /\ LifeMove
<1>1. SInv /\ SInv' /\ IInv
  BY NextSInv DEF FollowInv, SInv
<1>2. \A r \in Requests : ~WriteFails(r)
  BY <1>1 DEF IInv, TypeOK, WriteFails
<1>3. ASSUME NEW o \in Requests, run'[o] = run[o], ~Live(o) PROVE Follows(o)'
  BY <1>3 DEF Follows, Live, Ended
<1>4. ASSUME NEW r \in Requests, Begin(r) \/ Advance(r) PROVE FollowInv' /\ LifeMove
  <2>1. Only(r) /\ Follows(r)' /\ LifeMove
    BY <1>4, BeginFollows, AdvanceFollows
  <2>2. \A o \in Requests \ {r} : ~Live(o)
    <3>1. CASE Begin(r)
      BY <3>1 DEF Begin, ExecuteWorkflow, LoadToResume, LoadWaiting, LoadToCancel, MayBegin
    <3>2. CASE Advance(r)
      <4>1. Live(r)
        BY <3>2 DEF Advance, NextWaiting, Resume, CancelExecution, SaveCurrentNode,
           CreateStep, RunTask, SetStatus, StartLoop, CheckLoop, EndLoop, SaveInBody,
           CompleteStep, MergeResult, FinishWithoutEdge, FailStep, FailExecution,
           ReturnToCaller, Live, Ended
      <4>2. QED
        BY <1>1, <4>1, Alone
    <3>3. QED
      BY <1>4, <3>1, <3>2
  <2>3. \A o \in Requests : Follows(o)'
    BY <1>3, <2>1, <2>2 DEF Only
  <2>4. QED
    BY <1>1, <2>1, <2>3 DEF FollowInv
<1>5. CASE Crash
  <2>1. UNCHANGED db /\ \A o \in Requests : run'[o].pc = "lost" \/ run'[o] = run[o]
    <3>1. \A o \in Requests : run[o] \in Request
      BY <1>1 DEF IInv, TypeOK
    <3>2. QED
      BY <1>5, <3>1 DEF Crash, Request
  <2>2. \A o \in Requests : Follows(o)'
    BY <2>1 DEF FollowInv, Follows
  <2>3. QED
    BY <1>1, <2>1, <2>2, RowsStay DEF FollowInv
<1>6. CASE UpdateWorkflow \/ UNCHANGED vars
  <2>1. UNCHANGED <<db, run>>
    BY <1>6 DEF UpdateWorkflow, vars
  <2>2. \A o \in Requests : Follows(o)'
    BY <2>1 DEF FollowInv, Follows
  <2>3. QED
    BY <1>1, <2>1, <2>2, RowsStay DEF FollowInv
<1>7. QED
  BY <1>2, <1>4, <1>5, <1>6 DEF Next

\* While requests do not overlap and no write fails, the stored rows implement
\* the abstract life cycle, across restarts and edits of the workflow: every save
\* is one of its steps or changes neither the status nor the answers.  (A write
\* that fails after COMPLETED was saved turns the execution FAILED.)
THEOREM LifecycleImplemented ==
    ASSUME ~Overlap, MaxFaults = 0 PROVE Spec => LifecycleRefined
<1>1. Init => FollowInv
  BY InitSInv DEF Init, FollowInv, Follows, IdleRequest
<1>2. Init => Life!Init
  BY DEF Init, Life!Init, NoRow
<1>3. FollowInv /\ [Next]_vars => FollowInv' /\ LifeMove
  BY NextLife
<1>4. QED
  BY <1>1, <1>2, <1>3, PTL DEF Spec, LifecycleRefined, Life!Spec, LifeMove
===============================================================================
