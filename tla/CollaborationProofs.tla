-------------------------- MODULE CollaborationProofs --------------------------
(***************************************************************************)
(* For any number of requests that overlap, fail and restart, any retries, *)
(* evaluators and threshold: every variable keeps its type, a request      *)
(* reports one verdict, a row in an active phase has a request that will   *)
(* still save it, an open step has one owner, and of requests that take    *)
(* turns the row implements the life of a task.                            *)
(***************************************************************************)
EXTENDS CollaborationEngine, TLAPS

\* Where a request is inside the try block of a phase, and where it is in none
Inside == {"call", "stepdone", "result", "message", "evaluators", "ask", "timer", "room",
           "verdict", "farewell", "giveup", "revise", "catch", "failtask", "failmsg"}
Outside == {"announce", "reply", "cancel", "request"}

\* An answered request has reported at most once, a live one not yet
Placed(q) ==
    /\ q.pc \in Ended \cup Outside => q.stack = <<>>
    /\ q.pc \in Inside => q.stack # <<>>
    /\ q.pc \notin Ended => q.verdicts = 0
    /\ q.verdicts <= 1
    /\ q.pc \in {"ask", "request"} => q.left >= 1

\* A task that has not been rejected for the last time can be rejected once more
Untried == {"absent", "pending", "requirement_analysis", "requirement_confirmation",
            "planning", "execution", "evaluation"}
Spare(row) == row.status \in Untried => row.retries < MaxRetries

\* The status of a request's copy at each of its points
CopyFits(q) ==
    /\ q.pc = "announce" => q.row.status = "pending"
    /\ q.pc = "reply" => q.row.status = "requirement_confirmation"
    /\ q.pc = "cancel" => q.row.status = "cancelled"
    /\ q.pc \in {"enter", "select", "step"} => q.row.status = StatusOf[q.phase]
    /\ q.pc \in {"call", "stepdone"} => q.row.status = StatusOf[Top(q).phase]
    /\ q.pc \in {"result", "message"} => q.row.status = ResultOf[Top(q).phase]
    /\ q.pc \in {"evaluators", "ask", "timer", "room"} => q.row.status = "evaluation"
    /\ q.pc = "verdict" => q.row.status \in {"completed", "revision"}
    /\ q.pc = "revise" => q.row.status = "revision" /\ q.row.retries < MaxRetries
    /\ q.pc = "farewell" => q.row.status \in {"completed", "failed"}
    /\ q.pc \in {"giveup", "failtask", "failmsg"} => q.row.status = "failed"

Good(q) == Placed(q) /\ CopyFits(q) /\ Spare(q.row)

IInv ==
    /\ TypeOK
    /\ Spare(task)
    /\ \A r \in Requests : Good(run[r])

\* Where a request will still save the task, under a status that is not active
\* or from a point where it is at work again
Working == {"announce", "enter", "select", "step", "call", "stepdone", "result", "evaluators",
            "ask", "timer", "room", "verdict", "giveup", "revise", "catch", "failtask"}
AtWork(q) == q.pc \in Working \/ (q.pc = "message" /\ Top(q).phase # "analysis")

InProgress == Active \cup {"pending"}
Driven == task.status \in InProgress => \E r \in Requests : AtWork(run[r])
Served == ~MayLackAgents /\ faults = 0 /\ crashes = 0

DInv == IInv /\ (Served => Driven)

\* The step a request has open is the innermost one it holds
Opens(q, i) == q.pc \in {"call", "stepdone", "catch"} /\ Top(q).step = i
HeldSteps(q) == {q.stack[k].step : k \in DOMAIN q.stack}
Owned ==
    /\ \A i \in DOMAIN steps : steps[i] = "in_progress" => \E r \in Requests : Opens(run[r], i)
    /\ \A r \in Requests : HeldSteps(run[r]) \subseteq 1..Len(steps)
    /\ \A r, o \in Requests : r # o => HeldSteps(run[r]) \cap HeldSteps(run[o]) = {}

Undisturbed == faults = 0 /\ crashes = 0

OInv == IInv /\ (Undisturbed => Owned)

\* The row while the request at work is at q: the same as its copy, or one move
\* of the abstract life before it
InSync == {"announce", "reply", "select", "step", "call", "stepdone", "message", "evaluators",
           "ask", "timer", "room", "revise", "farewell", "failmsg"}
Follows(row, q) ==
    /\ q.pc \in InSync => row = q.row
    /\ q.pc \notin {"request", "verdict"} => row.retries = q.row.retries
    /\ q.pc = "enter" => \/ <<row.status, q.row.status>> \in Life!Moves
                         \/ row.status = "revision" /\ row.retries < MaxRetries /\ q.phase = "execution"
    /\ q.pc = "result" => row.status = StatusOf[Top(q).phase]
    /\ q.pc = "verdict" =>
           /\ row.status = "evaluation"
           /\ q.row.retries = IF q.row.status = "completed" THEN row.retries ELSE row.retries + 1
    /\ q.pc = "giveup" => row.status = "revision"
    /\ q.pc \in {"catch", "failtask"} => row.status \in Active
    /\ q.pc = "cancel" => row.status # "absent"
TakeTurns ==
    /\ \A r, o \in Requests : Live(r) /\ Live(o) => r = o
    /\ \A r \in Requests : Live(r) => Follows(task, run[r])
    /\ task.status = "absent" => task.retries = 0

LInv == IInv /\ (orderly => TakeTurns)

-----------------------------------------------------------------------------
(* What the operations on a request return *)

\* The innermost activation of a request inside one
LEMMA TopType ==
    ASSUME NEW q \in Request, q.stack # <<>>
    PROVE  /\ Top(q) \in Frame /\ Len(q.stack) \in DOMAIN q.stack
           /\ Pop(q.stack) \in Seq(Frame)
<1>1. q.stack \in Seq(Frame)
  BY DEF Request
<1>2. Len(q.stack) \in Nat \ {0}
  BY <1>1
<1>3. QED
  BY <1>1, <1>2 DEF Top, Pop

\* The request before it begins
LEMMA IdleGood ==
    /\ IdleRequest \in Request /\ Good(IdleRequest)
    /\ IdleRequest.stack = <<>> /\ IdleRequest.verdicts = 0 /\ IdleRequest.row = NoRow
BY CollaborationAssumption
   DEF IdleRequest, Request, PCs, Row, NoRow, Statuses, Active, Phases,
       Good, Placed, CopyFits, Spare, Ended, Outside, Inside, Untried

\* A request that begins stands outside every try block
LEMMA BeginGood ==
    ASSUME NEW q \in Request, q.pc \in Outside, q.stack = <<>>, q.verdicts = 0, Spare(q.row),
           q.pc = "announce" => q.row.status = "pending",
           q.pc = "reply" => q.row.status = "requirement_confirmation",
           q.pc = "cancel" => q.row.status = "cancelled",
           q.pc = "request" => q.left >= 1
    PROVE  Good(q)
BY DEF Good, Placed, CopyFits, Ended, Outside, Inside

\* An answered request has let go of its activations
LEMMA FinishGood ==
    ASSUME NEW q \in Request, q.verdicts <= 1, NEW c \in {"done", "rejected", "lost"}
    PROVE  /\ Finish(q, c) \in Request /\ Good(Finish(q, c))
           /\ Finish(q, c).pc = c /\ Finish(q, c).stack = <<>>
           /\ Finish(q, c).verdicts = q.verdicts
<1>1. /\ Finish(q, c) \in Request /\ Finish(q, c).pc = c
      /\ Finish(q, c).verdicts = q.verdicts /\ Finish(q, c).stack = IdleRequest.stack
      /\ Finish(q, c).row = IdleRequest.row
  BY IdleGood DEF Finish, Request, PCs
<1>2. Good(Finish(q, c))
  BY <1>1, IdleGood DEF Good, Placed, CopyFits, Ended, Outside, Inside
<1>3. QED
  BY <1>1, <1>2, IdleGood

\* An exception ends the request or reaches the catch of an activation
LEMMA ThrowGood ==
    ASSUME NEW q \in Request, Good(q), q.pc \notin Ended, NEW s \in Seq(Frame)
    PROVE  Throw(q, s) \in Request /\ Good(Throw(q, s))
<1>1. CASE s = <<>>
  BY <1>1, FinishGood DEF Throw, Good, Placed
<1>2. CASE s # <<>>
  <2> DEFINE p == [q EXCEPT !.stack = s, !.pc = "catch"]
  <2>1. p \in Request
    BY DEF Request, PCs
  <2>2. p.pc = "catch" /\ p.stack = s /\ p.verdicts = q.verdicts /\ p.row = q.row
    BY DEF Request
  <2>3. Good(p)
    BY <1>2, <2>2 DEF Good, Placed, CopyFits, Spare, Ended, Outside, Inside
  <2>4. QED
    BY <1>2, <2>1, <2>3 DEF Throw
<1>3. QED
  BY <1>1, <1>2

\* A step's status changes
LEMMA StepsType ==
    ASSUME steps \in Seq({"in_progress", "completed", "failed"}),
           NEW i, NEW s \in {"completed", "failed"}, steps' = [steps EXCEPT ![i] = s]
    PROVE  /\ steps' \in Seq({"in_progress", "completed", "failed"})
           /\ DOMAIN steps' = DOMAIN steps /\ Len(steps') = Len(steps)
<1>1. Len(steps) \in Nat /\ steps \in [1..Len(steps) -> {"in_progress", "completed", "failed"}]
  OBVIOUS
<1>2. steps' \in [1..Len(steps) -> {"in_progress", "completed", "failed"}]
  BY <1>1
<1>3. QED
  BY <1>1, <1>2

-----------------------------------------------------------------------------
(* One step of one request keeps the invariant *)

\* The request goes on as p, a good request; nothing else changes for the worse
LEMMA StepKeeps ==
    ASSUME IInv, NEW r \in Requests, NEW p \in Request, Good(p),
           run' = [run EXCEPT ![r] = p], task' \in Row, Spare(task'),
           steps' \in Seq({"in_progress", "completed", "failed"}),
           votes' \in Votes, Awaited' >= 0, faults' \in 0..MaxFaults,
           UNCHANGED <<orderly, crashes>>
    PROVE  IInv'
<1>1. run \in [Requests -> Request]
  BY DEF IInv, TypeOK
<1>2. run' \in [Requests -> Request] /\ \A o \in Requests : Good(run'[o])
  BY <1>1 DEF IInv
<1>3. QED
  BY <1>2 DEF IInv, TypeOK

\* A step that changes the request alone
LEMMA MoveKeeps ==
    ASSUME IInv, NEW r \in Requests, NEW p \in Request, Good(p),
           Become(r, p), UNCHANGED <<task, steps, votes, orderly, faults, crashes>>
    PROVE  IInv'
<1>1. Awaited' = Awaited
  BY DEF Awaited
<1>2. QED
  BY <1>1, StepKeeps DEF IInv, TypeOK, Become

\* A step that saves the copy
LEMMA SaveKeeps ==
    ASSUME IInv, NEW r \in Requests, NEW p \in Request, Good(p),
           Become(r, p), Save(r), UNCHANGED <<steps, votes, orderly, faults, crashes>>
    PROVE  IInv'
<1>1. Awaited' = Awaited
  BY DEF Awaited
<1>2. run[r].row \in Row /\ Spare(run[r].row)
  BY DEF IInv, TypeOK, Request, Good
<1>3. QED
  BY <1>1, <1>2, StepKeeps DEF IInv, TypeOK, Become, Save

-----------------------------------------------------------------------------
(* Every action keeps the invariant *)

LEMMA BeginKeeps ==
    ASSUME IInv, NEW r \in Requests, Begin(r)
    PROVE  IInv'
<1>0. task \in Row /\ Spare(task) /\ MaxRetries \in Nat \ {0}
  BY CollaborationAssumption DEF IInv, TypeOK
<1>1. CASE CreateTask(r)
  <2> DEFINE q == [IdleRequest EXCEPT !.op = "create", !.row = task', !.pc = "announce"]
  <2>1. task' \in Row /\ Spare(task') /\ task'.status = "pending"
    BY <1>0, <1>1 DEF CreateTask, NoRow, Row, Statuses, Spare, Untried
  <2>2. /\ q \in Request /\ q.pc = "announce" /\ q.row = task'
        /\ q.stack = <<>> /\ q.verdicts = 0
    BY <2>1, IdleGood DEF Request, PCs
  <2>3. Good(q)
    BY <2>1, <2>2, BeginGood DEF Outside
  <2>4. Awaited' = Awaited
    BY <1>1 DEF CreateTask, Awaited
  <2>5. QED
    BY <1>1, <2>1, <2>2, <2>3, <2>4, StepKeeps DEF CreateTask, Become, IInv, TypeOK
<1>2. ASSUME NEW ok \in BOOLEAN, LoadFeedback(r, ok)
      PROVE  IInv'
  <2> DEFINE l == [IdleRequest EXCEPT !.op = "feedback", !.approves = ok, !.row = task]
             q == [l EXCEPT !.pc = "reply"]
  <2>1. /\ l \in Request /\ l.row = task /\ l.stack = <<>> /\ l.verdicts = 0
    BY <1>0, IdleGood DEF Request
  <2> HIDE DEF l
  <2>2. CASE task.status = "requirement_confirmation"
    <3>1. /\ q \in Request /\ q.pc = "reply" /\ q.row = task
          /\ q.stack = <<>> /\ q.verdicts = 0
      BY <2>1 DEF Request, PCs
    <3>2. Good(q)
      BY <1>0, <2>2, <3>1, BeginGood DEF Outside
    <3>3. Become(r, q)
      BY <1>2, <2>2 DEF LoadFeedback, l
    <3>4. QED
      BY <1>2, <3>1, <3>2, <3>3, MoveKeeps DEF LoadFeedback
  <2>3. CASE task.status # "requirement_confirmation"
    <3>1. Finish(l, "rejected") \in Request /\ Good(Finish(l, "rejected"))
      BY <2>1, FinishGood
    <3>2. Become(r, Finish(l, "rejected"))
      BY <1>2, <2>3 DEF LoadFeedback, l
    <3>3. QED
      BY <1>2, <3>1, <3>2, MoveKeeps DEF LoadFeedback
  <2>4. QED
    BY <2>2, <2>3
<1>3. CASE LoadToCancel(r)
  <2> DEFINE row == [task EXCEPT !.status = "cancelled"]
             q == [IdleRequest EXCEPT !.op = "cancel", !.pc = "cancel", !.row = row]
  <2>1. row \in Row /\ Spare(row) /\ row.status = "cancelled"
    BY <1>0 DEF Row, Statuses, Spare, Untried
  <2>2. /\ q \in Request /\ q.pc = "cancel" /\ q.row = row
        /\ q.stack = <<>> /\ q.verdicts = 0
    BY <2>1, IdleGood DEF Request, PCs
  <2>3. Good(q)
    BY <2>1, <2>2, BeginGood DEF Outside
  <2>4. QED
    BY <1>3, <2>2, <2>3, MoveKeeps DEF LoadToCancel
<1>4. CASE LoadToEvaluate(r)
  <2>1. PICK n \in 1..Evaluators :
           Become(r, [IdleRequest EXCEPT !.op = "evaluate", !.pc = "request", !.left = n])
    BY <1>4 DEF LoadToEvaluate
  <2> DEFINE q == [IdleRequest EXCEPT !.op = "evaluate", !.pc = "request", !.left = n]
  <2>2. n \in Nat /\ n >= 1
    BY CollaborationAssumption
  <2>3. /\ q \in Request /\ q.pc = "request" /\ q.left = n /\ q.row = IdleRequest.row
        /\ q.stack = <<>> /\ q.verdicts = 0
    BY <2>2, IdleGood DEF Request, PCs
  <2>4. Good(q)
    BY <2>2, <2>3, IdleGood, BeginGood DEF Outside, Good
  <2>5. QED
    BY <1>4, <2>1, <2>3, <2>4, MoveKeeps DEF LoadToEvaluate
<1>5. QED
  BY <1>1, <1>2, <1>3, <1>4 DEF Begin

\* What a request is after it goes on to another point
LEMMA PointOf ==
    ASSUME NEW q \in Request, NEW c \in PCs, NEW p, p = [q EXCEPT !.pc = c]
    PROVE  /\ p \in Request /\ p.pc = c /\ p.row = q.row /\ p.phase = q.phase
           /\ p.stack = q.stack /\ Top(p) = Top(q) /\ p.left = q.left /\ p.verdicts = q.verdicts
BY DEF Request, Top

\* Another status for a copy that is not to be tried again, or still can be
LEMMA StatusGood ==
    ASSUME NEW row \in Row, NEW s \in Statuses, Spare(row),
           s \in Untried => row.status \in Untried \/ row.retries < MaxRetries,
           NEW new, new = [row EXCEPT !.status = s]
    PROVE  new \in Row /\ Spare(new) /\ new.status = s /\ new.retries = row.retries
BY DEF Row, Spare

\* The phases run under statuses that leave a retry, and lead to such
LEMMA PhaseStatus ==
    ASSUME NEW phase \in Phases
    PROVE  /\ StatusOf[phase] \in Statuses \cap Untried \cap Active
           /\ ResultOf[phase] \in Statuses \cap Untried
BY DEF Phases, StatusOf, ResultOf, Statuses, Active, Untried

\* The requests that a user makes, up to the phase they lead to
LEMMA OutsideKeeps ==
    ASSUME IInv, NEW r \in Requests,
           Announce(r) \/ Reply(r) \/ CancelTask(r) \/ RequestEvaluation(r)
    PROVE  IInv'
<1> DEFINE q == run[r]
<1>0. q \in Request /\ Good(q) /\ q.row \in Row /\ Spare(q.row)
  BY DEF IInv, TypeOK, Request, Good
<1> HIDE DEF q
<1>1. ASSUME NEW phase \in Phases, q.pc \in {"announce", "reply"},
             Become(r, [q EXCEPT !.pc = "enter", !.phase = phase,
                                 !.row.status = StatusOf[phase]]),
             UNCHANGED <<task, steps, votes, orderly, faults, crashes>>
      PROVE  IInv'
  <2> DEFINE new == [q.row EXCEPT !.status = StatusOf[phase]]
             p == [q EXCEPT !.pc = "enter", !.phase = phase, !.row.status = StatusOf[phase]]
  <2>1. q.row.status \in Untried
    BY <1>0, <1>1 DEF Good, CopyFits, Untried
  <2>2. new \in Row /\ Spare(new) /\ new.status = StatusOf[phase]
    BY <1>0, <2>1, StatusGood, PhaseStatus
  <2>3. /\ p \in Request /\ p.row = new /\ p.pc = "enter" /\ p.phase = phase
        /\ p.stack = q.stack /\ p.verdicts = q.verdicts
    BY <1>0, <2>2 DEF Request, PCs
  <2>4. Good(p)
    BY <1>0, <1>1, <2>2, <2>3 DEF Good, Placed, CopyFits, Ended, Outside, Inside
  <2>5. QED
    BY <1>1, <2>3, <2>4, MoveKeeps
<1>2. CASE Announce(r)
  BY <1>1, <1>2 DEF Announce, Tell, Phases, q
<1>3. CASE Reply(r)
  BY <1>1, <1>3 DEF Reply, Tell, Phases, q
<1>4. CASE CancelTask(r)
  <2>1. Finish(q, "done") \in Request /\ Good(Finish(q, "done"))
    BY <1>0, FinishGood DEF Good, Placed
  <2>2. QED
    BY <1>4, <2>1, SaveKeeps DEF CancelTask, q
<1>5. CASE RequestEvaluation(r)
  <2> DEFINE p == IF q.left = 1 THEN Finish(q, "done") ELSE [q EXCEPT !.left = @ - 1]
  <2>1. q.pc = "request" /\ q.left >= 1 /\ q.left \in Nat
    BY <1>0, <1>5 DEF RequestEvaluation, Good, Placed, Request, q
  <2>2. p \in Request /\ Good(p)
    <3>1. CASE q.left = 1
      BY <1>0, <3>1, FinishGood DEF Good, Placed
    <3>2. CASE q.left # 1
      <4>1. /\ p \in Request /\ p.pc = q.pc /\ p.row = q.row /\ p.stack = q.stack
            /\ p.verdicts = q.verdicts /\ p.left = q.left - 1
        BY <1>0, <2>1, <3>2 DEF Request
      <4>2. Good(p)
        BY <1>0, <2>1, <3>2, <4>1 DEF Good, Placed, CopyFits, Ended, Outside, Inside
      <4>3. QED
        BY <4>1, <4>2
    <3>3. QED
      BY <3>1, <3>2
  <2>3. votes' \in Votes /\ Awaited' >= 0
    <3>1. votes \in Votes /\ Awaited >= 0
      BY DEF IInv, TypeOK
    <3>2. votes' = [votes EXCEPT !.asked = votes.asked + 1, !.abandoned = votes.abandoned + 1]
      BY <1>5 DEF RequestEvaluation
    <3>3. votes.asked + 1 \in Nat /\ votes.abandoned + 1 \in Nat
      BY <3>1 DEF Votes
    <3>4. /\ votes' \in Votes
          /\ votes'.asked = votes.asked + 1 /\ votes'.abandoned = votes.abandoned + 1
          /\ votes'.approved = votes.approved /\ votes'.rejected = votes.rejected
      BY <3>1, <3>2, <3>3 DEF Votes
    <3>5. QED
      BY <3>1, <3>4 DEF Awaited, Votes
  <2>4. QED
    BY <1>5, <2>2, <2>3, StepKeeps DEF RequestEvaluation, Become, IInv, TypeOK, q
<1>6. QED
  BY <1>2, <1>3, <1>4, <1>5

\* A phase, from its status to the message about its result
LEMMA PhaseKeeps ==
    ASSUME IInv, NEW r \in Requests,
           \/ EnterPhase(r) \/ SelectAgent(r) \/ CreateStep(r) \/ CallAgent(r)
           \/ CompleteStep(r) \/ SaveResult(r) \/ SendResult(r)
    PROVE  IInv'
<1> DEFINE q == run[r]
<1>0. /\ q \in Request /\ Good(q) /\ q.row \in Row /\ Spare(q.row) /\ q.phase \in Phases
      /\ q.stack \in Seq(Frame)
  BY DEF IInv, TypeOK, Request, Good
<1> HIDE DEF q
<1>1. CASE EnterPhase(r)
  <2> DEFINE p == [q EXCEPT !.pc = "select"]
  <2>1. p \in Request /\ Good(p)
    BY <1>0, <1>1, PointOf DEF EnterPhase, PCs, Good, Placed, CopyFits, Ended, Outside, Inside, q
  <2>2. QED
    BY <1>1, <2>1, SaveKeeps DEF EnterPhase, Goto, Become, q
<1>2. CASE SelectAgent(r)
  <2> DEFINE p == [q EXCEPT !.pc = "step"]
  <2>1. p \in Request /\ Good(p)
    BY <1>0, <1>2, PointOf DEF SelectAgent, PCs, Good, Placed, CopyFits, Ended, Outside, Inside, q
  <2>2. Throw(q, q.stack) \in Request /\ Good(Throw(q, q.stack))
    BY <1>0, <1>2, ThrowGood DEF SelectAgent, Ended, q
  <2>3. QED
    BY <1>2, <2>1, <2>2, MoveKeeps DEF SelectAgent, Goto, Become, q
<1>3. CASE CreateStep(r)
  <2> DEFINE f == [phase |-> q.phase, step |-> Len(steps) + 1]
             p == [q EXCEPT !.pc = "call", !.stack = Append(@, f)]
  <2>1. steps \in Seq({"in_progress", "completed", "failed"})
    BY DEF IInv, TypeOK
  <2>2. f \in Frame
    BY <1>0, <2>1 DEF Frame
  <2>3. /\ Append(q.stack, f) \in Seq(Frame) /\ Append(q.stack, f) # <<>>
        /\ Append(q.stack, f)[Len(Append(q.stack, f))] = f
    BY <1>0, <2>2
  <2>4. /\ p \in Request /\ p.pc = "call" /\ p.row = q.row /\ p.stack = Append(q.stack, f)
        /\ p.verdicts = q.verdicts
    BY <1>0, <2>3 DEF Request, PCs
  <2>5. Good(p)
    BY <1>0, <1>3, <2>3, <2>4
       DEF CreateStep, Good, Placed, CopyFits, Ended, Outside, Inside, Top, q
  <2>6. steps' \in Seq({"in_progress", "completed", "failed"})
    BY <1>3, <2>1 DEF CreateStep
  <2>7. Awaited' = Awaited
    BY <1>3 DEF CreateStep, Awaited
  <2>8. QED
    BY <1>3, <2>4, <2>5, <2>6, <2>7, StepKeeps DEF CreateStep, Become, IInv, TypeOK, q
<1>4. CASE CallAgent(r)
  <2>1. \A c \in {"stepdone", "catch"} : [q EXCEPT !.pc = c] \in Request /\ Good([q EXCEPT !.pc = c])
    BY <1>0, <1>4, PointOf DEF CallAgent, PCs, Good, Placed, CopyFits, Ended, Outside, Inside, q
  <2>2. QED
    BY <1>4, <2>1, MoveKeeps DEF CallAgent, Goto, Become, q
<1>5. CASE CompleteStep(r)
  <2> DEFINE s == ResultOf[Top(q).phase]
             new == [q.row EXCEPT !.status = s]
             p == [q EXCEPT !.pc = "result", !.row.status = s]
  <2>1. q.stack # <<>> /\ q.row.status = StatusOf[Top(q).phase]
    BY <1>0, <1>5 DEF CompleteStep, Good, Placed, CopyFits, Inside, q
  <2>2. Top(q).phase \in Phases
    BY <1>0, <2>1, TopType DEF Frame
  <2>3. new \in Row /\ Spare(new) /\ new.status = s
    BY <1>0, <2>1, <2>2, StatusGood, PhaseStatus
  <2>4. /\ p \in Request /\ p.pc = "result" /\ p.row = new /\ p.stack = q.stack
        /\ Top(p) = Top(q) /\ p.verdicts = q.verdicts
    BY <1>0, <2>3 DEF Request, PCs, Top
  <2> HIDE DEF p, new, s
  <2>5. Good(p)
    BY <1>0, <1>5, <2>3, <2>4
       DEF CompleteStep, Good, Placed, CopyFits, Ended, Outside, Inside, q, s
  <2>6. steps' \in Seq({"in_progress", "completed", "failed"})
    BY <1>5, StepsType DEF CompleteStep, IInv, TypeOK
  <2>7. Awaited' = Awaited
    BY <1>5 DEF CompleteStep, Awaited
  <2>8. QED
    BY <1>5, <2>4, <2>5, <2>6, <2>7, StepKeeps DEF CompleteStep, Become, IInv, TypeOK, q, p, s
<1>6. CASE SaveResult(r)
  <2> DEFINE p == [q EXCEPT !.pc = "message"]
  <2>1. p \in Request /\ Good(p)
    BY <1>0, <1>6, PointOf DEF SaveResult, PCs, Good, Placed, CopyFits, Ended, Outside, Inside, q
  <2>2. QED
    BY <1>6, <2>1, SaveKeeps DEF SaveResult, Goto, Become, q
<1>7. CASE SendResult(r)
  <2>1. /\ q.pc = "message" /\ q.stack # <<>> /\ Top(q).phase \in Phases
        /\ q.row.status = ResultOf[Top(q).phase]
    BY <1>0, <1>7, TopType DEF SendResult, Good, Placed, CopyFits, Inside, Frame, q
  <2>2. CASE Top(q).phase = "analysis"
    <3>1. Finish(q, "done") \in Request /\ Good(Finish(q, "done"))
      BY <1>0, FinishGood DEF Good, Placed
    <3>2. QED
      BY <1>7, <2>2, <3>1, MoveKeeps DEF SendResult, Tell, q
  <2>3. CASE Top(q).phase = "planning"
    <3> DEFINE p == [q EXCEPT !.pc = "select", !.phase = "execution"]
    <3>1. /\ p \in Request /\ p.pc = "select" /\ p.phase = "execution" /\ p.row = q.row
          /\ p.stack = q.stack /\ p.verdicts = q.verdicts
      BY <1>0 DEF Request, PCs, Phases
    <3>2. Good(p)
      BY <1>0, <2>1, <2>3, <3>1
         DEF Good, Placed, CopyFits, Ended, Outside, Inside, StatusOf, ResultOf
    <3>3. Become(r, p)
      BY <1>7, <2>3 DEF SendResult, Tell, q
    <3>4. QED
      BY <1>7, <3>1, <3>2, <3>3, MoveKeeps DEF SendResult
  <2>4. CASE Top(q).phase = "execution"
    <3> DEFINE p == [q EXCEPT !.pc = "evaluators"]
    <3>1. p \in Request /\ Good(p)
      BY <1>0, <2>1, <2>4, PointOf
         DEF PCs, Good, Placed, CopyFits, Ended, Outside, Inside, ResultOf
    <3>2. Become(r, p)
      BY <1>7, <2>4 DEF SendResult, Tell, q
    <3>3. QED
      BY <1>7, <3>1, <3>2, MoveKeeps DEF SendResult
  <2>5. QED
    BY <2>1, <2>2, <2>3, <2>4 DEF Phases
<1>8. QED
  BY <1>1, <1>2, <1>3, <1>4, <1>5, <1>6, <1>7

\* An evaluation, from the choice of the evaluators to the last message
LEMMA EvaluationKeeps ==
    ASSUME IInv, NEW r \in Requests,
           \/ SelectEvaluators(r) \/ AskEvaluator(r) \/ CountVotes(r) \/ ReadThreshold(r)
           \/ SaveVerdict(r) \/ GiveUp(r) \/ SendFarewell(r) \/ RequestRevision(r)
    PROVE  IInv'
<1> DEFINE q == run[r]
<1>0. /\ q \in Request /\ Good(q) /\ q.row \in Row /\ Spare(q.row) /\ q.left \in Nat
      /\ votes \in Votes /\ Awaited >= 0 /\ MaxRetries \in Nat \ {0}
  BY CollaborationAssumption DEF IInv, TypeOK, Request, Good
<1> HIDE DEF q
<1>1. CASE SelectEvaluators(r)
  <2>0. q.pc = "evaluators"
    BY <1>1 DEF SelectEvaluators, q
  <2>1. ASSUME NEW n \in 1..Evaluators
        PROVE  /\ [q EXCEPT !.pc = "ask", !.left = n] \in Request
               /\ Good([q EXCEPT !.pc = "ask", !.left = n])
    <3> DEFINE p == [q EXCEPT !.pc = "ask", !.left = n]
    <3>1. n \in Nat /\ n >= 1
      BY CollaborationAssumption
    <3>2. /\ p \in Request /\ p.pc = "ask" /\ p.left = n /\ p.row = q.row /\ p.stack = q.stack
          /\ p.verdicts = q.verdicts
      BY <1>0, <3>1 DEF Request, PCs
    <3>3. Good(p)
      BY <1>0, <2>0, <3>1, <3>2 DEF Good, Placed, CopyFits, Ended, Outside, Inside
    <3>4. QED
      BY <3>2, <3>3
  <2>2. [q EXCEPT !.pc = "catch"] \in Request /\ Good([q EXCEPT !.pc = "catch"])
    BY <1>0, <2>0, PointOf DEF PCs, Good, Placed, CopyFits, Ended, Outside, Inside
  <2>3. QED
    BY <1>1, <2>1, <2>2, MoveKeeps DEF SelectEvaluators, Goto, Become, q
<1>2. CASE AskEvaluator(r)
  <2> DEFINE c == IF q.left = 1 THEN "timer" ELSE "ask"
             n == q.left - 1
             p == [q EXCEPT !.left = n, !.pc = c]
  <2>1. q.pc = "ask" /\ q.left >= 1 /\ n \in Nat /\ (c = "ask" => n >= 1) /\ c \in PCs
    BY <1>0, <1>2 DEF AskEvaluator, Good, Placed, PCs, q
  <2> HIDE DEF c, n
  <2>2. /\ p \in Request /\ p.pc = c /\ p.left = n /\ p.row = q.row /\ p.stack = q.stack
        /\ p.verdicts = q.verdicts
    BY <1>0, <2>1 DEF Request
  <2>3. c \in {"timer", "ask"}
    BY DEF c
  <2>4. Good(p)
    BY <1>0, <2>1, <2>2, <2>3 DEF Good, Placed, CopyFits, Ended, Outside, Inside
  <2>5. votes' \in Votes /\ Awaited' >= 0
    <3>1. votes' = [votes EXCEPT !.asked = votes.asked + 1] /\ votes.asked + 1 \in Nat
      BY <1>0, <1>2 DEF AskEvaluator, Votes
    <3>2. /\ votes' \in Votes /\ votes'.asked = votes.asked + 1
          /\ votes'.approved = votes.approved /\ votes'.rejected = votes.rejected
          /\ votes'.abandoned = votes.abandoned
      BY <1>0, <3>1 DEF Votes
    <3>3. QED
      BY <1>0, <3>2 DEF Awaited, Votes
  <2>6. run' = [run EXCEPT ![r] = p]
    BY <1>2 DEF AskEvaluator, Become, q, p, c, n
  <2>7. QED
    BY <1>2, <2>2, <2>4, <2>5, <2>6, StepKeeps DEF AskEvaluator, IInv, TypeOK
<1>3. CASE CountVotes(r)
  <2> DEFINE t == [approved |-> votes.approved, total |-> votes.asked]
             p == [q EXCEPT !.pc = "room", !.tally = t]
  <2>1. t \in [approved: Nat, total: Nat]
    BY <1>0 DEF Votes
  <2> HIDE DEF t
  <2>2. /\ p \in Request /\ p.pc = "room" /\ p.row = q.row /\ p.stack = q.stack
        /\ p.verdicts = q.verdicts
    BY <1>0, <2>1 DEF Request, PCs
  <2>3. Good(p)
    BY <1>0, <1>3, <2>2 DEF CountVotes, Good, Placed, CopyFits, Ended, Outside, Inside, q
  <2>4. QED
    BY <1>3, <2>2, <2>3, MoveKeeps DEF CountVotes, q, t
<1>4. CASE ReadThreshold(r)
  <2>1. q.pc = "room" /\ q.row.status = "evaluation" /\ q.row.retries < MaxRetries
    BY <1>0, <1>4 DEF ReadThreshold, Good, CopyFits, Spare, Untried, q
  <2>2. ASSUME NEW row \in Row, NEW c \in PCs, Spare(row),
               c = "catch" \/ (c = "verdict" /\ row.status \in {"completed", "revision"}),
               Become(r, Compared(q, row, c))
        PROVE  IInv'
    <3> DEFINE p == Compared(q, row, c)
    <3>1. IdleRequest.tally \in [approved: Nat, total: Nat]
      BY IdleGood DEF Request
    <3>2. /\ p \in Request /\ p.pc = c /\ p.row = row /\ p.stack = q.stack
          /\ p.verdicts = q.verdicts
      BY <1>0, <3>1 DEF Request, Compared
    <3>3. Good(p)
      BY <1>0, <2>1, <2>2, <3>2 DEF Good, Placed, CopyFits, Ended, Outside, Inside
    <3>4. QED
      BY <1>4, <2>2, <3>2, <3>3, MoveKeeps DEF ReadThreshold
  <2> DEFINE pass == [q.row EXCEPT !.status = "completed"]
             again == [q.row EXCEPT !.status = "revision", !.retries = @ + 1]
  <2>3. pass \in Row /\ Spare(pass) /\ pass.status = "completed"
    BY <1>0 DEF Row, Statuses, Spare, Untried
  <2>4. again \in Row /\ Spare(again) /\ again.status = "revision"
    <3>1. q.row.retries + 1 \in 0..MaxRetries
      BY <1>0, <2>1 DEF Row
    <3>2. again = [q.row EXCEPT !.status = "revision", !.retries = q.row.retries + 1]
      OBVIOUS
    <3>3. QED
      BY <1>0, <3>1, <3>2 DEF Row, Statuses, Active, Spare, Untried
  <2>5. "verdict" \in PCs /\ "catch" \in PCs
    BY DEF PCs
  <2>6. \/ Become(r, Compared(q, IF Passes(q.tally) THEN pass ELSE again, "verdict"))
        \/ Become(r, Compared(q, q.row, "catch"))
    BY <1>4 DEF ReadThreshold, q
  <2> HIDE DEF pass, again
  <2>7. QED
    BY <1>0, <2>2, <2>3, <2>4, <2>5, <2>6
<1>5. CASE SaveVerdict(r)
  <2>1. /\ q.pc = "verdict" /\ q.row.status \in {"completed", "revision"}
        /\ q.row.retries \in 0..MaxRetries
    BY <1>0, <1>5 DEF SaveVerdict, Good, CopyFits, Row, q
  <2>2. CASE q.row.status = "completed"
    <3>1. [q EXCEPT !.pc = "farewell"] \in Request /\ Good([q EXCEPT !.pc = "farewell"])
      BY <1>0, <2>1, <2>2, PointOf DEF PCs, Good, Placed, CopyFits, Ended, Outside, Inside
    <3>2. Become(r, [q EXCEPT !.pc = "farewell"])
      BY <1>5, <2>2 DEF SaveVerdict, q
    <3>3. QED
      BY <1>5, <3>1, <3>2, SaveKeeps DEF SaveVerdict
  <2>3. CASE q.row.status = "revision" /\ q.row.retries >= MaxRetries
    <3> DEFINE new == [q.row EXCEPT !.status = "failed"]
               p == [q EXCEPT !.pc = "giveup", !.row.status = "failed"]
    <3>1. new \in Row /\ Spare(new) /\ new.status = "failed"
      BY <1>0 DEF Row, Statuses, Spare, Untried
    <3>2. /\ p \in Request /\ p.pc = "giveup" /\ p.row = new /\ p.stack = q.stack
          /\ p.verdicts = q.verdicts
      BY <1>0, <3>1 DEF Request, PCs
    <3>3. Good(p)
      BY <1>0, <2>1, <3>1, <3>2 DEF Good, Placed, CopyFits, Ended, Outside, Inside
    <3>4. Become(r, p)
      BY <1>5, <2>3 DEF SaveVerdict, q
    <3>5. QED
      BY <1>5, <3>2, <3>3, <3>4, SaveKeeps DEF SaveVerdict
  <2>4. CASE q.row.status = "revision" /\ q.row.retries < MaxRetries
    <3>1. [q EXCEPT !.pc = "revise"] \in Request /\ Good([q EXCEPT !.pc = "revise"])
      BY <1>0, <2>1, <2>4, PointOf DEF PCs, Good, Placed, CopyFits, Ended, Outside, Inside
    <3>2. ~(q.row.retries >= MaxRetries)
      BY <1>0, <2>1, <2>4
    <3>3. Become(r, [q EXCEPT !.pc = "revise"])
      BY <1>5, <2>4, <3>2 DEF SaveVerdict, q
    <3>4. QED
      BY <1>5, <3>1, <3>3, SaveKeeps DEF SaveVerdict
  <2>5. QED
    BY <1>0, <2>1, <2>2, <2>3, <2>4
<1>6. CASE GiveUp(r)
  <2>1. [q EXCEPT !.pc = "farewell"] \in Request /\ Good([q EXCEPT !.pc = "farewell"])
    BY <1>0, <1>6, PointOf DEF GiveUp, PCs, Good, Placed, CopyFits, Ended, Outside, Inside, q
  <2>2. QED
    BY <1>6, <2>1, SaveKeeps DEF GiveUp, Goto, Become, q
<1>7. CASE SendFarewell(r)
  <2> DEFINE f == Finish(q, "done")
             n == IF q.row.status = "completed" THEN f.verdicts + 1 ELSE f.verdicts
             p == [f EXCEPT !.verdicts = n]
  <2>1. q.verdicts = 0
    BY <1>0, <1>7 DEF SendFarewell, Good, Placed, Ended, q
  <2>2. /\ f \in Request /\ Good(f) /\ f.pc = "done" /\ f.stack = <<>> /\ f.verdicts = 0
    BY <1>0, <2>1, FinishGood
  <2>3. n \in Nat /\ n <= 1
    BY <2>2
  <2>4. Become(r, p)
    BY <1>7 DEF SendFarewell, Tell, q
  <2> HIDE DEF f, n
  <2>5. /\ p \in Request /\ p.pc = "done" /\ p.stack = <<>> /\ p.verdicts = n /\ p.row = f.row
    BY <2>2, <2>3 DEF Request
  <2>6. Good(p)
    BY <2>2, <2>3, <2>5 DEF Good, Placed, CopyFits, Ended, Outside, Inside
  <2>7. QED
    BY <1>7, <2>4, <2>5, <2>6, MoveKeeps DEF SendFarewell
<1>8. CASE RequestRevision(r)
  <2> DEFINE new == [q.row EXCEPT !.status = StatusOf["execution"]]
             p == [q EXCEPT !.pc = "enter", !.phase = "execution",
                            !.row.status = StatusOf["execution"]]
  <2>1. q.pc = "revise" /\ q.row.status = "revision" /\ q.row.retries < MaxRetries
    BY <1>0, <1>8 DEF RequestRevision, Good, CopyFits, q
  <2>2. new \in Row /\ Spare(new) /\ new.status = StatusOf["execution"]
    BY <1>0, <2>1, StatusGood, PhaseStatus DEF Phases
  <2>3. /\ p \in Request /\ p.pc = "enter" /\ p.phase = "execution" /\ p.row = new
        /\ p.stack = q.stack /\ p.verdicts = q.verdicts
    BY <1>0, <2>2 DEF Request, PCs, Phases
  <2>4. Good(p)
    BY <1>0, <2>1, <2>2, <2>3 DEF Good, Placed, CopyFits, Ended, Outside, Inside
  <2>5. QED
    BY <1>8, <2>3, <2>4, MoveKeeps DEF RequestRevision, Tell, q
<1>9. QED
  BY <1>1, <1>2, <1>3, <1>4, <1>5, <1>6, <1>7, <1>8

\* The catch block of a phase
LEMMA CatchKeeps ==
    ASSUME IInv, NEW r \in Requests, FailStep(r) \/ FailTask(r) \/ SendFailure(r)
    PROVE  IInv'
<1> DEFINE q == run[r]
<1>0. q \in Request /\ Good(q) /\ q.row \in Row /\ Spare(q.row)
  BY DEF IInv, TypeOK, Request, Good
<1> HIDE DEF q
<1>1. CASE FailStep(r)
  <2> DEFINE new == [q.row EXCEPT !.status = "failed"]
             p == [q EXCEPT !.pc = "failtask", !.row.status = "failed"]
  <2>1. new \in Row /\ Spare(new) /\ new.status = "failed"
    BY <1>0 DEF Row, Statuses, Spare, Untried
  <2>2. /\ p \in Request /\ p.pc = "failtask" /\ p.row = new /\ p.stack = q.stack
        /\ p.verdicts = q.verdicts
    BY <1>0, <2>1 DEF Request, PCs
  <2>3. q.pc = "catch"
    BY <1>1 DEF FailStep, q
  <2>4. Good(p)
    BY <1>0, <2>1, <2>2, <2>3 DEF Good, Placed, CopyFits, Ended, Outside, Inside
  <2>5. steps' \in Seq({"in_progress", "completed", "failed"})
    BY <1>1, StepsType DEF FailStep, IInv, TypeOK
  <2>6. Awaited' = Awaited
    BY <1>1 DEF FailStep, Awaited
  <2>7. QED
    BY <1>1, <2>2, <2>4, <2>5, <2>6, StepKeeps DEF FailStep, Become, IInv, TypeOK, q
<1>2. CASE FailTask(r)
  <2>1. [q EXCEPT !.pc = "failmsg"] \in Request /\ Good([q EXCEPT !.pc = "failmsg"])
    BY <1>0, <1>2, PointOf DEF FailTask, PCs, Good, Placed, CopyFits, Ended, Outside, Inside, q
  <2>2. QED
    BY <1>2, <2>1, SaveKeeps DEF FailTask, Goto, Become, q
<1>3. CASE SendFailure(r)
  <2> DEFINE f == Finish(q, "done")
             n == f.verdicts + 1
             p == [f EXCEPT !.verdicts = n]
  <2>1. q.verdicts = 0
    BY <1>0, <1>3 DEF SendFailure, Good, Placed, Ended, q
  <2>2. /\ f \in Request /\ Good(f) /\ f.pc = "done" /\ f.stack = <<>> /\ f.verdicts = 0
    BY <1>0, <2>1, FinishGood
  <2>3. n \in Nat /\ n <= 1
    BY <2>2
  <2>4. Become(r, p)
    BY <1>3 DEF SendFailure, Tell, q
  <2> HIDE DEF f, n
  <2>5. /\ p \in Request /\ p.pc = "done" /\ p.stack = <<>> /\ p.verdicts = n /\ p.row = f.row
    BY <2>2, <2>3 DEF Request
  <2>6. Good(p)
    BY <2>2, <2>3, <2>5 DEF Good, Placed, CopyFits, Ended, Outside, Inside
  <2>7. QED
    BY <1>3, <2>4, <2>5, <2>6, MoveKeeps DEF SendFailure
<1>4. QED
  BY <1>1, <1>2, <1>3

\* A query that fails, evaluators that answer or never will, a restart
LEMMA EnvironmentKeeps ==
    ASSUME IInv,
           (\E r \in Requests : QueryFails(r)) \/ PerformEvaluation \/ EvaluationLost \/ Crash
    PROVE  IInv'
<1>0. /\ run \in [Requests -> Request] /\ votes \in Votes /\ Awaited >= 0 /\ Awaited \in Nat
      /\ faults \in 0..MaxFaults /\ crashes \in 0..MaxCrashes
      /\ MaxFaults \in Nat /\ MaxCrashes \in Nat
  BY CollaborationAssumption DEF IInv, TypeOK, Awaited, Votes
<1>1. ASSUME NEW r \in Requests, QueryFails(r)
      PROVE  IInv'
  <2> DEFINE q == run[r]
             s == IF q.pc \in InCatch THEN Pop(q.stack) ELSE q.stack
  <2>1. q \in Request /\ Good(q) /\ q.pc \notin Ended /\ q.stack \in Seq(Frame)
    BY <1>0, <1>1 DEF IInv, QueryFails, Live, Request
  <2>2. s \in Seq(Frame)
    BY <2>1, TopType DEF InCatch, Good, Placed, Inside
  <2>3. Throw(q, s) \in Request /\ Good(Throw(q, s))
    BY <2>1, <2>2, ThrowGood
  <2>4. faults' \in 0..MaxFaults /\ Awaited' = Awaited
    BY <1>0, <1>1 DEF QueryFails, Awaited
  <2>5. run' = [run EXCEPT ![r] = Throw(q, s)]
    BY <1>1 DEF QueryFails, Become
  <2>6. QED
    BY <1>1, <2>3, <2>4, <2>5, StepKeeps DEF QueryFails, IInv, TypeOK
<1>2. ASSUME NEW v \in Votes, votes' = v, v.asked = votes.asked, Awaited' >= 0,
             faults' \in 0..MaxFaults, UNCHANGED <<task, steps, run, orderly, crashes>>
      PROVE  IInv'
  BY <1>2 DEF IInv, TypeOK
<1>3. CASE PerformEvaluation
  <2>1. PICK answer \in Answers :
           votes' = IF answer \in {"pass", "excellent"}
                    THEN [votes EXCEPT !.approved = votes.approved + 1]
                    ELSE [votes EXCEPT !.rejected = votes.rejected + 1]
    BY <1>3 DEF PerformEvaluation
  <2>2. votes.approved + 1 \in Nat /\ votes.rejected + 1 \in Nat /\ Awaited > 0
    BY <1>0, <1>3 DEF Votes, PerformEvaluation
  <2>3. /\ votes' \in Votes /\ votes'.asked = votes.asked /\ votes'.abandoned = votes.abandoned
        /\ votes'.approved + votes'.rejected = votes.approved + votes.rejected + 1
    BY <1>0, <2>1, <2>2 DEF Votes
  <2>4. Awaited' >= 0
    BY <1>0, <2>2, <2>3 DEF Awaited, Votes
  <2>5. QED
    BY <1>0, <1>2, <1>3, <2>3, <2>4 DEF PerformEvaluation
<1>4. ASSUME NEW n \in Nat, n <= Awaited, votes' = [votes EXCEPT !.abandoned = votes.abandoned + n]
      PROVE  votes' \in Votes /\ votes'.asked = votes.asked /\ Awaited' >= 0
  <2>1. votes.abandoned + n \in Nat
    BY <1>0 DEF Votes
  <2>2. /\ votes' \in Votes /\ votes'.asked = votes.asked /\ votes'.approved = votes.approved
        /\ votes'.rejected = votes.rejected /\ votes'.abandoned = votes.abandoned + n
    BY <1>0, <1>4, <2>1 DEF Votes
  <2>3. QED
    BY <1>0, <1>4, <2>2 DEF Awaited, Votes
<1>5. CASE EvaluationLost
  <2>1. faults' \in 0..MaxFaults
    BY <1>0, <1>5 DEF EvaluationLost
  <2>2. votes' = [votes EXCEPT !.abandoned = votes.abandoned + 1] /\ 1 <= Awaited
    BY <1>0, <1>5 DEF EvaluationLost
  <2>3. QED
    BY <1>2, <1>4, <1>5, <2>1, <2>2 DEF EvaluationLost
<1>6. CASE Crash
  <2>1. \A r \in Requests : run'[r] \in Request /\ Good(run'[r])
    BY <1>0, <1>6, FinishGood DEF Crash, IInv, Good, Placed
  <2>2. run' \in [Requests -> Request]
    BY <1>6, <2>1 DEF Crash
  <2>3. votes' \in Votes /\ Awaited' >= 0
    BY <1>0, <1>4, <1>6 DEF Crash
  <2>4. crashes' \in 0..MaxCrashes
    BY <1>0, <1>6 DEF Crash
  <2>5. QED
    BY <1>6, <2>1, <2>2, <2>3, <2>4 DEF Crash, IInv, TypeOK
<1>7. QED
  BY <1>1, <1>3, <1>5, <1>6

\* The invariant holds before the first request
LEMMA InitInv == Init => IInv
<1> SUFFICES ASSUME Init
             PROVE  IInv
  OBVIOUS
<1>1. NoRow \in Row /\ Spare(NoRow)
  BY CollaborationAssumption DEF NoRow, Row, Statuses, Spare
<1>2. NoVotes \in Votes /\ Awaited >= 0
  BY DEF Init, NoVotes, Votes, Awaited
<1>3. QED
  BY <1>1, <1>2, IdleGood, CollaborationAssumption DEF Init, IInv, TypeOK

\* Every step keeps it
LEMMA NextInv == IInv /\ [Next]_vars => IInv'
<1> SUFFICES ASSUME IInv, [Next]_vars
             PROVE  IInv'
  OBVIOUS
<1>1. ASSUME NEW r \in Requests, Advance(r)
      PROVE  IInv'
  BY <1>1, OutsideKeeps, PhaseKeeps, EvaluationKeeps, CatchKeeps DEF Advance
<1>2. CASE UNCHANGED vars
  BY <1>2 DEF vars, IInv, TypeOK, Awaited
<1>3. QED
  BY <1>1, <1>2, BeginKeeps, EnvironmentKeeps DEF Next

LEMMA InvHolds == Spec => []IInv
<1>1. QED
  BY InitInv, NextInv, PTL DEF Spec

\* Every variable keeps its type, and no more evaluations are answered or given
\* up than were asked for, however requests overlap, fail and restart
THEOREM TypeCorrect == Spec => []TypeOK
<1>1. IInv => TypeOK
  BY DEF IInv
<1>2. QED
  BY <1>1, InvHolds, PTL

\* A request reports completed or failed once at most, though the failure of a
\* catch block is caught, and reported, by the phases around it
THEOREM VerdictOnce == Spec => []OneVerdict
<1>1. IInv => OneVerdict
  BY DEF IInv, Good, Placed, OneVerdict
<1>2. QED
  BY <1>1, InvHolds, PTL

-----------------------------------------------------------------------------
(* A row in an active phase has a request at work *)

\* The request goes on as p: it is at work again when the row it leaves needs
\* one, or it was not the one at work
LEMMA StepKeepsDriven ==
    ASSUME IInv, Driven, NEW r \in Requests, NEW p, Become(r, p),
           task'.status \in InProgress =>
               AtWork(p) \/ (task.status \in InProgress /\ ~AtWork(run[r]))
    PROVE  Driven'
<1> SUFFICES ASSUME task'.status \in InProgress
             PROVE  \E o \in Requests : AtWork(run'[o])
  BY DEF Driven
<1>1. DOMAIN run = Requests
  BY DEF IInv, TypeOK
<1>2. CASE AtWork(p)
  BY <1>1, <1>2 DEF Become
<1>3. CASE task.status \in InProgress /\ ~AtWork(run[r])
  <2>1. PICK o \in Requests : AtWork(run[o])
    BY <1>3 DEF Driven
  <2>2. run'[o] = run[o]
    BY <1>1, <1>3, <2>1 DEF Become
  <2>3. QED
    BY <2>1, <2>2
<1>4. QED
  BY <1>2, <1>3

\* A request that goes on to one of the points where it is at work
LEMMA GotoKeepsDriven ==
    ASSUME IInv, Driven, NEW r \in Requests, NEW c \in Working, Goto(r, c)
    PROVE  Driven'
<1>1. run[r] \in Request
  BY DEF IInv, TypeOK
<1>2. AtWork([run[r] EXCEPT !.pc = c])
  BY <1>1 DEF AtWork, Request
<1>3. Become(r, [run[r] EXCEPT !.pc = c])
  BY DEF Goto, Become
<1>4. QED
  BY <1>2, <1>3, StepKeepsDriven

\* A request that saves a status which is not in progress may go anywhere
LEMMA SettledIsDriven ==
    ASSUME NEW r \in Requests, Save(r), run[r].row.status \notin InProgress
    PROVE  Driven'
BY DEF Save, Driven

LEMMA BeginDriven ==
    ASSUME IInv, Driven, NEW r \in Requests, Begin(r)
    PROVE  Driven'
<1>1. run[r].pc = "idle" /\ ~AtWork(run[r])
  BY DEF Begin, CreateTask, LoadFeedback, LoadToCancel, LoadToEvaluate, MayBegin, AtWork, Working
<1>2. CASE CreateTask(r)
  <2> DEFINE p == [IdleRequest EXCEPT !.op = "create", !.row = task', !.pc = "announce"]
  <2>1. p.pc = "announce"
    BY IdleGood DEF Request
  <2>2. AtWork(p) /\ Become(r, p)
    BY <1>2, <2>1 DEF CreateTask, AtWork, Working
  <2>3. QED
    BY <2>2, StepKeepsDriven
<1>3. ASSUME NEW p, Become(r, p), UNCHANGED task
      PROVE  Driven'
  BY <1>1, <1>3, StepKeepsDriven
<1>4. CASE \E ok \in BOOLEAN : LoadFeedback(r, ok)
  BY <1>3, <1>4 DEF LoadFeedback
<1>5. CASE LoadToCancel(r)
  BY <1>3, <1>5 DEF LoadToCancel
<1>6. CASE LoadToEvaluate(r)
  BY <1>3, <1>6 DEF LoadToEvaluate
<1>7. QED
  BY <1>2, <1>4, <1>5, <1>6 DEF Begin

LEMMA PhaseDriven ==
    ASSUME IInv, Driven, ~MayLackAgents, NEW r \in Requests,
           \/ Announce(r) \/ Reply(r) \/ CancelTask(r) \/ RequestEvaluation(r)
           \/ EnterPhase(r) \/ SelectAgent(r) \/ CreateStep(r) \/ CallAgent(r)
           \/ CompleteStep(r) \/ SaveResult(r) \/ SendResult(r)
    PROVE  Driven'
<1> DEFINE q == run[r]
<1>0. q \in Request /\ Good(q)
  BY DEF IInv, TypeOK
<1>3. CASE Announce(r) \/ Reply(r)
  <2>1. PICK phase \in Phases :
           Become(r, [q EXCEPT !.pc = "enter", !.phase = phase, !.row.status = StatusOf[phase]])
    BY <1>3 DEF Announce, Reply, Tell, Phases
  <2>2. [q EXCEPT !.pc = "enter", !.phase = phase, !.row.status = StatusOf[phase]].pc = "enter"
    BY <1>0 DEF Request
  <2>3. QED
    BY <2>1, <2>2, StepKeepsDriven DEF AtWork, Working
<1>4. CASE CancelTask(r)
  <2>1. q.row.status = "cancelled"
    BY <1>0, <1>4 DEF CancelTask, Good, CopyFits
  <2>2. QED
    BY <1>4, <2>1, SettledIsDriven DEF CancelTask, InProgress, Active
<1>5. CASE RequestEvaluation(r)
  <2>1. ~AtWork(q)
    BY <1>5 DEF RequestEvaluation, AtWork, Working
  <2>2. QED
    BY <1>5, <2>1, StepKeepsDriven DEF RequestEvaluation, Driven
<1>6. CASE EnterPhase(r)
  BY <1>6, GotoKeepsDriven DEF EnterPhase, Working
<1>7. CASE SelectAgent(r)
  BY <1>7, GotoKeepsDriven DEF SelectAgent, Working
<1>8. CASE CreateStep(r)
  <2> DEFINE f == [phase |-> q.phase, step |-> Len(steps) + 1]
             p == [q EXCEPT !.pc = "call", !.stack = Append(@, f)]
  <2>1. p.pc = "call" /\ Become(r, p)
    BY <1>0, <1>8 DEF CreateStep, Request
  <2>2. QED
    BY <2>1, StepKeepsDriven DEF AtWork, Working
<1>9. CASE CallAgent(r)
  BY <1>9, GotoKeepsDriven DEF CallAgent, Working
<1>10. CASE CompleteStep(r)
  <2> DEFINE p == [q EXCEPT !.pc = "result", !.row.status = ResultOf[Top(q).phase]]
  <2>1. p.pc = "result" /\ Become(r, p)
    BY <1>0, <1>10 DEF CompleteStep, Request
  <2>2. QED
    BY <2>1, StepKeepsDriven DEF AtWork, Working
<1>11. CASE SaveResult(r)
  <2> DEFINE p == [q EXCEPT !.pc = "message"]
  <2>1. q.pc = "result" /\ q.row.status = ResultOf[Top(q).phase] /\ q.stack # <<>>
    BY <1>0, <1>11 DEF SaveResult, Good, CopyFits, Placed, Inside
  <2>2. CASE Top(q).phase = "analysis"
    BY <1>11, <2>1, <2>2, SettledIsDriven DEF SaveResult, ResultOf, InProgress, Active
  <2>3. CASE Top(q).phase # "analysis"
    <3>1. p.pc = "message" /\ Top(p) = Top(q)
      BY <1>0, PointOf DEF PCs
    <3>2. AtWork(p) /\ Become(r, p)
      BY <1>11, <2>3, <3>1 DEF AtWork, SaveResult, Goto, Become
    <3>3. QED
      BY <3>2, StepKeepsDriven
  <2>4. QED
    BY <2>2, <2>3
<1>12. CASE SendResult(r)
  <2>1. Top(q).phase \in Phases
    BY <1>0, <1>12, TopType DEF SendResult, Good, Placed, Inside, Frame
  <2>2. CASE Top(q).phase = "analysis"
    <3>1. ~AtWork(q)
      BY <1>12, <2>2 DEF SendResult, AtWork, Working
    <3>2. QED
      BY <1>12, <3>1, StepKeepsDriven DEF SendResult, Tell, Driven
  <2>3. CASE Top(q).phase = "planning"
    <3> DEFINE p == [q EXCEPT !.pc = "select", !.phase = "execution"]
    <3>1. p.pc = "select" /\ Become(r, p)
      BY <1>0, <1>12, <2>3 DEF SendResult, Tell, Request
    <3>2. QED
      BY <3>1, StepKeepsDriven DEF AtWork, Working
  <2>4. CASE Top(q).phase = "execution"
    <3> DEFINE p == [q EXCEPT !.pc = "evaluators"]
    <3>1. p.pc = "evaluators" /\ Become(r, p)
      BY <1>0, <1>12, <2>4 DEF SendResult, Tell, Request
    <3>2. QED
      BY <3>1, StepKeepsDriven DEF AtWork, Working
  <2>5. QED
    BY <2>1, <2>2, <2>3, <2>4 DEF Phases
<1>13. QED
  BY <1>3, <1>4, <1>5, <1>6, <1>7, <1>8, <1>9, <1>10, <1>11, <1>12

LEMMA EvaluationDriven ==
    ASSUME IInv, Driven, ~MayLackAgents, NEW r \in Requests,
           \/ SelectEvaluators(r) \/ AskEvaluator(r) \/ CountVotes(r) \/ ReadThreshold(r)
           \/ SaveVerdict(r) \/ GiveUp(r) \/ SendFarewell(r) \/ RequestRevision(r)
           \/ FailStep(r) \/ FailTask(r) \/ SendFailure(r)
    PROVE  Driven'
<1> DEFINE q == run[r]
<1>0. q \in Request /\ Good(q)
  BY DEF IInv, TypeOK
<1>2. CASE SelectEvaluators(r)
  <2>1. PICK n \in 1..Evaluators : Become(r, [q EXCEPT !.pc = "ask", !.left = n])
    BY <1>2 DEF SelectEvaluators
  <2>2. [q EXCEPT !.pc = "ask", !.left = n].pc = "ask"
    BY <1>0 DEF Request
  <2>3. QED
    BY <2>1, <2>2, StepKeepsDriven DEF AtWork, Working
<1>3. CASE AskEvaluator(r)
  <2> DEFINE c == IF q.left = 1 THEN "timer" ELSE "ask"
             p == [q EXCEPT !.left = @ - 1, !.pc = c]
  <2>1. p.pc \in {"timer", "ask"} /\ Become(r, p)
    BY <1>0, <1>3 DEF AskEvaluator, Request
  <2>2. QED
    BY <2>1, StepKeepsDriven DEF AtWork, Working
<1>4. CASE CountVotes(r)
  <2> DEFINE p == [q EXCEPT !.pc = "room",
                            !.tally = [approved |-> votes.approved, total |-> votes.asked]]
  <2>1. p.pc = "room" /\ Become(r, p)
    BY <1>0, <1>4 DEF CountVotes, Request
  <2>2. QED
    BY <2>1, StepKeepsDriven DEF AtWork, Working
<1>5. CASE ReadThreshold(r)
  <2>1. PICK c \in {"verdict", "catch"} : \E row : Become(r, Compared(q, row, c))
    BY <1>5 DEF ReadThreshold
  <2>2. PICK row : Become(r, Compared(q, row, c))
    BY <2>1
  <2>3. Compared(q, row, c).pc = c
    BY <1>0 DEF Request, Compared
  <2>4. QED
    BY <2>2, <2>3, StepKeepsDriven DEF AtWork, Working
<1>6. CASE SaveVerdict(r)
  <2>1. q.row.status \in {"completed", "revision"}
    BY <1>0, <1>6 DEF SaveVerdict, Good, CopyFits
  <2>2. CASE q.row.status = "completed"
    BY <1>6, <2>2, SettledIsDriven DEF SaveVerdict, InProgress, Active
  <2>3. CASE q.row.status = "revision"
    <3>1. PICK c \in {"giveup", "revise"}, row \in {q.row, [q.row EXCEPT !.status = "failed"]} :
             Become(r, [q EXCEPT !.pc = c, !.row = row])
      <4>1. CASE q.row.retries >= MaxRetries
        <5>1. Become(r, [q EXCEPT !.pc = "giveup", !.row.status = "failed"])
          BY <1>6, <2>3, <4>1 DEF SaveVerdict
        <5>2. QED
          BY <1>0, <5>1 DEF Request
      <4>2. CASE ~(q.row.retries >= MaxRetries)
        <5>1. Become(r, [q EXCEPT !.pc = "revise"])
          BY <1>6, <2>3, <4>2 DEF SaveVerdict
        <5>2. [q EXCEPT !.pc = "revise"] = [q EXCEPT !.pc = "revise", !.row = q.row]
          BY <1>0 DEF Request
        <5>3. QED
          BY <5>1, <5>2
      <4>3. QED
        BY <4>1, <4>2
    <3>2. [q EXCEPT !.pc = c, !.row = row].pc = c
      BY <1>0 DEF Request
    <3>3. QED
      BY <3>1, <3>2, StepKeepsDriven DEF AtWork, Working
  <2>4. QED
    BY <2>1, <2>2, <2>3
<1>7. CASE GiveUp(r)
  <2>1. q.row.status = "failed"
    BY <1>0, <1>7 DEF GiveUp, Good, CopyFits
  <2>2. QED
    BY <1>7, <2>1, SettledIsDriven DEF GiveUp, InProgress, Active
<1>8. CASE SendFarewell(r) \/ SendFailure(r)
  <2>1. ~AtWork(q)
    BY <1>8 DEF SendFarewell, SendFailure, AtWork, Working
  <2>2. QED
    BY <1>8, <2>1, StepKeepsDriven DEF SendFarewell, SendFailure, Tell, Driven
<1>9. CASE RequestRevision(r)
  <2> DEFINE p == [q EXCEPT !.pc = "enter", !.phase = "execution",
                            !.row.status = StatusOf["execution"]]
  <2>1. p.pc = "enter" /\ Become(r, p)
    BY <1>0, <1>9 DEF RequestRevision, Tell, Request
  <2>2. QED
    BY <2>1, StepKeepsDriven DEF AtWork, Working
<1>10. CASE FailStep(r)
  <2> DEFINE p == [q EXCEPT !.pc = "failtask", !.row.status = "failed"]
  <2>1. p.pc = "failtask" /\ Become(r, p)
    BY <1>0, <1>10 DEF FailStep, Request
  <2>2. QED
    BY <2>1, StepKeepsDriven DEF AtWork, Working
<1>11. CASE FailTask(r)
  <2>1. q.row.status = "failed"
    BY <1>0, <1>11 DEF FailTask, Good, CopyFits
  <2>2. QED
    BY <1>11, <2>1, SettledIsDriven DEF FailTask, InProgress, Active
<1>12. QED
  BY <1>2, <1>3, <1>4, <1>5, <1>6, <1>7, <1>8, <1>9, <1>10, <1>11

\* As long as every role has an agent and nothing fails, some request is at work
\* on a row that is in progress
LEMMA NextDriven == DInv /\ [Next]_vars => DInv'
<1> SUFFICES ASSUME DInv, [Next]_vars
             PROVE  DInv'
  OBVIOUS
<1>1. IInv /\ IInv'
  BY NextInv DEF DInv
<1>2. faults \in Nat /\ crashes \in Nat
  BY <1>1 DEF IInv, TypeOK
<1>3. SUFFICES ASSUME Served'
               PROVE  Driven'
  BY <1>1 DEF DInv
<1>4. /\ ~\E r \in Requests : QueryFails(r)
      /\ ~EvaluationLost /\ ~Crash
  BY <1>2, <1>3 DEF Served, QueryFails, EvaluationLost, Crash
<1>5. CASE UNCHANGED vars
  BY <1>1, <1>3, <1>5 DEF DInv, Served, vars, Driven, AtWork, Top
<1>6. CASE PerformEvaluation
  BY <1>1, <1>3, <1>6 DEF DInv, Served, PerformEvaluation, Driven, AtWork, Top
<1>7. ASSUME NEW r \in Requests, Begin(r)
      PROVE  Driven'
  <2>1. Served
    BY <1>3, <1>7
       DEF Served, Begin, CreateTask, LoadFeedback, LoadToCancel, LoadToEvaluate
  <2>2. QED
    BY <1>1, <1>7, <2>1, BeginDriven DEF DInv
<1>8. ASSUME NEW r \in Requests, Advance(r)
      PROVE  Driven'
  <2>1. Served
    BY <1>3, <1>8
       DEF Served, Advance, Announce, Reply, CancelTask, RequestEvaluation, EnterPhase,
           SelectAgent, CreateStep, CallAgent, CompleteStep, SaveResult, SendResult,
           SelectEvaluators, AskEvaluator, CountVotes, ReadThreshold, SaveVerdict, GiveUp,
           SendFarewell, RequestRevision, FailStep, FailTask, SendFailure
  <2>2. Driven /\ ~MayLackAgents
    BY <2>1 DEF DInv, Served
  <2>3. QED
    BY <1>1, <1>8, <2>2, PhaseDriven, EvaluationDriven DEF Advance
<1>9. QED
  BY <1>4, <1>5, <1>6, <1>7, <1>8 DEF Next

\* With an agent for every role and no failing query, a row in an active phase
\* has a request that will still save it: feedback given twice, cancels and
\* stale copies never leave it in a phase that nothing finishes
THEOREM ActiveDriven == Spec => []ActiveIsDriven
<1>1. Init => DInv
  <2>1. Init => Driven
    BY DEF Init, NoRow, Driven, InProgress, Active
  <2>2. QED
    BY <2>1, InitInv DEF DInv
<1>2. DInv => ActiveIsDriven
  BY DEF DInv, Served, Driven, ActiveIsDriven, InProgress, AtWork, Working, Live, Ended
<1>3. QED
  BY <1>1, <1>2, NextDriven, PTL DEF Spec

-----------------------------------------------------------------------------
(* An open step has one owner *)

\* The owners after a step of request r that goes on as p: the steps in progress
\* are the one p has open, and those that were in progress and not r's
LEMMA StepKeepsOwned ==
    ASSUME IInv, Owned, NEW r \in Requests, NEW p, Become(r, p),
           Len(steps') >= Len(steps), steps' \in Seq({"in_progress", "completed", "failed"}),
           HeldSteps(p) \subseteq HeldSteps(run[r]) \cup (Len(steps) + 1)..Len(steps'),
           \A i \in DOMAIN steps' : steps'[i] = "in_progress" =>
               Opens(p, i) \/ (/\ i \in DOMAIN steps /\ steps[i] = "in_progress"
                               /\ ~Opens(run[r], i))
    PROVE  Owned'
<1>1. DOMAIN run = Requests /\ steps \in Seq({"in_progress", "completed", "failed"})
  BY DEF IInv, TypeOK
<1>2. run'[r] = p /\ \A o \in Requests \ {r} : run'[o] = run[o]
  BY <1>1 DEF Become
<1>3. Len(steps) \in Nat /\ Len(steps') \in Nat
  BY <1>1
<1>4. ASSUME NEW i \in DOMAIN steps', steps'[i] = "in_progress"
      PROVE  \E o \in Requests : Opens(run'[o], i)
  <2>1. CASE Opens(p, i)
    BY <1>2, <2>1
  <2>2. CASE ~Opens(p, i)
    <3>1. PICK o \in Requests : Opens(run[o], i)
      BY <1>4, <2>2 DEF Owned
    <3>2. o # r
      BY <1>4, <2>2, <3>1
    <3>3. QED
      BY <1>2, <3>1, <3>2
  <2>3. QED
    BY <2>1, <2>2
<1>5. \A o \in Requests : HeldSteps(run[o]) \subseteq 1..Len(steps)
  BY DEF Owned
<1>6. \A o \in Requests : HeldSteps(run'[o]) \subseteq 1..Len(steps')
  <2>1. HeldSteps(p) \subseteq 1..Len(steps')
    BY <1>3, <1>5
  <2>2. QED
    BY <1>2, <1>3, <1>5, <2>1
<1>7. ASSUME NEW o \in Requests, o # r
      PROVE  HeldSteps(p) \cap HeldSteps(run[o]) = {}
  BY <1>3, <1>5, <1>7 DEF Owned
<1>8. \A a, o \in Requests : a # o => HeldSteps(run'[a]) \cap HeldSteps(run'[o]) = {}
  <2>1. \A a, o \in Requests : a # o => HeldSteps(run[a]) \cap HeldSteps(run[o]) = {}
    BY DEF Owned
  <2>2. QED
    BY <1>2, <1>7, <2>1
<1>9. QED
  BY <1>4, <1>6, <1>8 DEF Owned, HeldSteps, Opens, Top

\* A request whose activations stay as they are, or are all gone
LEMMA KeepsOwned ==
    ASSUME IInv, Owned, NEW r \in Requests, NEW p, Become(r, p), UNCHANGED steps,
           p.stack \in {run[r].stack, <<>>},
           \/ run[r].pc \notin {"call", "stepdone", "catch"}
           \/ p.pc \in {"call", "stepdone", "catch"} /\ p.stack = run[r].stack
    PROVE  Owned'
<1>1. HeldSteps(p) \subseteq HeldSteps(run[r])
  BY DEF HeldSteps
<1>2. \A i : Opens(run[r], i) => Opens(p, i)
  BY DEF Opens, Top
<1>3. steps \in Seq({"in_progress", "completed", "failed"}) /\ Len(steps) \in Nat
  BY DEF IInv, TypeOK
<1>4. \A i \in DOMAIN steps' : steps'[i] = "in_progress" =>
          Opens(p, i) \/ (/\ i \in DOMAIN steps /\ steps[i] = "in_progress" /\ ~Opens(run[r], i))
  BY <1>2
<1>5. QED
  BY <1>1, <1>3, <1>4, StepKeepsOwned

\* A step that changes the stored status of the innermost step of r
LEMMA ClosesStep ==
    ASSUME IInv, Owned, NEW r \in Requests, NEW p, Become(r, p), p.stack = run[r].stack,
           NEW s \in {"completed", "failed"}, run[r].pc \in {"stepdone", "catch"},
           steps' = [steps EXCEPT ![Top(run[r]).step] = s]
    PROVE  Owned'
<1> DEFINE t == Top(run[r]).step
<1>1. steps \in Seq({"in_progress", "completed", "failed"}) /\ Len(steps) \in Nat
  BY DEF IInv, TypeOK
<1>2. /\ steps' \in Seq({"in_progress", "completed", "failed"})
      /\ DOMAIN steps' = DOMAIN steps /\ Len(steps') = Len(steps)
  BY <1>1, StepsType
<1>3. HeldSteps(p) \subseteq HeldSteps(run[r])
  BY DEF HeldSteps
<1>4. ASSUME NEW i \in DOMAIN steps', steps'[i] = "in_progress"
      PROVE  i \in DOMAIN steps /\ steps[i] = "in_progress" /\ ~Opens(run[r], i)
  <2>1. i # t
    BY <1>2, <1>4
  <2>2. QED
    BY <1>2, <1>4, <2>1 DEF Opens
<1>5. Len(steps') >= Len(steps)
  BY <1>1, <1>2
<1>6. QED
  BY <1>2, <1>3, <1>4, <1>5, StepKeepsOwned

LEMMA BeginOwned ==
    ASSUME IInv, Owned, NEW r \in Requests, Begin(r)
    PROVE  Owned'
<1>1. run[r].pc \notin {"call", "stepdone", "catch"}
  BY DEF Begin, CreateTask, LoadFeedback, LoadToCancel, LoadToEvaluate, MayBegin
<1>3. CASE CreateTask(r)
  <2> DEFINE p == [IdleRequest EXCEPT !.op = "create", !.row = task', !.pc = "announce"]
  <2>1. p.stack = <<>> /\ Become(r, p)
    BY <1>3, IdleGood DEF CreateTask, Request
  <2>2. QED
    BY <1>1, <1>3, <2>1, KeepsOwned DEF CreateTask
<1>4. ASSUME NEW ok \in BOOLEAN, LoadFeedback(r, ok)
      PROVE  Owned'
  <2> DEFINE l == [IdleRequest EXCEPT !.op = "feedback", !.approves = ok, !.row = task]
             p == IF task.status = "requirement_confirmation"
                  THEN [l EXCEPT !.pc = "reply"] ELSE Finish(l, "rejected")
  <2>1. [l EXCEPT !.pc = "reply"].stack = <<>>
    BY IdleGood DEF Request
  <2>2. Finish(l, "rejected").stack = <<>>
    BY IdleGood DEF Finish, Request
  <2>3. p.stack = <<>> /\ Become(r, p)
    BY <1>4, <2>1, <2>2 DEF LoadFeedback
  <2>4. QED
    BY <1>1, <1>4, <2>3, KeepsOwned DEF LoadFeedback
<1>5. CASE LoadToCancel(r)
  <2> DEFINE p == [IdleRequest EXCEPT !.op = "cancel", !.pc = "cancel",
                                      !.row = [task EXCEPT !.status = "cancelled"]]
  <2>1. p.stack = <<>> /\ Become(r, p)
    BY <1>5, IdleGood DEF LoadToCancel, Request
  <2>2. QED
    BY <1>1, <1>5, <2>1, KeepsOwned DEF LoadToCancel
<1>6. CASE LoadToEvaluate(r)
  <2>1. PICK n \in 1..Evaluators :
           Become(r, [IdleRequest EXCEPT !.op = "evaluate", !.pc = "request", !.left = n])
    BY <1>6 DEF LoadToEvaluate
  <2>2. [IdleRequest EXCEPT !.op = "evaluate", !.pc = "request", !.left = n].stack = <<>>
    BY IdleGood DEF Request
  <2>3. QED
    BY <1>1, <1>6, <2>1, <2>2, KeepsOwned DEF LoadToEvaluate
<1>7. QED
  BY <1>3, <1>4, <1>5, <1>6 DEF Begin

LEMMA AdvanceOwned ==
    ASSUME IInv, Owned, NEW r \in Requests, Advance(r)
    PROVE  Owned'
<1> DEFINE q == run[r]
<1>0. /\ q \in Request /\ Good(q)
      /\ steps \in Seq({"in_progress", "completed", "failed"}) /\ Len(steps) \in Nat
  BY DEF IInv, TypeOK
<1>1. ASSUME NEW c \in PCs, Goto(r, c), UNCHANGED steps,
             q.pc \notin {"call", "stepdone", "catch"} \/ c \in {"call", "stepdone", "catch"}
      PROVE  Owned'
  <2>1. Become(r, [q EXCEPT !.pc = c])
    BY <1>1 DEF Goto, Become
  <2>2. [q EXCEPT !.pc = c].stack = q.stack /\ [q EXCEPT !.pc = c].pc = c
    BY <1>0, PointOf
  <2>3. QED
    BY <1>1, <2>1, <2>2, KeepsOwned
<1>2. \A c : Finish(q, c).stack = <<>>
  BY IdleGood DEF Finish, Request
<1>3. CASE Announce(r) \/ Reply(r) \/ RequestRevision(r)
  <2>1. PICK phase \in Phases :
           Become(r, [q EXCEPT !.pc = "enter", !.phase = phase, !.row.status = StatusOf[phase]])
    BY <1>3 DEF Announce, Reply, RequestRevision, Tell, Phases
  <2>2. [q EXCEPT !.pc = "enter", !.phase = phase, !.row.status = StatusOf[phase]].stack = q.stack
    BY <1>0 DEF Request
  <2>3. QED
    BY <1>3, <2>1, <2>2, KeepsOwned DEF Announce, Reply, RequestRevision
<1>4. CASE CancelTask(r)
  BY <1>2, <1>4, KeepsOwned DEF CancelTask
<1>5. CASE RequestEvaluation(r)
  <2> DEFINE p == IF q.left = 1 THEN Finish(q, "done") ELSE [q EXCEPT !.left = @ - 1]
  <2>1. [q EXCEPT !.left = @ - 1].stack = q.stack
    BY <1>0 DEF Request
  <2>2. p.stack \in {q.stack, <<>>}
    BY <1>2, <2>1
  <2>3. QED
    BY <1>5, <2>2, KeepsOwned DEF RequestEvaluation
<1>6. CASE EnterPhase(r)
  BY <1>1, <1>6 DEF EnterPhase, PCs
<1>7. CASE SelectAgent(r)
  <2>1. Throw(q, q.stack).stack \in {q.stack, <<>>}
    BY <1>0, <1>2 DEF Throw, Request
  <2>2. CASE Become(r, Throw(q, q.stack))
    BY <1>7, <2>1, <2>2, KeepsOwned DEF SelectAgent
  <2>3. CASE Goto(r, "step")
    BY <1>1, <1>7, <2>3 DEF SelectAgent, PCs
  <2>4. QED
    BY <1>7, <2>2, <2>3 DEF SelectAgent
<1>8. CASE CreateStep(r)
  <2> DEFINE n == Len(steps) + 1
             f == [phase |-> q.phase, step |-> n]
             p == [q EXCEPT !.pc = "call", !.stack = Append(q.stack, f)]
  <2>1. Become(r, p) /\ p.pc = "call" /\ p.stack = Append(q.stack, f)
    BY <1>0, <1>8 DEF CreateStep, Request
  <2>2. /\ steps' = Append(steps, "in_progress") /\ Len(steps') = n
        /\ steps' \in Seq({"in_progress", "completed", "failed"})
        /\ \A i \in DOMAIN steps' : i = n \/ (i \in DOMAIN steps /\ steps'[i] = steps[i])
    BY <1>0, <1>8 DEF CreateStep
  <2>3. q.stack \in Seq(Frame) /\ f \in Frame
    BY <1>0 DEF Request, Frame
  <2>4. /\ p.stack[Len(p.stack)] = f
        /\ \A k \in DOMAIN p.stack : p.stack[k] = f \/ (k \in DOMAIN q.stack /\ p.stack[k] = q.stack[k])
    BY <2>1, <2>3
  <2>5. HeldSteps(p) \subseteq HeldSteps(q) \cup (Len(steps) + 1)..Len(steps')
    <3>1. n \in (Len(steps) + 1)..Len(steps') /\ f.step = n
      BY <1>0, <2>2
    <3>2. QED
      BY <2>4, <3>1 DEF HeldSteps
  <2>6. Opens(p, n)
    BY <2>1, <2>4 DEF Opens, Top
  <2>7. \A i : ~Opens(q, i)
    BY <1>8 DEF CreateStep, Opens
  <2>8. QED
    BY <1>0, <2>1, <2>2, <2>5, <2>6, <2>7, StepKeepsOwned
<1>9. CASE CallAgent(r)
  BY <1>1, <1>9 DEF CallAgent, PCs
<1>10. CASE CompleteStep(r)
  <2> DEFINE p == [q EXCEPT !.pc = "result", !.row.status = ResultOf[Top(q).phase]]
  <2>1. Become(r, p) /\ p.stack = q.stack
    BY <1>0, <1>10 DEF CompleteStep, Request
  <2>2. QED
    BY <1>10, <2>1, ClosesStep DEF CompleteStep
<1>11. CASE SaveResult(r)
  BY <1>1, <1>11 DEF SaveResult, PCs
<1>12. CASE SendResult(r)
  <2>1. Top(q).phase \in Phases
    BY <1>0, <1>12, TopType DEF SendResult, Good, Placed, Inside, Frame
  <2>2. CASE Top(q).phase = "analysis"
    BY <1>2, <1>12, <2>2, KeepsOwned DEF SendResult, Tell
  <2>3. CASE Top(q).phase = "planning"
    <3> DEFINE p == [q EXCEPT !.pc = "select", !.phase = "execution"]
    <3>1. p.stack = q.stack /\ Become(r, p)
      BY <1>0, <1>12, <2>3 DEF SendResult, Tell, Request
    <3>2. QED
      BY <1>12, <3>1, KeepsOwned DEF SendResult
  <2>4. CASE Top(q).phase = "execution"
    <3> DEFINE p == [q EXCEPT !.pc = "evaluators"]
    <3>1. p.stack = q.stack /\ Become(r, p)
      BY <1>0, <1>12, <2>4 DEF SendResult, Tell, Request
    <3>2. QED
      BY <1>12, <3>1, KeepsOwned DEF SendResult
  <2>5. QED
    BY <2>1, <2>2, <2>3, <2>4 DEF Phases
<1>13. CASE SelectEvaluators(r)
  <2>1. ASSUME NEW n \in 1..Evaluators, Become(r, [q EXCEPT !.pc = "ask", !.left = n])
        PROVE  Owned'
    <3>1. [q EXCEPT !.pc = "ask", !.left = n].stack = q.stack
      BY <1>0 DEF Request
    <3>2. QED
      BY <1>13, <2>1, <3>1, KeepsOwned DEF SelectEvaluators
  <2>2. CASE Goto(r, "catch")
    BY <1>1, <1>13, <2>2 DEF SelectEvaluators, PCs
  <2>3. QED
    BY <1>13, <2>1, <2>2 DEF SelectEvaluators
<1>14. CASE AskEvaluator(r)
  <2> DEFINE p == [q EXCEPT !.left = @ - 1, !.pc = IF q.left = 1 THEN "timer" ELSE "ask"]
  <2>1. p.stack = q.stack /\ Become(r, p)
    BY <1>0, <1>14 DEF AskEvaluator, Request
  <2>2. QED
    BY <1>14, <2>1, KeepsOwned DEF AskEvaluator
<1>15. CASE CountVotes(r)
  <2> DEFINE p == [q EXCEPT !.pc = "room",
                            !.tally = [approved |-> votes.approved, total |-> votes.asked]]
  <2>1. p.stack = q.stack /\ Become(r, p)
    BY <1>0, <1>15 DEF CountVotes, Request
  <2>2. QED
    BY <1>15, <2>1, KeepsOwned DEF CountVotes
<1>16. CASE ReadThreshold(r)
  <2>1. PICK c \in {"verdict", "catch"} : \E row : Become(r, Compared(q, row, c))
    BY <1>16 DEF ReadThreshold
  <2>2. PICK row : Become(r, Compared(q, row, c))
    BY <2>1
  <2>3. Compared(q, row, c).stack = q.stack
    BY <1>0 DEF Request, Compared
  <2>4. QED
    BY <1>16, <2>2, <2>3, KeepsOwned DEF ReadThreshold
<1>17. CASE SaveVerdict(r)
  <2> DEFINE g == [q EXCEPT !.pc = "giveup", !.row.status = "failed"]
  <2>1. g.stack = q.stack
    BY <1>0 DEF Request
  <2>2. \/ Become(r, [q EXCEPT !.pc = "farewell"]) \/ Become(r, g)
        \/ Become(r, [q EXCEPT !.pc = "revise"])
    BY <1>17 DEF SaveVerdict
  <2>3. CASE Become(r, g)
    BY <1>17, <2>1, <2>3, KeepsOwned DEF SaveVerdict
  <2>4. QED
    BY <1>1, <1>17, <2>2, <2>3 DEF SaveVerdict, PCs, Goto, Become
<1>18. CASE GiveUp(r)
  BY <1>1, <1>18 DEF GiveUp, PCs
<1>19. CASE SendFarewell(r) \/ SendFailure(r)
  <2>1. PICK n \in {Finish(q, "done").verdicts, Finish(q, "done").verdicts + 1} :
           Become(r, [Finish(q, "done") EXCEPT !.verdicts = n])
    BY <1>19 DEF SendFarewell, SendFailure, Tell
  <2>2. Finish(q, "done") \in Request
    BY <1>0, FinishGood DEF Good, Placed
  <2>3. [Finish(q, "done") EXCEPT !.verdicts = n].stack = <<>>
    BY <1>2, <2>2 DEF Request
  <2>4. QED
    BY <1>19, <2>1, <2>3, KeepsOwned DEF SendFarewell, SendFailure
<1>20. CASE FailStep(r)
  <2> DEFINE p == [q EXCEPT !.pc = "failtask", !.row.status = "failed"]
  <2>1. Become(r, p) /\ p.stack = q.stack
    BY <1>0, <1>20 DEF FailStep, Request
  <2>2. QED
    BY <1>20, <2>1, ClosesStep DEF FailStep
<1>21. CASE FailTask(r)
  BY <1>1, <1>21 DEF FailTask, PCs
<1>22. QED
  BY <1>3, <1>4, <1>5, <1>6, <1>7, <1>8, <1>9, <1>10, <1>11, <1>12, <1>13, <1>14,
     <1>15, <1>16, <1>17, <1>18, <1>19, <1>20, <1>21 DEF Advance

\* While nothing fails, an open step is the innermost one of the only request
\* that holds it
LEMMA NextOwned == OInv /\ [Next]_vars => OInv'
<1> SUFFICES ASSUME OInv, [Next]_vars
             PROVE  OInv'
  OBVIOUS
<1>1. IInv /\ IInv'
  BY NextInv DEF OInv
<1>2. faults \in Nat /\ crashes \in Nat
  BY <1>1 DEF IInv, TypeOK
<1>3. SUFFICES ASSUME Undisturbed'
               PROVE  Owned'
  BY <1>1 DEF OInv
<1>4. (\A r \in Requests : ~QueryFails(r)) /\ ~EvaluationLost /\ ~Crash
  BY <1>2, <1>3 DEF Undisturbed, QueryFails, EvaluationLost, Crash
<1>5. CASE UNCHANGED vars \/ PerformEvaluation
  <2>1. run' = run /\ steps' = steps /\ faults' = faults /\ crashes' = crashes
    BY <1>5 DEF vars, PerformEvaluation
  <2>2. Owned
    BY <1>3, <2>1 DEF OInv, Undisturbed
  <2>3. \A r \in Requests : \A i : Opens(run'[r], i) <=> Opens(run[r], i)
    BY <2>1 DEF Opens, Top
  <2>4. \A r \in Requests : HeldSteps(run'[r]) = HeldSteps(run[r])
    BY <2>1 DEF HeldSteps
  <2>5. QED
    BY <2>1, <2>2, <2>3, <2>4 DEF Owned
<1>6. ASSUME NEW r \in Requests, Begin(r)
      PROVE  Owned'
  <2>1. Undisturbed
    BY <1>3, <1>6
       DEF Undisturbed, Begin, CreateTask, LoadFeedback, LoadToCancel, LoadToEvaluate
  <2>2. QED
    BY <1>1, <1>6, <2>1, BeginOwned DEF OInv
<1>7. ASSUME NEW r \in Requests, Advance(r)
      PROVE  Owned'
  <2>1. Undisturbed
    BY <1>3, <1>7
       DEF Undisturbed, Advance, Announce, Reply, CancelTask, RequestEvaluation, EnterPhase,
           SelectAgent, CreateStep, CallAgent, CompleteStep, SaveResult, SendResult,
           SelectEvaluators, AskEvaluator, CountVotes, ReadThreshold, SaveVerdict, GiveUp,
           SendFarewell, RequestRevision, FailStep, FailTask, SendFailure
  <2>2. QED
    BY <1>1, <1>7, <2>1, AdvanceOwned DEF OInv
<1>8. QED
  BY <1>4, <1>5, <1>6, <1>7 DEF Next

\* A step stored as in progress belongs to exactly one live request
THEOREM StepsOwned == Spec => []OpenStepOwned
<1>1. Init => OInv
  <2>1. Init => Owned
    BY IdleGood DEF Init, Owned, HeldSteps
  <2>2. QED
    BY <2>1, InitInv DEF OInv
<1>2. OInv => OpenStepOwned
  <2> SUFFICES ASSUME OInv, Undisturbed, NEW i \in DOMAIN steps, steps[i] = "in_progress"
               PROVE  \E r \in Requests : Live(r) /\ Holds(r, i)
                                          /\ \A o \in Requests \ {r} : ~Holds(o, i)
    BY DEF OpenStepOwned, Undisturbed
  <2>1. PICK r \in Requests : Opens(run[r], i)
    BY DEF OInv, Owned
  <2>2. run[r].stack # <<>> /\ run[r] \in Request
    BY <2>1 DEF OInv, IInv, TypeOK, Good, Placed, Opens, Inside
  <2>3. Live(r) /\ Holds(r, i)
    BY <2>1, <2>2, TopType DEF Opens, Live, Ended, Holds, Top
  <2>4. \A o \in Requests : Holds(o, i) => i \in HeldSteps(run[o])
    BY DEF Holds, HeldSteps
  <2>5. QED
    BY <2>3, <2>4 DEF OInv, Owned
<1>3. QED
  BY <1>1, <1>2, NextOwned, PTL DEF Spec

-----------------------------------------------------------------------------
(* Of requests that take turns the row follows the life of a task *)

Alone(r) == \A o \in Requests \ {r} : ~Live(o)

\* What a step means for somebody who only sees the row of an orderly history
LifeStep == [Life!Next]_<<IF orderly THEN task.status ELSE "absent",
                          IF orderly THEN task.retries ELSE 0>>

\* The only request goes on as p, which ends or follows the row
LEMMA StepTakesTurns ==
    ASSUME IInv, TakeTurns, NEW r \in Requests, Alone(r), NEW p, Become(r, p),
           p.pc \notin Ended => Follows(task', p),
           task'.status = "absent" => UNCHANGED task
    PROVE  TakeTurns'
<1>1. run'[r] = p /\ \A o \in Requests \ {r} : run'[o] = run[o]
  BY DEF IInv, TypeOK, Become
<1>2. \A o \in Requests : run'[o].pc \notin Ended => o = r
  BY <1>1 DEF Alone, Live
<1>3. \A o \in Requests : run'[o].pc \notin Ended => Follows(task', run'[o])
  BY <1>1, <1>2
<1>4. QED
  BY <1>2, <1>3 DEF TakeTurns, Live, Follows, Top

\* It goes on to another point, which fits the row
LEMMA GotoTakesTurns ==
    ASSUME IInv, TakeTurns, NEW r \in Requests, Alone(r), NEW c \in PCs, Goto(r, c),
           task'.status = "absent" => UNCHANGED task,
           \A p \in Request : /\ p.pc = c /\ p.row = run[r].row /\ p.phase = run[r].phase
                              /\ Top(p) = Top(run[r])
                              => Follows(task', p)
    PROVE  TakeTurns'
<1>1. run[r] \in Request
  BY DEF IInv, TypeOK
<1> DEFINE p == [run[r] EXCEPT !.pc = c]
<1>2. /\ p \in Request /\ p.pc = c /\ p.row = run[r].row /\ p.phase = run[r].phase
      /\ Top(p) = Top(run[r])
  BY <1>1, PointOf
<1>3. Become(r, p)
  BY DEF Goto, Become
<1>4. QED
  BY <1>2, <1>3, StepTakesTurns

\* A save of the copy, in an orderly history, is a move of the abstract life
LEMMA SaveIsLifeStep ==
    ASSUME orderly, UNCHANGED orderly, NEW r \in Requests, Save(r),
           LET row == run[r].row IN
           \/ row.status = task.status /\ row.retries = task.retries
           \/ <<task.status, row.status>> \in Life!Moves /\ row.retries = task.retries
           \/ /\ task.status = "evaluation" /\ row.status = "revision"
              /\ task.retries < MaxRetries /\ row.retries = task.retries + 1
           \/ /\ task.status = "revision" /\ task.retries < MaxRetries
              /\ row.status = "execution" /\ row.retries = task.retries
           \/ task.status \in Active /\ row.status = "failed" /\ row.retries = task.retries
           \/ task.status # "absent" /\ row.status = "cancelled" /\ row.retries = task.retries
    PROVE  LifeStep
BY DEF Save, LifeStep, Life!Next, Life!Move, Life!Reject, Life!Revise, Life!Fail, Life!Cancel,
       Life!Active, Active

\* A step that leaves the row alone is a stutter
LEMMA RowStays ==
    ASSUME UNCHANGED <<task, orderly>>
    PROVE  LifeStep
BY DEF LifeStep

LEMMA BeginTakesTurns ==
    ASSUME IInv, orderly, TakeTurns, NEW r \in Requests, Begin(r)
    PROVE  TakeTurns' /\ LifeStep
<1>1. Alone(r) /\ UNCHANGED orderly
  BY DEF Begin, CreateTask, LoadFeedback, LoadToCancel, LoadToEvaluate, MayBegin, Alone
<1>2. CASE CreateTask(r)
  <2> DEFINE p == [IdleRequest EXCEPT !.op = "create", !.row = task', !.pc = "announce"]
  <2>1. p.pc = "announce" /\ p.row = task' /\ Become(r, p)
    BY <1>2, IdleGood DEF CreateTask, Request
  <2>2. Follows(task', p)
    BY <2>1 DEF Follows, InSync
  <2>3. task.status = "absent" /\ task'.status = "pending" /\ task'.retries = 0
    BY <1>2 DEF CreateTask, NoRow
  <2>4. task.retries = 0
    BY <2>3 DEF TakeTurns
  <2>5. TakeTurns'
    BY <1>1, <2>1, <2>2, <2>3, StepTakesTurns
  <2>6. LifeStep
    BY <1>1, <2>3, <2>4 DEF LifeStep, Life!Next, Life!Move, Life!Moves
  <2>7. QED
    BY <2>5, <2>6
<1>3. ASSUME NEW ok \in BOOLEAN, LoadFeedback(r, ok)
      PROVE  TakeTurns' /\ LifeStep
  <2> DEFINE l == [IdleRequest EXCEPT !.op = "feedback", !.approves = ok, !.row = task]
             p == IF task.status = "requirement_confirmation"
                  THEN [l EXCEPT !.pc = "reply"] ELSE Finish(l, "rejected")
  <2>1. [l EXCEPT !.pc = "reply"].pc = "reply" /\ [l EXCEPT !.pc = "reply"].row = task
    BY IdleGood DEF Request
  <2>2. Finish(l, "rejected").pc = "rejected"
    BY IdleGood DEF Finish, Request
  <2>3. Become(r, p) /\ UNCHANGED task
    BY <1>3 DEF LoadFeedback
  <2>4. p.pc \notin Ended => Follows(task', p)
    BY <2>1, <2>2, <2>3 DEF Follows, InSync, Ended
  <2>5. QED
    BY <1>1, <2>3, <2>4, StepTakesTurns, RowStays
<1>4. CASE LoadToCancel(r)
  <2> DEFINE row == [task EXCEPT !.status = "cancelled"]
             p == [IdleRequest EXCEPT !.op = "cancel", !.pc = "cancel", !.row = row]
  <2>1. p.pc = "cancel" /\ p.row = row /\ Become(r, p) /\ UNCHANGED task
    BY <1>4, IdleGood DEF LoadToCancel, Request
  <2>2. row.retries = task.retries /\ task.status # "absent"
    BY <1>4 DEF LoadToCancel, IInv, TypeOK, Row
  <2>3. Follows(task', p)
    BY <2>1, <2>2 DEF Follows, InSync
  <2>4. QED
    BY <1>1, <2>1, <2>3, StepTakesTurns, RowStays
<1>5. CASE LoadToEvaluate(r)
  <2>1. PICK n \in 1..Evaluators :
           Become(r, [IdleRequest EXCEPT !.op = "evaluate", !.pc = "request", !.left = n])
    BY <1>5 DEF LoadToEvaluate
  <2> DEFINE p == [IdleRequest EXCEPT !.op = "evaluate", !.pc = "request", !.left = n]
  <2>2. p.pc = "request" /\ UNCHANGED task
    BY <1>5, IdleGood DEF LoadToEvaluate, Request
  <2>3. Follows(task', p)
    BY <2>2 DEF Follows, InSync
  <2>4. QED
    BY <1>1, <2>1, <2>2, <2>3, StepTakesTurns, RowStays
<1>6. QED
  BY <1>2, <1>3, <1>4, <1>5 DEF Begin

LEMMA PhaseTakesTurns ==
    ASSUME IInv, orderly, TakeTurns, NEW r \in Requests,
           \/ Announce(r) \/ Reply(r) \/ CancelTask(r) \/ RequestEvaluation(r)
           \/ EnterPhase(r) \/ SelectAgent(r) \/ CreateStep(r) \/ CallAgent(r)
           \/ CompleteStep(r) \/ SaveResult(r) \/ SendResult(r)
    PROVE  TakeTurns' /\ LifeStep
<1> DEFINE q == run[r]
<1>0. q \in Request /\ Good(q) /\ task \in Row /\ q.row \in Row
  BY DEF IInv, TypeOK, Request
<1>1. Alone(r) /\ Follows(task, q) /\ UNCHANGED orderly
  <2>1. Live(r) /\ UNCHANGED orderly
    BY DEF Live, Ended, Announce, Reply, CancelTask, RequestEvaluation, EnterPhase,
           SelectAgent, CreateStep, CallAgent, CompleteStep, SaveResult, SendResult
  <2>2. QED
    BY <2>1 DEF TakeTurns, Alone
<1>2. \A c : Finish(q, c).pc = c
  BY IdleGood DEF Finish, Request
<1>3. ASSUME NEW p, Become(r, p), p.pc \in Ended \/ Follows(task, p), UNCHANGED task
      PROVE  TakeTurns' /\ LifeStep
  BY <1>1, <1>3, StepTakesTurns, RowStays
<1>4. CASE Announce(r) \/ Reply(r)
  <2>1. PICK phase \in Phases :
           /\ Become(r, [q EXCEPT !.pc = "enter", !.phase = phase, !.row.status = StatusOf[phase]])
           /\ <<q.row.status, StatusOf[phase]>> \in Life!Moves
    BY <1>0, <1>4
       DEF Announce, Reply, Tell, Phases, Good, CopyFits, StatusOf, Life!Moves
  <2> DEFINE p == [q EXCEPT !.pc = "enter", !.phase = phase, !.row.status = StatusOf[phase]]
  <2>2. /\ p.pc = "enter" /\ p.row.status = StatusOf[phase] /\ p.row.retries = q.row.retries
    BY <1>0 DEF Request, Row
  <2>3. task = q.row /\ UNCHANGED task
    BY <1>1, <1>4 DEF Follows, InSync, Announce, Reply
  <2>4. Follows(task', p)
    BY <2>1, <2>2, <2>3 DEF Follows, InSync
  <2>5. QED
    BY <1>1, <2>1, <2>3, <2>4, StepTakesTurns, RowStays
<1>5. CASE CancelTask(r)
  <2>1. /\ q.row.status = "cancelled" /\ task.status # "absent" /\ task.retries = q.row.retries
    BY <1>0, <1>1, <1>5 DEF CancelTask, Good, CopyFits, Follows
  <2>2. LifeStep
    BY <1>1, <1>5, <2>1, SaveIsLifeStep DEF CancelTask
  <2>3. TakeTurns'
    BY <1>1, <1>2, <1>5, <2>1, StepTakesTurns DEF CancelTask, Save, Ended
  <2>4. QED
    BY <2>2, <2>3
<1>6. CASE RequestEvaluation(r)
  <2>1. CASE q.left = 1
    BY <1>1, <1>2, <1>6, <2>1, StepTakesTurns, RowStays DEF RequestEvaluation, Ended
  <2>2. CASE q.left # 1
    <3> DEFINE p == [q EXCEPT !.left = @ - 1]
    <3>1. p.pc = "request" /\ Become(r, p) /\ UNCHANGED task
      BY <1>0, <1>6, <2>2 DEF RequestEvaluation, Request
    <3>2. Follows(task', p)
      BY <3>1 DEF Follows, InSync
    <3>3. QED
      BY <1>1, <3>1, <3>2, StepTakesTurns, RowStays
  <2>3. QED
    BY <2>1, <2>2
<1>7. CASE EnterPhase(r)
  <2>1. /\ task.retries = q.row.retries /\ q.row.status = StatusOf[q.phase]
        /\ \/ <<task.status, q.row.status>> \in Life!Moves
           \/ task.status = "revision" /\ task.retries < MaxRetries /\ q.phase = "execution"
    BY <1>0, <1>1, <1>7 DEF EnterPhase, Good, CopyFits, Follows
  <2>2. q.phase \in Phases /\ q.row.status # "absent"
    BY <1>0, <2>1 DEF Request, Phases, StatusOf
  <2>3. LifeStep
    BY <1>1, <1>7, <2>1, SaveIsLifeStep DEF EnterPhase, StatusOf
  <2>4. TakeTurns'
    BY <1>1, <1>7, <2>2, GotoTakesTurns DEF EnterPhase, Save, Follows, InSync, PCs
  <2>5. QED
    BY <2>3, <2>4
<1>8. CASE SelectAgent(r)
  <2>1. task = q.row /\ UNCHANGED task /\ q.row.status \in Active
    BY <1>0, <1>1, <1>8, PhaseStatus DEF SelectAgent, Follows, InSync, Good, CopyFits, Request
  <2>2. CASE Goto(r, "step")
    <3>1. TakeTurns'
      BY <1>1, <2>1, <2>2, GotoTakesTurns DEF Follows, InSync, PCs
    <3>2. QED
      BY <1>1, <2>1, <3>1, RowStays
  <2>3. CASE Become(r, Throw(q, q.stack))
    <3> DEFINE p == [q EXCEPT !.stack = q.stack, !.pc = "catch"]
    <3>1. p.pc = "catch" /\ p.row = q.row
      BY <1>0 DEF Request
    <3>2. Follows(task', p)
      BY <2>1, <3>1 DEF Follows, InSync
    <3>3. Throw(q, q.stack) = p \/ Throw(q, q.stack).pc \in Ended
      BY <1>2 DEF Throw, Ended
    <3>4. QED
      BY <1>1, <2>1, <2>3, <3>2, <3>3, StepTakesTurns, RowStays
  <2>4. QED
    BY <1>8, <2>2, <2>3 DEF SelectAgent
<1>9. CASE CreateStep(r)
  <2> DEFINE f == [phase |-> q.phase, step |-> Len(steps) + 1]
             p == [q EXCEPT !.pc = "call", !.stack = Append(q.stack, f)]
  <2>1. Become(r, p) /\ p.pc = "call" /\ p.row = q.row /\ UNCHANGED task
    BY <1>0, <1>9 DEF CreateStep, Request
  <2>2. Follows(task', p)
    BY <1>1, <1>9, <2>1 DEF CreateStep, Follows, InSync
  <2>3. QED
    BY <1>1, <2>1, <2>2, StepTakesTurns, RowStays
<1>10. CASE CallAgent(r)
  <2>1. /\ task = q.row /\ UNCHANGED task /\ Top(q).phase \in Phases
        /\ q.row.status = StatusOf[Top(q).phase]
    BY <1>0, <1>1, <1>10, TopType
       DEF CallAgent, Follows, InSync, Good, CopyFits, Placed, Inside, Frame
  <2>2. q.row.status \in Active
    BY <2>1, PhaseStatus
  <2>3. PICK c \in {"stepdone", "catch"} : Goto(r, c)
    BY <1>10 DEF CallAgent
  <2>4. TakeTurns'
    BY <1>1, <2>1, <2>2, <2>3, GotoTakesTurns DEF Follows, InSync, PCs
  <2>5. QED
    BY <1>1, <2>1, <2>4, RowStays
<1>11. CASE CompleteStep(r)
  <2> DEFINE s == ResultOf[Top(q).phase]
             p == [q EXCEPT !.pc = "result", !.row.status = s]
  <2>1. /\ Become(r, p) /\ p.pc = "result" /\ p.row.retries = q.row.retries
        /\ Top(p) = Top(q) /\ UNCHANGED task
    BY <1>0, <1>11 DEF CompleteStep, Request, Row, Top
  <2>2. task = q.row /\ q.row.status = StatusOf[Top(q).phase]
    BY <1>0, <1>1, <1>11 DEF CompleteStep, Follows, InSync, Good, CopyFits
  <2> HIDE DEF p
  <2>3. Follows(task', p)
    BY <2>1, <2>2 DEF Follows, InSync
  <2>4. QED
    BY <1>1, <2>1, <2>3, StepTakesTurns, RowStays
<1>12. CASE SaveResult(r)
  <2>1. /\ task.retries = q.row.retries /\ q.row.status = ResultOf[Top(q).phase]
        /\ task.status = StatusOf[Top(q).phase] /\ Top(q).phase \in Phases
    BY <1>0, <1>1, <1>12, TopType
       DEF SaveResult, Good, CopyFits, Follows, Placed, Inside, Frame
  <2>2. <<task.status, q.row.status>> \in Life!Moves /\ q.row.status # "absent"
    BY <2>1 DEF Phases, StatusOf, ResultOf, Life!Moves
  <2>3. LifeStep
    BY <1>1, <1>12, <2>1, <2>2, SaveIsLifeStep DEF SaveResult
  <2>4. TakeTurns'
    BY <1>1, <1>12, <2>2, GotoTakesTurns DEF SaveResult, Save, Follows, InSync, PCs
  <2>5. QED
    BY <2>3, <2>4
<1>13. CASE SendResult(r)
  <2>1. Top(q).phase \in Phases /\ task = q.row /\ UNCHANGED task
    BY <1>0, <1>1, <1>13, TopType
       DEF SendResult, Good, Placed, Inside, Frame, Follows, InSync
  <2>2. CASE Top(q).phase = "analysis"
    BY <1>1, <1>2, <1>13, <2>1, <2>2, StepTakesTurns, RowStays DEF SendResult, Tell, Ended
  <2>3. CASE Top(q).phase = "planning"
    <3> DEFINE p == [q EXCEPT !.pc = "select", !.phase = "execution"]
    <3>1. p.pc = "select" /\ p.row = q.row /\ Become(r, p)
      BY <1>0, <1>13, <2>3 DEF SendResult, Tell, Request
    <3>2. Follows(task', p)
      BY <2>1, <3>1 DEF Follows, InSync
    <3>3. QED
      BY <1>1, <2>1, <3>1, <3>2, StepTakesTurns, RowStays
  <2>4. CASE Top(q).phase = "execution"
    <3> DEFINE p == [q EXCEPT !.pc = "evaluators"]
    <3>1. p.pc = "evaluators" /\ p.row = q.row /\ Become(r, p)
      BY <1>0, <1>13, <2>4 DEF SendResult, Tell, Request
    <3>2. Follows(task', p)
      BY <2>1, <3>1 DEF Follows, InSync
    <3>3. QED
      BY <1>1, <2>1, <3>1, <3>2, StepTakesTurns, RowStays
  <2>5. QED
    BY <2>1, <2>2, <2>3, <2>4 DEF Phases
<1>14. QED
  BY <1>4, <1>5, <1>6, <1>7, <1>8, <1>9, <1>10, <1>11, <1>12, <1>13

LEMMA EvaluationTakesTurns ==
    ASSUME IInv, orderly, TakeTurns, NEW r \in Requests,
           \/ SelectEvaluators(r) \/ AskEvaluator(r) \/ CountVotes(r) \/ ReadThreshold(r)
           \/ SaveVerdict(r) \/ GiveUp(r) \/ SendFarewell(r) \/ RequestRevision(r)
           \/ FailStep(r) \/ FailTask(r) \/ SendFailure(r)
    PROVE  TakeTurns' /\ LifeStep
<1> DEFINE q == run[r]
<1>0. /\ q \in Request /\ Good(q) /\ task \in Row /\ q.row \in Row /\ MaxRetries \in Nat \ {0}
  BY CollaborationAssumption DEF IInv, TypeOK, Request
<1>1. Alone(r) /\ Follows(task, q) /\ UNCHANGED orderly
  <2>1. Live(r) /\ UNCHANGED orderly
    BY DEF Live, Ended, SelectEvaluators, AskEvaluator, CountVotes, ReadThreshold, SaveVerdict,
           GiveUp, SendFarewell, RequestRevision, FailStep, FailTask, SendFailure
  <2>2. QED
    BY <2>1 DEF TakeTurns, Alone
<1>2. Finish(q, "done").pc = "done" /\ Finish(q, "done") \in Request
  BY <1>0, FinishGood DEF Good, Placed
<1>3. CASE SelectEvaluators(r)
  <2>1. task = q.row /\ UNCHANGED task /\ q.row.status = "evaluation"
    BY <1>0, <1>1, <1>3 DEF SelectEvaluators, Follows, InSync, Good, CopyFits
  <2>2. ASSUME NEW n \in 1..Evaluators, Become(r, [q EXCEPT !.pc = "ask", !.left = n])
        PROVE  TakeTurns'
    <3> DEFINE p == [q EXCEPT !.pc = "ask", !.left = n]
    <3>1. p.pc = "ask" /\ p.row = q.row
      BY <1>0 DEF Request
    <3>2. Follows(task', p)
      BY <2>1, <3>1 DEF Follows, InSync
    <3>3. QED
      BY <1>1, <2>1, <2>2, <3>2, StepTakesTurns
  <2>3. CASE Goto(r, "catch")
    <3> DEFINE p == [q EXCEPT !.pc = "catch"]
    <3>1. p.pc = "catch" /\ p.row = q.row /\ Become(r, p)
      BY <1>0, <2>3 DEF Request, Goto, Become
    <3>2. Follows(task', p)
      BY <2>1, <3>1 DEF Follows, InSync, Active
    <3>3. QED
      BY <1>1, <2>1, <3>1, <3>2, StepTakesTurns, RowStays
  <2>4. QED
    BY <1>1, <1>3, <2>1, <2>2, <2>3, RowStays DEF SelectEvaluators
<1>4. CASE AskEvaluator(r)
  <2> DEFINE p == [q EXCEPT !.left = @ - 1, !.pc = IF q.left = 1 THEN "timer" ELSE "ask"]
  <2>1. p.pc \in {"timer", "ask"} /\ p.row = q.row /\ Become(r, p) /\ UNCHANGED task
    BY <1>0, <1>4 DEF AskEvaluator, Request
  <2>2. Follows(task', p)
    BY <1>1, <1>4, <2>1 DEF AskEvaluator, Follows, InSync
  <2>3. QED
    BY <1>1, <2>1, <2>2, StepTakesTurns, RowStays
<1>5. CASE CountVotes(r)
  <2> DEFINE p == [q EXCEPT !.pc = "room",
                            !.tally = [approved |-> votes.approved, total |-> votes.asked]]
  <2>1. p.pc = "room" /\ p.row = q.row /\ Become(r, p) /\ UNCHANGED task
    BY <1>0, <1>5 DEF CountVotes, Request
  <2>2. Follows(task', p)
    BY <1>1, <1>5, <2>1 DEF CountVotes, Follows, InSync
  <2>3. QED
    BY <1>1, <2>1, <2>2, StepTakesTurns, RowStays
<1>6. CASE ReadThreshold(r)
  <2>1. task = q.row /\ UNCHANGED task /\ q.row.status = "evaluation"
    BY <1>0, <1>1, <1>6 DEF ReadThreshold, Follows, InSync, Good, CopyFits
  <2>2. \A row, c : Compared(q, row, c).pc = c /\ Compared(q, row, c).row = row
    BY <1>0 DEF Request, Compared
  <2> DEFINE pass == [q.row EXCEPT !.status = "completed"]
             again == [q.row EXCEPT !.status = "revision", !.retries = @ + 1]
  <2>3. /\ pass.status = "completed" /\ pass.retries = task.retries
        /\ again.status = "revision" /\ again.retries = task.retries + 1
    BY <1>0, <2>1 DEF Row
  <2>4. PICK row \in {pass, again, q.row}, c \in {"verdict", "catch"} :
           /\ Become(r, Compared(q, row, c))
           /\ c = "verdict" => row \in {pass, again}
           /\ c = "catch" => row = q.row
    BY <1>6 DEF ReadThreshold
  <2> HIDE DEF pass, again
  <2>5. Follows(task', Compared(q, row, c))
    BY <2>1, <2>2, <2>3, <2>4 DEF Follows, InSync, Active
  <2>6. QED
    BY <1>1, <2>1, <2>4, <2>5, StepTakesTurns, RowStays
<1>7. CASE SaveVerdict(r)
  <2>1. /\ task.status = "evaluation" /\ q.row.status \in {"completed", "revision"}
        /\ q.row.retries = IF q.row.status = "completed" THEN task.retries ELSE task.retries + 1
        /\ task.retries \in Nat /\ q.row.retries \in 0..MaxRetries /\ task' = q.row
    BY <1>0, <1>1, <1>7 DEF SaveVerdict, Good, CopyFits, Follows, Save, Row
  <2>2. LifeStep
    <3>1. CASE q.row.status = "completed"
      BY <1>1, <1>7, <2>1, <3>1, SaveIsLifeStep DEF SaveVerdict, Life!Moves
    <3>2. CASE q.row.status = "revision"
      <4>1. q.row.retries = task.retries + 1 /\ task.retries < MaxRetries
        BY <1>0, <2>1, <3>2
      <4>2. QED
        BY <1>1, <1>7, <2>1, <3>2, <4>1, SaveIsLifeStep DEF SaveVerdict
    <3>3. QED
      BY <2>1, <3>1, <3>2
  <2>3. TakeTurns'
    <3>1. CASE q.row.status = "completed"
      <4>1. Goto(r, "farewell")
        BY <1>7, <3>1 DEF SaveVerdict, Goto, Become
      <4>2. QED
        BY <1>1, <2>1, <4>1, GotoTakesTurns DEF Follows, InSync, PCs
    <3>2. CASE q.row.status = "revision" /\ q.row.retries >= MaxRetries
      <4> DEFINE p == [q EXCEPT !.pc = "giveup", !.row.status = "failed"]
      <4>1. p.pc = "giveup" /\ p.row.retries = q.row.retries /\ Become(r, p)
        BY <1>0, <1>7, <3>2 DEF SaveVerdict, Request, Row
      <4>2. Follows(task', p)
        BY <2>1, <3>2, <4>1 DEF Follows, InSync
      <4>3. QED
        BY <1>1, <2>1, <4>1, <4>2, StepTakesTurns
    <3>3. CASE q.row.status = "revision" /\ ~(q.row.retries >= MaxRetries)
      <4>1. Goto(r, "revise")
        BY <1>7, <3>3 DEF SaveVerdict, Goto, Become
      <4>2. QED
        BY <1>1, <2>1, <4>1, GotoTakesTurns DEF Follows, InSync, PCs
    <3>4. QED
      BY <2>1, <3>1, <3>2, <3>3
  <2>4. QED
    BY <2>2, <2>3
<1>8. CASE GiveUp(r)
  <2>1. q.row.status = "failed" /\ task.status = "revision" /\ task.retries = q.row.retries
    BY <1>0, <1>1, <1>8 DEF GiveUp, Good, CopyFits, Follows
  <2>2. LifeStep
    BY <1>1, <1>8, <2>1, SaveIsLifeStep DEF GiveUp, Active
  <2>3. TakeTurns'
    BY <1>1, <1>8, <2>1, GotoTakesTurns DEF GiveUp, Save, Follows, InSync, PCs
  <2>4. QED
    BY <2>2, <2>3
<1>9. CASE SendFarewell(r) \/ SendFailure(r)
  <2>1. PICK n \in {Finish(q, "done").verdicts, Finish(q, "done").verdicts + 1} :
           Become(r, [Finish(q, "done") EXCEPT !.verdicts = n])
    BY <1>9 DEF SendFarewell, SendFailure, Tell
  <2>2. [Finish(q, "done") EXCEPT !.verdicts = n].pc = "done" /\ UNCHANGED task
    BY <1>2, <1>9 DEF Request, SendFarewell, SendFailure
  <2>3. QED
    BY <1>1, <2>1, <2>2, StepTakesTurns, RowStays DEF Ended
<1>10. CASE RequestRevision(r)
  <2> DEFINE p == [q EXCEPT !.pc = "enter", !.phase = "execution",
                            !.row.status = StatusOf["execution"]]
  <2>1. /\ p.pc = "enter" /\ p.phase = "execution" /\ p.row.retries = q.row.retries
        /\ Become(r, p) /\ UNCHANGED task
    BY <1>0, <1>10 DEF RequestRevision, Tell, Request, Row
  <2>2. task = q.row /\ q.row.status = "revision" /\ q.row.retries < MaxRetries
    BY <1>0, <1>1, <1>10 DEF RequestRevision, Follows, InSync, Good, CopyFits
  <2>3. Follows(task', p)
    BY <2>1, <2>2 DEF Follows, InSync
  <2>4. QED
    BY <1>1, <2>1, <2>3, StepTakesTurns, RowStays
<1>11. CASE FailStep(r)
  <2> DEFINE p == [q EXCEPT !.pc = "failtask", !.row.status = "failed"]
  <2>1. /\ p.pc = "failtask" /\ p.row.retries = q.row.retries
        /\ Become(r, p) /\ UNCHANGED task
    BY <1>0, <1>11 DEF FailStep, Request, Row
  <2>2. task.status \in Active /\ task.retries = q.row.retries
    BY <1>1, <1>11 DEF FailStep, Follows
  <2>3. Follows(task', p)
    BY <2>1, <2>2 DEF Follows, InSync
  <2>4. QED
    BY <1>1, <2>1, <2>3, StepTakesTurns, RowStays
<1>12. CASE FailTask(r)
  <2>1. q.row.status = "failed" /\ task.status \in Active /\ task.retries = q.row.retries
    BY <1>0, <1>1, <1>12 DEF FailTask, Good, CopyFits, Follows
  <2>2. LifeStep
    BY <1>1, <1>12, <2>1, SaveIsLifeStep DEF FailTask
  <2>3. TakeTurns'
    BY <1>1, <1>12, <2>1, GotoTakesTurns DEF FailTask, Save, Follows, InSync, PCs
  <2>4. QED
    BY <2>2, <2>3
<1>13. QED
  BY <1>3, <1>4, <1>5, <1>6, <1>7, <1>8, <1>9, <1>10, <1>11, <1>12

\* Every step keeps the requests in turn, and is a step of the abstract life or
\* a stutter
LEMMA NextLife == LInv /\ [Next]_vars => LInv' /\ LifeStep
<1> SUFFICES ASSUME LInv, [Next]_vars
             PROVE  LInv' /\ LifeStep
  OBVIOUS
<1>1. IInv /\ IInv'
  BY NextInv DEF LInv
<1>2. orderly' = orderly
  BY DEF vars, Next, Begin, Advance, CreateTask, LoadFeedback, LoadToCancel, LoadToEvaluate,
         Announce, Reply, CancelTask, RequestEvaluation, EnterPhase, SelectAgent, CreateStep,
         CallAgent, CompleteStep, SaveResult, SendResult, SelectEvaluators, AskEvaluator,
         CountVotes, ReadThreshold, SaveVerdict, GiveUp, SendFarewell, RequestRevision,
         FailStep, FailTask, SendFailure, QueryFails, PerformEvaluation, EvaluationLost, Crash
<1>3. CASE ~orderly
  BY <1>1, <1>2, <1>3 DEF LInv, LifeStep
<1>4. CASE orderly
  <2>1. TakeTurns
    BY <1>4 DEF LInv
  <2>2. SUFFICES TakeTurns' /\ LifeStep
    BY <1>1 DEF LInv
  <2>3. CASE UNCHANGED vars \/ PerformEvaluation \/ EvaluationLost
    <3>1. task' = task /\ run' = run
      BY <2>3 DEF vars, PerformEvaluation, EvaluationLost
    <3>2. TakeTurns'
      BY <2>1, <3>1 DEF TakeTurns, Live, Follows, Top
    <3>3. QED
      BY <1>2, <3>1, <3>2, RowStays
  <2>4. CASE Crash
    <3>1. \A r \in Requests : run'[r].pc \in Ended
      <4>1. ASSUME NEW r \in Requests, Live(r)
            PROVE  Finish(run[r], "lost").pc = "lost"
        BY IdleGood DEF Finish, Request
      <4>2. QED
        BY <2>4, <4>1 DEF Crash, Live, Ended
    <3>2. TakeTurns' /\ UNCHANGED task
      BY <2>1, <2>4, <3>1 DEF TakeTurns, Live, Crash
    <3>3. QED
      BY <1>2, <3>2, RowStays
  <2>5. ASSUME NEW r \in Requests, Begin(r)
        PROVE  TakeTurns' /\ LifeStep
    BY <1>1, <1>4, <2>1, <2>5, BeginTakesTurns
  <2>6. ASSUME NEW r \in Requests, Advance(r)
        PROVE  TakeTurns' /\ LifeStep
    BY <1>1, <1>4, <2>1, <2>6, PhaseTakesTurns, EvaluationTakesTurns DEF Advance
  <2>7. \A r \in Requests : ~QueryFails(r)
    BY <1>4 DEF QueryFails
  <2>8. QED
    BY <2>3, <2>4, <2>5, <2>6, <2>7 DEF Next
<1>5. QED
  BY <1>3, <1>4

\* The engine implements the abstract life of a task: in an orderly history,
\* restarts included, what a reader of the row sees is one move of it or none
THEOREM LifecycleImplemented == Spec => LifecycleRefined
<1>1. Init => LInv
  <2>1. Init => TakeTurns
    BY IdleGood DEF Init, TakeTurns, Live, IdleRequest, Ended, NoRow
  <2>2. QED
    BY <2>1, InitInv DEF LInv
<1>2. Init => Life!Init
  BY DEF Init, Life!Init, NoRow
<1>3. QED
  BY <1>1, <1>2, NextLife, PTL DEF Spec, LifecycleRefined, Life!Spec, LifeStep
=============================================================================
