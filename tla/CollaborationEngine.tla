-------------------------- MODULE CollaborationEngine --------------------------
(***************************************************************************)
(* CollaborationEngineService on one task.  A request (create, feedback,   *)
(* cancel) is a chain of awaits over its own copy of the task; it walks    *)
(* through the phases, each an activation with a try block, and a revision *)
(* runs the execution phase again from inside its evaluation.  The         *)
(* evaluations are started and not awaited: they answer on their own.      *)
(*                                                                         *)
(* taskRepo.save overwrites the row with the copy.  An action is what      *)
(* happens from one await to the next; pc names the pending await.         *)
(***************************************************************************)
EXTENDS Integers, Sequences, FiniteSets

CONSTANTS
    Requests,       \* calls of the service
    MaxRetries,     \* the task's maxRetries
    Evaluators,     \* how many evaluator agents there are (the query takes 3)
    Threshold,      \* evaluationThreshold of the room, in percent
    MayLackAgents,  \* may the query for an agent of some role come back empty?
    Conduct,        \* which conducts of the environment there are: see orderly
    Hasty,          \* the requests that begin whatever else is running
    MaxFaults, MaxCrashes

ASSUME CollaborationAssumption ==
    /\ MaxRetries \in Nat \ {0} /\ Evaluators \in 1..3 /\ Threshold \in 1..100
    /\ MayLackAgents \in BOOLEAN /\ Conduct \subseteq BOOLEAN /\ Hasty \subseteq Requests
    /\ MaxFaults \in Nat /\ MaxCrashes \in Nat

VARIABLES
    task,   \* the collaboration_task row
    steps,  \* status of every task_step row, by id
    run,    \* the requests
    votes,  \* the task's task_evaluation rows, of every round, counted
    orderly,    \* no request begins before the last was answered, no query fails
    faults, crashes

vars == <<task, steps, run, votes, orderly, faults, crashes>>

Active == {"requirement_analysis", "planning", "execution", "evaluation", "revision"}
Statuses == Active \cup {"absent", "pending", "requirement_confirmation",
                         "completed", "failed", "cancelled"}
Row == [status: Statuses, retries: 0..MaxRetries]
NoRow == [status |-> "absent", retries |-> 0]

Phases == {"analysis", "planning", "execution"}

\* The status a phase runs under, and the one its result leads to
StatusOf == [analysis |-> "requirement_analysis", planning |-> "planning",
             execution |-> "execution"]
ResultOf == [analysis |-> "requirement_confirmation", planning |-> "execution",
             execution |-> "evaluation"]

\* The evaluations: rows saved, those that approve, those that do not, and those
\* that will never answer.  No row says which round it is of
Votes == [asked: Nat, approved: Nat, rejected: Nat, abandoned: Nat]
NoVotes == [asked |-> 0, approved |-> 0, rejected |-> 0, abandoned |-> 0]
Awaited == votes.asked - votes.approved - votes.rejected - votes.abandoned

Frame == [phase: Phases, step: Nat]
PCs == {"idle", "announce", "reply", "cancel", "request", "enter", "select", "step", "call",
        "stepdone", "result", "message", "evaluators", "ask", "timer", "room",
        "verdict", "farewell", "giveup", "revise", "catch", "failtask", "failmsg",
        "done", "rejected", "lost"}
Request == [op: {"none", "create", "feedback", "cancel", "evaluate"}, approves: BOOLEAN, pc: PCs,
            row: Row, phase: Phases, stack: Seq(Frame), left: Nat,
            tally: [approved: Nat, total: Nat], verdicts: Nat]
IdleRequest == [op |-> "none", approves |-> FALSE, pc |-> "idle", row |-> NoRow,
                phase |-> "analysis", stack |-> <<>>, left |-> 0,
                tally |-> [approved |-> 0, total |-> 0], verdicts |-> 0]

Init ==
    /\ task = NoRow
    /\ steps = <<>>
    /\ run = [r \in Requests |-> IdleRequest]
    /\ votes = NoVotes
    /\ orderly \in Conduct
    /\ faults = 0
    /\ crashes = 0

-----------------------------------------------------------------------------
Ended == {"idle", "done", "rejected", "lost"}
Live(r) == run[r].pc \notin Ended
MayBegin(r) == /\ run[r].pc = "idle"
               /\ IF orderly THEN \A q \in Requests : ~Live(q) ELSE r \in Hasty
Pop(s) == SubSeq(s, 1, Len(s) - 1)
Top(q) == q.stack[Len(q.stack)]

\* The request is answered: its local variables are gone
Finish(q, point) == [IdleRequest EXCEPT !.op = q.op, !.approves = q.approves,
                                        !.verdicts = q.verdicts, !.pc = point]

\* An exception reaches the activations on stack s: the innermost catches it;
\* without one the request is answered with the error
Throw(q, s) == IF s = <<>> THEN Finish(q, "rejected")
                           ELSE [q EXCEPT !.stack = s, !.pc = "catch"]

Goto(r, point) == run' = [run EXCEPT ![r].pc = point]
Become(r, q) == run' = [run EXCEPT ![r] = q]

\* A message to the room, of the system, an agent or a user, is inserted and
\* announced; then the request goes on as q
Tell(r, q) == Become(r, q)
Save(r) == task' = run[r].row

-----------------------------------------------------------------------------
(* Requests *)

\* createTask: the row is inserted as PENDING
CreateTask(r) ==
    /\ MayBegin(r)
    /\ task.status = "absent"
    /\ task' = [NoRow EXCEPT !.status = "pending"]
    /\ Become(r, [IdleRequest EXCEPT !.op = "create", !.row = task', !.pc = "announce"])
    /\ UNCHANGED <<steps, votes, orderly, faults, crashes>>

\* The message about the new task is stored; startTaskExecution
Announce(r) ==
    /\ run[r].pc = "announce"
    /\ Tell(r, [run[r] EXCEPT !.pc = "enter", !.phase = "analysis",
                                !.row.status = StatusOf["analysis"]])
    /\ UNCHANGED <<task, steps, votes, orderly, faults, crashes>>

\* Plausible bug: feedback is accepted at any time
LoadFeedback_Untested(r, ok) ==
    /\ MayBegin(r)
    /\ task.status # "absent"
    /\ Become(r, [IdleRequest EXCEPT !.op = "feedback", !.approves = ok,
                                     !.row = task, !.pc = "reply"])
    /\ UNCHANGED <<task, steps, votes, orderly, faults, crashes>>

\* handleRequirementFeedback: load the task and test its status
LoadFeedback(r, ok) ==
    /\ MayBegin(r)
    /\ task.status # "absent"
    /\ LET q == [IdleRequest EXCEPT !.op = "feedback", !.approves = ok, !.row = task] IN
       Become(r, IF task.status = "requirement_confirmation"
                 THEN [q EXCEPT !.pc = "reply"] ELSE Finish(q, "rejected"))
    /\ UNCHANGED <<task, steps, votes, orderly, faults, crashes>>

\* The user's message is stored; an approval leads to planning, anything else
\* back to the analysis
Reply(r) ==
    LET phase == IF run[r].approves THEN "planning" ELSE "analysis" IN
    /\ run[r].pc = "reply"
    /\ Tell(r, [run[r] EXCEPT !.pc = "enter", !.phase = phase,
                                !.row.status = StatusOf[phase]])
    /\ UNCHANGED <<task, steps, votes, orderly, faults, crashes>>

\* cancelTask of the controller: load, set CANCELLED, save; no test of status
LoadToCancel(r) ==
    /\ MayBegin(r)
    /\ task.status # "absent"
    /\ Become(r, [IdleRequest EXCEPT !.op = "cancel", !.pc = "cancel",
                                     !.row = [task EXCEPT !.status = "cancelled"]])
    /\ UNCHANGED <<task, steps, votes, orderly, faults, crashes>>

CancelTask(r) ==
    /\ run[r].pc = "cancel"
    /\ Save(r)
    /\ Become(r, Finish(run[r], "done"))
    /\ UNCHANGED <<steps, votes, orderly, faults, crashes>>

\* requestEvaluation of the controller: the task is found, then a row is saved for
\* each evaluator named; nobody is asked, yet every tally counts the rows
LoadToEvaluate(r) ==
    /\ MayBegin(r)
    /\ task.status # "absent"
    /\ \E n \in 1..Evaluators :
           Become(r, [IdleRequest EXCEPT !.op = "evaluate", !.pc = "request", !.left = n])
    /\ UNCHANGED <<task, steps, votes, orderly, faults, crashes>>

RequestEvaluation(r) ==
    /\ run[r].pc = "request"
    /\ votes' = [votes EXCEPT !.asked = @ + 1, !.abandoned = @ + 1]
    /\ Become(r, IF run[r].left = 1 THEN Finish(run[r], "done")
                 ELSE [run[r] EXCEPT !.left = @ - 1])
    /\ UNCHANGED <<task, steps, orderly, faults, crashes>>

-----------------------------------------------------------------------------
(* executeRequirementAnalysis, executePlanning, executeTask *)

\* The new phase's status is saved, then the phase is called
EnterPhase(r) ==
    /\ run[r].pc = "enter"
    /\ Save(r)
    /\ Goto(r, "select")
    /\ UNCHANGED <<steps, votes, orderly, faults, crashes>>

\* Plausible bug: a phase without an agent gives up silently
SelectAgent_GivesUp(r) ==
    /\ run[r].pc = "select"
    /\ \/ Goto(r, "step")
       \/ Become(r, Finish(run[r], "done"))
    /\ UNCHANGED <<task, steps, votes, orderly, faults, crashes>>

\* An active and available agent of the phase's role; without one the phase
\* throws before its try block
SelectAgent(r) ==
    /\ run[r].pc = "select"
    /\ \/ Goto(r, "step")
       \/ MayLackAgents /\ Become(r, Throw(run[r], run[r].stack))
    /\ UNCHANGED <<task, steps, votes, orderly, faults, crashes>>

CreateStep(r) ==
    /\ run[r].pc = "step"
    /\ steps' = Append(steps, "in_progress")
    /\ Become(r, [run[r] EXCEPT !.pc = "call",
            !.stack = Append(@, [phase |-> run[r].phase, step |-> Len(steps) + 1])])
    /\ UNCHANGED <<task, votes, orderly, faults, crashes>>

\* callAgent: the model answers, or the call throws
CallAgent(r) ==
    /\ run[r].pc = "call"
    /\ Goto(r, "stepdone") \/ Goto(r, "catch")
    /\ UNCHANGED <<task, steps, votes, orderly, faults, crashes>>

\* The step is COMPLETED; the copy takes the result and the next status
CompleteStep(r) ==
    /\ run[r].pc = "stepdone"
    /\ steps' = [steps EXCEPT ![Top(run[r]).step] = "completed"]
    /\ Become(r, [run[r] EXCEPT !.pc = "result",
                                !.row.status = ResultOf[Top(run[r]).phase]])
    /\ UNCHANGED <<task, votes, orderly, faults, crashes>>

SaveResult(r) ==
    /\ run[r].pc = "result"
    /\ Save(r)
    /\ Goto(r, "message")
    /\ UNCHANGED <<steps, votes, orderly, faults, crashes>>

\* The result is told to the room; the analysis now waits for a user, the plan
\* is executed, an execution is evaluated
SendResult(r) ==
    LET phase == Top(run[r]).phase IN
    /\ run[r].pc = "message"
    /\ Tell(r, CASE phase = "analysis"  -> Finish(run[r], "done")
                   [] phase = "planning"  -> [run[r] EXCEPT !.pc = "select", !.phase = "execution"]
                   [] phase = "execution" -> [run[r] EXCEPT !.pc = "evaluators"])
    /\ UNCHANGED <<task, steps, votes, orderly, faults, crashes>>

-----------------------------------------------------------------------------
(* executeEvaluation, performEvaluation, waitForEvaluations *)

\* The evaluators of this round; none is an exception inside the execution
SelectEvaluators(r) ==
    /\ run[r].pc = "evaluators"
    /\ \/ \E n \in 1..Evaluators : Become(r, [run[r] EXCEPT !.pc = "ask", !.left = n])
       \/ MayLackAgents /\ Goto(r, "catch")
    /\ UNCHANGED <<task, steps, votes, orderly, faults, crashes>>

\* An evaluation row is saved and its evaluation starts, not awaited
AskEvaluator(r) ==
    /\ run[r].pc = "ask"
    /\ votes' = [votes EXCEPT !.asked = @ + 1]
    /\ Become(r, [run[r] EXCEPT !.left = @ - 1, !.pc = IF run[r].left = 1 THEN "timer" ELSE "ask"])
    /\ UNCHANGED <<task, steps, orderly, faults, crashes>>

\* What the evaluator's model says; an answer that is no JSON counts as
\* needs_improvement, one of another form and no answer as neither
Answers == {"pass", "excellent", "fail", "needs_improvement", "other", "throws"}

\* Plausible bug: an answer is counted twice
PerformEvaluation_Twice ==
    /\ Awaited > 0
    /\ votes' = [votes EXCEPT !.approved = @ + 1, !.rejected = @ + 1]
    /\ UNCHANGED <<task, steps, run, orderly, faults, crashes>>

\* An evaluator answers and approves or not; when its call throws or its answer
\* cannot be read, the evaluation does not approve
PerformEvaluation ==
    /\ Awaited > 0
    /\ \E answer \in Answers :
           votes' = IF answer \in {"pass", "excellent"}
                    THEN [votes EXCEPT !.approved = @ + 1]
                    ELSE [votes EXCEPT !.rejected = @ + 1]
    /\ UNCHANGED <<task, steps, run, orderly, faults, crashes>>

\* Plausible bug: the request waits until every evaluator has answered
CountVotes_Waits(r) ==
    /\ run[r].pc = "timer" /\ Awaited = 0
    /\ Become(r, [run[r] EXCEPT !.pc = "room", !.tally =
            [approved |-> votes.approved, total |-> votes.asked]])
    /\ UNCHANGED <<task, steps, votes, orderly, faults, crashes>>

\* Five seconds later: every evaluation of the task is read, of any round and
\* whatever its status
CountVotes(r) ==
    /\ run[r].pc = "timer"
    /\ Become(r, [run[r] EXCEPT !.pc = "room", !.tally =
            [approved |-> votes.approved, total |-> votes.asked]])
    /\ UNCHANGED <<task, steps, votes, orderly, faults, crashes>>

\* The tally is not used after the comparison
Compared(q, row, point) == [q EXCEPT !.row = row, !.pc = point, !.tally = IdleRequest.tally]

Passes(tally) == tally.total > 0 /\ 100 * tally.approved >= Threshold * tally.total

\* The room's threshold is read and the rate compared with it; or the query,
\* which names the column "settings" as a relation, is rejected
ReadThreshold(r) ==
    LET q == run[r] IN
    /\ q.pc = "room"
    /\ \/ Become(r, Compared(q,
             IF Passes(q.tally) THEN [q.row EXCEPT !.status = "completed"]
             ELSE [q.row EXCEPT !.status = "revision", !.retries = @ + 1], "verdict"))
       \/ Become(r, Compared(q, q.row, "catch"))
    /\ UNCHANGED <<task, steps, votes, orderly, faults, crashes>>

\* COMPLETED or REVISION is saved; after the last retry FAILED is saved next
SaveVerdict(r) ==
    LET q == run[r] IN
    /\ q.pc = "verdict"
    /\ Save(r)
    /\ Become(r, CASE q.row.status = "completed" -> [q EXCEPT !.pc = "farewell"]
                   [] q.row.status = "revision" /\ q.row.retries >= MaxRetries ->
                        [q EXCEPT !.pc = "giveup", !.row.status = "failed"]
                   [] OTHER -> [q EXCEPT !.pc = "revise"])
    /\ UNCHANGED <<steps, votes, orderly, faults, crashes>>

GiveUp(r) ==
    /\ run[r].pc = "giveup"
    /\ Save(r)
    /\ Goto(r, "farewell")
    /\ UNCHANGED <<steps, votes, orderly, faults, crashes>>

\* The last message; collaboration.task.completed is emitted for a completed task
SendFarewell(r) ==
    LET q == run[r] IN
    /\ q.pc = "farewell"
    /\ Tell(r, [Finish(q, "done") EXCEPT
            !.verdicts = IF q.row.status = "completed" THEN @ + 1 ELSE @])
    /\ UNCHANGED <<task, steps, votes, orderly, faults, crashes>>

\* handleRevisionRequest: a message, then executeTask from inside the evaluation
RequestRevision(r) ==
    /\ run[r].pc = "revise"
    /\ Tell(r, [run[r] EXCEPT !.pc = "enter", !.phase = "execution",
                                !.row.status = StatusOf["execution"]])
    /\ UNCHANGED <<task, steps, votes, orderly, faults, crashes>>

-----------------------------------------------------------------------------
(* The catch block of a phase, and handleTaskError *)

\* Plausible bug: the task keeps its status
FailStep_KeepsStatus(r) ==
    /\ run[r].pc = "catch"
    /\ steps' = [steps EXCEPT ![Top(run[r]).step] = "failed"]
    /\ Goto(r, "failtask")
    /\ UNCHANGED <<task, votes, orderly, faults, crashes>>

\* Plausible bug: the step is forgotten
FailStep_KeepsStep(r) ==
    /\ run[r].pc = "catch"
    /\ Become(r, [run[r] EXCEPT !.pc = "failtask", !.row.status = "failed"])
    /\ UNCHANGED <<task, steps, votes, orderly, faults, crashes>>

FailStep(r) ==
    /\ run[r].pc = "catch"
    /\ steps' = [steps EXCEPT ![Top(run[r]).step] = "failed"]
    /\ Become(r, [run[r] EXCEPT !.pc = "failtask", !.row.status = "failed"])
    /\ UNCHANGED <<task, votes, orderly, faults, crashes>>

FailTask(r) ==
    /\ run[r].pc = "failtask"
    /\ Save(r)
    /\ Goto(r, "failmsg")
    /\ UNCHANGED <<steps, votes, orderly, faults, crashes>>

\* Plausible bug: the error is thrown on to the enclosing phase
SendFailure_Rethrows(r) ==
    /\ run[r].pc = "failmsg"
    /\ Tell(r, [Throw(run[r], Pop(run[r].stack)) EXCEPT !.verdicts = @ + 1])
    /\ UNCHANGED <<task, steps, votes, orderly, faults, crashes>>

\* A message, collaboration.task.failed, and the phase returns normally: so do
\* all the phases it was called from
SendFailure(r) ==
    /\ run[r].pc = "failmsg"
    /\ Tell(r, [Finish(run[r], "done") EXCEPT !.verdicts = @ + 1])
    /\ UNCHANGED <<task, steps, votes, orderly, faults, crashes>>

-----------------------------------------------------------------------------
(* The environment *)

\* The pending database call of a request fails.  In a catch block the error
\* reaches the enclosing phase, anywhere else the innermost one
InCatch == {"catch", "failtask", "failmsg"}
QueryFails(r) ==
    /\ faults < MaxFaults /\ ~orderly
    /\ Live(r) /\ run[r].pc # "call"
    /\ faults' = faults + 1
    /\ Become(r, Throw(run[r], IF run[r].pc \in InCatch THEN Pop(run[r].stack) ELSE run[r].stack))
    /\ UNCHANGED <<task, steps, votes, orderly, crashes>>

\* Neither the evaluation nor its FAILED status can be saved
EvaluationLost ==
    /\ faults < MaxFaults /\ ~orderly
    /\ Awaited > 0
    /\ faults' = faults + 1
    /\ votes' = [votes EXCEPT !.abandoned = @ + 1]
    /\ UNCHANGED <<task, steps, run, orderly, crashes>>

\* The process dies; nothing takes a task up again at boot
Crash ==
    /\ crashes < MaxCrashes
    /\ \E r \in Requests : Live(r)
    /\ crashes' = crashes + 1
    /\ run' = [r \in Requests |-> IF Live(r) THEN Finish(run[r], "lost") ELSE run[r]]
    /\ votes' = [votes EXCEPT !.abandoned = @ + Awaited]
    /\ UNCHANGED <<task, steps, orderly, faults>>

Begin(r) ==
    \/ CreateTask(r) \/ (\E ok \in BOOLEAN : LoadFeedback(r, ok))
    \/ LoadToCancel(r) \/ LoadToEvaluate(r)

Advance(r) ==
    \/ Announce(r) \/ Reply(r) \/ CancelTask(r) \/ RequestEvaluation(r) \/ EnterPhase(r) \/ SelectAgent(r)
    \/ CreateStep(r) \/ CallAgent(r) \/ CompleteStep(r) \/ SaveResult(r) \/ SendResult(r)
    \/ SelectEvaluators(r) \/ AskEvaluator(r) \/ CountVotes(r) \/ ReadThreshold(r)
    \/ SaveVerdict(r) \/ GiveUp(r) \/ SendFarewell(r) \/ RequestRevision(r)
    \/ FailStep(r) \/ FailTask(r) \/ SendFailure(r)

Next ==
    \/ \E r \in Requests : Begin(r) \/ Advance(r) \/ QueryFails(r)
    \/ PerformEvaluation \/ EvaluationLost
    \/ Crash

Spec == Init /\ [][Next]_vars

\* callAgent waits for a model, without a time limit
CallsOut(r) == run[r].pc = "call"

\* Every other await settles and the request's chain advances.  Evaluations get
\* no fairness: nothing awaits them
FairSpec == Spec /\ \A r \in Requests : WF_vars(~CallsOut(r) /\ Advance(r))
-----------------------------------------------------------------------------
(* What the collaboration engine promises *)

TypeOK ==
    /\ task \in Row
    /\ steps \in Seq({"in_progress", "completed", "failed"})
    /\ run \in [Requests -> Request]
    /\ votes \in Votes /\ Awaited >= 0
    /\ orderly \in Conduct /\ faults \in 0..MaxFaults /\ crashes \in 0..MaxCrashes

\* As long as every role has an agent, a task in an active phase is being worked
\* on by a request: feedback given twice, cancels and stale copies never leave a
\* row in a phase that nothing will finish
ActiveIsDriven ==
    ~MayLackAgents /\ faults = 0 /\ crashes = 0 =>
        (task.status \in Active \cup {"pending"} => \E r \in Requests : Live(r))

Holds(r, i) == \E k \in DOMAIN run[r].stack : run[r].stack[k].step = i

\* A step stored as IN_PROGRESS belongs to exactly one live request
OpenStepOwned ==
    faults = 0 /\ crashes = 0 =>
        \A i \in DOMAIN steps : steps[i] = "in_progress" =>
            \E r \in Requests : Live(r) /\ Holds(r, i)
                               /\ \A o \in Requests \ {r} : ~Holds(o, i)

\* A request reports at most one of completed and failed, also when storing a
\* message fails in a catch block and enclosing phases catch the error
OneVerdict == \A r \in Requests : run[r].verdicts <= 1

\* A request whose model calls return is answered, though evaluators may never
\* answer: the phases it walks through and their revisions end
RequestsAnswered ==
    \A r \in Requests : []<>~CallsOut(r) => (Live(r) ~> ~Live(r))

\* In an orderly conduct the row follows the abstract life of a task
Life == INSTANCE TaskLifecycle WITH
    status <- IF orderly THEN task.status ELSE "absent",
    retries <- IF orderly THEN task.retries ELSE 0
LifecycleRefined == Life!Spec
=============================================================================
