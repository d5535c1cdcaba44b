---------------------------- MODULE WorkflowEngine ----------------------------
(***************************************************************************)
(* WorkflowEngineService: a node.js service that walks a workflow graph.   *)
(* Every request (execute, continue, approve, event, cancel) runs as its   *)
(* own chain of awaits over its own in-memory copy of the execution row;   *)
(* the chains interleave at every await.  An action below is what the code *)
(* does from one database await (or external call) to the next.            *)
(*                                                                         *)
(* executionRepository.save writes every column of the copy that differs   *)
(* from the row, so it is modelled as overwriting the row with the copy.   *)
(* TypeORM reads the row for that first and updates it in a second query;  *)
(* the two are one step here: what another request writes between them is  *)
(* left out.                                                               *)
(* The pending write of a request is named by its pc; the copy is changed  *)
(* by the synchronous code before the await, as in the source.             *)
(***************************************************************************)
EXTENDS Integers, Sequences, FiniteSets

CONSTANTS
    Executions,     \* ids of workflow_execution rows
    Requests,       \* calls of the service's methods
    Nodes,          \* node ids of the workflow
    NoNode,         \* currentNodeId before the first node
    Versions,       \* the workflow's definition can be edited: 1..Versions
    NodeType,       \* NodeType[v][n]: type of n in version v, or "missing"
    Edges,          \* Edges[v][n]: targets of n's outgoing edges, in order
    DirectTargets,  \* DirectTargets[v][n]: nodes reached without an edge
    Loops,          \* loop ids
    LoopOf,         \* LoopOf[n]: the loopId in the data of a loop node
    LoopStart,      \* LoopStart[l]: the loop_start node of loop l
    MaxIterations,  \* MaxIterations[l]: maxIterations of loop l
    Overlap,        \* may a request begin while another one is running?
    MaxFaults,      \* bound on the database writes that fail
    MaxCrashes      \* bound on the restarts of the process

\* Node types whose body only calls out (tool, agent, script, delay, mcp_tool,
\* llm, extract_data ...) are all "task"
FallibleTypes == {"task", "condition", "intent_recognition"}
WaitTypes == {"user_input", "wait_event", "approval"}
NodeTypes == FallibleTypes \cup WaitTypes \cup
    {"start", "end", "loop_start", "loop_end", "loop_condition", "missing"}

\* The status the body of a node of type t gives the execution
StatusSetBy(t) == CASE t = "user_input" -> "waiting_input"
                    [] t = "wait_event" -> "waiting_event"
                    [] t = "approval"   -> "waiting_approval"
                    [] t = "end"        -> "completed"
WaitingStatuses == {"waiting_input", "waiting_event", "waiting_approval"}
Statuses == WaitingStatuses \cup
    {"absent", "running", "completed", "failed", "cancelled"}

ASSUME GraphAssumption ==
    /\ Executions # {} /\ NoNode \notin Nodes
    /\ Versions \in Nat \ {0}
    /\ NodeType \in [1..Versions -> [Nodes -> NodeTypes]]
    /\ Edges \in [1..Versions -> [Nodes -> Seq(Nodes)]]
    /\ DirectTargets \in [1..Versions -> [Nodes -> SUBSET Nodes]]
    /\ LoopOf \in [Nodes -> Loops]
    /\ LoopStart \in [Loops -> Nodes]
    /\ MaxIterations \in [Loops -> Nat]
    /\ Overlap \in BOOLEAN
    /\ MaxFaults \in Nat /\ MaxCrashes \in Nat

VARIABLES
    db,       \* the workflow_execution rows
    steps,    \* status of every workflow_execution_step row, by id
    run,      \* the requests: control point, in-memory copy, call stack
    version,  \* the current definition of the workflow
    owed,     \* history: waits announced minus resumes accepted, per execution
    faults, crashes

vars == <<db, steps, run, version, owed, faults, crashes>>

\* A row: its columns, and of the JSON column `context` two parts: the counters
\* context.loops[l].currentIteration (0: no entry) that control depends on, and
\* the request whose payload was merged into it last ({}: none).  Payloads and the
\* results of nodes are merged key by key, and later ones may carry the keys of
\* earlier ones (two approvals always do), so `answer` says which answer the stored
\* row comes after, not that what it said is still there
Row == [status: Statuses, current: Nodes \cup {NoNode},
        loops: [Loops -> Nat], answer: SUBSET Requests]
NoRow == [status |-> "absent", current |-> NoNode,
          loops |-> [l \in Loops |-> 0], answer |-> {}]

\* An activation of executeNode.  step = 0 until its step row is saved; inner
\* is TRUE when the activation is suspended inside executeLoopEndNode
Frame == [node: Nodes, step: Nat, inner: BOOLEAN]

Operations == {"none", "execute", "continue", "approve", "event", "cancel"}
PCs == {"idle", "resume", "cancel", "enter", "create", "body", "bodysave",
        "complete", "merge", "finish", "catch", "fail", "return", "events",
        "done", "rejected", "lost"}
Request == [op: Operations, exec: Executions, pc: PCs, row: Row,
            version: 1..Versions, stack: Seq(Frame), queue: SUBSET Executions,
            snapshot: [Executions -> Row], verdicts: Nat]
IdleRequest == [op |-> "none", exec |-> CHOOSE e \in Executions : TRUE,
                pc |-> "idle", row |-> NoRow, version |-> 1, stack |-> <<>>,
                queue |-> {}, snapshot |-> [e \in Executions |-> NoRow],
                verdicts |-> 0]

Init ==
    /\ db = [e \in Executions |-> NoRow]
    /\ steps = <<>>
    /\ run = [r \in Requests |-> IdleRequest]
    /\ version = 1
    /\ owed = [e \in Executions |-> 0]
    /\ faults = 0
    /\ crashes = 0

-----------------------------------------------------------------------------
(* Requests as values: the synchronous code between two awaits *)

Ended == {"idle", "done", "rejected", "lost"}
Live(r) == run[r].pc \notin Ended

Top(q) == q.stack[Len(q.stack)]
Pop(s) == SubSeq(s, 1, Len(s) - 1)
Has(v, n) == NodeType[v][n] # "missing"
TopType(q) == NodeType[q.version][Top(q).node]

\* Call executeNode(n): set currentNodeId; the save is pending
Enter(q, n) == [q EXCEPT !.pc = "enter", !.row.current = n,
    !.stack = Append(@, [node |-> n, step |-> 0, inner |-> FALSE])]

\* An exception reaches the activations on stack s: the innermost one catches
\* it; below the last one only executeWorkflow has a handler
Throw(q, s) == [q EXCEPT !.stack = s,
    !.pc = IF s # <<>> THEN "catch"
           ELSE IF q.op = "execute" THEN "fail" ELSE "rejected",
    !.row.status = IF s = <<>> /\ q.op = "execute" THEN "failed" ELSE @]

\* Plausible bug: the call returns to itself
Return_KeepsFrame(q) == [q EXCEPT !.pc = "return"]

\* The activation on top of the stack returns to its caller
Return(q) == [q EXCEPT !.pc = "return", !.stack = Pop(@)]

\* The targets continueToNextNode may pick; NoNode when it finds no valid edge
Targets(v, n) ==
    LET out == {Edges[v][n][i] : i \in DOMAIN Edges[v][n]}
    IN CASE NodeType[v][n] = "condition" -> out \cup DirectTargets[v][n] \cup {NoNode}
         [] NodeType[v][n] = "intent_recognition" -> out \cup DirectTargets[v][n]
         [] OTHER -> {Edges[v][n][1]}

\* continueToNextNode: every way q can go on from node n
Continue(q, n) ==
    IF Edges[q.version][n] = <<>>
    THEN {[q EXCEPT !.pc = "finish", !.row.status = "completed"]}
    ELSE {IF t \in Nodes /\ Has(q.version, t) THEN Enter(q, t) ELSE Throw(q, q.stack) :
              t \in Targets(q.version, n)}

Save(r) == db' = [db EXCEPT ![run[r].exec] = run[r].row]
Goto(r, point) == run' = [run EXCEPT ![r].pc = point]
MayBegin(r) == /\ run[r].pc = "idle"
               /\ Overlap \/ \A q \in Requests : ~Live(q)

-----------------------------------------------------------------------------
(* Beginning a request *)

\* executeWorkflow: save a RUNNING row, emit workflow.started, find the start
\* node; without one the call throws outside the try block
ExecuteWorkflow(r, e) ==
    /\ MayBegin(r)
    /\ db[e].status = "absent"
    /\ LET new == [NoRow EXCEPT !.status = "running"]
           q   == [IdleRequest EXCEPT !.op = "execute", !.exec = e,
                                      !.row = new, !.version = version]
           starts == {n \in Nodes : NodeType[version][n] = "start"}
       IN /\ db' = [db EXCEPT ![e] = new]
          /\ \/ \E n \in starts : run' = [run EXCEPT ![r] = Enter(q, n)]
             \/ /\ starts = {}
                /\ run' = [run EXCEPT ![r] = [q EXCEPT !.pc = "rejected"]]
    /\ UNCHANGED <<steps, version, owed, faults, crashes>>

\* Plausible bug: no test of the stored status
LoadToResume_Untested(r, e, o) ==
    /\ MayBegin(r)
    /\ db[e].current # NoNode
    /\ run' = [run EXCEPT ![r] = [IdleRequest EXCEPT
            !.op = o, !.exec = e, !.version = version, !.pc = "resume",
            !.row = [db[e] EXCEPT !.status = "running", !.answer = {r}]]]
    /\ UNCHANGED <<db, steps, version, owed, faults, crashes>>

\* continueExecution and handleApproval up to their save: load the row, check
\* its status, merge the payload into the loaded copy
Resuming(op) == IF op = "continue" THEN "waiting_input" ELSE "waiting_approval"
LoadToResume(r, e, o) ==
    /\ MayBegin(r)
    /\ db[e].status # "absent"
    /\ LET q == [IdleRequest EXCEPT !.op = o, !.exec = e, !.version = version]
       IN run' = [run EXCEPT ![r] =
            IF db[e].status = Resuming(o)
            THEN [q EXCEPT !.pc = "resume",
                     !.row = [db[e] EXCEPT !.status = "running", !.answer = {r}]]
            ELSE [q EXCEPT !.pc = "rejected"]]
    /\ UNCHANGED <<db, steps, version, owed, faults, crashes>>

\* handleEvent: one query reads all the executions that wait for an event
LoadWaiting(r) ==
    /\ MayBegin(r)
    /\ run' = [run EXCEPT ![r] = [IdleRequest EXCEPT
            !.op = "event", !.pc = "events", !.version = version,
            !.queue = {e \in Executions : db[e].status = "waiting_event"},
            !.snapshot = db]]
    /\ UNCHANGED <<db, steps, version, owed, faults, crashes>>

\* cancelExecution: load the row and mark the copy, whatever its status
LoadToCancel(r, e) ==
    /\ MayBegin(r)
    /\ db[e].status # "absent"
    /\ run' = [run EXCEPT ![r] = [IdleRequest EXCEPT !.op = "cancel",
            !.exec = e, !.pc = "cancel", !.version = version,
            !.row = [db[e] EXCEPT !.status = "cancelled"]]]
    /\ UNCHANGED <<db, steps, version, owed, faults, crashes>>

\* The next execution of handleEvent's loop: skipped when its node is gone, or
\* the event's type or condition does not match; the copy is the one of the query
NextWaiting(r) ==
    LET q == run[r] IN
    /\ q.pc = "events"
    /\ \/ /\ q.queue = {}
          /\ Goto(r, "done")
       \/ \E e \in q.queue :
            LET n == q.snapshot[e].current
            IN \/ run' = [run EXCEPT ![r].queue = @ \ {e}]
               \/ /\ NodeType[q.version][n] = "wait_event"
                  /\ run' = [run EXCEPT ![r] = [q EXCEPT
                       !.queue = @ \ {e}, !.exec = e, !.pc = "resume", !.verdicts = 0,
                       !.row = [q.snapshot[e] EXCEPT !.status = "running", !.answer = {r}]]]
    /\ UNCHANGED <<db, steps, version, owed, faults, crashes>>

\* The save of a resumed execution, then continueToNextNode outside any try;
\* when the current node is gone from the workflow nothing more is done
Resume(r) ==
    LET q == run[r] IN
    /\ q.pc = "resume"
    /\ Save(r)
    /\ owed' = [owed EXCEPT ![q.exec] = @ - 1]
    /\ IF Has(q.version, q.row.current)
       THEN \E next \in Continue(q, q.row.current) : run' = [run EXCEPT ![r] = next]
       ELSE Goto(r, "done")
    /\ UNCHANGED <<steps, version, faults, crashes>>

CancelExecution(r) ==
    /\ run[r].pc = "cancel"
    /\ Save(r)
    /\ Goto(r, "done")
    /\ UNCHANGED <<steps, version, owed, faults, crashes>>

-----------------------------------------------------------------------------
(* executeNode *)

SaveCurrentNode(r) ==
    /\ run[r].pc = "enter"
    /\ Save(r)
    /\ Goto(r, "create")
    /\ UNCHANGED <<steps, version, owed, faults, crashes>>

CreateStep(r) ==
    LET q == run[r] IN
    /\ q.pc = "create"
    /\ steps' = Append(steps, "running")
    /\ run' = [run EXCEPT ![r] = [q EXCEPT !.pc = "body",
                 !.stack[Len(q.stack)].step = Len(steps) + 1]]
    /\ UNCHANGED <<db, version, owed, faults, crashes>>

\* Nodes that only compute or call out: the result arrives, or an exception
RunTask(r) ==
    LET q == run[r] IN
    /\ q.pc = "body"
    /\ \/ /\ TopType(q) \in FallibleTypes \cup {"start"}
          /\ Goto(r, "complete")
       \/ /\ TopType(q) \in FallibleTypes
          /\ Goto(r, "catch")
    /\ UNCHANGED <<db, steps, version, owed, faults, crashes>>

\* executeEndNode, executeUserInputNode, executeWaitEventNode and
\* executeApprovalNode set the status; the save is pending
SetStatus(r) ==
    LET q == run[r] IN
    /\ q.pc = "body"
    /\ TopType(q) \in WaitTypes \cup {"end"}
    /\ run' = [run EXCEPT ![r] = [q EXCEPT !.pc = "bodysave",
                                           !.row.status = StatusSetBy(TopType(q))]]
    /\ UNCHANGED <<db, steps, version, owed, faults, crashes>>

\* Plausible bug: the iterations are counted down
StartLoop_CountsDown(r) ==
    LET q == run[r] IN
    /\ q.pc = "body"
    /\ TopType(q) = "loop_start"
    /\ run' = [run EXCEPT ![r] = [q EXCEPT !.pc = "bodysave",
                                           !.row.loops[LoopOf[Top(q).node]] = @ - 1]]
    /\ UNCHANGED <<db, steps, version, owed, faults, crashes>>

\* executeLoopStartNode: create the loop's state or count an iteration
StartLoop(r) ==
    LET q == run[r] IN
    /\ q.pc = "body"
    /\ TopType(q) = "loop_start"
    /\ run' = [run EXCEPT ![r] = [q EXCEPT !.pc = "bodysave",
                                           !.row.loops[LoopOf[Top(q).node]] = @ + 1]]
    /\ UNCHANGED <<db, steps, version, owed, faults, crashes>>

\* executeLoopConditionNode
CheckLoop(r) ==
    LET q == run[r] IN
    /\ q.pc = "body"
    /\ TopType(q) = "loop_condition"
    /\ Goto(r, IF q.row.loops[LoopOf[Top(q).node]] = 0 THEN "catch" ELSE "complete")
    /\ UNCHANGED <<db, steps, version, owed, faults, crashes>>

\* Plausible bug: off by one in the test of maxIterations
EndLoop_OneMore(r) ==
    LET q == run[r]
        l == LoopOf[Top(q).node]
    IN
    /\ q.pc = "body"
    /\ TopType(q) = "loop_end"
    /\ \/ /\ q.row.loops[l] > MaxIterations[l]
          /\ run' = [run EXCEPT ![r] = [q EXCEPT !.pc = "bodysave", !.row.loops[l] = 0]]
       \/ /\ q.row.loops[l] \in 1..MaxIterations[l]
          /\ Has(q.version, LoopStart[l])
          /\ run' = [run EXCEPT ![r] =
                  Enter([q EXCEPT !.stack[Len(q.stack)].inner = TRUE], LoopStart[l])]
    /\ UNCHANGED <<db, steps, version, owed, faults, crashes>>

\* executeLoopEndNode: leave the loop (always at maxIterations, else when an
\* exit condition, keyword or event says so), or run it again from inside
EndLoop(r) ==
    LET q == run[r]
        l == LoopOf[Top(q).node]
    IN
    /\ q.pc = "body"
    /\ TopType(q) = "loop_end"
    /\ \/ /\ q.row.loops[l] = 0
          /\ Goto(r, "catch")
       \/ /\ q.row.loops[l] # 0
          /\ run' = [run EXCEPT ![r] = [q EXCEPT !.pc = "bodysave", !.row.loops[l] = 0]]
       \/ /\ q.row.loops[l] \in 1..(MaxIterations[l] - 1)
          /\ IF Has(q.version, LoopStart[l])
             THEN run' = [run EXCEPT ![r] =
                      Enter([q EXCEPT !.stack[Len(q.stack)].inner = TRUE], LoopStart[l])]
             ELSE Goto(r, "catch")
    /\ UNCHANGED <<db, steps, version, owed, faults, crashes>>

\* The save inside a node's body, and the event it emits afterwards:
\* workflow.completed by an end node, workflow.waiting_* by a waiting node
SaveInBody(r) ==
    LET q == run[r] IN
    /\ q.pc = "bodysave"
    /\ Save(r)
    /\ run' = [run EXCEPT ![r] = [q EXCEPT !.pc = "complete",
            !.verdicts = IF TopType(q) = "end" THEN @ + 1 ELSE @]]
    /\ owed' = [owed EXCEPT ![q.exec] = IF TopType(q) \in WaitTypes THEN @ + 1 ELSE @]
    /\ UNCHANGED <<steps, version, faults, crashes>>

CompleteStep(r) ==
    /\ run[r].pc = "complete"
    /\ steps' = [steps EXCEPT ![Top(run[r]).step] = "completed"]
    /\ Goto(r, "merge")
    /\ UNCHANGED <<db, version, owed, faults, crashes>>

\* Plausible bug: a waiting execution goes on to the next node
MergeResult_AlwaysContinues(r) ==
    LET q == run[r] IN
    /\ q.pc = "merge"
    /\ Save(r)
    /\ \E next \in Continue(q, Top(q).node) : run' = [run EXCEPT ![r] = next]
    /\ UNCHANGED <<steps, version, owed, faults, crashes>>

\* The node's result is merged into the context and saved; only a RUNNING copy
\* goes on to the next node, any other one returns
MergeResult(r) ==
    LET q == run[r] IN
    /\ q.pc = "merge"
    /\ Save(r)
    /\ IF q.row.status = "running"
       THEN \E next \in Continue(q, Top(q).node) : run' = [run EXCEPT ![r] = next]
       ELSE run' = [run EXCEPT ![r] = Return(q)]
    /\ UNCHANGED <<steps, version, owed, faults, crashes>>

\* continueToNextNode at a node without outgoing edges: COMPLETED is saved and
\* no workflow.completed is emitted
FinishWithoutEdge(r) ==
    /\ run[r].pc = "finish"
    /\ Save(r)
    /\ run' = [run EXCEPT ![r] = Return(@)]
    /\ UNCHANGED <<steps, version, owed, faults, crashes>>

\* Plausible bug: the catch block forgets the execution's status
FailStep_KeepsStatus(r) ==
    /\ run[r].pc = "catch"
    /\ steps' = [steps EXCEPT ![Top(run[r]).step] = "failed"]
    /\ Goto(r, "fail")
    /\ UNCHANGED <<db, version, owed, faults, crashes>>

\* The catch block of executeNode: the step, whatever its status, is FAILED
FailStep(r) ==
    /\ run[r].pc = "catch"
    /\ steps' = [steps EXCEPT ![Top(run[r]).step] = "failed"]
    /\ run' = [run EXCEPT ![r].pc = "fail", ![r].row.status = "failed"]
    /\ UNCHANGED <<db, version, owed, faults, crashes>>

\* Plausible bug: the catch block throws the error again
FailExecution_Rethrows(r) ==
    LET q == run[r] IN
    /\ q.pc = "fail"
    /\ Save(r)
    /\ run' = [run EXCEPT ![r] = [Throw(q, Pop(q.stack)) EXCEPT !.verdicts = @ + 1,
            !.pc = IF q.stack = <<>> THEN "return" ELSE @]]
    /\ UNCHANGED <<steps, version, owed, faults, crashes>>

\* The rest of the catch block, and the catch block of executeWorkflow: save
\* FAILED, emit workflow.failed, return normally
FailExecution(r) ==
    LET q == run[r] IN
    /\ q.pc = "fail"
    /\ Save(r)
    /\ run' = [run EXCEPT ![r] = Return([q EXCEPT !.verdicts = @ + 1])]
    /\ UNCHANGED <<steps, version, owed, faults, crashes>>

\* Plausible bug: an activation suspended in executeLoopEndNode just returns
ReturnToCaller_SkipsInner(r) ==
    LET q == run[r] IN
    /\ q.pc = "return"
    /\ run' = [run EXCEPT ![r] =
         IF q.stack = <<>>
         THEN [q EXCEPT !.pc = IF q.op = "event" THEN "events" ELSE "done"]
         ELSE Return(q)]
    /\ UNCHANGED <<db, steps, version, owed, faults, crashes>>

\* A callee returned: an activation waiting in continueToNextNode returns too,
\* one waiting inside executeLoopEndNode completes its own step; below the last
\* activation the request is answered, or the event loop takes the next one
ReturnToCaller(r) ==
    LET q == run[r] IN
    /\ q.pc = "return"
    /\ run' = [run EXCEPT ![r] =
         IF q.stack = <<>>
         THEN [q EXCEPT !.pc = IF q.op = "event" THEN "events" ELSE "done"]
         ELSE IF Top(q).inner THEN [q EXCEPT !.pc = "complete",
                                             !.stack[Len(q.stack)].inner = FALSE]
         ELSE Return(q)]
    /\ UNCHANGED <<db, steps, version, owed, faults, crashes>>

-----------------------------------------------------------------------------
(* The environment *)

\* The pending write of a request fails.  The writes before the try block and
\* in the catch block throw to the caller, the others to the activation itself
WriteFails(r) ==
    LET q == run[r] IN
    /\ faults < MaxFaults
    /\ faults' = faults + 1
    /\ \/ /\ q.pc \in {"bodysave", "complete", "merge", "finish"}
          /\ run' = [run EXCEPT ![r] = Throw(q, q.stack)]
       \/ /\ q.pc \in {"enter", "create", "catch", "fail"} /\ q.stack # <<>>
          /\ run' = [run EXCEPT ![r] = Throw(q, Pop(q.stack))]
       \/ /\ q.pc \in {"resume", "cancel", "fail"} /\ q.stack = <<>>
          /\ Goto(r, "rejected")
    /\ UNCHANGED <<db, steps, version, owed, crashes>>

\* The process dies: what was in memory is gone and nothing resumes it at boot
Crash ==
    /\ crashes < MaxCrashes
    /\ \E r \in Requests : Live(r)
    /\ crashes' = crashes + 1
    /\ run' = [r \in Requests |-> IF Live(r) THEN [run[r] EXCEPT !.pc = "lost"] ELSE run[r]]
    /\ UNCHANGED <<db, steps, version, owed, faults>>

\* PUT /workflows/:id replaces nodes and edges, whatever is executing
UpdateWorkflow ==
    /\ version < Versions
    /\ version' = version + 1
    /\ UNCHANGED <<db, steps, run, owed, faults, crashes>>

Begin(r) ==
    \/ \E e \in Executions : ExecuteWorkflow(r, e)
    \/ \E e \in Executions, o \in {"continue", "approve"} : LoadToResume(r, e, o)
    \/ LoadWaiting(r)
    \/ \E e \in Executions : LoadToCancel(r, e)

Advance(r) ==
    \/ NextWaiting(r) \/ Resume(r) \/ CancelExecution(r)
    \/ SaveCurrentNode(r) \/ CreateStep(r) \/ RunTask(r) \/ SetStatus(r)
    \/ StartLoop(r) \/ CheckLoop(r) \/ EndLoop(r) \/ SaveInBody(r)
    \/ CompleteStep(r) \/ MergeResult(r) \/ FinishWithoutEdge(r)
    \/ FailStep(r) \/ FailExecution(r) \/ ReturnToCaller(r)

Next ==
    \/ \E r \in Requests : Begin(r) \/ Advance(r) \/ WriteFails(r)
    \/ Crash
    \/ UpdateWorkflow

Spec == Init /\ [][Next]_vars

\* A tool or an agent node calls out without a time limit
CallsOut(r) == run[r].pc = "body" /\ TopType(run[r]) = "task"

\* node.js keeps running a request's chain: every await settles (database, delay
\* timers, model and MCP calls with a time limit) except those calls
FairSpec == Spec /\ \A r \in Requests : WF_vars(~CallsOut(r) /\ Advance(r))
-----------------------------------------------------------------------------
(* What the engine promises *)

TypeOK ==
    /\ db \in [Executions -> Row]
    /\ steps \in Seq({"running", "completed", "failed"})
    /\ run \in [Requests -> Request]
    /\ version \in 1..Versions
    /\ owed \in [Executions -> Int]
    /\ faults \in 0..MaxFaults /\ crashes \in 0..MaxCrashes

\* A definition the engine can walk without an unhandled exception: every
\* version has a start node, no dangling edge, and keeps the waiting nodes of
\* the others.  validateWorkflow reports some of this; nothing enforces it
SoundDefinition ==
    \A v, w \in 1..Versions :
        /\ \E n \in Nodes : NodeType[v][n] = "start"
        /\ \A n \in Nodes : NodeType[v][n] \in WaitTypes => NodeType[w][n] = NodeType[v][n]
        /\ \A n \in Nodes : \A i \in DOMAIN Edges[v][n] : Has(v, Edges[v][n][i])

\* An execution stored as RUNNING is being run by a request: no interleaving of
\* requests working on stale copies leaves a row RUNNING that nothing will ever
\* move (the catch blocks and the RUNNING test after a node's save see to it)
RunningIsDriven ==
    SoundDefinition /\ faults = 0 /\ crashes = 0 =>
        \A e \in Executions : db[e].status = "running" =>
            \E r \in Requests : Live(r) /\ run[r].exec = e

\* An execution stored as WAITING_* stands at a node of the kind it waits for,
\* so that the answer it gets resumes it from there; holds for every
\* interleaving of stale saves, failed writes and restarts
WaitingAtWaitNode ==
    \A e \in Executions : db[e].status \in WaitingStatuses =>
        \E v \in 1..Versions :
            /\ db[e].current \in Nodes
            /\ NodeType[v][db[e].current] \in WaitTypes
            /\ db[e].status = StatusSetBy(NodeType[v][db[e].current])

Holds(r, i) == \E k \in DOMAIN run[r].stack : run[r].stack[k].step = i

\* A step stored as RUNNING belongs to exactly one activation of a live request,
\* whose exit will complete or fail it
RunningStepOwned ==
    faults = 0 /\ crashes = 0 =>
        \A i \in DOMAIN steps : steps[i] = "running" =>
            \E r \in Requests : /\ Live(r) /\ Holds(r, i)
                               /\ \A o \in Requests \ {r} : ~Holds(o, i)

\* The nodes Body of every loop, its loop_start among them: an edge leads out of
\* them, or back to the loop_start, from a loop_end of that loop only; a loop_end
\* lies in the loops its loop_start lies in; no edit makes a waiting node of it
Encloses(Body) ==
    /\ \A l \in Loops : LoopStart[l] \in Body[l] /\ LoopOf[LoopStart[l]] = l
    /\ \A v \in 1..Versions, n \in Nodes :
        /\ NodeType[v][n] = "loop_start" => n = LoopStart[LoopOf[n]]
        /\ NodeType[v][n] = "loop_end" =>
               /\ \A l \in Loops : n \in Body[l] => LoopStart[LoopOf[n]] \in Body[l]
               /\ \A w \in 1..Versions : NodeType[w][n] \notin WaitTypes
        /\ Edges[v][n] # <<>> =>
               \A t \in Targets(v, n) \cap Nodes, l \in Loops :
                   n \in Body[l] /\ (t \notin Body[l] \/ t = LoopStart[l]) =>
                       NodeType[v][n] = "loop_end" /\ LoopOf[n] = l

\* Loops are left, and begun again, at their loop_end nodes, the only place that
\* tests maxIterations; nothing in the code enforces it
ClosedLoops == \E Body \in [Loops -> SUBSET Nodes] : Encloses(Body)

Limit(l) == IF MaxIterations[l] = 0 THEN 1 ELSE MaxIterations[l]

\* No row ever counts more iterations of a loop than its maxIterations (a loop
\* runs once even when that is 0), whichever stale copy is saved when
LoopWithinBounds ==
    ClosedLoops => \A e \in Executions, l \in Loops : db[e].loops[l] <= Limit(l)

\* A request tells the outside at most once how an execution ended: the nested
\* catch blocks do not report one failure several times, nor after a completion
OneVerdict ==
    faults = 0 => \A r \in Requests : run[r].verdicts <= 1

\* Every wait is resumed at most once: continueExecution, handleApproval and
\* handleEvent test the stored status before they resume
ResumedOncePerWait == \A e \in Executions : owed[e] >= 0

\* A cancelled execution stays cancelled
CancelIsFinal ==
    [][\A e \in Executions : db[e].status = "cancelled" => db'[e].status = "cancelled"]_db

\* A request whose calls return is eventually answered: loops end, stacks unwind
RequestsAnswered ==
    \A r \in Requests : []<>~CallsOut(r) => (Live(r) ~> ~Live(r))

Life == INSTANCE ExecutionLifecycle WITH
    status <- [e \in Executions |-> db[e].status],
    answer <- [e \in Executions |-> db[e].answer],
    Payloads <- Requests

\* While requests do not overlap, the stored rows follow the abstract life cycle
LifecycleRefined == Life!Spec
=============================================================================
