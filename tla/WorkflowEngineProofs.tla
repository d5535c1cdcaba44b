------------------------- MODULE WorkflowEngineProofs -------------------------
(***************************************************************************)
(* For every graph, number of requests, failures and restarts: the types,  *)
(* the coherence of waiting executions, and that a RUNNING row has a       *)
(* request that runs it.                                                   *)
(***************************************************************************)
EXTENDS WorkflowEngine, SequenceTheorems, TLAPS

\* A row that waits stands at a waiting node of that kind, in some version
Coherent(row) ==
    row.status \in WaitingStatuses =>
        \E v \in 1..Versions :
            /\ row.current \in Nodes
            /\ NodeType[v][row.current] \in WaitTypes
            /\ row.status = StatusSetBy(NodeType[v][row.current])

AtWaitNode(n) == n \in Nodes /\ \E v \in 1..Versions : NodeType[v][n] \in WaitTypes

\* What the copies of a request satisfy wherever it stands
CopiesInv(q) ==
    /\ Coherent(q.row)
    /\ \A e \in Executions : Coherent(q.snapshot[e])
    /\ \A e \in q.queue : q.snapshot[e].status = "waiting_event"

InActivation == {"enter", "create", "body", "bodysave", "complete", "merge", "catch"}

\* What the copy and the stack satisfy at a control point
PointInv(q) ==
    /\ q.pc \in InActivation => q.stack # <<>>
    /\ q.pc \in {"enter", "create", "body"} =>
            q.row.status = "running" /\ q.row.current = Top(q).node
    /\ q.pc = "resume" => q.row.status = "running" /\ AtWaitNode(q.row.current)
    /\ q.pc = "finish" => q.row.status = "completed"
    /\ q.pc = "fail" => q.row.status = "failed"
    /\ q.pc = "cancel" => q.row.status = "cancelled"

Good(q) == q \in Request /\ CopiesInv(q) /\ PointInv(q)

\* The inductive invariant
IInv ==
    /\ TypeOK
    /\ \A e \in Executions : Coherent(db[e])
    /\ \A r \in Requests : Good(run[r])

-----------------------------------------------------------------------------
(* The operators the actions are built from *)

LEMMA PopType == ASSUME NEW s \in Seq(Frame) PROVE Pop(s) \in Seq(Frame)
<1>1. \A i \in 1..(Len(s) - 1) : s[i] \in Frame
  OBVIOUS
<1>2. QED
  BY <1>1, SubSeqProperties DEF Pop

LEMMA TopIsFrame == ASSUME NEW q \in Request, q.stack # <<>> PROVE Top(q) \in Frame
BY DEF Request, Top

\* Calling executeNode from a RUNNING copy keeps everything
LEMMA EnterGood ==
    ASSUME NEW q \in Request, CopiesInv(q), q.row.status = "running", NEW n \in Nodes
    PROVE  Good(Enter(q, n)) /\ Enter(q, n).exec = q.exec /\ Enter(q, n).pc = "enter"
<1> DEFINE f == [node |-> n, step |-> 0, inner |-> FALSE]
           s == Append(q.stack, f)
           row == [q.row EXCEPT !.current = n]
           p == Enter(q, n)
<1>1. f \in Frame /\ s \in Seq(Frame) /\ s # <<>> /\ s[Len(s)] = f /\ row \in Row
  <2>1. f \in Frame
    BY DEF Frame
  <2>2. q.stack \in Seq(Frame) /\ q.row \in Row
    BY DEF Request
  <2>3. row \in Row
    BY <2>2 DEF Row
  <2> HIDE DEF f
  <2>4. s \in Seq(Frame) /\ Len(s) = Len(q.stack) + 1 /\ s[Len(s)] = f
    BY <2>1, <2>2
  <2>5. s # <<>>
    BY <2>2, <2>4
  <2>6. QED
    BY <2>1, <2>3, <2>4, <2>5
<1>2. p = [q EXCEPT !.pc = "enter", !.row = row, !.stack = s]
  BY DEF Enter, Request
<1> HIDE DEF f, s, row, p
<1>3. /\ p \in Request /\ p.pc = "enter" /\ p.row = row /\ p.stack = s /\ p.exec = q.exec
      /\ p.snapshot = q.snapshot /\ p.queue = q.queue
  BY <1>1, <1>2 DEF Request, PCs
<1>4. row.status = "running" /\ row.current = n
  BY DEF row, Row, Request
<1>5. Coherent(row)
  BY <1>4 DEF Coherent, WaitingStatuses
<1>6. PointInv(p)
  BY <1>1, <1>3, <1>4 DEF PointInv, Top, f
<1>7. CopiesInv(p)
  BY <1>3, <1>5 DEF CopiesInv
<1>8. QED
  BY <1>3, <1>6, <1>7 DEF Good, p

LEMMA ThrowGood ==
    ASSUME NEW q \in Request, CopiesInv(q), NEW s \in Seq(Frame)
    PROVE  /\ Good(Throw(q, s))
           /\ Throw(q, s).exec = q.exec
           /\ s # <<>> => Throw(q, s).pc = "catch"
<1> DEFINE st == IF s = <<>> /\ q.op = "execute" THEN "failed" ELSE q.row.status
           row == [q.row EXCEPT !.status = st]
           point == IF s # <<>> THEN "catch"
                    ELSE IF q.op = "execute" THEN "fail" ELSE "rejected"
           p == Throw(q, s)
<1>1. row \in Row /\ row.status = st /\ row.current = q.row.current
  BY DEF Row, Request, Statuses
<1>2. p = [q EXCEPT !.stack = s, !.pc = point, !.row = row]
  BY DEF Throw, Request
<1> HIDE DEF row, p
<1>3. /\ p \in Request /\ p.pc = point /\ p.row = row /\ p.stack = s /\ p.exec = q.exec
      /\ p.snapshot = q.snapshot /\ p.queue = q.queue
  BY <1>1, <1>2 DEF Request, PCs
<1>4. Coherent(row)
  BY <1>1 DEF Coherent, CopiesInv, WaitingStatuses
<1>5. PointInv(p)
  BY <1>1, <1>3 DEF PointInv, InActivation
<1>6. QED
  BY <1>3, <1>4, <1>5 DEF Good, CopiesInv, p

LEMMA ReturnGood ==
    ASSUME NEW q \in Request, CopiesInv(q)
    PROVE  Good(Return(q)) /\ Return(q).exec = q.exec /\ Return(q).pc = "return"
<1> DEFINE p == Return(q)
<1>1. Pop(q.stack) \in Seq(Frame)
  BY PopType DEF Request
<1>2. p = [q EXCEPT !.pc = "return", !.stack = Pop(q.stack)]
  BY DEF Return, Request
<1> HIDE DEF p
<1>3. /\ p \in Request /\ p.pc = "return" /\ p.row = q.row /\ p.exec = q.exec
      /\ p.snapshot = q.snapshot /\ p.queue = q.queue
  BY <1>1, <1>2 DEF Request, PCs
<1>4. PointInv(p)
  BY <1>3 DEF PointInv, InActivation
<1>5. QED
  BY <1>3, <1>4 DEF Good, CopiesInv, p

\* continueToNextNode from a RUNNING copy
LEMMA ContinueGood ==
    ASSUME NEW q \in Request, CopiesInv(q), q.row.status = "running",
           NEW n, NEW p \in Continue(q, n)
    PROVE  Good(p) /\ p.exec = q.exec
<1>1. CASE Edges[q.version][n] = <<>>
  <2> DEFINE row == [q.row EXCEPT !.status = "completed"]
  <2>1. row \in Row /\ row.status = "completed"
    BY DEF Row, Request, Statuses
  <2>2. p = [q EXCEPT !.pc = "finish", !.row = row]
    BY <1>1 DEF Continue, Request
  <2> HIDE DEF row
  <2>3. /\ p \in Request /\ p.pc = "finish" /\ p.row = row /\ p.exec = q.exec
        /\ p.snapshot = q.snapshot /\ p.queue = q.queue
    BY <2>1, <2>2 DEF Request, PCs
  <2>4. QED
    BY <2>1, <2>3 DEF Good, PointInv, CopiesInv, Coherent, InActivation, WaitingStatuses
<1>2. CASE Edges[q.version][n] # <<>>
  <2>1. PICK t \in Targets(q.version, n) :
           p = IF t \in Nodes /\ Has(q.version, t) THEN Enter(q, t) ELSE Throw(q, q.stack)
    BY <1>2 DEF Continue
  <2>2. q.stack \in Seq(Frame)
    BY DEF Request
  <2>3. QED
    BY <2>1, <2>2, EnterGood, ThrowGood
<1>3. QED
  BY <1>1, <1>2

-----------------------------------------------------------------------------
(* Steps *)

StepStatus == {"running", "completed", "failed"}

LEMMA SeqUpdate ==
    ASSUME NEW S, NEW s \in Seq(S), NEW k, NEW x \in S
    PROVE  [s EXCEPT ![k] = x] \in Seq(S)
<1> DEFINE t == [s EXCEPT ![k] = x]
<1>1. s \in [1..Len(s) -> S] /\ Len(s) \in Nat
  OBVIOUS
<1>2. t \in [1..Len(s) -> S]
  BY <1>1
<1>3. QED
  BY <1>1, <1>2

\* A step that leaves request r in a good state and the rest well-typed
LEMMA StepKeepsIInv ==
    ASSUME IInv, NEW r \in Requests, NEW p, Good(p), run' = [run EXCEPT ![r] = p],
           db' \in [Executions -> Row], \A e \in Executions : Coherent(db'[e]),
           steps' \in Seq(StepStatus), version' \in 1..Versions,
           owed' \in [Executions -> Int], faults' \in 0..MaxFaults,
           crashes' \in 0..MaxCrashes
    PROVE  IInv'
<1>1. run' \in [Requests -> Request]
  BY DEF IInv, TypeOK, Good
<1>2. \A o \in Requests : Good(run'[o])
  BY DEF IInv, TypeOK
<1>3. TypeOK'
  BY <1>1 DEF TypeOK, StepStatus
<1>4. QED
  BY <1>2, <1>3 DEF IInv

\* A step that only moves request r
LEMMA MoveKeepsIInv ==
    ASSUME IInv, NEW r \in Requests, NEW p, Good(p), run' = [run EXCEPT ![r] = p],
           UNCHANGED <<db, steps, version, owed, faults, crashes>>
    PROVE  IInv'
BY StepKeepsIInv DEF IInv, TypeOK, StepStatus

LEMMA SaveCoherent ==
    ASSUME IInv, NEW r \in Requests, Save(r)
    PROVE  db' \in [Executions -> Row] /\ \A e \in Executions : Coherent(db'[e])
BY DEF IInv, TypeOK, Good, CopiesInv, Save, Request

\* A step that saves the copy of request r and moves it
LEMMA SaveKeepsIInv ==
    ASSUME IInv, NEW r \in Requests, NEW p, Good(p), run' = [run EXCEPT ![r] = p],
           Save(r), owed' \in [Executions -> Int],
           UNCHANGED <<steps, version, faults, crashes>>
    PROVE  IInv'
BY StepKeepsIInv, SaveCoherent DEF IInv, TypeOK, StepStatus

\* Only the control point of a good request changes
LEMMA PointGood ==
    ASSUME NEW q, Good(q), NEW c \in PCs, PointInv([q EXCEPT !.pc = c])
    PROVE  Good([q EXCEPT !.pc = c])
BY DEF Good, CopiesInv, Request

\* Moving from inside an activation to one of these points asks for nothing new
LEMMA InnerPointGood ==
    ASSUME NEW q, Good(q), NEW c \in {"complete", "merge", "catch"}, q.pc \in InActivation
    PROVE  Good([q EXCEPT !.pc = c])
<1> DEFINE p == [q EXCEPT !.pc = c]
<1>1. p.pc = c /\ p.stack = q.stack
  BY DEF Good, Request
<1>2. PointInv(p)
  BY <1>1 DEF PointInv, Good, InActivation
<1>3. c \in PCs
  BY DEF PCs
<1>4. QED
  BY <1>2, <1>3, PointGood

\* A request that stands nowhere in particular
LEMMA EndGood ==
    ASSUME NEW q, Good(q), NEW c \in {"done", "rejected", "events", "return", "lost"}
    PROVE  Good([q EXCEPT !.pc = c])
<1>1. [q EXCEPT !.pc = c].pc = c
  BY DEF Good, Request
<1>2. PointInv([q EXCEPT !.pc = c])
  BY <1>1 DEF PointInv, InActivation
<1>3. QED
  BY <1>2, PointGood DEF PCs

LEMMA IdleType == IdleRequest \in Request
<1>1. (CHOOSE e \in Executions : TRUE) \in Executions
  BY GraphAssumption
<1>2. NoRow \in Row
  BY DEF NoRow, Row, Statuses
<1>3. 1 \in 1..Versions /\ <<>> \in Seq(Frame)
  BY GraphAssumption
<1>4. QED
  BY <1>1, <1>2, <1>3 DEF IdleRequest, Request, Operations, PCs

LEMMA NoRowCoherent == Coherent(NoRow)
BY DEF Coherent, NoRow, WaitingStatuses

LEMMA IdleGood == Good(IdleRequest)
<1>1. CopiesInv(IdleRequest)
  BY NoRowCoherent DEF IdleRequest, CopiesInv
<1>2. PointInv(IdleRequest)
  BY DEF IdleRequest, PointInv, InActivation
<1>3. QED
  BY <1>1, <1>2, IdleType DEF Good

LEMMA InitIInv == Init => IInv
<1> SUFFICES ASSUME Init PROVE IInv
  OBVIOUS
<1>1. TypeOK
  BY IdleType, GraphAssumption DEF Init, TypeOK, NoRow, Row, Statuses
<1>2. \A e \in Executions : Coherent(db[e])
  BY NoRowCoherent DEF Init
<1>3. QED
  BY <1>1, <1>2, IdleGood DEF Init, IInv


-----------------------------------------------------------------------------
(* Beginning a request keeps the invariant *)

LEMMA ExecuteIInv ==
    ASSUME IInv, NEW r \in Requests, NEW e \in Executions, ExecuteWorkflow(r, e)
    PROVE  IInv'
<1> DEFINE new == [NoRow EXCEPT !.status = "running"]
           q == [IdleRequest EXCEPT !.op = "execute", !.exec = e,
                                    !.row = new, !.version = version]
<1>1. new \in Row /\ new.status = "running" /\ Coherent(new)
  BY DEF NoRow, Row, Statuses, Coherent, WaitingStatuses
<1>2. db' = [db EXCEPT ![e] = new]
  BY DEF ExecuteWorkflow
<1>3. /\ q \in Request /\ q.row = new /\ q.snapshot = IdleRequest.snapshot
      /\ q.queue = IdleRequest.queue
  <2>1. version \in 1..Versions
    BY DEF IInv, TypeOK
  <2> HIDE DEF new
  <2>2. QED
    BY <1>1, <2>1, IdleType DEF Request, Operations
<1>4. CopiesInv(q)
  BY <1>1, <1>3, IdleGood DEF Good, CopiesInv
<1>5. db' \in [Executions -> Row] /\ \A x \in Executions : Coherent(db'[x])
  <2> HIDE DEF new
  <2>1. QED
    BY <1>1, <1>2 DEF IInv, TypeOK
<1>6. /\ steps' \in Seq(StepStatus) /\ version' \in 1..Versions
      /\ owed' \in [Executions -> Int] /\ faults' \in 0..MaxFaults
      /\ crashes' \in 0..MaxCrashes
  BY DEF ExecuteWorkflow, IInv, TypeOK, StepStatus
<1>7. \/ \E n \in Nodes : run' = [run EXCEPT ![r] = Enter(q, n)]
      \/ run' = [run EXCEPT ![r] = [q EXCEPT !.pc = "rejected"]]
  BY DEF ExecuteWorkflow
<1> HIDE DEF q, new
<1>8. CASE \E n \in Nodes : run' = [run EXCEPT ![r] = Enter(q, n)]
  BY <1>1, <1>3, <1>4, <1>5, <1>6, <1>8, EnterGood, StepKeepsIInv
<1>9. CASE run' = [run EXCEPT ![r] = [q EXCEPT !.pc = "rejected"]]
  <2> DEFINE p == [q EXCEPT !.pc = "rejected"]
  <2>1. /\ p \in Request /\ p.pc = "rejected" /\ p.row = q.row
        /\ p.snapshot = q.snapshot /\ p.queue = q.queue
    BY <1>3 DEF Request, PCs
  <2>2. Good(p)
    BY <1>4, <2>1 DEF Good, CopiesInv, PointInv, InActivation
  <2>3. QED
    BY <1>5, <1>6, <1>9, <2>2, StepKeepsIInv
<1>10. QED
  BY <1>7, <1>8, <1>9

LEMMA LoadToResumeIInv ==
    ASSUME IInv, NEW r \in Requests, NEW e \in Executions,
           NEW o \in {"continue", "approve"}, LoadToResume(r, e, o)
    PROVE  IInv'
<1> DEFINE q == [IdleRequest EXCEPT !.op = o, !.exec = e, !.version = version]
           row == [db[e] EXCEPT !.status = "running", !.answer = {r}]
           ok == [q EXCEPT !.pc = "resume", !.row = row]
           no == [q EXCEPT !.pc = "rejected"]
<1>1. version \in 1..Versions /\ db[e] \in Row /\ Coherent(db[e])
  BY DEF IInv, TypeOK
<1>2. /\ q \in Request /\ q.row = IdleRequest.row /\ q.snapshot = IdleRequest.snapshot
      /\ q.queue = IdleRequest.queue /\ q.stack = IdleRequest.stack
  BY <1>1, IdleType DEF Request, Operations
<1>3. row \in Row /\ row.status = "running" /\ row.current = db[e].current
  BY <1>1 DEF Row, Statuses
<1>4. Coherent(row)
  BY <1>3 DEF Coherent, WaitingStatuses
<1>5. run' = [run EXCEPT ![r] = IF db[e].status = Resuming(o) THEN ok ELSE no]
  BY DEF LoadToResume
<1> HIDE DEF q, row
<1>6. CASE db[e].status = Resuming(o)
  <2>1. /\ ok \in Request /\ ok.pc = "resume" /\ ok.row = row
        /\ ok.snapshot = q.snapshot /\ ok.queue = q.queue
    BY <1>2, <1>3 DEF Request, PCs
  <2>2. AtWaitNode(row.current)
    BY <1>1, <1>3, <1>6 DEF Coherent, Resuming, WaitingStatuses, AtWaitNode
  <2>3. Good(ok)
    BY <1>2, <1>3, <1>4, <2>1, <2>2, IdleGood DEF Good, CopiesInv, PointInv, InActivation
  <2>4. QED
    BY <1>5, <1>6, <2>3, MoveKeepsIInv DEF LoadToResume
<1>7. CASE db[e].status # Resuming(o)
  <2>1. /\ no \in Request /\ no.pc = "rejected" /\ no.row = q.row
        /\ no.snapshot = q.snapshot /\ no.queue = q.queue
    BY <1>2 DEF Request, PCs
  <2>2. Good(no)
    BY <1>2, <2>1, IdleGood DEF Good, CopiesInv, PointInv, InActivation
  <2>3. QED
    BY <1>5, <1>7, <2>2, MoveKeepsIInv DEF LoadToResume
<1>8. QED
  BY <1>6, <1>7

LEMMA LoadWaitingIInv ==
    ASSUME IInv, NEW r \in Requests, LoadWaiting(r)
    PROVE  IInv'
<1> DEFINE Q == {e \in Executions : db[e].status = "waiting_event"}
           p == [IdleRequest EXCEPT !.op = "event", !.pc = "events",
                    !.version = version, !.queue = Q, !.snapshot = db]
<1>1. version \in 1..Versions /\ db \in [Executions -> Row] /\ Q \in SUBSET Executions
  BY DEF IInv, TypeOK
<1>2. \A e \in Q : db[e].status = "waiting_event"
  OBVIOUS
<1>3. run' = [run EXCEPT ![r] = p]
  BY DEF LoadWaiting
<1> HIDE DEF Q
<1>4. /\ p \in Request /\ p.pc = "events" /\ p.row = IdleRequest.row
      /\ p.snapshot = db /\ p.queue = Q
  BY <1>1, IdleType DEF Request, Operations, PCs
<1> HIDE DEF p
<1>5. Good(p)
  BY <1>2, <1>4, IdleGood DEF Good, CopiesInv, PointInv, InActivation, IInv
<1>6. QED
  BY <1>3, <1>5, MoveKeepsIInv DEF LoadWaiting

LEMMA LoadToCancelIInv ==
    ASSUME IInv, NEW r \in Requests, NEW e \in Executions, LoadToCancel(r, e)
    PROVE  IInv'
<1> DEFINE row == [db[e] EXCEPT !.status = "cancelled"]
           p == [IdleRequest EXCEPT !.op = "cancel", !.exec = e, !.pc = "cancel",
                                    !.version = version, !.row = row]
<1>1. version \in 1..Versions /\ db[e] \in Row
  BY DEF IInv, TypeOK
<1>2. row \in Row /\ row.status = "cancelled"
  BY <1>1 DEF Row, Statuses
<1>3. run' = [run EXCEPT ![r] = p]
  BY DEF LoadToCancel
<1> HIDE DEF row
<1>4. /\ p \in Request /\ p.pc = "cancel" /\ p.row = row
      /\ p.snapshot = IdleRequest.snapshot /\ p.queue = IdleRequest.queue
  BY <1>1, <1>2, IdleType DEF Request, Operations, PCs
<1> HIDE DEF p
<1>5. Good(p)
  BY <1>2, <1>4, IdleGood
     DEF Good, CopiesInv, PointInv, InActivation, Coherent, WaitingStatuses
<1>6. QED
  BY <1>3, <1>5, MoveKeepsIInv DEF LoadToCancel

LEMMA NextWaitingIInv ==
    ASSUME IInv, NEW r \in Requests, NextWaiting(r)
    PROVE  IInv'
<1> DEFINE q == run[r]
<1>1. Good(q) /\ q \in Request /\ q.pc = "events"
  BY DEF IInv, Good, NextWaiting
<1>2. CASE Goto(r, "done")
  BY <1>1, <1>2, EndGood, MoveKeepsIInv DEF NextWaiting, Goto, IInv, TypeOK
<1>3. CASE \E e \in q.queue : run' = [run EXCEPT ![r].queue = @ \ {e}]
  <2>1. PICK e \in q.queue : run' = [run EXCEPT ![r].queue = @ \ {e}]
    BY <1>3
  <2> DEFINE p == [q EXCEPT !.queue = @ \ {e}]
  <2>2. /\ p \in Request /\ p.pc = q.pc /\ p.row = q.row /\ p.snapshot = q.snapshot
        /\ p.queue = q.queue \ {e}
    BY <1>1 DEF Request
  <2>3. Good(p)
    BY <1>1, <2>2 DEF Good, CopiesInv, PointInv, InActivation
  <2>4. run' = [run EXCEPT ![r] = p]
    BY <2>1
  <2>5. QED
    BY <2>3, <2>4, MoveKeepsIInv DEF NextWaiting
<1>4. CASE \E e \in q.queue : run' = [run EXCEPT ![r] = [q EXCEPT
                       !.queue = @ \ {e}, !.exec = e, !.pc = "resume", !.verdicts = 0,
                       !.row = [q.snapshot[e] EXCEPT !.status = "running",
                                                     !.answer = {r}]]]
  <2>1. PICK e \in q.queue : run' = [run EXCEPT ![r] = [q EXCEPT
                       !.queue = @ \ {e}, !.exec = e, !.pc = "resume", !.verdicts = 0,
                       !.row = [q.snapshot[e] EXCEPT !.status = "running",
                                                     !.answer = {r}]]]
    BY <1>4
  <2> DEFINE row == [q.snapshot[e] EXCEPT !.status = "running", !.answer = {r}]
             p == [q EXCEPT !.queue = @ \ {e}, !.exec = e, !.pc = "resume",
                            !.verdicts = 0, !.row = row]
  <2>2. /\ e \in Executions /\ q.snapshot[e] \in Row /\ Coherent(q.snapshot[e])
        /\ q.snapshot[e].status = "waiting_event"
    BY <1>1 DEF Good, CopiesInv, Request
  <2>3. row \in Row /\ row.status = "running" /\ row.current = q.snapshot[e].current
    BY <2>2 DEF Row, Statuses
  <2>4. Coherent(row) /\ AtWaitNode(row.current)
    BY <2>2, <2>3 DEF Coherent, WaitingStatuses, AtWaitNode
  <2> HIDE DEF row
  <2>5. /\ p \in Request /\ p.pc = "resume" /\ p.row = row /\ p.snapshot = q.snapshot
        /\ p.queue = q.queue \ {e}
    BY <1>1, <2>2, <2>3 DEF Request, PCs
  <2>6. run' = [run EXCEPT ![r] = p]
    BY <2>1 DEF row
  <2> HIDE DEF p
  <2>7. Good(p)
    BY <1>1, <2>3, <2>4, <2>5 DEF Good, CopiesInv, PointInv, InActivation
  <2>8. QED
    BY <2>6, <2>7, MoveKeepsIInv DEF NextWaiting
<1>5. QED
  BY <1>2, <1>3, <1>4 DEF NextWaiting


-----------------------------------------------------------------------------
(* Every step of a request keeps the invariant *)

LEMMA ResumeIInv == ASSUME IInv, NEW r \in Requests, Resume(r) PROVE IInv'
<1> DEFINE q == run[r]
<1>1. Good(q) /\ q \in Request /\ q.row.status = "running" /\ Save(r) /\ CopiesInv(q)
  BY DEF IInv, Good, Resume, PointInv
<1>2. owed' \in [Executions -> Int]
  <2>1. owed \in [Executions -> Int] /\ q.exec \in Executions
    BY <1>1 DEF IInv, TypeOK, Request
  <2>2. owed' = [owed EXCEPT ![q.exec] = owed[q.exec] - 1]
    BY DEF Resume
  <2>3. QED
    BY <2>1, <2>2
<1>3. CASE \E next \in Continue(q, q.row.current) : run' = [run EXCEPT ![r] = next]
  BY <1>1, <1>2, <1>3, ContinueGood, SaveKeepsIInv DEF Resume
<1>4. CASE Goto(r, "done")
  <2>1. run' = [run EXCEPT ![r] = [q EXCEPT !.pc = "done"]]
    BY <1>4 DEF Goto
  <2>2. QED
    BY <1>1, <1>2, <2>1, EndGood, SaveKeepsIInv DEF Resume
<1>5. QED
  BY <1>3, <1>4 DEF Resume

LEMMA CancelIInv == ASSUME IInv, NEW r \in Requests, CancelExecution(r) PROVE IInv'
<1>1. run' = [run EXCEPT ![r] = [run[r] EXCEPT !.pc = "done"]]
  BY DEF CancelExecution, Goto
<1>2. Good(run[r]) /\ owed \in [Executions -> Int]
  BY DEF IInv, TypeOK
<1>3. QED
  BY <1>1, <1>2, EndGood, SaveKeepsIInv DEF CancelExecution

LEMMA SaveCurrentNodeIInv ==
    ASSUME IInv, NEW r \in Requests, SaveCurrentNode(r) PROVE IInv'
<1> DEFINE p == [run[r] EXCEPT !.pc = "create"]
<1>1. Good(run[r]) /\ owed \in [Executions -> Int] /\ run[r].pc = "enter"
  BY DEF IInv, TypeOK, SaveCurrentNode
<1>2. /\ p.pc = "create" /\ p.row = run[r].row /\ p.stack = run[r].stack /\ "create" \in PCs
  BY <1>1 DEF Good, Request, PCs
<1>3. Good(p)
  BY <1>1, <1>2, PointGood DEF Good, PointInv, InActivation, Top
<1>4. run' = [run EXCEPT ![r] = p]
  BY DEF SaveCurrentNode, Goto
<1>5. QED
  BY <1>1, <1>3, <1>4, SaveKeepsIInv DEF SaveCurrentNode

LEMMA CreateStepIInv == ASSUME IInv, NEW r \in Requests, CreateStep(r) PROVE IInv'
<1> DEFINE q == run[r]
           f == [Top(q) EXCEPT !.step = Len(steps) + 1]
           s == [q.stack EXCEPT ![Len(q.stack)] = f]
           p == [q EXCEPT !.pc = "body", !.stack = s]
<1>1. /\ Good(q) /\ q \in Request /\ q.pc = "create" /\ q.stack # <<>> /\ Top(q) \in Frame
      /\ q.stack \in Seq(Frame)
  <2>1. Good(q) /\ q \in Request /\ q.pc = "create"
    BY DEF IInv, Good, CreateStep
  <2>2. q.stack # <<>>
    BY <2>1 DEF Good, PointInv, InActivation
  <2>3. QED
    BY <2>1, <2>2, TopIsFrame DEF Request
<1>2. steps \in Seq(StepStatus) /\ Len(steps) + 1 \in Nat
  BY DEF IInv, TypeOK, StepStatus
<1>3. f \in Frame /\ f.node = Top(q).node
  BY <1>1, <1>2 DEF Frame
<1>4. s \in Seq(Frame) /\ s # <<>> /\ s[Len(s)] = f
  <2> HIDE DEF f
  <2>1. Len(q.stack) \in 1..Len(q.stack)
    BY <1>1
  <2>2. s \in Seq(Frame) /\ Len(s) = Len(q.stack) /\ s[Len(s)] = f
    BY <1>1, <1>3, <2>1
  <2>3. QED
    BY <2>1, <2>2
<1>5. run' = [run EXCEPT ![r] = p]
  <2>1. s = [q.stack EXCEPT ![Len(q.stack)].step = Len(steps) + 1]
    BY DEF Top
  <2>2. p = [q EXCEPT !.pc = "body", !.stack[Len(q.stack)].step = Len(steps) + 1]
    BY <1>1, <2>1 DEF Request
  <2>3. QED
    BY <2>2 DEF CreateStep
<1> HIDE DEF s
<1>6. /\ p \in Request /\ p.pc = "body" /\ p.row = q.row /\ p.stack = s
      /\ p.snapshot = q.snapshot /\ p.queue = q.queue
  BY <1>1, <1>4 DEF Request, PCs
<1> HIDE DEF p, f
<1>7. Good(p)
  BY <1>1, <1>3, <1>4, <1>6 DEF Good, CopiesInv, PointInv, InActivation, Top
<1>8. steps' \in Seq(StepStatus)
  BY <1>2 DEF CreateStep, StepStatus
<1>9. QED
  BY <1>5, <1>7, <1>8, StepKeepsIInv DEF CreateStep, IInv, TypeOK

LEMMA GotoInside ==
    ASSUME IInv, NEW r \in Requests, NEW c \in {"complete", "merge", "catch"},
           run[r].pc \in InActivation, Goto(r, c)
    PROVE  Good([run[r] EXCEPT !.pc = c]) /\ run' = [run EXCEPT ![r] = [run[r] EXCEPT !.pc = c]]
BY InnerPointGood DEF IInv, Goto

LEMMA RunTaskIInv == ASSUME IInv, NEW r \in Requests, RunTask(r) PROVE IInv'
BY GotoInside, MoveKeepsIInv DEF RunTask, InActivation

LEMMA CheckLoopIInv == ASSUME IInv, NEW r \in Requests, CheckLoop(r) PROVE IInv'
BY GotoInside, MoveKeepsIInv DEF CheckLoop, InActivation

\* At the body of a node: the copy runs and its current node is the node's
LEMMA AtBody ==
    ASSUME IInv, NEW r \in Requests, run[r].pc = "body"
    PROVE  /\ Good(run[r]) /\ run[r] \in Request /\ run[r].stack # <<>>
           /\ Top(run[r]) \in Frame /\ Top(run[r]).node \in Nodes
           /\ run[r].row \in Row /\ run[r].row.status = "running"
           /\ run[r].row.current = Top(run[r]).node
<1>1. Good(run[r]) /\ run[r] \in Request /\ run[r].row \in Row
  BY DEF IInv, Good, Request
<1>2. /\ run[r].stack # <<>> /\ run[r].row.status = "running"
      /\ run[r].row.current = Top(run[r]).node
  BY <1>1 DEF Good, PointInv, InActivation
<1>3. Top(run[r]) \in Frame
  BY <1>1, <1>2, TopIsFrame
<1>4. QED
  BY <1>1, <1>2, <1>3 DEF Frame

\* A node's body prepares a coherent copy and asks for its save
LEMMA BodySaveGood ==
    ASSUME NEW q, Good(q), q.pc = "body", NEW row \in Row, Coherent(row)
    PROVE  Good([q EXCEPT !.pc = "bodysave", !.row = row])
<1> DEFINE p == [q EXCEPT !.pc = "bodysave", !.row = row]
<1>1. /\ p \in Request /\ p.pc = "bodysave" /\ p.row = row /\ p.stack = q.stack
      /\ p.snapshot = q.snapshot /\ p.queue = q.queue
  BY DEF Good, Request, PCs
<1> HIDE DEF p
<1>2. Good(p)
  BY <1>1 DEF Good, CopiesInv, PointInv, InActivation
<1>3. QED
  BY <1>2 DEF p

LEMMA SetStatusIInv == ASSUME IInv, NEW r \in Requests, SetStatus(r) PROVE IInv'
<1> DEFINE q == run[r]
           t == TopType(q)
           st == StatusSetBy(t)
           row == [q.row EXCEPT !.status = st]
<1>1. /\ Good(q) /\ q.pc = "body" /\ q.row \in Row /\ Top(q).node \in Nodes
      /\ q.row.current = Top(q).node /\ q.version \in 1..Versions
      /\ t \in WaitTypes \cup {"end"}
  BY AtBody DEF SetStatus, Request
<1>2. row \in Row /\ row.status = st /\ row.current = Top(q).node
  BY <1>1 DEF Row, Statuses, WaitingStatuses, WaitTypes, StatusSetBy
<1>3. Coherent(row)
  <2>1. CASE t = "end"
    BY <1>2, <2>1 DEF Coherent, WaitingStatuses, StatusSetBy
  <2>2. CASE t \in WaitTypes
    <3>2. t = NodeType[q.version][Top(q).node]
      BY DEF TopType
    <3>3. row.status = StatusSetBy(t)
      BY <1>2
    <3> HIDE DEF t, row
    <3>4. QED
      BY <1>1, <1>2, <2>2, <3>2, <3>3 DEF Coherent
  <2>3. QED
    BY <1>1, <2>1, <2>2
<1>4. run' = [run EXCEPT ![r] = [q EXCEPT !.pc = "bodysave", !.row = row]]
  <2>1. [q EXCEPT !.pc = "bodysave", !.row = row]
           = [q EXCEPT !.pc = "bodysave", !.row.status = st]
    <3> HIDE DEF st
    <3>1. QED
      BY <1>1 DEF Good, Request
  <2>2. run' = [run EXCEPT ![r] = [q EXCEPT !.pc = "bodysave", !.row.status = st]]
    BY DEF SetStatus
  <2>3. QED
    BY <2>1, <2>2
<1> HIDE DEF row
<1>5. Good([q EXCEPT !.pc = "bodysave", !.row = row])
  BY <1>1, <1>2, <1>3, BodySaveGood
<1>6. QED
  BY <1>4, <1>5, MoveKeepsIInv DEF SetStatus

LEMMA StartLoopIInv == ASSUME IInv, NEW r \in Requests, StartLoop(r) PROVE IInv'
<1> DEFINE q == run[r]
           l == LoopOf[Top(q).node]
           row == [q.row EXCEPT !.loops[l] = @ + 1]
<1>1. /\ Good(q) /\ q \in Request /\ q.pc = "body" /\ q.row \in Row
      /\ q.row.status = "running" /\ l \in Loops
  BY AtBody, GraphAssumption DEF StartLoop
<1>2. row \in Row /\ row.status = "running"
  BY <1>1 DEF Row
<1>3. Coherent(row)
  BY <1>2 DEF Coherent, WaitingStatuses
<1>4. run' = [run EXCEPT ![r] = [q EXCEPT !.pc = "bodysave", !.row = row]]
  <2>1. [q EXCEPT !.pc = "bodysave", !.row = row]
           = [q EXCEPT !.pc = "bodysave", !.row.loops[l] = @ + 1]
    BY <1>1 DEF Request
  <2>2. QED
    BY <2>1 DEF StartLoop
<1> HIDE DEF row
<1>5. Good([q EXCEPT !.pc = "bodysave", !.row = row])
  BY <1>1, <1>2, <1>3, BodySaveGood
<1>6. QED
  BY <1>4, <1>5, MoveKeepsIInv DEF StartLoop

LEMMA EndLoopIInv == ASSUME IInv, NEW r \in Requests, EndLoop(r) PROVE IInv'
<1> DEFINE q == run[r]
           l == LoopOf[Top(q).node]
           row == [q.row EXCEPT !.loops[l] = 0]
           top == [Top(q) EXCEPT !.inner = TRUE]
           s == [q.stack EXCEPT ![Len(q.stack)] = top]
           inner == [q EXCEPT !.stack = s]
<1>1. /\ Good(q) /\ q \in Request /\ q.pc = "body" /\ q.row \in Row
      /\ q.row.status = "running" /\ l \in Loops /\ LoopStart[l] \in Nodes
      /\ q.stack # <<>> /\ Top(q) \in Frame /\ q.stack \in Seq(Frame) /\ CopiesInv(q)
  BY AtBody, GraphAssumption DEF EndLoop, Request, Good
<1>2. CASE Goto(r, "catch")
  BY <1>1, <1>2, GotoInside, MoveKeepsIInv DEF EndLoop, InActivation
<1>3. CASE run' = [run EXCEPT ![r] = [q EXCEPT !.pc = "bodysave", !.row.loops[l] = 0]]
  <2>1. row \in Row /\ row.status = "running"
    BY <1>1 DEF Row
  <2>2. Coherent(row)
    BY <2>1 DEF Coherent, WaitingStatuses
  <2>3. [q EXCEPT !.pc = "bodysave", !.row = row]
           = [q EXCEPT !.pc = "bodysave", !.row.loops[l] = 0]
    BY <1>1 DEF Request
  <2> HIDE DEF row
  <2>4. Good([q EXCEPT !.pc = "bodysave", !.row = row])
    BY <1>1, <2>1, <2>2, BodySaveGood
  <2>5. QED
    BY <1>3, <2>3, <2>4, MoveKeepsIInv DEF EndLoop
<1>4. CASE run' = [run EXCEPT ![r] =
              Enter([q EXCEPT !.stack[Len(q.stack)].inner = TRUE], LoopStart[l])]
  <2>1. top \in Frame
    BY <1>1 DEF Frame
  <2>2. s \in Seq(Frame)
    <3> HIDE DEF top
    <3>1. QED
      BY <1>1, <2>1
  <2>3. [q EXCEPT !.stack[Len(q.stack)].inner = TRUE] = inner
    <3>1. s = [q.stack EXCEPT ![Len(q.stack)].inner = TRUE]
      BY DEF Top
    <3>2. QED
      BY <1>1, <3>1 DEF Request
  <2> HIDE DEF s
  <2>4. /\ inner \in Request /\ inner.row = q.row /\ inner.snapshot = q.snapshot
        /\ inner.queue = q.queue
    BY <1>1, <2>2 DEF Request
  <2> HIDE DEF inner
  <2>5. CopiesInv(inner)
    BY <1>1, <2>4 DEF CopiesInv
  <2>6. Good(Enter(inner, LoopStart[l]))
    BY <1>1, <2>4, <2>5, EnterGood
  <2>7. run' = [run EXCEPT ![r] = Enter(inner, LoopStart[l])]
    BY <1>4, <2>3
  <2>8. QED
    BY <2>6, <2>7, MoveKeepsIInv DEF EndLoop
<1>5. QED
  BY <1>2, <1>3, <1>4 DEF EndLoop

LEMMA SaveInBodyIInv == ASSUME IInv, NEW r \in Requests, SaveInBody(r) PROVE IInv'
<1> DEFINE q == run[r]
           n == IF TopType(q) = "end" THEN q.verdicts + 1 ELSE q.verdicts
           p == [q EXCEPT !.pc = "complete", !.verdicts = n]
<1>1. Good(q) /\ q \in Request /\ q.pc = "bodysave"
  BY DEF IInv, Good, SaveInBody
<1>2. n \in Nat
  BY <1>1 DEF Request
<1>3. run' = [run EXCEPT ![r] = p]
  BY DEF SaveInBody
<1> HIDE DEF n
<1>4. /\ p \in Request /\ p.pc = "complete" /\ p.row = q.row /\ p.stack = q.stack
      /\ p.snapshot = q.snapshot /\ p.queue = q.queue
  BY <1>1, <1>2 DEF Request, PCs
<1> HIDE DEF p
<1>5. Good(p)
  BY <1>1, <1>4 DEF Good, CopiesInv, PointInv, InActivation
<1>6. owed' \in [Executions -> Int]
  <2>1. owed \in [Executions -> Int] /\ q.exec \in Executions
    BY <1>1 DEF IInv, TypeOK, Request
  <2>2. owed' = [owed EXCEPT ![q.exec] =
                    IF TopType(q) \in WaitTypes THEN owed[q.exec] + 1 ELSE owed[q.exec]]
    BY DEF SaveInBody
  <2>3. QED
    BY <2>1, <2>2
<1>7. QED
  BY <1>3, <1>5, <1>6, SaveKeepsIInv DEF SaveInBody

LEMMA CompleteStepIInv == ASSUME IInv, NEW r \in Requests, CompleteStep(r) PROVE IInv'
<1>1. /\ Good([run[r] EXCEPT !.pc = "merge"])
      /\ run' = [run EXCEPT ![r] = [run[r] EXCEPT !.pc = "merge"]]
  BY GotoInside DEF CompleteStep, InActivation
<1>2. steps' \in Seq(StepStatus)
  <2>1. steps \in Seq(StepStatus) /\ "completed" \in StepStatus
    BY DEF IInv, TypeOK, StepStatus
  <2>2. QED
    BY <2>1, SeqUpdate DEF CompleteStep
<1>3. QED
  BY <1>1, <1>2, StepKeepsIInv DEF CompleteStep, IInv, TypeOK

LEMMA MergeResultIInv == ASSUME IInv, NEW r \in Requests, MergeResult(r) PROVE IInv'
<1> DEFINE q == run[r]
<1>1. Good(q) /\ q \in Request /\ CopiesInv(q) /\ owed \in [Executions -> Int]
  BY DEF IInv, Good, TypeOK
<1>2. CASE q.row.status = "running"
  <2>1. PICK p \in Continue(q, Top(q).node) : run' = [run EXCEPT ![r] = p]
    BY <1>2 DEF MergeResult
  <2>2. Good(p)
    BY <1>1, <1>2, <2>1, ContinueGood
  <2>3. QED
    BY <1>1, <2>1, <2>2, SaveKeepsIInv DEF MergeResult
<1>3. CASE q.row.status # "running"
  <2>1. run' = [run EXCEPT ![r] = Return(q)]
    BY <1>3 DEF MergeResult
  <2>2. QED
    BY <1>1, <2>1, ReturnGood, SaveKeepsIInv DEF MergeResult
<1>4. QED
  BY <1>2, <1>3

LEMMA FinishIInv == ASSUME IInv, NEW r \in Requests, FinishWithoutEdge(r) PROVE IInv'
<1>1. Good(run[r]) /\ run[r] \in Request /\ CopiesInv(run[r]) /\ owed \in [Executions -> Int]
  BY DEF IInv, Good, TypeOK
<1>2. run' = [run EXCEPT ![r] = Return(run[r])]
  BY DEF FinishWithoutEdge
<1>3. QED
  BY <1>1, <1>2, ReturnGood, SaveKeepsIInv DEF FinishWithoutEdge

LEMMA FailStepIInv == ASSUME IInv, NEW r \in Requests, FailStep(r) PROVE IInv'
<1> DEFINE q == run[r]
           row == [q.row EXCEPT !.status = "failed"]
           p == [q EXCEPT !.pc = "fail", !.row = row]
<1>1. Good(q) /\ q \in Request /\ q.row \in Row /\ run \in [Requests -> Request]
  BY DEF IInv, Good, Request, TypeOK
<1>2. row \in Row /\ row.status = "failed"
  BY <1>1 DEF Row, Statuses
<1>3. run' = [run EXCEPT ![r] = p]
  BY <1>1 DEF FailStep, Request
<1> HIDE DEF row
<1>4. /\ p \in Request /\ p.pc = "fail" /\ p.row = row
      /\ p.snapshot = q.snapshot /\ p.queue = q.queue
  BY <1>1, <1>2 DEF Request, PCs
<1> HIDE DEF p
<1>5. Good(p)
  BY <1>1, <1>2, <1>4
     DEF Good, CopiesInv, PointInv, InActivation, Coherent, WaitingStatuses
<1>6. steps' \in Seq(StepStatus)
  <2>1. steps \in Seq(StepStatus) /\ "failed" \in StepStatus
    BY DEF IInv, TypeOK, StepStatus
  <2>2. QED
    BY <2>1, SeqUpdate DEF FailStep
<1>7. QED
  BY <1>3, <1>5, <1>6, StepKeepsIInv DEF FailStep, IInv, TypeOK

LEMMA FailExecutionIInv ==
    ASSUME IInv, NEW r \in Requests, FailExecution(r) PROVE IInv'
<1> DEFINE q == run[r]
           n == q.verdicts + 1
           p == [q EXCEPT !.verdicts = n]
<1>1. q \in Request /\ CopiesInv(q) /\ owed \in [Executions -> Int]
  BY DEF IInv, Good, TypeOK
<1>2. n \in Nat
  BY <1>1 DEF Request
<1>3. run' = [run EXCEPT ![r] = Return(p)]
  BY DEF FailExecution
<1> HIDE DEF n
<1>4. p \in Request /\ p.row = q.row /\ p.snapshot = q.snapshot /\ p.queue = q.queue
  BY <1>1, <1>2 DEF Request
<1> HIDE DEF p
<1>5. Good(Return(p))
  BY <1>1, <1>4, ReturnGood DEF CopiesInv
<1>6. QED
  BY <1>1, <1>3, <1>5, SaveKeepsIInv DEF FailExecution

LEMMA ReturnToCallerIInv ==
    ASSUME IInv, NEW r \in Requests, ReturnToCaller(r) PROVE IInv'
<1> DEFINE q == run[r]
           top == [Top(q) EXCEPT !.inner = FALSE]
           s == [q.stack EXCEPT ![Len(q.stack)] = top]
           p == [q EXCEPT !.pc = "complete", !.stack = s]
<1>1. Good(q) /\ q \in Request /\ CopiesInv(q) /\ q.stack \in Seq(Frame)
  BY DEF IInv, Good, Request
<1>2. CASE q.stack = <<>>
  <2> DEFINE c == IF q.op = "event" THEN "events" ELSE "done"
  <2>1. run' = [run EXCEPT ![r] = [q EXCEPT !.pc = c]]
    BY <1>2 DEF ReturnToCaller
  <2>2. Good([q EXCEPT !.pc = c])
    BY <1>1, EndGood
  <2>3. QED
    BY <2>1, <2>2, MoveKeepsIInv DEF ReturnToCaller
<1>3. CASE q.stack # <<>> /\ Top(q).inner
  <2>1. Top(q) \in Frame
    BY <1>1, <1>3, TopIsFrame
  <2>2. top \in Frame
    BY <2>1 DEF Frame
  <2>3. run' = [run EXCEPT ![r] = p]
    <3>1. s = [q.stack EXCEPT ![Len(q.stack)].inner = FALSE]
      BY DEF Top
    <3>2. p = [q EXCEPT !.pc = "complete", !.stack[Len(q.stack)].inner = FALSE]
      BY <1>1, <3>1 DEF Request
    <3>3. QED
      BY <1>3, <3>2 DEF ReturnToCaller
  <2>4. s \in Seq(Frame) /\ s # <<>>
    <3> HIDE DEF top
    <3>1. Len(q.stack) \in 1..Len(q.stack)
      BY <1>1, <1>3
    <3>2. s \in Seq(Frame) /\ Len(s) = Len(q.stack) /\ s[Len(s)] = top
      BY <1>1, <2>2, <3>1
    <3>3. QED
      BY <3>1, <3>2
  <2> HIDE DEF s
  <2>5. /\ p \in Request /\ p.pc = "complete" /\ p.row = q.row /\ p.stack = s
        /\ p.snapshot = q.snapshot /\ p.queue = q.queue
    BY <1>1, <2>4 DEF Request, PCs
  <2> HIDE DEF p
  <2>6. Good(p)
    BY <1>1, <2>4, <2>5 DEF Good, CopiesInv, PointInv, InActivation
  <2>7. QED
    BY <2>3, <2>6, MoveKeepsIInv DEF ReturnToCaller
<1>4. CASE q.stack # <<>> /\ ~Top(q).inner
  <2>1. run' = [run EXCEPT ![r] = Return(q)]
    BY <1>4 DEF ReturnToCaller
  <2>2. QED
    BY <1>1, <2>1, ReturnGood, MoveKeepsIInv DEF ReturnToCaller
<1>5. QED
  BY <1>2, <1>3, <1>4

-----------------------------------------------------------------------------
(* The environment keeps the invariant *)

LEMMA WriteFailsIInv == ASSUME IInv, NEW r \in Requests, WriteFails(r) PROVE IInv'
<1> DEFINE q == run[r]
<1>1. /\ Good(q) /\ q \in Request /\ CopiesInv(q) /\ q.stack \in Seq(Frame)
      /\ Pop(q.stack) \in Seq(Frame)
  BY PopType DEF IInv, Good, Request
<1>2. /\ faults' \in 0..MaxFaults /\ db' \in [Executions -> Row]
      /\ \A e \in Executions : Coherent(db'[e])
      /\ steps' \in Seq(StepStatus) /\ version' \in 1..Versions
      /\ owed' \in [Executions -> Int] /\ crashes' \in 0..MaxCrashes
  <2>1. faults \in 0..MaxFaults /\ faults < MaxFaults /\ faults' = faults + 1
    BY DEF IInv, TypeOK, WriteFails
  <2>2. faults' \in 0..MaxFaults
    BY <2>1, GraphAssumption
  <2>3. QED
    BY <2>2 DEF IInv, TypeOK, WriteFails, StepStatus
<1>3. \E p : Good(p) /\ run' = [run EXCEPT ![r] = p]
  <2>1. CASE run' = [run EXCEPT ![r] = Throw(q, q.stack)]
    BY <1>1, <2>1, ThrowGood
  <2>2. CASE run' = [run EXCEPT ![r] = Throw(q, Pop(q.stack))]
    BY <1>1, <2>2, ThrowGood
  <2>3. CASE Goto(r, "rejected")
    BY <1>1, <2>3, EndGood DEF Goto
  <2>4. QED
    BY <2>1, <2>2, <2>3 DEF WriteFails
<1>4. QED
  BY <1>2, <1>3, StepKeepsIInv

LEMMA CrashIInv == ASSUME IInv, Crash PROVE IInv'
<1>1. \A r \in Requests : Good(run'[r])
  <2> SUFFICES ASSUME NEW r \in Requests PROVE Good(run'[r])
    OBVIOUS
  <2>1. Good(run[r])
    BY DEF IInv
  <2>2. run'[r] = IF Live(r) THEN [run[r] EXCEPT !.pc = "lost"] ELSE run[r]
    BY DEF Crash
  <2>3. QED
    BY <2>1, <2>2, EndGood
<1>2. run' \in [Requests -> Request]
  <2>1. DOMAIN run' = Requests /\ run' = [r \in Requests |-> run'[r]]
    BY DEF Crash
  <2>2. QED
    BY <1>1, <2>1 DEF Good
<1>3. crashes' \in 0..MaxCrashes
  BY GraphAssumption DEF IInv, TypeOK, Crash
<1>4. TypeOK'
  BY <1>2, <1>3 DEF IInv, TypeOK, Crash
<1>5. QED
  BY <1>1, <1>4 DEF IInv, Crash

LEMMA UpdateWorkflowIInv == ASSUME IInv, UpdateWorkflow PROVE IInv'
<1>1. version' \in 1..Versions
  BY GraphAssumption DEF IInv, TypeOK, UpdateWorkflow
<1>2. QED
  BY <1>1 DEF IInv, TypeOK, UpdateWorkflow

LEMMA NextIInv == ASSUME IInv, [Next]_vars PROVE IInv'
<1>1. CASE UNCHANGED vars
  BY <1>1 DEF vars, IInv, TypeOK
<1>2. ASSUME NEW r \in Requests, Begin(r) PROVE IInv'
  BY <1>2, ExecuteIInv, LoadToResumeIInv, LoadWaitingIInv, LoadToCancelIInv DEF Begin
<1>3. ASSUME NEW r \in Requests, Advance(r) PROVE IInv'
  BY <1>3, NextWaitingIInv, ResumeIInv, CancelIInv, SaveCurrentNodeIInv, CreateStepIInv,
     RunTaskIInv, SetStatusIInv, StartLoopIInv, CheckLoopIInv, EndLoopIInv,
     SaveInBodyIInv, CompleteStepIInv, MergeResultIInv, FinishIInv, FailStepIInv,
     FailExecutionIInv, ReturnToCallerIInv DEF Advance
<1>4. QED
  BY <1>1, <1>2, <1>3, WriteFailsIInv, CrashIInv, UpdateWorkflowIInv DEF Next

-----------------------------------------------------------------------------
(* The theorems *)

LEMMA Invariance == Spec => []IInv
<1>1. Init => IInv
  BY InitIInv
<1>2. IInv /\ [Next]_vars => IInv'
  BY NextIInv
<1>3. QED
  BY <1>1, <1>2, PTL DEF Spec

\* Type correctness: whatever the graph and however requests, failures and
\* restarts interleave, rows, copies, stacks and steps keep their types
THEOREM TypeCorrect == Spec => []TypeOK
<1>1. IInv => TypeOK
  BY DEF IInv
<1>2. QED
  BY <1>1, Invariance, PTL

\* A stored WAITING_* status always fits the stored current node: an answer
\* can never resume an execution from a node that does not wait for it
THEOREM WaitingCoherent == Spec => []WaitingAtWaitNode
<1>1. IInv => WaitingAtWaitNode
  BY DEF IInv, WaitingAtWaitNode, Coherent
<1>2. QED
  BY <1>1, Invariance, PTL

=============================================================================
