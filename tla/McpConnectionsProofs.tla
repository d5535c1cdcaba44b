-------------------------- MODULE McpConnectionsProofs --------------------------
(***************************************************************************)
(* For every number of requests, tools, failures, lost connections and     *)
(* restarts: the types, and that the map never holds a closed connection,  *)
(* whatever overlaps; for requests that do not overlap, that the names of  *)
(* the tools stay distinct, that no client leaks and that the stored       *)
(* status says whether there is a connection.                              *)
(***************************************************************************)
EXTENDS McpConnections, SequenceTheorems, TLAPS

\* The method a request executes fits the point where it waits
PointOK(q) ==
    /\ q.pc \in {"announce", "final", "error", "findname"} => Head(q.plan) = "connect"
    /\ q.pc = "load" => Head(q.plan) # "health"
    /\ q.pc = "close" => Head(q.plan) \in {"connect", "disconnect", "remove"}
    /\ q.pc = "open" => Head(q.plan) \in {"connect", "health"}
    /\ q.pc \in {"list", "clear", "insert"} => Head(q.plan) \in {"connect", "sync"}
    /\ q.pc = "insert" => q.left \in 1..Offered
    /\ q.pc = "inactive" => Head(q.plan) = "disconnect"
    /\ q.pc = "update" => Head(q.plan) = "update"
    /\ q.pc \in {"deltools", "remove"} => Head(q.plan) = "remove"
    /\ q.pc = "health" => Head(q.plan) = "health"

\* After its first method a request only disconnects and connects
PlanOK(q) ==
    /\ q.pc \notin Ended => q.plan # <<>>
    /\ \A i \in 2..Len(q.plan) : q.plan[i] \in {"connect", "disconnect"}

Proper(q) == q \in Request /\ PlanOK(q) /\ PointOK(q)

\* The inductive strengthening of the types
IInv == TypeOK /\ \A r \in Requests : Proper(run[r])

-----------------------------------------------------------------------------
(* The operators the actions are built from *)

LEMMA IdleProper == IdleRequest \in Request /\ Proper(IdleRequest)
BY DEF IdleRequest, Request, PCs, Statuses, NoRow, Proper, PlanOK, PointOK, Ended, Methods

\* A request that is answered is proper
LEMMA FinishProper ==
    ASSUME NEW answer \in Ended
    PROVE  Proper(Finish(answer)) /\ Finish(answer).pc = answer
BY IdleProper DEF Finish, IdleRequest, Request, PCs, Statuses, NoRow, Proper, PlanOK, PointOK,
    Ended, Methods

LEMMA HeadIsMethod ==
    ASSUME NEW q, Proper(q), q.pc \notin Ended
    PROVE  Head(q.plan) \in Methods /\ q.plan \in Seq(Methods) /\ q.plan # <<>>
<1>1. q.plan \in Seq(Methods) /\ q.plan # <<>>
  BY DEF Proper, Request, PlanOK
<1>2. QED
  BY <1>1

LEMMA BecomeProper ==
    ASSUME run \in [Requests -> Request], \A x \in Requests : Proper(run[x]),
           NEW r \in Requests, NEW q, Proper(q), Become(r, q)
    PROVE  /\ run' \in [Requests -> Request]
           /\ \A x \in Requests : Proper(run'[x])
           /\ run'[r] = q
           /\ \A x \in Requests \ {r} : run'[x] = run[x]
<1>1. q \in Request
  BY DEF Proper
<1>2. run' = [run EXCEPT ![r] = q]
  BY DEF Become
<1>3. QED
  BY <1>1, <1>2

\* A request that keeps its plan is proper where its point allows
LEMMA StayProper ==
    ASSUME NEW q, NEW p, Proper(q), q.pc \notin Ended, p \in Request, p.plan = q.plan, PointOK(p)
    PROVE  Proper(p)
BY DEF Proper, PlanOK

LEMMA SyncedProper ==
    ASSUME NEW q, Proper(q), q.pc \in {"list", "clear", "insert", "load"}
    PROVE  Proper(Synced(q)) /\ Synced(q).pc \in {"final", "done"}
<1>1. CASE Head(q.plan) = "connect"
  <2> DEFINE p == [q EXCEPT !.pc = "final", !.left = 0]
  <2>1. Synced(q) = p
    BY <1>1 DEF Synced
  <2>2. p \in Request /\ p.plan = q.plan /\ p.pc = "final"
    BY DEF Proper, Request, PCs
  <2> HIDE DEF p
  <2>3. PointOK(p) /\ q.pc \notin Ended
    BY <1>1, <2>2 DEF PointOK, Ended
  <2>4. QED
    BY <2>1, <2>2, <2>3, StayProper
<1>2. CASE Head(q.plan) # "connect"
  BY <1>2, FinishProper DEF Synced, Ended
<1>3. QED
  BY <1>1, <1>2

LEMMA DisconnectedProper ==
    ASSUME NEW q, Proper(q), q.pc \in {"load", "close"}, Head(q.plan) \in {"disconnect", "remove"}
    PROVE  /\ Proper(Disconnected(q))
           /\ Disconnected(q).pc \in {"inactive", "deltools"}
BY DEF Disconnected, Proper, Request, PCs, PlanOK, PointOK, Ended, Statuses, NoRow

LEMMA CallingProper ==
    ASSUME NEW q, Proper(q), q.pc \notin Ended
    PROVE  Proper(Calling(q)) /\ Calling(q).pc \in {"calling", "rejected"}
<1>1. CASE conn = 0
  BY <1>1, FinishProper DEF Calling, Ended
<1>2. CASE conn # 0
  BY <1>2 DEF Calling, Proper, Request, PCs, PlanOK, PointOK, Ended
<1>3. QED
  BY <1>1, <1>2

LEMMA TailPlan ==
    ASSUME NEW plan \in Seq(Methods), plan # <<>>, Len(plan) # 1,
           \A i \in 2..Len(plan) : plan[i] \in {"connect", "disconnect"}
    PROVE  /\ Tail(plan) \in Seq(Methods) /\ Tail(plan) # <<>>
           /\ \A i \in 1..Len(Tail(plan)) : Tail(plan)[i] \in {"connect", "disconnect"}
           /\ Head(Tail(plan)) \in {"connect", "disconnect"}
<1>1. Len(plan) \in Nat /\ Len(plan) # 0
  OBVIOUS
<1>2. Len(plan) >= 2
  <2>1. \A n \in Nat : n # 0 /\ n # 1 => n >= 2
    OBVIOUS
  <2>2. QED
    BY <1>1, <2>1
<1>3. /\ Tail(plan) \in Seq(Methods) /\ Len(Tail(plan)) = Len(plan) - 1
      /\ \A i \in 1..Len(Tail(plan)) : Tail(plan)[i] = plan[i + 1]
  OBVIOUS
<1> DEFINE t == Tail(plan)
<1>4. \A i \in 1..Len(t) : t[i] \in {"connect", "disconnect"}
  BY <1>1, <1>2, <1>3
<1>5. t \in Seq(Methods) /\ Len(t) >= 1
  BY <1>1, <1>2, <1>3
<1> HIDE DEF t
<1>6. t # <<>> /\ Head(t) = t[1] /\ 1 \in 1..Len(t)
  BY <1>5
<1>7. QED
  BY <1>4, <1>5, <1>6 DEF t

LEMMA NextMethodProper ==
    ASSUME NEW q, Proper(q), q.pc \in {"inactive", "update"}
    PROVE  Proper(NextMethod(q)) /\ NextMethod(q).pc \in {"load", "done"}
<1>1. CASE Len(q.plan) = 1
  BY <1>1, FinishProper DEF NextMethod, Ended
<1>2. CASE Len(q.plan) # 1
  <2> DEFINE t == Tail(q.plan)
             p == [q EXCEPT !.plan = t, !.pc = "load"]
  <2>1. /\ q.plan \in Seq(Methods) /\ q.plan # <<>>
        /\ \A i \in 2..Len(q.plan) : q.plan[i] \in {"connect", "disconnect"}
    BY DEF Proper, Request, PlanOK, Ended
  <2>2. /\ t \in Seq(Methods) /\ t # <<>> /\ Head(t) \in {"connect", "disconnect"}
        /\ \A i \in 1..Len(t) : t[i] \in {"connect", "disconnect"}
    BY <1>2, <2>1, TailPlan
  <2>3. NextMethod(q) = p
    BY <1>2 DEF NextMethod
  <2> HIDE DEF t
  <2>4. p \in Request /\ p.plan = t /\ p.pc = "load"
    BY <2>2 DEF Proper, Request, PCs
  <2> HIDE DEF p
  <2>5. \A i \in 2..Len(t) : t[i] \in {"connect", "disconnect"}
    BY <2>2
  <2>6. PlanOK(p)
    BY <2>2, <2>4, <2>5 DEF PlanOK
  <2>7. PointOK(p)
    BY <2>2, <2>4 DEF PointOK
  <2>8. QED
    BY <2>3, <2>4, <2>6, <2>7 DEF Proper
<1>3. QED
  BY <1>1, <1>2

LEMMA BeginsProper ==
    ASSUME IInv, NEW r \in Requests, NEW op \in DOMAIN Plan,
           NEW point \in {"load", "findname", "health"},
           point = "health" <=> op = "health", point = "findname" <=> op = "callByName",
           Begins(r, op, point)
    PROVE  /\ run' \in [Requests -> Request]
           /\ \A x \in Requests : Proper(run'[x])
           /\ overlapped' \in BOOLEAN
           /\ run'[r] = [IdleRequest EXCEPT !.op = op, !.pc = point, !.plan = Plan[op]]
           /\ \A x \in Requests \ {r} : run'[x] = run[x]
<1> DEFINE q == [IdleRequest EXCEPT !.op = op, !.pc = point, !.plan = Plan[op]]
<1>1. /\ Plan[op] \in Seq(Methods) /\ Plan[op] # <<>>
      /\ \A i \in 2..Len(Plan[op]) : Plan[op][i] \in {"connect", "disconnect"}
      /\ (Head(Plan[op]) = "health") <=> (op = "health")
      /\ op = "callByName" => Head(Plan[op]) = "connect"
  <2>1. op \in {"create", "connect", "disconnect", "reconnect", "rename", "update", "remove",
                "sync", "call", "callByName", "health"}
    BY DEF Plan
  <2>2. CASE op = "create"
    BY <2>2 DEF Plan, Methods
  <2>7. CASE op = "connect"
    BY <2>7 DEF Plan, Methods
  <2>8. CASE op = "callByName"
    BY <2>8 DEF Plan, Methods
  <2>3. CASE op \in {"disconnect", "rename", "remove", "sync", "call", "health"}
    BY <2>3 DEF Plan, Methods
  <2>4. CASE op = "reconnect"
    BY <2>4 DEF Plan, Methods
  <2>5. CASE op = "update"
    BY <2>5 DEF Plan, Methods
  <2>6. QED
    BY <2>1, <2>2, <2>3, <2>4, <2>5, <2>7, <2>8
<1>2. Proper(q)
  BY <1>1 DEF IdleRequest, Proper, Request, PCs, PlanOK, PointOK, Ended, Statuses, NoRow
<1>3. overlapped' \in BOOLEAN
  BY DEF Begins, IInv, TypeOK
<1>4. Become(r, q)
  BY DEF Begins
<1> HIDE DEF q
<1>5. QED
  BY <1>2, <1>3, <1>4, BecomeProper DEF IInv, TypeOK, q

-----------------------------------------------------------------------------
(* The types, action by action *)

LEMMA SaveType ==
    ASSUME IInv, NEW r \in Requests, Save(r)
    PROVE  row' \in Statuses /\ tools' \in Seq(Tool)
<1>1. run[r] \in Request /\ tools \in Seq(Tool)
  BY DEF IInv, TypeOK
<1>2. row' \in Statuses
  BY <1>1 DEF Save, Request
<1>3. DOMAIN tools = 1..Len(tools) /\ Len(tools) \in Nat /\ \A i \in 1..Len(tools) : tools[i] \in Tool
  BY <1>1
<1>4. \A t \in Tool : \A a \in {"linked", "detached"} : [t EXCEPT !.at = a] \in Tool
  BY DEF Tool
<1> DEFINE saved(i) == IF tools[i].at = "deleted" THEN tools[i]
                       ELSE [tools[i] EXCEPT !.at = IF i \in run[r].tools THEN "linked" ELSE "detached"]
<1>5. \A i \in 1..Len(tools) : saved(i) \in Tool
  BY <1>3, <1>4
<1>6. tools' = [i \in 1..Len(tools) |-> saved(i)]
  BY <1>3 DEF Save
<1> HIDE DEF saved
<1>7. tools' \in Seq(Tool)
  BY <1>3, <1>5, <1>6
<1>8. QED
  BY <1>2, <1>7

LEMMA OpenType ==
    ASSUME IInv, NEW r \in Requests, NEW base \in Seq(Clients), Open(r, base),
           run[r].pc \notin Ended, Head(run[r].plan) \in {"connect", "health"}
    PROVE  /\ run' \in [Requests -> Request] /\ \A x \in Requests : Proper(run'[x])
           /\ links' \in Seq(Clients) /\ Len(links') = Len(base) + 1
           /\ links'[Len(base) + 1] = "opening"
           /\ \A k \in 1..Len(base) : links'[k] = base[k]
           /\ run'[r] = [run[r] EXCEPT !.pc = "open", !.link = Len(base) + 1]
           /\ \A x \in Requests \ {r} : run'[x] = run[x]
<1> DEFINE q == [run[r] EXCEPT !.pc = "open", !.link = Len(base) + 1]
<1>1. Proper(run[r])
  BY DEF IInv
<1>2. Proper(q)
  <2>1. Len(base) + 1 \in Nat
    OBVIOUS
  <2>2. q \in Request
    BY <1>1, <2>1 DEF Proper, Request, PCs
  <2>3. q.plan = run[r].plan /\ q.pc = "open"
    BY <1>1 DEF Proper, Request
  <2>4. QED
    BY <1>1, <2>2, <2>3 DEF Proper, PlanOK, PointOK
<1>3. Become(r, q) /\ links' = Append(base, "opening")
  BY DEF Open
<1>4. "opening" \in Clients
  BY DEF Clients
<1>5. /\ links' \in Seq(Clients) /\ Len(links') = Len(base) + 1
      /\ links'[Len(base) + 1] = "opening"
      /\ \A k \in 1..Len(base) : links'[k] = base[k]
  BY <1>3, <1>4
<1> HIDE DEF q
<1>6. QED
  BY <1>2, <1>3, <1>5, BecomeProper DEF IInv, TypeOK, q

\* What a step must show of the types
LEMMA StepType ==
    ASSUME run' \in [Requests -> Request], \A x \in Requests : Proper(run'[x]),
           row' \in Statuses, tools' \in Seq(Tool), links' \in Seq(Clients),
           conn' \in 0..Len(links'), overlapped' \in BOOLEAN,
           faults' \in 0..MaxFaults, losses' \in 0..MaxLosses, crashes' \in 0..MaxCrashes
    PROVE  IInv'
<1>1. TypeOK'
  BY DEF TypeOK
<1>2. (\A x \in Requests : Proper(run[x]))'
  BY DEF Proper, PlanOK, PointOK
<1>3. QED
  BY <1>1, <1>2 DEF IInv

LEMMA BecomeType ==
    ASSUME IInv, NEW r \in Requests, NEW q, Proper(q), Become(r, q),
           row' \in Statuses, tools' \in Seq(Tool), links' \in Seq(Clients),
           conn' \in 0..Len(links'), UNCHANGED environment
    PROVE  IInv'
<1>1. run' \in [Requests -> Request] /\ \A x \in Requests : Proper(run'[x])
  BY BecomeProper DEF IInv, TypeOK
<1>2. /\ overlapped' \in BOOLEAN
      /\ faults' \in 0..MaxFaults /\ losses' \in 0..MaxLosses /\ crashes' \in 0..MaxCrashes
  BY DEF IInv, TypeOK, environment
<1>3. QED
  BY <1>1, <1>2, StepType

LEMMA Current ==
    ASSUME IInv, NEW r \in Requests
    PROVE  /\ Proper(run[r]) /\ run[r] \in Request
           /\ row \in Statuses /\ tools \in Seq(Tool) /\ links \in Seq(Clients)
           /\ conn \in 0..Len(links) /\ Linked \in SUBSET Nat
<1>1. tools \in Seq(Tool)
  BY DEF IInv, TypeOK
<1>2. Linked \in SUBSET Nat
  BY <1>1 DEF Linked
<1>3. QED
  BY <1>1, <1>2 DEF IInv, TypeOK, Proper

LEMMA LoadServerType ==
    ASSUME IInv, NEW r \in Requests, LoadServer(r)
    PROVE  IInv'
<1> DEFINE q == run[r]
           copy == [q EXCEPT !.status = row, !.tools = Linked]
           method == Head(q.plan)
           kept == IF method = "disconnect" THEN copy ELSE q
<1>1. Proper(q) /\ q \in Request /\ q.pc = "load" /\ q.pc \notin Ended
  BY Current DEF LoadServer, Ended
<1>2. method \in Methods \ {"health"}
  BY <1>1, HeadIsMethod DEF Proper, PointOK
<1>3. copy \in Request /\ copy.plan = q.plan /\ copy.pc = q.pc /\ Proper(copy)
  <2>1. copy \in Request /\ copy.plan = q.plan /\ copy.pc = q.pc
    BY <1>1, Current DEF Request
  <2>2. QED
    BY <1>1, <2>1 DEF Proper, PlanOK, PointOK
<1>4. UNCHANGED <<row, tools, links, conn, environment>>
  BY DEF LoadServer
<1> DEFINE p == Loaded(q)
<1> SUFFICES Proper(p)
  BY <1>4, Current, BecomeType DEF LoadServer
<1> HIDE DEF copy
<1>5. CASE row \in NoRow
  BY <1>5, FinishProper DEF Ended, Loaded
<1>6. CASE row \notin NoRow /\ method = "connect"
  <2>1. p = [copy EXCEPT !.pc = "announce", !.status = "connecting"]
    BY <1>6 DEF Loaded, copy
  <2>2. p \in Request /\ p.plan = q.plan /\ p.pc = "announce"
    BY <1>3, <2>1 DEF Request, PCs, Statuses
  <2>3. PointOK(p)
    BY <1>6, <2>2 DEF PointOK
  <2>4. QED
    BY <1>1, <2>2, <2>3, StayProper
<1>7. CASE row \notin NoRow /\ method = "update"
  <2>1. p = [copy EXCEPT !.pc = "update"]
    BY <1>7 DEF Loaded, copy
  <2>2. p \in Request /\ p.plan = q.plan /\ p.pc = "update"
    BY <1>3, <2>1 DEF Request, PCs
  <2>3. PointOK(p)
    BY <1>7, <2>2 DEF PointOK
  <2>4. QED
    BY <1>1, <2>2, <2>3, StayProper
<1>8. CASE row \notin NoRow /\ method \in {"disconnect", "remove"}
  <2>1. Proper(kept) /\ kept \in Request /\ kept.plan = q.plan /\ kept.pc = "load"
    BY <1>1, <1>3
  <2>2. p = IF conn = 0 THEN Disconnected(kept) ELSE [kept EXCEPT !.pc = "close", !.link = conn]
    BY <1>8 DEF Loaded, copy
  <2> HIDE DEF kept, p
  <2>3. CASE conn = 0
    BY <1>8, <2>1, <2>2, <2>3, DisconnectedProper
  <2>4. CASE conn # 0
    <3>1. p = [kept EXCEPT !.pc = "close", !.link = conn] /\ conn \in Nat
      <4>1. conn \in Nat
        BY Current
      <4>2. QED
        BY <2>2, <2>4, <4>1
    <3>2. p \in Request /\ p.plan = q.plan /\ p.pc = "close"
      BY <2>1, <3>1 DEF Request, PCs
    <3>3. PointOK(p)
      BY <1>8, <3>2 DEF PointOK
    <3>4. QED
      BY <1>1, <3>2, <3>3, StayProper
  <2>5. QED
    BY <2>3, <2>4
<1>9. CASE row \notin NoRow /\ method \in {"sync", "call"}
  <2>1. CASE conn = 0
    <3>1. p = Finish("done") \/ p = Finish("rejected")
      BY <1>9, <2>1 DEF Loaded
    <3>2. QED
      BY <3>1, FinishProper DEF Ended
  <2>2. CASE conn # 0
    <3> DEFINE point == IF method = "sync" THEN "list" ELSE "findtool"
    <3>1. p = [q EXCEPT !.pc = point]
      BY <1>9, <2>2 DEF At, Loaded
    <3>2. p \in Request /\ p.plan = q.plan /\ p.pc = point
      BY <1>1, <3>1 DEF Request, PCs
    <3>3. PointOK(p)
      BY <1>9, <3>2 DEF PointOK
    <3>4. QED
      BY <1>1, <3>2, <3>3, StayProper
  <2>3. QED
    BY <2>1, <2>2
<1>10. QED
  BY <1>2, <1>5, <1>6, <1>7, <1>8, <1>9 DEF Methods

LEMMA CreateServerType ==
    ASSUME IInv, NEW r \in Requests, CreateServer(r)
    PROVE  IInv'
<1>1. "create" \in DOMAIN Plan
  BY DEF Plan
<1>2. run' \in [Requests -> Request] /\ (\A x \in Requests : Proper(run'[x])) /\ overlapped' \in BOOLEAN
  BY <1>1, BeginsProper DEF CreateServer
<1>3. row' \in Statuses
  BY DEF CreateServer, Statuses
<1>4. QED
  BY <1>2, <1>3, StepType DEF CreateServer, IInv, TypeOK

LEMMA CallServiceType ==
    ASSUME IInv, NEW r \in Requests, CallService(r)
    PROVE  IInv'
<1>1. \A op \in {"connect", "disconnect", "reconnect", "rename", "update", "remove", "sync",
                 "call", "callByName", "health"} : op \in DOMAIN Plan
  BY DEF Plan
<1>2. PICK op \in DOMAIN Plan, point \in {"load", "findname", "health"} :
        /\ Begins(r, op, point)
        /\ point = "health" <=> op = "health"
        /\ point = "findname" <=> op = "callByName"
  BY <1>1 DEF CallService
<1>3. run' \in [Requests -> Request] /\ (\A x \in Requests : Proper(run'[x])) /\ overlapped' \in BOOLEAN
  BY <1>2, BeginsProper
<1>4. QED
  BY <1>3, StepType DEF CallService, IInv, TypeOK

LEMMA AnnounceType ==
    ASSUME IInv, NEW r \in Requests, Announce(r)
    PROVE  IInv'
<1>1. row' \in Statuses /\ tools' \in Seq(Tool) /\ UNCHANGED <<conn, environment>>
  BY SaveType DEF Announce
<1>2. Proper(run[r]) /\ run[r] \in Request /\ run[r].pc \notin Ended /\ Head(run[r].plan) = "connect"
  BY Current DEF Announce, Proper, PointOK, Ended
<1>3. CASE conn = 0
  <2>1. Open(r, links) /\ links \in Seq(Clients)
    BY <1>3, Current DEF Announce
  <2>2. /\ run' \in [Requests -> Request] /\ \A x \in Requests : Proper(run'[x])
        /\ links' \in Seq(Clients)
    BY <1>2, <2>1, OpenType
  <2>3. conn' \in 0..Len(links')
    BY <1>1, <1>3, <2>2
  <2>4. QED
    BY <1>1, <2>2, <2>3, StepType DEF IInv, TypeOK, environment
<1>4. CASE conn # 0
  <2> DEFINE q == [run[r] EXCEPT !.pc = "close", !.link = conn]
  <2>1. Become(r, q) /\ links' = links /\ conn \in Nat
    BY <1>4, Current DEF Announce
  <2>2. q \in Request /\ q.plan = run[r].plan /\ q.pc = "close"
    BY <1>2, <2>1 DEF Request, PCs
  <2> HIDE DEF q
  <2>3. PointOK(q)
    BY <1>2, <2>2 DEF PointOK
  <2>4. Proper(q)
    BY <1>2, <2>2, <2>3, StayProper
  <2>5. QED
    BY <1>1, <2>1, <2>4, BecomeType, Current
<1>5. QED
  BY <1>3, <1>4

LEMMA SetLink ==
    ASSUME NEW base \in Seq(Clients), NEW k, NEW c \in Clients
    PROVE  /\ [base EXCEPT ![k] = c] \in Seq(Clients)
           /\ Len([base EXCEPT ![k] = c]) = Len(base)
           /\ \A i \in 1..Len(base) : [base EXCEPT ![k] = c][i] = IF i = k THEN c ELSE base[i]
<1> DEFINE f == [base EXCEPT ![k] = c]
<1>1. Len(base) \in Nat /\ DOMAIN base = 1..Len(base) /\ \A i \in 1..Len(base) : base[i] \in Clients
  OBVIOUS
<1>2. f = [i \in 1..Len(base) |-> IF i = k THEN c ELSE base[i]]
  BY <1>1
<1> HIDE DEF f
<1>3. \A i \in 1..Len(base) : f[i] \in Clients
  BY <1>1, <1>2
<1>4. f \in Seq(Clients) /\ Len(f) = Len(base)
  BY <1>1, <1>2, <1>3
<1>5. QED
  BY <1>2, <1>4 DEF f

\* Whether close succeeds or not, the request goes on
LEMMA CloseLinkType ==
    ASSUME IInv, NEW r \in Requests, CloseLink(r)
    PROVE  IInv'
<1> DEFINE closed == [links EXCEPT ![run[r].link] = "closed"]
<1>1. /\ Proper(run[r]) /\ run[r].pc = "close" /\ run[r].pc \notin Ended
      /\ Head(run[r].plan) \in {"connect", "disconnect", "remove"}
  BY Current DEF CloseLink, Proper, PointOK, Ended
<1>2. closed \in Seq(Clients) /\ links \in Seq(Clients)
  BY Current, SetLink DEF Clients
<1>3. UNCHANGED <<row, tools, overlapped, losses, crashes>> /\ faults' \in 0..MaxFaults
  BY McpAssumption DEF CloseLink, IInv, TypeOK
<1>4. PICK base \in {closed, links} :
        /\ conn' = 0 \/ (conn' = conn /\ base = links)
        /\ IF Head(run[r].plan) = "connect" THEN Open(r, base)
           ELSE Become(r, Disconnected(run[r])) /\ links' = base
  BY DEF CloseLink
<1>5. /\ run' \in [Requests -> Request] /\ \A x \in Requests : Proper(run'[x])
      /\ links' \in Seq(Clients) /\ Len(links') >= Len(base)
  <2>1. base \in Seq(Clients) /\ Len(base) \in Nat
    BY <1>2
  <2>2. CASE Head(run[r].plan) = "connect"
    <3>1. Open(r, base)
      BY <1>4, <2>2
    <3>2. /\ run' \in [Requests -> Request] /\ \A x \in Requests : Proper(run'[x])
          /\ links' \in Seq(Clients) /\ Len(links') = Len(base) + 1
      BY <1>1, <2>1, <2>2, <3>1, OpenType
    <3>3. QED
      BY <2>1, <3>2
  <2>3. CASE Head(run[r].plan) # "connect"
    <3>1. Proper(Disconnected(run[r]))
      BY <1>1, <2>3, DisconnectedProper
    <3>2. Become(r, Disconnected(run[r])) /\ links' = base
      BY <1>4, <2>3
    <3>3. QED
      BY <2>1, <3>1, <3>2, BecomeProper DEF IInv, TypeOK
  <2>4. QED
    BY <2>2, <2>3
<1>6. conn' \in 0..Len(links')
  <2>1. Len(links') \in Nat /\ Len(links) \in Nat /\ conn \in 0..Len(links)
    BY <1>5, Current
  <2>2. QED
    BY <1>4, <1>5, <2>1
<1>7. QED
  BY <1>3, <1>5, <1>6, StepType DEF IInv, TypeOK

LEMMA OpenLinkType ==
    ASSUME IInv, NEW r \in Requests, OpenLink(r), run[r].link \in 1..Len(links)
    PROVE  IInv'
<1> DEFINE q == run[r]
           p == [q EXCEPT !.pc = "list", !.status = "active", !.link = 0]
<1>1. /\ Proper(q) /\ q \in Request /\ q.pc = "open" /\ q.pc \notin Ended
      /\ Head(q.plan) \in {"connect", "health"}
  BY Current DEF OpenLink, Proper, PointOK, Ended
<1>2. UNCHANGED <<row, tools, environment>> /\ conn' = q.link
  BY DEF OpenLink
<1>3. links' \in Seq(Clients) /\ Len(links') = Len(links)
  BY Current, SetLink DEF Clients, OpenLink
<1>4. p \in Request /\ p.plan = q.plan /\ p.pc = "list"
  BY <1>1 DEF Request, PCs, Statuses
<1> HIDE DEF p
<1>5. CASE Head(q.plan) = "health"
  <2>1. Become(r, Finish("done")) /\ Proper(Finish("done"))
    BY <1>5, FinishProper DEF OpenLink, Ended
  <2>2. QED
    BY <1>2, <1>3, <2>1, BecomeType, Current
<1>6. CASE Head(q.plan) = "connect"
  <2>1. Become(r, p)
    BY <1>6 DEF OpenLink, p
  <2>2. PointOK(p)
    BY <1>4, <1>6 DEF PointOK
  <2>3. Proper(p)
    BY <1>1, <1>4, <2>2, StayProper
  <2>4. QED
    BY <1>2, <1>3, <2>1, <2>3, BecomeType, Current
<1>7. QED
  BY <1>1, <1>5, <1>6

LEMMA FailOpenType ==
    ASSUME IInv, NEW r \in Requests, FailOpen(r)
    PROVE  IInv'
<1> DEFINE q == run[r]
           p == [q EXCEPT !.pc = "final", !.status = "error", !.link = 0]
<1>1. /\ Proper(q) /\ q \in Request /\ q.pc = "open" /\ q.pc \notin Ended
      /\ Head(q.plan) \in {"connect", "health"}
  BY Current DEF FailOpen, Proper, PointOK, Ended
<1>2. UNCHANGED <<row, tools, conn, environment>>
  BY DEF FailOpen
<1>3. links' \in Seq(Clients) /\ Len(links') = Len(links)
  BY Current, SetLink DEF Clients, FailOpen
<1>4. p \in Request /\ p.plan = q.plan /\ p.pc = "final"
  BY <1>1 DEF Request, PCs, Statuses
<1> HIDE DEF p
<1>5. CASE Head(q.plan) = "health"
  <2>1. Become(r, Finish("done")) /\ Proper(Finish("done"))
    BY <1>5, FinishProper DEF FailOpen, Ended
  <2>2. QED
    BY <1>2, <1>3, <2>1, BecomeType, Current
<1>6. CASE Head(q.plan) = "connect"
  <2>1. Become(r, p)
    BY <1>6 DEF FailOpen, p
  <2>2. PointOK(p)
    BY <1>4, <1>6 DEF PointOK
  <2>3. Proper(p)
    BY <1>1, <1>4, <2>2, StayProper
  <2>4. QED
    BY <1>2, <1>3, <2>1, <2>3, BecomeType, Current
<1>7. QED
  BY <1>1, <1>5, <1>6

\* A request moves to another point, or ends, and changes nothing else
LEMMA MoveType ==
    ASSUME IInv, NEW r \in Requests, NEW q, Proper(q), Become(r, q),
           UNCHANGED <<row, tools, links, conn, environment>>
    PROVE  IInv'
BY BecomeType, Current

LEMMA PointProper ==
    ASSUME NEW q, Proper(q), q.pc \notin Ended, NEW point \in PCs, NEW p, p = [q EXCEPT !.pc = point],
           PointOK(p)
    PROVE  Proper(p)
<1>1. p \in Request /\ p.plan = q.plan
  BY DEF Proper, Request
<1>2. QED
  BY <1>1, StayProper

LEMMA ListToolsType ==
    ASSUME IInv, NEW r \in Requests, ListTools(r)
    PROVE  IInv'
<1> DEFINE q == run[r]
<1>1. /\ Proper(q) /\ q \in Request /\ q.pc = "list" /\ q.pc \notin Ended
      /\ Head(q.plan) \in {"connect", "sync"}
  BY Current DEF ListTools, Proper, PointOK, Ended
<1>2. UNCHANGED <<row, tools, links, conn, environment>>
  BY DEF ListTools
<1>3. CASE Become(r, At(q, "clear"))
  <2> DEFINE p == At(q, "clear")
  <2>1. p = [q EXCEPT !.pc = "clear"]
    BY DEF At
  <2>2. p.pc = "clear" /\ p.plan = q.plan
    BY <1>1, <2>1 DEF Request
  <2> HIDE DEF p
  <2>3. PointOK(p) /\ "clear" \in PCs
    BY <1>1, <2>2 DEF PointOK, PCs
  <2>4. Proper(p)
    BY <1>1, <2>1, <2>3, PointProper
  <2>5. QED
    BY <1>2, <1>3, <2>4, MoveType DEF p
<1>4. CASE Become(r, Synced(q))
  BY <1>1, <1>2, <1>4, SyncedProper, MoveType
<1>5. QED
  BY <1>3, <1>4 DEF ListTools

LEMMA DeletedType == ASSUME IInv PROVE Deleted \in Seq(Tool)
<1>1. tools \in Seq(Tool) /\ DOMAIN tools = 1..Len(tools) /\ Len(tools) \in Nat
  BY DEF IInv, TypeOK
<1> DEFINE gone(i) == IF tools[i].at = "linked" THEN [tools[i] EXCEPT !.at = "deleted"] ELSE tools[i]
<1>2. \A i \in 1..Len(tools) : tools[i] \in Tool
  BY <1>1
<1>3. \A t \in Tool : [t EXCEPT !.at = "deleted"] \in Tool
  BY DEF Tool
<1>4. \A i \in 1..Len(tools) : gone(i) \in Tool
  BY <1>2, <1>3
<1>5. Deleted = [i \in 1..Len(tools) |-> gone(i)]
  BY <1>1 DEF Deleted
<1> HIDE DEF gone
<1>6. QED
  BY <1>1, <1>4, <1>5

LEMMA ClearToolsType ==
    ASSUME IInv, NEW r \in Requests, ClearTools(r)
    PROVE  IInv'
<1> DEFINE q == run[r]
           p == [q EXCEPT !.pc = "insert", !.left = Offered]
<1>1. /\ Proper(q) /\ q \in Request /\ q.pc = "clear" /\ q.pc \notin Ended
      /\ Head(q.plan) \in {"connect", "sync"}
  BY Current DEF ClearTools, Proper, PointOK, Ended
<1>2. UNCHANGED <<row, links, conn, environment>> /\ tools' \in Seq(Tool)
  BY DeletedType DEF ClearTools
<1>3. CASE Offered = 0
  <2>1. Become(r, Synced(q)) /\ Proper(Synced(q))
    BY <1>1, <1>3, SyncedProper DEF ClearTools
  <2>2. QED
    BY <1>2, <2>1, BecomeType, Current
<1>4. CASE Offered # 0
  <2>1. Become(r, p)
    BY <1>4 DEF ClearTools
  <2>2. p \in Request /\ p.plan = q.plan /\ p.pc = "insert" /\ p.left = Offered
    BY <1>1, McpAssumption DEF Request, PCs
  <2> HIDE DEF p
  <2>3. Offered \in 1..Offered
    BY <1>4, McpAssumption
  <2>4. PointOK(p)
    BY <1>1, <2>2, <2>3 DEF PointOK
  <2>5. Proper(p)
    BY <1>1, <2>2, <2>4, StayProper
  <2>6. QED
    BY <1>2, <2>1, <2>5, BecomeType, Current
<1>5. QED
  BY <1>3, <1>4

LEMMA InsertToolType ==
    ASSUME IInv, NEW r \in Requests, InsertTool(r)
    PROVE  IInv'
<1> DEFINE q == run[r]
           p == [q EXCEPT !.left = @ - 1]
           t == [name |-> q.left, at |-> "linked"]
<1>1. /\ Proper(q) /\ q \in Request /\ q.pc = "insert" /\ q.pc \notin Ended
      /\ Head(q.plan) \in {"connect", "sync"} /\ q.left \in 1..Offered
  BY Current DEF InsertTool, Proper, PointOK, Ended
<1>2. UNCHANGED <<row, links, conn, environment>>
  BY DEF InsertTool
<1>3. tools' \in Seq(Tool)
  <2>1. t \in Tool
    BY <1>1 DEF Tool
  <2> HIDE DEF t
  <2>2. Append(tools, t) \in Seq(Tool)
    BY <2>1, Current
  <2>3. QED
    BY <2>2, Current DEF InsertTool, t
<1>4. CASE Become(r, Synced(q))
  BY <1>1, <1>2, <1>3, <1>4, SyncedProper, BecomeType, Current
<1>5. CASE Become(r, p) /\ q.left # 1
  <2>1. q.left - 1 \in 1..Offered /\ q.left - 1 \in Nat
    BY <1>1, <1>5, McpAssumption
  <2>2. p \in Request /\ p.plan = q.plan /\ p.pc = "insert" /\ p.left = q.left - 1
    BY <1>1, <2>1 DEF Request
  <2> HIDE DEF p
  <2>3. PointOK(p)
    BY <1>1, <2>1, <2>2 DEF PointOK
  <2>4. Proper(p)
    BY <1>1, <2>2, <2>3, StayProper
  <2>5. QED
    BY <1>2, <1>3, <1>5, <2>4, BecomeType, Current
<1>6. QED
  BY <1>4, <1>5 DEF InsertTool

LEMMA SaveFinalType ==
    ASSUME IInv, NEW r \in Requests, SaveFinal(r)
    PROVE  IInv'
<1> DEFINE q == run[r]
           p == At(q, "count")
<1>1. /\ Proper(q) /\ q \in Request /\ q.pc = "final" /\ q.pc \notin Ended
  BY Current DEF SaveFinal, Proper, PointOK, Ended
<1>2. row' \in Statuses /\ tools' \in Seq(Tool) /\ UNCHANGED <<links, conn, environment>>
  BY SaveType DEF SaveFinal
<1>3. Proper(p)
  <2>1. p = [q EXCEPT !.pc = "count"]
    BY DEF At
  <2>2. p.pc = "count"
    BY <1>1, <2>1 DEF Request
  <2> HIDE DEF p
  <2>3. PointOK(p) /\ "count" \in PCs
    BY <2>2 DEF PointOK, PCs
  <2>4. QED
    BY <1>1, <2>1, <2>3, PointProper
<1>4. Proper(Finish("done")) /\ Proper(Finish("rejected"))
  BY FinishProper DEF Ended
<1>5. PICK next \in {p, Finish("done"), Finish("rejected")} : Become(r, next)
  BY DEF SaveFinal
<1> HIDE DEF p
<1>6. QED
  BY <1>2, <1>3, <1>4, <1>5, BecomeType, Current

LEMMA SaveErrorType ==
    ASSUME IInv, NEW r \in Requests, SaveError(r)
    PROVE  IInv'
<1>1. row' \in Statuses /\ tools' \in Seq(Tool) /\ UNCHANGED <<links, conn, environment>>
  BY SaveType DEF SaveError
<1>2. Become(r, Finish("rejected")) /\ Proper(Finish("rejected"))
  BY FinishProper DEF SaveError, Ended
<1>3. QED
  BY <1>1, <1>2, BecomeType, Current

LEMMA SaveServerType ==
    ASSUME IInv, NEW r \in Requests, SaveServer(r)
    PROVE  IInv'
<1>1. row' \in Statuses /\ tools' \in Seq(Tool) /\ UNCHANGED <<links, conn, environment>>
  BY SaveType DEF SaveServer
<1>2. Become(r, NextMethod(run[r])) /\ Proper(NextMethod(run[r]))
  BY NextMethodProper, Current DEF SaveServer
<1>3. QED
  BY <1>1, <1>2, BecomeType, Current

LEMMA DeleteToolsType ==
    ASSUME IInv, NEW r \in Requests, DeleteTools(r)
    PROVE  IInv'
<1> DEFINE q == run[r]
           p == At(q, "remove")
<1>1. /\ Proper(q) /\ q \in Request /\ q.pc = "deltools" /\ q.pc \notin Ended
      /\ Head(q.plan) = "remove"
  BY Current DEF DeleteTools, Proper, PointOK, Ended
<1>2. tools' \in Seq(Tool) /\ UNCHANGED <<row, links, conn, environment>> /\ Become(r, p)
  BY DeletedType DEF DeleteTools
<1>3. p = [q EXCEPT !.pc = "remove"]
  BY DEF At
<1>4. p.pc = "remove" /\ p.plan = q.plan
  BY <1>1, <1>3 DEF Request
<1> HIDE DEF p
<1>5. PointOK(p) /\ "remove" \in PCs
  BY <1>1, <1>4 DEF PointOK, PCs
<1>6. Proper(p)
  BY <1>1, <1>3, <1>5, PointProper
<1>7. QED
  BY <1>2, <1>6, BecomeType, Current

LEMMA RemoveServerType ==
    ASSUME IInv, NEW r \in Requests, RemoveServer(r)
    PROVE  IInv'
<1>1. /\ row' \in Statuses /\ UNCHANGED <<tools, links, conn, environment>>
      /\ Become(r, Finish("done")) \/ Become(r, Finish("rejected"))
  BY Current DEF RemoveServer, Statuses, NoRow
<1>2. Proper(Finish("done")) /\ Proper(Finish("rejected"))
  BY FinishProper DEF Ended
<1>3. QED
  BY <1>1, <1>2, BecomeType, Current

LEMMA FindToolType ==
    ASSUME IInv, NEW r \in Requests, FindTool(r)
    PROVE  IInv'
<1> DEFINE q == run[r]
<1>1. /\ Proper(q) /\ q \in Request /\ q.pc = "findtool" /\ q.pc \notin Ended
  BY Current DEF FindTool, Proper, Ended
<1>2. UNCHANGED <<row, tools, links, conn, environment>>
  BY DEF FindTool
<1>3. CASE Become(r, Calling(q))
  BY <1>1, <1>2, <1>3, CallingProper, MoveType
<1>4. ASSUME NEW i \in Linked, Become(r, [q EXCEPT !.pc = "count", !.tool = i])
      PROVE  IInv'
  <2> DEFINE p == [q EXCEPT !.pc = "count", !.tool = i]
  <2>1. i \in Nat
    BY Current
  <2>2. p \in Request /\ p.plan = q.plan /\ p.pc = "count"
    BY <1>1, <2>1 DEF Request, PCs
  <2> HIDE DEF p
  <2>3. PointOK(p)
    BY <2>2 DEF PointOK
  <2>4. Proper(p)
    BY <1>1, <2>2, <2>3, StayProper
  <2>5. QED
    BY <1>2, <1>4, <2>4, MoveType DEF p
<1>5. QED
  BY <1>3, <1>4 DEF FindTool

LEMMA FindToolByNameType ==
    ASSUME IInv, NEW r \in Requests, FindToolByName(r)
    PROVE  IInv'
<1> DEFINE q == run[r]
           point == IF conn = 0 THEN "load" ELSE "count"
<1>1. /\ Proper(q) /\ q \in Request /\ q.pc = "findname" /\ q.pc \notin Ended
      /\ Head(q.plan) = "connect"
  BY Current DEF FindToolByName, Proper, PointOK, Ended
<1>2. UNCHANGED <<row, tools, links, conn, environment>>
  BY DEF FindToolByName
<1>3. CASE Become(r, Finish("rejected"))
  BY <1>2, <1>3, FinishProper, MoveType DEF Ended
<1>4. ASSUME NEW i \in Linked, Become(r, [q EXCEPT !.tool = i, !.pc = point])
      PROVE  IInv'
  <2> DEFINE p == [q EXCEPT !.tool = i, !.pc = point]
  <2>1. i \in Nat
    BY Current
  <2>2. p \in Request /\ p.plan = q.plan /\ p.pc \in {"load", "count"}
    BY <1>1, <2>1 DEF Request, PCs
  <2> HIDE DEF p
  <2>3. PointOK(p)
    BY <1>1, <2>2 DEF PointOK
  <2>4. Proper(p)
    BY <1>1, <2>2, <2>3, StayProper
  <2>5. QED
    BY <1>2, <1>4, <2>4, MoveType DEF p
<1>5. QED
  BY <1>3, <1>4 DEF FindToolByName

LEMMA CountUsageType ==
    ASSUME IInv, NEW r \in Requests, CountUsage(r)
    PROVE  IInv'
<1> DEFINE q == run[r]
<1>1. /\ Proper(q) /\ q \in Request /\ q.pc = "count" /\ q.pc \notin Ended
  BY Current DEF CountUsage, Proper, Ended
<1>2. UNCHANGED <<row, links, conn, environment>>
  BY DEF CountUsage
<1>3. tools' \in Seq(Tool)
  <2>1. tools \in Seq(Tool) /\ DOMAIN tools = 1..Len(tools) /\ Len(tools) \in Nat
    BY Current
  <2> DEFINE k == q.tool
             where == IF q.op = "callByName" THEN "linked"
                      ELSE IF tools[k].at = "deleted" THEN "detached" ELSE tools[k].at
             t == [tools[k] EXCEPT !.at = where]
  <2>2. CASE k \in DOMAIN tools /\ tools' # tools
    <3>1. tools[k] \in Tool
      BY <2>1, <2>2
    <3>2. where \in {"linked", "detached", "deleted"}
      BY <3>1 DEF Tool
    <3> HIDE DEF where
    <3>3. t \in Tool
      BY <3>1, <3>2 DEF Tool
    <3>4. tools' = [tools EXCEPT ![k] = t]
      BY <2>2 DEF CountUsage, where
    <3> HIDE DEF t, k
    <3>5. QED
      BY <2>1, <2>2, <3>3, <3>4
  <2>3. CASE k \notin DOMAIN tools
    <3>1. tools' = tools
      BY <2>1, <2>3 DEF CountUsage
    <3>2. QED
      BY <2>1, <3>1
  <2>4. QED
    BY <2>1, <2>2, <2>3
<1>4. PICK p \in {Finish("rejected"), Calling(q)} : Become(r, p)
  BY DEF CountUsage
<1>5. Proper(p)
  BY <1>1, <1>4, FinishProper, CallingProper DEF Ended
<1>6. QED
  BY <1>2, <1>3, <1>4, <1>5, BecomeType, Current

LEMMA CallToolType ==
    ASSUME IInv, NEW r \in Requests, CallTool(r)
    PROVE  IInv'
BY FinishProper, MoveType DEF CallTool, Ended

LEMMA HealthCheckType ==
    ASSUME IInv, NEW r \in Requests, HealthCheck(r)
    PROVE  IInv'
<1>1. /\ Proper(run[r]) /\ run[r] \in Request /\ run[r].pc \notin Ended
      /\ Head(run[r].plan) \in {"connect", "health"}
  BY Current DEF HealthCheck, Proper, PointOK, Ended
<1>2. UNCHANGED <<row, tools, conn, environment>>
  BY DEF HealthCheck
<1>3. CASE row = "active" /\ conn = 0
  <2>1. Open(r, links) /\ links \in Seq(Clients)
    BY <1>3, Current DEF HealthCheck
  <2>2. /\ run' \in [Requests -> Request] /\ \A x \in Requests : Proper(run'[x])
        /\ links' \in Seq(Clients)
    BY <1>1, <2>1, OpenType
  <2>3. conn' \in 0..Len(links')
    BY <1>2, <1>3, <2>2
  <2>4. QED
    BY <1>2, <2>2, <2>3, StepType DEF IInv, TypeOK, environment
<1>4. CASE ~(row = "active" /\ conn = 0)
  <2>1. Become(r, Finish("done")) /\ UNCHANGED links
    BY <1>4 DEF HealthCheck
  <2>2. QED
    BY <1>2, <2>1, FinishProper, MoveType DEF Ended
<1>5. QED
  BY <1>3, <1>4

LEMMA QueryFailsType ==
    ASSUME IInv, NEW r \in Requests, QueryFails(r)
    PROVE  IInv'
<1> DEFINE q == run[r]
           p == [q EXCEPT !.pc = "error", !.status = "error"]
<1>1. Proper(q) /\ q \in Request /\ q.pc \notin Ended
  BY Current DEF QueryFails, Live
<1>2. UNCHANGED <<row, tools, links, conn, overlapped, losses, crashes>> /\ faults' \in 0..MaxFaults
  BY McpAssumption DEF QueryFails, IInv, TypeOK
<1>3. CASE q.pc \in {"announce", "final"}
  <2>1. Become(r, p)
    BY <1>3 DEF QueryFails
  <2>2. p \in Request /\ p.plan = q.plan /\ p.pc = "error"
    BY <1>1 DEF Request, PCs, Statuses
  <2> HIDE DEF p
  <2>3. PointOK(p)
    BY <1>1, <1>3, <2>2 DEF PointOK, Proper
  <2>4. Proper(p)
    BY <1>1, <2>2, <2>3, StayProper
  <2>5. run' \in [Requests -> Request] /\ \A x \in Requests : Proper(run'[x])
    BY <2>1, <2>4, BecomeProper DEF IInv, TypeOK
  <2>6. QED
    BY <1>2, <2>5, StepType DEF IInv, TypeOK
<1>4. CASE q.pc \notin {"announce", "final"}
  <2>1. PICK next : Become(r, next) /\ Proper(next)
    <3>1. CASE q.pc \in {"clear", "insert"}
      BY <1>1, <1>4, <3>1, SyncedProper DEF QueryFails
    <3>2. CASE q.pc \notin {"clear", "insert"}
      BY <1>4, <3>2, FinishProper DEF QueryFails, Ended
    <3>3. QED
      BY <3>1, <3>2
  <2>2. run' \in [Requests -> Request] /\ \A x \in Requests : Proper(run'[x])
    BY <2>1, BecomeProper DEF IInv, TypeOK
  <2>3. QED
    BY <1>2, <2>2, StepType DEF IInv, TypeOK
<1>5. QED
  BY <1>3, <1>4

LEMMA LoseLinkType == ASSUME IInv, LoseLink PROVE IInv'
<1>1. PICK k \in DOMAIN links : links' = [links EXCEPT ![k] = "lost"]
  BY DEF LoseLink
<1>2. links' \in Seq(Clients) /\ Len(links') = Len(links)
  BY <1>1, SetLink DEF IInv, TypeOK, Clients
<1>3. losses' \in 0..MaxLosses
  BY McpAssumption DEF LoseLink, IInv, TypeOK
<1>4. QED
  BY <1>2, <1>3, StepType DEF LoseLink, IInv, TypeOK

LEMMA RestartType == ASSUME IInv, Restart PROVE IInv'
<1>1. links \in Seq(Clients) /\ Len(links) \in Nat /\ DOMAIN links = 1..Len(links)
  BY DEF IInv, TypeOK
<1>2. links' \in Seq(Clients) /\ Len(links') = Len(links)
  BY <1>1 DEF Restart, Clients
<1>3. conn' \in 0..Len(links') /\ crashes' \in 0..MaxCrashes
  BY <1>1, <1>2, McpAssumption DEF Restart, IInv, TypeOK
<1>4. Proper(Finish("lost")) /\ Finish("lost") \in Request
  BY FinishProper DEF Ended, Proper
<1>5. \A x \in Requests : Proper(run'[x])
  BY <1>4 DEF Restart, IInv, Live
<1>6. run' \in [Requests -> Request]
  BY <1>4 DEF Restart, IInv, TypeOK, Live
<1>7. QED
  BY <1>2, <1>3, <1>5, <1>6, StepType DEF Restart, IInv, TypeOK

-----------------------------------------------------------------------------
(* The map and the clients *)

\* The strengthening of EntryNotClosed: a client being opened belongs to one
\* request and is not the map's, a client being closed was opened before
CInv ==
    /\ EntryNotClosed
    /\ \A r \in Requests : run[r].pc = "open" =>
          /\ run[r].link \in 1..Len(links) /\ links[run[r].link] = "opening"
          /\ \A o \in Requests \ {r} : run[o].pc = "open" => run[o].link # run[r].link
    /\ \A r \in Requests : run[r].pc = "close" =>
          run[r].link \in 1..Len(links) /\ links[run[r].link] # "opening"

LEMMA LinksStep ==
    ASSUME IInv, CInv, NEW r \in Requests, Len(links) \in Nat, Len(links') \in Nat,
           Len(links') >= Len(links),
           \A o \in Requests \ {r} : run'[o] = run[o],
           \A k \in 1..Len(links) : \/ links'[k] = links[k]
                                    \/ links[k] # "opening" /\ links'[k] # "opening"
                                    \/ run[r].pc = "open" /\ k = run[r].link,
           conn' # 0 => links'[conn'] \in {"open", "lost"},
           run'[r].pc = "close" => /\ run'[r].link \in 1..Len(links')
                                   /\ links'[run'[r].link] # "opening",
           run'[r].pc = "open" => /\ run'[r].link = Len(links) + 1 /\ Len(links') = Len(links) + 1
                                  /\ links'[Len(links) + 1] = "opening"
    PROVE  CInv'
<1>1. EntryNotClosed'
  BY DEF EntryNotClosed
<1>2. ASSUME NEW o \in Requests \ {r}, run'[o].pc = "open"
      PROVE  /\ run'[o] = run[o] /\ run[o].link \in 1..Len(links) /\ links'[run[o].link] = "opening"
             /\ run[r].pc = "open" => run[r].link # run[o].link
  <2>1. /\ run'[o] = run[o] /\ run[o].link \in 1..Len(links) /\ links[run[o].link] = "opening"
        /\ run[r].pc = "open" => run[r].link # run[o].link
    BY <1>2 DEF CInv
  <2>2. QED
    BY <2>1
<1>3. ASSUME NEW o \in Requests \ {r}, run'[o].pc = "close"
      PROVE  /\ run'[o] = run[o] /\ run[o].link \in 1..Len(links) /\ links'[run[o].link] # "opening"
  <2>1. run'[o] = run[o] /\ run[o].link \in 1..Len(links) /\ links[run[o].link] # "opening"
    BY <1>3 DEF CInv
  <2>2. ~(run[r].pc = "open" /\ run[o].link = run[r].link)
    BY <2>1 DEF CInv
  <2>3. QED
    BY <2>1, <2>2
<1>4. ASSUME NEW x \in Requests, run'[x].pc = "open"
      PROVE  /\ run'[x].link \in 1..Len(links') /\ links'[run'[x].link] = "opening"
             /\ \A o \in Requests \ {x} : run'[o].pc = "open" => run'[o].link # run'[x].link
  <2>1. CASE x = r
    <3>1. run'[r].link = Len(links) + 1 /\ Len(links') = Len(links) + 1
          /\ links'[Len(links) + 1] = "opening"
      BY <1>4, <2>1
    <3>2. \A o \in Requests \ {r} : run'[o].pc = "open" => run'[o].link \in 1..Len(links)
      BY <1>2
    <3>3. QED
      BY <2>1, <3>1, <3>2
  <2>2. CASE x # r
    <3>1. /\ run'[x] = run[x] /\ run[x].link \in 1..Len(links) /\ links'[run[x].link] = "opening"
      BY <1>2, <1>4, <2>2
    <3>2. run'[r].pc = "open" => run'[r].link # run'[x].link
      BY <3>1
    <3>3. \A o \in Requests \ {x, r} : run'[o].pc = "open" => run'[o].link # run'[x].link
      BY <1>4, <2>2, <3>1 DEF CInv
    <3>4. QED
      BY <3>1, <3>2, <3>3
  <2>3. QED
    BY <2>1, <2>2
<1>5. ASSUME NEW x \in Requests, run'[x].pc = "close"
      PROVE  run'[x].link \in 1..Len(links') /\ links'[run'[x].link] # "opening"
  <2>1. CASE x = r
    BY <1>5, <2>1
  <2>2. CASE x # r
    BY <1>3, <1>5, <2>2
  <2>3. QED
    BY <2>1, <2>2
<1>6. QED
  BY <1>1, <1>4, <1>5 DEF CInv

\* A step that leaves the clients and the map alone, and neither opens nor closes
LEMMA SettledStep ==
    ASSUME IInv, CInv, NEW r \in Requests, \A o \in Requests \ {r} : run'[o] = run[o],
           run'[r].pc \notin {"open", "close"}, UNCHANGED <<links, conn>>
    PROVE  CInv'
<1>1. Len(links) \in Nat
  BY DEF IInv, TypeOK
<1>2. conn' # 0 => links'[conn'] \in {"open", "lost"}
  BY DEF CInv, EntryNotClosed
<1>3. QED
  BY <1>1, <1>2, LinksStep

\* A client that starts to be opened, over clients of which some were closed
LEMMA OpenStep ==
    ASSUME IInv, CInv, NEW r \in Requests, NEW base \in Seq(Clients), Open(r, base),
           run[r].pc \notin Ended \cup {"open"}, Head(run[r].plan) \in {"connect", "health"},
           Len(base) = Len(links),
           \A k \in 1..Len(links) : base[k] = links[k] \/ (links[k] # "opening" /\ base[k] # "opening"),
           conn' = 0 \/ (conn' = conn /\ base = links)
    PROVE  CInv'
<1>1. /\ Len(links') = Len(base) + 1 /\ links'[Len(base) + 1] = "opening"
      /\ \A k \in 1..Len(base) : links'[k] = base[k]
      /\ run'[r] = [run[r] EXCEPT !.pc = "open", !.link = Len(base) + 1]
      /\ \A x \in Requests \ {r} : run'[x] = run[x]
  BY OpenType
<1>2. run'[r].pc = "open" /\ run'[r].link = Len(base) + 1
  BY <1>1, Current DEF Request
<1>3. Len(links) \in Nat /\ Len(links') \in Nat /\ Len(links') >= Len(links)
  BY <1>1
<1>4. conn' # 0 => links'[conn'] \in {"open", "lost"}
  <2>1. CASE conn' = conn /\ base = links
    BY <1>1, <2>1, Current DEF CInv, EntryNotClosed
  <2>2. QED
    BY <2>1
<1>5. QED
  BY <1>1, <1>2, <1>3, <1>4, LinksStep

\* What findServerById leads to
LEMMA LoadedIs ==
    ASSUME IInv, NEW q, Proper(q), q.pc = "load"
    PROVE  LET p == Loaded(q) IN
           /\ p.pc \in {"rejected", "done", "announce", "update", "close", "inactive", "deltools",
                       "list", "findtool"}
           /\ p.pc = "announce" => p.plan = q.plan
           /\ p.pc = "update" => p.status = row
           /\ p.pc = "close" => conn # 0 /\ p.link = conn /\ p.plan = q.plan /\ Head(q.plan) # "connect"
           /\ p.pc = "inactive" => conn = 0 /\ p.status = "inactive"
           /\ p.pc = "deltools" => conn = 0
           /\ p.pc = "list" => p.plan = q.plan /\ Head(q.plan) = "sync"
<1> DEFINE p == Loaded(q)
           copy == [q EXCEPT !.status = row, !.tools = Linked]
           method == Head(q.plan)
           kept == IF method = "disconnect" THEN copy ELSE q
<1>1. q \in Request /\ method \in Methods \ {"health"}
  BY HeadIsMethod DEF Proper, PointOK, Ended
<1>2. copy \in Request /\ copy.plan = q.plan /\ copy.status = row
  <2>1. Linked \in SUBSET Nat /\ row \in Statuses
    BY DEF IInv, TypeOK, Linked
  <2>2. QED
    BY <1>1, <2>1 DEF Request
<1> HIDE DEF copy
<1>3. CASE row \in NoRow
  <2>1. p = Finish("rejected")
    BY <1>3 DEF Loaded
  <2>2. p.pc = "rejected"
    BY <2>1, FinishProper DEF Ended
  <2>3. QED
    BY <2>2
<1>4. CASE row \notin NoRow /\ method = "connect"
  <2>1. p = [copy EXCEPT !.pc = "announce", !.status = "connecting"]
    BY <1>4 DEF Loaded, copy
  <2>2. p.pc = "announce" /\ p.plan = q.plan
    BY <1>2, <2>1 DEF Request
  <2>3. QED
    BY <2>2
<1>5. CASE row \notin NoRow /\ method = "update"
  <2>1. p = [copy EXCEPT !.pc = "update"]
    BY <1>5 DEF Loaded, copy
  <2>2. p.pc = "update" /\ p.status = row
    BY <1>2, <2>1 DEF Request
  <2>3. QED
    BY <2>2
<1>6. CASE row \notin NoRow /\ method \in {"disconnect", "remove"} /\ conn = 0
  <2>1. p = Disconnected(kept) /\ kept \in Request /\ Head(kept.plan) = method
    BY <1>1, <1>2, <1>6 DEF Loaded, copy
  <2> HIDE DEF kept, p
  <2>2. p.pc \in {"inactive", "deltools"} /\ (p.pc = "inactive" => p.status = "inactive")
    BY <2>1 DEF Disconnected, Request
  <2>3. QED
    BY <1>6, <2>2 DEF p
<1>7. CASE row \notin NoRow /\ method \in {"disconnect", "remove"} /\ conn # 0
  <2>1. /\ p = [kept EXCEPT !.pc = "close", !.link = conn] /\ kept \in Request /\ kept.plan = q.plan
    BY <1>1, <1>2, <1>7 DEF Loaded, copy
  <2> HIDE DEF kept, p
  <2>2. p.pc = "close" /\ p.link = conn /\ p.plan = q.plan
    BY <2>1 DEF Request
  <2>3. QED
    BY <1>7, <2>2 DEF p
<1>8. CASE row \notin NoRow /\ method \in {"sync", "call"} /\ conn = 0
  <2>1. p = Finish("done") \/ p = Finish("rejected")
    BY <1>8 DEF Loaded
  <2>2. p.pc \in {"done", "rejected"}
    BY <2>1, FinishProper DEF Ended
  <2>3. QED
    BY <2>2
<1>9. CASE row \notin NoRow /\ method = "sync" /\ conn # 0
  <2>1. p = [q EXCEPT !.pc = "list"]
    BY <1>9 DEF Loaded, At
  <2>2. p.pc = "list" /\ p.plan = q.plan
    BY <1>1, <2>1 DEF Request
  <2>3. QED
    BY <1>9, <2>2
<1>10. CASE row \notin NoRow /\ method = "call" /\ conn # 0
  <2>1. p = [q EXCEPT !.pc = "findtool"]
    BY <1>10 DEF Loaded, At
  <2>2. p.pc = "findtool"
    BY <1>1, <2>1 DEF Request
  <2>3. QED
    BY <2>2
<1>11. QED
  BY <1>1, <1>3, <1>4, <1>5, <1>6, <1>7, <1>8, <1>9, <1>10 DEF Methods

LEMMA LoadedProper ==
    ASSUME IInv, NEW r \in Requests, LoadServer(r)
    PROVE  /\ Proper(run[r]) /\ run'[r] = Loaded(run[r])
           /\ \A o \in Requests \ {r} : run'[o] = run[o]
BY Current DEF LoadServer, Become, IInv, TypeOK

LEMMA LoadServerLinks ==
    ASSUME IInv, CInv, NEW r \in Requests, LoadServer(r)
    PROVE  CInv'
<1> DEFINE p == Loaded(run[r])
<1>1. /\ Proper(run[r]) /\ run'[r] = p /\ \A o \in Requests \ {r} : run'[o] = run[o]
      /\ run[r].pc = "load" /\ UNCHANGED <<links, conn>>
  BY LoadedProper DEF LoadServer
<1>2. p.pc # "open" /\ (p.pc = "close" => conn # 0 /\ p.link = conn)
  BY <1>1, LoadedIs
<1> HIDE DEF p
<1>3. Len(links) \in Nat /\ conn \in 0..Len(links)
  BY Current
<1>4. conn # 0 => links[conn] \in {"open", "lost"} /\ conn \in 1..Len(links)
  BY <1>3 DEF CInv, EntryNotClosed
<1>5. QED
  BY <1>1, <1>2, <1>3, <1>4, LinksStep

-----------------------------------------------------------------------------
(* Where the other actions lead *)

LEMMA Becomes ==
    ASSUME IInv, NEW r \in Requests, NEW q, Become(r, q)
    PROVE  run'[r] = q /\ \A o \in Requests \ {r} : run'[o] = run[o]
BY DEF Become, IInv, TypeOK

LEMMA SyncedIs ==
    ASSUME NEW q \in Request, NEW p, p = Synced(q)
    PROVE  \/ Head(q.plan) = "connect" /\ p.pc = "final" /\ p.status = q.status /\ p.plan = q.plan
           \/ Head(q.plan) # "connect" /\ p.pc = "done"
<1>1. CASE Head(q.plan) = "connect"
  BY <1>1 DEF Synced, Request
<1>2. CASE Head(q.plan) # "connect"
  BY <1>2, FinishProper DEF Synced, Ended
<1>3. QED
  BY <1>1, <1>2

LEMMA CallingIs ==
    ASSUME NEW q \in Request, NEW p, p = Calling(q)
    PROVE  p.pc \in {"calling", "rejected"}
<1>1. CASE conn = 0
  BY <1>1, FinishProper DEF Calling, Ended
<1>2. CASE conn # 0
  BY <1>2 DEF Calling, Request
<1>3. QED
  BY <1>1, <1>2

LEMMA NextMethodIs ==
    ASSUME NEW q \in Request, NEW p, p = NextMethod(q)
    PROVE  p.pc \in {"load", "done"}
<1>1. CASE Len(q.plan) = 1
  BY <1>1, FinishProper DEF NextMethod, Ended
<1>2. CASE Len(q.plan) # 1
  <2>1. p = [q EXCEPT !.plan = Tail(q.plan), !.pc = "load"]
    BY <1>2 DEF NextMethod
  <2> DEFINE t == Tail(q.plan)
  <2>2. p = [q EXCEPT !.plan = t, !.pc = "load"]
    BY <2>1
  <2> HIDE DEF t
  <2>3. QED
    BY <2>2 DEF Request
<1>3. QED
  BY <1>1, <1>2

\* What connectServer and syncServerTools do to a request's copy
LEMMA SyncResult ==
    ASSUME IInv, NEW r \in Requests, ListTools(r) \/ ClearTools(r) \/ InsertTool(r)
    PROVE  /\ \A o \in Requests \ {r} : run'[o] = run[o]
           /\ \/ Head(run[r].plan) = "connect" /\ run'[r].pc = "final" /\ run'[r].status = run[r].status
              \/ Head(run[r].plan) # "connect" /\ run'[r].pc = "done"
              \/ /\ run'[r].pc \in {"clear", "insert"} /\ run'[r].plan = run[r].plan
                 /\ run'[r].status = run[r].status
<1> DEFINE q == run[r]
<1>1. q \in Request
  BY Current
<1>2. CASE Become(r, Synced(q))
  <2>1. run'[r] = Synced(q) /\ \A o \in Requests \ {r} : run'[o] = run[o]
    BY <1>2, Becomes
  <2>2. QED
    BY <1>1, <2>1, SyncedIs
<1>3. ASSUME NEW p, Become(r, p), p.pc \in {"clear", "insert"}, p.plan = q.plan, p.status = q.status
      PROVE  /\ \A o \in Requests \ {r} : run'[o] = run[o]
             /\ run'[r].pc \in {"clear", "insert"} /\ run'[r].plan = q.plan /\ run'[r].status = q.status
  BY <1>3, Becomes
<1>4. CASE ListTools(r)
  <2> DEFINE p == At(q, "clear")
  <2>1. p.pc = "clear" /\ p.plan = q.plan /\ p.status = q.status
    BY <1>1 DEF At, Request
  <2>2. Become(r, p) \/ Become(r, Synced(q))
    BY <1>4 DEF ListTools
  <2> HIDE DEF p
  <2>3. QED
    BY <1>2, <1>3, <2>1, <2>2
<1>5. CASE ClearTools(r)
  <2> DEFINE p == [q EXCEPT !.pc = "insert", !.left = Offered]
  <2>1. p.pc = "insert" /\ p.plan = q.plan /\ p.status = q.status
    BY <1>1 DEF Request
  <2>2. Become(r, p) \/ Become(r, Synced(q))
    BY <1>5 DEF ClearTools
  <2> HIDE DEF p
  <2>3. QED
    BY <1>2, <1>3, <2>1, <2>2
<1>6. CASE InsertTool(r)
  <2> DEFINE p == [q EXCEPT !.left = @ - 1]
  <2>1. p.pc = "insert" /\ p.plan = q.plan /\ p.status = q.status
    BY <1>1, <1>6 DEF Request, InsertTool
  <2>2. Become(r, p) \/ Become(r, Synced(q))
    BY <1>6 DEF InsertTool
  <2> HIDE DEF p
  <2>3. QED
    BY <1>2, <1>3, <2>1, <2>2
<1>7. QED
  BY <1>4, <1>5, <1>6

\* Saves and removals of the server's row
LEMMA SaveResult ==
    ASSUME IInv, NEW r \in Requests,
           SaveFinal(r) \/ SaveError(r) \/ SaveServer(r) \/ DeleteTools(r) \/ RemoveServer(r)
    PROVE  /\ \A o \in Requests \ {r} : run'[o] = run[o]
           /\ SaveFinal(r) => run'[r].pc \in {"done", "rejected", "count"}
           /\ SaveError(r) => run'[r].pc = "rejected"
           /\ SaveServer(r) => run'[r].pc \in {"load", "done"}
           /\ DeleteTools(r) => run'[r].pc = "remove"
           /\ RemoveServer(r) => run'[r].pc \in {"done", "rejected"}
<1> DEFINE q == run[r]
<1>1. q \in Request
  BY Current
<1>2. Finish("done").pc = "done" /\ Finish("rejected").pc = "rejected"
  BY FinishProper DEF Ended
<1>3. At(q, "count").pc = "count" /\ At(q, "remove").pc = "remove"
  BY <1>1 DEF At, Request
<1>4. NextMethod(q).pc \in {"load", "done"}
  BY <1>1, NextMethodIs
<1>5. SaveFinal(r) => \E p : Become(r, p) /\ p.pc \in {"done", "rejected", "count"}
  BY <1>2, <1>3 DEF SaveFinal
<1>6. SaveError(r) => \E p : Become(r, p) /\ p.pc = "rejected"
  BY <1>2 DEF SaveError
<1>7. SaveServer(r) => \E p : Become(r, p) /\ p.pc \in {"load", "done"}
  BY <1>4 DEF SaveServer
<1>8. DeleteTools(r) => \E p : Become(r, p) /\ p.pc = "remove"
  BY <1>3 DEF DeleteTools
<1>9. RemoveServer(r) => \E p : Become(r, p) /\ p.pc \in {"done", "rejected"}
  BY <1>2 DEF RemoveServer
<1>10. QED
  BY <1>5, <1>6, <1>7, <1>8, <1>9, Becomes

\* Tool calls
LEMMA CallResult ==
    ASSUME IInv, NEW r \in Requests,
           FindTool(r) \/ FindToolByName(r) \/ CountUsage(r) \/ CallTool(r)
    PROVE  /\ \A o \in Requests \ {r} : run'[o] = run[o]
           /\ run'[r].pc \in {"load", "count", "calling", "rejected", "done"}
<1> DEFINE q == run[r]
<1>1. q \in Request
  BY Current
<1>2. Finish("done").pc = "done" /\ Finish("rejected").pc = "rejected"
  BY FinishProper DEF Ended
<1>3. Calling(q).pc \in {"calling", "rejected"}
  BY <1>1, CallingIs
<1>4. \A i : [q EXCEPT !.pc = "count", !.tool = i].pc = "count"
  BY <1>1 DEF Request
<1>5. \A i : [q EXCEPT !.tool = i, !.pc = IF conn = 0 THEN "load" ELSE "count"].pc \in {"load", "count"}
  BY <1>1 DEF Request
<1>6. \E p : Become(r, p) /\ p.pc \in {"load", "count", "calling", "rejected", "done"}
  <2>1. CASE FindTool(r)
    BY <1>3, <1>4, <2>1 DEF FindTool
  <2>2. CASE FindToolByName(r)
    BY <1>2, <1>5, <2>2 DEF FindToolByName
  <2>3. CASE CountUsage(r)
    BY <1>2, <1>3, <2>3 DEF CountUsage
  <2>4. CASE CallTool(r)
    BY <1>2, <2>4 DEF CallTool
  <2>5. QED
    BY <2>1, <2>2, <2>3, <2>4
<1>7. QED
  BY <1>6, Becomes

-----------------------------------------------------------------------------
(* The map and the clients, action by action *)

LEMMA BeginLinks ==
    ASSUME IInv, CInv, NEW r \in Requests, CreateServer(r) \/ CallService(r)
    PROVE  CInv'
<1>1. \E op \in DOMAIN Plan, point \in {"load", "findname", "health"} : Begins(r, op, point)
  <2>1. CASE CreateServer(r)
    <3>1. Begins(r, "create", "load") /\ "create" \in DOMAIN Plan
      BY <2>1 DEF CreateServer, Plan
    <3>2. QED
      BY <3>1
  <2>2. CASE \E op \in {"connect", "disconnect", "reconnect", "rename", "update",
                       "remove", "sync", "call"} : Begins(r, op, "load")
    BY <2>2 DEF Plan
  <2>3. CASE Begins(r, "callByName", "findname")
    <3>1. "callByName" \in DOMAIN Plan
      BY DEF Plan
    <3>2. QED
      BY <2>3, <3>1
  <2>4. CASE Begins(r, "health", "health")
    <3>1. "health" \in DOMAIN Plan
      BY DEF Plan
    <3>2. QED
      BY <2>4, <3>1
  <2>5. QED
    BY <2>1, <2>2, <2>3, <2>4 DEF CallService
<1>0. PICK op \in DOMAIN Plan, point \in {"load", "findname", "health"} : Begins(r, op, point)
  BY <1>1
<1> DEFINE q == [IdleRequest EXCEPT !.op = op, !.pc = point, !.plan = Plan[op]]
<1>2. run'[r] = q /\ \A o \in Requests \ {r} : run'[o] = run[o]
  BY <1>0, Becomes DEF Begins
<1>3. q.pc = point
  BY DEF IdleRequest
<1> HIDE DEF q
<1>4. UNCHANGED <<links, conn>>
  BY DEF CreateServer, CallService
<1>5. QED
  BY <1>2, <1>3, <1>4, SettledStep

LEMMA QuietLinks ==
    ASSUME IInv, CInv, NEW r \in Requests,
           \/ ListTools(r) \/ ClearTools(r) \/ InsertTool(r)
           \/ SaveFinal(r) \/ SaveError(r) \/ SaveServer(r) \/ DeleteTools(r) \/ RemoveServer(r)
           \/ FindTool(r) \/ FindToolByName(r) \/ CountUsage(r) \/ CallTool(r)
    PROVE  CInv'
<1>1. UNCHANGED <<links, conn>>
  BY DEF ListTools, ClearTools, InsertTool, SaveFinal, SaveError, SaveServer, DeleteTools,
         RemoveServer, FindTool, FindToolByName, CountUsage, CallTool
<1>2. /\ \A o \in Requests \ {r} : run'[o] = run[o]
      /\ run'[r].pc \notin {"open", "close"}
  <2>1. CASE ListTools(r) \/ ClearTools(r) \/ InsertTool(r)
    BY <2>1, SyncResult
  <2>2. CASE SaveFinal(r) \/ SaveError(r) \/ SaveServer(r) \/ DeleteTools(r) \/ RemoveServer(r)
    BY <2>2, SaveResult
  <2>3. CASE FindTool(r) \/ FindToolByName(r) \/ CountUsage(r) \/ CallTool(r)
    BY <2>3, CallResult
  <2>4. QED
    BY <2>1, <2>2, <2>3
<1>3. QED
  BY <1>1, <1>2, SettledStep

LEMMA AnnounceLinks ==
    ASSUME IInv, CInv, NEW r \in Requests, Announce(r)
    PROVE  CInv'
<1>1. /\ run[r] \in Request /\ run[r].pc = "announce" /\ Head(run[r].plan) = "connect"
      /\ conn \in 0..Len(links) /\ Len(links) \in Nat /\ links \in Seq(Clients)
  BY Current DEF Announce, Proper, PointOK
<1>2. CASE conn = 0
  <2>1. Open(r, links) /\ conn' = 0
    BY <1>2 DEF Announce
  <2>2. QED
    BY <1>1, <2>1, OpenStep DEF Ended
<1>3. CASE conn # 0
  <2> DEFINE q == [run[r] EXCEPT !.pc = "close", !.link = conn]
  <2>1. Become(r, q) /\ UNCHANGED <<links, conn>>
    BY <1>3 DEF Announce
  <2>2. q.pc = "close" /\ q.link = conn
    BY <1>1 DEF Request
  <2> HIDE DEF q
  <2>3. run'[r] = q /\ \A o \in Requests \ {r} : run'[o] = run[o]
    BY <2>1, Becomes
  <2>4. conn \in 1..Len(links) /\ links[conn] \in {"open", "lost"}
    BY <1>1, <1>3 DEF CInv, EntryNotClosed
  <2>5. QED
    BY <1>1, <2>1, <2>2, <2>3, <2>4, LinksStep
<1>4. QED
  BY <1>2, <1>3

LEMMA CloseLinkLinks ==
    ASSUME IInv, CInv, NEW r \in Requests, CloseLink(r)
    PROVE  CInv'
<1> DEFINE closed == [links EXCEPT ![run[r].link] = "closed"]
<1>1. /\ run[r] \in Request /\ run[r].pc = "close"
      /\ Head(run[r].plan) \in {"connect", "disconnect", "remove"}
      /\ links \in Seq(Clients) /\ Len(links) \in Nat
  BY Current DEF CloseLink, Proper, PointOK
<1>2. run[r].link \in 1..Len(links) /\ links[run[r].link] # "opening"
  BY <1>1 DEF CInv
<1>3. /\ closed \in Seq(Clients) /\ Len(closed) = Len(links)
      /\ \A k \in 1..Len(links) : closed[k] = IF k = run[r].link THEN "closed" ELSE links[k]
  BY <1>1, SetLink DEF Clients
<1>4. PICK base \in {closed, links} :
        /\ conn' = 0 \/ (conn' = conn /\ base = links)
        /\ IF Head(run[r].plan) = "connect" THEN Open(r, base)
           ELSE Become(r, Disconnected(run[r])) /\ links' = base
  BY DEF CloseLink
<1>5. \A k \in 1..Len(links) : base[k] = links[k] \/ (links[k] # "opening" /\ base[k] # "opening")
  BY <1>2, <1>3, <1>4
<1>6. base \in Seq(Clients) /\ Len(base) = Len(links)
  BY <1>1, <1>3
<1> HIDE DEF closed
<1>7. CASE Head(run[r].plan) = "connect"
  <2>1. Open(r, base)
    BY <1>4, <1>7
  <2>2. QED
    BY <1>1, <1>4, <1>5, <1>6, <1>7, <2>1, OpenStep DEF Ended
<1>8. CASE Head(run[r].plan) # "connect"
  <2>1. Become(r, Disconnected(run[r])) /\ links' = base
    BY <1>4, <1>8
  <2>2. Disconnected(run[r]).pc \in {"inactive", "deltools"}
    BY <1>1 DEF Disconnected, Request
  <2>3. run'[r].pc \in {"inactive", "deltools"} /\ \A o \in Requests \ {r} : run'[o] = run[o]
    BY <2>1, <2>2, Becomes
  <2>4. conn' # 0 => links'[conn'] \in {"open", "lost"}
    BY <1>4, <2>1 DEF CInv, EntryNotClosed
  <2>5. QED
    BY <1>1, <1>5, <1>6, <2>1, <2>3, <2>4, LinksStep
<1>9. QED
  BY <1>7, <1>8

LEMMA OpenedLinks ==
    ASSUME IInv, CInv, NEW r \in Requests, OpenLink(r) \/ FailOpen(r)
    PROVE  CInv'
<1> DEFINE q == run[r]
<1>1. /\ q \in Request /\ q.pc = "open" /\ links \in Seq(Clients) /\ Len(links) \in Nat
      /\ conn \in 0..Len(links)
  BY Current DEF OpenLink, FailOpen
<1>2. q.link \in 1..Len(links) /\ links[q.link] = "opening"
  BY <1>1 DEF CInv
<1>3. PICK c \in {"open", "closed"} : /\ links' = [links EXCEPT ![q.link] = c]
                                     /\ ((c = "open" /\ conn' = q.link) \/ conn' = conn)
  BY DEF OpenLink, FailOpen
<1>4. /\ links' \in Seq(Clients) /\ Len(links') = Len(links)
      /\ \A k \in 1..Len(links) : links'[k] = IF k = q.link THEN c ELSE links[k]
  BY <1>1, <1>3, SetLink DEF Clients
<1>5. conn' # 0 => links'[conn'] \in {"open", "lost"}
  <2>1. CASE conn' = q.link /\ c = "open"
    BY <1>2, <1>4, <2>1
  <2>2. CASE conn' = conn
    <3>1. conn # 0 => conn \in 1..Len(links) /\ links[conn] \in {"open", "lost"}
      BY <1>1 DEF CInv, EntryNotClosed
    <3>2. conn # 0 => conn # q.link
      BY <1>2, <3>1
    <3>3. QED
      BY <1>4, <2>2, <3>1, <3>2
  <2>3. QED
    BY <1>3, <2>1, <2>2
<1>6. run'[r].pc \in {"list", "final", "done"} /\ \A o \in Requests \ {r} : run'[o] = run[o]
  <2>1. \A st : /\ [q EXCEPT !.pc = "list", !.status = st, !.link = 0].pc = "list"
                /\ [q EXCEPT !.pc = "final", !.status = st, !.link = 0].pc = "final"
    BY <1>1 DEF Request
  <2>2. Finish("done").pc = "done"
    BY FinishProper DEF Ended
  <2>3. \E p : Become(r, p) /\ p.pc \in {"list", "final", "done"}
    BY <2>1, <2>2 DEF OpenLink, FailOpen
  <2>4. QED
    BY <2>3, Becomes
<1>7. QED
  BY <1>1, <1>4, <1>5, <1>6, LinksStep

LEMMA HealthCheckLinks ==
    ASSUME IInv, CInv, NEW r \in Requests, HealthCheck(r)
    PROVE  CInv'
<1>1. /\ run[r] \in Request /\ run[r].pc = "health" /\ Head(run[r].plan) = "health"
      /\ links \in Seq(Clients)
  BY Current DEF HealthCheck, Proper, PointOK
<1>2. CASE row = "active" /\ conn = 0
  <2>1. Open(r, links) /\ conn' = 0
    BY <1>2 DEF HealthCheck
  <2>2. QED
    BY <1>1, <2>1, OpenStep DEF Ended
<1>3. CASE ~(row = "active" /\ conn = 0)
  <2>1. Become(r, Finish("done")) /\ UNCHANGED <<links, conn>>
    BY <1>3 DEF HealthCheck
  <2>2. run'[r].pc = "done" /\ \A o \in Requests \ {r} : run'[o] = run[o]
    BY <2>1, Becomes, FinishProper DEF Ended
  <2>3. QED
    BY <2>1, <2>2, SettledStep
<1>4. QED
  BY <1>2, <1>3

LEMMA QueryFailsLinks ==
    ASSUME IInv, CInv, NEW r \in Requests, QueryFails(r)
    PROVE  CInv'
<1> DEFINE q == run[r]
<1>1. q \in Request
  BY Current
<1>2. [q EXCEPT !.pc = "error", !.status = "error"].pc = "error"
  BY <1>1 DEF Request
<1>3. Synced(q).pc \in {"final", "done"} /\ Finish("rejected").pc = "rejected"
  BY <1>1, SyncedIs, FinishProper DEF Ended
<1>4. \E p : Become(r, p) /\ p.pc \in {"error", "final", "done", "rejected"}
  BY <1>2, <1>3 DEF QueryFails
<1>5. run'[r].pc \in {"error", "final", "done", "rejected"} /\ \A o \in Requests \ {r} : run'[o] = run[o]
  BY <1>4, Becomes
<1>6. UNCHANGED <<links, conn>>
  BY DEF QueryFails
<1>7. QED
  BY <1>5, <1>6, SettledStep

LEMMA LoseLinkLinks == ASSUME IInv, CInv, LoseLink PROVE CInv'
<1>1. /\ links \in Seq(Clients) /\ Len(links) \in Nat /\ DOMAIN links = 1..Len(links)
      /\ conn \in 0..Len(links)
  BY DEF IInv, TypeOK
<1>2. PICK k \in 1..Len(links) : links[k] = "open" /\ links' = [links EXCEPT ![k] = "lost"]
  BY <1>1 DEF LoseLink
<1>3. /\ Len(links') = Len(links)
      /\ \A i \in 1..Len(links) : links'[i] = IF i = k THEN "lost" ELSE links[i]
  BY <1>1, <1>2, SetLink DEF Clients
<1>4. UNCHANGED <<run, conn>>
  BY DEF LoseLink
<1>5. EntryNotClosed'
  BY <1>1, <1>3, <1>4 DEF CInv, EntryNotClosed
<1>6. QED
  BY <1>1, <1>2, <1>3, <1>4, <1>5 DEF CInv

LEMMA RestartLinks == ASSUME IInv, CInv, Restart PROVE CInv'
<1>1. \A x \in Requests : run'[x].pc \in Ended
  <2>1. Finish("lost").pc = "lost"
    BY FinishProper DEF Ended
  <2>2. QED
    BY <2>1 DEF Restart, Live, Ended
<1>2. conn' = 0
  BY DEF Restart
<1>3. QED
  BY <1>1, <1>2 DEF CInv, EntryNotClosed, Ended

-----------------------------------------------------------------------------
(* The invariants hold *)

LEMMA InitIInv == Init => IInv /\ CInv
<1> SUFFICES ASSUME Init PROVE IInv /\ CInv
  OBVIOUS
<1>1. run \in [Requests -> Request] /\ \A r \in Requests : Proper(run[r]) /\ run[r].pc = "idle"
  BY IdleProper DEF Init, IdleRequest
<1>2. tools \in Seq(Tool) /\ links \in Seq(Clients) /\ Len(links) = 0
  BY DEF Init
<1>3. row \in Statuses /\ conn \in 0..Len(links)
  BY <1>2 DEF Init, Statuses, NoRow
<1>9. overlapped \in BOOLEAN
  BY DEF Init
<1>4. faults \in 0..MaxFaults /\ losses \in 0..MaxLosses /\ crashes \in 0..MaxCrashes
  BY McpAssumption DEF Init
<1>5. TypeOK
  BY <1>1, <1>2, <1>3, <1>4, <1>9 DEF TypeOK
<1>6. \A r \in Requests : run[r].pc \notin {"open", "close"}
  BY <1>1
<1>7. conn = 0
  BY DEF Init
<1>8. IInv
  BY <1>1, <1>5 DEF IInv
<1>10. QED
  BY <1>6, <1>7, <1>8 DEF CInv, EntryNotClosed

LEMMA StepIInv == IInv /\ CInv /\ [Next]_vars => IInv' /\ CInv'
<1> SUFFICES ASSUME IInv, CInv, [Next]_vars PROVE IInv' /\ CInv'
  OBVIOUS
<1>1. CASE UNCHANGED vars
  BY <1>1 DEF vars, IInv, CInv, TypeOK, EntryNotClosed, Proper, PlanOK, PointOK
<1>2. ASSUME NEW r \in Requests, CreateServer(r) \/ CallService(r)
      PROVE  IInv' /\ CInv'
  BY <1>2, CreateServerType, CallServiceType, BeginLinks
<1>3. ASSUME NEW r \in Requests, Advance(r)
      PROVE  IInv' /\ CInv'
  <2>1. CASE LoadServer(r)
    BY <2>1, LoadServerType, LoadServerLinks
  <2>2. CASE Announce(r)
    BY <2>2, AnnounceType, AnnounceLinks
  <2>3. CASE CloseLink(r)
    BY <2>3, CloseLinkType, CloseLinkLinks
  <2>4. CASE OpenLink(r)
    <3>1. run[r].link \in 1..Len(links)
      BY <2>4 DEF OpenLink, CInv
    <3>2. QED
      BY <2>4, <3>1, OpenLinkType, OpenedLinks
  <2>5. CASE FailOpen(r)
    BY <2>5, FailOpenType, OpenedLinks
  <2>6. CASE ListTools(r) \/ ClearTools(r) \/ InsertTool(r)
    BY <2>6, ListToolsType, ClearToolsType, InsertToolType, QuietLinks
  <2>7. CASE SaveFinal(r) \/ SaveError(r) \/ SaveServer(r) \/ DeleteTools(r) \/ RemoveServer(r)
    BY <2>7, SaveFinalType, SaveErrorType, SaveServerType, DeleteToolsType, RemoveServerType, QuietLinks
  <2>8. CASE FindTool(r) \/ FindToolByName(r) \/ CountUsage(r) \/ CallTool(r)
    BY <2>8, FindToolType, FindToolByNameType, CountUsageType, CallToolType, QuietLinks
  <2>9. CASE HealthCheck(r)
    BY <2>9, HealthCheckType, HealthCheckLinks
  <2>10. QED
    BY <1>3, <2>1, <2>2, <2>3, <2>4, <2>5, <2>6, <2>7, <2>8, <2>9 DEF Advance
<1>4. ASSUME NEW r \in Requests, QueryFails(r)
      PROVE  IInv' /\ CInv'
  BY <1>4, QueryFailsType, QueryFailsLinks
<1>5. CASE LoseLink
  BY <1>5, LoseLinkType, LoseLinkLinks
<1>6. CASE Restart
  BY <1>6, RestartType, RestartLinks
<1>7. QED
  BY <1>1, <1>2, <1>3, <1>4, <1>5, <1>6 DEF Next

\* Every variable keeps its type, for every number of requests, tools, failures,
\* lost connections and restarts
THEOREM TypeCorrect == Spec => []TypeOK
<1>1. Spec => [](IInv /\ CInv)
  BY InitIInv, StepIInv, PTL DEF Spec
<1>2. IInv /\ CInv => TypeOK
  BY DEF IInv
<1>3. QED
  BY <1>1, <1>2, PTL

\* The map of connections never holds a closed client, however connects,
\* disconnects, health checks, failing closes and restarts interleave
THEOREM EntryNeverClosed == Spec => []EntryNotClosed
<1>1. Spec => [](IInv /\ CInv)
  BY InitIInv, StepIInv, PTL DEF Spec
<1>2. IInv /\ CInv => EntryNotClosed
  BY DEF CInv
<1>3. QED
  BY <1>1, <1>2, PTL

-----------------------------------------------------------------------------

(* Requests that do not overlap *)

\* One request at a time
Alone == \A r, o \in Requests : Live(r) /\ Live(o) => r = o

DistinctIn(S, ts) == \A i, j \in S : ts[i].name = ts[j].name => i = j

\* From findServerById to the save after the tools were listed
Connecting == {"announce", "close", "open", "list", "clear", "insert", "final"}

\* The tools a request loaded had different names, and still have; the tools it
\* inserts come after those it has inserted; the tool that executeToolByName
\* found is among those it loaded, so that saving it revives no second one
ToolsAt(q) ==
    /\ q.tools \subseteq DOMAIN tools /\ DistinctIn(q.tools, tools)
    /\ q.pc = "insert" => \A i \in Linked : tools[i].name > q.left
    /\ q.op = "callByName" =>
          /\ q.plan = <<"connect">> /\ q.pc # "findtool"
          /\ q.pc = "load" => q.tool \in Linked
          /\ q.pc \in Connecting => q.tool \in q.tools
          /\ q.pc = "count" => q.tool \in DOMAIN tools /\ DistinctIn(Linked \cup {q.tool}, tools)

\* The strengthening of ToolsDistinct
NInv ==
    ~overlapped =>
        /\ Alone
        /\ DistinctIn(Linked, tools)
        /\ \A r \in Requests : Live(r) => ToolsAt(run[r])

\* The entry and the status agree
Told ==
    /\ conn # 0 => row = "active"
    /\ crashes = 0 /\ row = "active" => conn # 0

\* What a request has still to save, or to open and close, for them to agree
TellsAt(q) ==
    /\ q.pc \in {"load", "findname", "findtool", "count", "calling", "health", "update"} => Told
    /\ q.pc = "update" => q.status = row
    /\ q.pc = "close" => q.link = conn
    /\ q.pc = "open" => conn = 0 /\ (Head(q.plan) = "health" => row = "active" /\ crashes # 0)
    /\ q.pc \in {"list", "clear", "insert"} =>
          IF Head(q.plan) = "connect" THEN q.status = "active" /\ conn # 0 ELSE Told
    /\ q.pc = "final" => (q.status = "active" <=> conn # 0)
    /\ q.pc = "inactive" => q.status = "inactive" /\ conn = 0
    /\ q.pc \in {"deltools", "remove"} => conn = 0
    /\ q.pc = "remove" => Linked = {}
    /\ q.pc # "error"

Accounted == \A k \in DOMAIN links : links[k] \in {"open", "lost"} => k = conn

\* The strengthening of ClientsAccounted and StatusTells
AInv ==
    Steady =>
        /\ Accounted
        /\ Quiet => Told
        /\ \A r \in Requests : Live(r) => TellsAt(run[r])

-----------------------------------------------------------------------------
(* What a step makes of its request, and of the tools *)

\* The request goes on, with the method, the plan, the tools and the tool it had
GoesOn(r) ==
    /\ run'[r].op = run[r].op /\ run'[r].plan = run[r].plan
    /\ run'[r].tools = run[r].tools /\ run'[r].tool = run[r].tool

Answered(r) == run'[r].pc \in Ended

\* The other requests stay as they are
Only(r) == \A o \in Requests \ {r} : run'[o] = run[o]

LEMMA FinishIs == ASSUME NEW answer \in Ended PROVE Finish(answer).pc \in Ended
BY FinishProper

\* In a load, a copy of the row is given to the methods that save it
LEMMA LoadGoes ==
    ASSUME IInv, NEW r \in Requests, LoadServer(r)
    PROVE  /\ Only(r) /\ UNCHANGED <<row, tools, links, conn, environment>>
           /\ \/ Answered(r)
              \/ /\ run'[r].op = run[r].op /\ run'[r].plan = run[r].plan /\ run'[r].tool = run[r].tool
                 /\ run'[r].tools \in {run[r].tools, Linked}
                 /\ run'[r].pc \in {"announce", "update", "close", "inactive", "deltools",
                                    "list", "findtool"}
                 /\ Head(run[r].plan) = "connect" => run'[r].pc = "announce" /\ run'[r].tools = Linked
                 /\ run'[r].pc = "update" => run'[r].status = row
                 /\ run'[r].pc = "close" => run'[r].link = conn
                 /\ run'[r].pc = "inactive" => run'[r].status = "inactive" /\ conn = 0
                 /\ run'[r].pc = "deltools" => conn = 0
                 /\ run'[r].pc = "list" => Head(run[r].plan) = "sync"
<1> DEFINE q == run[r]
           copy == [q EXCEPT !.status = row, !.tools = Linked]
           method == Head(q.plan)
           kept == IF method = "disconnect" THEN copy ELSE q
           p == run'[r]
<1>1. /\ Proper(q) /\ q \in Request /\ q.pc = "load" /\ p = Loaded(q)
      /\ Only(r) /\ UNCHANGED <<row, tools, links, conn, environment>>
  BY LoadedProper, Current DEF LoadServer, Only
<1>2. /\ p.pc = "update" => p.status = row
      /\ p.pc = "close" => conn # 0 /\ p.link = conn
      /\ p.pc = "inactive" => conn = 0 /\ p.status = "inactive"
      /\ p.pc = "deltools" => conn = 0
      /\ p.pc = "list" => Head(q.plan) = "sync"
      /\ p.pc \in {"rejected", "done", "announce", "update", "close", "inactive", "deltools",
                  "list", "findtool"}
  BY <1>1, LoadedIs
<1>3. method \in Methods \ {"health"}
  BY <1>1, HeadIsMethod DEF Proper, PointOK, Ended
<1>4. copy \in Request /\ copy.plan = q.plan /\ copy.op = q.op /\ copy.tool = q.tool /\ copy.tools = Linked
  BY <1>1, Current DEF Request
<1>5. kept \in Request /\ kept.plan = q.plan /\ kept.op = q.op /\ kept.tool = q.tool
      /\ kept.tools \in {q.tools, Linked}
  BY <1>1, <1>4
<1>6. \/ p.pc \in Ended
      \/ /\ p.op = q.op /\ p.plan = q.plan /\ p.tool = q.tool /\ p.tools \in {q.tools, Linked}
         /\ method = "connect" => p.pc = "announce" /\ p.tools = Linked
  <2> HIDE DEF copy
  <2>1. CASE row \in NoRow
    BY <1>1, <2>1, FinishIs DEF Loaded, Ended
  <2>2. CASE row \notin NoRow /\ method = "connect"
    <3>1. p = [copy EXCEPT !.pc = "announce", !.status = "connecting"]
      BY <1>1, <2>2 DEF Loaded, copy
    <3>2. QED
      BY <1>4, <3>1 DEF Request
  <2>3. CASE row \notin NoRow /\ method = "update"
    <3>1. p = [copy EXCEPT !.pc = "update"]
      BY <1>1, <2>3 DEF Loaded, copy
    <3>2. QED
      BY <1>4, <2>3, <3>1 DEF Request
  <2>4. CASE row \notin NoRow /\ method \in {"disconnect", "remove"}
    <3>1. p = IF conn = 0 THEN Disconnected(kept) ELSE [kept EXCEPT !.pc = "close", !.link = conn]
      BY <1>1, <2>4 DEF Loaded, copy
    <3> HIDE DEF kept
    <3>2. p.op = kept.op /\ p.plan = kept.plan /\ p.tool = kept.tool /\ p.tools = kept.tools
      BY <1>5, <3>1 DEF Disconnected, Request
    <3>3. QED
      BY <1>5, <2>4, <3>2
  <2>5. CASE row \notin NoRow /\ method \in {"sync", "call"} /\ conn = 0
    <3>1. p = Finish("done") \/ p = Finish("rejected")
      BY <1>1, <2>5 DEF Loaded
    <3>2. QED
      BY <3>1, FinishIs DEF Ended
  <2>6. CASE row \notin NoRow /\ method \in {"sync", "call"} /\ conn # 0
    <3>1. p = [q EXCEPT !.pc = "list"] \/ p = [q EXCEPT !.pc = "findtool"]
      BY <1>1, <2>6 DEF Loaded, At
    <3>2. QED
      BY <1>1, <2>6, <3>1 DEF Request
  <2>7. QED
    BY <1>3, <2>1, <2>2, <2>3, <2>4, <2>5, <2>6 DEF Methods
<1> HIDE DEF p
<1>7. QED
  BY <1>1, <1>2, <1>6 DEF Answered, Ended, p

\* Opening and closing clients
LEMMA OpenGoes ==
    ASSUME IInv, NEW r \in Requests, NEW base, Open(r, base)
    PROVE  Only(r) /\ GoesOn(r) /\ run'[r].pc = "open"
<1> DEFINE p == [run[r] EXCEPT !.pc = "open", !.link = Len(base) + 1]
<1>1. /\ p.pc = "open" /\ p.op = run[r].op /\ p.plan = run[r].plan
      /\ p.tools = run[r].tools /\ p.tool = run[r].tool
  BY Current DEF Request
<1>2. Become(r, p)
  BY DEF Open
<1> HIDE DEF p
<1>3. QED
  BY <1>1, <1>2, Becomes DEF Only, GoesOn

LEMMA AnnounceGoes ==
    ASSUME IInv, NEW r \in Requests, Announce(r)
    PROVE  /\ Only(r) /\ GoesOn(r) /\ Save(r) /\ UNCHANGED <<conn, environment>>
           /\ \/ conn = 0 /\ Open(r, links) /\ run'[r].pc = "open"
              \/ conn # 0 /\ UNCHANGED links /\ run'[r].pc = "close" /\ run'[r].link = conn
<1>1. Save(r) /\ UNCHANGED <<conn, environment>>
  BY DEF Announce
<1>2. CASE conn = 0
  <2>1. Open(r, links)
    BY <1>2 DEF Announce
  <2>2. QED
    BY <1>1, <1>2, <2>1, OpenGoes
<1>3. CASE conn # 0
  <2> DEFINE p == [run[r] EXCEPT !.pc = "close", !.link = conn]
  <2>1. Become(r, p) /\ UNCHANGED links
    BY <1>3 DEF Announce
  <2>2. /\ p.pc = "close" /\ p.link = conn /\ p.op = run[r].op /\ p.plan = run[r].plan
        /\ p.tools = run[r].tools /\ p.tool = run[r].tool
    BY Current DEF Request
  <2> HIDE DEF p
  <2>3. QED
    BY <1>1, <1>3, <2>1, <2>2, Becomes DEF Only, GoesOn
<1>4. QED
  BY <1>2, <1>3

LEMMA CloseGoes ==
    ASSUME IInv, NEW r \in Requests, CloseLink(r)
    PROVE  LET closed == [links EXCEPT ![run[r].link] = "closed"] IN
           /\ Only(r) /\ GoesOn(r) /\ UNCHANGED <<row, tools, overlapped, losses, crashes>>
           /\ faults' = faults => conn' = 0
           /\ faults' # faults => faults' = faults + 1 /\ conn' = conn
           /\ \/ /\ Head(run[r].plan) = "connect" /\ run'[r].pc = "open"
                 /\ Open(r, IF faults' = faults THEN closed ELSE links)
              \/ /\ Head(run[r].plan) = "disconnect" /\ run'[r].pc = "inactive"
                 /\ run'[r].status = "inactive" /\ links' = IF faults' = faults THEN closed ELSE links
              \/ /\ Head(run[r].plan) = "remove" /\ run'[r].pc = "deltools"
                 /\ links' = IF faults' = faults THEN closed ELSE links
<1> DEFINE closed == [links EXCEPT ![run[r].link] = "closed"]
           base == IF faults' = faults THEN closed ELSE links
           p == Disconnected(run[r])
<1>1. /\ run[r] \in Request /\ Head(run[r].plan) \in {"connect", "disconnect", "remove"}
      /\ UNCHANGED <<row, tools, overlapped, losses, crashes>>
  BY Current DEF CloseLink, Proper, PointOK
<1>2. faults \in Nat
  BY McpAssumption DEF IInv, TypeOK
<1>3. /\ faults' = faults => conn' = 0
      /\ faults' # faults => faults' = faults + 1 /\ conn' = conn
      /\ IF Head(run[r].plan) = "connect" THEN Open(r, base) ELSE Become(r, p) /\ links' = base
  BY <1>2 DEF CloseLink
<1>4. /\ p.op = run[r].op /\ p.plan = run[r].plan /\ p.tools = run[r].tools /\ p.tool = run[r].tool
      /\ Head(run[r].plan) = "disconnect" => p.pc = "inactive" /\ p.status = "inactive"
      /\ Head(run[r].plan) # "disconnect" => p.pc = "deltools"
  BY <1>1 DEF Disconnected, Request
<1> HIDE DEF base, p
<1>5. CASE Head(run[r].plan) = "connect"
  <2>1. Open(r, base)
    BY <1>3, <1>5
  <2>2. QED
    BY <1>1, <1>3, <1>5, <2>1, OpenGoes DEF base
<1>6. CASE Head(run[r].plan) # "connect"
  <2>1. Become(r, p) /\ links' = base
    BY <1>3, <1>6
  <2>2. run'[r] = p /\ Only(r)
    BY <2>1, Becomes DEF Only
  <2>3. QED
    BY <1>1, <1>3, <1>4, <1>6, <2>1, <2>2 DEF GoesOn, base
<1>7. QED
  BY <1>5, <1>6

LEMMA OpenedGoes ==
    ASSUME IInv, NEW r \in Requests, OpenLink(r) \/ FailOpen(r)
    PROVE  /\ Only(r) /\ UNCHANGED <<row, tools, environment>>
           /\ \/ Head(run[r].plan) = "health" /\ Answered(r)
              \/ /\ Head(run[r].plan) = "connect" /\ GoesOn(r)
                 /\ OpenLink(r) => run'[r].pc = "list" /\ run'[r].status = "active"
                 /\ FailOpen(r) => run'[r].pc = "final" /\ run'[r].status = "error"
<1> DEFINE q == run[r]
<1>1. q \in Request /\ q.pc = "open" /\ Head(q.plan) \in {"connect", "health"}
  BY Current DEF OpenLink, FailOpen, Proper, PointOK
<1>2. UNCHANGED <<row, tools, environment>>
  BY DEF OpenLink, FailOpen
<1>3. CASE Head(q.plan) = "health"
  <2>1. Become(r, Finish("done"))
    BY <1>3 DEF OpenLink, FailOpen
  <2>2. QED
    BY <1>2, <1>3, <2>1, Becomes, FinishIs DEF Only, Answered, Ended
<1>4. CASE Head(q.plan) = "connect" /\ OpenLink(r)
  <2> DEFINE p == [q EXCEPT !.pc = "list", !.status = "active", !.link = 0]
  <2>1. Become(r, p)
    BY <1>4 DEF OpenLink
  <2>2. /\ p.pc = "list" /\ p.status = "active" /\ p.op = q.op /\ p.plan = q.plan
        /\ p.tools = q.tools /\ p.tool = q.tool
    BY <1>1 DEF Request
  <2>3. ~FailOpen(r)
    <3>1. FailOpen(r) => Become(r, [q EXCEPT !.pc = "final", !.status = "error", !.link = 0])
      BY <1>4 DEF FailOpen
    <3>2. [q EXCEPT !.pc = "final", !.status = "error", !.link = 0].pc = "final"
      BY <1>1 DEF Request
    <3> HIDE DEF p
    <3>3. run'[r] = p
      BY <2>1, Becomes
    <3>4. FailOpen(r) => run'[r].pc = "final"
      BY <3>1, <3>2, Becomes
    <3>5. QED
      BY <2>2, <3>3, <3>4
  <2> HIDE DEF p
  <2>4. QED
    BY <1>2, <1>4, <2>1, <2>2, <2>3, Becomes DEF Only, GoesOn
<1>5. CASE Head(q.plan) = "connect" /\ ~OpenLink(r)
  <2> DEFINE p == [q EXCEPT !.pc = "final", !.status = "error", !.link = 0]
  <2>1. Become(r, p)
    BY <1>5 DEF FailOpen
  <2>2. /\ p.pc = "final" /\ p.status = "error" /\ p.op = q.op /\ p.plan = q.plan
        /\ p.tools = q.tools /\ p.tool = q.tool
    BY <1>1 DEF Request
  <2> HIDE DEF p
  <2>3. QED
    BY <1>2, <1>5, <2>1, <2>2, Becomes DEF Only, GoesOn
<1>6. QED
  BY <1>1, <1>3, <1>4, <1>5

\* syncServerTools returns to connectServer or to the caller
Syncs(r) ==
    \/ Answered(r) /\ Head(run[r].plan) # "connect"
    \/ Head(run[r].plan) = "connect" /\ GoesOn(r) /\ run'[r].pc = "final" /\ run'[r].status = run[r].status

LEMMA SyncGoes ==
    ASSUME IInv, NEW r \in Requests, Become(r, Synced(run[r]))
    PROVE  Only(r) /\ Syncs(r)
<1> DEFINE q == run[r]
           p == Synced(q)
<1>1. q \in Request
  BY Current
<1>2. CASE Head(q.plan) = "connect"
  <2>1. /\ p.pc = "final" /\ p.status = q.status /\ p.op = q.op /\ p.plan = q.plan
        /\ p.tools = q.tools /\ p.tool = q.tool
    BY <1>1, <1>2 DEF Synced, Request
  <2> HIDE DEF p
  <2>2. run'[r] = p /\ Only(r)
    BY Becomes DEF Only, p
  <2>3. QED
    BY <1>2, <2>1, <2>2 DEF GoesOn, Syncs
<1>3. CASE Head(q.plan) # "connect"
  BY <1>3, Becomes, FinishIs DEF Synced, Only, Answered, Syncs, Ended
<1>4. QED
  BY <1>2, <1>3

\* The request stays in syncServerTools
Lists(r) == GoesOn(r) /\ run'[r].status = run[r].status

LEMMA ListGoes ==
    ASSUME IInv, NEW r \in Requests, ListTools(r)
    PROVE  /\ Only(r) /\ UNCHANGED <<row, tools, links, conn, environment>>
           /\ Syncs(r) \/ (Lists(r) /\ run'[r].pc = "clear")
<1> DEFINE p == At(run[r], "clear")
<1>1. /\ p.pc = "clear" /\ p.status = run[r].status /\ p.op = run[r].op /\ p.plan = run[r].plan
      /\ p.tools = run[r].tools /\ p.tool = run[r].tool
  BY Current DEF At, Request
<1>2. UNCHANGED <<row, tools, links, conn, environment>>
  BY DEF ListTools
<1>3. Become(r, p) \/ Become(r, Synced(run[r]))
  BY DEF ListTools
<1> HIDE DEF p
<1>4. CASE Become(r, p)
  BY <1>1, <1>2, <1>4, Becomes DEF Only, GoesOn, Lists
<1>5. CASE Become(r, Synced(run[r]))
  BY <1>2, <1>5, SyncGoes
<1>6. QED
  BY <1>3, <1>4, <1>5

LEMMA ClearGoes ==
    ASSUME IInv, NEW r \in Requests, ClearTools(r)
    PROVE  /\ Only(r) /\ tools' = Deleted /\ UNCHANGED <<row, links, conn, environment>>
           /\ Syncs(r) \/ (Lists(r) /\ run'[r].pc = "insert" /\ run'[r].left = Offered)
<1> DEFINE p == [run[r] EXCEPT !.pc = "insert", !.left = Offered]
<1>1. /\ p.pc = "insert" /\ p.left = Offered /\ p.status = run[r].status /\ p.op = run[r].op
      /\ p.plan = run[r].plan /\ p.tools = run[r].tools /\ p.tool = run[r].tool
  BY Current DEF Request
<1>2. tools' = Deleted /\ UNCHANGED <<row, links, conn, environment>>
  BY DEF ClearTools
<1>3. Become(r, p) \/ Become(r, Synced(run[r]))
  BY DEF ClearTools
<1> HIDE DEF p
<1>4. CASE Become(r, p)
  BY <1>1, <1>2, <1>4, Becomes DEF Only, GoesOn, Lists
<1>5. CASE Become(r, Synced(run[r]))
  BY <1>2, <1>5, SyncGoes
<1>6. QED
  BY <1>3, <1>4, <1>5

LEMMA InsertGoes ==
    ASSUME IInv, NEW r \in Requests, InsertTool(r)
    PROVE  /\ Only(r) /\ UNCHANGED <<row, links, conn, environment>>
           /\ \/ tools' = tools /\ Syncs(r)
              \/ /\ tools' = Append(tools, [name |-> run[r].left, at |-> "linked"])
                 /\ Syncs(r) \/ (Lists(r) /\ run'[r].pc = "insert" /\ run'[r].left = run[r].left - 1)
<1> DEFINE p == [run[r] EXCEPT !.left = @ - 1]
<1>1. /\ p.pc = "insert" /\ p.left = run[r].left - 1 /\ p.status = run[r].status /\ p.op = run[r].op
      /\ p.plan = run[r].plan /\ p.tools = run[r].tools /\ p.tool = run[r].tool
  BY Current DEF InsertTool, Request
<1>2. UNCHANGED <<row, links, conn, environment>>
  BY DEF InsertTool
<1>3. \/ tools' = tools /\ Become(r, Synced(run[r]))
      \/ /\ tools' = Append(tools, [name |-> run[r].left, at |-> "linked"])
         /\ Become(r, p) \/ Become(r, Synced(run[r]))
  BY DEF InsertTool
<1> HIDE DEF p
<1>4. CASE Become(r, p)
  <2>1. run'[r] = p /\ Only(r) /\ Lists(r)
    BY <1>1, <1>4, Becomes DEF Only, GoesOn, Lists
  <2>2. tools' = tools => Syncs(r)
    <3>1. Become(r, Synced(run[r])) => Syncs(r)
      BY SyncGoes
    <3>2. Append(tools, [name |-> run[r].left, at |-> "linked"]) # tools
      BY Current, AppendProperties
    <3>3. QED
      BY <1>3, <3>1, <3>2
  <2>3. QED
    BY <1>1, <1>2, <1>3, <2>1, <2>2
<1>5. CASE Become(r, Synced(run[r]))
  BY <1>2, <1>3, <1>5, SyncGoes
<1>6. QED
  BY <1>3, <1>4, <1>5

LEMMA FinalGoes ==
    ASSUME IInv, NEW r \in Requests, SaveFinal(r)
    PROVE  /\ Only(r) /\ Save(r) /\ UNCHANGED <<links, conn, environment>>
           /\ Answered(r) \/ (GoesOn(r) /\ run'[r].pc = "count")
<1> DEFINE p == At(run[r], "count")
<1>1. /\ p.pc = "count" /\ p.op = run[r].op /\ p.plan = run[r].plan
      /\ p.tools = run[r].tools /\ p.tool = run[r].tool
  BY Current DEF At, Request
<1>2. Save(r) /\ UNCHANGED <<links, conn, environment>>
  BY DEF SaveFinal
<1>3. Become(r, p) \/ \E answer \in {"done", "rejected"} : Become(r, Finish(answer))
  BY DEF SaveFinal
<1> HIDE DEF p
<1>4. CASE Become(r, p)
  BY <1>1, <1>2, <1>4, Becomes DEF Only, GoesOn
<1>5. CASE \E answer \in {"done", "rejected"} : Become(r, Finish(answer))
  BY <1>2, <1>5, Becomes, FinishIs DEF Only, Answered, Ended
<1>6. QED
  BY <1>3, <1>4, <1>5

LEMMA ErrorGoes ==
    ASSUME IInv, NEW r \in Requests, SaveError(r)
    PROVE  Only(r) /\ Save(r) /\ Answered(r) /\ UNCHANGED <<links, conn, environment>>
BY Becomes, FinishIs DEF SaveError, Only, Answered, Ended

\* The next method of a reconnect or an update begins
LEMMA ServerGoes ==
    ASSUME IInv, NEW r \in Requests, SaveServer(r)
    PROVE  /\ Only(r) /\ Save(r) /\ UNCHANGED <<links, conn, environment>>
           /\ \/ Answered(r)
              \/ /\ run'[r].pc = "load" /\ run'[r].op = run[r].op /\ run'[r].tools = run[r].tools
                 /\ run[r].plan # <<"connect">>
<1> DEFINE t == Tail(run[r].plan)
           p == [run[r] EXCEPT !.plan = t, !.pc = "load"]
<1>1. run[r] \in Request
  BY Current
<1>2. Save(r) /\ UNCHANGED <<links, conn, environment>>
  BY DEF SaveServer
<1>3. CASE Len(run[r].plan) = 1
  BY <1>2, <1>3, Becomes, FinishIs DEF SaveServer, NextMethod, Only, Answered, Ended
<1>4. CASE Len(run[r].plan) # 1
  <2>1. Become(r, p)
    BY <1>4 DEF SaveServer, NextMethod
  <2> HIDE DEF t
  <2>2. p.pc = "load" /\ p.op = run[r].op /\ p.tools = run[r].tools
    BY <1>1 DEF Request
  <2> HIDE DEF p
  <2>3. Len(<<"connect">>) = 1
    OBVIOUS
  <2>4. QED
    BY <1>2, <1>4, <2>1, <2>2, <2>3, Becomes DEF Only
<1>5. QED
  BY <1>3, <1>4

LEMMA RemovalGoes ==
    ASSUME IInv, NEW r \in Requests
    PROVE  /\ DeleteTools(r) =>
                 /\ Only(r) /\ GoesOn(r) /\ run'[r].pc = "remove" /\ tools' = Deleted
                 /\ UNCHANGED <<row, links, conn, environment>>
           /\ RemoveServer(r) =>
                 /\ Only(r) /\ Answered(r) /\ UNCHANGED <<tools, links, conn, environment>>
                 /\ IF Linked = {} THEN row' = "removed" ELSE row' = row
<1> DEFINE p == At(run[r], "remove")
<1>1. /\ p.pc = "remove" /\ p.op = run[r].op /\ p.plan = run[r].plan
      /\ p.tools = run[r].tools /\ p.tool = run[r].tool
  BY Current DEF At, Request
<1>2. ASSUME DeleteTools(r)
      PROVE  Become(r, p) /\ tools' = Deleted /\ UNCHANGED <<row, links, conn, environment>>
  BY <1>2 DEF DeleteTools
<1> HIDE DEF p
<1>3. ASSUME DeleteTools(r)
      PROVE  Only(r) /\ GoesOn(r) /\ run'[r].pc = "remove"
  BY <1>1, <1>2, <1>3, Becomes DEF Only, GoesOn
<1>4. ASSUME RemoveServer(r)
      PROVE  /\ Only(r) /\ Answered(r) /\ UNCHANGED <<tools, links, conn, environment>>
             /\ IF Linked = {} THEN row' = "removed" ELSE row' = row
  <2>1. \E answer \in {"done", "rejected"} : Become(r, Finish(answer))
    BY <1>4 DEF RemoveServer
  <2>2. Only(r) /\ Answered(r)
    BY <2>1, Becomes, FinishIs DEF Only, Answered, Ended
  <2>3. QED
    BY <1>4, <2>2 DEF RemoveServer
<1>5. QED
  BY <1>2, <1>3, <1>4

LEMMA CallsGo ==
    ASSUME IInv, NEW r \in Requests, Become(r, Calling(run[r]))
    PROVE  /\ Only(r)
           /\ Answered(r) \/ (/\ run'[r].pc = "calling" /\ run'[r].op = run[r].op
                              /\ run'[r].plan = run[r].plan /\ run'[r].tools = run[r].tools)
<1> DEFINE p == [run[r] EXCEPT !.pc = "calling", !.tool = 0]
<1>1. /\ p.pc = "calling" /\ p.op = run[r].op /\ p.plan = run[r].plan /\ p.tools = run[r].tools
  BY Current DEF Request
<1>2. Become(r, p) \/ Become(r, Finish("rejected"))
  BY DEF Calling
<1> HIDE DEF p
<1>3. QED
  BY <1>1, <1>2, Becomes, FinishIs DEF Only, Answered, Ended

LEMMA FindGoes ==
    ASSUME IInv, NEW r \in Requests, FindTool(r)
    PROVE  /\ Only(r) /\ UNCHANGED <<row, tools, links, conn, environment>>
           /\ \/ Answered(r)
              \/ /\ run'[r].pc \in {"count", "calling"} /\ run'[r].op = run[r].op
                 /\ run'[r].plan = run[r].plan /\ run'[r].tools = run[r].tools
<1>1. UNCHANGED <<row, tools, links, conn, environment>>
  BY DEF FindTool
<1>2. CASE Become(r, Calling(run[r]))
  BY <1>1, <1>2, CallsGo
<1>3. ASSUME NEW i \in Linked, Become(r, [run[r] EXCEPT !.pc = "count", !.tool = i])
      PROVE  /\ Only(r) /\ run'[r].pc = "count" /\ run'[r].op = run[r].op
             /\ run'[r].plan = run[r].plan /\ run'[r].tools = run[r].tools
  <2> DEFINE p == [run[r] EXCEPT !.pc = "count", !.tool = i]
  <2>1. /\ p.pc = "count" /\ p.op = run[r].op /\ p.plan = run[r].plan /\ p.tools = run[r].tools
    BY Current DEF Request
  <2>2. Become(r, p)
    BY <1>3
  <2> HIDE DEF p
  <2>3. QED
    BY <2>1, <2>2, Becomes DEF Only
<1>4. QED
  BY <1>1, <1>2, <1>3 DEF FindTool

\* Where the tool is found by its name
LEMMA FindByNameGoes ==
    ASSUME IInv, NEW r \in Requests, FindToolByName(r)
    PROVE  /\ Only(r) /\ UNCHANGED <<row, tools, links, conn, environment>>
           /\ \/ Answered(r)
              \/ /\ run'[r].pc \in {"load", "count"} /\ run'[r].op = run[r].op
                 /\ run'[r].plan = run[r].plan /\ run'[r].tools = run[r].tools
                 /\ run'[r].tool \in Linked
<1>1. UNCHANGED <<row, tools, links, conn, environment>>
  BY DEF FindToolByName
<1>2. CASE Become(r, Finish("rejected"))
  BY <1>1, <1>2, Becomes, FinishIs DEF Only, Answered, Ended
<1>3. ASSUME NEW i \in Linked,
             Become(r, [run[r] EXCEPT !.tool = i, !.pc = IF conn = 0 THEN "load" ELSE "count"])
      PROVE  /\ Only(r) /\ run'[r].pc \in {"load", "count"} /\ run'[r].op = run[r].op
             /\ run'[r].plan = run[r].plan /\ run'[r].tools = run[r].tools /\ run'[r].tool \in Linked
  <2> DEFINE point == IF conn = 0 THEN "load" ELSE "count"
             p == [run[r] EXCEPT !.tool = i, !.pc = point]
  <2>1. point \in {"load", "count"}
    OBVIOUS
  <2>2. Become(r, p)
    BY <1>3
  <2> HIDE DEF point
  <2>3. /\ p.pc = point /\ p.op = run[r].op /\ p.plan = run[r].plan /\ p.tools = run[r].tools
        /\ p.tool = i
    BY Current DEF Request
  <2> HIDE DEF p
  <2>4. QED
    BY <2>1, <2>2, <2>3, Becomes DEF Only
<1>4. QED
  BY <1>1, <1>2, <1>3 DEF FindToolByName

LEMMA CountGoes ==
    ASSUME IInv, NEW r \in Requests, CountUsage(r)
    PROVE  /\ Only(r) /\ UNCHANGED <<row, links, conn, environment>>
           /\ \/ tools' = tools
              \/ tools' = [tools EXCEPT ![run[r].tool].at =
                              IF run[r].op = "callByName" THEN "linked"
                              ELSE IF @ = "deleted" THEN "detached" ELSE @]
           /\ Answered(r) \/ (/\ run'[r].pc = "calling" /\ run'[r].op = run[r].op
                              /\ run'[r].plan = run[r].plan /\ run'[r].tools = run[r].tools)
<1>1. /\ UNCHANGED <<row, links, conn, environment>>
      /\ \/ tools' = tools
         \/ tools' = [tools EXCEPT ![run[r].tool].at =
                         IF run[r].op = "callByName" THEN "linked"
                         ELSE IF @ = "deleted" THEN "detached" ELSE @]
  BY DEF CountUsage
<1>2. CASE Become(r, Calling(run[r]))
  BY <1>1, <1>2, CallsGo
<1>3. CASE Become(r, Finish("rejected"))
  BY <1>1, <1>3, Becomes, FinishIs DEF Only, Answered, Ended
<1>4. QED
  BY <1>2, <1>3 DEF CountUsage

LEMMA HealthGoes ==
    ASSUME IInv, NEW r \in Requests, HealthCheck(r)
    PROVE  /\ Only(r) /\ UNCHANGED <<row, tools, conn, environment>>
           /\ \/ Answered(r) /\ UNCHANGED links
              \/ /\ row = "active" /\ conn = 0 /\ Open(r, links) /\ GoesOn(r) /\ run'[r].pc = "open"
<1>1. UNCHANGED <<row, tools, conn, environment>>
  BY DEF HealthCheck
<1>2. CASE row = "active" /\ conn = 0
  <2>1. Open(r, links)
    BY <1>2 DEF HealthCheck
  <2>2. QED
    BY <1>1, <1>2, <2>1, OpenGoes
<1>3. CASE ~(row = "active" /\ conn = 0)
  <2>1. Become(r, Finish("done")) /\ UNCHANGED links
    BY <1>3 DEF HealthCheck
  <2>2. QED
    BY <1>1, <2>1, Becomes, FinishIs DEF Only, Answered, Ended
<1>4. QED
  BY <1>2, <1>3

LEMMA ReturnGoes ==
    ASSUME IInv, NEW r \in Requests, CallTool(r)
    PROVE  Only(r) /\ Answered(r) /\ UNCHANGED <<row, tools, links, conn, environment>>
BY Becomes, FinishIs DEF CallTool, Only, Answered, Ended

\* A request begins
LEMMA BeginGoes ==
    ASSUME IInv, NEW r \in Requests, CreateServer(r) \/ CallService(r)
    PROVE  /\ Only(r) /\ UNCHANGED <<tools, links, conn, faults, losses, crashes>>
           /\ CallService(r) => row' = row
           /\ CreateServer(r) => row = "unborn" /\ row' = "inactive" /\ run'[r].pc = "load"
           /\ run[r].pc = "idle" /\ run'[r].tools = {}
           /\ run'[r].pc \in {"load", "findname", "health"}
           /\ run'[r].op = "callByName" => run'[r].pc = "findname" /\ run'[r].plan = <<"connect">>
           /\ ~overlapped' => ~overlapped /\ \A q \in Requests : ~Live(q)
<1>1. /\ CallService(r) => UNCHANGED <<row, tools, links, conn, faults, losses, crashes>>
      /\ CreateServer(r) => /\ row = "unborn" /\ row' = "inactive"
                            /\ UNCHANGED <<tools, links, conn, faults, losses, crashes>>
  BY DEF CallService, CreateServer
<1>2. \E op \in DOMAIN Plan, point \in {"load", "findname", "health"} :
         /\ Begins(r, op, point)
         /\ op = "callByName" => point = "findname"
         /\ CreateServer(r) => point = "load"
  <2>1. CASE CreateServer(r)
    <3>1. Begins(r, "create", "load") /\ "create" \in DOMAIN Plan
      BY <2>1 DEF CreateServer, Plan
    <3>2. QED
      BY <3>1
  <2>2. CASE ~CreateServer(r)
    <3>1. CASE \E op \in {"connect", "disconnect", "reconnect", "rename", "update",
                         "remove", "sync", "call"} : Begins(r, op, "load")
      BY <2>2, <3>1 DEF Plan
    <3>2. CASE Begins(r, "callByName", "findname")
      <4>1. "callByName" \in DOMAIN Plan
        BY DEF Plan
      <4>2. QED
        BY <2>2, <3>2, <4>1
    <3>3. CASE Begins(r, "health", "health")
      <4>1. "health" \in DOMAIN Plan
        BY DEF Plan
      <4>2. QED
        BY <2>2, <3>3, <4>1
    <3>4. QED
      BY <2>2, <3>1, <3>2, <3>3 DEF CallService
  <2>3. QED
    BY <2>1, <2>2
<1>3. PICK op \in DOMAIN Plan, point \in {"load", "findname", "health"} :
         /\ Begins(r, op, point)
         /\ op = "callByName" => point = "findname"
         /\ CreateServer(r) => point = "load"
  BY <1>2
<1> DEFINE p == [IdleRequest EXCEPT !.op = op, !.pc = point, !.plan = Plan[op]]
<1>4. Plan["callByName"] = <<"connect">>
  BY DEF Plan
<1>5. p.pc = point /\ p.op = op /\ p.plan = Plan[op] /\ p.tools = {}
  BY DEF IdleRequest
<1>6. /\ Become(r, p) /\ run[r].pc = "idle"
      /\ overlapped' = (overlapped \/ \E q \in Requests : Live(q))
  BY <1>3 DEF Begins
<1> HIDE DEF p
<1>7. run'[r] = p /\ Only(r)
  BY <1>6, Becomes DEF Only
<1>8. overlapped \in BOOLEAN /\ overlapped' \in BOOLEAN
  BY <1>6 DEF IInv, TypeOK
<1>9. ~overlapped' => ~overlapped /\ \A q \in Requests : ~Live(q)
  BY <1>6, <1>8
<1>10. QED
  BY <1>1, <1>3, <1>4, <1>5, <1>6, <1>7, <1>9

\* A query fails: the request is answered, stores the error, or has synchronised
LEMMA FailGoes ==
    ASSUME IInv, NEW r \in Requests, QueryFails(r)
    PROVE  /\ Only(r) /\ UNCHANGED <<row, tools, links, conn, overlapped, losses, crashes>>
           /\ Live(r) /\ faults' = faults + 1 /\ faults' # 0
           /\ \/ Answered(r)
              \/ GoesOn(r) /\ run[r].pc \in {"announce", "final", "clear", "insert"}
                 /\ run'[r].pc \in {"error", "final"}
<1> DEFINE q == run[r]
<1>1. q \in Request /\ faults \in Nat
  BY Current, McpAssumption DEF IInv, TypeOK
<1>2. /\ UNCHANGED <<row, tools, links, conn, overlapped, losses, crashes>>
      /\ Live(r) /\ faults' = faults + 1
  BY DEF QueryFails
<1>3. faults' # 0
  BY <1>1, <1>2
<1>4. CASE q.pc \in {"announce", "final"}
  <2> DEFINE p == [q EXCEPT !.pc = "error", !.status = "error"]
  <2>1. Become(r, p)
    BY <1>4 DEF QueryFails
  <2>2. /\ p.pc = "error" /\ p.op = q.op /\ p.plan = q.plan /\ p.tools = q.tools /\ p.tool = q.tool
    BY <1>1 DEF Request
  <2> HIDE DEF p
  <2>3. QED
    BY <1>2, <1>3, <1>4, <2>1, <2>2, Becomes DEF Only, GoesOn
<1>5. CASE q.pc \in {"clear", "insert"}
  <2>1. Become(r, Synced(q))
    BY <1>5 DEF QueryFails
  <2>2. QED
    BY <1>2, <1>3, <1>5, <2>1, SyncGoes DEF Syncs
<1>6. CASE q.pc \notin {"announce", "final", "clear", "insert"}
  <2>1. Become(r, Finish("rejected"))
    BY <1>6 DEF QueryFails
  <2>2. QED
    BY <1>2, <1>3, <2>1, Becomes, FinishIs DEF Only, Answered, Ended
<1>7. QED
  BY <1>4, <1>5, <1>6

-----------------------------------------------------------------------------
(* The names of the tools *)

\* No row of a tool goes, and none changes its name
KeepsNames ==
    /\ DOMAIN tools \subseteq DOMAIN tools'
    /\ \A i \in DOMAIN tools : tools'[i].name = tools[i].name

LEMMA DistinctKept ==
    ASSUME KeepsNames, NEW S, NEW T, S \subseteq DOMAIN tools, DistinctIn(S, tools), T \subseteq S
    PROVE  DistinctIn(T, tools')
<1> SUFFICES ASSUME NEW i \in T, NEW j \in T, tools'[i].name = tools'[j].name PROVE i = j
  BY DEF DistinctIn
<1>1. i \in S /\ j \in S /\ i \in DOMAIN tools /\ j \in DOMAIN tools
  OBVIOUS
<1>2. tools[i].name = tools[j].name
  BY <1>1 DEF KeepsNames
<1>3. QED
  BY <1>1, <1>2 DEF DistinctIn

\* Only tools of the copy are linked after its save
LEMMA SaveTools ==
    ASSUME IInv, NEW r \in Requests, Save(r)
    PROVE  KeepsNames /\ DOMAIN tools' = DOMAIN tools /\ Linked' \subseteq run[r].tools
<1>1. DOMAIN tools' = DOMAIN tools
  BY DEF Save
<1>2. ASSUME NEW i \in DOMAIN tools
      PROVE  /\ tools[i] \in Tool
             /\ tools'[i] = IF tools[i].at = "deleted" THEN tools[i]
                            ELSE [tools[i] EXCEPT !.at = IF i \in run[r].tools THEN "linked" ELSE "detached"]
  BY <1>2, Current DEF Save
<1>3. ASSUME NEW i \in DOMAIN tools
      PROVE  /\ tools'[i].name = tools[i].name
             /\ tools'[i].at = "linked" => i \in run[r].tools
  BY <1>2, <1>3 DEF Tool
<1>4. QED
  BY <1>1, <1>3 DEF KeepsNames, Linked

LEMMA DeleteTool ==
    ASSUME IInv, tools' = Deleted
    PROVE  KeepsNames /\ DOMAIN tools' = DOMAIN tools /\ Linked' = {}
<1>1. DOMAIN tools' = DOMAIN tools
  BY DEF Deleted
<1>2. ASSUME NEW i \in DOMAIN tools
      PROVE  /\ tools[i] \in Tool
             /\ tools'[i] = IF tools[i].at = "linked" THEN [tools[i] EXCEPT !.at = "deleted"] ELSE tools[i]
  BY <1>2 DEF Deleted, IInv, TypeOK
<1>3. ASSUME NEW i \in DOMAIN tools
      PROVE  tools'[i].name = tools[i].name /\ tools'[i].at # "linked"
  BY <1>2, <1>3 DEF Tool
<1>4. QED
  BY <1>1, <1>3 DEF KeepsNames, Linked

\* The tool that is inserted is the only one of its name, if those before it have
\* greater names
LEMMA AppendTool ==
    ASSUME IInv, NEW n \in Nat, tools' = Append(tools, [name |-> n, at |-> "linked"]),
           DistinctIn(Linked, tools), \A i \in Linked : tools[i].name > n
    PROVE  KeepsNames /\ DistinctIn(Linked, tools)' /\ \A i \in Linked' : tools'[i].name >= n
<1> DEFINE new == Len(tools) + 1
           t == [name |-> n, at |-> "linked"]
<1>1. tools \in Seq(Tool) /\ Len(tools) \in Nat /\ DOMAIN tools = 1..Len(tools)
  BY DEF IInv, TypeOK
<1>2. t.name = n /\ t.at = "linked" /\ tools' = Append(tools, t)
  OBVIOUS
<1> HIDE DEF t
<1>3. /\ DOMAIN tools' = 1..new /\ tools'[new] = t
      /\ \A i \in 1..Len(tools) : tools'[i] = tools[i]
  BY <1>1, <1>2, AppendProperties
<1>4. new \notin DOMAIN tools /\ DOMAIN tools' = DOMAIN tools \cup {new}
  BY <1>1, <1>3
<1>5. KeepsNames
  BY <1>1, <1>3, <1>4 DEF KeepsNames
<1>6. Linked' = Linked \cup {new}
  BY <1>1, <1>2, <1>3, <1>4 DEF Linked
<1>7. \A i \in Linked : tools'[i] = tools[i] /\ tools[i] \in Tool
  BY <1>1, <1>3 DEF Linked
<1>8. \A i \in Linked : tools[i].name \in Nat
  BY <1>7 DEF Tool
<1>9. ASSUME NEW i \in Linked
      PROVE  tools'[i].name >= n /\ tools'[i].name # n
  <2>1. tools[i].name \in Nat /\ tools[i].name > n
    BY <1>8
  <2>2. \A a \in Nat : a > n => a >= n /\ a # n
    OBVIOUS
  <2>3. QED
    BY <1>7, <2>1, <2>2
<1>13. \A i \in Linked' : tools'[i].name >= n
  <2>1. n >= n
    OBVIOUS
  <2>2. tools'[new].name = n
    BY <1>2, <1>3
  <2>3. QED
    BY <1>6, <1>9, <2>1, <2>2
<1> SUFFICES ASSUME NEW i \in Linked', NEW j \in Linked', tools'[i].name = tools'[j].name PROVE i = j
  BY <1>5, <1>13 DEF DistinctIn
<1>10. CASE i \in Linked /\ j \in Linked
  BY <1>7, <1>10 DEF DistinctIn
<1>11. QED
  BY <1>2, <1>3, <1>6, <1>9, <1>10

\* Saving a tool links it, if it is executeToolByName's
LEMMA CountTool ==
    ASSUME IInv, NEW k, NEW name \in BOOLEAN,
           tools' = [tools EXCEPT ![k].at =
                        IF name THEN "linked" ELSE IF @ = "deleted" THEN "detached" ELSE @]
    PROVE  KeepsNames /\ IF name THEN Linked' \subseteq Linked \cup {k} ELSE Linked' \subseteq Linked
<1>1. DOMAIN tools' = DOMAIN tools
  OBVIOUS
<1>2. ASSUME NEW i \in DOMAIN tools
      PROVE  /\ tools[i] \in Tool
             /\ i # k => tools'[i] = tools[i]
             /\ i = k => tools'[i] = [tools[k] EXCEPT !.at = 
                     IF name THEN "linked" ELSE IF @ = "deleted" THEN "detached" ELSE @]
  BY <1>2 DEF IInv, TypeOK
<1>3. ASSUME NEW i \in DOMAIN tools
      PROVE  /\ tools'[i].name = tools[i].name
             /\ i # k \/ ~name => (tools'[i].at = "linked" => tools[i].at = "linked")
  BY <1>2, <1>3 DEF Tool
<1>4. QED
  BY <1>1, <1>3 DEF KeepsNames, Linked

\* What a step of the only request must show
LEMMA NamesStep ==
    ASSUME NInv, NEW r \in Requests, Live(r), Only(r), ~overlapped,
           DistinctIn(Linked, tools)', Live(r)' => ToolsAt(run[r])'
    PROVE  NInv'
<1>1. \A o \in Requests \ {r} : ~Live(o)
  BY DEF NInv, Alone
<1>2. \A o \in Requests \ {r} : ~Live(o)'
  BY <1>1 DEF Only, Live
<1>3. Alone'
  BY <1>2 DEF Alone
<1>4. \A o \in Requests : Live(o)' => ToolsAt(run[o])'
  BY <1>2
<1>5. QED
  BY <1>3, <1>4 DEF NInv

LEMMA AnsweredNames ==
    ASSUME NEW r \in Requests, Answered(r)
    PROVE  ~Live(r)'
BY DEF Answered, Live

\* The request goes on with what it had
LEMMA GoesOnNames ==
    ASSUME NEW r \in Requests, ToolsAt(run[r]), GoesOn(r), KeepsNames, Live(r),
           run'[r].pc = "insert" => \A i \in Linked' : tools'[i].name > run'[r].left,
           run'[r].pc \in Connecting \cup {"deltools", "remove", "inactive", "error"},
           run[r].op = "callByName" /\ run'[r].pc \in Connecting => run[r].pc \in Connecting
    PROVE  ToolsAt(run[r])'
<1>1. run[r].tools \subseteq DOMAIN tools /\ DistinctIn(run[r].tools, tools)
  BY DEF ToolsAt
<1>2. run'[r].tools \subseteq DOMAIN tools' /\ DistinctIn(run'[r].tools, tools')
  BY <1>1, DistinctKept DEF GoesOn, KeepsNames
<1>3. run'[r].op = "callByName" =>
          /\ run'[r].plan = <<"connect">> /\ run'[r].pc \notin {"findtool", "load", "count"}
          /\ run'[r].pc \in Connecting => run'[r].tool \in run'[r].tools
  BY DEF ToolsAt, GoesOn, Connecting
<1>4. QED
  BY <1>2, <1>3 DEF ToolsAt

LEMMA SameNames == ASSUME tools' = tools PROVE KeepsNames /\ Linked' = Linked
BY DEF KeepsNames, Linked

-----------------------------------------------------------------------------
(* The names, action by action *)

\* In a history without overlap, a request that makes a step is the only one
LEMMA AdvanceIsLive ==
    ASSUME NEW r \in Requests, Advance(r) \/ QueryFails(r)
    PROVE  Live(r)
BY DEF Advance, QueryFails, LoadServer, Announce, CloseLink, OpenLink, FailOpen, ListTools, ClearTools,
    InsertTool, SaveFinal, SaveError, SaveServer, DeleteTools, RemoveServer, FindTool,
    FindToolByName, CountUsage, CallTool, HealthCheck, Live, Ended

LEMMA BeginNames ==
    ASSUME IInv, NInv, NEW r \in Requests, CreateServer(r) \/ CallService(r)
    PROVE  NInv'
<1> SUFFICES ASSUME ~overlapped' PROVE NInv'
  BY DEF NInv
<1>1. /\ Only(r) /\ tools' = tools /\ run'[r].tools = {} /\ run'[r].pc \in {"load", "findname", "health"}
      /\ run'[r].op = "callByName" => run'[r].pc = "findname" /\ run'[r].plan = <<"connect">>
      /\ ~overlapped /\ \A q \in Requests : ~Live(q)
  BY BeginGoes
<1>2. \A o \in Requests \ {r} : ~Live(o)'
  BY <1>1 DEF Only, Live
<1>3. Alone'
  BY <1>2 DEF Alone
<1>4. DistinctIn(Linked, tools)'
  BY <1>1, SameNames DEF NInv
<1>5. ToolsAt(run[r])'
  BY <1>1 DEF ToolsAt, DistinctIn, Connecting
<1>6. QED
  BY <1>2, <1>3, <1>4, <1>5 DEF NInv

LEMMA LoadNames ==
    ASSUME IInv, NInv, ~overlapped, NEW r \in Requests, LoadServer(r)
    PROVE  NInv'
<1>1. Live(r) /\ run[r].pc = "load" /\ ToolsAt(run[r]) /\ DistinctIn(Linked, tools)
  BY AdvanceIsLive DEF Advance, LoadServer, NInv
<1>2. Only(r) /\ tools' = tools /\ KeepsNames /\ Linked' = Linked
  BY LoadGoes, SameNames
<1>3. CASE Answered(r)
  BY <1>1, <1>2, <1>3, NamesStep, AnsweredNames
<1>4. CASE ~Answered(r)
  <2>1. /\ run'[r].op = run[r].op /\ run'[r].plan = run[r].plan /\ run'[r].tool = run[r].tool
        /\ run'[r].tools \in {run[r].tools, Linked}
        /\ run'[r].pc # "insert" /\ run'[r].pc # "count"
        /\ Head(run[r].plan) = "connect" => run'[r].pc = "announce" /\ run'[r].tools = Linked
    BY <1>4, LoadGoes
  <2>2. Linked \subseteq DOMAIN tools
    BY DEF Linked
  <2>3. run'[r].tools \subseteq DOMAIN tools' /\ DistinctIn(run'[r].tools, tools')
    BY <1>1, <1>2, <2>1, <2>2 DEF ToolsAt
  <2>4. run'[r].op = "callByName" =>
            run'[r].plan = <<"connect">> /\ run'[r].pc = "announce" /\ run'[r].tool \in run'[r].tools
    <3>1. Head(<<"connect">>) = "connect"
      OBVIOUS
    <3>2. QED
      BY <1>1, <2>1, <3>1 DEF ToolsAt
  <2>5. ToolsAt(run[r])'
    BY <2>1, <2>3, <2>4 DEF ToolsAt
  <2>6. QED
    BY <1>1, <1>2, <2>5, NamesStep
<1>5. QED
  BY <1>3, <1>4

\* The copy that is saved links some of its tools
LEMMA SavedNames ==
    ASSUME IInv, NEW r \in Requests, ToolsAt(run[r]), Save(r)
    PROVE  /\ KeepsNames /\ DOMAIN tools' = DOMAIN tools /\ DistinctIn(Linked, tools)'
           /\ Linked' \subseteq run[r].tools
           /\ run[r].tools \subseteq DOMAIN tools' /\ DistinctIn(run[r].tools, tools')
BY SaveTools, DistinctKept DEF ToolsAt

LEMMA AnnounceNames ==
    ASSUME IInv, NInv, ~overlapped, NEW r \in Requests, Announce(r)
    PROVE  NInv'
<1>1. Live(r) /\ run[r].pc = "announce" /\ ToolsAt(run[r])
  BY AdvanceIsLive DEF Advance, Announce, NInv
<1>2. Only(r) /\ GoesOn(r) /\ Save(r) /\ run'[r].pc \in {"open", "close"}
  BY AnnounceGoes
<1>3. KeepsNames /\ DistinctIn(Linked, tools)'
  BY <1>1, <1>2, SavedNames
<1>4. ToolsAt(run[r])'
  BY <1>1, <1>2, <1>3, GoesOnNames DEF Connecting
<1>5. QED
  BY <1>1, <1>2, <1>3, <1>4, NamesStep

\* The steps that leave the tools alone
LEMMA QuietNames ==
    ASSUME IInv, NInv, ~overlapped, NEW r \in Requests, Live(r), Only(r), tools' = tools,
           \/ Answered(r)
           \/ /\ GoesOn(r)
              /\ run'[r].pc \in (Connecting \ {"insert"}) \cup {"deltools", "remove", "inactive", "error"}
              /\ run[r].op = "callByName" /\ run'[r].pc \in Connecting => run[r].pc \in Connecting
    PROVE  NInv'
<1>1. ToolsAt(run[r]) /\ KeepsNames /\ DistinctIn(Linked, tools)'
  BY SameNames DEF NInv
<1>2. CASE Answered(r)
  BY <1>1, <1>2, NamesStep, AnsweredNames
<1>3. CASE ~Answered(r)
  <2>1. ToolsAt(run[r])'
    BY <1>1, <1>3, GoesOnNames
  <2>2. QED
    BY <1>1, <2>1, NamesStep
<1>4. QED
  BY <1>2, <1>3

LEMMA LinkNames ==
    ASSUME IInv, NInv, ~overlapped, NEW r \in Requests,
           CloseLink(r) \/ OpenLink(r) \/ FailOpen(r) \/ ListTools(r) \/ HealthCheck(r)
           \/ RemoveServer(r) \/ CallTool(r)
    PROVE  NInv'
<1>1. Live(r)
  BY AdvanceIsLive DEF Advance
<1>2. CASE CloseLink(r)
  <2>1. /\ Only(r) /\ GoesOn(r) /\ tools' = tools /\ run[r].pc = "close"
        /\ run'[r].pc \in {"open", "inactive", "deltools"}
    BY <1>2, CloseGoes DEF CloseLink
  <2>2. QED
    BY <1>1, <2>1, QuietNames DEF Connecting
<1>3. CASE OpenLink(r) \/ FailOpen(r)
  <2>1. /\ Only(r) /\ tools' = tools /\ run[r].pc = "open"
        /\ Answered(r) \/ (GoesOn(r) /\ run'[r].pc \in {"list", "final"})
    BY <1>3, OpenedGoes DEF OpenLink, FailOpen
  <2>2. QED
    BY <1>1, <2>1, QuietNames DEF Connecting
<1>4. CASE ListTools(r)
  <2>1. /\ Only(r) /\ tools' = tools /\ run[r].pc = "list"
        /\ Answered(r) \/ (GoesOn(r) /\ run'[r].pc \in {"clear", "final"})
    BY <1>4, ListGoes DEF ListTools, Syncs, Lists
  <2>2. QED
    BY <1>1, <2>1, QuietNames DEF Connecting
<1>5. CASE HealthCheck(r)
  <2>1. /\ Only(r) /\ tools' = tools /\ run[r].pc = "health"
        /\ Answered(r) \/ (GoesOn(r) /\ run'[r].pc = "open")
    BY <1>5, HealthGoes DEF HealthCheck
  <2>2. run[r].op # "callByName"
    <3>1. Head(run[r].plan) = "health"
      BY <2>1, Current DEF Proper, PointOK
    <3>2. Head(<<"connect">>) = "connect"
      OBVIOUS
    <3>3. QED
      BY <1>1, <3>1, <3>2 DEF NInv, ToolsAt
  <2>3. QED
    BY <1>1, <2>1, <2>2, QuietNames DEF Connecting
<1>6. CASE RemoveServer(r)
  BY <1>1, <1>6, RemovalGoes, QuietNames
<1>7. CASE CallTool(r)
  BY <1>1, <1>7, ReturnGoes, QuietNames
<1>8. QED
  BY <1>2, <1>3, <1>4, <1>5, <1>6, <1>7

LEMMA ClearNames ==
    ASSUME IInv, NInv, ~overlapped, NEW r \in Requests, ClearTools(r) \/ DeleteTools(r)
    PROVE  NInv'
<1>1. Live(r) /\ ToolsAt(run[r]) /\ run[r].pc \in {"clear", "deltools"}
  BY AdvanceIsLive DEF Advance, NInv, ClearTools, DeleteTools
<1>2. /\ Only(r) /\ tools' = Deleted
      /\ \/ Answered(r)
         \/ GoesOn(r) /\ \/ run'[r].pc = "remove"
                         \/ run[r].pc = "clear" /\ run'[r].pc \in {"insert", "final"}
  BY ClearGoes, RemovalGoes DEF ClearTools, Syncs, Lists
<1>3. KeepsNames /\ Linked' = {}
  BY <1>2, DeleteTool
<1>4. DistinctIn(Linked, tools)'
  BY <1>3 DEF DistinctIn
<1>5. CASE Answered(r)
  BY <1>1, <1>2, <1>4, <1>5, NamesStep, AnsweredNames
<1>6. CASE ~Answered(r)
  <2>1. ToolsAt(run[r])'
    BY <1>1, <1>2, <1>3, <1>6, GoesOnNames DEF Connecting
  <2>2. QED
    BY <1>1, <1>2, <1>4, <2>1, NamesStep
<1>7. QED
  BY <1>5, <1>6

LEMMA InsertNames ==
    ASSUME IInv, NInv, ~overlapped, NEW r \in Requests, InsertTool(r)
    PROVE  NInv'
<1>1. /\ Live(r) /\ ToolsAt(run[r]) /\ run[r].pc = "insert" /\ DistinctIn(Linked, tools)
      /\ run[r].left \in Nat /\ \A i \in Linked : tools[i].name > run[r].left
  BY AdvanceIsLive, Current DEF Advance, NInv, InsertTool, ToolsAt, Request
<1>2. Only(r)
  BY InsertGoes
<1>3. CASE tools' = tools /\ Syncs(r)
  BY <1>1, <1>2, <1>3, QuietNames DEF Syncs, Connecting
<1>4. CASE tools' = Append(tools, [name |-> run[r].left, at |-> "linked"])
  <2> DEFINE n == run[r].left
  <2>1. KeepsNames /\ DistinctIn(Linked, tools)' /\ \A i \in Linked' : tools'[i].name >= n
    BY <1>1, <1>4, AppendTool
  <2>2. tools' # tools
    BY <1>4, Current, AppendProperties
  <2>3. Syncs(r) \/ (Lists(r) /\ run'[r].pc = "insert" /\ run'[r].left = n - 1)
    BY <2>2, InsertGoes
  <2>4. CASE Answered(r)
    BY <1>1, <1>2, <2>1, <2>4, NamesStep, AnsweredNames
  <2>5. CASE ~Answered(r)
    <3>1. GoesOn(r) /\ \/ run'[r].pc = "final"
                       \/ run'[r].pc = "insert" /\ run'[r].left = n - 1
      BY <2>3, <2>5 DEF Syncs, Lists
    <3>2. tools' \in Seq(Tool)
      <4>1. IInv'
        BY InsertToolType
      <4>2. QED
        BY <4>1 DEF IInv, TypeOK
    <3>3. ASSUME NEW i \in Linked'
          PROVE  tools'[i].name \in Nat
      <4>1. i \in DOMAIN tools'
        BY <3>3 DEF Linked
      <4>2. tools'[i] \in Tool
        BY <3>2, <4>1
      <4>3. QED
        BY <4>2 DEF Tool
    <3>4. \A a \in Nat : a >= n => a > n - 1
      BY <1>1
    <3>5. \A i \in Linked' : tools'[i].name > n - 1
      BY <2>1, <3>3, <3>4
    <3>6. ToolsAt(run[r])'
      BY <1>1, <2>1, <3>1, <3>5, GoesOnNames DEF Connecting
    <3>7. QED
      BY <1>1, <1>2, <2>1, <3>6, NamesStep
  <2>6. QED
    BY <2>4, <2>5
<1>5. QED
  BY <1>3, <1>4, InsertGoes

LEMMA FinalNames ==
    ASSUME IInv, NInv, ~overlapped, NEW r \in Requests, SaveFinal(r) \/ SaveError(r)
    PROVE  NInv'
<1>1. Live(r) /\ ToolsAt(run[r]) /\ run[r].pc \in {"final", "error"}
  BY AdvanceIsLive DEF Advance, NInv, SaveFinal, SaveError
<1>2. /\ Only(r) /\ Save(r)
      /\ Answered(r) \/ (run[r].pc = "final" /\ GoesOn(r) /\ run'[r].pc = "count")
  BY FinalGoes, ErrorGoes DEF SaveFinal
<1>3. /\ KeepsNames /\ DistinctIn(Linked, tools)' /\ Linked' \subseteq run[r].tools
      /\ run[r].tools \subseteq DOMAIN tools' /\ DistinctIn(run[r].tools, tools')
  BY <1>1, <1>2, SavedNames
<1>4. CASE Answered(r)
  BY <1>1, <1>2, <1>3, <1>4, NamesStep, AnsweredNames
<1>5. CASE ~Answered(r)
  <2>1. run[r].op = "callByName" => run[r].tool \in run[r].tools /\ run[r].plan = <<"connect">>
    BY <1>1, <1>2, <1>5 DEF ToolsAt, Connecting
  <2>2. run[r].op = "callByName" =>
            run[r].tool \in DOMAIN tools' /\ DistinctIn(Linked' \cup {run[r].tool}, tools')
    BY <1>3, <2>1 DEF DistinctIn
  <2>3. ToolsAt(run[r])'
    BY <1>2, <1>3, <1>5, <2>1, <2>2 DEF ToolsAt, GoesOn, Connecting
  <2>4. QED
    BY <1>1, <1>2, <1>3, <2>3, NamesStep
<1>6. QED
  BY <1>4, <1>5

LEMMA ServerNames ==
    ASSUME IInv, NInv, ~overlapped, NEW r \in Requests, SaveServer(r)
    PROVE  NInv'
<1>1. Live(r) /\ ToolsAt(run[r])
  BY AdvanceIsLive DEF Advance, NInv
<1>2. /\ Only(r) /\ Save(r)
      /\ \/ Answered(r)
         \/ /\ run'[r].pc = "load" /\ run'[r].op = run[r].op /\ run'[r].tools = run[r].tools
            /\ run[r].plan # <<"connect">>
  BY ServerGoes
<1>3. /\ DistinctIn(Linked, tools)'
      /\ run[r].tools \subseteq DOMAIN tools' /\ DistinctIn(run[r].tools, tools')
  BY <1>1, <1>2, SavedNames
<1>4. CASE Answered(r)
  BY <1>1, <1>2, <1>3, <1>4, NamesStep, AnsweredNames
<1>5. CASE ~Answered(r)
  <2>1. run'[r].op # "callByName"
    BY <1>1, <1>2, <1>5 DEF ToolsAt
  <2>2. ToolsAt(run[r])'
    BY <1>2, <1>3, <1>5, <2>1 DEF ToolsAt
  <2>3. QED
    BY <1>1, <1>2, <1>3, <2>2, NamesStep
<1>6. QED
  BY <1>4, <1>5

LEMMA FindNames ==
    ASSUME IInv, NInv, ~overlapped, NEW r \in Requests, FindTool(r) \/ FindToolByName(r)
    PROVE  NInv'
<1>1. Live(r) /\ ToolsAt(run[r]) /\ DistinctIn(Linked, tools) /\ run[r].pc \in {"findtool", "findname"}
  BY AdvanceIsLive DEF Advance, NInv, FindTool, FindToolByName
<1>2. Only(r) /\ tools' = tools
  BY FindGoes, FindByNameGoes
<1>3. KeepsNames /\ Linked' = Linked /\ DistinctIn(Linked, tools)'
  BY <1>1, <1>2, SameNames
<1>4. CASE Answered(r)
  BY <1>1, <1>2, <1>3, <1>4, NamesStep, AnsweredNames
<1>5. CASE ~Answered(r)
  <2>1. /\ run'[r].op = run[r].op /\ run'[r].plan = run[r].plan /\ run'[r].tools = run[r].tools
        /\ run'[r].pc \in {"load", "count", "calling"}
        /\ run[r].op = "callByName" => run'[r].tool \in Linked /\ run'[r].pc \in {"load", "count"}
    <3>1. CASE FindTool(r)
      <4>1. run[r].op # "callByName"
        BY <1>1, <3>1 DEF FindTool, ToolsAt
      <4>2. QED
        BY <1>5, <3>1, <4>1, FindGoes
    <3>2. CASE FindToolByName(r)
      BY <1>5, <3>2, FindByNameGoes
    <3>3. QED
      BY <3>1, <3>2
  <2>2. run[r].op = "callByName" =>
           run'[r].tool \in DOMAIN tools /\ Linked \cup {run'[r].tool} = Linked
    BY <2>1 DEF Linked
  <2>3. run'[r].tools \subseteq DOMAIN tools' /\ DistinctIn(run'[r].tools, tools')
    BY <1>1, <1>2, <2>1 DEF ToolsAt
  <2>4. run'[r].op = "callByName" =>
           /\ run'[r].plan = <<"connect">>
           /\ run'[r].tool \in Linked' /\ run'[r].tool \in DOMAIN tools'
           /\ DistinctIn(Linked' \cup {run'[r].tool}, tools')
    BY <1>1, <1>2, <1>3, <2>1, <2>2 DEF ToolsAt
  <2>5. ToolsAt(run[r])'
    BY <2>1, <2>3, <2>4 DEF ToolsAt, Connecting
  <2>6. QED
    BY <1>1, <1>2, <1>3, <2>5, NamesStep
<1>6. QED
  BY <1>4, <1>5

LEMMA CountNames ==
    ASSUME IInv, NInv, ~overlapped, NEW r \in Requests, CountUsage(r)
    PROVE  NInv'
<1>1. Live(r) /\ ToolsAt(run[r]) /\ DistinctIn(Linked, tools) /\ run[r].pc = "count"
  BY AdvanceIsLive DEF Advance, NInv, CountUsage
<1> DEFINE k == run[r].tool
           name == (run[r].op = "callByName")
<1>2. KeepsNames /\ IF name THEN Linked' \subseteq Linked \cup {k} ELSE Linked' \subseteq Linked
  <2>1. CASE tools' = tools
    BY <2>1, SameNames
  <2>2. CASE tools' # tools
    <3>1. tools' = [tools EXCEPT ![k].at =
                       IF name THEN "linked" ELSE IF @ = "deleted" THEN "detached" ELSE @]
      BY <2>2, CountGoes
    <3>2. QED
      BY <3>1, CountTool
  <2>3. QED
    BY <2>1, <2>2
<1>3. Linked \subseteq DOMAIN tools
  BY DEF Linked
<1>4. DistinctIn(Linked', tools')
  <2>1. CASE name
    <3>1. k \in DOMAIN tools /\ DistinctIn(Linked \cup {k}, tools)
      BY <1>1, <2>1 DEF ToolsAt
    <3>2. Linked \cup {k} \subseteq DOMAIN tools /\ Linked' \subseteq Linked \cup {k}
      BY <1>2, <1>3, <2>1, <3>1
    <3>3. QED
      BY <1>2, <3>1, <3>2, DistinctKept
  <2>2. CASE ~name
    BY <1>1, <1>2, <1>3, <2>2, DistinctKept
  <2>3. QED
    BY <2>1, <2>2
<1>5. DistinctIn(Linked, tools)'
  BY <1>4
<1>6. Only(r)
  BY CountGoes
<1>7. CASE Answered(r)
  BY <1>1, <1>5, <1>6, <1>7, NamesStep, AnsweredNames
<1>8. CASE ~Answered(r)
  <2>1. /\ run'[r].pc = "calling" /\ run'[r].op = run[r].op
        /\ run'[r].plan = run[r].plan /\ run'[r].tools = run[r].tools
    BY <1>8, CountGoes
  <2>2. run[r].tools \subseteq DOMAIN tools' /\ DistinctIn(run[r].tools, tools')
    BY <1>1, <1>2, DistinctKept DEF ToolsAt, KeepsNames
  <2>3. ToolsAt(run[r])'
    BY <1>1, <2>1, <2>2 DEF ToolsAt, Connecting
  <2>4. QED
    BY <1>1, <1>5, <1>6, <2>3, NamesStep
<1>9. QED
  BY <1>7, <1>8

LEMMA FailNames ==
    ASSUME IInv, NInv, ~overlapped, NEW r \in Requests, QueryFails(r)
    PROVE  NInv'
<1>1. /\ Live(r) /\ Only(r) /\ tools' = tools
      /\ \/ Answered(r)
         \/ GoesOn(r) /\ run[r].pc \in {"announce", "final", "clear", "insert"}
            /\ run'[r].pc \in {"error", "final"}
  BY FailGoes
<1>2. QED
  BY <1>1, QuietNames DEF Connecting

LEMMA EnvironmentNames ==
    ASSUME IInv, NInv, LoseLink \/ Restart
    PROVE  NInv'
<1>1. tools' = tools /\ overlapped' = overlapped
  BY DEF LoseLink, Restart
<1>2. KeepsNames /\ Linked' = Linked
  BY <1>1, SameNames
<1>3. CASE LoseLink
  BY <1>1, <1>2, <1>3 DEF LoseLink, NInv, Alone, Live, ToolsAt
<1>4. CASE Restart
  <2>1. \A x \in Requests : ~Live(x)'
    BY <1>4, FinishIs DEF Restart, Live, Ended
  <2>2. QED
    BY <1>1, <1>2, <2>1 DEF NInv, Alone
<1>5. QED
  BY <1>3, <1>4

LEMMA AdvanceNames ==
    ASSUME IInv, NInv, NEW r \in Requests, Advance(r) \/ QueryFails(r)
    PROVE  NInv'
<1>1. overlapped' = overlapped
  BY DEF Advance, QueryFails, LoadServer, Announce, CloseLink, OpenLink, FailOpen, ListTools, ClearTools,
    InsertTool, SaveFinal, SaveError, SaveServer, DeleteTools, RemoveServer, FindTool,
    FindToolByName, CountUsage, CallTool, HealthCheck, environment
<1>2. CASE overlapped
  BY <1>1, <1>2 DEF NInv
<1>3. CASE ~overlapped
  BY <1>3, LoadNames, AnnounceNames, LinkNames, ClearNames, InsertNames, FinalNames, ServerNames,
     FindNames, CountNames, FailNames DEF Advance
<1>4. QED
  BY <1>2, <1>3

LEMMA InitNames == ASSUME Init PROVE NInv
<1>1. \A r \in Requests : ~Live(r)
  BY DEF Init, Live, IdleRequest, Ended
<1>2. DOMAIN tools = {}
  BY DEF Init
<1>3. Linked = {}
  BY <1>2 DEF Linked
<1>4. QED
  BY <1>1, <1>3 DEF NInv, Alone, DistinctIn

LEMMA StepNInv == IInv /\ NInv /\ [Next]_vars => NInv'
<1> SUFFICES ASSUME IInv, NInv, [Next]_vars PROVE NInv'
  OBVIOUS
<1>1. CASE UNCHANGED vars
  BY <1>1 DEF vars, NInv, Alone, Live, ToolsAt, DistinctIn, Linked
<1>2. CASE Next
  BY <1>2, BeginNames, AdvanceNames, EnvironmentNames DEF Next
<1>3. QED
  BY <1>1, <1>2

-----------------------------------------------------------------------------
(* The clients, the entry and the status *)

\* What a step of the only request must show
LEMMA SteadyStep ==
    ASSUME NInv, NEW r \in Requests, Live(r), Only(r), Steady, Accounted',
           Answered(r) => Told', Live(r)' => TellsAt(run[r])'
    PROVE  AInv'
<1>1. \A o \in Requests \ {r} : ~Live(o)
  BY DEF NInv, Alone, Steady
<1>2. \A o \in Requests \ {r} : ~Live(o)'
  BY <1>1 DEF Only, Live
<1>3. \A o \in Requests : Live(o)' => TellsAt(run[o])'
  BY <1>2
<1>4. Quiet' => Told'
  BY DEF Quiet, Live, Answered
<1>5. QED
  BY <1>3, <1>4 DEF AInv

LEMMA SteadyKept ==
    ASSUME IInv, [Next]_vars, Steady'
    PROVE  Steady
<1>1. faults \in Nat /\ overlapped \in BOOLEAN
  BY McpAssumption DEF IInv, TypeOK
<1>2. CASE UNCHANGED vars
  BY <1>2 DEF vars, Steady
<1>3. ASSUME NEW r \in Requests, CreateServer(r) \/ CallService(r)
      PROVE  Steady
  BY <1>3, BeginGoes DEF Steady
<1>4. ASSUME NEW r \in Requests, QueryFails(r)
      PROVE  Steady
  BY <1>4, FailGoes DEF Steady
<1>5. ASSUME NEW r \in Requests, CloseLink(r)
      PROVE  Steady
  <2>1. overlapped' = overlapped /\ (faults' = faults \/ faults' = faults + 1)
    BY <1>5, CloseGoes
  <2>2. QED
    BY <1>1, <2>1 DEF Steady
<1>6. ASSUME NEW r \in Requests, Advance(r), ~CloseLink(r)
      PROVE  Steady
  <2>1. UNCHANGED <<overlapped, faults>>
    BY <1>6 DEF Advance, LoadServer, Announce, OpenLink, FailOpen, ListTools, ClearTools,
      InsertTool, SaveFinal, SaveError, SaveServer, DeleteTools, RemoveServer, FindTool,
      FindToolByName, CountUsage, CallTool, HealthCheck, environment
  <2>2. QED
    BY <2>1 DEF Steady
<1>7. CASE LoseLink \/ Restart
  BY <1>7 DEF LoseLink, Restart, Steady
<1>8. QED
  BY <1>2, <1>3, <1>4, <1>5, <1>6, <1>7 DEF Next

\* What the invariants say when a request makes a step in a steady history
LEMMA SteadyNow ==
    ASSUME IInv, CInv, AInv, Steady, NEW r \in Requests, Advance(r)
    PROVE  /\ Live(r) /\ TellsAt(run[r]) /\ Accounted
           /\ links \in Seq(Clients) /\ Len(links) \in Nat /\ DOMAIN links = 1..Len(links)
           /\ conn \in 0..Len(links)
<1>1. links \in Seq(Clients) /\ conn \in 0..Len(links)
  BY Current
<1>2. Len(links) \in Nat /\ DOMAIN links = 1..Len(links)
  BY <1>1
<1>3. QED
  BY <1>1, <1>2, AdvanceIsLive DEF AInv

\* A client that starts to be opened is not counted yet
LEMMA OpenAccounted ==
    ASSUME IInv, NEW r \in Requests, NEW base \in Seq(Clients), Open(r, base), Len(base) = Len(links),
           \A k \in 1..Len(base) : base[k] \in {"open", "lost"} => k = conn'
    PROVE  Accounted'
<1>1. links' = Append(base, "opening") /\ "opening" \in Clients
  BY DEF Open, Clients
<1>2. /\ Len(base) \in Nat /\ DOMAIN links' = 1..(Len(base) + 1)
      /\ links'[Len(base) + 1] = "opening"
      /\ \A k \in 1..Len(base) : links'[k] = base[k]
  BY <1>1, AppendProperties
<1>3. QED
  BY <1>2 DEF Accounted

LEMMA BeginSteady ==
    ASSUME IInv, AInv, Steady, NEW r \in Requests, CreateServer(r) \/ CallService(r)
    PROVE  AInv'
<1> SUFFICES ASSUME ~overlapped' PROVE AInv'
  BY DEF AInv, Steady
<1>1. /\ Only(r) /\ UNCHANGED <<tools, links, conn, faults, losses, crashes>>
      /\ run'[r].pc \in {"load", "findname", "health"}
      /\ CallService(r) => row' = row
      /\ CreateServer(r) => row = "unborn" /\ row' = "inactive" /\ run'[r].pc = "load"
      /\ \A q \in Requests : ~Live(q)
  BY BeginGoes
<1>2. Told /\ Accounted
  BY <1>1 DEF AInv, Quiet
<1>3. Told'
  BY <1>1, <1>2 DEF Told
<1>4. \A o \in Requests \ {r} : ~Live(o)'
  BY <1>1 DEF Only, Live
<1>5. TellsAt(run[r])'
  BY <1>1, <1>3 DEF TellsAt
<1>6. Accounted'
  BY <1>1, <1>2 DEF Accounted
<1>7. QED
  BY <1>3, <1>4, <1>5, <1>6 DEF AInv

\* A step that leaves row, clients and entry alone
LEMMA QuietSteady ==
    ASSUME IInv, NInv, AInv, Steady, NEW r \in Requests, Live(r), Only(r),
           UNCHANGED <<row, links, conn, crashes>>,
           Answered(r) => Told, ~Answered(r) => TellsAt(run[r])'
    PROVE  AInv'
<1>1. Accounted /\ Accounted'
  BY DEF AInv, Accounted
<1>2. Told => Told'
  BY DEF Told
<1>3. QED
  BY <1>1, <1>2, SteadyStep DEF Live, Answered

LEMMA LoadSteady ==
    ASSUME IInv, CInv, NInv, AInv, Steady, NEW r \in Requests, LoadServer(r)
    PROVE  AInv'
<1>1. Live(r) /\ TellsAt(run[r]) /\ run[r].pc = "load"
  BY SteadyNow DEF Advance, LoadServer
<1>2. Told
  BY <1>1 DEF TellsAt
<1>3. /\ Only(r) /\ UNCHANGED <<row, tools, links, conn, crashes>>
  BY LoadGoes DEF environment
<1>4. Told'
  BY <1>2, <1>3 DEF Told
<1>5. ASSUME ~Answered(r)
      PROVE  TellsAt(run[r])'
  <2>1. /\ run'[r].plan = run[r].plan
        /\ run'[r].pc \in {"announce", "update", "close", "inactive", "deltools", "list", "findtool"}
        /\ run'[r].pc = "update" => run'[r].status = row
        /\ run'[r].pc = "close" => run'[r].link = conn
        /\ run'[r].pc = "inactive" => run'[r].status = "inactive" /\ conn = 0
        /\ run'[r].pc = "deltools" => conn = 0
        /\ run'[r].pc = "list" => Head(run[r].plan) = "sync"
    BY <1>5, LoadGoes
  <2>2. QED
    BY <1>3, <1>4, <2>1 DEF TellsAt
<1>6. QED
  BY <1>1, <1>2, <1>3, <1>5, QuietSteady

LEMMA AnnounceSteady ==
    ASSUME IInv, CInv, NInv, AInv, Steady, NEW r \in Requests, Announce(r)
    PROVE  AInv'
<1>1. /\ Live(r) /\ TellsAt(run[r]) /\ Accounted /\ run[r].pc = "announce"
      /\ links \in Seq(Clients) /\ Len(links) \in Nat /\ DOMAIN links = 1..Len(links)
  BY SteadyNow DEF Advance, Announce
<1>2. /\ Only(r) /\ GoesOn(r) /\ conn' = conn
      /\ \/ conn = 0 /\ Open(r, links) /\ run'[r].pc = "open"
         \/ conn # 0 /\ UNCHANGED links /\ run'[r].pc = "close" /\ run'[r].link = conn
  BY AnnounceGoes
<1>3. Head(run[r].plan) = "connect"
  BY <1>1, Current DEF Proper, PointOK
<1>5. Accounted'
  <2>1. CASE Open(r, links)
    BY <1>1, <1>2, <2>1, OpenAccounted DEF Accounted
  <2>2. CASE UNCHANGED links
    BY <1>1, <1>2, <2>2 DEF Accounted
  <2>3. QED
    BY <1>2, <2>1, <2>2
<1>6. TellsAt(run[r])'
  BY <1>2, <1>3 DEF TellsAt, GoesOn
<1>7. ~Answered(r)
  BY <1>2 DEF Answered, Ended
<1>8. QED
  BY <1>1, <1>2, <1>5, <1>6, <1>7, SteadyStep

LEMMA CloseSteady ==
    ASSUME IInv, CInv, NInv, AInv, Steady, NEW r \in Requests, CloseLink(r)
    PROVE  AInv'
<1> SUFFICES ASSUME faults' = 0 PROVE AInv'
  BY DEF AInv, Steady
<1> DEFINE closed == [links EXCEPT ![run[r].link] = "closed"]
<1>1. /\ Live(r) /\ TellsAt(run[r]) /\ Accounted /\ run[r].pc = "close" /\ run[r].link = conn
      /\ links \in Seq(Clients) /\ Len(links) \in Nat /\ DOMAIN links = 1..Len(links)
      /\ faults' = faults
  BY SteadyNow DEF Advance, CloseLink, TellsAt, Steady
<1>2. /\ Only(r) /\ GoesOn(r) /\ conn' = 0 /\ UNCHANGED <<row, tools, crashes>>
      /\ \/ Head(run[r].plan) = "connect" /\ run'[r].pc = "open" /\ Open(r, closed)
         \/ run'[r].pc = "inactive" /\ run'[r].status = "inactive" /\ links' = closed
         \/ run'[r].pc = "deltools" /\ links' = closed
  BY <1>1, CloseGoes
<1>3. /\ closed \in Seq(Clients) /\ Len(closed) = Len(links)
      /\ \A k \in 1..Len(links) : closed[k] = IF k = run[r].link THEN "closed" ELSE links[k]
  BY <1>1, SetLink DEF Clients
<1>4. DOMAIN closed = 1..Len(links)
  BY <1>1
<1> HIDE DEF closed
<1>5. \A k \in 1..Len(links) : closed[k] \notin {"open", "lost"}
  BY <1>1, <1>3 DEF Accounted
<1>6. Accounted'
  <2>1. CASE Open(r, closed)
    BY <1>3, <1>5, <2>1, OpenAccounted
  <2>2. CASE links' = closed
    BY <1>4, <1>5, <2>2 DEF Accounted
  <2>3. QED
    BY <1>2, <2>1, <2>2
<1>7. TellsAt(run[r])'
  BY <1>2 DEF TellsAt, GoesOn
<1>8. ~Answered(r)
  BY <1>2 DEF Answered, Ended
<1>9. QED
  BY <1>1, <1>2, <1>6, <1>7, <1>8, SteadyStep

LEMMA OpenedSteady ==
    ASSUME IInv, CInv, NInv, AInv, Steady, NEW r \in Requests, OpenLink(r) \/ FailOpen(r)
    PROVE  AInv'
<1> DEFINE k0 == run[r].link
<1>1. /\ Live(r) /\ TellsAt(run[r]) /\ Accounted /\ run[r].pc = "open" /\ conn = 0
      /\ Head(run[r].plan) = "health" => row = "active" /\ crashes # 0
      /\ links \in Seq(Clients) /\ Len(links) \in Nat /\ DOMAIN links = 1..Len(links)
  BY SteadyNow DEF Advance, OpenLink, FailOpen, TellsAt
<1>2. k0 \in 1..Len(links) /\ k0 # 0
  BY <1>1 DEF CInv
<1>3. /\ Only(r) /\ UNCHANGED <<row, tools, crashes>>
      /\ \/ Head(run[r].plan) = "health" /\ Answered(r)
         \/ /\ Head(run[r].plan) = "connect" /\ GoesOn(r)
            /\ OpenLink(r) => run'[r].pc = "list" /\ run'[r].status = "active"
            /\ FailOpen(r) => run'[r].pc = "final" /\ run'[r].status = "error"
  BY OpenedGoes DEF environment
<1>4. PICK c \in {"open", "closed"} :
          /\ links' = [links EXCEPT ![k0] = c]
          /\ \/ c = "open" /\ conn' = k0 /\ OpenLink(r)
             \/ c = "closed" /\ conn' = conn /\ FailOpen(r)
  BY DEF OpenLink, FailOpen
<1> HIDE DEF k0
<1>5. \A k \in 1..Len(links) : links[k] \notin {"open", "lost"}
  BY <1>1, <1>2 DEF Accounted
<1>6. /\ links' \in Seq(Clients) /\ Len(links') = Len(links)
      /\ \A k \in 1..Len(links) : links'[k] = IF k = k0 THEN c ELSE links[k]
  BY <1>1, <1>4, SetLink DEF Clients
<1>7. Accounted'
  <2>1. DOMAIN links' = 1..Len(links)
    BY <1>6
  <2> SUFFICES ASSUME NEW k \in 1..Len(links), links'[k] \in {"open", "lost"} PROVE k = conn'
    BY <2>1 DEF Accounted
  <2>2. k = k0 /\ c = "open"
    BY <1>5, <1>6
  <2>3. QED
    BY <1>4, <2>2
<1>8. Answered(r) => Told'
  <2> SUFFICES ASSUME Answered(r) PROVE Told'
    OBVIOUS
  <2>1. Head(run[r].plan) = "health"
    <3>1. "list" \notin Ended /\ "final" \notin Ended
      BY DEF Ended
    <3>2. QED
      BY <1>3, <3>1 DEF Answered
  <2>2. row' = "active" /\ crashes' # 0
    BY <1>1, <1>3, <2>1
  <2>3. QED
    BY <2>2 DEF Told
<1>9. ~Answered(r) => TellsAt(run[r])'
  <2> SUFFICES ASSUME ~Answered(r) PROVE TellsAt(run[r])'
    OBVIOUS
  <2>1. CASE c = "open"
    <3>1. run'[r].pc = "list" /\ run'[r].status = "active" /\ conn' # 0 /\ Head(run'[r].plan) = "connect"
      <4>1. conn' = k0 /\ OpenLink(r)
        BY <1>4, <2>1
      <4>2. Head(run[r].plan) = "connect" /\ GoesOn(r)
        BY <1>3
      <4>3. QED
        BY <1>2, <1>3, <4>1, <4>2 DEF GoesOn
    <3>2. QED
      BY <3>1 DEF TellsAt
  <2>2. CASE c = "closed"
    <3>1. run'[r].pc = "final" /\ run'[r].status = "error" /\ conn' = 0
      <4>1. conn' = conn /\ FailOpen(r)
        BY <1>4, <2>2
      <4>2. QED
        BY <1>1, <1>3, <4>1
    <3>2. QED
      BY <3>1 DEF TellsAt
  <2>3. QED
    BY <2>1, <2>2
<1>10. QED
  BY <1>1, <1>3, <1>7, <1>8, <1>9, SteadyStep DEF Live, Answered

LEMMA SyncSteady ==
    ASSUME IInv, CInv, NInv, AInv, Steady, NEW r \in Requests,
           ListTools(r) \/ ClearTools(r) \/ InsertTool(r)
    PROVE  AInv'
<1>1. /\ Live(r) /\ TellsAt(run[r]) /\ run[r].pc \in {"list", "clear", "insert"}
  BY SteadyNow DEF Advance, ListTools, ClearTools, InsertTool
<1>2. IF Head(run[r].plan) = "connect" THEN run[r].status = "active" /\ conn # 0 ELSE Told
  BY <1>1 DEF TellsAt
<1>3. /\ Only(r) /\ UNCHANGED <<row, links, conn, crashes>>
      /\ Syncs(r) \/ (Lists(r) /\ run'[r].pc \in {"clear", "insert"})
  BY ListGoes, ClearGoes, InsertGoes DEF environment
<1>4. Told => Told'
  BY <1>3 DEF Told
<1>5. Answered(r) => Told
  <2>1. "final" \notin Ended /\ "clear" \notin Ended /\ "insert" \notin Ended
    BY DEF Ended
  <2>2. QED
    BY <1>2, <1>3, <2>1 DEF Answered, Syncs
<1>6. ~Answered(r) => TellsAt(run[r])'
  <2> SUFFICES ASSUME ~Answered(r) PROVE TellsAt(run[r])'
    OBVIOUS
  <2>1. CASE run'[r].pc = "final"
    <3>1. run'[r].status = "active" /\ conn' # 0
      BY <1>2, <1>3, <2>1 DEF Syncs, Answered, Ended
    <3>2. QED
      BY <2>1, <3>1 DEF TellsAt
  <2>2. CASE run'[r].pc # "final"
    <3>1. Lists(r) /\ run'[r].pc \in {"clear", "insert"}
      BY <1>3, <2>2 DEF Syncs
    <3>2. IF Head(run'[r].plan) = "connect" THEN run'[r].status = "active" /\ conn' # 0 ELSE Told'
      BY <1>2, <1>3, <1>4, <3>1 DEF Lists, GoesOn
    <3>3. QED
      BY <3>1, <3>2 DEF TellsAt
  <2>3. QED
    BY <2>1, <2>2
<1>7. QED
  BY <1>1, <1>3, <1>5, <1>6, QuietSteady

\* The row takes the status of the copy that is saved
LEMMA SaveSteady ==
    ASSUME IInv, CInv, NInv, AInv, Steady, NEW r \in Requests,
           SaveFinal(r) \/ SaveError(r) \/ SaveServer(r)
    PROVE  AInv'
<1>1. /\ Live(r) /\ TellsAt(run[r]) /\ Accounted
      /\ run[r].pc \in {"final", "error", "inactive", "update"}
      /\ SaveError(r) => run[r].pc = "error"
  BY SteadyNow DEF Advance, SaveFinal, SaveError, SaveServer
<1>2. /\ run[r].pc # "error"
      /\ run[r].pc = "final" => (run[r].status = "active" <=> conn # 0)
      /\ run[r].pc = "inactive" => run[r].status = "inactive" /\ conn = 0
      /\ run[r].pc = "update" => run[r].status = row /\ Told
  BY <1>1 DEF TellsAt
<1>3. /\ Only(r) /\ Save(r) /\ UNCHANGED <<links, conn, crashes>>
      /\ Answered(r) \/ run'[r].pc \in {"load", "count"}
  BY FinalGoes, ErrorGoes, ServerGoes DEF environment
<1>4. row' = run[r].status
  BY <1>3 DEF Save
<1>5. Told'
  BY <1>1, <1>2, <1>3, <1>4 DEF Told
<1>6. ~Answered(r) => TellsAt(run[r])'
  BY <1>3, <1>5 DEF TellsAt
<1>7. Accounted'
  BY <1>1, <1>3 DEF Accounted
<1>8. QED
  BY <1>1, <1>3, <1>5, <1>6, <1>7, SteadyStep DEF Live, Answered

LEMMA RemovalSteady ==
    ASSUME IInv, CInv, NInv, AInv, Steady, NEW r \in Requests, DeleteTools(r) \/ RemoveServer(r)
    PROVE  AInv'
<1>1. /\ Live(r) /\ TellsAt(run[r]) /\ Accounted /\ run[r].pc \in {"deltools", "remove"}
      /\ RemoveServer(r) => run[r].pc = "remove"
  BY SteadyNow DEF Advance, DeleteTools, RemoveServer
<1>2. conn = 0 /\ (run[r].pc = "remove" => Linked = {})
  BY <1>1 DEF TellsAt
<1>3. CASE DeleteTools(r)
  <2>1. /\ Only(r) /\ run'[r].pc = "remove" /\ tools' = Deleted
        /\ UNCHANGED <<row, links, conn, crashes>>
    BY <1>3, RemovalGoes DEF environment
  <2>2. Linked' = {}
    BY <2>1, DeleteTool
  <2>3. TellsAt(run[r])'
    BY <1>2, <2>1, <2>2 DEF TellsAt
  <2>4. ~Answered(r)
    BY <2>1 DEF Answered, Ended
  <2>5. QED
    BY <1>1, <2>1, <2>3, <2>4, QuietSteady
<1>4. CASE RemoveServer(r)
  <2>1. /\ Only(r) /\ Answered(r) /\ UNCHANGED <<tools, links, conn, crashes>> /\ row' = "removed"
    BY <1>1, <1>2, <1>4, RemovalGoes DEF environment
  <2>2. Told'
    BY <1>2, <2>1 DEF Told
  <2>3. Accounted'
    BY <1>1, <2>1 DEF Accounted
  <2>4. QED
    BY <1>1, <2>1, <2>2, <2>3, SteadyStep, AnsweredNames
<1>5. QED
  BY <1>3, <1>4

LEMMA CallSteady ==
    ASSUME IInv, CInv, NInv, AInv, Steady, NEW r \in Requests,
           FindTool(r) \/ FindToolByName(r) \/ CountUsage(r) \/ CallTool(r)
    PROVE  AInv'
<1>1. /\ Live(r) /\ TellsAt(run[r]) /\ run[r].pc \in {"findtool", "findname", "count", "calling"}
  BY SteadyNow DEF Advance, FindTool, FindToolByName, CountUsage, CallTool
<1>2. Told
  BY <1>1 DEF TellsAt
<1>3. /\ Only(r) /\ UNCHANGED <<row, links, conn, crashes>>
      /\ Answered(r) \/ run'[r].pc \in {"load", "count", "calling"}
  BY FindGoes, FindByNameGoes, CountGoes, ReturnGoes DEF environment
<1>4. Told'
  BY <1>2, <1>3 DEF Told
<1>5. ~Answered(r) => TellsAt(run[r])'
  BY <1>3, <1>4 DEF TellsAt
<1>6. QED
  BY <1>1, <1>2, <1>3, <1>5, QuietSteady

LEMMA HealthSteady ==
    ASSUME IInv, CInv, NInv, AInv, Steady, NEW r \in Requests, HealthCheck(r)
    PROVE  AInv'
<1>1. /\ Live(r) /\ TellsAt(run[r]) /\ Accounted /\ run[r].pc = "health"
      /\ links \in Seq(Clients) /\ Len(links) \in Nat /\ DOMAIN links = 1..Len(links)
  BY SteadyNow DEF Advance, HealthCheck
<1>2. Told
  BY <1>1 DEF TellsAt
<1>3. /\ Only(r) /\ UNCHANGED <<row, tools, conn, crashes>>
      /\ \/ Answered(r) /\ UNCHANGED links
         \/ /\ row = "active" /\ conn = 0 /\ Open(r, links) /\ GoesOn(r) /\ run'[r].pc = "open"
  BY HealthGoes DEF environment
<1>4. CASE Answered(r) /\ UNCHANGED links
  BY <1>1, <1>2, <1>3, <1>4, QuietSteady
<1>5. CASE ~(Answered(r) /\ UNCHANGED links)
  <2>1. /\ row = "active" /\ conn = 0 /\ Open(r, links) /\ run'[r].pc = "open"
    BY <1>3, <1>5
  <2>2. crashes # 0
    BY <1>2, <2>1 DEF Told
  <2>3. TellsAt(run[r])'
    BY <1>3, <2>1, <2>2 DEF TellsAt
  <2>4. Accounted'
    BY <1>1, <1>3, <2>1, OpenAccounted DEF Accounted
  <2>5. ~Answered(r)
    BY <2>1 DEF Answered, Ended
  <2>6. QED
    BY <1>1, <1>3, <2>3, <2>4, <2>5, SteadyStep
<1>6. QED
  BY <1>4, <1>5

LEMMA EnvironmentSteady ==
    ASSUME IInv, AInv, Steady, LoseLink \/ Restart
    PROVE  AInv'
<1>1. CASE LoseLink
  <2>1. UNCHANGED <<row, tools, conn, run, crashes>>
    BY <1>1 DEF LoseLink
  <2>2. PICK k \in DOMAIN links : links[k] = "open" /\ links' = [links EXCEPT ![k] = "lost"]
    BY <1>1 DEF LoseLink
  <2>3. /\ DOMAIN links' = DOMAIN links
        /\ \A i \in DOMAIN links : links'[i] \in {"open", "lost"} => links[i] \in {"open", "lost"}
    BY <2>2
  <2>4. Accounted'
    BY <2>1, <2>3 DEF AInv, Accounted
  <2>5. Linked' = Linked
    BY <2>1 DEF Linked
  <2>6. QED
    BY <2>1, <2>4, <2>5 DEF AInv, Quiet, Live, Told, TellsAt
<1>2. CASE Restart
  <2>1. \A x \in Requests : ~Live(x)'
    BY <1>2, FinishIs DEF Restart, Live, Ended
  <2>2. conn' = 0 /\ crashes' = crashes + 1 /\ \A k \in DOMAIN links' : links'[k] = "closed"
    BY <1>2 DEF Restart
  <2>3. crashes' # 0
    BY <2>2, McpAssumption DEF IInv, TypeOK
  <2>4. Told' /\ Accounted'
    BY <2>2, <2>3 DEF Told, Accounted
  <2>5. QED
    BY <2>1, <2>4 DEF AInv
<1>3. QED
  BY <1>1, <1>2

LEMMA InitSteady == ASSUME Init PROVE AInv
<1>1. \A r \in Requests : ~Live(r)
  BY DEF Init, Live, IdleRequest, Ended
<1>2. conn = 0 /\ row = "unborn" /\ DOMAIN links = {}
  BY DEF Init
<1>3. QED
  BY <1>1, <1>2 DEF AInv, Accounted, Told

LEMMA StepAInv == IInv /\ CInv /\ NInv /\ AInv /\ [Next]_vars => AInv'
<1> SUFFICES ASSUME IInv, CInv, NInv, AInv, [Next]_vars, Steady' PROVE AInv'
  BY DEF AInv
<1>1. Steady
  BY SteadyKept
<1>2. CASE UNCHANGED vars
  BY <1>2 DEF vars, AInv, Steady, Quiet, Live, Accounted, Told, TellsAt, Linked
<1>3. ASSUME NEW r \in Requests, CreateServer(r) \/ CallService(r)
      PROVE  AInv'
  BY <1>1, <1>3, BeginSteady
<1>4. ASSUME NEW r \in Requests, Advance(r)
      PROVE  AInv'
  BY <1>1, <1>4, LoadSteady, AnnounceSteady, CloseSteady, OpenedSteady, SyncSteady, SaveSteady,
     RemovalSteady, CallSteady, HealthSteady DEF Advance
<1>5. ASSUME NEW r \in Requests, QueryFails(r)
      PROVE  AInv'
  BY <1>5, FailGoes DEF Steady
<1>6. CASE LoseLink \/ Restart
  BY <1>1, <1>6, EnvironmentSteady
<1>7. QED
  BY <1>2, <1>3, <1>4, <1>5, <1>6 DEF Next

\* As long as requests do not overlap, no two tools of the server have the same
\* name: not after failing queries, cut off synchronisations and restarts, and not
\* though executeToolByName saves a copy of a tool its own connect has deleted
THEOREM NamesDistinct == Spec => []ToolsDistinct
<1>1. Init => IInv /\ CInv /\ NInv
  BY InitIInv, InitNames
<1>2. IInv /\ CInv /\ NInv /\ [Next]_vars => IInv' /\ CInv' /\ NInv'
  BY StepIInv, StepNInv
<1>3. NInv => ToolsDistinct
  BY DEF NInv, ToolsDistinct, DistinctIn
<1>4. QED
  BY <1>1, <1>2, <1>3, PTL DEF Spec

LEMMA SteadyInvariant == Spec => []AInv
<1>1. Init => IInv /\ CInv /\ NInv /\ AInv
  BY InitIInv, InitNames, InitSteady
<1>2. IInv /\ CInv /\ NInv /\ AInv /\ [Next]_vars => IInv' /\ CInv' /\ NInv' /\ AInv'
  BY StepIInv, StepNInv, StepAInv
<1>3. QED
  BY <1>1, <1>2, PTL DEF Spec

\* Requests that neither overlap nor fail leak no client: whatever is connected is
\* the client of the map, however often the server dropped it and the process
\* restarted
THEOREM NoClientLeaks == Spec => []ClientsAccounted
<1>1. AInv => ClientsAccounted
  BY DEF AInv, ClientsAccounted, Accounted
<1>2. QED
  BY <1>1, SteadyInvariant, PTL

\* Between requests that neither overlap nor fail, the map has an entry only for a
\* server stored as ACTIVE, and for every such server until the process restarts
THEOREM StatusTruthful == Spec => []StatusTells
<1>1. AInv => StatusTells
  BY DEF AInv, StatusTells, Told
<1>2. QED
  BY <1>1, SteadyInvariant, PTL
=============================================================================
