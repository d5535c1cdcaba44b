------------------------------ MODULE AgentsProofs ------------------------------
(***************************************************************************)
(* For any number of requests, agents, conversations, cards and failures:  *)
(* one default agent, rows that stay attached, and chats that leave both   *)
(* messages, save where the properties name the overlaps that break them.  *)
(*                                                                         *)
(* Every first step is shown to load what the rows are (Begun, Fresh), and *)
(* every other step to go on or to end its request (On, Ends); from there  *)
(* each invariant looks at the few actions that write the rows it is about.*)
(***************************************************************************)
EXTENDS Agents, TLAPS, FiniteSetTheorems

Answered == {"done", "rejected"}
RowOps == {"create", "save", "remove", "getDefault", "makeCard", "editCard", "removeCard",
           "setDefault", "converse", "rename", "drop"}

Pending(q) == q.pc \notin {"idle"} \cup Answered

\* Which operations come to a point, and what they carry there
AtItsOp(q) ==
    /\ q.pc = "clear" => q.op = "setDefault"
    /\ q.pc = "write" => q.op \in RowOps
    /\ q.pc = "card" => q.op = "chatWithRole"
    /\ q.pc \in {"conv", "say", "think"} => q.op \in ChatOps
    /\ q.pc \in {"act", "sum", "talk", "tool"} => q.op = "chat"
    /\ q.pc = "reply" => q.op \in {"chat", "chatWithRole", "addMessage"}

Carries(q) ==
    /\ q.op \in {"save", "remove", "setDefault", "converse"} => q.agent \in AgentIds
    /\ q.op \in {"rename", "drop", "addMessage"} \cup ChatOps => q.conv \in ConvIds
    /\ q.op \in {"create", "getDefault", "save"} => q.copy \in Agent /\ q.copy.exists
    /\ q.op = "rename" => q.copy \in Conversation
    /\ q.op \in {"editCard", "removeCard"} => q.card \in Cards

Shaped(q) ==
    /\ q \in Request
    /\ q.pc = "idle" => q = IdleRequest
    /\ q.pc = "act" => q.left > 0
    /\ Pending(q) => AtItsOp(q) /\ Carries(q) /\ q.events = 0

\* Rows, and the rows that requests hold, are among those that were made
Made ==
    /\ \A a \in AgentIds : /\ agents[a].exists => a <= made.agents
                           /\ agents[a].owned => agents[a].exists
    /\ \A v \in ConvIds : convs[v].exists => v <= made.convs
    /\ \A r \in Requests : Live(r) =>
        /\ run[r].op = "save" => run[r].agent <= made.agents
        /\ run[r].op = "rename" => run[r].conv <= made.convs

\* Requests that are there together have overlapped
Paired ==
    \A r, o \in Requests : Live(r) /\ Live(o) /\ r # o => {run[r].op, run[o].op} \in overlaps

IInv == TypeOK /\ (\A r \in Requests : Shaped(run[r])) /\ Made /\ Paired

\* For OneDefault: a copy that is to be saved has the column its agent has, and there
\* is no default where one is about to be written
Writers == {"setDefault", "getDefault", "save"}
NoDefault == \A a \in AgentIds : ~(Owned(a) /\ agents[a].isDefault)
DefaultKept ==
    /\ \A a, b \in AgentIds : Owned(a) /\ agents[a].isDefault /\ Owned(b) /\ agents[b].isDefault
                                => a = b
    /\ \A r \in Requests : Live(r) =>
        /\ run[r].op = "create" => ~run[r].copy.isDefault
        /\ run[r].op = "save" /\ Owned(run[r].agent)
               => run[r].copy.isDefault = agents[run[r].agent].isDefault
        /\ run[r].pc = "write" /\ run[r].op \in {"setDefault", "getDefault"} => NoDefault
DInv == flagged \/ overlaps \cap {{p, q} : p, q \in Writers} # {} \/ DefaultKept

\* For KeptAttached: what a copy holds of conversations, of an agent, of messages and
\* of a card is what the rows hold, so that its save changes none of it
ConvsAttached ==
    /\ \A v \in ConvIds : convs[v].exists => convs[v].agent # 0
    /\ \A r \in Requests : Live(r) =>
        /\ run[r].op = "save" /\ "conversations" \in run[r].loaded =>
            \A v \in ConvIds : convs[v].exists =>
                (v \in run[r].conversations <=> convs[v].agent = run[r].agent)
        /\ run[r].op = "rename" =>
            /\ run[r].copy.agent # 0
            /\ convs[run[r].conv].exists => convs[run[r].conv].agent = run[r].copy.agent
    /\ \A r, o \in Requests : /\ Live(r) /\ run[r].op = "rename"
                              /\ Live(o) /\ run[o].op = "rename"
                              /\ run[r].conv = run[o].conv
                              => run[r].copy.agent = run[o].copy.agent
CInv == {{"save", "converse"}, {"save", "rename"}} \cap overlaps # {} \/ ConvsAttached

MessagesAttached ==
    /\ HistoryOf(0) = {}
    /\ \A r \in Requests : Live(r) /\ run[r].op = "rename" => run[r].history = HistoryOf(run[r].conv)
MInv == (\E op \in ChatOps \cup {"addMessage"} : {"rename", op} \in overlaps) \/ MessagesAttached

CardsAttached ==
    /\ \A c \in Cards : cards[c] # "orphan"
    /\ \A r \in Requests : Live(r) /\ run[r].op = "editCard" => cards[run[r].card] # "gone"
RInv == {"editCard", "removeCard"} \in overlaps \/ CardsAttached

\* For ChatsAccounted: what a chat has stored, by how far it is
Told(r) ==
    /\ run[r].pc = "idle" => Mine(r) = {}
    /\ run[r].op \in ChatOps =>
        /\ run[r].pc \in {"card", "conv", "say"} => Mine(r) = {}
        /\ run[r].pc \in {"think", "act", "sum", "talk", "tool", "reply"} => SaidOnly(r)
        /\ run[r].pc = "done" => IF run[r].op = "stream" THEN SaidOnly(r) ELSE SaidBoth(r)
        /\ run[r].pc = "rejected" => Mine(r) = {} \/ SaidOnly(r)
        /\ run[r].events = (IF run[r].started /\ ~Live(r) THEN 1 ELSE 0)
TInv == \A r \in Requests : Told(r)

-----------------------------------------------------------------------------
(* Requests *)

Only(r) == \A o \in Requests \ {r} : run'[o] = run[o]

LEMMA Becomes ==
    ASSUME run \in [Requests -> Request], NEW r \in Requests, NEW p,
           run' = [run EXCEPT ![r] = p]
    PROVE  run'[r] = p /\ Only(r) /\ (p \in Request => run' \in [Requests -> Request])
BY DEF Only

LEMMA Idle == Shaped(IdleRequest)
BY AgentsAssumption DEF Shaped, IdleRequest, Request, Agent, NoAgent, Pending, Answered, Ops, PCs

\* A request whose first reads reject it
Refusal(op) == [IdleRequest EXCEPT !.op = op, !.pc = "rejected"]

LEMMA RefusalIs ==
    ASSUME NEW op \in Ops
    PROVE  /\ Shaped(Refusal(op))
           /\ Refusal(op).op = op /\ Refusal(op).pc = "rejected"
           /\ ~Refusal(op).started /\ Refusal(op).events = 0
BY Idle DEF Shaped, Refusal, IdleRequest, Request, Pending, Answered, PCs

LEMMA AgentCopy ==
    ASSUME TypeOK, NEW a \in AgentIds
    PROVE  /\ agents[a] \in Agent /\ agents[a] \in Agent \cup Conversation
           /\ a \in 0..MaxAgents
           /\ ConvsOf(a) \in SUBSET ConvIds /\ holds[a] \in SUBSET Cards
BY AgentsAssumption DEF TypeOK, ConvsOf, AgentIds

LEMMA NewAgentIs ==
    ASSUME NEW b \in BOOLEAN
    PROVE  NewAgent(b) \in Agent /\ NewAgent(b).exists /\ NewAgent(b).isDefault = b
BY DEF NewAgent, NoAgent, Agent

\* What a request is that has just begun
Starts(r, q) ==
    /\ run[r].pc = "idle" /\ Only(r) /\ run' \in [Requests -> Request]
    /\ run'[r] = q /\ Shaped(q) /\ q.pc # "idle" /\ q.op # "none"
    /\ overlaps' = overlaps \cup {{q.op, run[o].op} : o \in {o \in Requests : Live(o)}}
    /\ UNCHANGED <<rowVars, faults>>

LEMMA BeginStarts ==
    ASSUME IInv, NEW r \in Requests, NEW q, NEW found \in BOOLEAN, Begin(r, q, found),
           q.op \in Ops \ {"none"}, q.pc # "idle", found => Shaped(q)
    PROVE  (found /\ Starts(r, q)) \/ (~found /\ Starts(r, Refusal(q.op)))
<1> DEFINE p == IF found THEN q ELSE Refusal(q.op)
<1>1. Shaped(p) /\ p.op = q.op /\ p.pc # "idle"
  BY RefusalIs
<1>2. run' = [run EXCEPT ![r] = p]
  BY DEF Begin, Refusal
<1>3. p \in Request
  BY <1>1 DEF Shaped
<1> HIDE DEF p
<1>a. run \in [Requests -> Request]
  BY DEF IInv, TypeOK
<1>4. run'[r] = p /\ Only(r) /\ run' \in [Requests -> Request]
  BY <1>a, <1>2, <1>3, Becomes
<1>5. Starts(r, p)
  BY <1>1, <1>4 DEF Starts, Begin
<1>6. QED
  BY <1>5 DEF p

\* The request that create and getDefaultAgent begin
LEMMA CreateIs ==
    ASSUME NEW b \in BOOLEAN, NEW op \in {"create", "getDefault"}, NEW point \in {"write", "done"}
    PROVE  LET q == [IdleRequest EXCEPT !.op = op, !.pc = point, !.copy = NewAgent(b)]
           IN  Shaped(q) /\ q.op = op /\ q.pc = point /\ q.copy.isDefault = b
<1>1. NewAgent(b) \in Agent /\ NewAgent(b).exists /\ NewAgent(b).isDefault = b
      /\ NewAgent(b) \in Agent \cup Conversation
  BY NewAgentIs
<1>2. ASSUME NEW q \in Request
      PROVE  [q EXCEPT !.op = op, !.pc = point, !.copy = NewAgent(b)] \in Request
  BY <1>1 DEF Request, Ops, PCs
<1> DEFINE q == [IdleRequest EXCEPT !.op = op, !.pc = point, !.copy = NewAgent(b)]
<1>3. q \in Request
  BY <1>2, Idle DEF Shaped
<1>4. q.op = op /\ q.pc = point /\ q.copy = NewAgent(b) /\ q.events = 0
  BY DEF IdleRequest
<1> HIDE DEF q
<1>5. Shaped(q)
  BY <1>1, <1>3, <1>4 DEF Shaped, Pending, Answered, AtItsOp, Carries, RowOps, ChatOps
<1>6. QED
  BY <1>1, <1>4, <1>5 DEF q

\* The request that saves an agent it found, with its copy's columns and relations
LEMMA SaveIs ==
    ASSUME NEW q \in Request, q.op = "save", q.pc = "write", q.agent \in AgentIds,
           q.copy \in Agent, q.copy.exists, q.events = 0
    PROVE  Shaped(q)
BY DEF Shaped, Pending, Answered, AtItsOp, Carries, RowOps, ChatOps

LEMMA FoundAgentIs ==
    ASSUME TypeOK, NEW a \in AgentIds
    PROVE  LET q == FoundAgent(a) IN
           /\ q \in Request /\ q.op = "save" /\ q.pc = "write" /\ q.agent = a /\ q.copy = agents[a]
           /\ q.events = 0 /\ q.loaded = {"conversations"} /\ q.conversations = ConvsOf(a)
<1>1. ASSUME NEW q \in Request
      PROVE  [q EXCEPT !.op = "save", !.pc = "write", !.agent = a, !.copy = agents[a],
                       !.loaded = {"conversations"}, !.conversations = ConvsOf(a)] \in Request
  BY AgentCopy DEF Request, Ops, PCs
<1>2. FoundAgent(a) \in Request
  BY <1>1, Idle DEF Shaped, FoundAgent
<1>3. QED
  BY <1>2 DEF FoundAgent, IdleRequest

LEMMA FoundWithCardsIs ==
    ASSUME TypeOK, NEW a \in AgentIds
    PROVE  LET q == FoundWithCards(a) IN
           /\ q \in Request /\ q.op = "save" /\ q.pc = "write" /\ q.agent = a /\ q.copy = agents[a]
           /\ q.events = 0 /\ q.loaded = {"roleCards"} /\ q.roleCards = holds[a]
<1>1. ASSUME NEW q \in Request
      PROVE  [q EXCEPT !.op = "save", !.pc = "write", !.agent = a, !.copy = agents[a],
                       !.loaded = {"roleCards"}, !.roleCards = holds[a]] \in Request
  BY AgentCopy DEF Request, Ops, PCs
<1>2. FoundWithCards(a) \in Request
  BY <1>1, Idle DEF Shaped, FoundWithCards
<1>3. QED
  BY <1>2 DEF FoundWithCards, IdleRequest

\* The requests that update agents, each a found one but for some of its fields
LEMMA AddCardIs ==
    ASSUME TypeOK, NEW a \in AgentIds, agents[a].exists, NEW c \in Cards
    PROVE  LET q == [FoundAgent(a) EXCEPT !.loaded = {"conversations", "roleCards"},
                                          !.roleCards = {c}]
           IN  /\ Shaped(q) /\ q.op = "save" /\ q.pc = "write" /\ q.agent = a /\ q.copy = agents[a]
               /\ q.conversations = ConvsOf(a)
<1> DEFINE f == FoundAgent(a)
           q == [f EXCEPT !.loaded = {"conversations", "roleCards"}, !.roleCards = {c}]
<1>1. /\ f \in Request /\ f.op = "save" /\ f.pc = "write" /\ f.agent = a /\ f.copy = agents[a]
      /\ f.events = 0 /\ f.conversations = ConvsOf(a)
  BY FoundAgentIs
<1> HIDE DEF f
<1>2. q \in Request
  BY <1>1 DEF Request
<1>3. /\ q.op = "save" /\ q.pc = "write" /\ q.agent = a /\ q.copy = agents[a]
      /\ q.events = 0 /\ q.conversations = ConvsOf(a)
  BY <1>1 DEF Request
<1> HIDE DEF q
<1>4. Shaped(q)
  BY <1>2, <1>3, SaveIs, AgentCopy
<1>5. QED
  BY <1>3, <1>4 DEF q, f

LEMMA SwitchCardIs ==
    ASSUME TypeOK, NEW a \in AgentIds, agents[a].exists, NEW c \in Cards
    PROVE  LET q == [FoundWithCards(a) EXCEPT !.copy.current = c] IN
           /\ Shaped(q) /\ q.op = "save" /\ q.pc = "write" /\ q.agent = a
           /\ q.copy.isDefault = agents[a].isDefault /\ q.loaded = {"roleCards"}
<1> DEFINE f == FoundWithCards(a)
           q == [f EXCEPT !.copy.current = c]
           copy == [agents[a] EXCEPT !.current = c]
<1>1. /\ f \in Request /\ f.op = "save" /\ f.pc = "write" /\ f.agent = a /\ f.copy = agents[a]
      /\ f.events = 0 /\ f.loaded = {"roleCards"}
  BY FoundWithCardsIs
<1> HIDE DEF f
<1>2. q = [f EXCEPT !.copy = copy]
  BY <1>1 DEF Request
<1>3. copy \in Agent /\ copy \in Agent \cup Conversation /\ copy.exists
      /\ copy.isDefault = agents[a].isDefault
  BY AgentCopy DEF Agent
<1> HIDE DEF copy, q
<1>4. q \in Request /\ q.copy = copy
  BY <1>1, <1>2, <1>3 DEF Request
<1>5. q.op = "save" /\ q.pc = "write" /\ q.agent = a /\ q.events = 0 /\ q.loaded = {"roleCards"}
  BY <1>1, <1>2 DEF Request
<1>6. QED
  BY <1>3, <1>4, <1>5, SaveIs DEF q, f

\* A request for an agent that loads nothing
LEMMA OnAgentIs ==
    ASSUME NEW a \in AgentIds,
           NEW op \in {"remove", "converse", "setDefault"}, NEW point \in {"clear", "write"},
           point = "clear" <=> op = "setDefault"
    PROVE  LET q == [IdleRequest EXCEPT !.op = op, !.pc = point, !.agent = a]
           IN  Shaped(q) /\ q.op = op /\ q.pc = point /\ q.agent = a /\ ~q.started
<1>0. a \in 0..MaxAgents
  BY AgentsAssumption DEF AgentIds
<1>1. ASSUME NEW q \in Request
      PROVE  [q EXCEPT !.op = op, !.pc = point, !.agent = a] \in Request
  BY <1>0 DEF Request, Ops, PCs, ChatOps
<1> DEFINE q == [IdleRequest EXCEPT !.op = op, !.pc = point, !.agent = a]
<1>2. q \in Request
  BY <1>1, Idle DEF Shaped
<1>3. q.op = op /\ q.pc = point /\ q.agent = a /\ q.events = 0 /\ ~q.started
  BY DEF IdleRequest
<1> HIDE DEF q
<1>4. Shaped(q)
  BY <1>0, <1>2, <1>3 DEF Shaped, Pending, Answered, AtItsOp, Carries, RowOps, ChatOps
<1>5. QED
  BY <1>3, <1>4 DEF q

\* A request for a conversation that loads nothing
LEMMA OnConvIs ==
    ASSUME NEW v \in ConvIds,
           NEW op \in {"drop", "addMessage"}, NEW point \in {"write", "reply"},
           point = "write" <=> op = "drop"
    PROVE  LET q == [IdleRequest EXCEPT !.op = op, !.pc = point, !.conv = v]
           IN  Shaped(q) /\ q.op = op /\ q.pc = point /\ q.conv = v /\ ~q.started
<1>0. v \in 0..MaxConvs
  BY AgentsAssumption DEF ConvIds
<1>1. ASSUME NEW q \in Request
      PROVE  [q EXCEPT !.op = op, !.pc = point, !.conv = v] \in Request
  BY <1>0 DEF Request, Ops, PCs, ChatOps
<1> DEFINE q == [IdleRequest EXCEPT !.op = op, !.pc = point, !.conv = v]
<1>2. q \in Request
  BY <1>1, Idle DEF Shaped
<1>3. q.op = op /\ q.pc = point /\ q.conv = v /\ q.events = 0 /\ ~q.started
  BY DEF IdleRequest
<1> HIDE DEF q
<1>4. Shaped(q)
  BY <1>0, <1>2, <1>3 DEF Shaped, Pending, Answered, AtItsOp, Carries, RowOps, ChatOps
<1>5. QED
  BY <1>3, <1>4 DEF q

\* A request for a card
LEMMA OnCardIs ==
    ASSUME NEW c \in Cards,
           NEW op \in {"editCard", "removeCard"}
    PROVE  LET q == [IdleRequest EXCEPT !.op = op, !.pc = "write", !.card = c]
           IN  Shaped(q) /\ q.op = op /\ q.pc = "write" /\ q.card = c /\ ~q.started
<1>0. c \in Cards \cup {"none"}
  OBVIOUS
<1>1. ASSUME NEW q \in Request
      PROVE  [q EXCEPT !.op = op, !.pc = "write", !.card = c] \in Request
  BY <1>0 DEF Request, Ops, PCs, ChatOps
<1> DEFINE q == [IdleRequest EXCEPT !.op = op, !.pc = "write", !.card = c]
<1>2. q \in Request
  BY <1>1, Idle DEF Shaped
<1>3. q.op = op /\ q.pc = "write" /\ q.card = c /\ q.events = 0 /\ ~q.started
  BY DEF IdleRequest
<1> HIDE DEF q
<1>4. Shaped(q)
  BY <1>0, <1>2, <1>3 DEF Shaped, Pending, Answered, AtItsOp, Carries, RowOps, ChatOps
<1>5. QED
  BY <1>3, <1>4 DEF q

LEMMA MakeCardIs ==
    LET q == [IdleRequest EXCEPT !.op = "makeCard", !.pc = "write"]
    IN  Shaped(q) /\ q.op = "makeCard" /\ q.pc = "write"
<1>1. ASSUME NEW q \in Request
      PROVE  [q EXCEPT !.op = "makeCard", !.pc = "write"] \in Request
  BY DEF Request, Ops, PCs
<1> DEFINE q == [IdleRequest EXCEPT !.op = "makeCard", !.pc = "write"]
<1>2. q \in Request
  BY <1>1, Idle DEF Shaped
<1>3. q.op = "makeCard" /\ q.pc = "write" /\ q.events = 0
  BY DEF IdleRequest
<1> HIDE DEF q
<1>4. Shaped(q)
  BY <1>2, <1>3 DEF Shaped, Pending, Answered, AtItsOp, Carries, RowOps, ChatOps
<1>5. QED
  BY <1>3, <1>4 DEF q

-----------------------------------------------------------------------------
(* What begins *)

\* What a request that has begun loaded is what the rows are
Fresh(q) ==
    /\ q.op \in ChatOps => q.pc \in {"card", "conv", "rejected"} /\ ~q.started /\ q.events = 0
    /\ Pending(q) =>
        /\ q.op = "create" => flagged' \/ ~q.copy.isDefault
        /\ q.op = "save" =>
            /\ Owned(q.agent)
            /\ flagged' \/ q.copy.isDefault = agents[q.agent].isDefault
            /\ "conversations" \in q.loaded => q.conversations = ConvsOf(q.agent)
        /\ q.op = "getDefault" => \A a \in AgentIds : ~Owned(a)
        /\ q.op = "setDefault" => q.pc = "clear"
        /\ q.op = "rename" => /\ OwnedConv(q.conv) /\ q.copy = convs[q.conv]
                              /\ q.history = HistoryOf(q.conv)
        /\ q.op = "editCard" => cards[q.card] = "own"

Begun(r) ==
    \E q \in Request : Starts(r, q) /\ Fresh(q) /\ flagged' \in BOOLEAN /\ (flagged => flagged')

\* It is enough that the request would be fresh if it were found
LEMMA Begins ==
    ASSUME IInv, NEW r \in Requests, NEW q, NEW found \in BOOLEAN, Begin(r, q, found),
           q.op \in Ops \ {"none"}, q.pc # "idle", found => Shaped(q) /\ Fresh(q),
           flagged' \in BOOLEAN, flagged => flagged'
    PROVE  Begun(r)
<1>1. (found /\ Starts(r, q)) \/ (~found /\ Starts(r, Refusal(q.op)))
  BY BeginStarts
<1>2. Fresh(Refusal(q.op))
  BY RefusalIs DEF Fresh, Pending, Answered
<1>3. QED
  BY <1>1, <1>2 DEF Begun, Starts, Shaped

LEMMA Flagged == IInv => flagged \in BOOLEAN
BY DEF IInv, TypeOK

LEMMA AgentsBegin ==
    ASSUME IInv, NEW r \in Requests, AgentRoutes(r)
    PROVE  Begun(r)
<1>0. TypeOK /\ flagged \in BOOLEAN
  BY Flagged DEF IInv
<1>1. ASSUME NEW b \in BOOLEAN, BeginCreate(r, b)
      PROVE  Begun(r)
  <2> DEFINE q == [IdleRequest EXCEPT !.op = "create", !.pc = "write", !.copy = NewAgent(b)]
  <2>1. Shaped(q) /\ q.op = "create" /\ q.pc = "write" /\ q.copy.isDefault = b
    BY CreateIs
  <2>2. Begin(r, q, TRUE) /\ flagged' = (flagged \/ b)
    BY <1>1 DEF BeginCreate
  <2> HIDE DEF q
  <2>3. Fresh(q)
    BY <2>1, <2>2 DEF Fresh, ChatOps
  <2>4. QED
    BY <1>0, <2>1, <2>2, <2>3, Begins DEF Ops
<1>2. ASSUME NEW b \in BOOLEAN, BeginGetDefault(r, b)
      PROVE  Begun(r)
  <2> DEFINE point == IF b \/ \E a \in AgentIds : Owned(a) THEN "done" ELSE "write"
             q == [IdleRequest EXCEPT !.op = "getDefault", !.copy = NewAgent(TRUE), !.pc = point]
             p == [IdleRequest EXCEPT !.op = "getDefault", !.pc = point, !.copy = NewAgent(TRUE)]
  <2>1. p = q
    OBVIOUS
  <2>2. point \in {"write", "done"} /\ (point = "write" => \A a \in AgentIds : ~Owned(a))
    OBVIOUS
  <2>3. Begin(r, q, TRUE) /\ flagged' = flagged
    BY <1>2 DEF BeginGetDefault
  <2> HIDE DEF point
  <2>4. Shaped(p) /\ p.op = "getDefault" /\ p.pc = point
    BY <2>2, CreateIs
  <2> HIDE DEF p, q
  <2>5. Fresh(q)
    BY <2>1, <2>2, <2>4 DEF Fresh, ChatOps, Pending, Answered
  <2>6. QED
    BY <1>0, <2>1, <2>2, <2>3, <2>4, <2>5, Begins DEF Ops
<1>3. ASSUME NEW a \in AgentIds, BeginUpdate(r, a)
      PROVE  Begun(r)
  <2> DEFINE q == FoundAgent(a)
  <2>1. /\ q \in Request /\ q.op = "save" /\ q.pc = "write" /\ q.agent = a /\ q.copy = agents[a]
        /\ q.events = 0 /\ q.loaded = {"conversations"} /\ q.conversations = ConvsOf(a)
    BY <1>0, FoundAgentIs
  <2>2. Begin(r, q, Owned(a)) /\ flagged' = flagged
    BY <1>3 DEF BeginUpdate
  <2> HIDE DEF q
  <2>3. Owned(a) \in BOOLEAN /\ (Owned(a) => Shaped(q))
    BY <1>0, <2>1, SaveIs, AgentCopy DEF Owned, Agent
  <2>4. Owned(a) => Fresh(q)
    BY <2>1 DEF Fresh, ChatOps
  <2>5. QED
    BY <1>0, <2>1, <2>2, <2>3, <2>4, Begins DEF Ops
<1>4. ASSUME NEW a \in AgentIds, BeginRemove(r, a)
      PROVE  Begun(r)
  <2> DEFINE q == [IdleRequest EXCEPT !.op = "remove", !.pc = "write", !.agent = a]
  <2>1. Begin(r, q, Owned(a)) /\ flagged' = flagged
    BY <1>4 DEF BeginRemove
  <2>2. Shaped(q) /\ q.op = "remove" /\ q.pc = "write"
    BY OnAgentIs
  <2> HIDE DEF q
  <2>3. Owned(a) \in BOOLEAN /\ Fresh(q)
    BY <1>0, <2>2, AgentCopy DEF Fresh, ChatOps, Owned, Agent
  <2>4. QED
    BY <1>0, <2>1, <2>2, <2>3, Begins DEF Ops
<1>5. ASSUME NEW a \in AgentIds, BeginSetDefault(r, a)
      PROVE  Begun(r)
  <2> DEFINE q == [IdleRequest EXCEPT !.op = "setDefault", !.pc = "clear", !.agent = a]
  <2>1. Begin(r, q, TRUE) /\ flagged' = flagged
    BY <1>5 DEF BeginSetDefault
  <2>2. Shaped(q) /\ q.op = "setDefault" /\ q.pc = "clear"
    BY OnAgentIs
  <2> HIDE DEF q
  <2>3. Fresh(q)
    BY <2>2 DEF Fresh, ChatOps
  <2>4. QED
    BY <1>0, <2>1, <2>2, <2>3, Begins DEF Ops
<1>6. QED
  BY <1>1, <1>2, <1>3, <1>4, <1>5 DEF AgentRoutes

LEMMA ConversationsBegin ==
    ASSUME IInv, NEW r \in Requests, ConversationRoutes(r)
    PROVE  Begun(r)
<1>0. TypeOK /\ flagged \in BOOLEAN
  BY Flagged DEF IInv
<1>a. \A v \in ConvIds : OwnedConv(v) \in BOOLEAN /\ convs[v] \in Conversation
  BY <1>0 DEF OwnedConv, TypeOK, Conversation
<1>b. \A a \in AgentIds : Owned(a) \in BOOLEAN /\ agents[a].exists \in BOOLEAN
  BY <1>0 DEF Owned, TypeOK, Agent
<1>1. ASSUME NEW a \in AgentIds, BeginConverse(r, a)
      PROVE  Begun(r)
  <2> DEFINE q == [IdleRequest EXCEPT !.op = "converse", !.pc = "write", !.agent = a]
  <2>1. Begin(r, q, Owned(a)) /\ flagged' = flagged
    BY <1>1 DEF BeginConverse
  <2>2. Shaped(q) /\ q.op = "converse" /\ q.pc = "write"
    BY OnAgentIs
  <2> HIDE DEF q
  <2>3. Fresh(q)
    BY <2>2 DEF Fresh, ChatOps
  <2>4. QED
    BY <1>0, <1>b, <2>1, <2>2, <2>3, Begins DEF Ops
<1>2. ASSUME NEW a \in AgentIds, NEW v \in ConvIds, NEW op \in ChatOps, BeginChat(r, op, a, v)
      PROVE  Begun(r)
  <2> DEFINE point == IF op = "chatWithRole" THEN "card" ELSE "conv"
             found == IF op = "stream" THEN agents[a].exists ELSE Owned(a)
             q == [IdleRequest EXCEPT !.op = op, !.agent = a, !.conv = v, !.pc = point]
  <2>1. Begin(r, q, found) /\ flagged' = flagged
    BY <1>2 DEF BeginChat
  <2>2. point \in {"card", "conv"} /\ (point = "card" <=> op = "chatWithRole")
    OBVIOUS
  <2>3. found \in BOOLEAN
    BY <1>b
  <2> HIDE DEF point, found
  <2>a. a \in 0..MaxAgents /\ v \in 0..MaxConvs
    BY AgentsAssumption DEF AgentIds, ConvIds
  <2>b. ASSUME NEW m \in Request
        PROVE  [m EXCEPT !.op = op, !.agent = a, !.conv = v, !.pc = point] \in Request
    BY <2>2, <2>a DEF Request, Ops, PCs
  <2>c. q \in Request
    BY <2>b, Idle DEF Shaped
  <2>4. q.op = op /\ q.pc = point /\ q.conv = v /\ q.events = 0 /\ ~q.started
    BY DEF IdleRequest
  <2> HIDE DEF q
  <2>5. Shaped(q)
    BY <2>2, <2>4, <2>c DEF Shaped, Pending, Answered, AtItsOp, Carries, RowOps, ChatOps
  <2>6. Fresh(q)
    BY <2>2, <2>4, <2>5 DEF Fresh, ChatOps
  <2>7. QED
    BY <1>0, <2>1, <2>2, <2>3, <2>4, <2>5, <2>6, Begins DEF Ops, ChatOps
<1>3. ASSUME NEW v \in ConvIds, BeginRename(r, v)
      PROVE  Begun(r)
  <2> DEFINE q == [IdleRequest EXCEPT !.op = "rename", !.pc = "write", !.conv = v,
                                      !.copy = convs[v], !.history = HistoryOf(v)]
  <2>1. Begin(r, q, OwnedConv(v)) /\ flagged' = flagged
    BY <1>3 DEF BeginRename
  <2>2. HistoryOf(v) \in SUBSET Nat
    BY <1>0 DEF HistoryOf, TypeOK
  <2>a. v \in 0..MaxConvs /\ convs[v] \in Agent \cup Conversation
    BY <1>a, AgentsAssumption DEF ConvIds
  <2>b. ASSUME NEW m \in Request
        PROVE  [m EXCEPT !.op = "rename", !.pc = "write", !.conv = v,
                         !.copy = convs[v], !.history = HistoryOf(v)] \in Request
    BY <2>2, <2>a DEF Request, Ops, PCs
  <2>c. q \in Request
    BY <2>b, Idle DEF Shaped
  <2>d. /\ q.op = "rename" /\ q.pc = "write" /\ q.conv = v /\ q.copy = convs[v]
        /\ q.history = HistoryOf(v) /\ q.events = 0
    BY DEF IdleRequest
  <2> HIDE DEF q
  <2>3. Shaped(q)
    BY <1>a, <2>c, <2>d DEF Shaped, Pending, Answered, AtItsOp, Carries, RowOps, ChatOps
  <2>4. OwnedConv(v) => Fresh(q)
    BY <2>d DEF Fresh, ChatOps
  <2>5. QED
    BY <1>0, <1>a, <2>1, <2>d, <2>3, <2>4, Begins DEF Ops
<1>4. ASSUME NEW v \in ConvIds, BeginDrop(r, v)
      PROVE  Begun(r)
  <2> DEFINE q == [IdleRequest EXCEPT !.op = "drop", !.pc = "write", !.conv = v]
  <2>1. Begin(r, q, OwnedConv(v)) /\ flagged' = flagged
    BY <1>4 DEF BeginDrop
  <2>2. Shaped(q) /\ q.op = "drop" /\ q.pc = "write"
    BY OnConvIs
  <2> HIDE DEF q
  <2>3. Fresh(q)
    BY <2>2 DEF Fresh, ChatOps
  <2>4. QED
    BY <1>0, <1>a, <2>1, <2>2, <2>3, Begins DEF Ops
<1>5. ASSUME NEW v \in ConvIds, BeginAddMessage(r, v)
      PROVE  Begun(r)
  <2> DEFINE q == [IdleRequest EXCEPT !.op = "addMessage", !.pc = "reply", !.conv = v]
  <2>1. Begin(r, q, OwnedConv(v)) /\ flagged' = flagged
    BY <1>5 DEF BeginAddMessage
  <2>2. Shaped(q) /\ q.op = "addMessage" /\ q.pc = "reply"
    BY OnConvIs
  <2> HIDE DEF q
  <2>3. Fresh(q)
    BY <2>2 DEF Fresh, ChatOps
  <2>4. QED
    BY <1>0, <1>a, <2>1, <2>2, <2>3, Begins DEF Ops
<1>6. QED
  BY <1>1, <1>2, <1>3, <1>4, <1>5 DEF ConversationRoutes

LEMMA CardsBegin ==
    ASSUME IInv, NEW r \in Requests, CardRoutes(r)
    PROVE  Begun(r)
<1>0. TypeOK /\ flagged \in BOOLEAN
  BY Flagged DEF IInv
<1>b. \A a \in AgentIds : Owned(a) \in BOOLEAN /\ (Owned(a) => agents[a].exists)
  BY <1>0 DEF Owned, TypeOK, Agent
<1>1. CASE BeginMakeCard(r)
  <2> DEFINE q == [IdleRequest EXCEPT !.op = "makeCard", !.pc = "write"]
  <2>1. Begin(r, q, TRUE) /\ flagged' = flagged
    BY <1>1 DEF BeginMakeCard
  <2>2. Shaped(q) /\ q.op = "makeCard" /\ q.pc = "write"
    BY MakeCardIs
  <2> HIDE DEF q
  <2>3. Fresh(q)
    BY <2>2 DEF Fresh, ChatOps
  <2>4. QED
    BY <1>0, <2>1, <2>2, <2>3, Begins DEF Ops
<1>2. ASSUME NEW c \in Cards, BeginEditCard(r, c)
      PROVE  Begun(r)
  <2> DEFINE q == [IdleRequest EXCEPT !.op = "editCard", !.pc = "write", !.card = c]
  <2>1. Begin(r, q, cards[c] = "own") /\ flagged' = flagged
    BY <1>2 DEF BeginEditCard
  <2>2. Shaped(q) /\ q.op = "editCard" /\ q.pc = "write" /\ q.card = c
    BY OnCardIs
  <2> HIDE DEF q
  <2>3. cards[c] = "own" => Fresh(q)
    BY <2>2 DEF Fresh, ChatOps
  <2>4. QED
    BY <1>0, <2>1, <2>2, <2>3, Begins DEF Ops
<1>3. ASSUME NEW c \in Cards, BeginRemoveCard(r, c)
      PROVE  Begun(r)
  <2> DEFINE q == [IdleRequest EXCEPT !.op = "removeCard", !.pc = "write", !.card = c]
  <2>1. Begin(r, q, cards[c] = "own") /\ flagged' = flagged
    BY <1>3 DEF BeginRemoveCard
  <2>2. Shaped(q) /\ q.op = "removeCard" /\ q.pc = "write"
    BY OnCardIs
  <2> HIDE DEF q
  <2>3. Fresh(q)
    BY <2>2 DEF Fresh, ChatOps
  <2>4. QED
    BY <1>0, <2>1, <2>2, <2>3, Begins DEF Ops
<1>4. ASSUME NEW c \in Cards, NEW a \in AgentIds, BeginAddCard(r, a, c)
      PROVE  Begun(r)
  <2> DEFINE q == [FoundAgent(a) EXCEPT !.loaded = {"conversations", "roleCards"},
                                        !.roleCards = {c}]
  <2>1. PICK public \in BOOLEAN : Begin(r, q, Owned(a) /\ Offered(c, public))
    BY <1>4 DEF BeginAddCard
  <2>2. flagged' = flagged
    BY <1>4 DEF BeginAddCard
  <2>3. q.op = "save" /\ q.pc = "write"
    BY DEF FoundAgent, IdleRequest
  <2>4. Owned(a) => /\ Shaped(q) /\ q.agent = a /\ q.copy = agents[a]
                    /\ q.conversations = ConvsOf(a)
    BY <1>0, <1>b, AddCardIs
  <2> HIDE DEF q
  <2>5. Owned(a) => Fresh(q)
    BY <2>3, <2>4 DEF Fresh, ChatOps
  <2>6. (Owned(a) /\ Offered(c, public)) \in BOOLEAN
    BY DEF Offered
  <2>7. QED
    BY <1>0, <2>1, <2>2, <2>3, <2>4, <2>5, <2>6, Begins DEF Ops
<1>5. ASSUME NEW c \in Cards, NEW a \in AgentIds, BeginTakeCard(r, a, c)
      PROVE  Begun(r)
  <2> DEFINE b == (agents[a].current = c)
             q == [FoundWithCards(a) EXCEPT !.roleCards = @ \ {c}, !.keepsCurrent = b]
  <2>1. Begin(r, q, Owned(a)) /\ flagged' = flagged
    BY <1>5 DEF BeginTakeCard
  <2>2. q.op = "save" /\ q.pc = "write"
    BY DEF FoundWithCards, IdleRequest
  <2>3. b \in BOOLEAN
    OBVIOUS
  <2> HIDE DEF b
  <2>a. LET f == FoundWithCards(a)
        IN  /\ f \in Request /\ f.op = "save" /\ f.pc = "write" /\ f.agent = a /\ f.copy = agents[a]
            /\ f.events = 0 /\ f.loaded = {"roleCards"}
    BY <1>0, FoundWithCardsIs
  <2>b. ASSUME NEW f \in Request
        PROVE  LET m == [f EXCEPT !.roleCards = @ \ {c}, !.keepsCurrent = b]
               IN  /\ m \in Request /\ m.agent = f.agent /\ m.copy = f.copy
                   /\ m.events = f.events /\ m.loaded = f.loaded
    BY <2>3 DEF Request
  <2>c. /\ q \in Request /\ q.agent = a /\ q.copy = agents[a]
        /\ q.events = 0 /\ q.loaded = {"roleCards"}
    BY <2>a, <2>b
  <2> HIDE DEF q
  <2>4. Owned(a) => Shaped(q)
    BY <1>0, <1>b, <2>2, <2>c, SaveIs, AgentCopy
  <2>5. Owned(a) => Fresh(q)
    BY <2>2, <2>c DEF Fresh, ChatOps
  <2>6. QED
    BY <1>0, <1>b, <2>1, <2>2, <2>4, <2>5, Begins DEF Ops
<1>6. ASSUME NEW c \in Cards, NEW a \in AgentIds, BeginSwitchCard(r, a, c)
      PROVE  Begun(r)
  <2> DEFINE q == [FoundWithCards(a) EXCEPT !.copy.current = c]
  <2>1. Begin(r, q, Owned(a) /\ c \in holds[a]) /\ flagged' = flagged
    BY <1>6 DEF BeginSwitchCard
  <2>2. q.op = "save" /\ q.pc = "write"
    BY DEF FoundWithCards, IdleRequest
  <2>3. Owned(a) => /\ Shaped(q) /\ q.agent = a /\ q.copy.isDefault = agents[a].isDefault
                    /\ q.loaded = {"roleCards"}
    BY <1>0, <1>b, SwitchCardIs
  <2> HIDE DEF q
  <2>4. Owned(a) => Fresh(q)
    BY <2>2, <2>3 DEF Fresh, ChatOps
  <2>5. (Owned(a) /\ c \in holds[a]) \in BOOLEAN
    OBVIOUS
  <2>6. QED
    BY <1>0, <2>1, <2>2, <2>3, <2>4, <2>5, Begins DEF Ops
<1>7. QED
  BY <1>1, <1>2, <1>3, <1>4, <1>5, <1>6 DEF CardRoutes

-----------------------------------------------------------------------------
(* What goes on and what ends *)

\* The fields that a request keeps while it is not answered
Same(p, q) ==
    /\ p.op = q.op /\ p.agent = q.agent /\ p.conv = q.conv /\ p.card = q.card /\ p.copy = q.copy
    /\ p.loaded = q.loaded /\ p.conversations = q.conversations /\ p.roleCards = q.roleCards
    /\ p.history = q.history /\ p.keepsCurrent = q.keepsCurrent /\ p.events = q.events

On(r) ==
    /\ Live(r) /\ Only(r) /\ run' \in [Requests -> Request]
    /\ Shaped(run'[r]) /\ Pending(run'[r]) /\ Same(run'[r], run[r])

Ends(r, point) ==
    /\ Live(r) /\ Only(r) /\ run' \in [Requests -> Request]
    /\ Shaped(run'[r]) /\ run'[r].pc = point /\ point \in Answered
    /\ run'[r].op = run[r].op /\ run'[r].conv = run[r].conv /\ run'[r].started = run[r].started
    /\ run'[r].events = IF run[r].started THEN 1 ELSE 0

LEMMA RunIs ==
    ASSUME IInv, NEW r \in Requests
    PROVE  /\ run \in [Requests -> Request] /\ run[r] \in Request /\ Shaped(run[r])
           /\ Live(r) = Pending(run[r])
           /\ Live(r) => AtItsOp(run[r]) /\ Carries(run[r]) /\ run[r].events = 0
BY DEF IInv, TypeOK, Shaped, Live, Pending, Answered

LEMMA OnIs ==
    ASSUME IInv, NEW r \in Requests, Live(r), NEW p \in Request, Same(p, run[r]),
           Pending(p), AtItsOp(p), p.pc = "act" => p.left > 0, run' = [run EXCEPT ![r] = p]
    PROVE  On(r) /\ run'[r] = p
<1>1. run'[r] = p /\ Only(r) /\ run' \in [Requests -> Request]
  BY RunIs, Becomes
<1>2. Carries(p) /\ p.events = 0
  BY RunIs DEF Carries, Same
<1>3. Shaped(p)
  BY <1>2 DEF Shaped, Pending
<1>4. QED
  BY <1>1, <1>3 DEF On

LEMMA GotoIs ==
    ASSUME IInv, NEW r \in Requests, Live(r), NEW point \in PCs \ {"idle", "act"}, point \notin Answered,
           Goto(r, point), \A p : p.op = run[r].op /\ p.pc = point => AtItsOp(p)
    PROVE  On(r) /\ run'[r].pc = point /\ run'[r].started = run[r].started
<1> DEFINE p == [run[r] EXCEPT !.pc = point]
<1>1. run[r] \in Request /\ run \in [Requests -> Request]
  BY RunIs
<1>2. p \in Request /\ p.pc = point /\ p.started = run[r].started /\ Same(p, run[r])
  BY <1>1 DEF Request, Same
<1>3. run' = [run EXCEPT ![r] = p]
  BY <1>1 DEF Goto
<1> HIDE DEF p
<1>4. Pending(p) /\ AtItsOp(p)
  BY <1>2 DEF Pending, Same
<1>5. QED
  BY <1>2, <1>3, <1>4, OnIs

LEMMA AnswerIs ==
    ASSUME IInv, NEW r \in Requests, Live(r), NEW point \in Answered, Answer(r, point)
    PROVE  Ends(r, point)
<1> DEFINE q == run[r]
           e == IF q.started THEN q.events + 1 ELSE 0
           p == [IdleRequest EXCEPT !.op = q.op, !.pc = point, !.conv = q.conv,
                                    !.started = q.started, !.events = e]
<1>1. run[r] \in Request /\ run \in [Requests -> Request] /\ run[r].events = 0
  BY RunIs
<1>2. e = (IF q.started THEN 1 ELSE 0)
  BY <1>1
<1>3. /\ q.op \in Ops /\ q.conv \in 0..MaxConvs /\ q.started \in BOOLEAN
  BY <1>1 DEF Request
<1>4. run' = [run EXCEPT ![r] = p]
  BY DEF Answer
<1> HIDE DEF e
<1>5. e \in 0..2
  BY <1>2
<1> HIDE DEF q
<1>6. ASSUME NEW m \in Request
      PROVE  [m EXCEPT !.op = q.op, !.pc = point, !.conv = q.conv,
                       !.started = q.started, !.events = e] \in Request
  BY <1>3, <1>5 DEF Request, PCs, Answered
<1>7. p \in Request
  BY <1>6, Idle DEF Shaped
<1>8. p.op = q.op /\ p.pc = point /\ p.conv = q.conv /\ p.started = q.started /\ p.events = e
  BY DEF IdleRequest
<1> HIDE DEF p
<1>9. Shaped(p)
  BY <1>7, <1>8 DEF Shaped, Pending, Answered
<1>10. run'[r] = p /\ Only(r) /\ run' \in [Requests -> Request]
  BY <1>1, <1>4, <1>7, Becomes
<1>11. QED
  BY <1>2, <1>8, <1>9, <1>10 DEF Ends, q

-----------------------------------------------------------------------------
(* IInv *)

RowsTyped ==
    /\ agents \in [AgentIds -> Agent]
    /\ holds \in [AgentIds -> SUBSET Cards]
    /\ cards \in [Cards -> {"unmade", "own", "orphan", "gone"}]
    /\ convs \in [ConvIds -> Conversation]
    /\ messages \in Seq(Message)
    /\ made \in [agents: 0..MaxAgents, convs: 0..MaxConvs]

RowsMade ==
    /\ \A a \in AgentIds : /\ agents[a].exists => a <= made.agents
                           /\ agents[a].owned => agents[a].exists
    /\ \A v \in ConvIds : convs[v].exists => v <= made.convs

LEMMA BegunKeeps ==
    ASSUME IInv, NEW r \in Requests, Begun(r)
    PROVE  IInv'
<1>1. PICK q \in Request : Starts(r, q) /\ Fresh(q) /\ flagged' \in BOOLEAN
  BY DEF Begun
<1>a. /\ agents' = agents /\ holds' = holds /\ cards' = cards /\ convs' = convs
      /\ messages' = messages /\ made' = made /\ faults' = faults
  BY <1>1 DEF Starts, rowVars
<1>2. TypeOK'
  <2>1. q.op \in Ops /\ \A o \in Requests : run[o].op \in Ops
    BY RunIs DEF Request
  <2>2. overlaps' = overlaps \cup {{q.op, run[o].op} : o \in {o \in Requests : Live(o)}}
    BY <1>1 DEF Starts
  <2>3. overlaps \subseteq {{x, y} : x, y \in Ops}
    BY DEF IInv, TypeOK
  <2>4. overlaps' \subseteq {{x, y} : x, y \in Ops}
    BY <2>1, <2>2, <2>3
  <2>5. run' \in [Requests -> Request] /\ flagged' \in BOOLEAN
    BY <1>1 DEF Starts
  <2>6. QED
    BY <1>a, <2>4, <2>5 DEF IInv, TypeOK
<1>3. \A o \in Requests : Shaped(run'[o])
  BY <1>1 DEF IInv, Starts, Only
<1>4. Made'
  <2>1. RowsMade
    BY DEF IInv, Made, RowsMade
  <2>2. Pending(q) => /\ q.op = "save" => Owned(q.agent) /\ q.agent \in AgentIds
                      /\ q.op = "rename" => OwnedConv(q.conv) /\ q.conv \in ConvIds
    BY <1>1 DEF Fresh, Starts, Shaped, Carries
  <2>3. Pending(q) => /\ q.op = "save" => q.agent <= made.agents
                      /\ q.op = "rename" => q.conv <= made.convs
    BY <2>1, <2>2 DEF RowsMade, Owned, OwnedConv
  <2>4. ASSUME NEW o \in Requests, Live(o)'
        PROVE  /\ run'[o].op = "save" => run'[o].agent <= made.agents
               /\ run'[o].op = "rename" => run'[o].conv <= made.convs
    <3>1. CASE o = r
      BY <1>1, <2>3, <2>4, <3>1 DEF Starts, Live, Pending, Answered
    <3>2. CASE o # r
      BY <1>1, <2>4, <3>2 DEF IInv, Made, Starts, Only, Live
    <3>3. QED
      BY <3>1, <3>2
  <2>5. RowsMade'
    BY <1>a, <2>1 DEF RowsMade
  <2>6. QED
    BY <1>a, <2>4, <2>5 DEF Made, RowsMade
<1>5. Paired'
  <2>1. ASSUME NEW o \in Requests, NEW o2 \in Requests, Live(o)', Live(o2)', o # o2
        PROVE  {run'[o].op, run'[o2].op} \in overlaps'
    <3>1. CASE o # r /\ o2 # r
      BY <1>1, <2>1, <3>1 DEF IInv, Paired, Starts, Only, Live
    <3>2. CASE o = r
      BY <1>1, <2>1, <3>2 DEF Starts, Only, Live
    <3>3. CASE o2 = r
      <4>1. {q.op, run[o].op} \in overlaps'
        BY <1>1, <2>1, <3>3 DEF Starts, Only, Live
      <4>2. {run'[o].op, run'[o2].op} = {q.op, run[o].op}
        BY <1>1, <2>1, <3>3 DEF Starts, Only
      <4>3. QED
        BY <4>1, <4>2
    <3>4. QED
      BY <3>1, <3>2, <3>3
  <2>2. QED
    BY <2>1 DEF Paired
<1>6. QED
  BY <1>2, <1>3, <1>4, <1>5 DEF IInv

\* A request goes on or ends, and the rows stay sound
LEMMA MovedKeeps ==
    ASSUME IInv, NEW r \in Requests, On(r) \/ (\E point \in Answered : Ends(r, point)),
           UNCHANGED <<overlaps, flagged>>, faults' \in 0..MaxFaults, RowsTyped', RowsMade',
           made'.agents >= made.agents, made'.convs >= made.convs
    PROVE  IInv'
<1>1. Live(r) /\ Only(r) /\ run' \in [Requests -> Request] /\ Shaped(run'[r])
  BY DEF On, Ends
<1>2. run'[r].op = run[r].op
  BY DEF On, Ends, Same
<1>3. Live(r)' => run'[r].agent = run[r].agent /\ run'[r].conv = run[r].conv
  BY DEF On, Ends, Same, Live, Answered
<1>4. TypeOK'
  BY <1>1 DEF IInv, TypeOK, RowsTyped
<1>5. \A o \in Requests : Shaped(run'[o])
  BY <1>1 DEF IInv, Only
<1>6. \A o \in Requests : /\ run'[o].op = run[o].op
                          /\ Live(o)' => /\ Live(o)
                                         /\ run'[o].agent = run[o].agent /\ run'[o].conv = run[o].conv
  BY <1>1, <1>2, <1>3 DEF Only, Live
<1>7. Paired'
  BY <1>6 DEF IInv, Paired
<1>8. Made'
  <2>1. ASSUME NEW o \in Requests, Live(o)'
        PROVE  /\ run'[o].op = "save" => run'[o].agent <= made'.agents
               /\ run'[o].op = "rename" => run'[o].conv <= made'.convs
    <3>1. /\ run[o].op = "save" => run[o].agent <= made.agents
          /\ run[o].op = "rename" => run[o].conv <= made.convs
      BY <1>6, <2>1 DEF IInv, Made
    <3>2. /\ made.agents \in Int /\ made.convs \in Int /\ made'.agents \in Int /\ made'.convs \in Int
          /\ run[o].agent \in Int /\ run[o].conv \in Int
      BY RunIs DEF IInv, TypeOK, RowsTyped, Request
    <3>3. QED
      BY <1>6, <2>1, <3>1, <3>2
  <2>2. QED
    BY <2>1 DEF Made, RowsMade
<1>9. QED
  BY <1>4, <1>5, <1>7, <1>8 DEF IInv

LEMMA RowsAre ==
    ASSUME IInv
    PROVE  RowsTyped /\ RowsMade /\ faults \in 0..MaxFaults
BY DEF IInv, TypeOK, RowsTyped, Made, RowsMade

LEMMA SettledKeeps ==
    ASSUME IInv, NEW r \in Requests, On(r) \/ (\E point \in Answered : Ends(r, point)),
           Settled, UNCHANGED <<rowVars>>
    PROVE  IInv'
<1>1. made'.agents >= made.agents /\ made'.convs >= made.convs
  BY RowsAre DEF RowsTyped, rowVars
<1>2. RowsTyped' /\ RowsMade' /\ faults' \in 0..MaxFaults
  BY RowsAre DEF RowsTyped, RowsMade, rowVars, Settled
<1>3. QED
  BY <1>1, <1>2, MovedKeeps DEF Settled

Finishes(r) == \E point \in Answered : Ends(r, point)

LEMMA AnswerFinishes ==
    ASSUME IInv, NEW r \in Requests, Live(r), Answer(r, "done") \/ Answer(r, "rejected")
    PROVE  Finishes(r)
BY AnswerIs DEF Finishes, Answered

LEMMA AtIs ==
    ASSUME IInv, NEW r \in Requests, run[r].pc = "write" \/ run[r].pc = "clear"
    PROVE  Live(r) /\ Carries(run[r]) /\ AtItsOp(run[r])
BY RunIs DEF Live

LEMMA InsertAgentGoes ==
    ASSUME IInv, NEW r \in Requests, InsertAgent(r)
    PROVE  IInv' /\ Finishes(r)
<1>1. Live(r) /\ run[r].copy \in Agent /\ run[r].copy.exists
  BY AtIs DEF InsertAgent, At, Carries
<1>2. Finishes(r)
  BY <1>1, AnswerFinishes DEF InsertAgent
<1>3. RowsTyped /\ RowsMade /\ faults \in 0..MaxFaults
  BY RowsAre
<1>4. /\ made.agents < MaxAgents /\ made' = [made EXCEPT !.agents = @ + 1]
      /\ agents' = [agents EXCEPT ![made.agents + 1] = run[r].copy]
      /\ holds' = holds /\ cards' = cards /\ convs' = convs /\ messages' = messages
  BY DEF InsertAgent
<1>5. made'.agents = made.agents + 1 /\ made'.convs = made.convs
  BY <1>3, <1>4 DEF RowsTyped
<1>6. RowsTyped'
  <2>1. made' \in [agents: 0..MaxAgents, convs: 0..MaxConvs]
    BY <1>3, <1>4, AgentsAssumption DEF RowsTyped
  <2>2. agents' \in [AgentIds -> Agent]
    BY <1>1, <1>3, <1>4 DEF RowsTyped
  <2>3. QED
    BY <1>3, <1>4, <2>1, <2>2 DEF RowsTyped
<1>7. RowsMade'
  <2>1. ASSUME NEW a \in AgentIds
        PROVE  /\ agents'[a].exists => a <= made'.agents
               /\ agents'[a].owned => agents'[a].exists
    <3>1. CASE a = made.agents + 1
      BY <1>1, <1>3, <1>4, <1>5, <3>1 DEF RowsTyped, AgentIds
    <3>2. CASE a # made.agents + 1
      <4>1. agents'[a] = agents[a]
        BY <1>3, <1>4, <3>2 DEF RowsTyped
      <4>2. made.agents \in Int
        BY <1>3 DEF RowsTyped
      <4>3. QED
        BY <1>3, <1>5, <4>1, <4>2 DEF RowsMade, AgentIds
    <3>3. QED
      BY <3>1, <3>2
  <2>2. QED
    BY <1>3, <1>4, <1>5, <2>1 DEF RowsMade
<1>8. made'.agents >= made.agents /\ made'.convs >= made.convs
  BY <1>3, <1>5 DEF RowsTyped
<1>9. QED
  BY <1>2, <1>3, <1>6, <1>7, <1>8, MovedKeeps DEF InsertAgent, Settled, Finishes

\* The row that the save of an agent leaves
Saved(r) ==
    [run[r].copy EXCEPT !.owned = agents[run[r].agent].owned,
        !.current = IF run[r].keepsCurrent THEN agents[run[r].agent].current ELSE @]

SaveAgentWrites(r) ==
    /\ agents' = [agents EXCEPT ![run[r].agent] = Saved(r)]
    /\ holds' = IF "roleCards" \in run[r].loaded THEN [holds EXCEPT ![run[r].agent] = run[r].roleCards]
                                                 ELSE holds
    /\ convs' = [v \in ConvIds |-> IF "conversations" \in run[r].loaded /\ convs[v].exists
                                   THEN Attached(run[r], v) ELSE convs[v]]
    /\ UNCHANGED <<cards, messages, made>>

LEMMA SavedIs ==
    ASSUME IInv, NEW r \in Requests, At(r, "save", "write")
    PROVE  /\ run[r].agent \in AgentIds
           /\ Saved(r) \in Agent /\ Saved(r).exists
           /\ Saved(r).owned = agents[run[r].agent].owned
           /\ Saved(r).isDefault = run[r].copy.isDefault
<1>1. run[r].agent \in AgentIds /\ run[r].copy \in Agent /\ run[r].copy.exists
  BY AtIs DEF At, Carries
<1>2. agents[run[r].agent] \in Agent
  BY <1>1 DEF IInv, TypeOK
<1>3. QED
  BY <1>1, <1>2 DEF Saved, Agent

LEMMA AttachedIs ==
    ASSUME IInv, NEW r \in Requests, run[r].agent \in AgentIds, NEW v \in ConvIds
    PROVE  /\ Attached(run[r], v) \in Conversation
           /\ Attached(run[r], v).exists = convs[v].exists
           /\ (v \in run[r].conversations <=> convs[v].agent = run[r].agent) => Attached(run[r], v) = convs[v]
<1>1. convs[v] \in Conversation
  BY DEF IInv, TypeOK
<1>2. run[r].agent \in 0..MaxAgents /\ 0 \in 0..MaxAgents
  BY AgentsAssumption DEF AgentIds
<1>3. ASSUME NEW row \in Conversation, NEW a \in 0..MaxAgents
      PROVE  /\ [row EXCEPT !.agent = a] \in Conversation
             /\ [row EXCEPT !.agent = a].exists = row.exists
             /\ row.agent = a => [row EXCEPT !.agent = a] = row
  BY <1>3 DEF Conversation
<1> DEFINE a == IF v \in run[r].conversations THEN run[r].agent
               ELSE IF convs[v].agent = run[r].agent THEN 0 ELSE convs[v].agent
<1>4. a \in 0..MaxAgents
  BY <1>1, <1>2 DEF Conversation
<1>5. Attached(run[r], v) = [convs[v] EXCEPT !.agent = a]
  BY DEF Attached
<1>6. (v \in run[r].conversations <=> convs[v].agent = run[r].agent) => convs[v].agent = a
  OBVIOUS
<1> HIDE DEF a
<1>7. QED
  BY <1>1, <1>3, <1>4, <1>5, <1>6

LEMMA SaveAgentGoes ==
    ASSUME IInv, NEW r \in Requests, SaveAgent(r)
    PROVE  IInv' /\ Finishes(r) /\ (UNCHANGED rowVars \/ SaveAgentWrites(r))
<1>1. At(r, "save", "write") /\ Settled
  BY DEF SaveAgent
<1>2. Live(r)
  BY <1>1, AtIs DEF At
<1>3. \/ Answer(r, "rejected") /\ UNCHANGED rowVars
      \/ Answer(r, "done") /\ SaveAgentWrites(r)
  BY DEF SaveAgent, SaveAgentWrites, Saved
<1>4. Finishes(r)
  BY <1>2, <1>3, AnswerFinishes
<1>5. CASE UNCHANGED rowVars
  BY <1>1, <1>4, <1>5, SettledKeeps DEF Finishes
<1>6. CASE SaveAgentWrites(r)
  <2>1. RowsTyped /\ RowsMade /\ faults \in 0..MaxFaults
    BY RowsAre
  <2>2. /\ run[r].agent \in AgentIds
        /\ Saved(r) \in Agent /\ Saved(r).exists
        /\ Saved(r).owned = agents[run[r].agent].owned
    BY <1>1, SavedIs
  <2>3. \A v \in ConvIds : convs'[v] \in Conversation /\ convs'[v].exists = convs[v].exists
    <3>1. ASSUME NEW v \in ConvIds
          PROVE  convs'[v] \in Conversation /\ convs'[v].exists = convs[v].exists
      <4>1. convs'[v] = Attached(run[r], v) \/ convs'[v] = convs[v]
        BY <1>6 DEF SaveAgentWrites
      <4>2. convs[v] \in Conversation
        BY <2>1 DEF RowsTyped
      <4>3. QED
        BY <2>2, <4>1, <4>2, AttachedIs
    <3>2. QED
      BY <3>1
  <2>4. convs' \in [ConvIds -> Conversation]
    BY <1>6, <2>3 DEF SaveAgentWrites
  <2>5. run[r].roleCards \in SUBSET Cards
    BY RunIs DEF Request
  <2>6. agents' \in [AgentIds -> Agent] /\ holds' \in [AgentIds -> SUBSET Cards]
    BY <1>6, <2>1, <2>2, <2>5 DEF SaveAgentWrites, RowsTyped
  <2>7. RowsTyped'
    BY <1>6, <2>1, <2>4, <2>6 DEF SaveAgentWrites, RowsTyped
  <2>8. run[r].agent <= made.agents
    BY <1>1, <1>2 DEF IInv, Made, At
  <2>9. ASSUME NEW a \in AgentIds
        PROVE  /\ agents'[a].exists => a <= made'.agents
               /\ agents'[a].owned => agents'[a].exists
    <3>1. agents'[a] = IF a = run[r].agent THEN Saved(r) ELSE agents[a]
      BY <1>6, <2>1, <2>2 DEF SaveAgentWrites, RowsTyped
    <3>2. QED
      BY <1>6, <2>1, <2>2, <2>8, <3>1 DEF SaveAgentWrites, RowsMade
  <2>10. RowsMade'
    BY <1>6, <2>1, <2>3, <2>9 DEF SaveAgentWrites, RowsMade
  <2>11. made'.agents >= made.agents /\ made'.convs >= made.convs
    BY <1>6, <2>1 DEF RowsTyped, SaveAgentWrites
  <2>12. QED
    BY <1>1, <1>4, <2>1, <2>7, <2>10, <2>11, <1>6, MovedKeeps DEF Settled, Finishes
<1>7. QED
  BY <1>3, <1>4, <1>5, <1>6

LEMMA RemoveAgentGoes ==
    ASSUME IInv, NEW r \in Requests, RemoveAgent(r)
    PROVE  /\ IInv' /\ Finishes(r)
           /\ convs' = convs /\ messages' = messages /\ cards' = cards
           /\ run[r].agent \in AgentIds
           /\ agents' = agents \/ agents' = [agents EXCEPT ![run[r].agent] = NoAgent]
<1>1. At(r, "remove", "write") /\ Settled
  BY DEF RemoveAgent
<1>2. Live(r) /\ run[r].agent \in AgentIds
  BY <1>1, AtIs DEF At, Carries
<1>3. \/ Answer(r, "rejected") /\ UNCHANGED rowVars
      \/ /\ Answer(r, "done")
         /\ agents' = [agents EXCEPT ![run[r].agent] = NoAgent]
         /\ holds' = [holds EXCEPT ![run[r].agent] = {}]
         /\ UNCHANGED <<cards, convs, messages, made>>
  BY DEF RemoveAgent
<1>4. Finishes(r)
  BY <1>2, <1>3, AnswerFinishes
<1>5. CASE UNCHANGED rowVars
  BY <1>1, <1>2, <1>4, <1>5, SettledKeeps DEF Finishes, rowVars
<1>6. CASE /\ agents' = [agents EXCEPT ![run[r].agent] = NoAgent]
           /\ holds' = [holds EXCEPT ![run[r].agent] = {}]
           /\ UNCHANGED <<cards, convs, messages, made>>
  <2>1. RowsTyped /\ RowsMade /\ faults \in 0..MaxFaults
    BY RowsAre
  <2>2. NoAgent \in Agent /\ ~NoAgent.exists /\ ~NoAgent.owned
    BY DEF NoAgent, Agent
  <2>3. RowsTyped'
    BY <1>2, <1>6, <2>1, <2>2 DEF RowsTyped
  <2>4. \A a \in AgentIds : agents'[a] = NoAgent \/ agents'[a] = agents[a]
    BY <1>2, <1>6, <2>1 DEF RowsTyped
  <2>5. RowsMade'
    BY <1>6, <2>1, <2>2, <2>4 DEF RowsMade
  <2>6. made'.agents >= made.agents /\ made'.convs >= made.convs
    BY <1>6, <2>1 DEF RowsTyped
  <2>7. QED
    BY <1>1, <1>2, <1>4, <1>6, <2>1, <2>3, <2>5, <2>6, MovedKeeps DEF Settled, Finishes
<1>7. QED
  BY <1>3, <1>5, <1>6

\* What the writes of role cards leave alone
LEMMA CardsGo ==
    ASSUME IInv, NEW r \in Requests, InsertCard(r) \/ SaveCard(r) \/ RemoveCard(r)
    PROVE  /\ IInv' /\ Finishes(r)
           /\ agents' = agents /\ convs' = convs /\ messages' = messages
<1>1. Live(r) /\ Settled
  BY AtIs DEF InsertCard, SaveCard, RemoveCard, At
<1>2. Answer(r, "done") /\ agents' = agents /\ convs' = convs /\ messages' = messages /\ made' = made
  BY DEF InsertCard, SaveCard, RemoveCard
<1>3. Finishes(r)
  BY <1>1, <1>2, AnswerFinishes
<1>4. RowsTyped /\ RowsMade /\ faults \in 0..MaxFaults
  BY RowsAre
<1>5. cards' \in [Cards -> {"unmade", "own", "orphan", "gone"}]
  BY <1>4 DEF InsertCard, SaveCard, RemoveCard, RowsTyped
<1>6. holds' \in [AgentIds -> SUBSET Cards]
  BY <1>4 DEF InsertCard, SaveCard, RemoveCard, RowsTyped
<1>7. RowsTyped' /\ RowsMade'
  BY <1>2, <1>4, <1>5, <1>6 DEF RowsTyped, RowsMade
<1>8. made'.agents >= made.agents /\ made'.convs >= made.convs
  BY <1>2, <1>4 DEF RowsTyped
<1>9. QED
  BY <1>1, <1>2, <1>3, <1>4, <1>7, <1>8, MovedKeeps DEF Settled, Finishes

LEMMA ClearDefaultsGoes ==
    ASSUME IInv, NEW r \in Requests, ClearDefaults(r)
    PROVE  /\ IInv' /\ On(r) /\ run'[r].pc = "write"
           /\ \A a \in AgentIds : /\ agents'[a].exists = agents[a].exists
                                  /\ agents'[a].owned = agents[a].owned
                                  /\ Owned(a) => ~agents'[a].isDefault
           /\ convs' = convs /\ messages' = messages /\ cards' = cards
<1>1. Live(r) /\ Settled /\ run[r].op = "setDefault" /\ Goto(r, "write")
  BY AtIs DEF ClearDefaults, At
<1>2. On(r) /\ run'[r].pc = "write"
  <2>1. \A p : p.op = run[r].op /\ p.pc = "write" => AtItsOp(p)
    BY <1>1 DEF AtItsOp, RowOps
  <2>2. QED
    BY <1>1, <2>1, GotoIs DEF PCs, Answered
<1>3. RowsTyped /\ RowsMade /\ faults \in 0..MaxFaults
  BY RowsAre
<1>4. ASSUME NEW a \in AgentIds
      PROVE  /\ agents'[a] \in Agent
             /\ agents'[a].exists = agents[a].exists
             /\ agents'[a].owned = agents[a].owned
             /\ Owned(a) => ~agents'[a].isDefault
  <2>1. agents[a] \in Agent
    BY <1>3 DEF RowsTyped
  <2>2. agents'[a] = [agents[a] EXCEPT !.isDefault = agents[a].isDefault /\ ~Owned(a)]
    BY DEF ClearDefaults
  <2>3. QED
    BY <2>1, <2>2 DEF Agent
<1>5. convs' = convs /\ messages' = messages /\ cards' = cards /\ holds' = holds /\ made' = made
  BY DEF ClearDefaults
<1>6. agents' \in [AgentIds -> Agent]
  BY <1>4 DEF ClearDefaults
<1>7. RowsTyped'
  BY <1>3, <1>5, <1>6 DEF RowsTyped
<1>8. RowsMade'
  BY <1>3, <1>4, <1>5 DEF RowsMade
<1>9. made'.agents >= made.agents /\ made'.convs >= made.convs
  BY <1>3, <1>5 DEF RowsTyped
<1>10. QED
  BY <1>1, <1>2, <1>3, <1>4, <1>5, <1>7, <1>8, <1>9, MovedKeeps DEF Settled

LEMMA SetDefaultGoes ==
    ASSUME IInv, NEW r \in Requests, SetDefault(r)
    PROVE  /\ IInv' /\ Finishes(r)
           /\ \A a \in AgentIds : /\ agents'[a].exists = agents[a].exists
                                  /\ agents'[a].owned = agents[a].owned
                                  /\ a # run[r].agent => agents'[a] = agents[a]
           /\ convs' = convs /\ messages' = messages /\ cards' = cards
<1>1. Live(r) /\ Settled /\ run[r].agent \in AgentIds
  BY AtIs DEF SetDefault, At, Carries
<1>2. Finishes(r)
  BY <1>1, AnswerFinishes DEF SetDefault
<1>3. RowsTyped /\ RowsMade /\ faults \in 0..MaxFaults
  BY RowsAre
<1>a. \/ agents' = agents
      \/ agents' = [agents EXCEPT ![run[r].agent] = [agents[run[r].agent] EXCEPT !.isDefault = TRUE]]
  BY DEF SetDefault
<1>4. ASSUME NEW a \in AgentIds
      PROVE  /\ agents'[a] \in Agent
             /\ agents'[a].exists = agents[a].exists
             /\ agents'[a].owned = agents[a].owned
             /\ a # run[r].agent => agents'[a] = agents[a]
  <2>1. agents[a] \in Agent
    BY <1>3 DEF RowsTyped
  <2>2. agents'[a] = agents[a] \/ (a = run[r].agent /\ agents'[a] = [agents[a] EXCEPT !.isDefault = TRUE])
    BY <1>1, <1>3, <1>a DEF RowsTyped
  <2>3. QED
    BY <2>1, <2>2 DEF Agent
<1>5. convs' = convs /\ messages' = messages /\ cards' = cards /\ holds' = holds /\ made' = made
  BY DEF SetDefault
<1>6. agents' \in [AgentIds -> Agent]
  BY <1>3, <1>4, <1>a DEF RowsTyped
<1>7. RowsTyped'
  BY <1>3, <1>5, <1>6 DEF RowsTyped
<1>8. RowsMade'
  BY <1>3, <1>4, <1>5 DEF RowsMade
<1>9. made'.agents >= made.agents /\ made'.convs >= made.convs
  BY <1>3, <1>5 DEF RowsTyped
<1>10. QED
  BY <1>1, <1>2, <1>3, <1>4, <1>5, <1>7, <1>8, <1>9, MovedKeeps DEF Settled, Finishes

InsertConversationWrites(r) ==
    /\ made.convs < MaxConvs /\ made' = [made EXCEPT !.convs = @ + 1]
    /\ convs' = [convs EXCEPT ![made.convs + 1] = NewConversation(run[r].agent)]
    /\ UNCHANGED <<agents, holds, cards, messages>>

LEMMA InsertConversationGoes ==
    ASSUME IInv, NEW r \in Requests, InsertConversation(r)
    PROVE  /\ IInv' /\ Finishes(r) /\ run[r].agent \in AgentIds
           /\ UNCHANGED rowVars \/ InsertConversationWrites(r)
<1>1. Live(r) /\ Settled /\ run[r].agent \in AgentIds
  BY AtIs DEF InsertConversation, At, Carries
<1>2. \/ Answer(r, "rejected") /\ UNCHANGED rowVars
      \/ Answer(r, "done") /\ InsertConversationWrites(r)
  BY DEF InsertConversation, InsertConversationWrites
<1>3. Finishes(r)
  BY <1>1, <1>2, AnswerFinishes
<1>4. CASE UNCHANGED rowVars
  BY <1>1, <1>3, <1>4, SettledKeeps DEF Finishes
<1>5. CASE InsertConversationWrites(r)
  <2>1. RowsTyped /\ RowsMade /\ faults \in 0..MaxFaults
    BY RowsAre
  <2>2. NewConversation(run[r].agent) \in Conversation
    BY <1>1, AgentsAssumption DEF NewConversation, Conversation, AgentIds
  <2>3. made' \in [agents: 0..MaxAgents, convs: 0..MaxConvs]
        /\ made'.agents = made.agents /\ made'.convs = made.convs + 1
        /\ made.convs \in Nat /\ made.agents \in Nat
    BY <1>5, <2>1, AgentsAssumption DEF RowsTyped, InsertConversationWrites
  <2>4. convs' \in [ConvIds -> Conversation]
    BY <1>5, <2>1, <2>2 DEF RowsTyped, InsertConversationWrites
  <2>5. RowsTyped'
    BY <1>5, <2>1, <2>3, <2>4 DEF RowsTyped, InsertConversationWrites
  <2>6. ASSUME NEW v \in ConvIds, convs'[v].exists
        PROVE  v <= made'.convs
    <3>1. CASE v = made.convs + 1
      BY <2>3, <3>1
    <3>2. CASE v # made.convs + 1
      <4>1. convs'[v] = convs[v]
        BY <1>5, <2>1, <3>2 DEF RowsTyped, InsertConversationWrites
      <4>2. v <= made.convs
        BY <2>1, <2>6, <4>1 DEF RowsMade
      <4>3. QED
        BY <2>3, <4>2 DEF ConvIds
    <3>3. QED
      BY <3>1, <3>2
  <2>7. agents' = agents
    BY <1>5 DEF InsertConversationWrites
  <2>8. RowsMade'
    BY <2>1, <2>3, <2>6, <2>7 DEF RowsMade
  <2>9. made'.agents >= made.agents /\ made'.convs >= made.convs
    BY <2>3
  <2>10. QED
    BY <1>1, <1>3, <1>5, <2>1, <2>5, <2>8, <2>9, MovedKeeps DEF Settled, Finishes
<1>6. QED
  BY <1>1, <1>2, <1>3, <1>4, <1>5

\* The message that the save of a conversation leaves
Kept(r, i) ==
    IF i \in run[r].history THEN [messages[i] EXCEPT !.conv = run[r].conv]
    ELSE IF messages[i].conv = run[r].conv THEN [messages[i] EXCEPT !.conv = 0]
    ELSE messages[i]

SaveConversationWrites(r) ==
    /\ convs' = [convs EXCEPT ![run[r].conv] =
           [exists |-> TRUE, owned |-> convs[run[r].conv].owned, agent |-> run[r].copy.agent]]
    /\ messages' = [i \in DOMAIN messages |-> Kept(r, i)]
    /\ UNCHANGED <<agents, holds, cards, made>>

LEMMA KeptIs ==
    ASSUME IInv, NEW r \in Requests, run[r].conv \in ConvIds, NEW i \in DOMAIN messages
    PROVE  /\ Kept(r, i) \in Message
           /\ Kept(r, i).by = messages[i].by /\ Kept(r, i).role = messages[i].role
           /\ run[r].history = HistoryOf(run[r].conv) => Kept(r, i).conv = messages[i].conv
<1>1. messages[i] \in Message
  BY DEF IInv, TypeOK
<1>2. run[r].conv \in 0..MaxConvs /\ 0 \in 0..MaxConvs
  BY AgentsAssumption DEF ConvIds
<1>3. QED
  BY <1>1, <1>2 DEF Kept, Message, HistoryOf

LEMMA SaveConversationGoes ==
    ASSUME IInv, NEW r \in Requests, SaveConversation(r)
    PROVE  /\ IInv' /\ Finishes(r) /\ run[r].conv \in ConvIds /\ At(r, "rename", "write")
           /\ UNCHANGED rowVars \/ SaveConversationWrites(r)
<1>1. Live(r) /\ Settled /\ run[r].conv \in ConvIds /\ run[r].copy \in Conversation
      /\ At(r, "rename", "write")
  BY AtIs DEF SaveConversation, At, Carries
<1>2. \/ Answer(r, "rejected") /\ UNCHANGED rowVars
      \/ Answer(r, "done") /\ SaveConversationWrites(r)
  BY DEF SaveConversation, SaveConversationWrites, Kept
<1>3. Finishes(r)
  BY <1>1, <1>2, AnswerFinishes
<1>4. CASE UNCHANGED rowVars
  BY <1>1, <1>3, <1>4, SettledKeeps DEF Finishes
<1>5. CASE SaveConversationWrites(r)
  <2>1. RowsTyped /\ RowsMade /\ faults \in 0..MaxFaults
    BY RowsAre
  <2>2. convs[run[r].conv] \in Conversation
    BY <1>1, <2>1 DEF RowsTyped
  <2>3. [exists |-> TRUE, owned |-> convs[run[r].conv].owned, agent |-> run[r].copy.agent] \in Conversation
    BY <1>1, <2>2 DEF Conversation
  <2>4. convs' \in [ConvIds -> Conversation]
    BY <1>5, <2>1, <2>3 DEF RowsTyped, SaveConversationWrites
  <2>5. \A i \in DOMAIN messages : Kept(r, i) \in Message
    BY <1>1, KeptIs
  <2>6. messages' \in Seq(Message)
    <3>1. messages \in Seq(Message) /\ messages' = [i \in DOMAIN messages |-> Kept(r, i)]
      BY <1>5, <2>1 DEF RowsTyped, SaveConversationWrites
    <3>2. DOMAIN messages = 1..Len(messages) /\ Len(messages) \in Nat
      BY <3>1
    <3>3. messages' \in [1..Len(messages) -> Message]
      BY <2>5, <3>1, <3>2
    <3>4. QED
      BY <3>2, <3>3
  <2>7. RowsTyped'
    BY <1>5, <2>1, <2>4, <2>6 DEF RowsTyped, SaveConversationWrites
  <2>8. run[r].conv <= made.convs
    BY <1>1 DEF IInv, Made, At
  <2>9. \A v \in ConvIds : convs'[v].exists => v <= made'.convs
    BY <1>5, <2>1, <2>8 DEF RowsTyped, RowsMade, SaveConversationWrites
  <2>10. RowsMade'
    BY <1>5, <2>1, <2>9 DEF RowsMade, SaveConversationWrites
  <2>11. made'.agents >= made.agents /\ made'.convs >= made.convs
    BY <1>5, <2>1 DEF RowsTyped, SaveConversationWrites
  <2>12. QED
    BY <1>1, <1>3, <1>5, <2>1, <2>7, <2>10, <2>11, MovedKeeps DEF Settled, Finishes
<1>6. QED
  BY <1>1, <1>2, <1>3, <1>4, <1>5

LEMMA RemoveConversationGoes ==
    ASSUME IInv, NEW r \in Requests, RemoveConversation(r)
    PROVE  /\ IInv' /\ Finishes(r) /\ run[r].conv \in ConvIds
           /\ agents' = agents /\ messages' = messages /\ cards' = cards
           /\ convs' = convs \/ convs' = [convs EXCEPT ![run[r].conv] = NoConversation]
<1>1. Live(r) /\ Settled /\ run[r].conv \in ConvIds
  BY AtIs DEF RemoveConversation, At, Carries
<1>2. \/ Answer(r, "rejected") /\ UNCHANGED rowVars
      \/ /\ Answer(r, "done")
         /\ convs' = [convs EXCEPT ![run[r].conv] = NoConversation]
         /\ UNCHANGED <<agents, holds, cards, messages, made>>
  BY DEF RemoveConversation
<1>3. Finishes(r)
  BY <1>1, <1>2, AnswerFinishes
<1>4. CASE UNCHANGED rowVars
  BY <1>1, <1>3, <1>4, SettledKeeps DEF Finishes, rowVars
<1>5. CASE /\ convs' = [convs EXCEPT ![run[r].conv] = NoConversation]
           /\ UNCHANGED <<agents, holds, cards, messages, made>>
  <2>1. RowsTyped /\ RowsMade /\ faults \in 0..MaxFaults
    BY RowsAre
  <2>2. NoConversation \in Conversation /\ ~NoConversation.exists
    BY AgentsAssumption DEF NoConversation, Conversation
  <2>3. RowsTyped'
    BY <1>1, <1>5, <2>1, <2>2 DEF RowsTyped
  <2>4. \A v \in ConvIds : convs'[v] = NoConversation \/ convs'[v] = convs[v]
    BY <1>1, <1>5, <2>1 DEF RowsTyped
  <2>5. RowsMade'
    BY <1>5, <2>1, <2>2, <2>4 DEF RowsMade
  <2>6. made'.agents >= made.agents /\ made'.convs >= made.convs
    BY <1>5, <2>1 DEF RowsTyped
  <2>7. QED
    BY <1>1, <1>3, <1>5, <2>1, <2>3, <2>5, <2>6, MovedKeeps DEF Settled, Finishes
<1>6. QED
  BY <1>2, <1>4, <1>5

\* Where a chat has stored nothing yet, and where it has stored the user's message
Before == {"card", "conv", "say"}
After == {"think", "act", "sum", "talk", "tool", "reply"}

Quiet(r) ==
    /\ UNCHANGED rowVars
    /\ \/ On(r) /\ run[r].pc \in Before /\ run'[r].pc \in Before
       \/ On(r) /\ run[r].pc \in After /\ run'[r].pc \in After
       \/ Ends(r, "rejected")
       \/ Ends(r, "done") /\ At(r, "stream", "think")

LEMMA QuietKeeps ==
    ASSUME IInv, NEW r \in Requests, Quiet(r), Settled
    PROVE  IInv'
BY SettledKeeps DEF Quiet, Answered

LEMMA QuietGoes ==
    ASSUME IInv, NEW r \in Requests,
           \/ FindCard(r) \/ FindConversation(r) \/ RecogniseIntent(r) \/ ExecuteAction(r)
           \/ Summarise(r) \/ Talk(r) \/ CallTool(r) \/ AskWithCard(r) \/ Stream(r)
    PROVE  Quiet(r) /\ Settled
<1>s. SUFFICES Quiet(r)
  BY DEF FindCard, FindConversation, RecogniseIntent, ExecuteAction, Summarise, Talk, CallTool,
         AskWithCard, Stream
<1>0. /\ run[r] \in Request /\ Live(r) = (run[r].pc \notin {"idle", "done", "rejected"})
      /\ run \in [Requests -> Request] /\ Live(r) => AtItsOp(run[r]) /\ run[r].events = 0
  BY RunIs DEF Live
<1>a. ASSUME NEW point \in {"conv", "sum", "talk", "tool", "reply"}, Goto(r, point), UNCHANGED rowVars,
             \/ run[r].op = "chat" /\ run[r].pc \in After
             \/ run[r].op = "chatWithRole" /\ run[r].pc = "card" /\ point = "conv"
             \/ run[r].op = "chatWithRole" /\ run[r].pc = "think" /\ point = "reply",
             point = "conv" => run[r].op = "chatWithRole" /\ run[r].pc = "card"
      PROVE  Quiet(r)
  <2>1. Live(r) /\ \A p : p.op = run[r].op /\ p.pc = point => AtItsOp(p)
    BY <1>0, <1>a DEF AtItsOp, ChatOps, After
  <2>2. On(r) /\ run'[r].pc = point
    BY <1>a, <2>1, GotoIs DEF PCs, Answered
  <2>3. QED
    BY <1>a, <2>2 DEF Quiet, Before, After
<1>b. ASSUME Answer(r, "rejected"), UNCHANGED rowVars, Live(r)
      PROVE  Quiet(r)
  BY <1>b, AnswerIs DEF Quiet, Answered
<1>1. CASE FindCard(r)
  BY <1>0, <1>1, <1>a, <1>b DEF FindCard, At
<1>2. CASE FindConversation(r)
  <2>1. Live(r) /\ UNCHANGED rowVars /\ run[r].pc = "conv" /\ run[r].op \in ChatOps
    BY <1>0, <1>2 DEF FindConversation
  <2>2. CASE Answer(r, "rejected")
    BY <1>b, <2>1, <2>2
  <2>3. CASE run' = [run EXCEPT ![r].pc = "say", ![r].started = (run[r].op = "chat")]
    <3> DEFINE b == (run[r].op = "chat")
               p == [run[r] EXCEPT !.pc = "say", !.started = b]
    <3>1. b \in BOOLEAN
      OBVIOUS
    <3> HIDE DEF b
    <3>2. p \in Request /\ p.pc = "say" /\ Same(p, run[r])
      BY <1>0, <3>1 DEF Request, PCs, Same
    <3>3. run' = [run EXCEPT ![r] = p]
      BY <1>0, <2>3 DEF b
    <3> HIDE DEF p
    <3>4. Pending(p) /\ AtItsOp(p)
      BY <2>1, <3>2 DEF Pending, Answered, AtItsOp, Same
    <3>5. On(r) /\ run'[r] = p
      BY <2>1, <3>2, <3>3, <3>4, OnIs
    <3>6. QED
      BY <2>1, <3>2, <3>5 DEF Quiet, Before
  <2>4. QED
    BY <1>2, <2>2, <2>3 DEF FindConversation
<1>3. CASE RecogniseIntent(r)
  <2>1. Live(r) /\ UNCHANGED rowVars /\ run[r].pc = "think" /\ run[r].op = "chat"
    BY <1>0, <1>3 DEF RecogniseIntent, At
  <2>2. CASE Goto(r, "reply") \/ Goto(r, "talk")
    BY <1>a, <2>1, <2>2 DEF After
  <2>3. ASSUME NEW n \in 1..MaxActions, run' = [run EXCEPT ![r].pc = "act", ![r].left = n]
        PROVE  Quiet(r)
    <3> DEFINE p == [run[r] EXCEPT !.pc = "act", !.left = n]
    <3>1. n \in 0..MaxActions /\ n > 0
      BY AgentsAssumption
    <3>2. p \in Request /\ p.pc = "act" /\ p.left = n /\ Same(p, run[r])
      BY <1>0, <3>1 DEF Request, PCs, Same
    <3>3. run' = [run EXCEPT ![r] = p]
      BY <1>0, <2>3
    <3> HIDE DEF p
    <3>4. Pending(p) /\ AtItsOp(p)
      BY <2>1, <3>2 DEF Pending, Answered, AtItsOp, Same
    <3>5. On(r) /\ run'[r] = p
      BY <2>1, <3>1, <3>2, <3>3, <3>4, OnIs
    <3>6. QED
      BY <2>1, <3>2, <3>5 DEF Quiet, After
  <2>4. QED
    BY <1>3, <2>2, <2>3 DEF RecogniseIntent
<1>4. CASE ExecuteAction(r)
  <2>1. Live(r) /\ UNCHANGED rowVars /\ run[r].pc = "act" /\ run[r].op = "chat"
    BY <1>0, <1>4 DEF ExecuteAction, At
  <2>2. run[r].left \in 0..MaxActions /\ run[r].left > 0
    BY <2>1, RunIs DEF Shaped, Request
  <2> DEFINE n == run[r].left - 1
             point == IF run[r].left = 1 THEN "sum" ELSE "act"
             p == [run[r] EXCEPT !.pc = point, !.left = n]
  <2>3. n \in 0..MaxActions /\ point \in {"sum", "act"} /\ (point = "act" => n > 0)
    BY <2>2, AgentsAssumption
  <2>4. run' = [run EXCEPT ![r] = p]
    <3>1. run' = [run EXCEPT ![r] = [run[r] EXCEPT !.left = run[r].left - 1,
                                                   !.pc = IF run[r].left = 1 THEN "sum" ELSE run[r].pc]]
      BY <1>0, <1>4 DEF ExecuteAction
    <3>2. [run[r] EXCEPT !.left = run[r].left - 1,
                         !.pc = IF run[r].left = 1 THEN "sum" ELSE run[r].pc] = p
      BY <1>0, <2>1 DEF Request
    <3>3. QED
      BY <3>1, <3>2
  <2> HIDE DEF n, point
  <2>5. p \in Request /\ p.pc = point /\ p.left = n /\ Same(p, run[r])
    BY <1>0, <2>3 DEF Request, PCs, Same
  <2> HIDE DEF p
  <2>6. Pending(p) /\ AtItsOp(p)
    BY <2>1, <2>3, <2>5 DEF Pending, Answered, AtItsOp, Same
  <2>7. On(r) /\ run'[r] = p
    BY <2>1, <2>3, <2>4, <2>5, <2>6, OnIs
  <2>8. QED
    BY <2>1, <2>3, <2>5, <2>7 DEF Quiet, After
<1>5. CASE Summarise(r) \/ CallTool(r) \/ Talk(r) \/ AskWithCard(r)
  BY <1>0, <1>5, <1>a DEF Summarise, CallTool, Talk, AskWithCard, At, After
<1>6. CASE Stream(r)
  BY <1>0, <1>6, AnswerIs DEF Stream, At, Quiet, Answered
<1>7. QED
  BY <1>1, <1>2, <1>3, <1>4, <1>5, <1>6

LEMMA FailureGoes ==
    ASSUME IInv, NEW r \in Requests, RequestFails(r)
    PROVE  IInv' /\ Ends(r, "rejected") /\ UNCHANGED <<rowVars, overlaps, flagged>>
<1>1. Ends(r, "rejected")
  BY AnswerIs DEF RequestFails, Answered
<1>2. RowsTyped /\ RowsMade /\ faults \in 0..MaxFaults
  BY RowsAre
<1>3. faults' \in 0..MaxFaults
  BY <1>2, AgentsAssumption DEF RequestFails
<1>4. /\ agents' = agents /\ holds' = holds /\ cards' = cards /\ convs' = convs
      /\ messages' = messages /\ made' = made
  BY DEF RequestFails, rowVars
<1>5. RowsTyped' /\ RowsMade'
  BY <1>2, <1>4 DEF RowsTyped, RowsMade
<1>6. made'.agents >= made.agents /\ made'.convs >= made.convs
  BY <1>2, <1>4 DEF RowsTyped
<1>7. QED
  BY <1>1, <1>3, <1>5, <1>6, MovedKeeps DEF RequestFails, Answered

\* A message is stored, its conversation being there
Says(r, role) == messages' = WithMessage(r, role) /\ role \in {"user", "assistant"}

LEMMA SaysTyped ==
    ASSUME IInv, NEW r \in Requests, NEW role, Says(r, role), run[r].conv \in ConvIds
    PROVE  messages' \in Seq(Message)
<1>1. [conv |-> run[r].conv, role |-> role, by |-> r] \in Message
  BY AgentsAssumption DEF Says, Message, ConvIds
<1>2. QED
  BY <1>1 DEF Says, WithMessage, IInv, TypeOK

LEMMA SayGoes ==
    ASSUME IInv, NEW r \in Requests, SaveUserMessage(r) \/ SaveReply(r)
    PROVE  /\ IInv' /\ Settled
           /\ agents' = agents /\ convs' = convs /\ cards' = cards
           /\ run[r].op \in ChatOps \cup {"addMessage"} /\ run[r].conv \in ConvIds /\ Live(r)
           /\ \/ messages' = messages /\ Ends(r, "rejected")
              \/ run[r].pc = "say" /\ Says(r, "user") /\ On(r) /\ run'[r].pc = "think"
              \/ /\ run[r].pc = "reply" /\ Ends(r, "done")
                 /\ Says(r, IF run[r].op = "addMessage" THEN "user" ELSE "assistant")
<1>1. Live(r) /\ AtItsOp(run[r]) /\ Carries(run[r]) /\ run[r].pc \in {"say", "reply"}
  BY RunIs DEF SaveUserMessage, SaveReply, Live
<1>2. run[r].op \in ChatOps \cup {"addMessage"} /\ run[r].conv \in ConvIds
  BY <1>1 DEF AtItsOp, Carries, ChatOps
<1>3. /\ agents' = agents /\ holds' = holds /\ cards' = cards /\ convs' = convs /\ made' = made /\ Settled
  BY DEF SaveUserMessage, SaveReply
<1>4. \/ messages' = messages /\ Ends(r, "rejected")
      \/ run[r].pc = "say" /\ Says(r, "user") /\ On(r) /\ run'[r].pc = "think"
      \/ /\ run[r].pc = "reply" /\ Ends(r, "done")
         /\ Says(r, IF run[r].op = "addMessage" THEN "user" ELSE "assistant")
  <2>1. CASE messages' = messages /\ Answer(r, "rejected")
    BY <1>1, <2>1, AnswerIs DEF Answered
  <2>2. CASE run[r].pc = "say" /\ messages' = WithMessage(r, "user") /\ Goto(r, "think")
    <3>1. \A p : p.op = run[r].op /\ p.pc = "think" => AtItsOp(p)
      BY <1>1, <2>2 DEF AtItsOp
    <3>2. On(r) /\ run'[r].pc = "think"
      BY <1>1, <2>2, <3>1, GotoIs DEF PCs, Answered
    <3>3. QED
      BY <2>2, <3>2 DEF Says
  <2>3. CASE /\ run[r].pc = "reply" /\ Answer(r, "done")
             /\ messages' = WithMessage(r, IF run[r].op = "addMessage" THEN "user" ELSE "assistant")
    BY <1>1, <2>3, AnswerIs DEF Says, Answered
  <2>4. QED
    BY <2>1, <2>2, <2>3 DEF SaveUserMessage, SaveReply
<1>5. RowsTyped /\ RowsMade /\ faults \in 0..MaxFaults
  BY RowsAre
<1>6. messages' \in Seq(Message)
  BY <1>2, <1>4, <1>5, SaysTyped DEF RowsTyped
<1>7. RowsTyped' /\ RowsMade'
  BY <1>3, <1>5, <1>6 DEF RowsTyped, RowsMade
<1>8. made'.agents >= made.agents /\ made'.convs >= made.convs
  BY <1>3, <1>5 DEF RowsTyped
<1>9. On(r) \/ \E point \in Answered : Ends(r, point)
  BY <1>4 DEF Answered
<1>10. IInv'
  BY <1>3, <1>5, <1>7, <1>8, <1>9, MovedKeeps DEF Settled
<1>11. QED
  BY <1>1, <1>2, <1>3, <1>4, <1>10

\* A step that ends its request leaves the other requests as they were
LEMMA OthersStay ==
    ASSUME NEW r \in Requests, Finishes(r)
    PROVE  \A o \in Requests : Live(o)' => o # r /\ Live(o) /\ run'[o] = run[o]
BY DEF Finishes, Ends, Only, Live, Answered

LEMMA NextKeeps == IInv /\ [Next]_vars => IInv'
<1>1. SUFFICES ASSUME IInv, [Next]_vars PROVE IInv'
  OBVIOUS
<1>2. CASE UNCHANGED vars
  BY <1>1, <1>2 DEF vars, rowVars, IInv, TypeOK, Made, Paired, Live, Shaped
<1>3. ASSUME NEW r \in Requests, AgentRoutes(r) \/ ConversationRoutes(r) \/ CardRoutes(r)
      PROVE  IInv'
  BY <1>1, <1>3, AgentsBegin, ConversationsBegin, CardsBegin, BegunKeeps
<1>4. ASSUME NEW r \in Requests, WriteRows(r)
      PROVE  IInv'
  BY <1>1, <1>4, InsertAgentGoes, SaveAgentGoes, RemoveAgentGoes, CardsGo, ClearDefaultsGoes,
     SetDefaultGoes, InsertConversationGoes, SaveConversationGoes, RemoveConversationGoes DEF WriteRows
<1>5. ASSUME NEW r \in Requests, ChatStep(r)
      PROVE  IInv'
  <2>1. CASE SaveUserMessage(r) \/ SaveReply(r)
    BY <1>1, <2>1, SayGoes
  <2>2. CASE ~(SaveUserMessage(r) \/ SaveReply(r))
    <3>1. Quiet(r) /\ Settled
      BY <1>1, <1>5, <2>2, QuietGoes DEF ChatStep
    <3>2. QED
      BY <1>1, <3>1, QuietKeeps
  <2>3. QED
    BY <2>1, <2>2
<1>6. ASSUME NEW r \in Requests, RequestFails(r)
      PROVE  IInv'
  BY <1>1, <1>6, FailureGoes
<1>7. QED
  BY <1>1, <1>2, <1>3, <1>4, <1>5, <1>6 DEF Next

LEMMA InitIInv == Init => IInv
<1>1. SUFFICES ASSUME Init PROVE IInv
  OBVIOUS
<1>2. PICK n \in {0, 2} :
        /\ agents = [a \in AgentIds |-> IF a <= n THEN NewAgent(a = 1) ELSE NoAgent]
        /\ holds = [a \in AgentIds |-> IF a = 1 /\ n = 2 THEN Cards ELSE {}]
        /\ convs = [v \in ConvIds |-> IF v = 1 /\ n = 2 THEN NewConversation(1) ELSE NoConversation]
        /\ cards = [c \in Cards |-> IF n = 2 THEN "own" ELSE "unmade"]
        /\ made = [agents |-> n, convs |-> n \div 2]
  BY <1>1 DEF Init
<1>3. run = [r \in Requests |-> IdleRequest] /\ messages = <<>> /\ overlaps = {} /\ ~flagged
      /\ flagged \in BOOLEAN /\ faults = 0
  BY <1>1 DEF Init
<1>4. /\ n \in 0..MaxAgents /\ n \div 2 \in 0..MaxConvs
      /\ n = 2 => n \div 2 = 1
      /\ n # 2 => n = 0
  BY AgentsAssumption
<1>5. \A b \in BOOLEAN : /\ NewAgent(b) \in Agent /\ NewAgent(b).exists
                         /\ NoAgent \in Agent /\ ~NoAgent.exists /\ ~NoAgent.owned
  BY DEF NewAgent, NoAgent, Agent
<1>6. /\ NewConversation(1) \in Conversation
      /\ NoConversation \in Conversation /\ ~NoConversation.exists
  BY AgentsAssumption DEF NewConversation, NoConversation, Conversation
<1>7. \A r \in Requests : Shaped(run[r]) /\ ~Live(r)
  BY <1>3, Idle DEF Live, IdleRequest
<1>8. run \in [Requests -> Request]
  BY <1>3, Idle DEF Shaped
<1>9. TypeOK
  <2>1. agents \in [AgentIds -> Agent] /\ convs \in [ConvIds -> Conversation]
    BY <1>2, <1>5, <1>6
  <2>2. cards \in [Cards -> {"unmade", "own", "orphan", "gone"}]
    BY <1>2
  <2>3. holds \in [AgentIds -> SUBSET Cards]
    BY <1>2
  <2>4. made \in [agents: 0..MaxAgents, convs: 0..MaxConvs]
    BY <1>2, <1>4
  <2>5. messages \in Seq(Message)
    BY <1>3
  <2>6. overlaps \subseteq {{p, q} : p, q \in Ops} /\ faults \in 0..MaxFaults
    BY <1>3, AgentsAssumption
  <2>7. QED
    BY <1>3, <1>8, <2>1, <2>2, <2>3, <2>4, <2>5, <2>6 DEF TypeOK
<1>10. Made
  <2>1. ASSUME NEW a \in AgentIds
        PROVE  /\ agents[a].exists => a <= n
               /\ agents[a].owned => agents[a].exists
    <3>1. (a = 1) \in BOOLEAN
      OBVIOUS
    <3>2. CASE a <= n
      <4>1. agents[a] = NewAgent(a = 1)
        BY <1>2, <3>2
      <4>2. NewAgent(a = 1).exists
        BY <1>5, <3>1
      <4>3. QED
        BY <3>2, <4>1, <4>2
    <3>3. CASE ~(a <= n)
      <4>1. agents[a] = NoAgent
        BY <1>2, <3>3
      <4>2. QED
        BY <1>5, <4>1
    <3>4. QED
      BY <3>2, <3>3
  <2>2. ASSUME NEW v \in ConvIds, convs[v].exists
        PROVE  v <= n \div 2
    <3>1. CASE v = 1 /\ n = 2
      BY <1>4, <3>1
    <3>2. CASE ~(v = 1 /\ n = 2)
      BY <1>2, <1>6, <2>2, <3>2
    <3>3. QED
      BY <3>1, <3>2
  <2>3. made.agents = n /\ made.convs = n \div 2
    BY <1>2
  <2>4. QED
    BY <1>7, <2>1, <2>2, <2>3 DEF Made
<1>11. Paired
  BY <1>7 DEF Paired
<1>12. QED
  BY <1>7, <1>9, <1>10, <1>11 DEF IInv

\* Types, and what every request has loaded
THEOREM TypeCorrect == Spec => []TypeOK
<1>1. Init => IInv
  BY InitIInv
<1>2. IInv /\ [Next]_vars => IInv'
  BY NextKeeps
<1>3. IInv => TypeOK
  BY DEF IInv
<1>4. QED
  BY <1>1, <1>2, <1>3, PTL DEF Spec

-----------------------------------------------------------------------------
(* OneDefault *)

\* While no two writers of the column have overlapped, one at a time is there
LEMMA OneWriter ==
    ASSUME IInv, overlaps \cap {{p, q} : p, q \in Writers} = {},
           NEW r \in Requests, NEW o \in Requests, Live(r), Live(o), r # o, run[r].op \in Writers
    PROVE  run[o].op \notin Writers
<1>1. {run[r].op, run[o].op} \in overlaps
  BY DEF IInv, Paired
<1>2. QED
  BY <1>1

\* Whether an agent is owned after a step
OwnedThen(a) == agents'[a].exists /\ agents'[a].owned

LEMMA DefaultKeeps ==
    ASSUME IInv, [Next]_vars, DInv
    PROVE  DInv'
<1>1. SUFFICES ASSUME ~flagged', overlaps' \cap {{p, q} : p, q \in Writers} = {}
               PROVE  DefaultKept'
  BY DEF DInv
<1>2. IInv'
  BY NextKeeps
<1>3. ASSUME ~flagged, overlaps \subseteq overlaps'
      PROVE  DefaultKept /\ overlaps \cap {{p, q} : p, q \in Writers} = {}
  BY <1>1, <1>3 DEF DInv
<1>4. CASE UNCHANGED vars
  BY <1>1, <1>3, <1>4 DEF vars, rowVars, DefaultKept, OwnedThen, Owned, Live, NoDefault
\* Rows that stay, and requests of which none comes to its write
<1>5. ASSUME agents' = agents, overlaps' = overlaps, flagged' = flagged, NEW r \in Requests,
             Only(r), Live(r),
             Live(r)' => Same(run'[r], run[r]) /\ run'[r].pc # "write"
      PROVE  DefaultKept'
  <2>1. DefaultKept
    BY <1>1, <1>3, <1>5
  <2>2. \A a \in AgentIds : OwnedThen(a) = Owned(a)
    BY <1>5 DEF OwnedThen, Owned
  <2>3. ASSUME NEW o \in Requests, Live(o)'
        PROVE  /\ run'[o].op = run[o].op /\ run'[o].copy = run[o].copy /\ run'[o].agent = run[o].agent
               /\ Live(o)
               /\ run'[o].pc = "write" => run[o].pc = "write"
    BY <1>5, <2>3 DEF Only, Same, Live
  <2>4. NoDefault' = NoDefault
    BY <1>5, <2>2 DEF NoDefault, OwnedThen, Owned
  <2>5. QED
    BY <1>5, <2>1, <2>2, <2>3, <2>4 DEF DefaultKept, OwnedThen, Owned
\* Rows of which no owned one becomes a default, written by a request that ends
<1>6. ASSUME NEW r \in Requests, Finishes(r), flagged' = flagged, overlaps' = overlaps,
             \A a \in AgentIds : OwnedThen(a) /\ agents'[a].isDefault => Owned(a) /\ agents[a].isDefault,
             \A o \in Requests : Live(o) /\ o # r /\ run[o].op = "save" /\ OwnedThen(run[o].agent)
                 => Owned(run[o].agent) /\ agents'[run[o].agent].isDefault = agents[run[o].agent].isDefault
      PROVE  DefaultKept'
  <2>1. DefaultKept
    BY <1>1, <1>3, <1>6
  <2>2. \A o \in Requests : Live(o)' => o # r /\ Live(o) /\ run'[o] = run[o]
    BY <1>6, OthersStay
  <2>3. NoDefault => NoDefault'
    BY <1>6 DEF NoDefault, OwnedThen, Owned
  <2>4. \A a, b \in AgentIds :
            OwnedThen(a) /\ agents'[a].isDefault /\ OwnedThen(b) /\ agents'[b].isDefault => a = b
    BY <1>6, <2>1 DEF DefaultKept
  <2>5. ASSUME NEW o \in Requests, Live(o)'
        PROVE  /\ run'[o].op = "create" => ~run'[o].copy.isDefault
               /\ run'[o].op = "save" /\ OwnedThen(run[o].agent)
                    => run'[o].copy.isDefault = agents'[run'[o].agent].isDefault
               /\ run'[o].pc = "write" /\ run'[o].op \in {"setDefault", "getDefault"} => NoDefault'
    BY <1>6, <2>1, <2>2, <2>3, <2>5 DEF DefaultKept
  <2>6. \A o \in Requests : Live(o)' => (OwnedThen(run[o].agent) <=> OwnedThen(run'[o].agent))
    BY <2>2 DEF OwnedThen, Owned
  <2>7. QED
    BY <2>4, <2>5, <2>6 DEF DefaultKept, OwnedThen, Owned
<1>7. ASSUME NEW r \in Requests, Begun(r)
      PROVE  DefaultKept'
  <2>1. PICK q \in Request : Starts(r, q) /\ Fresh(q) /\ (flagged => flagged')
    BY <1>7 DEF Begun
  <2>2. agents' = agents /\ run'[r] = q /\ Only(r) /\ overlaps \subseteq overlaps' /\ run[r].pc = "idle"
    BY <2>1 DEF Starts, rowVars
  <2>3. DefaultKept
    BY <1>1, <1>3, <2>1, <2>2
  <2>4. \A a \in AgentIds : OwnedThen(a) = Owned(a)
    BY <2>2 DEF OwnedThen, Owned
  <2>5. NoDefault' = NoDefault
    BY <2>2, <2>4 DEF NoDefault, OwnedThen, Owned
  <2>6. ASSUME NEW o \in Requests, Live(o)'
        PROVE  /\ run'[o].op = "create" => ~run'[o].copy.isDefault
               /\ run'[o].op = "save" /\ OwnedThen(run'[o].agent)
                    => run'[o].copy.isDefault = agents[run'[o].agent].isDefault
               /\ run'[o].pc = "write" /\ run'[o].op \in {"setDefault", "getDefault"} => NoDefault'
    <3>1. CASE o = r
      <4>1. Pending(q)
        BY <2>2, <2>6, <3>1 DEF Live, Pending, Answered
      <4>2. QED
        BY <1>1, <2>1, <2>2, <2>5, <3>1, <4>1 DEF Fresh, NoDefault
    <3>2. CASE o # r
      <4>1. Live(o) /\ run'[o] = run[o]
        BY <2>2, <2>6, <3>2 DEF Only, Live
      <4>2. OwnedThen(run'[o].agent) = Owned(run[o].agent)
        BY <2>2, <4>1 DEF OwnedThen, Owned
      <4>3. QED
        BY <2>3, <2>5, <4>1, <4>2 DEF DefaultKept
    <3>3. QED
      BY <3>1, <3>2
  <2>7. QED
    BY <2>2, <2>3, <2>4, <2>6 DEF DefaultKept, OwnedThen, Owned
<1>8. ASSUME NEW r \in Requests, InsertAgent(r)
      PROVE  DefaultKept'
  <2>1. Finishes(r) /\ Live(r) /\ flagged' = flagged /\ overlaps' = overlaps
    BY <1>8, InsertAgentGoes, AtIs DEF InsertAgent, Settled, At
  <2>2. DefaultKept /\ overlaps \cap {{p, q} : p, q \in Writers} = {}
    BY <1>1, <1>3, <2>1
  <2> DEFINE new == made.agents + 1
  <2>3. /\ \A a \in AgentIds : a # new => agents'[a] = agents[a]
        /\ new \in AgentIds => agents'[new] = run[r].copy
        /\ made.agents \in Nat
    BY <1>8, RowsAre DEF InsertAgent, RowsTyped
  <2>4. \A a \in AgentIds : a # new => OwnedThen(a) = Owned(a) /\ agents'[a].isDefault = agents[a].isDefault
    BY <2>3 DEF OwnedThen, Owned
  <2>5. CASE run[r].op = "create"
    <3>1. ~run[r].copy.isDefault
      BY <2>1, <2>2, <2>5 DEF DefaultKept
    <3>2. \A a \in AgentIds : OwnedThen(a) /\ agents'[a].isDefault => Owned(a) /\ agents[a].isDefault
      BY <2>3, <2>4, <3>1
    <3>3. ASSUME NEW o \in Requests, Live(o), o # r, run[o].op = "save", OwnedThen(run[o].agent)
          PROVE  Owned(run[o].agent) /\ agents'[run[o].agent].isDefault = agents[run[o].agent].isDefault
      <4>1. run[o].agent <= made.agents /\ run[o].agent \in AgentIds
        BY <3>3, RunIs DEF IInv, Made, Carries
      <4>2. run[o].agent # new
        BY <2>3, <4>1 DEF AgentIds
      <4>3. agents'[run[o].agent] = agents[run[o].agent]
        BY <2>3, <4>1, <4>2
      <4>4. QED
        BY <3>3, <4>3 DEF OwnedThen, Owned
    <3>4. QED
      BY <1>6, <2>1, <3>2, <3>3
  <2>6. CASE run[r].op = "getDefault"
    <3>1. NoDefault
      BY <1>8, <2>1, <2>2, <2>6 DEF DefaultKept, InsertAgent, At
    <3>2. \A a \in AgentIds : OwnedThen(a) /\ agents'[a].isDefault => a = new
      BY <2>4, <3>1 DEF NoDefault
    <3>3. \A o \in Requests : Live(o)' => /\ Live(o) /\ run'[o] = run[o] /\ run'[o].op \notin Writers
      BY <2>1, <2>2, <2>6, OthersStay, OneWriter DEF Writers
    <3>4. QED
      BY <2>2, <3>2, <3>3 DEF DefaultKept, Writers, OwnedThen, Owned
  <2>7. QED
    BY <1>8, <2>5, <2>6 DEF InsertAgent, At
<1>9. ASSUME NEW r \in Requests, SaveAgent(r)
      PROVE  DefaultKept'
  <2>1. /\ Finishes(r) /\ Live(r) /\ flagged' = flagged /\ overlaps' = overlaps
        /\ At(r, "save", "write") /\ (UNCHANGED rowVars \/ SaveAgentWrites(r))
    BY <1>9, SaveAgentGoes, AtIs DEF SaveAgent, Settled, At
  <2>2. DefaultKept /\ overlaps \cap {{p, q} : p, q \in Writers} = {}
    BY <1>1, <1>3, <2>1
  <2>3. /\ run[r].agent \in AgentIds /\ Saved(r).exists
        /\ Saved(r).owned = agents[run[r].agent].owned
        /\ Saved(r).isDefault = run[r].copy.isDefault
    BY <2>1, SavedIs
  <2>4. \A a \in AgentIds : OwnedThen(a) /\ agents'[a].isDefault => Owned(a) /\ agents[a].isDefault
    <3>1. CASE UNCHANGED rowVars
      BY <3>1 DEF rowVars, OwnedThen, Owned
    <3>2. CASE SaveAgentWrites(r)
      <4>1. \A a \in AgentIds : agents'[a] = IF a = run[r].agent THEN Saved(r) ELSE agents[a]
        BY <2>3, <3>2, RowsAre DEF SaveAgentWrites, RowsTyped
      <4>2. Owned(run[r].agent) => run[r].copy.isDefault = agents[run[r].agent].isDefault
        BY <2>1, <2>2 DEF DefaultKept, At
      <4>3. agents[run[r].agent].owned => Owned(run[r].agent)
        BY <2>3, RowsAre DEF OwnedThen, Owned, RowsMade
      <4>4. QED
        BY <2>3, <4>1, <4>2, <4>3 DEF OwnedThen, Owned
    <3>3. QED
      BY <2>1, <3>1, <3>2
  <2>5. \A o \in Requests : Live(o) /\ o # r => run[o].op # "save"
    BY <2>1, <2>2, OneWriter DEF Writers, At
  <2>6. QED
    BY <1>6, <2>1, <2>4, <2>5
<1>10. ASSUME NEW r \in Requests, RemoveAgent(r)
       PROVE  DefaultKept'
  <2>1. /\ Finishes(r) /\ flagged' = flagged /\ overlaps' = overlaps /\ run[r].agent \in AgentIds
        /\ agents' = agents \/ agents' = [agents EXCEPT ![run[r].agent] = NoAgent]
    BY <1>10, RemoveAgentGoes DEF RemoveAgent, Settled
  <2>2. \A a \in AgentIds : agents'[a] = agents[a] \/ agents'[a] = NoAgent
    BY <2>1, RowsAre DEF RowsTyped
  <2>3. ASSUME NEW a \in AgentIds, OwnedThen(a)
        PROVE  Owned(a) /\ agents'[a].isDefault = agents[a].isDefault
    BY <2>2, <2>3 DEF OwnedThen, Owned, NoAgent
  <2>4. \A o \in Requests : Live(o) /\ run[o].op = "save" => run[o].agent \in AgentIds
    BY RunIs DEF Carries
  <2>5. ASSUME NEW o \in Requests, Live(o), o # r, run[o].op = "save", OwnedThen(run[o].agent)
        PROVE  Owned(run[o].agent) /\ agents'[run[o].agent].isDefault = agents[run[o].agent].isDefault
    <3>1. PICK a \in AgentIds : a = run[o].agent
      BY <2>4, <2>5
    <3>2. agents'[a] = agents[a]
      BY <2>2, <2>5, <3>1 DEF OwnedThen, Owned, NoAgent
    <3>3. QED
      BY <2>5, <3>1, <3>2 DEF OwnedThen, Owned
  <2>6. QED
    BY <1>6, <2>1, <2>3, <2>5
<1>11. ASSUME NEW r \in Requests, ClearDefaults(r)
       PROVE  DefaultKept'
  <2>1. /\ On(r) /\ Live(r) /\ flagged' = flagged /\ overlaps' = overlaps /\ run[r].op = "setDefault"
        /\ \A a \in AgentIds : /\ agents'[a].exists = agents[a].exists
                               /\ agents'[a].owned = agents[a].owned
                               /\ Owned(a) => ~agents'[a].isDefault
    BY <1>11, ClearDefaultsGoes, AtIs DEF ClearDefaults, Settled, At
  <2>2. DefaultKept /\ overlaps \cap {{p, q} : p, q \in Writers} = {}
    BY <1>1, <1>3, <2>1
  <2>3. \A a \in AgentIds : ~(OwnedThen(a) /\ agents'[a].isDefault)
    BY <2>1 DEF OwnedThen, Owned
  <2>4. NoDefault'
    BY <2>3 DEF NoDefault, OwnedThen, Owned
  <2>5. ASSUME NEW o \in Requests, Live(o)'
        PROVE  /\ Live(o) /\ run'[o].op = run[o].op /\ run'[o].copy = run[o].copy
               /\ run'[o].op # "save"
    <3>1. CASE o = r
      BY <2>1, <3>1 DEF On, Same
    <3>2. CASE o # r
      <4>1. Live(o) /\ run'[o] = run[o]
        BY <2>1, <2>5, <3>2 DEF On, Only, Live
      <4>2. QED
        BY <2>1, <2>2, <3>2, <4>1, OneWriter DEF Writers
    <3>3. QED
      BY <3>1, <3>2
  <2>6. \A o \in Requests : Live(o)' /\ run'[o].op = "create" => ~run'[o].copy.isDefault
    BY <2>2, <2>5 DEF DefaultKept
  <2>7. QED
    BY <2>3, <2>4, <2>5, <2>6 DEF DefaultKept, OwnedThen, Owned
<1>12. ASSUME NEW r \in Requests, SetDefault(r)
       PROVE  DefaultKept'
  <2>1. /\ Finishes(r) /\ Live(r) /\ flagged' = flagged /\ overlaps' = overlaps
        /\ At(r, "setDefault", "write")
        /\ \A a \in AgentIds : /\ agents'[a].exists = agents[a].exists
                               /\ agents'[a].owned = agents[a].owned
                               /\ a # run[r].agent => agents'[a] = agents[a]
    BY <1>12, SetDefaultGoes, AtIs DEF SetDefault, Settled, At
  <2>2. DefaultKept /\ overlaps \cap {{p, q} : p, q \in Writers} = {}
    BY <1>1, <1>3, <2>1
  <2>3. NoDefault
    BY <2>1, <2>2 DEF DefaultKept, At
  <2>4. \A a \in AgentIds : OwnedThen(a) /\ agents'[a].isDefault => a = run[r].agent
    BY <2>1, <2>3 DEF NoDefault, OwnedThen, Owned
  <2>5. ASSUME NEW o \in Requests, Live(o)'
        PROVE  Live(o) /\ run'[o] = run[o] /\ run'[o].op \notin Writers
    <3>1. o # r /\ Live(o) /\ run'[o] = run[o]
      BY <2>1, <2>5, OthersStay
    <3>2. QED
      BY <2>1, <2>2, <3>1, OneWriter DEF Writers, At
  <2>6. \A o \in Requests : Live(o)' /\ run'[o].op = "create" => ~run'[o].copy.isDefault
    BY <2>2, <2>5 DEF DefaultKept
  <2>7. QED
    BY <2>4, <2>5, <2>6 DEF DefaultKept, Writers, OwnedThen, Owned
<1>13. ASSUME NEW r \in Requests,
              \/ InsertCard(r) \/ SaveCard(r) \/ RemoveCard(r)
              \/ InsertConversation(r) \/ SaveConversation(r) \/ RemoveConversation(r)
       PROVE  DefaultKept'
  <2>1. Finishes(r) /\ agents' = agents /\ flagged' = flagged /\ overlaps' = overlaps
    BY <1>13, CardsGo, InsertConversationGoes, SaveConversationGoes, RemoveConversationGoes
       DEF InsertCard, SaveCard, RemoveCard, InsertConversation, SaveConversation,
           RemoveConversation, Settled, rowVars
  <2>2. Only(r) /\ Live(r) /\ ~Live(r)'
    BY <2>1 DEF Finishes, Ends, Live, Answered
  <2>3. QED
    BY <1>5, <2>1, <2>2
<1>14. ASSUME NEW r \in Requests, ChatStep(r) \/ RequestFails(r)
       PROVE  DefaultKept'
  <2>1. CASE SaveUserMessage(r) \/ SaveReply(r)
    <3>1. /\ agents' = agents /\ Settled
          /\ Ends(r, "rejected") \/ Ends(r, "done") \/ (On(r) /\ run'[r].pc = "think")
      BY <2>1, SayGoes
    <3>2. Only(r) /\ Live(r) /\ (Live(r)' => Same(run'[r], run[r]) /\ run'[r].pc # "write")
      BY <3>1 DEF Ends, On, Live
    <3>3. QED
      BY <1>5, <3>1, <3>2 DEF Settled
  <2>2. CASE Quiet(r) /\ Settled
    <3>1. Only(r) /\ Live(r) /\ (Live(r)' => Same(run'[r], run[r]) /\ run'[r].pc # "write")
      BY <2>2 DEF Quiet, Ends, On, Live, Before, After
    <3>2. QED
      BY <1>5, <2>2, <3>1 DEF Settled, Quiet, rowVars
  <2>3. CASE RequestFails(r)
    <3>1. Ends(r, "rejected") /\ UNCHANGED <<rowVars, overlaps, flagged>>
      BY <2>3, FailureGoes
    <3>2. Only(r) /\ Live(r) /\ ~Live(r)'
      BY <3>1 DEF Ends, Live
    <3>3. QED
      BY <1>5, <3>1, <3>2 DEF rowVars
  <2>4. QED
    BY <1>14, <2>1, <2>2, <2>3, QuietGoes DEF ChatStep
<1>15. QED
  BY <1>4, <1>7, <1>8, <1>9, <1>10, <1>11, <1>12, <1>13, <1>14, AgentsBegin, ConversationsBegin,
     CardsBegin DEF Next, WriteRows

\* At most one default agent of the user's: setDefaultAgent, getDefaultAgent and the
\* save of an agent found before keep it, two of them that overlap may not
THEOREM DefaultIsOne == Spec => []OneDefault
<1>1. Init => IInv /\ DInv
  <2>1. SUFFICES ASSUME Init PROVE DefaultKept
    BY InitIInv DEF DInv
  <2>2. \A r \in Requests : ~Live(r)
    BY <2>1 DEF Init, Live, IdleRequest
  <2>3. PICK n \in {0, 2} : agents = [a \in AgentIds |-> IF a <= n THEN NewAgent(a = 1) ELSE NoAgent]
    BY <2>1 DEF Init
  <2>4. ASSUME NEW a \in AgentIds, agents[a].isDefault
        PROVE  a = 1
    BY <2>3, <2>4 DEF NewAgent, NoAgent
  <2>5. QED
    BY <2>2, <2>4 DEF DefaultKept
<1>2. IInv /\ DInv /\ [Next]_vars => IInv' /\ DInv'
  BY NextKeeps, DefaultKeeps
<1>3. IInv /\ DInv => OneDefault
  <2> DEFINE S == {a \in AgentIds : Owned(a) /\ agents[a].isDefault}
  <2>1. SUFFICES ASSUME DefaultKept PROVE Cardinality(S) <= 1
    BY DEF DInv, OneDefault, Writers
  <2>2. \A a, b \in S : a = b
    BY <2>1 DEF DefaultKept
  <2>3. CASE S = {}
    BY <2>3, FS_EmptySet
  <2>4. CASE S # {}
    <3>1. PICK a : a \in S
      BY <2>4
    <3>2. S = {a}
      BY <2>2, <3>1
    <3>3. Cardinality({a}) = 1
      BY FS_Singleton
    <3> HIDE DEF S
    <3>4. QED
      BY <3>2, <3>3
  <2>5. QED
    BY <2>3, <2>4
<1>4. QED
  BY <1>1, <1>2, <1>3, PTL DEF Spec

-----------------------------------------------------------------------------
(* KeptAttached *)

\* Rows that do not change, and requests none of which begins
LEMMA ConvsStay ==
    ASSUME IInv, ConvsAttached, convs' = convs, NEW r \in Requests, On(r) \/ Finishes(r)
    PROVE  ConvsAttached'
<1>1. ASSUME NEW o \in Requests, Live(o)'
      PROVE  /\ Live(o) /\ run'[o].op = run[o].op /\ run'[o].agent = run[o].agent
             /\ run'[o].conv = run[o].conv /\ run'[o].copy = run[o].copy
             /\ run'[o].loaded = run[o].loaded /\ run'[o].conversations = run[o].conversations
  BY <1>1 DEF On, Finishes, Ends, Only, Same, Live, Answered
<1>2. QED
  BY <1>1 DEF ConvsAttached

LEMMA ConvsBegun ==
    ASSUME IInv, ConvsAttached, NEW r \in Requests, Begun(r)
    PROVE  ConvsAttached'
<1>1. PICK q \in Request : Starts(r, q) /\ Fresh(q)
  BY DEF Begun
<1>2. convs' = convs /\ run'[r] = q /\ Only(r) /\ Shaped(q)
  BY <1>1 DEF Starts, rowVars
<1>3. \A o \in Requests : o # r /\ Live(o)' => Live(o) /\ run'[o] = run[o]
  BY <1>2 DEF Only, Live
<1>4. Live(r)' => /\ q.op = "save" /\ "conversations" \in q.loaded => q.conversations = ConvsOf(q.agent)
                  /\ q.op = "rename" => OwnedConv(q.conv) /\ q.copy = convs[q.conv] /\ q.conv \in ConvIds
  BY <1>1, <1>2 DEF Fresh, Live, Pending, Answered, Shaped, Carries
<1>5. \A v \in ConvIds : convs'[v].exists => convs'[v].agent # 0
  BY <1>2 DEF ConvsAttached
<1>6. ASSUME NEW o \in Requests, Live(o)'
      PROVE  /\ run'[o].op = "save" /\ "conversations" \in run'[o].loaded =>
                 \A v \in ConvIds : convs'[v].exists =>
                     (v \in run'[o].conversations <=> convs'[v].agent = run'[o].agent)
             /\ run'[o].op = "rename" =>
                 /\ run'[o].copy.agent # 0
                 /\ convs'[run'[o].conv].exists => convs'[run'[o].conv].agent = run'[o].copy.agent
  <2>1. CASE o = r
    BY <1>2, <1>4, <1>5, <1>6, <2>1 DEF ConvsOf, OwnedConv
  <2>2. CASE o # r
    BY <1>2, <1>3, <1>6, <2>2 DEF ConvsAttached
  <2>3. QED
    BY <2>1, <2>2
<1>7. ASSUME NEW o \in Requests, NEW o2 \in Requests, Live(o)', run'[o].op = "rename",
             Live(o2)', run'[o2].op = "rename", run'[o].conv = run'[o2].conv
      PROVE  run'[o].copy.agent = run'[o2].copy.agent
  <2>1. CASE o # r /\ o2 # r
    BY <1>3, <1>7, <2>1 DEF ConvsAttached
  <2>2. CASE o = r \/ o2 = r
    <3>1. /\ convs'[run'[o].conv].exists
          /\ convs'[run'[o].conv].agent = run'[o].copy.agent
          /\ convs'[run'[o2].conv].agent = run'[o2].copy.agent
      BY <1>2, <1>4, <1>6, <1>7, <2>2 DEF OwnedConv
    <3>2. QED
      BY <1>7, <3>1
  <2>3. QED
    BY <2>1, <2>2
<1>8. QED
  BY <1>5, <1>6, <1>7 DEF ConvsAttached

\* Two requests that a pair names are there together only if it is in overlaps
LEMMA Apart ==
    ASSUME IInv, NEW r \in Requests, NEW o \in Requests, Live(r), Live(o),
           run[r].op # run[o].op
    PROVE  {run[r].op, run[o].op} \in overlaps
BY DEF IInv, Paired

LEMMA ConvsKeep ==
    ASSUME IInv, [Next]_vars, CInv
    PROVE  CInv'
<1>1. SUFFICES ASSUME {{"save", "converse"}, {"save", "rename"}} \cap overlaps' = {}
               PROVE  ConvsAttached'
  BY DEF CInv
<1>2. ASSUME overlaps \subseteq overlaps'
      PROVE  ConvsAttached /\ {{"save", "converse"}, {"save", "rename"}} \cap overlaps = {}
  BY <1>1, <1>2 DEF CInv
<1>3. CASE UNCHANGED vars
  BY <1>2, <1>3 DEF vars, rowVars, ConvsAttached, Live
<1>4. ASSUME NEW r \in Requests, AgentRoutes(r) \/ ConversationRoutes(r) \/ CardRoutes(r)
      PROVE  ConvsAttached'
  <2>1. Begun(r)
    BY <1>4, AgentsBegin, ConversationsBegin, CardsBegin
  <2>2. overlaps \subseteq overlaps'
    BY <2>1 DEF Begun, Starts
  <2>3. QED
    BY <1>2, <2>1, <2>2, ConvsBegun
<1>5. ASSUME NEW r \in Requests, SaveAgent(r)
      PROVE  ConvsAttached'
  <2>1. /\ Finishes(r) /\ overlaps' = overlaps /\ Live(r) /\ At(r, "save", "write")
        /\ UNCHANGED rowVars \/ SaveAgentWrites(r)
    BY <1>5, SaveAgentGoes, AtIs DEF SaveAgent, Settled, At
  <2>2. ConvsAttached
    BY <1>2, <2>1
  <2>3. convs' = convs
    <3>1. CASE UNCHANGED rowVars
      BY <3>1 DEF rowVars
    <3>2. CASE SaveAgentWrites(r)
      <4>1. convs \in [ConvIds -> Conversation] /\ run[r].agent \in AgentIds
        BY <2>1, RowsAre, SavedIs DEF RowsTyped
      <4>2. ASSUME NEW v \in ConvIds
            PROVE  convs'[v] = convs[v]
        <5>1. convs'[v] = IF "conversations" \in run[r].loaded /\ convs[v].exists
                          THEN Attached(run[r], v) ELSE convs[v]
          BY <3>2 DEF SaveAgentWrites
        <5>2. "conversations" \in run[r].loaded /\ convs[v].exists =>
                  (v \in run[r].conversations <=> convs[v].agent = run[r].agent)
          BY <2>1, <2>2 DEF ConvsAttached, At
        <5>3. QED
          BY <4>1, <5>1, <5>2, AttachedIs
      <4>3. convs' = [v \in ConvIds |-> convs'[v]]
        BY <3>2 DEF SaveAgentWrites
      <4>4. QED
        BY <4>1, <4>2, <4>3
    <3>3. QED
      BY <2>1, <3>1, <3>2
  <2>4. QED
    BY <2>1, <2>2, <2>3, ConvsStay
<1>6. ASSUME NEW r \in Requests, InsertConversation(r)
      PROVE  ConvsAttached'
  <2>1. /\ Finishes(r) /\ overlaps' = overlaps /\ Live(r) /\ run[r].op = "converse"
        /\ run[r].agent \in AgentIds
        /\ UNCHANGED rowVars \/ InsertConversationWrites(r)
    BY <1>6, InsertConversationGoes, AtIs DEF InsertConversation, Settled, At
  <2>2. ConvsAttached /\ {"save", "converse"} \notin overlaps
    BY <1>2, <2>1
  <2>3. CASE UNCHANGED rowVars
    BY <2>1, <2>2, <2>3, ConvsStay DEF rowVars
  <2>4. CASE InsertConversationWrites(r)
    <3> DEFINE new == made.convs + 1
    <3>1. /\ \A v \in ConvIds : v # new => convs'[v] = convs[v]
          /\ new \in ConvIds => convs'[new] = NewConversation(run[r].agent)
          /\ made.convs \in Nat
      BY <2>4, RowsAre DEF InsertConversationWrites, RowsTyped
    <3>2. NewConversation(run[r].agent).agent # 0
      BY <2>1 DEF NewConversation, AgentIds
    <3>3. ASSUME NEW o \in Requests, Live(o)'
          PROVE  /\ Live(o) /\ run'[o] = run[o] /\ run[o].op # "save"
                 /\ run[o].op = "rename" => run[o].conv \in ConvIds /\ run[o].conv # new
      <4>1. o # r /\ Live(o) /\ run'[o] = run[o]
        BY <2>1, <3>3, OthersStay
      <4>2. run[o].op # "save"
        <5>1. SUFFICES ASSUME run[o].op = "save" PROVE FALSE
          OBVIOUS
        <5>2. {run[o].op, run[r].op} \in overlaps
          BY <2>1, <4>1, <5>1, Apart
        <5>3. QED
          BY <2>1, <2>2, <5>1, <5>2
      <4>3. run[o].op = "rename" => run[o].conv \in ConvIds /\ run[o].conv <= made.convs
        BY <4>1, RunIs DEF Carries, IInv, Made
      <4>4. run[o].op = "rename" => run[o].conv # new
        BY <3>1, <4>3 DEF ConvIds
      <4>5. QED
        BY <4>1, <4>2, <4>3, <4>4
    <3>4. \A v \in ConvIds : convs'[v].exists => convs'[v].agent # 0
      BY <2>2, <3>1, <3>2 DEF ConvsAttached
    <3> HIDE DEF new
    <3>5. QED
      BY <2>2, <3>1, <3>3, <3>4 DEF ConvsAttached
  <2>5. QED
    BY <2>1, <2>3, <2>4
<1>7. ASSUME NEW r \in Requests, SaveConversation(r)
      PROVE  ConvsAttached'
  <2>1. /\ Finishes(r) /\ overlaps' = overlaps /\ Live(r) /\ run[r].op = "rename"
        /\ run[r].conv \in ConvIds
        /\ UNCHANGED rowVars \/ SaveConversationWrites(r)
    BY <1>7, SaveConversationGoes, AtIs DEF SaveConversation, Settled, At
  <2>2. ConvsAttached /\ {"save", "rename"} \notin overlaps
    BY <1>2, <2>1
  <2>3. CASE UNCHANGED rowVars
    BY <2>1, <2>2, <2>3, ConvsStay DEF rowVars
  <2>4. CASE SaveConversationWrites(r)
    <3>1. /\ \A v \in ConvIds : v # run[r].conv => convs'[v] = convs[v]
          /\ convs'[run[r].conv].agent = run[r].copy.agent
      BY <2>1, <2>4, RowsAre DEF SaveConversationWrites, RowsTyped
    <3>2. run[r].copy.agent # 0
      BY <2>1, <2>2 DEF ConvsAttached
    <3>3. ASSUME NEW o \in Requests, Live(o)'
          PROVE  /\ Live(o) /\ run'[o] = run[o] /\ run[o].op # "save"
                 /\ run[o].op = "rename" => run[o].conv \in ConvIds
      <4>1. o # r /\ Live(o) /\ run'[o] = run[o]
        BY <2>1, <3>3, OthersStay
      <4>2. run[o].op # "save"
        <5>1. SUFFICES ASSUME run[o].op = "save" PROVE FALSE
          OBVIOUS
        <5>2. {run[o].op, run[r].op} \in overlaps
          BY <2>1, <4>1, <5>1, Apart
        <5>3. QED
          BY <2>1, <2>2, <5>1, <5>2
      <4>3. QED
        BY <4>1, <4>2, RunIs DEF Carries
    <3>4. \A v \in ConvIds : convs'[v].exists => convs'[v].agent # 0
      BY <2>2, <3>1, <3>2 DEF ConvsAttached
    <3>5. ASSUME NEW o \in Requests, Live(o)', run'[o].op = "rename"
          PROVE  /\ run'[o].copy.agent # 0
                 /\ convs'[run'[o].conv].exists => convs'[run'[o].conv].agent = run'[o].copy.agent
      <4>1. CASE run[o].conv = run[r].conv
        BY <2>1, <2>2, <3>1, <3>3, <3>5, <4>1 DEF ConvsAttached
      <4>2. CASE run[o].conv # run[r].conv
        BY <2>1, <2>2, <3>1, <3>3, <3>5, <4>2 DEF ConvsAttached
      <4>3. QED
        BY <4>1, <4>2
    <3>6. \A o, o2 \in Requests : /\ Live(o)' /\ run'[o].op = "rename"
                                  /\ Live(o2)' /\ run'[o2].op = "rename"
                                  /\ run'[o].conv = run'[o2].conv
                                  => run'[o].copy.agent = run'[o2].copy.agent
      BY <2>2, <3>3 DEF ConvsAttached
    <3>7. QED
      BY <3>3, <3>4, <3>5, <3>6 DEF ConvsAttached
  <2>5. QED
    BY <2>1, <2>3, <2>4
<1>8. ASSUME NEW r \in Requests, RemoveConversation(r)
      PROVE  ConvsAttached'
  <2>1. /\ Finishes(r) /\ overlaps' = overlaps /\ run[r].conv \in ConvIds
        /\ convs' = convs \/ convs' = [convs EXCEPT ![run[r].conv] = NoConversation]
    BY <1>8, RemoveConversationGoes DEF RemoveConversation, Settled
  <2>2. ConvsAttached
    BY <1>2, <2>1
  <2>3. \A v \in ConvIds : convs'[v].exists => convs'[v] = convs[v]
    BY <2>1, RowsAre DEF RowsTyped, NoConversation
  <2>4. \A o \in Requests : Live(o)' => Live(o) /\ run'[o] = run[o]
                                        /\ (run[o].op = "rename" => run[o].conv \in ConvIds)
    BY <2>1, OthersStay, RunIs DEF Carries
  <2>5. QED
    BY <2>2, <2>3, <2>4 DEF ConvsAttached
<1>9. ASSUME NEW r \in Requests,
             \/ InsertAgent(r) \/ RemoveAgent(r) \/ ClearDefaults(r) \/ SetDefault(r)
             \/ InsertCard(r) \/ SaveCard(r) \/ RemoveCard(r)
             \/ ChatStep(r) \/ RequestFails(r)
      PROVE  ConvsAttached'
  <2>1. convs' = convs /\ overlaps' = overlaps /\ (On(r) \/ Finishes(r))
    <3>1. CASE InsertAgent(r) \/ RemoveAgent(r) \/ ClearDefaults(r) \/ SetDefault(r)
      BY <3>1, InsertAgentGoes, RemoveAgentGoes, ClearDefaultsGoes, SetDefaultGoes
         DEF InsertAgent, RemoveAgent, ClearDefaults, SetDefault, Settled
    <3>2. CASE InsertCard(r) \/ SaveCard(r) \/ RemoveCard(r)
      BY <3>2, CardsGo DEF InsertCard, SaveCard, RemoveCard, Settled
    <3>3. CASE RequestFails(r)
      BY <3>3, FailureGoes DEF rowVars, Finishes, Answered
    <3>4. CASE SaveUserMessage(r) \/ SaveReply(r)
      BY <3>4, SayGoes DEF Settled, Finishes, Answered
    <3>5. CASE Quiet(r) /\ Settled
      BY <3>5 DEF Quiet, Settled, Finishes, Answered, rowVars
    <3>6. QED
      BY <1>9, <3>1, <3>2, <3>3, <3>4, <3>5, QuietGoes DEF ChatStep
  <2>2. QED
    BY <1>2, <2>1, ConvsStay
<1>10. QED
  BY <1>3, <1>4, <1>5, <1>6, <1>7, <1>8, <1>9 DEF Next, WriteRows

LEMMA MessagesStay ==
    ASSUME IInv, MessagesAttached, messages' = messages, NEW r \in Requests, On(r) \/ Finishes(r)
    PROVE  MessagesAttached'
<1>1. ASSUME NEW o \in Requests, Live(o)'
      PROVE  /\ Live(o) /\ run'[o].op = run[o].op /\ run'[o].conv = run[o].conv
             /\ run'[o].history = run[o].history
  BY <1>1 DEF On, Finishes, Ends, Only, Same, Live, Answered
<1>2. QED
  BY <1>1 DEF MessagesAttached, HistoryOf

LEMMA MessagesKeep ==
    ASSUME IInv, [Next]_vars, MInv
    PROVE  MInv'
<1> DEFINE Met == \E op \in ChatOps \cup {"addMessage"} : {"rename", op} \in overlaps
<1>1. SUFFICES ASSUME ~Met'
               PROVE  MessagesAttached'
  BY DEF MInv
<1>2. ASSUME overlaps \subseteq overlaps'
      PROVE  MessagesAttached /\ ~Met
  BY <1>1, <1>2 DEF MInv
<1>3. CASE UNCHANGED vars
  BY <1>2, <1>3 DEF vars, rowVars, MessagesAttached, HistoryOf, Live
<1>4. ASSUME NEW r \in Requests, AgentRoutes(r) \/ ConversationRoutes(r) \/ CardRoutes(r)
      PROVE  MessagesAttached'
  <2>1. Begun(r)
    BY <1>4, AgentsBegin, ConversationsBegin, CardsBegin
  <2>2. PICK q \in Request : Starts(r, q) /\ Fresh(q)
    BY <2>1 DEF Begun
  <2>3. messages' = messages /\ run'[r] = q /\ Only(r) /\ overlaps \subseteq overlaps'
    BY <2>2 DEF Starts, rowVars
  <2>4. MessagesAttached
    BY <1>2, <2>3
  <2>5. Live(r)' /\ q.op = "rename" => q.history = HistoryOf(q.conv)
    BY <2>2, <2>3 DEF Fresh, Live, Pending, Answered
  <2>6. \A o \in Requests : o # r /\ Live(o)' => Live(o) /\ run'[o] = run[o]
    BY <2>3 DEF Only, Live
  <2>7. \A o \in Requests : Live(o)' /\ run'[o].op = "rename" =>
            run'[o].history = {i \in DOMAIN messages' : messages'[i].conv = run'[o].conv}
    BY <2>3, <2>4, <2>5, <2>6 DEF MessagesAttached, HistoryOf
  <2>8. QED
    BY <2>3, <2>4, <2>7 DEF MessagesAttached, HistoryOf
<1>5. ASSUME NEW r \in Requests, SaveConversation(r)
      PROVE  MessagesAttached'
  <2>1. /\ Finishes(r) /\ overlaps' = overlaps /\ Live(r) /\ run[r].op = "rename"
        /\ run[r].conv \in ConvIds
        /\ UNCHANGED rowVars \/ SaveConversationWrites(r)
    BY <1>5, SaveConversationGoes, AtIs DEF SaveConversation, Settled, At
  <2>2. MessagesAttached
    BY <1>2, <2>1
  <2>3. messages' = messages
    <3>1. CASE UNCHANGED rowVars
      BY <3>1 DEF rowVars
    <3>2. CASE SaveConversationWrites(r)
      <4>1. run[r].history = HistoryOf(run[r].conv)
        BY <2>1, <2>2 DEF MessagesAttached
      <4>2. ASSUME NEW i \in DOMAIN messages
            PROVE  Kept(r, i) = messages[i]
        <5>1. messages[i] \in Message
          BY RowsAre DEF RowsTyped
        <5>2. i \in run[r].history => messages[i].conv = run[r].conv
          BY <4>1 DEF HistoryOf
        <5>3. messages[i].conv = run[r].conv => i \in run[r].history
          BY <4>1 DEF HistoryOf
        <5>4. [messages[i] EXCEPT !.conv = messages[i].conv] = messages[i]
          BY <5>1 DEF Message
        <5>5. QED
          BY <5>2, <5>3, <5>4 DEF Kept
      <4>3. messages' = [i \in DOMAIN messages |-> messages[i]]
        BY <3>2, <4>2 DEF SaveConversationWrites
      <4>4. messages \in Seq(Message)
        BY RowsAre DEF RowsTyped
      <4>5. QED
        BY <4>3, <4>4
    <3>3. QED
      BY <2>1, <3>1, <3>2
  <2>4. QED
    BY <2>1, <2>2, <2>3, MessagesStay
<1>6. ASSUME NEW r \in Requests, SaveUserMessage(r) \/ SaveReply(r)
      PROVE  MessagesAttached'
  <2>1. /\ Settled /\ run[r].op \in ChatOps \cup {"addMessage"} /\ run[r].conv \in ConvIds /\ Live(r)
        /\ On(r) \/ Finishes(r)
        /\ messages' = messages \/ \E role : Says(r, role)
    BY <1>6, SayGoes DEF Finishes, Answered
  <2>2. MessagesAttached /\ ~Met
    BY <1>2, <2>1 DEF Settled
  <2>3. CASE messages' = messages
    BY <2>1, <2>2, <2>3, MessagesStay
  <2>4. ASSUME NEW role, Says(r, role)
        PROVE  MessagesAttached'
    <3> DEFINE m == [conv |-> run[r].conv, role |-> role, by |-> r]
    <3>1. messages' = Append(messages, m) /\ messages \in Seq(Message)
      BY <2>4, RowsAre DEF Says, WithMessage, RowsTyped
    <3>2. m.conv # 0
      BY <2>1, AgentsAssumption DEF ConvIds
    <3> HIDE DEF m
    <3>3. \A i \in DOMAIN messages' : messages'[i].conv # 0
      <4>1. \A i \in DOMAIN messages : messages[i].conv # 0
        BY <2>2 DEF MessagesAttached, HistoryOf
      <4>2. QED
        BY <3>1, <3>2, <4>1
    <3>4. \A o \in Requests : Live(o)' => run'[o].op # "rename"
      <4>1. ASSUME NEW o \in Requests, Live(o)', run'[o].op = "rename"
            PROVE  FALSE
        <5>1. Live(o) /\ run[o].op = "rename"
          BY <2>1, <4>1 DEF On, Finishes, Ends, Only, Same, Live, Answered
        <5>2. {run[o].op, run[r].op} \in overlaps
          BY <2>1, <5>1, Apart DEF ChatOps
        <5>3. QED
          BY <2>1, <2>2, <5>1, <5>2
      <4>2. QED
        BY <4>1
    <3>5. QED
      BY <3>3, <3>4 DEF MessagesAttached, HistoryOf
  <2>5. QED
    BY <2>1, <2>3, <2>4
<1>7. ASSUME NEW r \in Requests, WriteRows(r) \/ ChatStep(r) \/ RequestFails(r),
             ~SaveConversation(r), ~SaveUserMessage(r), ~SaveReply(r)
      PROVE  MessagesAttached'
  <2>1. messages' = messages /\ overlaps' = overlaps /\ (On(r) \/ Finishes(r))
    <3>1. CASE InsertAgent(r) \/ RemoveAgent(r) \/ ClearDefaults(r) \/ SetDefault(r)
      BY <3>1, InsertAgentGoes, RemoveAgentGoes, ClearDefaultsGoes, SetDefaultGoes
         DEF InsertAgent, RemoveAgent, ClearDefaults, SetDefault, Settled
    <3>2. CASE InsertCard(r) \/ SaveCard(r) \/ RemoveCard(r)
      BY <3>2, CardsGo DEF InsertCard, SaveCard, RemoveCard, Settled
    <3>3. CASE RequestFails(r)
      BY <3>3, FailureGoes DEF rowVars, Finishes, Answered
    <3>4. CASE InsertConversation(r) \/ RemoveConversation(r)
      BY <3>4, InsertConversationGoes, RemoveConversationGoes
         DEF InsertConversation, RemoveConversation, Settled, rowVars, InsertConversationWrites
    <3>5. CASE Quiet(r) /\ Settled
      BY <3>5 DEF Quiet, Settled, Finishes, Answered, rowVars
    <3>6. CASE SaveAgent(r)
      BY <3>6, SaveAgentGoes DEF SaveAgent, Settled, rowVars, SaveAgentWrites
    <3>7. QED
      BY <1>7, <3>1, <3>2, <3>3, <3>4, <3>5, <3>6, QuietGoes DEF ChatStep, WriteRows
  <2>2. QED
    BY <1>2, <2>1, MessagesStay
<1>8. QED
  BY <1>3, <1>4, <1>5, <1>6, <1>7 DEF Next

LEMMA CardsKeep ==
    ASSUME IInv, [Next]_vars, RInv
    PROVE  RInv'
<1>1. SUFFICES ASSUME {"editCard", "removeCard"} \notin overlaps'
               PROVE  CardsAttached'
  BY DEF RInv
<1>2. ASSUME overlaps \subseteq overlaps'
      PROVE  CardsAttached /\ {"editCard", "removeCard"} \notin overlaps
  BY <1>1, <1>2 DEF RInv
<1>3. CASE UNCHANGED vars
  BY <1>2, <1>3 DEF vars, rowVars, CardsAttached, Live
<1>4. ASSUME NEW r \in Requests, AgentRoutes(r) \/ ConversationRoutes(r) \/ CardRoutes(r)
      PROVE  CardsAttached'
  <2>1. Begun(r)
    BY <1>4, AgentsBegin, ConversationsBegin, CardsBegin
  <2>2. PICK q \in Request : Starts(r, q) /\ Fresh(q)
    BY <2>1 DEF Begun
  <2>3. cards' = cards /\ run'[r] = q /\ Only(r) /\ overlaps \subseteq overlaps'
    BY <2>2 DEF Starts, rowVars
  <2>4. CardsAttached
    BY <1>2, <2>3
  <2>5. Live(r)' /\ q.op = "editCard" => cards[q.card] = "own"
    BY <2>2, <2>3 DEF Fresh, Live, Pending, Answered
  <2>6. \A o \in Requests : o # r /\ Live(o)' => Live(o) /\ run'[o] = run[o]
    BY <2>3 DEF Only, Live
  <2>7. QED
    BY <2>3, <2>4, <2>5, <2>6 DEF CardsAttached
<1>5. ASSUME NEW r \in Requests, InsertCard(r) \/ SaveCard(r) \/ RemoveCard(r)
      PROVE  CardsAttached'
  <2>1. /\ Finishes(r) /\ overlaps' = overlaps /\ Live(r) /\ Carries(run[r])
        /\ cards \in [Cards -> {"unmade", "own", "orphan", "gone"}]
    BY <1>5, CardsGo, AtIs, RowsAre DEF InsertCard, SaveCard, RemoveCard, Settled, At, RowsTyped
  <2>2. CardsAttached /\ {"editCard", "removeCard"} \notin overlaps
    BY <1>2, <2>1
  <2>3. \A o \in Requests : Live(o)' => /\ o # r /\ Live(o) /\ run'[o] = run[o]
                                        /\ run[o].op = "editCard" => run[o].card \in Cards
    BY <2>1, OthersStay, RunIs DEF Carries
  <2>4. CASE InsertCard(r)
    <3>1. \A c \in Cards : cards'[c] = cards[c] \/ (cards[c] = "unmade" /\ cards'[c] = "own")
      BY <2>1, <2>4 DEF InsertCard
    <3>2. QED
      BY <2>2, <2>3, <3>1 DEF CardsAttached
  <2>5. CASE SaveCard(r)
    <3>1. run[r].card \in Cards /\ cards[run[r].card] # "gone"
      BY <2>1, <2>2, <2>5 DEF SaveCard, At, CardsAttached, Carries
    <3>2. \A c \in Cards : cards'[c] = cards[c]
      BY <2>1, <2>5, <3>1 DEF SaveCard
    <3>3. QED
      BY <2>2, <2>3, <3>2 DEF CardsAttached
  <2>6. CASE RemoveCard(r)
    <3>1. \A c \in Cards : cards'[c] = cards[c] \/ cards'[c] = "gone"
      BY <2>1, <2>6 DEF RemoveCard
    <3>2. ASSUME NEW o \in Requests, Live(o)', run'[o].op = "editCard"
          PROVE  FALSE
      <4>1. Live(o) /\ run[o].op = "editCard"
        BY <2>3, <3>2
      <4>2. {run[o].op, run[r].op} \in overlaps /\ run[r].op = "removeCard"
        BY <2>1, <2>6, <4>1, Apart DEF RemoveCard, At
      <4>3. QED
        BY <2>2, <4>1, <4>2
    <3>3. QED
      BY <2>2, <3>1, <3>2 DEF CardsAttached
  <2>7. QED
    BY <1>5, <2>4, <2>5, <2>6
<1>6. ASSUME NEW r \in Requests, WriteRows(r) \/ ChatStep(r) \/ RequestFails(r),
             ~InsertCard(r), ~SaveCard(r), ~RemoveCard(r)
      PROVE  CardsAttached'
  <2>1. cards' = cards /\ overlaps' = overlaps /\ (On(r) \/ Finishes(r))
    <3>1. CASE InsertAgent(r) \/ RemoveAgent(r) \/ ClearDefaults(r) \/ SetDefault(r)
      BY <3>1, InsertAgentGoes, RemoveAgentGoes, ClearDefaultsGoes, SetDefaultGoes
         DEF InsertAgent, RemoveAgent, ClearDefaults, SetDefault, Settled
    <3>2. CASE InsertConversation(r) \/ RemoveConversation(r)
      BY <3>2, InsertConversationGoes, RemoveConversationGoes
         DEF InsertConversation, RemoveConversation, Settled, rowVars, InsertConversationWrites
    <3>3. CASE RequestFails(r)
      BY <3>3, FailureGoes DEF rowVars, Finishes, Answered
    <3>4. CASE SaveUserMessage(r) \/ SaveReply(r)
      BY <3>4, SayGoes DEF Settled, Finishes, Answered
    <3>5. CASE Quiet(r) /\ Settled
      BY <3>5 DEF Quiet, Settled, Finishes, Answered, rowVars
    <3>6. CASE SaveAgent(r) \/ SaveConversation(r)
      BY <3>6, SaveAgentGoes, SaveConversationGoes
         DEF SaveAgent, SaveConversation, Settled, rowVars, SaveAgentWrites, SaveConversationWrites
    <3>7. QED
      BY <1>6, <3>1, <3>2, <3>3, <3>4, <3>5, <3>6, QuietGoes DEF ChatStep, WriteRows
  <2>2. CardsAttached
    BY <1>2, <2>1
  <2>3. \A o \in Requests : Live(o)' => /\ Live(o) /\ run'[o].op = run[o].op
                                        /\ run'[o].card = run[o].card
    BY <2>1 DEF On, Finishes, Ends, Only, Same, Live, Answered
  <2>4. QED
    BY <2>1, <2>2, <2>3 DEF CardsAttached
<1>7. QED
  BY <1>3, <1>4, <1>5, <1>6 DEF Next, WriteRows

\* A conversation keeps its agent, a message its conversation and a role card its
\* user, unless the pairs of operations that the property names have overlapped
THEOREM RowsKept == Spec => []KeptAttached
<1>1. Init => IInv /\ CInv /\ MInv /\ RInv
  <2>1. SUFFICES ASSUME Init PROVE ConvsAttached /\ MessagesAttached /\ CardsAttached
    BY InitIInv DEF CInv, MInv, RInv
  <2>2. messages = <<>> /\ \A r \in Requests : ~Live(r)
    BY <2>1 DEF Init, Live, IdleRequest
  <2>3. \A v \in ConvIds : convs[v].exists => convs[v].agent # 0
    BY <2>1 DEF Init, NewConversation, NoConversation
  <2>4. \A c \in Cards : cards[c] # "orphan"
    BY <2>1 DEF Init
  <2>5. QED
    BY <2>2, <2>3, <2>4 DEF ConvsAttached, MessagesAttached, CardsAttached, HistoryOf
<1>2. IInv /\ CInv /\ MInv /\ RInv /\ [Next]_vars => (IInv /\ CInv /\ MInv /\ RInv)'
  BY NextKeeps, ConvsKeep, MessagesKeep, CardsKeep
<1>3. CInv /\ MInv /\ RInv => KeptAttached
  BY DEF CInv, MInv, RInv, ConvsAttached, MessagesAttached, CardsAttached, KeptAttached
<1>4. QED
  BY <1>1, <1>2, <1>3, PTL DEF Spec

-----------------------------------------------------------------------------
(* ChatsAccounted *)

\* Who said what in which order, whatever the conversations
SameWords ==
    /\ DOMAIN messages' = DOMAIN messages
    /\ \A i \in DOMAIN messages : /\ messages'[i].by = messages[i].by
                                  /\ messages'[i].role = messages[i].role

LEMMA SaidStays ==
    ASSUME SameWords, NEW o
    PROVE  Mine(o)' = Mine(o) /\ SaidOnly(o)' = SaidOnly(o) /\ SaidBoth(o)' = SaidBoth(o)
<1>1. Mine(o)' = Mine(o) /\ \A i \in Mine(o) : messages'[i].role = messages[i].role
  BY DEF SameWords, Mine
<1>2. SaidOnly(o)' = SaidOnly(o)
  BY <1>1 DEF SaidOnly
<1>3. SaidBoth(o)' = SaidBoth(o)
  BY <1>1 DEF SaidBoth
<1>4. QED
  BY <1>1, <1>2, <1>3

LEMMA SaidGrows ==
    ASSUME IInv, NEW r \in Requests, NEW role, Says(r, role)
    PROVE  /\ \A o \in Requests \ {r} : /\ Mine(o)' = Mine(o)
                                        /\ SaidOnly(o)' = SaidOnly(o) /\ SaidBoth(o)' = SaidBoth(o)
           /\ Mine(r) = {} /\ role = "user" => SaidOnly(r)'
           /\ SaidOnly(r) /\ role = "assistant" => SaidBoth(r)'
<1> DEFINE m == [conv |-> run[r].conv, role |-> role, by |-> r]
           n == Len(messages) + 1
<1>1. messages' = Append(messages, m) /\ messages \in Seq(Message)
  BY RowsAre DEF Says, WithMessage, RowsTyped
<1>2. m.by = r /\ m.role = role
  OBVIOUS
<1> HIDE DEF m
<1>3. /\ n \in Nat /\ DOMAIN messages = 1..(n - 1) /\ DOMAIN messages' = DOMAIN messages \cup {n}
      /\ messages'[n] = m
      /\ \A i \in DOMAIN messages : messages'[i] = messages[i] /\ i \in Nat /\ i < n
  BY <1>1
<1> HIDE DEF n
<1>a. n \notin DOMAIN messages
  BY <1>3
<1>4. ASSUME NEW o \in Requests \ {r}
      PROVE  /\ Mine(o)' = Mine(o)
             /\ SaidOnly(o)' = SaidOnly(o) /\ SaidBoth(o)' = SaidBoth(o)
  <2>1. Mine(o)' = Mine(o)
    BY <1>2, <1>3 DEF Mine
  <2>2. \A i \in Mine(o) : messages'[i].role = messages[i].role
    BY <1>3 DEF Mine
  <2>3. QED
    BY <2>1, <2>2 DEF SaidOnly, SaidBoth
<1>5. Mine(r)' = Mine(r) \cup {n}
  BY <1>2, <1>3 DEF Mine
<1>6. ASSUME Mine(r) = {}, role = "user"
      PROVE  SaidOnly(r)'
  <2>1. Mine(r)' = {n} /\ messages'[n].role = "user"
    BY <1>2, <1>3, <1>5, <1>6
  <2>2. QED
    BY <2>1 DEF SaidOnly
<1>7. ASSUME SaidOnly(r), role = "assistant"
      PROVE  SaidBoth(r)'
  <2>1. PICK i \in Mine(r) : Mine(r) = {i} /\ messages[i].role = "user"
    BY <1>7 DEF SaidOnly
  <2>2. i \in DOMAIN messages
    BY DEF Mine
  <2>3. /\ Mine(r)' = {i, n} /\ i < n
        /\ messages'[i].role = "user" /\ messages'[n].role = "assistant"
    BY <1>2, <1>3, <1>5, <1>7, <2>1, <2>2
  <2>4. QED
    BY <2>3 DEF SaidBoth
<1>8. QED
  BY <1>4, <1>6, <1>7

\* The other requests have told what they had
LEMMA OthersTold ==
    ASSUME NEW r \in Requests, NEW o \in Requests \ {r}, Only(r), Told(o),
           Mine(o)' = Mine(o), SaidOnly(o)' = SaidOnly(o), SaidBoth(o)' = SaidBoth(o)
    PROVE  Told(o)'
BY DEF Only, Told, Live

\* A request that ends without a word, or with its last one
LEMMA EndTold ==
    ASSUME IInv, NEW r \in Requests, NEW point \in Answered, Ends(r, point), Told(r),
           point = "rejected" => Mine(r)' = Mine(r) /\ SaidOnly(r)' = SaidOnly(r),
           point = "done" /\ run[r].op \in ChatOps =>
               IF run[r].op = "stream" THEN SaidOnly(r)' ELSE SaidBoth(r)'
    PROVE  Told(r)'
<1>1. run[r].pc \notin {"idle", "done", "rejected"} /\ AtItsOp(run[r]) /\ run[r].pc \in PCs
  BY RunIs DEF Ends, Live, Request
<1>2. run[r].op \in ChatOps => Mine(r) = {} \/ SaidOnly(r)
  BY <1>1 DEF Told, AtItsOp, PCs, RowOps, ChatOps
<1>3. /\ run'[r].pc = point /\ run'[r].op = run[r].op
      /\ run'[r].events = IF run'[r].started THEN 1 ELSE 0
  BY DEF Ends
<1>4. QED
  BY <1>2, <1>3 DEF Told, Answered, Live

LEMMA TellKeeps ==
    ASSUME IInv, [Next]_vars, TInv
    PROVE  TInv'
<1>1. CASE UNCHANGED vars
  BY <1>1 DEF vars, rowVars, TInv, Told, Mine, SaidOnly, SaidBoth, Live
<1>2. ASSUME NEW r \in Requests, AgentRoutes(r) \/ ConversationRoutes(r) \/ CardRoutes(r)
      PROVE  TInv'
  <2>1. Begun(r)
    BY <1>2, AgentsBegin, ConversationsBegin, CardsBegin
  <2>2. PICK q \in Request : Starts(r, q) /\ Fresh(q)
    BY <2>1 DEF Begun
  <2>3. messages' = messages /\ run'[r] = q /\ Only(r) /\ q.pc # "idle" /\ run[r].pc = "idle"
    BY <2>2 DEF Starts, rowVars
  <2>4. SameWords
    BY <2>3 DEF SameWords
  <2>5. Mine(r) = {}
    BY <2>3 DEF TInv, Told
  <2>6. Told(r)'
    BY <2>2, <2>3, <2>4, <2>5, SaidStays DEF Fresh, Told, Live, ChatOps
  <2>7. QED
    BY <2>3, <2>4, <2>6, SaidStays, OthersTold DEF TInv
\* Steps that say nothing
<1>3. ASSUME NEW r \in Requests, Only(r), SameWords, Told(r)'
      PROVE  TInv'
  BY <1>3, SaidStays, OthersTold DEF TInv
<1>4. ASSUME NEW r \in Requests, SameWords, Finishes(r), run[r].op \notin ChatOps
      PROVE  TInv'
  <2>1. Only(r) /\ run'[r].op = run[r].op /\ run'[r].pc \in Answered
    BY <1>4 DEF Finishes, Ends
  <2>2. Told(r)'
    BY <1>4, <2>1 DEF Told, Answered
  <2>3. QED
    BY <1>3, <1>4, <2>1, <2>2
<1>5. ASSUME NEW r \in Requests, WriteRows(r)
      PROVE  TInv'
  <2>1. run[r].op \notin ChatOps
    BY <1>5 DEF WriteRows, InsertAgent, SaveAgent, RemoveAgent, InsertCard, SaveCard, RemoveCard,
       ClearDefaults, SetDefault, InsertConversation, SaveConversation, RemoveConversation, At, ChatOps
  <2>2. CASE ClearDefaults(r)
    <3>1. On(r) /\ messages' = messages /\ run'[r].pc = "write"
      BY <2>2, ClearDefaultsGoes
    <3>2. Only(r) /\ SameWords /\ Told(r)'
      BY <2>1, <3>1 DEF On, Same, SameWords, Told
    <3>3. QED
      BY <1>3, <3>2
  <2>3. CASE SaveConversation(r)
    <3>1. Finishes(r) /\ run[r].conv \in ConvIds /\ (UNCHANGED rowVars \/ SaveConversationWrites(r))
      BY <2>3, SaveConversationGoes
    <3>2. SameWords
      BY <3>1, KeptIs DEF SameWords, rowVars, SaveConversationWrites
    <3>3. QED
      BY <1>4, <2>1, <3>1, <3>2
  <2>4. CASE InsertAgent(r) \/ RemoveAgent(r) \/ SetDefault(r) \/ RemoveConversation(r)
             \/ InsertCard(r) \/ SaveCard(r) \/ RemoveCard(r)
    <3>1. Finishes(r) /\ messages' = messages
      BY <2>4, InsertAgentGoes, RemoveAgentGoes, SetDefaultGoes, RemoveConversationGoes, CardsGo
         DEF InsertAgent
    <3>2. QED
      BY <1>4, <2>1, <3>1 DEF SameWords
  <2>5. CASE SaveAgent(r) \/ InsertConversation(r)
    <3>1. Finishes(r) /\ messages' = messages
      BY <2>5, SaveAgentGoes, InsertConversationGoes
         DEF SaveAgentWrites, InsertConversationWrites, rowVars
    <3>2. QED
      BY <1>4, <2>1, <3>1 DEF SameWords
  <2>6. QED
    BY <1>5, <2>2, <2>3, <2>4, <2>5 DEF WriteRows
<1>6. ASSUME NEW r \in Requests, Quiet(r)
      PROVE  TInv'
  <2>1. SameWords
    BY <1>6 DEF Quiet, rowVars, SameWords
  <2>2. Mine(r)' = Mine(r) /\ SaidOnly(r)' = SaidOnly(r) /\ SaidBoth(r)' = SaidBoth(r) /\ Told(r)
    BY <2>1, SaidStays DEF TInv
  <2>3. CASE On(r) /\ \/ run[r].pc \in Before /\ run'[r].pc \in Before
                      \/ run[r].pc \in After /\ run'[r].pc \in After
    <3>1. run'[r].op = run[r].op /\ run'[r].events = 0 /\ Only(r) /\ Live(r)'
      BY <2>3, RunIs DEF On, Same, Live, Before, After
    <3>2. Told(r)'
      BY <2>2, <2>3, <3>1 DEF Told, Before, After
    <3>3. QED
      BY <1>3, <2>1, <3>1, <3>2
  <2>4. CASE Ends(r, "rejected")
    BY <1>3, <2>1, <2>2, <2>4, EndTold DEF Answered, Ends
  <2>5. CASE Ends(r, "done") /\ At(r, "stream", "think")
    <3>1. SaidOnly(r) /\ run[r].op = "stream"
      BY <2>2, <2>5 DEF Told, At, ChatOps
    <3>2. QED
      BY <1>3, <2>1, <2>2, <2>5, <3>1, EndTold DEF Answered, Ends
  <2>6. QED
    BY <1>6, <2>3, <2>4, <2>5 DEF Quiet
<1>7. ASSUME NEW r \in Requests, RequestFails(r)
      PROVE  TInv'
  <2>1. Ends(r, "rejected") /\ SameWords /\ Only(r)
    BY <1>7, FailureGoes DEF rowVars, SameWords, Ends
  <2>2. Told(r) /\ Mine(r)' = Mine(r) /\ SaidOnly(r)' = SaidOnly(r)
    BY <2>1, SaidStays DEF TInv
  <2>3. QED
    BY <1>3, <2>1, <2>2, EndTold DEF Answered
<1>8. ASSUME NEW r \in Requests, SaveUserMessage(r) \/ SaveReply(r)
      PROVE  TInv'
  <2>1. Told(r) /\ run[r].op \in ChatOps \cup {"addMessage"} /\ Live(r)
    BY <1>8, SayGoes DEF TInv
  <2>2. CASE messages' = messages /\ Ends(r, "rejected")
    <3>1. SameWords /\ Only(r)
      BY <2>2 DEF SameWords, Ends
    <3>2. Mine(r)' = Mine(r) /\ SaidOnly(r)' = SaidOnly(r)
      BY <3>1, SaidStays
    <3>3. QED
      BY <1>3, <2>1, <2>2, <3>1, <3>2, EndTold DEF Answered
  <2>3. CASE run[r].pc = "say" /\ Says(r, "user") /\ On(r) /\ run'[r].pc = "think"
    <3>1. run[r].op \in ChatOps
      BY <2>3, RunIs DEF On, AtItsOp
    <3>2. Mine(r) = {}
      BY <2>1, <2>3, <3>1 DEF Told
    <3>3. SaidOnly(r)'
      BY <2>3, <3>2, SaidGrows
    <3>4. run'[r].op = run[r].op /\ run'[r].events = 0 /\ Only(r) /\ Live(r)'
      BY <2>3, RunIs DEF On, Same, Live
    <3>5. Told(r)'
      BY <2>3, <3>3, <3>4 DEF Told
    <3>6. \A o \in Requests \ {r} : Told(o)'
      BY <2>3, <3>4, SaidGrows, OthersTold DEF TInv
    <3>7. QED
      BY <3>5, <3>6 DEF TInv
  <2>4. CASE /\ run[r].pc = "reply" /\ Ends(r, "done")
             /\ Says(r, IF run[r].op = "addMessage" THEN "user" ELSE "assistant")
    <3>1. Only(r)
      BY <2>4 DEF Ends
    <3>2. \A o \in Requests \ {r} : Told(o)'
      BY <2>4, <3>1, SaidGrows, OthersTold DEF TInv
    <3>3. Told(r)'
      <4>1. run[r].op \in {"chat", "chatWithRole", "addMessage"}
        BY <2>1, <2>4, RunIs DEF AtItsOp
      <4>2. ASSUME run[r].op \in ChatOps
            PROVE  SaidBoth(r)' /\ run[r].op # "stream"
        <5>1. SaidOnly(r) /\ run[r].op # "addMessage"
          BY <2>1, <2>4, <4>2 DEF Told, ChatOps
        <5>2. Says(r, "assistant")
          BY <2>4, <5>1
        <5>3. QED
          BY <4>1, <5>1, <5>2, SaidGrows
      <4>3. QED
        BY <2>1, <2>4, <4>2, EndTold DEF Answered
    <3>4. QED
      BY <3>2, <3>3 DEF TInv
  <2>5. QED
    BY <1>8, <2>2, <2>3, <2>4, SayGoes
<1>9. QED
  BY <1>1, <1>2, <1>5, <1>6, <1>7, <1>8, QuietGoes DEF Next, ChatStep

\* An answered chat has left the user's message and after it the assistant's, a failed
\* one never the assistant's; what announced its start announces one end
THEOREM ChatsLeaveBoth == Spec => []ChatsAccounted
<1>1. Init => IInv /\ TInv
  <2>1. SUFFICES ASSUME Init PROVE TInv
    BY InitIInv
  <2>2. \A r \in Requests : run[r] = IdleRequest
    BY <2>1 DEF Init
  <2>3. \A r \in Requests : Mine(r) = {}
    BY <2>1 DEF Init, Mine
  <2>4. QED
    BY <2>2, <2>3 DEF TInv, Told, IdleRequest, ChatOps
<1>2. IInv /\ TInv /\ [Next]_vars => (IInv /\ TInv)'
  BY NextKeeps, TellKeeps
<1>3. TInv => ChatsAccounted
  BY DEF TInv, Told, ChatsAccounted
<1>4. QED
  BY <1>1, <1>2, <1>3, PTL DEF Spec
=================================================================================
