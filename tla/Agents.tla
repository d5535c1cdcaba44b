--------------------------------- MODULE Agents ---------------------------------
(***************************************************************************)
(* AgentService for one user: agents and which of them is the default,     *)
(* role cards, conversations and chats.                                    *)
(*                                                                         *)
(* Most operations load a row with one of its relations and save the copy: *)
(* every column becomes the copy's, a missing row is inserted (without its *)
(* user, which is not loaded), and rows of the relation are attached and   *)
(* detached until it is the copy's.  An action is what happens from one    *)
(* await to the next; a read that only rejects joins the read after it.    *)
(***************************************************************************)
EXTENDS Integers, Sequences, FiniteSets

CONSTANTS
    Requests,               \* calls of the service
    MaxAgents, MaxConvs,    \* bounds on the rows ever made
    Cards,                  \* the user's role cards
    MaxActions,             \* actions an intent recognition suggests
    MaxFaults               \* queries and model calls that fail

ASSUME AgentsAssumption ==
    /\ MaxAgents \in Nat \ {0, 1} /\ MaxConvs \in Nat \ {0}
    /\ MaxActions \in Nat /\ MaxFaults \in Nat
    /\ "none" \notin Cards

VARIABLES
    agents,         \* the agent rows
    holds,          \* agent_role_cards: the cards of an agent
    cards,          \* the role_card rows: not made yet, the user's, without user, gone
    convs,          \* the conversation rows
    messages,       \* the conversation_history rows, in the order of creation
    made,           \* how many agents and conversations were ever inserted
    run,            \* the requests
    overlaps,       \* history: the pairs of operations that overlapped
    flagged,        \* history: an agent was created with isDefault in the body
    faults

rowVars == <<agents, holds, cards, convs, messages, made>>
vars == <<rowVars, run, overlaps, flagged, faults>>

AgentIds == 1..MaxAgents
ConvIds == 1..MaxConvs
Agent == [exists: BOOLEAN, owned: BOOLEAN, isDefault: BOOLEAN, current: Cards \cup {"none"}]
NoAgent == [exists |-> FALSE, owned |-> FALSE, isDefault |-> FALSE, current |-> "none"]
NewAgent(isDefault) == [NoAgent EXCEPT !.exists = TRUE, !.owned = TRUE, !.isDefault = isDefault]

\* A conversation of agent 0, a message of conversation 0: the row is detached
Conversation == [exists: BOOLEAN, owned: BOOLEAN, agent: 0..MaxAgents]
NoConversation == [exists |-> FALSE, owned |-> FALSE, agent |-> 0]
NewConversation(a) == [exists |-> TRUE, owned |-> TRUE, agent |-> a]
Message == [conv: 0..MaxConvs, role: {"user", "assistant"}, by: Requests]

ChatOps == {"chat", "stream", "chatWithRole"}
Ops == ChatOps \cup {"none", "create", "save", "remove", "setDefault", "getDefault",
                     "makeCard", "editCard", "removeCard", "converse", "rename", "drop", "addMessage"}
PCs == {"idle", "clear", "write", "card", "conv", "say", "think", "act", "sum",
        "talk", "tool", "reply", "done", "rejected"}

\* What a request keeps between awaits: the agent or conversation it loaded, which
\* relations it loaded or assigned, and what they were: conversations of the agent,
\* its role cards, messages of the conversation.  events counts those that close
\* a chat
Request == [op: Ops, pc: PCs, agent: 0..MaxAgents, conv: 0..MaxConvs, card: Cards \cup {"none"},
            copy: Agent \cup Conversation, loaded: SUBSET {"conversations", "roleCards"},
            conversations: SUBSET ConvIds, roleCards: SUBSET Cards, history: SUBSET Nat,
            keepsCurrent: BOOLEAN, left: 0..MaxActions, started: BOOLEAN, events: 0..2]
IdleRequest == [op |-> "none", pc |-> "idle", agent |-> 0, conv |-> 0, card |-> "none",
                copy |-> NoAgent, loaded |-> {}, conversations |-> {}, roleCards |-> {},
                history |-> {}, keepsCurrent |-> FALSE, left |-> 0, started |-> FALSE,
                events |-> 0]

\* A user who has registered (agent 1 is the default), made another agent, and
\* given agent 1 its cards and a conversation; or one who has removed every agent and
\* has no card yet
Init ==
    /\ \E n \in {0, 2} :
        /\ agents = [a \in AgentIds |-> IF a <= n THEN NewAgent(a = 1) ELSE NoAgent]
        /\ holds = [a \in AgentIds |-> IF a = 1 /\ n = 2 THEN Cards ELSE {}]
        /\ convs = [v \in ConvIds |-> IF v = 1 /\ n = 2 THEN NewConversation(1)
                                      ELSE NoConversation]
        /\ cards = [c \in Cards |-> IF n = 2 THEN "own" ELSE "unmade"]
        /\ made = [agents |-> n, convs |-> n \div 2]
    /\ messages = <<>>
    /\ run = [r \in Requests |-> IdleRequest]
    /\ overlaps = {} /\ flagged = FALSE /\ faults = 0

-----------------------------------------------------------------------------
Owned(a) == agents[a].exists /\ agents[a].owned
OwnedConv(v) == convs[v].exists /\ convs[v].owned
CardRows == {c \in Cards : cards[c] \in {"own", "orphan"}}
ConvsOf(a) == {v \in ConvIds : convs[v].exists /\ convs[v].agent = a}
HistoryOf(v) == {i \in DOMAIN messages : messages[i].conv = v}
Live(r) == run[r].pc \notin {"idle", "done", "rejected"}
At(r, op, point) == run[r].op = op /\ run[r].pc = point

\* A first step: the request becomes q, unless its first reads reject it
Begin(r, q, found) ==
    /\ run[r].pc = "idle"
    /\ run' = [run EXCEPT ![r] = IF found THEN q
                                 ELSE [IdleRequest EXCEPT !.op = q.op, !.pc = "rejected"]]
    /\ overlaps' = overlaps \cup {{q.op, run[o].op} : o \in {o \in Requests : Live(o)}}
    /\ UNCHANGED <<rowVars, faults>>

Goto(r, point) == run' = [run EXCEPT ![r].pc = point]

\* A request ends: what it had loaded is gone.  A chat that has announced its start
\* announces its end: completed, or the error
Answer(r, point) ==
    run' = [run EXCEPT ![r] =
        [IdleRequest EXCEPT !.op = run[r].op, !.pc = point, !.conv = run[r].conv,
            !.started = run[r].started,
            !.events = IF run[r].started THEN run[r].events + 1 ELSE 0]]
Settled == UNCHANGED <<overlaps, flagged, faults>>

-----------------------------------------------------------------------------
(* Agents and role cards *)

\* create: isDefault is the body's
BeginCreate(r, b) ==
    /\ Begin(r, [IdleRequest EXCEPT !.op = "create", !.pc = "write", !.copy = NewAgent(b)], TRUE)
    /\ flagged' = (flagged \/ b)

\* getDefaultAgent: the default, the most recent, a public one; else one is made
BeginGetDefault(r, public) ==
    /\ Begin(r, [IdleRequest EXCEPT !.op = "getDefault", !.copy = NewAgent(TRUE),
                     !.pc = IF public \/ \E a \in AgentIds : Owned(a) THEN "done" ELSE "write"],
             TRUE)
    /\ UNCHANGED flagged

InsertAgent(r) ==
    /\ At(r, "create", "write") \/ At(r, "getDefault", "write")
    /\ made.agents < MaxAgents
    /\ made' = [made EXCEPT !.agents = @ + 1]
    /\ agents' = [agents EXCEPT ![made.agents + 1] = run[r].copy]
    /\ Answer(r, "done")
    /\ UNCHANGED <<holds, cards, convs, messages>> /\ Settled

\* Plausible bug: the copy is saved with an empty list of conversations
FoundAgent_Empties(a) == [IdleRequest EXCEPT !.op = "save", !.pc = "write", !.agent = a,
                                             !.copy = agents[a], !.loaded = {"conversations"}]

\* findOne: the user's agent with its conversations
FoundAgent(a) == [IdleRequest EXCEPT !.op = "save", !.pc = "write", !.agent = a, !.copy = agents[a],
                                     !.loaded = {"conversations"}, !.conversations = ConvsOf(a)]
\* The same with its role cards instead
FoundWithCards(a) == [IdleRequest EXCEPT !.op = "save", !.pc = "write", !.agent = a,
                          !.copy = agents[a], !.loaded = {"roleCards"}, !.roleCards = holds[a]]

\* update, whose body cannot set isDefault; switchRole, updateEnvironmentContext and
\* syncCollaboratorContext save the same copy with other columns changed
BeginUpdate(r, a) == Begin(r, FoundAgent(a), Owned(a)) /\ UNCHANGED flagged

\* findOneRoleCard: the user's card, or a public one
Offered(c, public) == cards[c] = "own" \/ (public /\ c \in CardRows)

\* addRoleCardToAgent: the cards are not loaded, so the copy's are the new one alone
BeginAddCard(r, a, c) ==
    /\ \E public \in BOOLEAN :
           Begin(r, [FoundAgent(a) EXCEPT !.loaded = {"conversations", "roleCards"},
                                          !.roleCards = {c}], Owned(a) /\ Offered(c, public))
    /\ UNCHANGED flagged

\* removeRoleCardFromAgent: currentRoleCardId becomes undefined, and such a column
\* is not saved
BeginTakeCard(r, a, c) ==
    /\ Begin(r, [FoundWithCards(a) EXCEPT !.roleCards = @ \ {c},
                                          !.keepsCurrent = (agents[a].current = c)], Owned(a))
    /\ UNCHANGED flagged

\* switchAgentRoleCard
BeginSwitchCard(r, a, c) ==
    /\ Begin(r, [FoundWithCards(a) EXCEPT !.copy.current = c], Owned(a) /\ c \in holds[a])
    /\ UNCHANGED flagged

\* The conversations of a saved agent: those of the copy that are still there, and
\* no other
Attached(q, v) ==
    [convs[v] EXCEPT !.agent = IF v \in q.conversations THEN q.agent
                               ELSE IF @ = q.agent THEN 0 ELSE @]

\* agentRepo.save.  A card that is gone cannot be linked
SaveAgent(r) ==
    LET q == run[r]
        a == q.agent
        row == [q.copy EXCEPT !.owned = agents[a].owned,
                              !.current = IF q.keepsCurrent THEN agents[a].current ELSE @]
    IN
    /\ At(r, "save", "write")
    /\ IF "roleCards" \in q.loaded /\ ~(q.roleCards \subseteq CardRows)
       THEN Answer(r, "rejected") /\ UNCHANGED rowVars
       ELSE /\ agents' = [agents EXCEPT ![a] = row]
            /\ holds' = IF "roleCards" \in q.loaded THEN [holds EXCEPT ![a] = q.roleCards]
                                                    ELSE holds
            /\ convs' = [v \in ConvIds |-> IF "conversations" \in q.loaded /\ convs[v].exists
                                           THEN Attached(q, v) ELSE convs[v]]
            /\ Answer(r, "done")
            /\ UNCHANGED <<cards, messages, made>>
    /\ Settled

BeginRemove(r, a) ==
    /\ Begin(r, [IdleRequest EXCEPT !.op = "remove", !.pc = "write", !.agent = a], Owned(a))
    /\ UNCHANGED flagged

\* agentRepo.remove: a conversation's foreign key stops it
RemoveAgent(r) ==
    LET a == run[r].agent IN
    /\ At(r, "remove", "write")
    /\ IF ConvsOf(a) # {}
       THEN Answer(r, "rejected") /\ UNCHANGED rowVars
       ELSE /\ agents' = [agents EXCEPT ![a] = NoAgent]
            /\ holds' = [holds EXCEPT ![a] = {}]
            /\ Answer(r, "done")
            /\ UNCHANGED <<cards, convs, messages, made>>
    /\ Settled

\* createRoleCard
BeginMakeCard(r) ==
    /\ \E c \in Cards : cards[c] = "unmade"
    /\ Begin(r, [IdleRequest EXCEPT !.op = "makeCard", !.pc = "write"], TRUE)
    /\ UNCHANGED flagged

InsertCard(r) ==
    /\ At(r, "makeCard", "write")
    /\ \E c \in Cards : cards[c] = "unmade" /\ cards' = [cards EXCEPT ![c] = "own"]
    /\ Answer(r, "done")
    /\ UNCHANGED <<agents, holds, convs, messages, made>> /\ Settled

\* updateRoleCard saves the card it found, which inserts it again when it is gone:
\* without its user, who is not loaded
BeginEditCard(r, c) ==
    /\ Begin(r, [IdleRequest EXCEPT !.op = "editCard", !.pc = "write", !.card = c], cards[c] = "own")
    /\ UNCHANGED flagged

SaveCard(r) ==
    /\ At(r, "editCard", "write")
    /\ cards' = [cards EXCEPT ![run[r].card] = IF @ = "gone" THEN "orphan" ELSE @]
    /\ Answer(r, "done")
    /\ UNCHANGED <<agents, holds, convs, messages, made>> /\ Settled

\* removeRoleCard: the links to the card go with it, the agents' current card stays
BeginRemoveCard(r, c) ==
    /\ Begin(r, [IdleRequest EXCEPT !.op = "removeCard", !.pc = "write", !.card = c], cards[c] = "own")
    /\ UNCHANGED flagged

RemoveCard(r) ==
    /\ At(r, "removeCard", "write")
    /\ cards' = [cards EXCEPT ![run[r].card] = "gone"]
    /\ holds' = [a \in AgentIds |-> holds[a] \ {run[r].card}]
    /\ Answer(r, "done")
    /\ UNCHANGED <<agents, convs, messages, made>> /\ Settled

\* setDefaultAgent: no agent is the default, then one of the user's is
BeginSetDefault(r, a) ==
    /\ Begin(r, [IdleRequest EXCEPT !.op = "setDefault", !.pc = "clear", !.agent = a], TRUE)
    /\ UNCHANGED flagged

\* Plausible bug: the first update is forgotten
ClearDefaults_Forgets(r) ==
    /\ At(r, "setDefault", "clear") /\ Goto(r, "write")
    /\ UNCHANGED rowVars /\ Settled

ClearDefaults(r) ==
    /\ At(r, "setDefault", "clear")
    /\ agents' = [a \in AgentIds |-> [agents[a] EXCEPT !.isDefault = @ /\ ~Owned(a)]]
    /\ Goto(r, "write")
    /\ UNCHANGED <<holds, cards, convs, messages, made>> /\ Settled

SetDefault(r) ==
    LET a == run[r].agent IN
    /\ At(r, "setDefault", "write")
    /\ agents' = IF Owned(a) THEN [agents EXCEPT ![a].isDefault = TRUE] ELSE agents
    /\ Answer(r, "done")
    /\ UNCHANGED <<holds, cards, convs, messages, made>> /\ Settled

-----------------------------------------------------------------------------
(* Conversations *)

BeginConverse(r, a) ==
    /\ Begin(r, [IdleRequest EXCEPT !.op = "converse", !.pc = "write", !.agent = a], Owned(a))
    /\ UNCHANGED flagged

\* createConversation: its agent may have gone since
InsertConversation(r) ==
    LET v == made.convs + 1
        a == run[r].agent
    IN
    /\ At(r, "converse", "write")
    /\ IF agents[a].exists
       THEN /\ made.convs < MaxConvs
            /\ made' = [made EXCEPT !.convs = v]
            /\ convs' = [convs EXCEPT ![v] = NewConversation(a)]
            /\ Answer(r, "done")
            /\ UNCHANGED <<agents, holds, cards, messages>>
       ELSE Answer(r, "rejected") /\ UNCHANGED rowVars
    /\ Settled

\* findOneConversation, with its agent and its history, to rename or remove it
BeginRename(r, v) ==
    /\ Begin(r, [IdleRequest EXCEPT !.op = "rename", !.pc = "write", !.conv = v,
                                    !.copy = convs[v], !.history = HistoryOf(v)], OwnedConv(v))
    /\ UNCHANGED flagged
BeginDrop(r, v) ==
    /\ Begin(r, [IdleRequest EXCEPT !.op = "drop", !.pc = "write", !.conv = v], OwnedConv(v))
    /\ UNCHANGED flagged

\* conversationRepo.save: the agent and the messages become the copy's
SaveConversation(r) ==
    LET q == run[r]
        v == q.conv
        parent == q.copy.agent
    IN
    /\ At(r, "rename", "write")
    /\ IF parent # 0 /\ ~agents[parent].exists
       THEN Answer(r, "rejected") /\ UNCHANGED rowVars
       ELSE /\ convs' = [convs EXCEPT ![v] =
                   [exists |-> TRUE, owned |-> @.owned, agent |-> parent]]
            /\ messages' = [i \in DOMAIN messages |->
                   IF i \in q.history THEN [messages[i] EXCEPT !.conv = v]
                   ELSE IF messages[i].conv = v THEN [messages[i] EXCEPT !.conv = 0]
                   ELSE messages[i]]
            /\ Answer(r, "done")
            /\ UNCHANGED <<agents, holds, cards, made>>
    /\ Settled

\* conversationRepo.remove: a message's foreign key stops it
RemoveConversation(r) ==
    LET v == run[r].conv IN
    /\ At(r, "drop", "write")
    /\ IF HistoryOf(v) # {}
       THEN Answer(r, "rejected") /\ UNCHANGED rowVars
       ELSE /\ convs' = [convs EXCEPT ![v] = NoConversation]
            /\ Answer(r, "done")
            /\ UNCHANGED <<agents, holds, cards, messages, made>>
    /\ Settled

-----------------------------------------------------------------------------
(* Messages and chats *)

\* addMessage finds the user's conversation, streamChat has found any
CanSay(r) == convs[run[r].conv].exists /\ (run[r].op = "stream" \/ convs[run[r].conv].owned)
WithMessage(r, role) == Append(messages, [conv |-> run[r].conv, role |-> role, by |-> r])

BeginAddMessage(r, v) ==
    /\ Begin(r, [IdleRequest EXCEPT !.op = "addMessage", !.pc = "reply", !.conv = v], OwnedConv(v))
    /\ UNCHANGED flagged

\* chat and chatWithRoleCard find the user's agent, streamChat finds any agent
BeginChat(r, op, a, v) ==
    /\ Begin(r, [IdleRequest EXCEPT !.op = op, !.agent = a, !.conv = v,
                                    !.pc = IF op = "chatWithRole" THEN "card" ELSE "conv"],
             IF op = "stream" THEN agents[a].exists ELSE Owned(a))
    /\ UNCHANGED flagged

\* getCurrentRoleCard throws when there is none, or it is gone
FindCard(r) ==
    LET a == run[r].agent IN
    /\ At(r, "chatWithRole", "card")
    /\ IF Owned(a) /\ agents[a].current \in CardRows THEN Goto(r, "conv") ELSE Answer(r, "rejected")
    /\ UNCHANGED rowVars /\ Settled

\* The conversation has to be the agent's; only chat announces that it started
FindConversation(r) ==
    LET q == run[r]
        found == CanSay(r) /\ convs[q.conv].agent = q.agent
    IN
    /\ q.op \in ChatOps /\ q.pc = "conv"
    /\ IF found THEN run' = [run EXCEPT ![r].pc = "say", ![r].started = (q.op = "chat")]
                ELSE Answer(r, "rejected")
    /\ UNCHANGED rowVars /\ Settled

SaveUserMessage(r) ==
    /\ run[r].pc = "say"
    /\ IF CanSay(r) THEN messages' = WithMessage(r, "user") /\ Goto(r, "think")
                    ELSE messages' = messages /\ Answer(r, "rejected")
    /\ UNCHANGED <<agents, holds, cards, convs, made>> /\ Settled

\* performIntentRecognition: clarification (also when the answer is not JSON),
\* actions, or neither
RecogniseIntent(r) ==
    /\ At(r, "chat", "think")
    /\ \/ Goto(r, "reply")
       \/ \E n \in 1..MaxActions : run' = [run EXCEPT ![r].pc = "act", ![r].left = n]
       \/ Goto(r, "talk")
    /\ UNCHANGED rowVars /\ Settled

\* executeSuggestedActions: the next action succeeds or fails, and is counted
ExecuteAction(r) ==
    /\ At(r, "chat", "act")
    /\ run' = [run EXCEPT ![r].left = @ - 1, ![r].pc = IF run[r].left = 1 THEN "sum" ELSE @]
    /\ UNCHANGED rowVars /\ Settled

\* generateActionBasedResponse; generateTraditionalResponse, whose answer may be a
\* tool call; the tool and the answer made of its result, whose failure leaves the
\* first answer; chatWithRoleCard's call of the model
Summarise(r) == At(r, "chat", "sum") /\ Goto(r, "reply") /\ UNCHANGED rowVars /\ Settled
Talk(r) == /\ At(r, "chat", "talk")
           /\ \E point \in {"tool", "reply"} : Goto(r, point)
           /\ UNCHANGED rowVars /\ Settled
CallTool(r) == At(r, "chat", "tool") /\ Goto(r, "reply") /\ UNCHANGED rowVars /\ Settled
AskWithCard(r) == /\ At(r, "chatWithRole", "think") /\ Goto(r, "reply")
                  /\ UNCHANGED rowVars /\ Settled

\* streamChat answers with the stream: what the model says is not stored
Stream(r) == At(r, "stream", "think") /\ Answer(r, "done") /\ UNCHANGED rowVars /\ Settled

\* Plausible bug: a reply that cannot be stored is answered all the same
SaveReply_Swallows(r) ==
    /\ run[r].pc = "reply"
    /\ messages' = IF ~CanSay(r) THEN messages
                   ELSE WithMessage(r, IF run[r].op = "addMessage" THEN "user" ELSE "assistant")
    /\ Answer(r, "done")
    /\ UNCHANGED <<agents, holds, cards, convs, made>> /\ Settled

\* The assistant's message, or the user's that addMessage was given
SaveReply(r) ==
    /\ run[r].pc = "reply"
    /\ IF CanSay(r)
       THEN /\ messages' = WithMessage(r, IF run[r].op = "addMessage" THEN "user" ELSE "assistant")
            /\ Answer(r, "done")
       ELSE messages' = messages /\ Answer(r, "rejected")
    /\ UNCHANGED <<agents, holds, cards, convs, made>> /\ Settled

-----------------------------------------------------------------------------
\* A query or a call of the model fails: the request does, and a chat announces the
\* error.  Actions and tool calls catch their own
RequestFails(r) ==
    /\ Live(r) /\ run[r].pc \notin {"act", "tool"}
    /\ faults < MaxFaults /\ faults' = faults + 1
    /\ Answer(r, "rejected")
    /\ UNCHANGED <<rowVars, overlaps, flagged>>

\* The routes of AgentController that change rows: agents and their cards,
\* conversations and chats, role cards
AgentRoutes(r) ==
    \/ \E b \in BOOLEAN : BeginCreate(r, b) \/ BeginGetDefault(r, b)
    \/ \E a \in AgentIds :
        BeginUpdate(r, a) \/ BeginRemove(r, a) \/ BeginSetDefault(r, a)
ConversationRoutes(r) ==
    \/ \E a \in AgentIds : BeginConverse(r, a) \/ \E v \in ConvIds, op \in ChatOps : BeginChat(r, op, a, v)
    \/ \E v \in ConvIds : BeginRename(r, v) \/ BeginDrop(r, v) \/ BeginAddMessage(r, v)
CardRoutes(r) ==
    \/ BeginMakeCard(r)
    \/ \E c \in Cards : BeginEditCard(r, c) \/ BeginRemoveCard(r, c)
    \/ \E c \in Cards, a \in AgentIds :
        BeginAddCard(r, a, c) \/ BeginTakeCard(r, a, c) \/ BeginSwitchCard(r, a, c)

WriteRows(r) ==
    \/ InsertAgent(r) \/ SaveAgent(r) \/ RemoveAgent(r)
    \/ InsertCard(r) \/ SaveCard(r) \/ RemoveCard(r)
    \/ ClearDefaults(r) \/ SetDefault(r)
    \/ InsertConversation(r) \/ SaveConversation(r) \/ RemoveConversation(r)

ChatStep(r) ==
    \/ FindCard(r) \/ FindConversation(r) \/ SaveUserMessage(r) \/ RecogniseIntent(r)
    \/ ExecuteAction(r) \/ Summarise(r) \/ Talk(r) \/ CallTool(r) \/ AskWithCard(r)
    \/ Stream(r) \/ SaveReply(r)

Next ==
    \E r \in Requests :
        \/ AgentRoutes(r) \/ ConversationRoutes(r) \/ CardRoutes(r)
        \/ WriteRows(r) \/ ChatStep(r) \/ RequestFails(r)
Spec == Init /\ [][Next]_vars

-----------------------------------------------------------------------------
TypeOK ==
    /\ agents \in [AgentIds -> Agent]
    /\ holds \in [AgentIds -> SUBSET Cards]
    /\ cards \in [Cards -> {"unmade", "own", "orphan", "gone"}]
    /\ convs \in [ConvIds -> Conversation]
    /\ messages \in Seq(Message)
    /\ made \in [agents: 0..MaxAgents, convs: 0..MaxConvs]
    /\ run \in [Requests -> Request]
    /\ overlaps \subseteq {{p, q} : p, q \in Ops}
    /\ flagged \in BOOLEAN /\ faults \in 0..MaxFaults

\* A user has at most one default agent, unless one was created as the default by
\* its body, or two operations overlapped of which each writes the column:
\* setDefaultAgent's two updates, getDefaultAgent's insert, or the save of an agent
\* read before.  A call that fails between its two updates leaves none
OneDefault ==
    Cardinality({a \in AgentIds : Owned(a) /\ agents[a].isDefault}) <= 1
        \/ flagged
        \/ overlaps \cap {{p, q} : p, q \in {"setDefault", "getDefault", "save"}} # {}

\* A conversation leaves its agent only when it was created, or brought back by its
\* own save, during the save of an agent read before; a message its conversation
\* only when it was added while that was renamed; a role card its user only when it
\* was edited while it was removed
KeptAttached ==
    /\ (\E v \in ConvIds : convs[v].exists /\ convs[v].agent = 0)
           => {{"save", "converse"}, {"save", "rename"}} \cap overlaps # {}
    /\ HistoryOf(0) # {} => \E op \in ChatOps \cup {"addMessage"} : {"rename", op} \in overlaps
    /\ (\E c \in Cards : cards[c] = "orphan") => {"editCard", "removeCard"} \in overlaps

\* What an answered chat leaves: the user's message and after it the assistant's,
\* of a stream the user's only; a failed one never the assistant's.  A chat that
\* announced its start announces one end, when it is answered
Mine(r) == {i \in DOMAIN messages : messages[i].by = r}
SaidOnly(r) == \E i \in Mine(r) : Mine(r) = {i} /\ messages[i].role = "user"
SaidBoth(r) == \E i, j \in Mine(r) : /\ Mine(r) = {i, j} /\ i < j
                                     /\ messages[i].role = "user" /\ messages[j].role = "assistant"

ChatsAccounted ==
    \A r \in Requests : run[r].op \in ChatOps =>
        /\ run[r].pc = "done" => IF run[r].op = "stream" THEN SaidOnly(r) ELSE SaidBoth(r)
        /\ run[r].pc = "rejected" => Mine(r) = {} \/ SaidOnly(r)
        /\ run[r].events = (IF run[r].started /\ ~Live(r) THEN 1 ELSE 0)
=============================================================================
