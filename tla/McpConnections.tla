----------------------------- MODULE McpConnections -----------------------------
(***************************************************************************)
(* McpService and McpClientService on one MCP server: its row, its tools'  *)
(* rows, the connections this process opened and the one connections map   *)
(* entry.  Requests and the health check are chains of awaits, each on its *)
(* own copy of the row; the map is shared and tested before each await.    *)
(*                                                                         *)
(* save of a copy loaded with its tools also relates tools: a tool row not *)
(* in the copy loses its server, and a row that was deleted is inserted    *)
(* again.  An action is what happens from one await to the next.           *)
(***************************************************************************)
EXTENDS Naturals, Sequences, FiniteSets

CONSTANTS
    Requests,   \* calls of the service and ticks of the health check
    Offered,    \* how many tools the server lists
    Overlap,    \* may a request begin while another one is running?
    MaxFaults,  \* failing queries and failing closes
    MaxLosses,  \* connections the server drops
    MaxCrashes

ASSUME McpAssumption ==
    /\ Offered \in Nat /\ Overlap \in BOOLEAN
    /\ MaxFaults \in Nat /\ MaxLosses \in Nat /\ MaxCrashes \in Nat

VARIABLES
    row,        \* status of the mcp_server row
    tools,      \* the mcp_tool rows, by id
    links,      \* the clients this process created, by number
    conn,       \* the server's entry in connections: a client, or 0
    run,        \* the requests
    overlapped, \* (history) has a request begun while another one ran?
    faults, losses, crashes

vars == <<row, tools, links, conn, run, overlapped, faults, losses, crashes>>
environment == <<overlapped, faults, losses, crashes>>

NoRow == {"unborn", "removed"}
Statuses == NoRow \cup {"inactive", "connecting", "active", "error"}
Tool == [name: 1..Offered, at: {"linked", "detached", "deleted"}]
Clients == {"opening", "open", "lost", "closed"}

\* The methods of McpService each operation calls in turn
Plan == [create     |-> <<"connect">>,
         connect    |-> <<"connect">>,
         disconnect |-> <<"disconnect">>,
         reconnect  |-> <<"disconnect", "connect">>,
         rename     |-> <<"update">>,                            \* not the config
         update     |-> <<"update", "disconnect", "connect">>,
         remove     |-> <<"remove">>,
         sync       |-> <<"sync">>,
         call       |-> <<"call">>,
         callByName |-> <<"connect">>,
         health     |-> <<"health">>]
Methods == {"connect", "disconnect", "update", "remove", "sync", "call", "health"}
PCs == {"idle", "load", "announce", "close", "open", "list", "clear", "insert", "final",
        "inactive", "update", "deltools", "remove", "findtool", "findname", "count",
        "calling", "error", "health", "done", "rejected", "lost"}
Request == [op: DOMAIN Plan \cup {"none"}, pc: PCs, plan: Seq(Methods), status: Statuses,
            tools: SUBSET Nat, link: Nat, left: Nat, tool: Nat]
IdleRequest == [op |-> "none", pc |-> "idle", plan |-> <<>>, status |-> "unborn",
                tools |-> {}, link |-> 0, left |-> 0, tool |-> 0]

Init ==
    /\ row = "unborn"
    /\ tools = <<>>
    /\ links = <<>>
    /\ conn = 0
    /\ run = [r \in Requests |-> IdleRequest]
    /\ overlapped = FALSE
    /\ faults = 0 /\ losses = 0 /\ crashes = 0

-----------------------------------------------------------------------------
Ended == {"idle", "done", "rejected", "lost"}
Live(r) == run[r].pc \notin Ended
Linked == {i \in DOMAIN tools : tools[i].at = "linked"}

Finish(answer) == [IdleRequest EXCEPT !.pc = answer]
At(q, point) == [q EXCEPT !.pc = point]
Become(r, q) == run' = [run EXCEPT ![r] = q]

\* mcpServerRepository.save of the copy a request loaded with its tools
Save(r) ==
    /\ row' = run[r].status
    /\ tools' = [i \in DOMAIN tools |->
                    IF tools[i].at = "deleted" THEN tools[i]
                    ELSE [tools[i] EXCEPT !.at = IF i \in run[r].tools THEN "linked" ELSE "detached"]]

\* A new client starts to connect; base holds the clients so far
Open(r, base) ==
    /\ links' = Append(base, "opening")
    /\ Become(r, [run[r] EXCEPT !.pc = "open", !.link = Len(base) + 1])

\* What disconnectServer and removeServer do after disconnect
Disconnected(q) == IF Head(q.plan) = "disconnect"
                   THEN [q EXCEPT !.pc = "inactive", !.status = "inactive", !.link = 0]
                   ELSE [q EXCEPT !.pc = "deltools", !.link = 0]

\* syncServerTools returns, whatever went wrong in it
Synced(q) == IF Head(q.plan) = "connect" THEN [q EXCEPT !.pc = "final", !.left = 0] ELSE Finish("done")

\* callTool tests the map before it calls
Calling(q) == IF conn = 0 THEN Finish("rejected") ELSE [q EXCEPT !.pc = "calling", !.tool = 0]

-----------------------------------------------------------------------------
(* Operations *)

Begins(r, op, point) ==
    /\ run[r].pc = "idle"
    /\ Overlap \/ \A q \in Requests : ~Live(q)
    /\ overlapped' = (overlapped \/ \E q \in Requests : Live(q))
    /\ Become(r, [IdleRequest EXCEPT !.op = op, !.pc = point, !.plan = Plan[op]])

\* createServer: the row is inserted, then connectServer
CreateServer(r) ==
    /\ row = "unborn"
    /\ Begins(r, "create", "load")
    /\ row' = "inactive"
    /\ UNCHANGED <<tools, links, conn, faults, losses, crashes>>

\* The other operations on a server somebody created
CallService(r) ==
    /\ row # "unborn"
    /\ \/ \E op \in {"connect", "disconnect", "reconnect", "rename", "update",
                   "remove", "sync", "call"} : Begins(r, op, "load")
       \/ Begins(r, "callByName", "findname")
       \/ Begins(r, "health", "health")
    /\ UNCHANGED <<row, tools, links, conn, faults, losses, crashes>>

\* findServerById, with the tools; then the method up to its first await.  The
\* methods that never save the copy are not given one
Loaded(q) ==
    LET copy == [q EXCEPT !.status = row, !.tools = Linked]
        method == Head(q.plan)
        kept == IF method = "disconnect" THEN copy ELSE q IN
    IF row \in NoRow THEN Finish("rejected") ELSE
    CASE method = "connect" -> [copy EXCEPT !.pc = "announce", !.status = "connecting"]
      [] method = "update"  -> [copy EXCEPT !.pc = "update"]
      [] method \in {"disconnect", "remove"} ->
            IF conn = 0 THEN Disconnected(kept) ELSE [kept EXCEPT !.pc = "close", !.link = conn]
      [] method = "sync" -> IF conn = 0 THEN Finish("done") ELSE At(q, "list")
      [] method = "call" -> IF conn = 0 THEN Finish("rejected") ELSE At(q, "findtool")

LoadServer(r) ==
    /\ run[r].pc = "load"
    /\ Become(r, Loaded(run[r]))
    /\ UNCHANGED <<row, tools, links, conn, environment>>

-----------------------------------------------------------------------------
(* connectServer *)

\* Plausible bug: an existing connection is not closed first
Announce_KeepsOld(r) ==
    /\ run[r].pc = "announce"
    /\ Save(r)
    /\ Open(r, links)
    /\ UNCHANGED <<conn, environment>>

\* CONNECTING is saved; connect closes the map's connection, or opens one
Announce(r) ==
    /\ run[r].pc = "announce"
    /\ Save(r)
    /\ IF conn = 0 THEN Open(r, links)
       ELSE Become(r, [run[r] EXCEPT !.pc = "close", !.link = conn]) /\ UNCHANGED links
    /\ UNCHANGED <<conn, environment>>

\* Plausible bug: the map keeps the closed connection
CloseLink_KeepsEntry(r) ==
    LET closed == [links EXCEPT ![run[r].link] = "closed"] IN
    /\ run[r].pc = "close"
    /\ IF Head(run[r].plan) = "connect" THEN Open(r, closed)
       ELSE Become(r, Disconnected(run[r])) /\ links' = closed
    /\ UNCHANGED <<row, tools, conn, environment>>

\* disconnect: the client is closed and the server's entry deleted, whichever
\* connection it holds by now; an error of close leaves both and is logged.  close is
\* awaited before the entry is deleted: a client counts as closed from the moment
\* close has answered, so that both are one step; until then a call through the entry
\* may fail, as any call may
CloseLink(r) ==
    LET closed == [links EXCEPT ![run[r].link] = "closed"] IN
    /\ run[r].pc = "close"
    /\ \/ conn' = 0 /\ UNCHANGED faults
          /\ IF Head(run[r].plan) = "connect" THEN Open(r, closed)
             ELSE Become(r, Disconnected(run[r])) /\ links' = closed
       \/ faults < MaxFaults /\ faults' = faults + 1 /\ UNCHANGED conn
          /\ IF Head(run[r].plan) = "connect" THEN Open(r, links)
             ELSE Become(r, Disconnected(run[r])) /\ UNCHANGED links
    /\ UNCHANGED <<row, tools, overlapped, losses, crashes>>

\* The client is connected and takes the map's entry; connectServer lists tools
OpenLink(r) ==
    LET q == run[r] IN
    /\ q.pc = "open"
    /\ links' = [links EXCEPT ![q.link] = "open"]
    /\ conn' = q.link
    /\ Become(r, IF Head(q.plan) = "health" THEN Finish("done")
                 ELSE [q EXCEPT !.pc = "list", !.status = "active", !.link = 0])
    /\ UNCHANGED <<row, tools, environment>>

\* Plausible bug: the answer of connect is not looked at
FailOpen_Unnoticed(r) ==
    LET q == run[r] IN
    /\ q.pc = "open"
    /\ links' = [links EXCEPT ![q.link] = "closed"]
    /\ Become(r, IF Head(q.plan) = "health" THEN Finish("done")
                 ELSE [q EXCEPT !.pc = "final", !.status = "active", !.link = 0])
    /\ UNCHANGED <<row, tools, conn, environment>>

\* The client cannot connect: connect answers false
FailOpen(r) ==
    LET q == run[r] IN
    /\ q.pc = "open"
    /\ links' = [links EXCEPT ![q.link] = "closed"]
    /\ Become(r, IF Head(q.plan) = "health" THEN Finish("done")
                 ELSE [q EXCEPT !.pc = "final", !.status = "error", !.link = 0])
    /\ UNCHANGED <<row, tools, conn, environment>>

\* The server lists its tools, or the call fails
ListTools(r) ==
    /\ run[r].pc = "list"
    /\ Become(r, At(run[r], "clear")) \/ Become(r, Synced(run[r]))
    /\ UNCHANGED <<row, tools, links, conn, environment>>

\* Plausible bug: the old tools stay
ClearTools_Keeps(r) ==
    /\ run[r].pc = "clear"
    /\ Become(r, IF Offered = 0 THEN Synced(run[r]) ELSE [run[r] EXCEPT !.pc = "insert", !.left = Offered])
    /\ UNCHANGED <<row, tools, links, conn, environment>>

\* The rows of the server's tools are deleted
Deleted == [i \in DOMAIN tools |-> IF tools[i].at = "linked" THEN [tools[i] EXCEPT !.at = "deleted"]
                                   ELSE tools[i]]
ClearTools(r) ==
    /\ run[r].pc = "clear"
    /\ tools' = Deleted
    /\ Become(r, IF Offered = 0 THEN Synced(run[r]) ELSE [run[r] EXCEPT !.pc = "insert", !.left = Offered])
    /\ UNCHANGED <<row, links, conn, environment>>

\* Plausible bug: one tool too many is inserted
InsertTool_OneMore(r) ==
    /\ run[r].pc = "insert"
    /\ tools' = Append(tools, [name |-> run[r].left, at |-> "linked"])
    /\ Become(r, IF run[r].left = 0 THEN Synced(run[r]) ELSE [run[r] EXCEPT !.left = @ - 1])
    /\ UNCHANGED <<row, links, conn, environment>>

\* The row of the next listed tool is inserted; without a server row the
\* reference fails and the synchronisation ends
InsertTool(r) ==
    LET q == run[r] IN
    /\ q.pc = "insert"
    /\ IF row \in NoRow THEN Become(r, Synced(q)) /\ UNCHANGED tools
       ELSE /\ tools' = Append(tools, [name |-> q.left, at |-> "linked"])
            /\ Become(r, IF q.left = 1 THEN Synced(q) ELSE [q EXCEPT !.left = @ - 1])
    /\ UNCHANGED <<row, links, conn, environment>>

\* ACTIVE or ERROR is saved, and executeToolByName goes on if it is ACTIVE
SaveFinal(r) ==
    LET q == run[r] IN
    /\ q.pc = "final"
    /\ Save(r)
    /\ Become(r, IF q.op # "callByName" THEN Finish("done")
                 ELSE IF q.status = "active" THEN At(q, "count") ELSE Finish("rejected"))
    /\ UNCHANGED <<links, conn, environment>>

\* The catch block of connectServer
SaveError(r) ==
    /\ run[r].pc = "error"
    /\ Save(r)
    /\ Become(r, Finish("rejected"))
    /\ UNCHANGED <<links, conn, environment>>

-----------------------------------------------------------------------------
(* disconnectServer, updateServer, removeServer *)

NextMethod(q) == IF Len(q.plan) = 1 THEN Finish("done")
                 ELSE [q EXCEPT !.plan = Tail(@), !.pc = "load"]

\* INACTIVE, or the updated columns, are saved; a reconnect goes on
SaveServer(r) ==
    /\ run[r].pc \in {"inactive", "update"}
    /\ Save(r)
    /\ Become(r, NextMethod(run[r]))
    /\ UNCHANGED <<links, conn, environment>>

DeleteTools(r) ==
    /\ run[r].pc = "deltools"
    /\ tools' = Deleted
    /\ Become(r, At(run[r], "remove"))
    /\ UNCHANGED <<row, links, conn, environment>>

\* The row is removed unless a tool refers to it
RemoveServer(r) ==
    /\ run[r].pc = "remove"
    /\ IF Linked = {} THEN row' = "removed" /\ Become(r, Finish("done"))
       ELSE Become(r, Finish("rejected")) /\ UNCHANGED row
    /\ UNCHANGED <<tools, links, conn, environment>>

-----------------------------------------------------------------------------
(* executeTool, executeToolByName, healthCheck *)

\* executeTool: the server's tool of that name, if there is a row for it
FindTool(r) ==
    /\ run[r].pc = "findtool"
    /\ \/ \E i \in Linked : Become(r, [run[r] EXCEPT !.pc = "count", !.tool = i])
       \/ Become(r, Calling(run[r]))
    /\ UNCHANGED <<row, tools, links, conn, environment>>

\* executeToolByName: the tool must exist; a server without an entry is connected
FindToolByName(r) ==
    LET q == run[r] IN
    /\ q.pc = "findname"
    /\ \/ \E i \in Linked :
            Become(r, [q EXCEPT !.tool = i, !.pc = IF conn = 0 THEN "load" ELSE "count"])
       \/ Become(r, Finish("rejected"))
    /\ UNCHANGED <<row, tools, links, conn, environment>>

\* The tool's usage is saved.  A copy of a deleted row is inserted again; only
\* executeToolByName's copy has its server
CountUsage(r) ==
    LET q == run[r] IN
    /\ q.pc = "count"
    /\ IF q.op = "callByName" /\ row \in NoRow
       THEN Become(r, Finish("rejected")) /\ UNCHANGED tools
       ELSE /\ tools' = [tools EXCEPT ![q.tool].at =
                            IF q.op = "callByName" THEN "linked"
                            ELSE IF @ = "deleted" THEN "detached" ELSE @]
            /\ Become(r, Calling(q))
    /\ UNCHANGED <<row, links, conn, environment>>

\* The tool answers or fails: the caller gets either
CallTool(r) ==
    /\ run[r].pc = "calling"
    /\ Become(r, Finish("done"))
    /\ UNCHANGED <<row, tools, links, conn, environment>>

\* healthCheck: the ACTIVE servers are read; one without an entry is connected
HealthCheck(r) ==
    /\ run[r].pc = "health"
    /\ IF row = "active" /\ conn = 0 THEN Open(r, links)
       ELSE Become(r, Finish("done")) /\ UNCHANGED links
    /\ UNCHANGED <<row, tools, conn, environment>>

-----------------------------------------------------------------------------
(* The environment *)

\* The pending query of a request fails: connectServer stores the error,
\* syncServerTools logs it, everything else rejects
QueryFails(r) ==
    LET q == run[r] IN
    /\ Live(r) /\ q.pc \notin {"close", "open", "list", "calling"}
    /\ faults < MaxFaults
    /\ faults' = faults + 1
    /\ Become(r, CASE q.pc \in {"announce", "final"} -> [q EXCEPT !.pc = "error", !.status = "error"]
                   [] q.pc \in {"clear", "insert"}   -> Synced(q)
                   [] OTHER                          -> Finish("rejected"))
    /\ UNCHANGED <<row, tools, links, conn, overlapped, losses, crashes>>

\* The server drops a connection; nobody listens for that
LoseLink ==
    /\ losses < MaxLosses
    /\ \E k \in DOMAIN links : links[k] = "open" /\ links' = [links EXCEPT ![k] = "lost"]
    /\ losses' = losses + 1
    /\ UNCHANGED <<row, tools, conn, run, overlapped, faults, crashes>>

\* The process restarts with an empty map; the rows are as they were
Restart ==
    /\ crashes < MaxCrashes
    /\ row # "unborn"
    /\ crashes' = crashes + 1
    /\ links' = [k \in DOMAIN links |-> "closed"]
    /\ conn' = 0
    /\ run' = [r \in Requests |-> IF Live(r) THEN Finish("lost") ELSE run[r]]
    /\ UNCHANGED <<row, tools, overlapped, faults, losses>>

Advance(r) ==
    \/ LoadServer(r) \/ Announce(r) \/ CloseLink(r) \/ OpenLink(r) \/ FailOpen(r)
    \/ ListTools(r) \/ ClearTools(r) \/ InsertTool(r) \/ SaveFinal(r) \/ SaveError(r)
    \/ SaveServer(r) \/ DeleteTools(r) \/ RemoveServer(r) \/ FindTool(r)
    \/ FindToolByName(r) \/ CountUsage(r) \/ CallTool(r) \/ HealthCheck(r)

Next ==
    \/ \E r \in Requests : CreateServer(r) \/ CallService(r) \/ Advance(r) \/ QueryFails(r)
    \/ LoseLink \/ Restart

Spec == Init /\ [][Next]_vars
-----------------------------------------------------------------------------
(* What the service promises *)

TypeOK ==
    /\ row \in Statuses
    /\ tools \in Seq(Tool)
    /\ links \in Seq(Clients)
    /\ conn \in 0..Len(links)
    /\ run \in [Requests -> Request]
    /\ overlapped \in BOOLEAN
    /\ faults \in 0..MaxFaults /\ losses \in 0..MaxLosses /\ crashes \in 0..MaxCrashes

\* However connects, disconnects and health checks interleave, the map never
\* holds a connection that was closed: isConnected never vouches for one
EntryNotClosed == conn # 0 => links[conn] \in {"open", "lost"}

Steady == ~overlapped /\ faults = 0
Quiet == \A r \in Requests : ~Live(r)

\* Without overlap and faults, a connected client is the map's: reconnects,
\* updates, health checks after a restart and dropped connections leak none
ClientsAccounted ==
    Steady => \A k \in DOMAIN links : links[k] \in {"open", "lost"} => k = conn

\* Between requests that neither overlap nor fail, a connection means ACTIVE,
\* and ACTIVE means a connection as long as the process has not restarted
StatusTells ==
    Steady /\ Quiet => /\ conn # 0 => row = "active"
                       /\ crashes = 0 /\ row = "active" => conn # 0

\* Without overlap no two tools of the server have the same name, although
\* copies of deleted tools are inserted again
ToolsDistinct ==
    ~overlapped => \A i, j \in Linked : tools[i].name = tools[j].name => i = j
=============================================================================
