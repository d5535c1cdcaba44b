# A TLA+ model of joyhouse-engine

joyhouse-engine is a NestJS (node.js) server: a workflow engine, a multi-agent
collaboration engine, agents, a knowledge base, MCP tool servers, tasks and
rewards, storage and accounts, over one PostgreSQL or SQLite database
(TypeORM). This directory holds TLA+ modules translated from its source, the
TLC configurations that check them on small instances, and proofs that TLAPS
checks for every instance. `PROJECT.json` maps each definition to the lines it
stands for. Paths below are relative to `src/src/` of the repository.

## 1. Inventory

What makes this code hard is the same everywhere: one thread, but every
`await` of the database or of a network call lets other requests run; a service
loads an entity, works on this copy across many awaits, and saves the whole
copy; there are almost no transactions, no version columns and no locks; and
nothing that was in memory is taken up again after a restart.

| Component | State | Operations | What is hard | What makes it correct |
|---|---|---|---|---|
| Workflow engine (`workflow/services/workflow-engine.service.ts`, `workflow/workflow.service.ts`) | `workflow_execution` and `workflow_execution_step` rows; per request an in-memory copy and a call stack | execute, continue, approve, event, cancel; a handler per node type; edits of the definition | copies go stale across awaits, nested activations unwind through catch blocks, loops re-enter the engine from inside a handler, writes fail, restarts | a RUNNING row is being run, waits fit their node, a wait is resumed once and not gone back to, a verdict is told once |
| Node bodies, parallel branches (same file, `data-processing-nodes.service.ts`) | `context.loops`, `context.parallels`, the context's variables | one handler per node type, retries, branches that are not awaited, aggregation | which edge follows from what is in the context; ends of groups reached before or after the branches failed | an execution ends, at the nodes where it should |
| Condition routing (same file, lines 1244 to 1810 and 2130 to 2312) | none beyond the node and the context | simple conditions, smart router, value matcher, default and fallback | priorities, ties, rules that throw, boundaries of similarity and ranges | the best rule wins, a fallback keeps the execution alive |
| Workflow definitions (`workflow/workflow.service.ts`), templates (`workflow/templates/*.ts`) | the definition's row; eighteen shipped templates | create, edit, publish, archive, validate | what the validation does not see | a valid template ends |
| Collaboration engine (`multi-agent/services/collaboration-engine.service.ts`, its controller) | task, room, step, evaluation and message rows | create, feedback, planning, execution, evaluation, revision, cancel | four long phases inside one request, each saving the copy it was called with; evaluations that nobody awaits, counted by a timer, cancel against a running phase | a task ends once, an active phase is being worked on |
| MCP connections (`mcp/services/*.ts`) | server and tool rows; a map of live connections and child processes | connect, disconnect, reconnect, sync, health check, call | connects, disconnects and the health check overlap on one map entry and on copies of the rows; a failing close; restarts | the entry is never a closed client, no client leaks, status and entry agree, tool names stay distinct |
| Tasks, scheduler, rewards (`task/*.ts`, `reward/*.ts`) | task and reward rows, cron jobs in memory, granted rewards | create, report, status, patch, remove; tick, boot; grant, edit and remove a reward | a tick against a removal, completion reported twice, a boot that meets an expression it cannot parse | what was completed is paid, once per report; jobs match tasks |
| Authentication, users, wallets (`auth/auth.service.ts`, `user/user.service.ts`, `wallet/wallet.service.ts`) | users, roles, permissions, user roles, directories, agents, wallets | register, login, wallet login, change and reset a password, update a profile | check-then-insert across slow hashing, whole rows saved again, partial failure | one first administrator, an answered registration is complete, a password is the last one set |
| Storage (`storage/storage.service.ts`) | the directory tree, file rows, contents on the disk | create, upload, rename, share, remove | removal against creation, versions found without a lock, whole rows saved again | rows form a tree, a row has a content of its own |
| Agents (`agent/agent.service.ts`) | agents, role cards, conversations, messages | create, update, default, cards, conversations, three kinds of chat | saved copies with relations, two updates for one default, models that fail in the middle of a chat | at most one default, rows stay attached, a chat stores and announces what happened |
| Document processing (`knowledgebase/services/document-processing.service.ts`), semantic search | storage status, chunks, counters | process, batch, reprocess, search | never reached: section 11 | not modelled |
| Execution monitor, agent gateway, collaboration gateway (`*.gateway.ts`, `workflow-realtime.service.ts`) | sockets and subscriptions in memory | connect, subscribe, disconnect | no client ever passes `handleConnection`: section 11 | not modelled |
| Tools, LLM models, HTTP client, app store, roles, CRM, notes, projects, quizzes, meditation, reply, category, relay, brain, audit, bootstrap | single rows | CRUD | nothing beyond one row | not modelled: section 11 |

How components interact: a workflow node calls tools, agents, MCP servers and
models and waits for their answer inside the request that reached it; the
engine emits `workflow.*` and `node.*` events synchronously in the process
(EventEmitter2), and the execution monitor and user listeners receive them; the
collaboration engine calls the model service and writes rows its gateway
pushes; the scheduler and MCP connections live in process memory.

## 2. Plan

| Module | What it models | Builds on |
|---|---|---|
| `WorkflowEngine` | overlapping executions of any workflow | implements `ExecutionLifecycle` |
| `WorkflowTemplates`, `WorkflowValidation`, `WorkflowWalk` | the shipped workflows, their validation, one undisturbed execution of each | each extends the one before |
| `ConditionRouting` | the choice a condition node makes, which `WorkflowWalk` leaves open | |
| `CollaborationEngine` | one collaboration task | implements `TaskLifecycle` |
| `McpConnections` | one MCP server | |
| `Tasks` | tasks of a user, their jobs and rewards | |
| `Storage` | directories, files and contents | |
| `Accounts` | registrations, logins, users; composed with `Storage`, whose rows and requests it shares | extends `Storage` |
| `Agents` | one user's agents, cards, conversations and chats | |
| `WorkflowEngineProofs`, `WorkflowRunningProofs` | theorems | `WorkflowEngine`; the second extends the first |
| `CollaborationProofs`, `McpConnectionsProofs`, `TasksProofs`, `AgentsProofs` | theorems | their component |
| `AccountsProofs` | theorems | `Accounts`, and with it `Storage` |
| `ConditionRoutingProofs` | theorems | `ConditionRouting` |

Each component has an `MC` module with its instance and one or more `.cfg`.

The plan is carried out. Of the safety properties only those of `WorkflowWalk`, about
the shipped workflows, are left to TLC; section 10 says why.

`Tasks`, `Agents` and `Accounts` state a type invariant no run lists; it is what their
proofs start from.

## 3. The workflow engine

`WorkflowEngine.tla`. The state is the database (`db`, `steps`), the requests
(`run`), the current version of the definition and two bounded counters of the
environment (`faults`, `crashes`). `owed` is a history variable: waits
announced minus resumes accepted.

* A request is a record: the method that was called, its control point (`pc`),
  the entity it loaded (`row`), the definition it loaded (`version`), the
  activations of `executeNode` that have not returned (`stack`), and for
  `handleEvent` the query result it still has to work through.
* `pc` names what the request is waiting for. `enter`: the save of
  `currentNodeId`; `create`: the insert of the step; `body`: the node's handler;
  `bodysave`: the save inside a handler; `complete`: the save of the COMPLETED
  step; `merge`: the save after the result was merged; `finish`: the save of
  COMPLETED at a node without edges; `catch` and `fail`: the two saves of a
  catch block; `return`: a callee returned; `resume` and `cancel`: the save of a
  resumed or cancelled execution; `events`: between two executions of
  `handleEvent`.
* An action is what the code does from one await to the next. The write that
  was pending happens, then the synchronous code changes the copy.
* `executionRepository.save` writes the columns of the copy that differ from
  the stored row, so afterwards the row equals the copy: `Save`. TypeORM finds them
  by reading the row in a query before the update; the two queries are one step, so
  that what another request writes between them is left out.
* `context` is one JSON column. The model keeps the two parts that control
  depends on or a caller cares about: the iteration counters of loops, and which
  request's payload was merged last (`answer`). Payloads and results are merged key by
  key, so that a later answer (lines 2468, 2505, 2547) or a node's result (291) may
  replace what an answer said; that it stays is therefore not claimed. `answer` tells
  which answer the stored row comes after.
* Handlers that only compute or call out (tool, agent, script, delay, mcp_tool,
  llm, data nodes, condition, intent_recognition) either give a result or
  throw; which edge a condition or routing node takes is an input.
* `WriteFails`: any pending write may be rejected by the database; the
  exception goes where the code's try blocks send it. `Crash`: the process
  ends; no code takes up RUNNING rows at boot, so they stay RUNNING, which is
  why `RunningIsDriven` speaks of histories without a restart.
* `UpdateWorkflow`: a definition may be edited while executions run and wait.
  `validateWorkflow` exists but nothing makes a caller use it, so edits may be
  unsound; a request keeps the version it loaded.

`ExecutionLifecycle.tla` is what a caller who sees only rows may rely on: an
execution starts once, waits only while running, takes one new answer per wait
and does not go back behind it, ends once, and changes its verdict only by a cancel.
`WorkflowEngine` implements it under `status <- db[e].status, answer <-
db[e].answer` as long as requests do not overlap (`Overlap = FALSE`). With
overlap it does not, in three ways: a cancelled execution is set RUNNING again
by the request that executes it (`engine_cancel`); the request that announced a
wait saves its stale copy over the answer (line 294); and two answers to one wait
that are both loaded before either is saved (line 2463) both run the rest of the
workflow. That is why `ResumedOncePerWait` and `LifecycleRefined` are checked
only without overlap.

| Run | Instance | Shows |
|---|---|---|
| `engine_overlap` | 3 overlapping requests, 2 executions, an event, then an approval; one failing write, one restart | `handleEvent` works through a snapshot while others move on, yet no interleaving leaves a RUNNING row without a request (while nothing failed), a wait away from its node, or two verdicts from one request |
| `engine_serial` | 4 requests that do not overlap, 4 versions of the definition of which 3 are unsound, one restart | the abstract life cycle, one resume per wait, no save that goes back behind the last answer, types |
| `engine_live` | 3 overlapping requests, a loop around a wait, then a task that calls out | running steps have an owner, the loop keeps its bound, every request is answered unless a tool or an agent never answers |
| `engine_cancel` (violation) | 2 requests | a cancelled execution is set RUNNING by the request that executes it; the controller has answered that it is cancelled |

Bounds. Three requests are enough for one that reached a wait and still
unwinds, and two that race to answer or cancel it; two executions are enough
for an event loop that works on one while another moves. Two iterations reach
the first, the last and the forbidden iteration of a loop. `SYMMETRY` over
requests is used where only invariants are checked. The runs set
`CHECK_DEADLOCK FALSE` because a finite set of requests ends.

Fairness. `FairSpec` asks weak fairness of `Advance(r)` for every request:
node.js resumes a chain of awaits when its promise settles, and database calls,
delay timers and the model and MCP calls of a workflow, which race a timer, do.
The calls of tool and agent nodes have no time limit, so `CallsOut` is excepted
and `RequestsAnswered` is stated for requests that such a call does not hold for
ever. No fairness on beginning a request, on failures, restarts or
edits, and no strong fairness.

## 4. The collaboration engine

`CollaborationEngine.tla` is one task: its row (`task`), its steps, the
evaluations counted over all its rounds (`votes`), the requests (`run`) and the counters
of failing queries and restarts. `orderly` is fixed at the start: in an orderly
history no request begins before the last was answered and no query fails. The
constant `Conduct` says which histories a run has, `Hasty` which requests begin
whatever else is running in the others.

* A request (`createTask`, `handleRequirementFeedback`, `cancelTask`,
  `requestEvaluation`, which inserts an evaluation that nobody performs) is a chain
  of awaits over its own copy of the task; `pc` names the pending await, `stack`
  the phases (`executeRequirementAnalysis`, `executePlanning`, `executeTask`)
  that have not returned. A revision calls `executeTask` from inside the
  evaluation of the last execution, so the stack grows with every round.
* A phase without an agent throws before its try block (`SelectAgent`), so the
  caller's catch, or nobody, sees it; everything later is caught by the phase
  itself, which fails its step, saves FAILED, reports it and returns normally.
  An error inside that catch block goes to the enclosing phase, which reports
  again: `InCatch` and `Throw`.
* Evaluations are started, not awaited: `PerformEvaluation` is an action of the
  environment. Five seconds after the last was started `CountVotes` reads all
  evaluations of the task, whatever their round and status.
* `ReadThreshold` takes both outcomes of the query at line 569, which names the
  JSON column `settings` as a relation: the rate is compared with the room's
  threshold, or the query is rejected and the phase's catch runs.
* `QueryFails`, `EvaluationLost`, `Crash`: any pending query may be rejected, an
  evaluation may be unable to store even its failure, and a restart leaves the
  row as it is, since no code looks for unfinished tasks at boot.

`TaskLifecycle.tla` is the life of a task for somebody who sees its row:
analysed until confirmed, planned, executed, evaluated, at most `MaxRetries`
revisions, ended once. `LifecycleRefined` maps it to the row's status and
retries.

| Run | Instance | Shows |
|---|---|---|
| `collab_overlap` | 3 overlapping requests, 2 retries, one evaluator | no row stays in an active phase without a request, open steps have one owner |
| `collab_faults` | histories in which 2 hasty requests overlap, with two failing queries; and orderly ones with 3 requests; both with 2 evaluators that may never answer, missing agents and one restart | types; one verdict survives failures inside catch blocks; every request is answered although evaluators may never answer, unless a model never answers it; in the orderly histories the row implements `TaskLifecycle` |

Bounds. Two retries give a first round, a revision and the last, refused one;
two evaluators give rounds that are split; three requests are a creation, a
feedback and a second feedback or a cancel next to it. Two failing queries are
what a failure inside a catch block takes.

Fairness. As for the engine: weak fairness per request, except while it waits for
a model, because `LlmService` sets no time limit on its HTTP calls.
`RequestsAnswered` says so: a request that is not stuck in such a call for ever is
answered. `PerformEvaluation` gets no fairness, since nothing awaits it.

Seen while modelling, outside the runs: after a rejected round a revision that
all its evaluators approve is rejected, because the earlier round's evaluations
are counted again (line 558), as are those that `requestEvaluation` inserted; a
cancel is overwritten by the phase
that holds a copy (controller, line 315); two feedbacks loaded before either is
saved both start a phase (lines 269 to 275); the comment above
`waitForEvaluations` says that it waits for all evaluations (line 549) and it
waits five seconds; the evaluation prompt asks for `PASS` while the enumeration's
value is `pass` (lines 517 and 812), so a model that follows the prompt to the
letter never approves.

## 5. The MCP connections

`McpConnections.tla` is one MCP server: the status of its row, the rows of its
tools, every client this process has created (`links`), the one entry of the
`connections` map (`conn`), and the requests: the calls of `McpService` and the
ticks of its health check.

* A request has a `plan`, the methods its operation calls in turn (`update` may
  disconnect and connect, `reconnect` does), and a copy of the row with its tools.
* `Save` is TypeORM's `save` of such a copy: the status is overwritten, tool rows
  that the copy does not list lose their server, a removed row is inserted again.
* `conn` is what `isConnected` looks at. It is read before an await and set or
  deleted after one: `CloseLink` deletes whatever entry is there by then,
  `OpenLink` overwrites it. The delete follows the await of `close` (line 114); a
  client counts as closed when `close` has answered, so that both are one step.
  Until then a call through the entry may fail, as any call may.
* `LoseLink`: the server drops the connection. Nothing listens for that, so the
  entry stays. `Restart` empties the map and leaves the rows.
* `ListTools` to `InsertTool` are `syncServerTools`, which swallows its errors.
* One failing query may be a failing `close`, which leaves client and entry.

`mcp_connections` checks three overlapping requests with one failing query, one
dropped connection and one restart. Types and `EntryNotClosed` hold for every
interleaving. The others are about what overlap and faults do break, so they are
stated for histories without: `overlapped` is the history variable that tells.
Within them several requests, restarts and dropped connections still follow one
another. One tool suffices: the tools of one synchronisation have distinct
numbers by the loop, and a duplicate is the same tool inserted twice. No
liveness is stated: closing a client and listing tools may wait for a server that
never answers.

Seen while modelling: `connectServer` ends with a save of the copy it loaded
before it listed the tools (line 136), and so takes the tools it has just
inserted away from the server, which then lists none; the same save brings a
server back that was removed meanwhile. Two concurrent connects both pass the
test at `mcp-client.service.ts:38` and the first client is never closed. A child
process spawned for a client that then fails to connect is not killed (the model
counts that client as closed). `isConnected` never becomes false, so the health
check does not reconnect a dropped connection, which
`docs/MCP_INTEGRATION.md:292` says it does. `usageCount` loses updates; the model
leaves the number out and keeps the write.

## 6. Tasks, scheduler and rewards

`Tasks.tla` is the task group of one user. Its state: the rows, the cron jobs
this process has registered (`jobs`), the executions of those jobs (`tick`), the
rewards granted per task, the one reward the templates name, and the requests.

* `UserTaskService`: `ReadTemplates`, `InsertTask` (creation, item by item),
  `ReadForReport`, `FindReward`, `GrantReward`, `SaveTask` (`updateTaskProgress`).
* `TaskService`: `ReadForStatus`, `ReadForPatch`, `SavePatch`, `ReadForRemoval`,
  `RemoveTask`. A PATCH saves the columns its body names: TypeORM skips what is
  undefined, so that a row that was removed comes back only with a whole body.
* `RewardService`: `ReadReward`, `SaveReward`, `AwardReward`, `RemoveReward`.
* `TaskSchedulerService`: `FireJob`, `StartTick`, `FinishTick`, `CancelTick`; the
  updates in them name only the status and do nothing when the row is gone.
  `Restart` drops what was in memory and loads the PENDING cron tasks again, in an
  unknown order up to the first expression that cannot be parsed.

| Run | Instance | Shows |
|---|---|---|
| `tasks` | 3 overlapping requests, 2 overlapping ticks, two tasks (a rewarded cron task, and one whose expression cannot be parsed), one failing query, one restart | what a report completed has been paid, at most once per report; a job outlives its task only after a PATCH; after a boot that parsed everything each waiting cron task nobody touched has its job; while requests do not overlap, removed tasks stay removed, also from a tick under way |

Bounds. Two tasks are a job with a job beside it, and an expression that ends the
load; two ticks are one job's run over its last one; three requests are two
reports or patches around a removal. `overlapped`, `touched`, `booted` and `loaded`
are history variables that say for which histories a property is stated.

Seen while modelling: two reports of 100 pay twice, since nothing ties a grant to
its task; a cancellation between the start and the end of a tick is overwritten
(`task-scheduler.service.ts:206`); a cron task has a job only after the next boot, and one whose tick
ran once is COMPLETED and never scheduled again; one invalid expression keeps all
tasks after it from being scheduled; a task whose type was patched leaves its
job behind; a reward that is not active is granted for a completed task all the
same; `RewardService.update` inserts a removed reward again;
`removeTaskItem` assigns undefined, which `save` skips; `POST /tasks` always fails
(the row gets neither id nor creation date).

## 7. Accounts and storage

`Storage.tla` is the storage service: directory and file rows, the contents on
the disk, and calls of every route of the controller that changes them.
`Accounts.tla` extends it with registration, wallet login, login, passwords and
profiles, and composes the two: registration and login create directories in
the same rows, requests of both kinds interleave, and a user who has an agent may
call the storage.

* A registration walks through `CountUsers`, `SaveRole`, `SaveRoles`,
  `SavePermission`, `SaveUser`, `AssignRole`, `TestDir` and `SaveDir` twice,
  `LinkDirs`, `CreateAgent`; a wallet login through `FindUser`, `SaveUser`,
  `CreateWallet` or `ensureUserDirectories` (`FindDir`, `TestDir`, `SaveDir`).
  Whatever was read before an await stays as it was read.
* `user.username` and `role.name` are the only unique columns: `SaveUser` and
  `SaveRole` fail on them. `SaveUser_Overwrites` and `SaveRole_FindsFirst` show what
  happens without.
* A password is the request that set it. `SavePassword` is an update of one
  column; `LinkDirs` and `SaveProfile` save a whole row that was read before. A
  profile's body may hold `home_dir_id` and `share_dir_id` (`user.dto.ts:51`), which
  `Object.assign` puts into the row (`user.service.ts:53`): `updateDirs` is an update
  whose body does, `updateProfile` one whose body does not.
* `Upload` asks for no directory row: neither the controller (228) nor `saveFile`
  (`storage.service.ts:32`) tests the directory that is named, as `createDir` does.
* `QueryFails` ends a request anywhere, as does the end of the process: rows stay.
* Removal of a directory is a work list (`todo`): the directories inside, one after
  the other, the files, the row; a content is deleted before its row.

| Run | Instance | Shows |
|---|---|---|
| `accounts` | 3 overlapping requests of two names, from an empty database or after a registration, two failing queries | one administrator, and only with all roles and permissions; an answered registration left everything, unless a profile's body gave other directories, and is the only one of its name; a password is lost only to saves of rows read before; each directory once for a name whose requests did not overlap, whatever failed; after calls that did not overlap a tree in which no directory is an orphan, and no file but one uploaded to a directory that was not there, and contents accounted for; contents kept and never shared, whatever overlaps |

Bounds. Two names are two users who register at once, each believing to be the
first; three requests are two of them with a third that logs in, edits or stores
beside them. One permission per role stands for twelve and two: `OneAdministrator`
asks for all of them, and a failure can be before, between and after the two.

Seen while modelling: a profile update undoes a change of the password made since
it read the row (`user.service.ts:53`), and the links to the directories of a
registration under way, which its body may also name, as anything; a first wallet login is always answered with an error
(`auth.service.ts:305` declares the user it has saved in an inner scope, line 317
reads the outer one), and on PostgreSQL `wallet.userId` is too short for a uuid; a
first registration that failed after its roles makes every later first
registration fail; one that failed after its user is never completed; a wallet's
user who is the first has the role of an administrator but not `isAdmin`;
`RoleService.addPermission` writes a column that does not exist. In the storage:
an upload without a directory is rejected after its content was written, and one
to a directory that is not there is stored, its file outside the tree; the
content of an upload stored as a new version stays without a row; two uploads may
find the same version; a rename tests the siblings of every user, itself too; `dir/tree` is
shadowed by `dir/:id`; a share or rename brings a removed row
back; a directory or file put into a directory while that is being removed stays
without a parent, since the tree is walked with awaits between (line 196) and no
foreign key forbids it.

## 8. Agents

`Agents.tla` is `AgentService` for one user: agents, which of them is the
default, role cards, conversations and their messages.

* `SaveAgent` is TypeORM's save of an agent that was loaded with a relation: every
  column becomes the copy's, a missing row is inserted without its user, and the
  conversations or cards are attached and detached until they are the copy's.
  `FoundAgent` and `FoundWithCards` say which relation was loaded; `isDefault` comes
  with a creation only, since `UpdateAgentDto` (`agent.dto.ts:145`) has no such field
  and the whitelist of the `ValidationPipe` (`main.ts:62`) strips it; update,
  `switchRole`, `addRoleCardToAgent`, `removeRoleCardFromAgent` and
  `switchAgentRoleCard` differ in what they change before the save.
* `ClearDefaults` and `SetDefault` are the two updates of `setDefaultAgent`.
* A chat stores the user's message, asks the model (`RecogniseIntent`), executes
  suggested actions, talks, calls a tool, and stores the reply; `started` and
  `events` are what it announces. The three kinds of chat share what the code
  shares.
* Foreign keys stop the removal of an agent with conversations and of a conversation
  with messages, and an insert that names a row that is gone.

| Run | Instance | Shows |
|---|---|---|
| `agents` | 3 overlapping requests, 3 agents, 2 conversations, one card, up to 2 actions per chat, one failing query or call | two defaults, a detached conversation or message, or a card without its user come only from the pairs of operations the properties name; an answered chat left both messages, a failed one never the assistant's; what announced its start announces one end |

Bounds. Two defaults need two agents, made by two calls, and a third agent lets
`getDefaultAgent` make one beside them. A detachment takes one row and a copy
loaded before it was made. `overlaps`, the pairs of operations that overlapped, is
a history variable.

Seen while modelling: `removeRoleCard` says that it clears the activated card
(line 1172), but the undefined it assigns is not saved, so the agent keeps a
current card that is gone; `addRoleCardToAgent` replaces the cards an agent had;
the replies of streamed chats are never stored; the fallback of
`chatWithRoleCard` (line 1253) cannot be reached; nothing calls
`generateKnowledgeEnhancedResponse`.

## 9. Workflows that are shipped, and the choice of an edge

`WorkflowTemplates.tla` is the eighteen templates as data: nodes with the settings
that decide the way of an execution, and the edges in their order.
`WorkflowValidation.tla` is `validateWorkflow` on them. `WorkflowWalk.tla` executes
one undisturbed: one action per kind of node, what it writes into the context
(`known`, the names that are defined), how often it retries, when it throws, and
which edges may follow; waits and their answers; loops with their exits; the start
of parallel branches, their failing one by one, and the aggregation at the end.

| Run | Instance | Shows |
|---|---|---|
| `templates` | every template, every input and answer, every failing call; loops cut at 12 iterations | every execution ends, but for the template whose loop leaves by the edge back to its own start; it completes, fails by itself and passes only where `OutcomesAccounted` says; a valid definition never meets the end of a loop or a group that was not started |

`WorkflowWalk` has weak fairness on its next step: calls return or time out and
waits are answered in time, for otherwise nothing ends. `LoopBound` replaces the
1000 iterations of `loopExample`: what an iteration does depends on whether it is
the last, not on its number.

What the run says of the templates, each a place in `Ends`, `Traps` or `Unreached`:
agent nodes always fail, because they are called without a user; parallel branches
always fail, because `executeBranchNode` has no case for their type
(`workflow-engine.service.ts:2837`), so `fail_fast` fails the execution and
`continue_on_error` goes on along the first branch alone; `loopExample` does not end on "stop",
which README.md:420-430 and its own description say it does; conditions of routers and loops
that read names nobody defines are false; the clarification of
`intentRecognition` and some branches of other templates are never reached; an
aggregation script of `mcpParallel` does not compile. `validateWorkflow` accepts
all of them but `btcTrading` and `enhancedCondition`.

`ConditionRouting.tla` computes what `WorkflowWalk` leaves open at a condition node:
`executeConditionNode` rule by rule (`EvaluateRule`), the sort and choice
(`SelectTarget`), simple conditions, missing fields, and `continueToNextNode`
(`Continue`), with the value looked up in the context by its path
(`NestedValue`). Values are what JavaScript makes of them: a text, a truth value and
a number, with their own properties, which of a text or an array are its `length`
and its indices too. A score of a range is rounded down to a whole `Unit`, so that
two that differ by less may tie where the code tells them apart; at the run's
tolerance it is exact. Texts are sequences over four letters, one of them an upper-case one
and one that breaks a regular expression, at most `MaxText` of them; other expressions are tested by inclusion.

| Run | Instance | Shows |
|---|---|---|
| `routing` | condition nodes of every kind, lists of up to 3 rules out of 12 that match, tie, throw, are disabled or name no node; value matchers with lists of up to 2 of 8, and single ones along paths that are found and not; six lists of edges, six settings of default and fallback | the node chosen is that of the one rule no other beats, or the default; similarity is the edit distance, given a second definition by single edits; with `enableFallback`, a default and edges that exist a condition node never fails an execution |

The calls that evaluate a list have no concurrency: the state is the progress
through it. Three rules are what it takes for an order to be unstable and for a
throwing or disabled rule to stand between two that tie.

Seen while modelling: `enableFallback` left out counts as set in one place (1250) and
as not set in the other (2294); only the first of default and fallback is tried;
an expected value or tolerance of 0 never matches a range; a weight of 0 counts as 1;
a `customMatcher` that answers `{matched: false}` counts as a match (1503); the
score of a value rule is that of its first matching value, not its best; the
builtins and the fuzzy example of the guides do not behave as they say.

## 10. What is proved, and what is only model-checked

Everything below holds for every value of the constants: any number of requests,
agents, tools or tasks, any graph, any number of failing queries and restarts. The
named assumptions on the constants (`GraphAssumption`, `CollaborationAssumption`,
`McpAssumption`, `TasksAssumption`, `AgentsAssumption`, `AccountsAssumption`,
`RoutingAssumption`) only type them; `TasksAssumption` also says that the set of
requests is finite, since a theorem counts rewards. A property that holds only for some histories says so
itself, through history variables and counters (`overlapped`, `faults`, `crashes`):
its theorem is then about every behaviour, and the condition is part of what is
proved. Four theorems of the workflow engine have a hypothesis on a constant
instead, named below.

A proof goes action by action: a lemma says what an action makes of its request
and of the rows, lemmas about the operators the actions share (`Enter`, `Throw`,
`Return`, `Become`, `Goto`, `Answer`...) carry it, and one lemma per conjunct of the
invariant uses only those.

### The workflow engine

`WorkflowEngineProofs`: `TypeCorrect` and `WaitingCoherent` (`WaitingAtWaitNode`).
`IInv` adds to the types that every copy and every row is coherent, and what a
request's copy and stack look like at each control point: inside an activation
the stack is not empty, until a node's body the copy is RUNNING and stands at the
node on top of the stack, a resumed copy stands at a waiting node, the saves
that end an execution hold the status that ends it. A save publishes the copy,
so that the invariant about rows is only as good as the one about copies.

`WorkflowRunningProofs`, for any number of overlapping requests:

* `RunningDriven` (`RunningIsDriven`), in every sound definition while nothing
  fails. `Driven`: for a RUNNING row some request is at a point where it will still
  save. A request leaves those points only with a save of a copy that is not
  RUNNING, and nothing but a request at such a point saves a RUNNING copy.
* `VerdictOnce` (`OneVerdict`), while no write fails, restarts included. `VInv`: a
  request that has told the end of its execution no longer holds a RUNNING copy and
  is at no point where an exception is caught. So the catch blocks of the
  activations around it, which check for RUNNING, stay silent.
* `StepsOwned` (`RunningStepOwned`). `FInv`: every activation on every stack has its
  step from `CreateStep` on, no two activations of any request share one, a step
  is no longer RUNNING once its activation has merged or is suspended, except
  inside a `loop_end`. The distinctness must cover completed steps too, or a return
  could hand a RUNNING step to two activations.

* `LoopsBounded` (`LoopWithinBounds`), in every graph whose loops are closed
  (`ClosedLoops`): a loop is left, and begun again, at its `loop_end` only. Nothing
  in the code enforces that. Only `loop_end` tests the counter, so that a definition
  with an edge back to its `loop_start` counts without limit. Whatever overlaps,
  fails, restarts or is edited. `LInv`: a copy has counters only of loops it stands
  in; a counter is below its limit before the `loop_start` counts, and 0 after the
  `loop_end` lets go; a call that returns holds no RUNNING copy, or the `loop_end` that
  called it would go on with a counter that grew meanwhile. Waiting rows keep all
  this, so that a resumed copy has it again.

The last part of `WorkflowRunningProofs` is about requests that do not overlap
(`~Overlap`, the constant that keeps a request from beginning while another works). Section 3 says how stale
saves break both properties without it. Edits, failing writes and restarts
are unbounded.

* `OneResumePerWait` (`ResumedOncePerWait`), from `SInv`: the live request's copy has
  the answer of its row, or its own until that is saved, and before it is saved no row
  holds it; a copy that waits has announced it, except where its save is still to
  come or failed; and what an event has still to resume is as its query found it.
* `LifecycleImplemented` (`LifecycleRefined`), with `MaxFaults = 0` besides: every step
  is a step of `ExecutionLifecycle` or a stutter. `Follows` adds what the row's status
  is, compared with the copy's, at each point. With failing writes it is false: a
  write that fails after COMPLETED was saved turns the execution FAILED.

### The collaboration engine

`CollaborationProofs`, for any `MaxRetries` and any number of overlapping requests:

* `TypeCorrect` and `VerdictOnce` (`OneVerdict`), with failing queries and restarts.
  `IInv`: a request that is not answered has reported nothing; at each point its
  copy has the status of that point; and a task that was not rejected for the last
  time can be rejected once more (`Spare`), which keeps the counter of retries, and
  with it the stack of revisions, in its bounds.
* `ActiveDriven` (`ActiveIsDriven`), while no query fails and every role has an agent.
  `Driven` covers PENDING too, though the property does not: `createTask` announces
  a pending task before it starts the analysis.
* `StepsOwned` (`OpenStepOwned`). `Owned`: a step in progress is the top of one stack,
  the steps on all stacks exist, no two requests share one.
* `LifecycleImplemented` (`LifecycleRefined`), in orderly histories, restarts included.
  `TakeTurns`: one request at a time, whose copy is the row, or one move of
  `TaskLifecycle` ahead of it at the points before a save.

### The MCP connections

`McpConnectionsProofs`:

* `TypeCorrect`. `IInv`: a request's plan is not empty while it runs, the method at
  its head fits the control point, and what follows the first is a disconnect or a
  connect. Without it `Head(plan)` means nothing.
* `EntryNeverClosed` (`EntryNotClosed`), whatever overlaps and fails. `CInv`: a client that
  is being opened belongs to one request and is still marked as opening, and only
  clients that were in the map are closed. Whoever closes one deletes the entry in
  the same step, as section 5 says.
* `NamesDistinct` (`ToolsDistinct`), while requests do not overlap. `NInv`: the tools a
  request loaded had distinct names and still have; those it inserts come after
  those it has inserted; the tool `executeToolByName` found is among those it
  loaded, so that saving it again, after its own connect deleted it, makes no second one.
* `NoClientLeaks` (`ClientsAccounted`) and `StatusTruthful` (`StatusTells`), for requests that
  neither overlap nor fail. `AInv` says at each point what is still to be saved,
  opened or closed before the entry and the status agree.

### Tasks, agents, accounts

`TasksProofs`, each for overlapping requests, failing queries and restarts except the last:

* `RewardsPaid` (`RewardsAccounted`): a copy with all the progress is saved only when the
  task was granted something, and grants are at most the reports past that insert.
* `JobsMatched` (`JobsBacked`), `SchedulesComplete` (`ScheduleComplete`). `IInv` states them for the
  copies that will be saved as for the rows; a task under removal has no job already.
* `RemovedStays` (`RemovedStaysRemoved`, an action property), while requests do not
  overlap: the row of a task that a request holds is there (`InTurn`).

`AgentsProofs`. `IInv` says what a request carries at each point, that whatever exists
was made, and that two requests under way are recorded as overlapping.

* `DefaultIsOne` (`OneDefault`): a copy that is to be saved has the flag its agent has,
  and where a default is about to be written there is none.
* `RowsKept` (`KeptAttached`): the sets of conversations, messages and cards a copy holds
  are those the rows say, until a pair of operations the property names overlaps.
* `ChatsLeaveBoth` (`ChatsAccounted`), whatever overlaps and fails: what a chat has stored,
  by how far it is.

`AccountsProofs` is about registrations, logins, users and storage at once. `IInv` says
which points the requests of each service may stand at, and what they hold there.

* `AdministratorIsOne` (`OneAdministrator`), whatever overlaps and fails. `AInv`: one
  registration at most claims the administrator's role, since role names are
  unique and the second insert fails; the permissions stored are those before its
  next one; only a claim that stored everything makes an administrator.
* `PasswordsKept` (`PasswordKept`, an action property), whatever overlaps and fails.
  `PInv`: as long as nobody shared the name, the password a copy was read with is
  still the row's.
* `RegistrationsOnce` (`RegisteredOnce`), whatever overlaps and fails. `GInv`: one holder of
  each name, what it has stored by how far it is, and a copy without the ids of the
  directories was read while a registration ran, or was given others by the body of a
  profile's update, which the property exempts. `RInv`: its directories are there
  while nobody used the storage.
* `DirsOnce` (`DirsDistinct`). `DInv`: a storage call that overlapped with none is alone, and
  what a request has tested (no such directory) holds until it writes.
* `FilesKeepContents` (`FilesBacked`), whatever uploads and removals overlap, while no query
  fails and nothing is shared. `FInv`: a path
  belongs to one upload, the content is on the disk before the row and until the row's
  removal, and one upload stores one row.
* `SerialStorageSound` (`StorageSound`), as long as no requests overlap and no query
  fails. A file is in a directory that is there, or was uploaded to one that was not
  (`Stray`). `SInv`: the storage call is alone, so that what it found still holds
  (`Found`); each file is in a directory, on the work list of the removal, or stray (`Placed`); contents are written by uploads only (`Written`); and a removal's work list
  has, before the row of a directory, everything that is still in it (`Emptied`), so
  that a row goes only when nothing names it as its parent.

### Condition nodes

`ConditionRoutingProofs`, for any rules, scores, contexts and edges:

* `BestRuleChosen` (`BestRuleWins`). What `executeConditionNode` collects are the
  enabled rules that match, in their order; the comparison of each strategy is a
  strict weak order on numbers, hence the head of the insertion sort is beaten by
  none and is the first of its equals.
* `SimilarityIsEdits` (`FuzzyIsEditDistance`), for texts of any length and any threshold.
  The table of `calculateStringSimilarity` is never too small: changing, adding or
  removing a letter of the second text changes no cell by more than one
  (`ReplacedClose`, `InsertedClose`, by induction over the cells), so n edits make a
  distance of n at most. It is never too large: every cell is the length of a path of
  edits between two prefixes, none of whose texts is longer than these (`CellIsPath`).
* `FallbackSuffices` (`FallbackHolds`). An error can only come from a rule without a node,
  or from no edge at all; with a default and edges that exist neither is reached.

The paths, the edit distance and the sort are recursive functions, and no backend
instantiates the library's induction theorems. The module derives what it needs
from least elements: a nonempty set of naturals has one, so a set of naturals that
is closed under successor is all of them (`Induction`), and functions computed
step by step exist (`Recursion`) and keep their types (`StaysIn`).

### Only model-checked

* Liveness (`RequestsAnswered` of both engines, `WalkEnds`): out of TLAPS's reach.
* `OutcomesAccounted` and the types of `WorkflowWalk`: facts about the shipped workflows,
  which TLC checks completely, since they are constants.

## 11. What is not modelled, and why

* Document processing and search: `knowledgebase.controller.ts:97` stores the
  uploaded file without the user its row must have, so that the insert fails and
  no document is ever processed; the route that reprocesses is a stub (line 347).
* Execution monitor, collaboration gateway: their guards run for messages, not for
  connections, so `handleConnection` never finds a user and disconnects every
  client. Agent gateway: `handleConnection` does not register the client, so every
  subscription is refused. None has a state beyond that.
* The bodies of parallel branches behind the switch that throws (section 9).
* Tokens: they are signed and verified without state; no route blacklists one, so
  that a logout changes nothing. `setPasswordBySignature`, `changePassword` and
  `delete` of `UserService` and `renameFile` and `updateDir` of the storage have no route.
* User settings and the jail, groups and items of tasks, applications, roles of users,
  tools, models and the CRUD of the content services: rows of their own that no
  other operation reads before an await and writes after it.
* Prompts, messages, formatting, embeddings: results are inputs of the models.
* Several processes on one database: the maps of connections and jobs are those of
  one process, as the code is deployed.
* Database transactions: the code uses none here, so a query is one atomic step. A
  `save` of an entity is more than one, a `SELECT` and then an `UPDATE` or `INSERT`
  (with one for each related row); the models take it as one step, so what another
  request writes between these queries is left out.
