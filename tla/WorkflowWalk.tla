------------------------------ MODULE WorkflowWalk ------------------------------
(***************************************************************************)
(* One execution of a template: what WorkflowEngineService does at each    *)
(* kind of node and which edge it follows.  WorkflowEngine models how      *)
(* executions overlap and abstracts the workflow; here it is the reverse:  *)
(* one undisturbed execution, the workflows those the repository ships.    *)
(*                                                                         *)
(* The context is abstracted to the set of names that are defined in it:   *)
(* a condition that reads an undefined name throws, which counts as false, *)
(* and the outcome of any other is open.                                   *)
(***************************************************************************)
EXTENDS WorkflowValidation

CONSTANTS
    Walked,         \* the templates to execute
    LoopBound       \* no loop has more iterations than this

ASSUME WalkAssumption == Walked \subseteq DOMAIN Templates /\ LoopBound \in Nat \ {0}

VARIABLES
    template, node,     \* the template and execution.currentNodeId
    status,             \* execution.status
    known,              \* the names defined in execution.context
    attempts,           \* failed attempts at this node
    iteration,          \* context.loops: currentIteration, 0 without an entry
    group,              \* context.parallels: is there an entry, its failedBranches
    faulted             \* history: a call failed for good or its result was unusable

vars == <<template, node, status, known, attempts, iteration, group, faulted>>

Waits == {"waiting_input", "waiting_event", "waiting_approval"}
Ended == {"completed", "failed"}
NoGroup == [open |-> FALSE, failed |-> {}]

Here == Nodes(template)[node]
Out == Edges(template, node)

\* The names a condition of the template reads
ConditionNames(t) ==
    UNION UNION {{e.reads : e \in {Edges(t, n)[i] : i \in DOMAIN Edges(t, n)}} :
                 n \in DOMAIN Nodes(t)}
\* ... and those the exits of its loops read
ExitNames(t) == UNION UNION {Nodes(t)[n].exits : n \in NodesOf(t, "loop_start")}
\* What a user may put into the input of an execution, or answer
Names(t) == ConditionNames(t) \cup ExitNames(t)

\* executeWorkflow: the variables of the workflow, then the input
Init ==
    /\ template \in Walked /\ node = "start" /\ status = "running"
    /\ \E input \in SUBSET Names(template) : known = Templates[template].variables \cup input
    /\ attempts = 0 /\ iteration = 0 /\ group = NoGroup /\ faulted = FALSE

-----------------------------------------------------------------------------
(* continueToNextNode *)

NoEdge == "no edge"

\* evaluateCondition: an undefined name throws, which is false.  Only asked
\* when the edges before this one were false
MayBe(e, truth, names) ==
    CASE e.condition = "true" -> truth
      [] e.condition = "reads" -> truth => e.reads \subseteq names
      [] e.condition = "otherwise" -> truth = (e.reads \subseteq names)
      [] OTHER -> ~truth

\* The targets of the first edge that is true
ConditionTargets(names) ==
    {Out[i].target : i \in {i \in DOMAIN Out :
        /\ MayBe(Out[i], TRUE, names)
        /\ \A j \in 1..(i - 1) : MayBe(Out[j], FALSE, names)}}
    \cup {x \in {NoEdge} : \A i \in DOMAIN Out : MayBe(Out[i], FALSE, names)}

\* A router's choice: an edge to it, an edge `selectedNode', or straight to it
RouterTarget(choice) ==
    LET selected == {i \in DOMAIN Out : Out[i].condition = "selectedNode"} IN
    IF selected = {} \/ \E i \in DOMAIN Out : Out[i].target = choice
    THEN choice
    ELSE Out[CHOOSE i \in selected : \A j \in selected : i <= j].target

\* generateSuggestedActions: those of the intents that are of a category
SuggestedActions(intents) == SelectSeq(intents, LAMBDA i : i \in Here.targets)

\* The first of them leads to its own target, with or without an edge; without one,
\* or with parameters missing, it is the first true condition, else the first edge
IntentTarget(intents, needsClarification) ==
    LET suggested == SuggestedActions(intents) IN
    IF suggested # <<>> /\ ~needsClarification THEN {Head(suggested)}
    ELSE {IF x = NoEdge THEN Out[1].target ELSE x : x \in ConditionTargets(known)}

Fail(fault) ==
    /\ status' = "failed" /\ faulted' = fault
    /\ UNCHANGED <<template, node, known, attempts, iteration, group>>

\* The node's result goes into the context and the walk goes on: without an edge
\* it is completed, with none that holds it fails
Leave(names, targets) ==
    \/ /\ Out = <<>>
       /\ status' = "completed" /\ known' = known \cup names
       /\ attempts' = 0 /\ UNCHANGED <<node, faulted>>
    \/ /\ Out # <<>>
       /\ \E x \in targets \ {NoEdge} : node' = x
       /\ status' = "running" /\ known' = known \cup names
       /\ attempts' = 0 /\ UNCHANGED faulted
    \/ /\ Out # <<>> /\ NoEdge \in targets
       /\ status' = "failed" /\ known' = known \cup names
       /\ UNCHANGED <<node, attempts, faulted>>

FirstEdge == IF Out = <<>> THEN {} ELSE {Out[1].target}

At(kinds) == status = "running" /\ Here.kind \in kinds

-----------------------------------------------------------------------------
(* executeNode: one action per kind of node *)

\* Nodes whose result no condition reads
Pass ==
    /\ At({"start", "end", "delay", "parallel_branch"})
    /\ Leave({}, FirstEdge)
    /\ UNCHANGED <<template, iteration, group>>

\* The agent is called without a user: it is never found
RunAgent == At({"agent"}) /\ Fail(FALSE)

Calls == {"tool", "mcp_tool", "llm", "intent_recognition"}

\* Plausible bug: one attempt too many
CallFails_Again ==
    /\ At(Calls)
    /\ IF attempts > Here.attempts
       THEN Fail(TRUE)
       ELSE /\ attempts' = attempts + 1
            /\ UNCHANGED <<template, node, status, known, iteration, group, faulted>>
\* A failed attempt: again, or for good
CallFails ==
    /\ At(Calls)
    /\ IF attempts + 1 = Here.attempts
       THEN Fail(TRUE)
       ELSE /\ attempts' = attempts + 1
            /\ UNCHANGED <<template, node, status, known, iteration, group, faulted>>

CallTool ==
    /\ At({"tool"})
    /\ Leave({"toolResult"}, FirstEdge)
    /\ UNCHANGED <<template, iteration, group>>
CallMcpTool ==
    /\ At({"mcp_tool"})
    /\ Leave({}, FirstEdge)
    /\ UNCHANGED <<template, iteration, group>>
AskModel ==
    /\ At({"llm"})
    /\ Leave({}, FirstEdge)
    /\ UNCHANGED <<template, iteration, group>>
NoModelNamed == At({"no_model"}) /\ Fail(FALSE)

\* The model's answer cannot be transformed or read
UnusableAnswer == At({"llm", "intent_recognition"}) /\ Fail(TRUE)

\* Whatever the prompt asks for, the model may name no intent, one or more, in the
\* categories or not, with confidence or not
Answered == UNION {[1..n -> Here.targets \cup {"unknown", "unsure"}] : n \in 0..2}
\* Those above the threshold, by confidence; an answer that is no JSON names none
Recognised(answer) == SelectSeq(answer, LAMBDA i : i # "unsure")
\* extractIntentParameters, for the first intent only: they may be missing
ParametersMissing(intent) == IF intent \in Here.extracted THEN BOOLEAN ELSE {FALSE}
NeedsClarification(intents) == IF intents = <<>> THEN {TRUE} ELSE ParametersMissing(Head(intents))
RecogniseIntent ==
    /\ At({"intent_recognition"})
    /\ \E answer \in Answered : LET intents == Recognised(answer) IN
           \E needed \in NeedsClarification(intents) : Leave({}, IntentTarget(intents, needed))
    /\ UNCHANGED <<template, iteration, group>>
\* The input gives an empty userInput
NoInput == At({"intent_recognition"}) /\ Fail(FALSE)

\* The data nodes only pretend to process what extract_data pretends to read
ExtractData ==
    /\ At({"extract_data"})
    /\ Leave({"extractedData"}, FirstEdge)
    /\ UNCHANGED <<template, iteration, group>>
\* splitIntoChunks steps by chunkSize - overlap
ChunksEnd == Here.overlap < Here.chunkSize
VectorizeData ==
    /\ At({"vectorize_data"})
    /\ IF "extractedData" \in known
       THEN ChunksEnd /\ Leave({}, FirstEdge) /\ UNCHANGED <<template, iteration, group>>
       ELSE Fail(FALSE)
ProcessData ==
    /\ At({"summarize_data", "analyze_data", "transform_data"})
    /\ IF "extractedData" \in known
       THEN Leave({}, FirstEdge) /\ UNCHANGED <<template, iteration, group>>
       ELSE Fail(FALSE)

\* Its value is stored under scriptResult
RunScript ==
    /\ At({"script"})
    /\ \/ Here.outcome # "throws" /\ Leave({}, FirstEdge)
          /\ UNCHANGED <<template, iteration, group>>
       \/ Here.outcome # "returns" /\ Fail(Here.outcome = "depends")

EvaluateCondition ==
    /\ At({"condition"})
    /\ Leave({"conditionResult"}, ConditionTargets(known \cup {"conditionResult"}))
    /\ UNCHANGED <<template, iteration, group>>

Route ==
    /\ At({"router"})
    /\ \E choice \in Here.targets \cup {Here.default} : Leave({}, {RouterTarget(choice)})
    /\ UNCHANGED <<template, iteration, group>>

-----------------------------------------------------------------------------
(* Waiting, and what ends it *)

Wait ==
    /\ At({"user_input", "wait_event", "approval"})
    /\ status' = CASE Here.kind = "user_input" -> "waiting_input"
                   [] Here.kind = "wait_event" -> "waiting_event"
                   [] OTHER -> "waiting_approval"
    /\ UNCHANGED <<template, node, known, attempts, iteration, group, faulted>>

\* continueExecution, with whatever the user sends
UserAnswers ==
    /\ status = "waiting_input"
    /\ \E answer \in SUBSET Names(template) : Leave(answer, FirstEdge)
    /\ UNCHANGED <<template, iteration, group>>

\* handleApproval, whose answer is yes or no
Approve ==
    /\ status = "waiting_approval"
    /\ Leave({"approved"}, FirstEdge)
    /\ UNCHANGED <<template, iteration, group>>

\* handleEvent with an event of the awaited type that meets the condition: the
\* condition sees the fields of the event, not the event itself
EventArrives ==
    /\ status = "waiting_event" /\ Here.kind = "wait_event"
    /\ \E fields \in SUBSET {"eventData"} : Here.reads \subseteq fields
    /\ Leave({"eventData"}, FirstEdge)
    /\ UNCHANGED <<template, iteration, group>>

-----------------------------------------------------------------------------
(* Loops *)

StartOfLoop == CHOOSE n \in NodesOf(template, "loop_start") : TRUE
MinOf(a, b) == IF a < b THEN a ELSE b
MaxIterations == MinOf(Nodes(template)[StartOfLoop].maxIterations, LoopBound)

\* Plausible bug: entering again begins again
StartLoop_Again ==
    /\ At({"loop_start"})
    /\ iteration' = 1
    /\ Leave({}, FirstEdge)
    /\ UNCHANGED <<template, group>>
StartLoop ==
    /\ At({"loop_start"})
    /\ iteration' = iteration + 1
    /\ Leave({}, FirstEdge)
    /\ UNCHANGED <<template, group>>

\* The condition of a loop_condition node is evaluated, and its result not used
LoopCondition ==
    /\ At({"loop_condition"})
    /\ IF iteration = 0 THEN Fail(FALSE)
       ELSE Leave({}, FirstEdge) /\ UNCHANGED <<template, iteration, group>>

\* checkLoopExitConditions: the last iteration, or one of the exits
MayExit(truth) ==
    IF iteration >= MaxIterations THEN truth
    ELSE truth => \E names \in Nodes(template)[StartOfLoop].exits : names \subseteq known

\* Plausible bug: the entry of the loop stays
ExitLoop_Keeps ==
    /\ At({"loop_end"}) /\ iteration > 0 /\ MayExit(TRUE)
    /\ Leave({"loopExited"}, FirstEdge)
    /\ UNCHANGED <<template, iteration, group>>
\* Out of the loop by the first edge, whatever its condition
ExitLoop ==
    /\ At({"loop_end"}) /\ iteration > 0 /\ MayExit(TRUE)
    /\ iteration' = 0
    /\ Leave({"loopExited"}, FirstEdge)
    /\ UNCHANGED <<template, group>>

\* Back to the start without an edge
RepeatLoop ==
    /\ At({"loop_end"}) /\ iteration > 0 /\ MayExit(FALSE)
    /\ node' = StartOfLoop /\ attempts' = 0
    /\ UNCHANGED <<template, status, known, iteration, group, faulted>>

-----------------------------------------------------------------------------
(* Parallel branches *)

Branches == NodesOf(template, "parallel_branch")
Start == Nodes(template)[CHOOSE n \in NodesOf(template, "parallel_start") : TRUE]

\* shouldCompleteParallel.  A branch never completes: executeBranchNode knows no
\* node of the type parallel_branch
Complete(failed) ==
    CASE Start.strategy = "wait_all" ->
             failed = Branches \/ (Start.failureStrategy = "fail_fast" /\ failed # {})
      [] Start.strategy = "wait_any" -> failed = Branches
      [] Start.strategy = "wait_first" -> failed # {}

\* The branches are started; none is awaited
StartParallel ==
    /\ At({"parallel_start"}) /\ ~group.open
    /\ group' = [open |-> TRUE, failed |-> {}]
    /\ UNCHANGED <<template, node, status, known, attempts, iteration, faulted>>

\* Each fails before the save that follows parallel_start has returned
BranchFails ==
    /\ At({"parallel_start"}) /\ group.open
    /\ \E b \in Branches \ group.failed :
           group' = [group EXCEPT !.failed = @ \cup {b}]
    /\ status' = IF Start.failureStrategy = "fail_fast" THEN "failed" ELSE status
    /\ UNCHANGED <<template, node, known, attempts, iteration, faulted>>

\* The walk itself goes on along the first edge, into the first branch
GoOnAfterStart ==
    /\ At({"parallel_start"}) /\ group.open /\ group.failed = Branches
    /\ Leave({}, FirstEdge)
    /\ UNCHANGED <<template, iteration, group>>

\* Plausible bug: the entry of the group stays
EndParallel_Keeps ==
    /\ At({"parallel_end"}) /\ group.open /\ Here.aggregation = "returns"
    /\ Leave({}, FirstEdge)
    /\ UNCHANGED <<template, iteration, group>>
\* Too early it waits for the branches, else the results are aggregated
EndParallel ==
    /\ At({"parallel_end"})
    /\ CASE group.open /\ ~Complete(group.failed) ->
                /\ status' = "waiting_event"
                /\ UNCHANGED <<template, node, known, attempts, iteration, group, faulted>>
         [] group.open /\ Complete(group.failed) /\ Here.aggregation = "returns" ->
                /\ group' = NoGroup
                /\ Leave({}, FirstEdge)
                /\ UNCHANGED <<template, iteration>>
         [] OTHER -> Fail(FALSE)

Next ==
    \/ Pass \/ RunAgent \/ CallFails \/ CallTool \/ CallMcpTool \/ AskModel \/ NoModelNamed
    \/ UnusableAnswer \/ RecogniseIntent \/ NoInput
    \/ ExtractData \/ VectorizeData \/ ProcessData \/ RunScript \/ EvaluateCondition \/ Route
    \/ Wait \/ UserAnswers \/ Approve \/ EventArrives
    \/ StartLoop \/ LoopCondition \/ ExitLoop \/ RepeatLoop
    \/ StartParallel \/ BranchFails \/ GoOnAfterStart \/ EndParallel

\* Every call returns or times out, every wait is answered in time
Spec == Init /\ [][Next]_vars /\ WF_vars(Next)

-----------------------------------------------------------------------------
\* The variables have their types, no call is tried more often than its node says
\* and no loop has more iterations than its start says (executeLlmNode,
\* executeMcpToolNode, executeLoopStartNode).
TypeOK ==
    /\ template \in Walked /\ node \in DOMAIN Nodes(template)
    /\ status \in {"running"} \cup Waits \cup Ended
    /\ known \subseteq Names(template) \cup Templates[template].variables \cup
                       {"toolResult", "extractedData", "conditionResult", "approved",
                        "eventData", "loopExited"}
    /\ attempts < (IF Here.kind \in Calls THEN Here.attempts ELSE 1)
    /\ iteration \in 0..(IF NodesOf(template, "loop_start") = {} THEN 0 ELSE MaxIterations)
    /\ group \in [open: BOOLEAN, failed: SUBSET Branches]
    /\ faulted \in BOOLEAN

\* Some loop leaves by an edge to its own start
Restarts(t) ==
    \E n \in NodesOf(t, "loop_end") : Edges(t, n)[1].target \in NodesOf(t, "loop_start")

\* An execution of a template ends, completed or failed, whatever its input, the
\* answers and the outcome of its calls: no wait is for something that cannot come
\* and no loop goes on for ever (executeLoopEndNode, executeParallelEndNode).  The
\* exception is a template whose loop leaves by the edge back to its own start.
WalkEnds == ~Restarts(template) ~> status \in Ended

\* Where an execution ends well
Ends == {<<"simpleLoop", "end">>, <<"fastResponse", "end">>,
         <<"memeGenerator", "end_cancelled">>, <<"documentProcessing", "end_success">>,
         <<"dataCleaning", "end">>, <<"llmExample", "end">>, <<"complexLlm", "end">>,
         <<"mcpBasic", "end">>, <<"mcpConditional", "end">>,
         <<"intentRecognition", "end">>, <<"simpleIntent", "end">>}
\* Where one fails though every call succeeds
Traps == {<<"loopExample", "check_alert">>, <<"loopExample", "send_alert">>,
          <<"parallelDataFetch", "analyze_data">>, <<"btcTrading", "analyze_price">>,
          <<"dataFlow", "generate_report">>, <<"memeGenerator", "generate_meme">>,
          <<"quickAnalysis", "parallel_start">>, <<"mcpParallel", "parallel_end">>,
          <<"mcpConditional", "check_input_type">>,
          <<"intentRecognition", "intent_recognition">>, <<"intentRecognition", "image_agent">>,
          <<"simpleIntent", "simple_intent">>,
          <<"enhancedCondition", "sports_content">>, <<"enhancedCondition", "default_handler">>}
\* Nodes that are never reached though no node before them always fails
Unreached == {<<"loopExample", "final_report">>,
              <<"documentProcessing", "summarize">>, <<"documentProcessing", "end_failed">>,
              <<"llmExample", "llm_neutral_response">>,
              <<"complexLlm", "llm_keywords">>, <<"complexLlm", "llm_summary">>,
              <<"mcpParallel", "mcp_news_analysis">>, <<"mcpParallel", "mcp_market_data">>,
              <<"intentRecognition", "weather_param_request">>,
              <<"intentRecognition", "image_check">>, <<"intentRecognition", "email_check">>,
              <<"intentRecognition", "data_collection_check">>,
              <<"intentRecognition", "help_check">>,
              <<"intentRecognition", "clarification_request">>}

\* What becomes of an execution of each template: it completes only at these nodes,
\* outside every loop and group of branches, fails by itself only at those (an agent
\* called without a user, branches nothing can run, a script that cannot be compiled,
\* conditions nobody defines the names of), and never reaches the others.  And what
\* validateWorkflow accepts never arrives at the end of a loop or of parallel branches
\* that has not been started (continueToNextNode, executeAgentNode, executeBranchNode,
\* evaluateCondition, executeLoopEndNode, validateWorkflow).
OutcomesAccounted ==
    /\ status = "completed" => /\ <<template, node>> \in Ends
                               /\ Out = <<>> /\ iteration = 0 /\ ~group.open
    /\ status = "failed" /\ ~faulted => <<template, node>> \in Traps
    /\ <<template, node>> \notin Unreached
    /\ At({"loop_end", "loop_condition"}) /\ Valid(template) => iteration > 0
    /\ At({"parallel_end"}) /\ Valid(template) => group.open
=============================================================================
