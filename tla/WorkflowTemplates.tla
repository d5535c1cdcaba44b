---------------------------- MODULE WorkflowTemplates ----------------------------
(***************************************************************************)
(* The workflow templates shipped in workflow/templates: for each its      *)
(* nodes, with the settings that decide what the engine does at them, and  *)
(* its edges, per source node in the order of the edge list.  A `-' of a   *)
(* node id is written `_'.  Prompts, labels, positions, arguments and      *)
(* triggers are left out.                                                  *)
(***************************************************************************)
EXTENDS Naturals, Sequences, TLC

(* Nodes *)
Plain(kind) == [kind |-> kind]      \* start, end, delay, user_input, approval, agent ...
\* A node that calls a tool, a server or a model, so often before it gives up
Call(kind, attempts) == [kind |-> kind, attempts |-> attempts]
\* An llm node without modelName and modelId
NoModel == Call("no_model", 3)
\* The target nodes of its intents, and of those whose parameters it extracts
Intent(targets, extracted) == [kind |-> "intent_recognition", attempts |-> 3,
                               targets |-> targets, extracted |-> extracted]
Vectorize(chunkSize, overlap) ==
    [kind |-> "vectorize_data", chunkSize |-> chunkSize, overlap |-> overlap]
\* "returns": always; "depends": throws when a result before it is unusable
Script(outcome) == [kind |-> "script", outcome |-> outcome]
\* The condition is evaluated with the event's data as its variables
WaitEvent(reads) == [kind |-> "wait_event", reads |-> reads]
\* The targets of the rules that can match, and the default target
Router(targets, default) == [kind |-> "router", targets |-> targets, default |-> default]
ValueMatcher(targets, default) == Router(targets, default)
\* Each element of exits names variables that, when defined, may end the loop
LoopStart(maxIterations, exits) ==
    [kind |-> "loop_start", maxIterations |-> maxIterations, exits |-> exits]
ParallelStart(strategy, failureStrategy) ==
    [kind |-> "parallel_start", strategy |-> strategy, failureStrategy |-> failureStrategy]
\* "throws": the aggregation script cannot be compiled
ParallelEnd(aggregation) == [kind |-> "parallel_end", aggregation |-> aggregation]

(* Edges: what evaluating the condition gives *)
Edge(target, condition, reads) == [target |-> target, condition |-> condition, reads |-> reads]
To(target) == <<Edge(target, "none", {})>>
Always(target) == Edge(target, "true", {})
\* The text false, or a text with {{..}} or ${..}, which is no JavaScript
Never(target) == Edge(target, "false", {})
\* It reads these variables, all of which must be defined
When(reads, target) == Edge(target, "reads", reads)
\* The negation of the edges before it
Otherwise(reads, target) == Edge(target, "otherwise", reads)

-----------------------------------------------------------------------------
LoopExampleNodes ==
    [start |-> Plain("start"),
     loop_start |-> LoopStart(1000, {{"userInput"}, {"eventData"}}),
     get_btc_price |-> Call("tool", 1), get_weather |-> Call("tool", 1),
     generate_report |-> Script("returns"),
     check_alert |-> Plain("condition"), send_alert |-> Plain("agent"),
     wait_user_input |-> Plain("user_input"), delay |-> Plain("delay"),
     loop_condition |-> Plain("loop_condition"), loop_end |-> Plain("loop_end"),
     final_report |-> Script("returns"), end |-> Plain("end")]

LoopExampleEdges ==
    [start |-> To("loop_start"), loop_start |-> To("get_btc_price"),
     get_btc_price |-> To("get_weather"), get_weather |-> To("generate_report"),
     generate_report |-> To("check_alert"),
     check_alert |-> <<When({"btcPrice"}, "send_alert"),
                       When({"btcPrice"}, "wait_user_input")>>,
     send_alert |-> To("wait_user_input"), wait_user_input |-> To("delay"),
     delay |-> To("loop_condition"), loop_condition |-> To("loop_end"),
     loop_end |-> <<When({"loopContinued"}, "loop_start"),
                    When({"loopExited"}, "final_report")>>,
     final_report |-> To("end")]

SimpleLoopNodes ==
    [start |-> Plain("start"), init_counter |-> Script("returns"),
     loop_start |-> LoopStart(10, {{"counter"}}), increment |-> Script("returns"),
     loop_end |-> Plain("loop_end"), end |-> Plain("end")]

SimpleLoopEdges ==
    [start |-> To("init_counter"), init_counter |-> To("loop_start"),
     loop_start |-> To("increment"), increment |-> To("loop_end"),
     loop_end |-> <<When({"loopExited"}, "end")>>]

ParallelDataFetchNodes ==
    [start |-> Plain("start"),
     parallel_start |-> ParallelStart("wait_all", "continue_on_error"),
     fetch_weather |-> Plain("parallel_branch"), fetch_btc_price |-> Plain("parallel_branch"),
     fetch_news |-> Plain("parallel_branch"), parallel_end |-> ParallelEnd("returns"),
     analyze_data |-> Plain("agent"), generate_report |-> Script("returns"),
     end |-> Plain("end")]

ParallelDataFetchEdges ==
    [start |-> To("parallel_start"),
     parallel_start |-> To("fetch_weather") \o To("fetch_btc_price") \o To("fetch_news"),
     fetch_weather |-> To("parallel_end"), fetch_btc_price |-> To("parallel_end"),
     fetch_news |-> To("parallel_end"), parallel_end |-> To("analyze_data"),
     analyze_data |-> To("generate_report"), generate_report |-> To("end")]

FastResponseNodes ==
    [start |-> Plain("start"),
     parallel_start |-> ParallelStart("wait_first", "continue_on_error"),
     query_api1 |-> Plain("parallel_branch"), query_api2 |-> Plain("parallel_branch"),
     parallel_end |-> ParallelEnd("returns"), process_result |-> Script("returns"),
     end |-> Plain("end")]

FastResponseEdges ==
    [start |-> To("parallel_start"), parallel_start |-> To("query_api1") \o To("query_api2"),
     query_api1 |-> To("parallel_end"), query_api2 |-> To("parallel_end"),
     parallel_end |-> To("process_result"), process_result |-> To("end")]

-----------------------------------------------------------------------------
BtcMonitoringNodes ==
    [start |-> Plain("start"), init_monitoring |-> Script("returns"),
     loop_start |-> LoopStart(8640, {{"monitoringConfig"}, {"userInput"}, {"eventData"}}),
     get_btc_price |-> Call("tool", 1), analyze_price |-> Plain("agent"),
     check_trading_conditions |->
         Router({"execute_buy_order", "execute_sell_order", "log_price_update"},
                "log_price_update")]
BtcReactionNodes ==
    [execute_buy_order |-> Plain("agent"), execute_sell_order |-> Plain("agent"),
     log_price_update |-> Script("throws"),
     send_notification |-> Plain("agent"), risk_assessment |-> Plain("agent"),
     wait_interval |-> Plain("delay"), loop_condition |-> Plain("loop_condition"),
     loop_end |-> Plain("loop_end"), generate_final_report |-> Plain("agent"),
     end |-> Plain("end")]
BtcTradingNodes == BtcMonitoringNodes @@ BtcReactionNodes

BtcTradingEdges ==
    [start |-> To("init_monitoring"), init_monitoring |-> To("loop_start"),
     loop_start |-> To("get_btc_price"), get_btc_price |-> To("analyze_price"),
     analyze_price |-> To("check_trading_conditions"),
     check_trading_conditions |->
         <<When({"toolResult", "monitoringConfig"}, "execute_buy_order"),
           When({"toolResult", "monitoringConfig"}, "execute_sell_order"),
           When({"toolResult", "monitoringConfig"}, "log_price_update")>>,
     execute_buy_order |-> To("send_notification"),
     execute_sell_order |-> To("send_notification"),
     log_price_update |-> To("send_notification"),
     send_notification |-> To("risk_assessment"), risk_assessment |-> To("wait_interval"),
     wait_interval |-> To("loop_condition"), loop_condition |-> To("loop_end"),
     loop_end |-> <<When({"loopContinued"}, "get_btc_price"),
                    When({"loopExited"}, "generate_final_report")>>,
     generate_final_report |-> To("end")]

DataFlowNodes ==
    [start |-> Plain("start"),
     fetch_user_data |-> Call("tool", 1), fetch_order_data |-> Call("tool", 1),
     calculate_stats |-> Script("depends"), generate_report |-> Plain("agent"),
     format_output |-> Script("throws"), conditional_action |-> Plain("condition"),
     send_premium_offer |-> Call("tool", 1), send_standard_offer |-> Call("tool", 1),
     end |-> Plain("end")]

DataFlowEdges ==
    [start |-> To("fetch_user_data"), fetch_user_data |-> To("fetch_order_data"),
     fetch_order_data |-> To("calculate_stats"), calculate_stats |-> To("generate_report"),
     generate_report |-> To("format_output"), format_output |-> To("conditional_action"),
     conditional_action |-> <<When({"conditionResult"}, "send_premium_offer"),
                              Otherwise({"conditionResult"}, "send_standard_offer")>>,
     send_premium_offer |-> To("end"), send_standard_offer |-> To("end")]

MemeNodes ==
    [start |-> Plain("start"),
     get_trending_news |-> Call("tool", 1), get_weather |-> Call("tool", 1),
     wait_btc_price |-> WaitEvent({"eventData"}), user_approval |-> Plain("approval"),
     check_approval |-> Plain("condition"), generate_meme_prompt |-> Script("depends"),
     generate_meme |-> Plain("agent"), user_feedback |-> Plain("user_input"),
     check_satisfaction |-> Plain("condition"),
     end_success |-> Plain("end"), end_cancelled |-> Plain("end")]

MemeEdges ==
    [start |-> To("get_trending_news"), get_trending_news |-> To("get_weather"),
     get_weather |-> To("wait_btc_price"), wait_btc_price |-> To("user_approval"),
     user_approval |-> To("check_approval"),
     check_approval |-> <<When({"approved"}, "generate_meme_prompt"),
                          Otherwise({"approved"}, "end_cancelled")>>,
     generate_meme_prompt |-> To("generate_meme"), generate_meme |-> To("user_feedback"),
     user_feedback |-> To("check_satisfaction"),
     check_satisfaction |-> <<When({"satisfaction", "retryCount"}, "end_success"),
                              When({"satisfaction", "retryCount"}, "generate_meme_prompt")>>]

-----------------------------------------------------------------------------
DocumentProcessingNodes ==
    [start |-> Plain("start"), extract |-> Plain("extract_data"),
     condition |-> Plain("condition"), vectorize |-> Vectorize(500, 50),
     summarize |-> Plain("summarize_data"), analyze |-> Plain("analyze_data"),
     end_success |-> Plain("end"), end_failed |-> Plain("end")]

DocumentProcessingEdges ==
    [start |-> To("extract"), extract |-> To("condition"),
     condition |-> <<Always("vectorize"), Always("summarize"), Never("end_failed")>>,
     vectorize |-> To("analyze"), summarize |-> To("analyze"), analyze |-> To("end_success")]

DataCleaningNodes ==
    [start |-> Plain("start"), extract |-> Plain("extract_data"),
     clean |-> Plain("transform_data"), format |-> Plain("transform_data"),
     end |-> Plain("end")]

DataCleaningEdges ==
    [start |-> To("extract"), extract |-> To("clean"), clean |-> To("format"),
     format |-> To("end")]

QuickAnalysisNodes ==
    [start |-> Plain("start"), extract |-> Plain("extract_data"),
     parallel_start |-> ParallelStart("wait_all", "fail_fast"),
     summarize_branch |-> Plain("parallel_branch"), summarize |-> Plain("summarize_data"),
     analyze_branch |-> Plain("parallel_branch"), analyze |-> Plain("analyze_data"),
     parallel_end |-> ParallelEnd("returns"), end |-> Plain("end")]

QuickAnalysisEdges ==
    [start |-> To("extract"), extract |-> To("parallel_start"),
     parallel_start |-> To("summarize_branch") \o To("analyze_branch"),
     summarize_branch |-> To("summarize"), analyze_branch |-> To("analyze"),
     summarize |-> To("parallel_end"), analyze |-> To("parallel_end"),
     parallel_end |-> To("end")]

-----------------------------------------------------------------------------
LlmExampleNodes ==
    [start |-> Plain("start"), llm_text_analysis |-> Call("llm", 3),
     llm_format_converter |-> Call("llm", 3), llm_conversation |-> Call("llm", 3),
     llm_summary |-> Call("llm", 3), condition_check |-> Plain("condition"),
     llm_positive_response |-> Call("llm", 3), llm_neutral_response |-> Call("llm", 3),
     end |-> Plain("end")]

LlmExampleEdges ==
    [start |-> To("llm_text_analysis"), llm_text_analysis |-> To("llm_format_converter"),
     llm_format_converter |-> To("llm_conversation"), llm_conversation |-> To("llm_summary"),
     llm_summary |-> To("condition_check"),
     condition_check |-> <<Always("llm_positive_response"), Never("llm_neutral_response")>>,
     llm_positive_response |-> To("end"), llm_neutral_response |-> To("end")]

ComplexLlmNodes ==
    [start |-> Plain("start"),
     parallel_start |-> ParallelStart("wait_all", "continue_on_error"),
     branch_sentiment |-> Plain("parallel_branch"), llm_sentiment |-> Call("llm", 2),
     branch_keywords |-> Plain("parallel_branch"), llm_keywords |-> Call("llm", 2),
     branch_summary |-> Plain("parallel_branch"), llm_summary |-> Call("llm", 2),
     parallel_end |-> ParallelEnd("returns"), llm_integration |-> Call("llm", 3),
     end |-> Plain("end")]

ComplexLlmEdges ==
    [start |-> To("parallel_start"),
     parallel_start |-> To("branch_sentiment") \o To("branch_keywords") \o To("branch_summary"),
     branch_sentiment |-> To("llm_sentiment"), branch_keywords |-> To("llm_keywords"),
     branch_summary |-> To("llm_summary"), llm_sentiment |-> To("parallel_end"),
     llm_keywords |-> To("parallel_end"), llm_summary |-> To("parallel_end"),
     parallel_end |-> To("llm_integration"), llm_integration |-> To("end")]

-----------------------------------------------------------------------------
McpBasicNodes ==
    [start |-> Plain("start"), mcp_text_analysis |-> Call("mcp_tool", 3),
     process_result |-> Script("depends"), end |-> Plain("end")]

McpBasicEdges ==
    [start |-> To("mcp_text_analysis"), mcp_text_analysis |-> To("process_result"),
     process_result |-> To("end")]

McpParallelNodes ==
    [start |-> Plain("start"),
     parallel_start |-> ParallelStart("wait_all", "continue_on_error"),
     search_web |-> Plain("parallel_branch"), mcp_web_search |-> Call("mcp_tool", 2),
     analyze_news |-> Plain("parallel_branch"), mcp_news_analysis |-> Call("mcp_tool", 2),
     get_market_data |-> Plain("parallel_branch"), mcp_market_data |-> Call("mcp_tool", 3),
     parallel_end |-> ParallelEnd("throws"), generate_report |-> Call("mcp_tool", 2),
     end |-> Plain("end")]

McpParallelEdges ==
    [start |-> To("parallel_start"),
     parallel_start |-> To("search_web") \o To("analyze_news") \o To("get_market_data"),
     search_web |-> To("mcp_web_search"), analyze_news |-> To("mcp_news_analysis"),
     get_market_data |-> To("mcp_market_data"), mcp_web_search |-> To("parallel_end"),
     mcp_news_analysis |-> To("parallel_end"), mcp_market_data |-> To("parallel_end"),
     parallel_end |-> To("generate_report"), generate_report |-> To("end")]

McpConditionalNodes ==
    [start |-> Plain("start"), check_input_type |-> Plain("condition"),
     process_text |-> Call("mcp_tool", 3), process_image |-> Call("mcp_tool", 3),
     process_audio |-> Call("mcp_tool", 3), merge_results |-> Script("returns"),
     end |-> Plain("end")]

McpConditionalEdges ==
    [start |-> To("check_input_type"),
     check_input_type |-> <<When({"inputType"}, "process_text"),
                            When({"inputType"}, "process_image"),
                            When({"inputType"}, "process_audio")>>,
     process_text |-> To("merge_results"), process_image |-> To("merge_results"),
     process_audio |-> To("merge_results"), merge_results |-> To("end")]

-----------------------------------------------------------------------------
\* intentCategories: the target node of each category
IntentTargets ==
    {"weather_tool", "image_agent", "data_collection_loop", "email_tool", "help_llm"}

IntentWeatherNodes ==
    [start |-> Plain("start"), intent_recognition |-> Intent(IntentTargets, IntentTargets),
     intent_router |-> Plain("condition"),
     weather_check |-> Plain("condition"), weather_params_check |-> Plain("condition"),
     weather_tool |-> Call("tool", 1), weather_param_request |-> Plain("user_input")]
IntentTaskNodes ==
    [image_check |-> Plain("condition"), image_params_check |-> Plain("condition"),
     image_agent |-> Plain("agent"), data_collection_check |-> Plain("condition"),
     data_collection_loop |-> LoopStart(3, {{"userInput"}}),
     data_input_request |-> Plain("user_input"), data_collection_end |-> Plain("loop_end"),
     email_check |-> Plain("condition"), email_tool |-> Call("tool", 1)]
IntentAnswerNodes ==
    [help_check |-> Plain("condition"), help_llm |-> Call("llm", 3),
     clarification_request |-> Call("llm", 3), result_summary |-> Call("llm", 3),
     end |-> Plain("end")]
IntentNodes == IntentWeatherNodes @@ IntentTaskNodes @@ IntentAnswerNodes

IntentEdges ==
    [start |-> To("intent_recognition"), intent_recognition |-> To("intent_router"),
     intent_router |-> <<Always("weather_check"), Always("image_check"),
                         Always("data_collection_check"), Always("email_check"),
                         Always("help_check"), Never("clarification_request")>>,
     weather_check |-> <<Always("weather_params_check")>>,
     weather_params_check |-> <<Always("weather_tool"), Never("weather_param_request")>>,
     weather_param_request |-> To("weather_tool"), weather_tool |-> To("result_summary"),
     image_check |-> <<Always("image_params_check")>>,
     image_params_check |-> <<Always("image_agent")>>, image_agent |-> To("result_summary"),
     data_collection_check |-> <<Always("data_collection_loop")>>,
     data_collection_loop |-> To("data_input_request"),
     data_input_request |-> To("data_collection_end"),
     data_collection_end |-> To("result_summary"),
     email_check |-> <<Always("email_tool")>>, email_tool |-> To("result_summary"),
     help_check |-> <<Always("help_llm")>>, help_llm |-> To("result_summary"),
     clarification_request |-> To("result_summary"), result_summary |-> To("end")]

SimpleIntentNodes ==
    [start |-> Plain("start"),
     simple_intent |-> Intent({"greeting_response", "question_response"}, {}),
     greeting_response |-> Call("llm", 3), question_response |-> Call("llm", 3),
     end |-> Plain("end")]

SimpleIntentEdges ==
    [start |-> To("simple_intent"),
     simple_intent |-> <<Never("greeting_response"), Never("question_response")>>,
     greeting_response |-> To("end"), question_response |-> To("end")]

\* The exact rules of smart_router read ${age}, which is no JavaScript: they never match
EnhancedRoutingNodes ==
    [start |-> Plain("start"), user_input |-> Plain("user_input"),
     smart_router |-> Router({"sports_content"}, "default_handler"),
     hobby_matcher |->
         ValueMatcher({"reading_content", "music_content", "travel_content", "tech_content"},
                      "other_hobby")]
EnhancedContentNodes ==
    [child_content |-> NoModel, adult_content |-> NoModel, senior_content |-> NoModel,
     sports_content |-> NoModel, reading_content |-> NoModel, music_content |-> NoModel,
     travel_content |-> NoModel, tech_content |-> NoModel, default_handler |-> NoModel,
     other_hobby |-> NoModel, end |-> Plain("end")]
EnhancedConditionNodes == EnhancedRoutingNodes @@ EnhancedContentNodes

Selected(target) == Edge(target, "selectedNode", {})
Default(target) == Edge(target, "default", {})

EnhancedConditionEdges ==
    [start |-> To("user_input"), user_input |-> To("smart_router"),
     smart_router |-> <<Selected("child_content"), Selected("adult_content"),
                        Selected("senior_content"), Selected("sports_content"),
                        Default("default_handler"), Never("hobby_matcher")>>,
     hobby_matcher |-> <<Selected("reading_content"), Selected("music_content"),
                         Selected("travel_content"), Selected("tech_content"),
                         Default("other_hobby")>>,
     child_content |-> To("end"), adult_content |-> To("end"), senior_content |-> To("end"),
     sports_content |-> To("end"), reading_content |-> To("end"),
     music_content |-> To("end"), travel_content |-> To("end"), tech_content |-> To("end"),
     default_handler |-> To("end"), other_hobby |-> To("end")]

-----------------------------------------------------------------------------
(* The templates: nodes, edges and the names of their variables.  The value of a
   variable that a template describes in place of giving it is its description *)
Template(nodes, edges, variables) == [nodes |-> nodes, edges |-> edges, variables |-> variables]

LoopExample == Template(LoopExampleNodes, LoopExampleEdges,
    {"location", "alertThreshold", "monitoringInterval"})
SimpleLoop == Template(SimpleLoopNodes, SimpleLoopEdges, {})
ParallelDataFetch == Template(ParallelDataFetchNodes, ParallelDataFetchEdges,
    {"location", "analysisDepth"})
FastResponse == Template(FastResponseNodes, FastResponseEdges, {"searchQuery", "timeout"})
BtcTrading == Template(BtcTradingNodes, BtcTradingEdges,
    {"buyThreshold", "sellThreshold", "monitoringPeriod", "maxTradeAmount", "riskLevel",
     "tradingEnabled"})
DataFlow == Template(DataFlowNodes, DataFlowEdges, {"userId", "reportLanguage"})
MemeGenerator == Template(MemeNodes, MemeEdges,
    {"location", "retryCount", "maxRetries", "userId"})
DocumentProcessing == Template(DocumentProcessingNodes, DocumentProcessingEdges, {})
DataCleaning == Template(DataCleaningNodes, DataCleaningEdges, {})
QuickAnalysis == Template(QuickAnalysisNodes, QuickAnalysisEdges, {})
LlmExample == Template(LlmExampleNodes, LlmExampleEdges, {"inputText", "userQuestion"})
ComplexLlm == Template(ComplexLlmNodes, ComplexLlmEdges, {"inputText"})
McpBasic == Template(McpBasicNodes, McpBasicEdges, {"inputText", "outputFormat"})
McpParallel == Template(McpParallelNodes, McpParallelEdges, {"query", "language"})
McpConditional == Template(McpConditionalNodes, McpConditionalEdges, {"inputType", "content"})
IntentRecognition == Template(IntentNodes, IntentEdges, {"userInput", "debugMode"})
SimpleIntent == Template(SimpleIntentNodes, SimpleIntentEdges, {"userInput"})
EnhancedCondition == Template(EnhancedConditionNodes, EnhancedConditionEdges, {"age", "hobby"})

Templates ==
    [loopExample |-> LoopExample, simpleLoop |-> SimpleLoop,
     parallelDataFetch |-> ParallelDataFetch, fastResponse |-> FastResponse,
     btcTrading |-> BtcTrading, dataFlow |-> DataFlow, memeGenerator |-> MemeGenerator,
     documentProcessing |-> DocumentProcessing, dataCleaning |-> DataCleaning,
     quickAnalysis |-> QuickAnalysis, llmExample |-> LlmExample, complexLlm |-> ComplexLlm,
     mcpBasic |-> McpBasic, mcpParallel |-> McpParallel, mcpConditional |-> McpConditional,
     intentRecognition |-> IntentRecognition, simpleIntent |-> SimpleIntent,
     enhancedCondition |-> EnhancedCondition]
=============================================================================
