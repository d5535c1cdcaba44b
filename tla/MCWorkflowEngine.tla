--------------------------- MODULE MCWorkflowEngine ---------------------------
(***************************************************************************)
(* Instances of WorkflowEngine for TLC.  Nodes are named after their type. *)
(***************************************************************************)
EXTENDS WorkflowEngine, TLC

\* Requests are interchangeable: used by the runs that check invariants only
RequestSymmetry == Permutations(Requests)

\* An event, then an approval, then a routed task that ends without an edge:
\* start -> signal -> route -> (approve -> ) work
EventNodes == {"start", "signal", "route", "approve", "work"}
EventTypes == <<[start |-> "start", signal |-> "wait_event", route |-> "intent_recognition",
                 approve |-> "approval", work |-> "task"]>>
EventEdges == <<[start |-> <<"signal">>, signal |-> <<"route">>, route |-> <<"approve">>,
                 approve |-> <<"work">>, work |-> <<>>]>>
EventDirect == <<[n \in EventNodes |-> IF n = "route" THEN {"work"} ELSE {}]>>
EventLoopOf == [n \in EventNodes |-> "L"]
EventLoopStart == [l \in {"L"} |-> "start"]

\* A loop whose body asks the user and may fail, in a workflow that is edited while
\* it executes, into definitions nothing validates: version 2 lacks the loop's
\* start and has an edge to a deleted node, version 3 lacks the waiting node,
\* version 4 the start node:
\* start -> loop -> ask -> choose -> (test ->) again -> end
LoopNodes == {"start", "loop", "ask", "choose", "test", "again", "end"}
LoopTypes ==
    LET first == [start |-> "start", loop |-> "loop_start", ask |-> "user_input",
                  choose |-> "condition", test |-> "loop_condition",
                  again |-> "loop_end", end |-> "end"]
    IN <<first, [first EXCEPT !.loop = "missing", !.end = "missing"],
         [first EXCEPT !.ask = "missing"], [first EXCEPT !.start = "missing"]>>
LoopEdges == [v \in 1..4 |->
    [start |-> <<"loop">>, loop |-> <<"ask">>, ask |-> <<"choose">>,
     choose |-> <<"test", "again">>, test |-> <<"again">>, again |-> <<"end">>, end |-> <<>>]]
LoopDirect == [v \in 1..4 |-> [n \in LoopNodes |-> {}]]
LoopLoopOf == [n \in LoopNodes |-> "L"]
LoopLoopStart == [l \in {"L"} |-> "loop"]
TwoIterations == [l \in {"L"} |-> 2]

\* The shortest loop around a wait, then a call, for liveness
ShortNodes == {"start", "loop", "ask", "again", "work"}
ShortTypes == <<[start |-> "start", loop |-> "loop_start", ask |-> "user_input",
                 again |-> "loop_end", work |-> "task"]>>
ShortEdges == <<[start |-> <<"loop">>, loop |-> <<"ask">>, ask |-> <<"again">>,
                 again |-> <<"work">>, work |-> <<>>]>>
ShortDirect == <<[n \in ShortNodes |-> {}]>>
ShortLoopOf == [n \in ShortNodes |-> "L"]
=============================================================================
