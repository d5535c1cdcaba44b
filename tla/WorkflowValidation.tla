--------------------------- MODULE WorkflowValidation ---------------------------
(***************************************************************************)
(* WorkflowService.validateWorkflow: what it objects to in a template.     *)
(* Every node of the templates has the ids and texts its type must have,   *)
(* but for the condition, and no template has more than one loop or one    *)
(* group of branches, so that a matching node is any node of its type.     *)
(***************************************************************************)
EXTENDS WorkflowTemplates, FiniteSets

Nodes(t) == Templates[t].nodes
Edges(t, n) == IF n \in DOMAIN Templates[t].edges THEN Templates[t].edges[n] ELSE <<>>
NodesOf(t, kind) == {n \in DOMAIN Nodes(t) : Nodes(t)[n].kind = kind}
Targets(t, n) == {Edges(t, n)[i].target : i \in DOMAIN Edges(t, n)}

\* hasPathBetweenNodes: what is visited after so many rounds of the queue
HasPath(t, from, to) ==
    LET visited[round \in Nat] ==
            IF round = 0 THEN {from}
            ELSE LET before == visited[round - 1]
                 IN  before \cup UNION {Targets(t, n) : n \in before}
    IN  to \in visited[Cardinality(DOMAIN Nodes(t))]

\* Each start has one end, on a path from it, and nothing else of the structure is
\* there without a start
Matched(t, starts, ends, inner) ==
    /\ starts # {} => Cardinality(ends) = 1
    /\ ends \cup inner # {} => starts # {}
    /\ \A s \in starts, e \in ends : HasPath(t, s, e)

ValidLoops(t) ==
    Matched(t, NodesOf(t, "loop_start"), NodesOf(t, "loop_end"), NodesOf(t, "loop_condition"))
ValidParallels(t) ==
    Matched(t, NodesOf(t, "parallel_start"), NodesOf(t, "parallel_end"),
            NodesOf(t, "parallel_branch"))

Valid(t) ==
    LET connected == DOMAIN Templates[t].edges
                     \cup UNION {Targets(t, n) : n \in DOMAIN Nodes(t)}
    IN  /\ Cardinality(NodesOf(t, "start")) = 1
        /\ NodesOf(t, "end") # {}
        /\ DOMAIN Nodes(t) \ NodesOf(t, "start") \subseteq connected
        /\ connected \subseteq DOMAIN Nodes(t)
        /\ NodesOf(t, "router") = {}    \* a condition node must have a condition
        /\ \A n \in NodesOf(t, "loop_start") : Nodes(t)[n].maxIterations > 0
        /\ ValidLoops(t) /\ ValidParallels(t)
=============================================================================
