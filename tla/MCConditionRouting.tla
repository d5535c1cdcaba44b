--------------------------- MODULE MCConditionRouting ---------------------------
(* Condition nodes for TLC: every list of up to three rules out of a few that
   match, do not match, tie, throw, name no node, or have a field that is 0 *)
EXTENDS ConditionRouting

MCLetters == {"a", "b", "B", "("}
MCLower == [c \in MCLetters |-> IF c = "B" THEN "b" ELSE c]
Nodes == {"x", "y", "d"}
MCIds == Nodes \cup {"gone"}

Text(s) == [text |-> s, truthy |-> s # <<>>, numeric |-> FALSE, number |-> 0]
Number(n) == [text |-> <<"a">>, truthy |-> n # 0, numeric |-> TRUE, number |-> n]
\* The value of an expression that throws
Thrown == [text |-> <<"b", "a">>, truthy |-> FALSE, numeric |-> FALSE, number |-> 0]
NoAnswer == [kind |-> "throws", score |-> 0]

Rule(target, type, value, expected, priority, weight) ==
    [target |-> target, enabled |-> TRUE, type |-> type, value |-> value,
     expected |-> expected, tolerance |-> 2, priority |-> priority, weight |-> weight,
     answer |-> [kind |-> "object", score |-> 30]]

RoutingRules ==
    {Rule("x", "exact", Number(1), Number(1), 2, 0),
     Rule("y", "exact", Number(1), Number(1), 2, 1),
     Rule("d", "exact", Thrown, Number(1), 9, 1),
     Rule("x", "contains", Text(<<"a", "B">>), Text(<<"b">>), 3, 1),
     Rule("y", "contains", Thrown, Text(<<"B">>), 0, 3),
     Rule("y", "regex", Text(<<"a">>), Text(<<"(">>), 9, 1),
     Rule("gone", "regex", Text(<<"a", "b">>), Text(<<"b">>), 1, 2),
     Rule("y", "range", Number(4), Number(3), 1, 2),
     Rule("x", "range", Number(0), Number(0), 9, 9),
     Rule(None, "custom", Number(1), Number(1), 4, 1),
     [Rule("y", "custom", Number(1), Number(1), 8, 1) EXCEPT !.answer = NoAnswer],
     [Rule("d", "exact", Number(1), Number(1), 9, 9) EXCEPT !.enabled = FALSE]}

Matching(target, type, values, priority) ==
    [target |-> target, enabled |-> TRUE, type |-> type, values |-> values,
     priority |-> priority, min |-> <<>>, max |-> <<>>]
MatchingRules ==
    {Matching("x", "exact", <<Text(<<"a", "b", "b">>)>>, 1),
     Matching("y", "exact", <<Text(<<"b">>), Text(<<"a", "B">>)>>, 1),
     Matching("d", "contains", <<Text(<<"b", "B">>)>>, 1),
     Matching("y", "startsWith", <<Text(<<"a">>)>>, 0),
     Matching("gone", "endsWith", <<Text(<<"b">>)>>, 2),
     Matching(None, "regex", <<Text(<<"(">>), Text(<<"B">>)>>, 1),
     [Matching("x", "range", <<Number(2)>>, 3) EXCEPT !.max = <<4>>],
     [Matching("x", "contains", <<Text(<<>>)>>, 9) EXCEPT !.enabled = FALSE]}

\* Where the source is found, and where nothing is
At(key) == [key |-> key, index |-> <<>>]
Entry(key, n) == [key |-> key, index |-> <<n>>]
\* No path goes on from a number or a letter
Leaf(v) == Scalar(v, NoFields)
Word(v) ==
    IF v.numeric THEN Leaf(v)
    ELSE IF v.text = <<>> THEN Scalar(v, [length |-> Leaf(Number(0))])
    ELSE Scalar(v, ("0" :> Leaf(Text(<<v.text[1]>>))) @@ [length |-> Leaf(Number(Len(v.text)))])
Context(v) ==
    LET user == Object(NoValue, [name |-> Word(v), none |-> Null]) IN
    Object(NoValue, [name |-> Word(v), user |-> user,
        users |-> Array(NoValue, <<user, Word(v)>>,
                        ("0" :> user) @@ ("1" :> Word(v)) @@ [length |-> Leaf(Number(2))])])
FoundAt == {<<At("name")>>, <<Entry("users", 0), At("name")>>, <<Entry("users", 1)>>,
            <<At("users"), Entry("", 1)>>, <<At("users"), At("1"), At("0")>>,
            <<At("users"), At("length")>>}
MissingAt == {<<>>, <<At("gone"), At("name")>>, <<At("user"), At("none")>>,
              <<At("user"), At("none"), At("name")>>, <<Entry("users", 2)>>, <<Entry("user", 0)>>,
              <<At("name"), At("1")>>, <<At("users"), Entry("length", 0)>>}
Sources == <<Text(<<"b">>), Text(<<>>), Text(<<"a", "b">>), Text(<<"b", "a", "B">>),
             Text(<<"a", "a", "b">>), Number(3)>>
MCContexts == [v \in DOMAIN Sources |-> Context(Sources[v])]
\* The parts of a value; the elements of an array are among its fields
Parts(v) == {v.fields[k] : k \in DOMAIN v.fields}
WithParts(vs) == vs \cup UNION {Parts(v) : v \in vs}
MCContextValues ==
    WithParts(WithParts(WithParts(WithParts({MCContexts[c] : c \in DOMAIN MCContexts}))))
\* Pairs of rules look at values, single rules along every path too
Look(context, path, rules) == [context |-> context, path |-> path, rules |-> rules]
Looks == {Look(v, <<At("name")>>, rs) : v \in DOMAIN Sources, rs \in BoundedSeq(MatchingRules, 2)}
         \cup {Look(1, p, rs) : p \in FoundAt \cup MissingAt, rs \in BoundedSeq(MatchingRules, 1)}

Edge(target, condition) ==
    [target |-> target, condition |-> condition, names |-> "x", label |-> FALSE]
EdgeLists ==
    {<<>>, <<Edge("x", "none")>>, <<Edge("d", "selectedNode"), Edge("y", "none")>>,
     <<Edge("y", "names"), Edge("d", "default")>>,
     <<Edge("y", "ifTrue"), Edge("x", "ifFalse")>>, <<Edge("gone", "ifTrue")>>}

\* Which node stands in, and whether it may
Spares == {<<"yes", "d", None>>, <<"unset", None, "d">>, <<"no", "d", "d">>,
           <<"yes", "gone", "d">>, <<"unset", None, None>>, <<"yes", None, "x">>}

Base(spare, edges) ==
    [kind |-> "unknown", condition |-> "missing", rules |-> <<>>, strategy |-> "first_match",
     enableFallback |-> spare[1], default |-> spare[2], fallback |-> spare[3],
     matcherDefault |-> None, context |-> 1, path |-> <<>>, fuzzy |-> FALSE,
     threshold |-> Unit, caseSensitive |-> FALSE, edges |-> edges]

MCNodes ==
    {Base(s, e) : s \in Spares, e \in EdgeLists}
    \cup {[Base(s, e) EXCEPT !.kind = "simple", !.condition = c] :
             s \in Spares, e \in EdgeLists, c \in {"true", "false", "missing"}}
    \cup {[Base(s, e) EXCEPT !.kind = "smart_router", !.rules = r, !.strategy = t] :
             s \in Spares, e \in EdgeLists, r \in BoundedSeq(RoutingRules, 2),
             t \in {"first_match", "best_match", "weighted_score", "unknown"}}
    \cup {[Base(<<"yes", "d", None>>, <<Edge("x", "none")>>)
              EXCEPT !.kind = "smart_router", !.rules = r, !.strategy = t] :
             r \in TupleOf(RoutingRules, 3),
             t \in {"first_match", "best_match", "weighted_score"}}
    \cup {[Base(s, <<Edge("d", "selectedNode")>>) EXCEPT !.kind = "value_matcher",
              !.rules = k.rules, !.context = k.context, !.path = k.path, !.fuzzy = t # Unit,
              !.threshold = t, !.caseSensitive = c, !.matcherDefault = m] :
             s \in {<<"yes", "d", None>>, <<"no", "d", None>>}, k \in Looks,
             t \in {Percent(60), Percent(65), Unit}, c \in BOOLEAN, m \in {"y", None}}
=============================================================================
