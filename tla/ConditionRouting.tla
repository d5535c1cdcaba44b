---------------------------- MODULE ConditionRouting ----------------------------
(***************************************************************************)
(* How a condition node chooses the next node: WorkflowEngineService's     *)
(* executeConditionNode evaluates the node's rules one after the other,    *)
(* sorts those that match and takes the first; continueToNextNode turns    *)
(* the chosen id into an edge.  WorkflowWalk leaves the choice open; here  *)
(* it is computed from the rules.                                          *)
(*                                                                         *)
(* The value an expression has in the context is part of the rule: what    *)
(* JavaScript makes of it as a text, a number and a truth value.           *)
(***************************************************************************)
EXTENDS Integers, Sequences, FiniteSets, SequencesExt

CONSTANTS
    Letters,        \* texts are sequences of them
    MaxText,        \* the letters of the longest text: strings have a maximal length
    Lower,          \* Lower[c]: c in lower case
    Open,           \* a letter that makes a regular expression invalid
    Ids,            \* what an edge or a rule may name: a node can be gone
    Existing,       \* the nodes of the workflow
    None,           \* no node
    Contexts,       \* contexts of executions
    ContextValues,  \* those and all the values in them
    ConditionNodes  \* condition nodes: their data and their outgoing edges

\* Scores are multiples of 1/Unit, rounded down: exact for texts of up to six letters
\* and tolerances that divide Unit, and for longer texts when they are compared with a
\* threshold; of other scores, close ones tie
Unit == 60
Percent(n) == (n * Unit) \div 100

Texts == BoundedSeq(Letters, MaxText)

\* A value: String(v), whether it is truthy, Number(v) unless that is NaN
Value == [text: Texts, truthy: BOOLEAN, numeric: BOOLEAN, number: Int]

\* A value of a context: value is what it converts to; fields are its own properties,
\* those of a text or an array its length and its letters or elements
NoValue == [text |-> <<>>, truthy |-> FALSE, numeric |-> FALSE, number |-> 0]
NoFields == [key \in {} |-> NoValue]
Undefined == [kind |-> "undefined", value |-> NoValue, fields |-> NoFields]
Null == [kind |-> "null", value |-> NoValue, fields |-> NoFields]
Scalar(v, fields) == [kind |-> "scalar", value |-> v, fields |-> fields]
Object(v, fields) == [kind |-> "object", value |-> v, fields |-> fields]
Array(v, items, fields) == [kind |-> "array", value |-> v, items |-> items, fields |-> fields]

\* One key of a path: a field's, with an index or without, as in items[0]
PathStep == [key: STRING, index: Seq(Nat)]

\* A rule of a smart_router; answer is what its customMatcher returns.  Absent
\* priorities and weights are 0
RoutingRule == [target: Ids \cup {None}, enabled: BOOLEAN, type: STRING, value: Value,
                expected: Value, tolerance: Int, priority: Int, weight: Int,
                answer: [kind: {"throws", "true", "false", "object"}, score: Int]]

\* A rule of a value_matcher; min and max are <<>> when they are absent
MatchingRule == [target: Ids \cup {None}, enabled: BOOLEAN, type: STRING,
                 values: Seq(Value), priority: Int, min: Seq(Int), max: Seq(Int)]

\* An edge: its condition, the node it names, whether its label says default
RoutingEdge == [target: Ids \cup {None}, names: Ids \cup {None}, label: BOOLEAN,
         condition: {"none", "selectedNode", "default", "names", "ifTrue", "ifFalse"}]

\* A strategy nobody knows sorts nothing
Strategies == {"first_match", "best_match", "weighted_score", "unknown"}

ASSUME RoutingAssumption ==
    /\ MaxText \in Nat
    /\ Lower \in [Letters -> Letters] /\ \A c \in Letters : Lower[Lower[c]] = Lower[c]
    /\ Open \in Letters /\ Existing \subseteq Ids /\ None \notin Ids
    /\ \A c \in DOMAIN Contexts : Contexts[c] \in ContextValues
    /\ \A v \in ContextValues :
          /\ v.value \in Value
          /\ \A key \in DOMAIN v.fields : v.fields[key] \in ContextValues
          /\ v.kind = "array" => v.items \in Seq(ContextValues)
    /\ \A n \in ConditionNodes :
          /\ n.edges \in Seq(RoutingEdge)
          /\ n.kind = "smart_router" => n.rules \in Seq(RoutingRule) /\ n.strategy \in Strategies
          /\ n.kind = "value_matcher" => n.rules \in Seq(MatchingRule) /\ n.path \in Seq(PathStep)
                                         /\ n.context \in DOMAIN Contexts
                                         /\ n.fuzzy \in BOOLEAN /\ n.threshold \in Int

VARIABLES
    node,       \* the condition node being executed
    i,          \* the rule evaluated next
    matched,    \* the rules that match, with their scores, in order of evaluation
    result,     \* what executeConditionNode returns
    next,       \* the node executed next
    pc

vars == <<node, i, matched, result, next, pc>>

NoResult == [holds |-> FALSE, selected |-> None, usedDefault |-> FALSE]

Init ==
    /\ node \in ConditionNodes
    /\ i = 1 /\ matched = <<>> /\ result = NoResult /\ next = None
    /\ pc = "rules"

-----------------------------------------------------------------------------
(* The value a value_matcher looks at *)

Field(v, key) == IF key \in DOMAIN v.fields THEN v.fields[key] ELSE Undefined
\* An index without a key is one of the value itself, and only an array has any
Follow(v, step) ==
    LET list == IF step.key = "" THEN v ELSE Field(v, step.key) IN
    CASE step.index = <<>> -> Field(v, step.key)
      [] OTHER -> IF list.kind = "array" /\ step.index[1] + 1 \in DOMAIN list.items
                  THEN list.items[step.index[1] + 1] ELSE Undefined
\* getNestedValue
NestedValue(context, path) ==
    LET after[n \in 0..Len(path)] ==
            IF n = 0 THEN context ELSE Follow(after[n - 1], path[n])
    IN IF path = <<>> THEN Undefined ELSE after[Len(path)]

Source == NestedValue(Contexts[node.context], node.path).value
Found == NestedValue(Contexts[node.context], node.path).kind \notin {"undefined", "null"}

-----------------------------------------------------------------------------
(* Does a rule match, and with what score? *)

Hit(holds, score) == [matched |-> holds, score |-> IF holds THEN score ELSE 0]
Includes(s, t) == \E k \in 0..(Len(s) - Len(t)) : SubSeq(s, k + 1, k + Len(t)) = t
Lowered(s) == [k \in DOMAIN s |-> Lower[s[k]]]
\* Regular expressions are literal texts here; RegExp rejects some
Tests(pattern, s) == ~Contains(pattern, Open) /\ Includes(s, pattern)
Distance(a, b) == IF a < b THEN b - a ELSE a - b

\* evaluateRoutingRule; a rule that throws does not match.  An expected value or a
\* tolerance of 0 counts as missing, and an object as true whatever it says
RoutingHit(r) ==
    CASE r.type = "contains" ->
             Hit(r.expected.truthy /\ Includes(Lowered(r.value.text), Lowered(r.expected.text)),
                 Percent(80))
      [] r.type = "regex" ->
             Hit(r.expected.truthy /\ Tests(r.expected.text, r.value.text), Percent(90))
      [] r.type = "range" ->
             LET off == Distance(r.value.number, r.expected.number) IN
             Hit(r.expected.truthy /\ r.expected.numeric /\ r.value.numeric
                     /\ r.tolerance # 0 /\ off <= r.tolerance,
                 IF r.tolerance = 0 THEN 0 ELSE (Unit * (r.tolerance - off)) \div r.tolerance)
      [] r.type = "custom" ->
             Hit(r.answer.kind \in {"true", "object"},
                 IF r.answer.kind = "object" /\ r.answer.score # 0 THEN r.answer.score ELSE Unit)
      [] OTHER -> Hit(r.value.truthy, Unit)

\* Plausible bug: a replaced letter costs an insertion and a deletion
ReplaceCost_Both(a, b) == IF a = b THEN 0 ELSE 2
ReplaceCost(a, b) == IF a = b THEN 0 ELSE 1
\* calculateStringSimilarity: the table of edit distances, row by row
NextRow(s, t, m, row) ==
    LET cell[n \in 0..Len(t)] ==
            IF n = 0 THEN m
            ELSE Min({row[n] + 1, cell[n - 1] + 1, row[n - 1] + ReplaceCost(s[m], t[n])})
    IN cell
EditDistance(s, t) ==
    LET matrix[m \in 0..Len(s)] ==
            IF m = 0 THEN [n \in 0..Len(t) |-> n] ELSE NextRow(s, t, m, matrix[m - 1])
    IN matrix[Len(s)][Len(t)]
Similarity(s, t) ==
    LET longest == IF Len(s) < Len(t) THEN Len(t) ELSE Len(s) IN
    IF longest = 0 THEN Unit ELSE ((longest - EditDistance(s, t)) * Unit) \div longest

\* What both texts become before they are compared
Compared(s) == IF node.caseSensitive THEN s ELSE Lowered(s)

\* One of the values of a rule, without the fuzzy comparison
ValueHit(r, v) ==
    LET s == Compared(Source.text)
        t == Compared(v.text)
        low  == IF r.min = <<>> THEN v.number ELSE r.min[1]
        high == IF r.max = <<>> THEN v.number ELSE r.max[1]
    IN CASE r.type = "exact" -> Hit(s = t, Unit)
         [] r.type = "contains" -> Hit(Includes(s, t), Percent(80))
         [] r.type = "startsWith" -> Hit(IsPrefix(t, s), Percent(90))
         [] r.type = "endsWith" -> Hit(IsSuffix(t, s), Percent(90))
         [] r.type = "regex" -> Hit(Tests(t, s), Percent(95))
         [] r.type = "range" -> Hit(Source.numeric /\ v.numeric
                                        /\ Source.number \in low..high, Unit)
         [] OTHER -> Hit(FALSE, 0)
FuzzyHit(r, v) ==
    LET similarity == Similarity(Compared(Source.text), Compared(v.text)) IN
    Hit(r.type = "exact" /\ node.fuzzy /\ similarity >= node.threshold, similarity)

EitherHit(r, v) == IF ValueHit(r, v).matched THEN ValueHit(r, v) ELSE FuzzyHit(r, v)

\* evaluateValueMatchingRule: the first of its values that matches gives the score
MatchingHit(r) ==
    LET first == SelectInSeq(r.values, LAMBDA v : EitherHit(r, v).matched)
    IN IF first = 0 THEN Hit(FALSE, 0) ELSE EitherHit(r, r.values[first])

RuleHit(r) == IF node.kind = "value_matcher" THEN MatchingHit(r) ELSE RoutingHit(r)

-----------------------------------------------------------------------------
(* executeConditionNode *)

\* The next rule, unless it is disabled
EvaluateRule ==
    /\ pc = "rules" /\ node.kind \in {"smart_router", "value_matcher"}
    /\ node.kind = "value_matcher" => Found
    /\ i <= Len(node.rules)
    /\ i' = i + 1
    /\ matched' = LET r == node.rules[i] IN
                  IF r.enabled /\ RuleHit(r).matched
                  THEN Append(matched, [rule |-> r, score |-> RuleHit(r).score])
                  ELSE matched
    /\ UNCHANGED <<node, result, next, pc>>

Weight(r) == IF r.weight = 0 THEN 1 ELSE r.weight

\* Does match a come before match b in the sorted list?
Precedes(a, b) ==
    IF node.kind = "value_matcher"
    THEN \/ a.rule.priority > b.rule.priority
         \/ a.rule.priority = b.rule.priority /\ a.score > b.score
    ELSE CASE node.strategy = "first_match" -> a.rule.priority > b.rule.priority
           [] node.strategy = "best_match" -> a.score > b.score
           [] node.strategy = "weighted_score" ->
                  (3 * Unit * a.rule.priority + 7 * a.score) * Weight(a.rule)
                      > (3 * Unit * b.rule.priority + 7 * b.score) * Weight(b.rule)

\* Plausible bug: of two equal matches the later one comes first
Place_Unstable(x, sorted) == Cardinality({k \in DOMAIN sorted : Precedes(sorted[k], x)}) + 1
\* Where a match goes: behind those it does not precede
Place(x, sorted) == Cardinality({k \in DOMAIN sorted : ~Precedes(x, sorted[k])}) + 1
\* Array.sort, which is stable
Sorted(s) ==
    LET first[n \in 0..Len(s)] ==
            IF n = 0 THEN <<>> ELSE InsertAt(first[n - 1], Place(s[n], first[n - 1]), s[n])
    IN first[Len(s)]

\* The first of the sorted matches; none under an unknown strategy
Chosen ==
    IF matched = <<>> \/ (node.kind = "smart_router" /\ node.strategy = "unknown")
    THEN None ELSE Sorted(matched)[1].rule.target

OrDefault(r) ==
    IF r.selected # None \/ node.enableFallback = "no" THEN r
    ELSE IF node.default # None THEN [r EXCEPT !.selected = node.default, !.usedDefault = TRUE]
    ELSE [r EXCEPT !.selected = node.fallback]

\* All rules are evaluated
SelectTarget ==
    /\ pc = "rules" /\ i > Len(node.rules)
    /\ \/ /\ node.kind = "smart_router"
          /\ result' = OrDefault([NoResult EXCEPT !.holds = matched # <<>>, !.selected = Chosen])
       \/ /\ node.kind = "value_matcher" /\ Found
          /\ result' = OrDefault(
                 IF matched # <<>> THEN [NoResult EXCEPT !.holds = TRUE, !.selected = Chosen]
                 ELSE [NoResult EXCEPT !.selected = node.matcherDefault,
                                       !.usedDefault = node.matcherDefault # None])
    /\ pc' = "route"
    /\ UNCHANGED <<node, i, matched, next>>

\* The field a value_matcher looks at is not in the context
FieldMissing ==
    /\ pc = "rules" /\ node.kind = "value_matcher" /\ ~Found
    /\ result' = OrDefault([NoResult EXCEPT !.selected = node.matcherDefault,
                                            !.usedDefault = TRUE])
    /\ pc' = "route"
    /\ UNCHANGED <<node, i, matched, next>>

\* A simple condition; its selectedNodeId is a word no edge looks at
EvaluateSimple ==
    /\ pc = "rules" /\ node.kind = "simple" /\ node.condition # "missing"
    /\ result' = [NoResult EXCEPT !.holds = node.condition = "true"]
    /\ pc' = "route"
    /\ UNCHANGED <<node, i, matched, next>>

\* Without a condition or a configuration, or of a kind nobody knows: the error is turned into the
\* default, or thrown on
Misconfigured ==
    /\ pc = "rules"
    /\ node.kind = "unknown" \/ (node.kind = "simple" /\ node.condition = "missing")
    /\ LET target == IF node.default # None THEN node.default ELSE node.fallback IN
       IF node.enableFallback # "no" /\ target # None
       THEN pc' = "route" /\ result' = [NoResult EXCEPT !.selected = target]
       ELSE pc' = "failed" /\ UNCHANGED result
    /\ UNCHANGED <<node, i, matched, next>>

-----------------------------------------------------------------------------
(* continueToNextNode *)

\* The target of the first edge that suits, in a sequence: without one there is none
FirstTo(Suits(_)) ==
    LET k == SelectInSeq(node.edges, Suits) IN IF k = 0 THEN <<>> ELSE <<node.edges[k].target>>

\* An edge to the chosen node; the first edge `selectedNode', or one whose condition
\* names the node; the node itself
Selected ==
    LET s == result.selected
        direct == FirstTo(LAMBDA e : e.target = s)
        special == FirstTo(LAMBDA e :
                       e.condition = "selectedNode" \/ (e.condition = "names" /\ e.names = s))
    IN IF s = None THEN <<>>
       ELSE IF direct # <<>> THEN direct
       ELSE IF special # <<>> THEN special
       ELSE IF s \in Existing THEN <<s>> ELSE <<>>

\* A node without a kind is simple: its edges are asked for their conditions
Followed ==
    IF node.kind = "simple"
    THEN FirstTo(LAMBDA e : e.condition = IF result.holds THEN "ifTrue" ELSE "ifFalse")
    ELSE IF Selected = <<>> /\ result.usedDefault
         THEN FirstTo(LAMBDA e : e.condition \in {"default", "none"} \/ e.label)
         ELSE Selected

\* Plausible bug: the last resort is forgotten
LastResort_Never == <<>>
\* The default node itself, when enableFallback is set and not only left out
LastResort ==
    LET target == IF node.default # None THEN node.default ELSE node.fallback IN
    IF node.enableFallback = "yes" /\ target \in Existing THEN <<target>> ELSE <<>>

Continue ==
    /\ pc = "route"
    /\ LET target == IF Followed # <<>> THEN Followed ELSE LastResort IN
       CASE node.edges = <<>> -> pc' = "completed" /\ UNCHANGED next
         [] node.edges # <<>> /\ target # <<>> /\ target[1] \in Existing ->
                pc' = "routed" /\ next' = target[1]
         [] OTHER -> pc' = "failed" /\ UNCHANGED next
    /\ UNCHANGED <<node, i, matched, result>>

Next == EvaluateRule \/ SelectTarget \/ FieldMissing \/ EvaluateSimple \/ Misconfigured \/ Continue

Spec == Init /\ [][Next]_vars

-----------------------------------------------------------------------------
Match(k) == [rule |-> node.rules[k], score |-> RuleHit(node.rules[k]).score]
Candidates == {k \in DOMAIN node.rules : node.rules[k].enabled /\ RuleHit(node.rules[k]).matched}
Wins(k) == \A j \in Candidates \ {k} :
               ~Precedes(Match(j), Match(k)) /\ (Precedes(Match(k), Match(j)) \/ k < j)
Spare == IF node.enableFallback = "no" THEN None
         ELSE IF node.default # None THEN node.default ELSE node.fallback

\* The targets the rules ask for: that of the best one, else the default
Wanted ==
    LET known == IF node.kind = "smart_router" THEN node.strategy # "unknown" ELSE Found
    IN IF known /\ Candidates # {} THEN {node.rules[k].target : k \in {c \in Candidates : Wins(c)}}
       ELSE {IF node.kind = "smart_router" THEN None ELSE node.matcherDefault}

\* Whatever rules are disabled, throw or stand in between: the node chosen is that of
\* the one enabled rule that matches and is beaten by none in the order of the
\* strategy, the earliest of equals; without such a rule, or when it names no node,
\* the default (executeSmartRouting, executeValueMatching, executeConditionNode).
BestRuleWins ==
    pc # "rules" /\ node.kind \in {"smart_router", "value_matcher"} =>
        /\ Cardinality(Wanted) = 1
        /\ \/ result.selected \in Wanted \ {None}
           \/ None \in Wanted /\ result.selected = Spare

OneEdit(s, t) ==
    \/ Len(s) = Len(t) /\ Cardinality({k \in DOMAIN s : s[k] # t[k]}) = 1
    \/ Len(t) = Len(s) + 1 /\ \E k \in DOMAIN t : RemoveAt(t, k) = s
    \/ Len(s) = Len(t) + 1 /\ \E k \in DOMAIN s : RemoveAt(s, k) = t
\* EditsAway[s][n]: the texts that are at most n edits away from s
EditsAway ==
    LET away(s) == LET r[n \in 0..MaxText] == IF n = 0 THEN {s} ELSE
                           r[n - 1] \cup {t \in Texts : \E u \in r[n - 1] : OneEdit(u, t)}
                   IN r
    IN [s \in Texts |-> away(s)]

\* Two texts are similar enough exactly when the first becomes the second by few
\* enough insertions, deletions and replacements of single letters, case aside where
\* it does not matter (calculateStringSimilarity, evaluateValueMatchingRule).
FuzzyIsEditDistance ==
    node.kind = "value_matcher" /\ Found /\ node.fuzzy =>
        \A k \in DOMAIN node.rules : \A m \in DOMAIN node.rules[k].values :
            LET r == node.rules[k]
                s == Compared(Source.text)
                t == Compared(r.values[m].text)
                longest == IF Len(s) < Len(t) THEN Len(t) ELSE Len(s)
            IN r.type = "exact" =>
                 (FuzzyHit(r, r.values[m]).matched <=>
                     \E n \in 0..longest : /\ t \in EditsAway[s][n] /\ node.threshold <= Unit
                                           /\ (longest - n) * Unit >= node.threshold * longest)

\* With enableFallback set, a default that exists and no edge into nowhere, a
\* condition node never fails an execution: not by rules that throw, name a node that
\* is gone or match nothing, nor by its own configuration (executeConditionNode,
\* continueToNextNode).
FallbackHolds ==
    /\ node.enableFallback = "yes" /\ Spare \in Existing
    /\ \A k \in DOMAIN node.edges : node.edges[k].target \in Existing
    => pc # "failed"
=============================================================================
