------------------------------- MODULE BlueQL -------------------------------
(***************************************************************************)
(* The hunting language (packages/blueql: engine.py): the recursive        *)
(* descent parser over tokens, and the evaluation of its trees on events.  *)
(*                                                                         *)
(* A query is a sequence of tokens.  A comparison is written with three    *)
(* tokens, a field, an operator and a literal.  Fields are the facts an    *)
(* event has, and names the engine does not know; the only literal is      *)
(* TRUE, so an event satisfies a comparison when it has the fact.          *)
(***************************************************************************)
EXTENDS Telemetry

CONSTANTS
  UnknownFields, \* identifiers that are not fields of an event
  Within         \* seconds written after WITHIN

Keywords == {"FROM", "WHERE", "FOLLOWED_BY", "WITHIN", "OR", "AND", "NOT", "IN"}
Literals == {"TRUE"}
Punctuation == {"(", ")", ",", "=", "!="}
Durations == {"duration"}
Tokens == Facts \cup UnknownFields \cup Keywords \cup Literals \cup Punctuation \cup Durations

\* take_ident takes any word, a keyword included.
Identifiers == Facts \cup UnknownFields \cup Keywords \cup Literals

Node(kind, value, children) == [kind |-> kind, value |-> value, children |-> children]

\* What a parsing function leaves: a tree and the next position, or the
\* position at which it raised BlueQLError.
Parsed(node, pos) == [ok |-> TRUE, node |-> node, pos |-> pos]
Failed(pos) == [ok |-> FALSE, node |-> Node("none", "", <<>>), pos |-> pos]

At(q, i, words) == i <= Len(q) /\ q[i] \in words

\* The literals of an IN list from position i to its closing parenthesis.
RECURSIVE InList(_, _, _, _)
InList(q, field, i, values) ==
  IF ~At(q, i, Literals) THEN Failed(i)
  ELSE IF At(q, i + 1, {","}) THEN InList(q, field, i + 2, Append(values, q[i]))
  ELSE IF At(q, i + 1, {")"}) THEN Parsed(Node("in", field, Append(values, q[i])), i + 2)
  ELSE Failed(i + 1)

\* What the parsing functions make of the results of those they call; one that
\* raised is passed on.
Negation(inner) == IF inner.ok THEN Parsed(Node("not", "", <<inner.node>>), inner.pos) ELSE inner
Closed(q, inner) ==
  IF ~inner.ok THEN inner
  ELSE IF At(q, inner.pos, {")"}) THEN Parsed(inner.node, inner.pos + 1) ELSE Failed(inner.pos)
Joined(kind, left, right) ==
  IF right.ok THEN Parsed(Node(kind, "", <<left.node, right.node>>), right.pos) ELSE right

RECURSIVE OrExpr(_, _), AndExpr(_, _), Primary(_, _), OrLoop(_, _), AndLoop(_, _)

\* _primary
Primary(q, i) ==
  IF At(q, i, {"NOT"}) THEN Negation(Primary(q, i + 1))
  ELSE IF At(q, i, {"("}) THEN Closed(q, OrExpr(q, i + 1))
  ELSE IF ~At(q, i, Identifiers) THEN Failed(i)
  ELSE IF At(q, i + 1, {"IN"})
  THEN IF At(q, i + 2, {"("}) THEN InList(q, q[i], i + 3, <<>>) ELSE Failed(i + 2)
  ELSE IF ~At(q, i + 1, {"=", "!="}) THEN Failed(i + 1)
  ELSE IF ~At(q, i + 2, Literals) THEN Failed(i + 2)
  ELSE Parsed(Node("cmp", <<q[i], q[i + 1]>>, <<q[i + 2]>>), i + 3)

\* The loops of _and_expr and _or_expr, from what has been parsed: left
\* associative.
AndLoop(q, left) ==
  IF ~left.ok \/ ~At(q, left.pos, {"AND"}) THEN left
  ELSE AndLoop(q, Joined("and", left, Primary(q, left.pos + 1)))

AndExpr(q, i) == AndLoop(q, Primary(q, i))

\* Mutant: the operators are applied from left to right, without precedence.
OrLoop_Flat(q, left) ==
  IF ~left.ok \/ ~At(q, left.pos, {"OR"}) THEN AndLoop(q, left)
  ELSE OrLoop(q, Joined("or", left, Primary(q, left.pos + 1)))

OrLoop(q, left) ==
  IF ~left.ok \/ ~At(q, left.pos, {"OR"}) THEN left
  ELSE OrLoop(q, Joined("or", left, AndExpr(q, left.pos + 1)))

OrExpr(q, i) == OrLoop(q, AndExpr(q, i))

\* FOLLOWED_BY steps after what has been parsed, then WITHIN.
RECURSIVE Steps(_, _, _)
Steps(q, steps, last) ==
  LET all == Append(steps, last.node)
      form == IF Len(all) > 1 THEN "sequence" ELSE "filter"
  IN  IF ~last.ok THEN last
      ELSE IF At(q, last.pos, {"FOLLOWED_BY"}) THEN Steps(q, all, OrExpr(q, last.pos + 1))
      ELSE IF ~At(q, last.pos, {"WITHIN"}) THEN Parsed(Node(form, 0, all), last.pos)
      ELSE IF At(q, last.pos + 1, Durations) THEN Parsed(Node(form, Within, all), last.pos + 2)
      ELSE Failed(last.pos + 1)

Entity(name, pred) == IF pred.ok THEN Parsed(Node("entity", name, <<pred.node>>), pred.pos) ELSE pred

Root(q) ==
  IF ~At(q, 1, {"FROM"}) THEN Steps(q, <<>>, OrExpr(q, 1))
  ELSE IF ~At(q, 2, Identifiers) THEN Failed(2)
  ELSE IF ~At(q, 3, {"WHERE"}) THEN Failed(3)
  ELSE Entity(q[2], OrExpr(q, 4))

\* parse: the root, and nothing left over.
NothingLeft(q, root) == IF root.ok /\ root.pos <= Len(q) THEN Failed(root.pos) ELSE root
parse(q) == NothingLeft(q, Root(q))

-----------------------------------------------------------------------------
(* Evaluation.  The outcome is "yes", "no", or "raise" for an unknown field. *)

\* _field_value and _compare: a boolean fact compared with TRUE.
Compare(event, field, op) ==
  IF field \notin Facts THEN "raise"
  ELSE IF (field \in event.facts) = (op = "=") THEN "yes" ELSE "no"

Negated(outcome) == [yes |-> "no", no |-> "yes", raise |-> "raise"][outcome]

\* all() and any() stop at the first child that decides.
RECURSIVE EvalPred(_, _)
EvalPred(node, event) ==
  CASE node.kind = "not" -> Negated(EvalPred(node.children[1], event))
    [] node.kind = "and" ->
         LET left == EvalPred(node.children[1], event)
         IN  IF left = "yes" THEN EvalPred(node.children[2], event) ELSE left
    [] node.kind = "or" ->
         LET left == EvalPred(node.children[1], event)
         IN  IF left = "no" THEN EvalPred(node.children[2], event) ELSE left
    [] node.kind = "in" -> Compare(event, node.value, "=")
    [] node.kind = "cmp" -> Compare(event, node.value[1], node.value[2])
=============================================================================
