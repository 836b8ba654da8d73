---------------------------- MODULE HuntLanguage ----------------------------
(***************************************************************************)
(* The language of module BlueQL against a second definition of it, by     *)
(* spans of the token sequence, for the queries the analyst types.         *)
(***************************************************************************)
EXTENDS Hunts, BlueQL

RECURSIVE IsPred(_, _, _)
IsPred(q, i, j) ==
  \/ /\ j = i + 2
     /\ q[i] \in Identifiers \ {"NOT"} /\ q[i + 1] \in {"=", "!="} /\ q[j] \in Literals
  \/ /\ j >= i + 4 /\ (j - i) % 2 = 0
     /\ q[i] \in Identifiers \ {"NOT"} /\ q[i + 1] = "IN" /\ q[i + 2] = "(" /\ q[j] = ")"
     /\ \A k \in (i + 3)..(j - 1) : IF (k - i) % 2 = 1 THEN q[k] \in Literals ELSE q[k] = ","
  \/ i < j /\ q[i] = "NOT" /\ IsPred(q, i + 1, j)
  \/ i + 1 < j /\ q[i] = "(" /\ q[j] = ")" /\ IsPred(q, i + 1, j - 1)
  \/ \E k \in (i + 1)..(j - 1) : q[k] \in {"AND", "OR"} /\ IsPred(q, i, k - 1) /\ IsPred(q, k + 1, j)

RECURSIVE AreSteps(_, _, _)
AreSteps(q, i, j) ==
  \/ IsPred(q, i, j)
  \/ \E k \in (i + 1)..(j - 1) : q[k] = "FOLLOWED_BY" /\ IsPred(q, i, k - 1) /\ AreSteps(q, k + 1, j)

IsQuery(q) ==
  LET n == Len(q)
  IN  IF n > 0 /\ q[1] = "FROM"
      THEN n > 3 /\ q[2] \in Identifiers /\ q[3] = "WHERE" /\ IsPred(q, 4, n)
      ELSE \/ AreSteps(q, 1, n)
           \/ n > 2 /\ q[n - 1] = "WITHIN" /\ q[n] \in Durations /\ AreSteps(q, 1, n - 2)

\* The value of a span: OR binds loosest, then AND, then NOT; from left to
\* right, and no further than needed.
RECURSIVE Value(_, _, _, _)
Value(q, i, j, event) ==
  LET Splits(op) == {k \in (i + 1)..(j - 1) : q[k] = op /\ IsPred(q, i, k - 1) /\ IsPred(q, k + 1, j)}
      First(S) == CHOOSE k \in S : \A m \in S : k <= m
      Lazy(op, goOn) ==
        LET left == Value(q, i, First(Splits(op)) - 1, event)
        IN  IF left = goOn THEN Value(q, First(Splits(op)) + 1, j, event) ELSE left
  IN  IF Splits("OR") # {} THEN Lazy("OR", "no")
      ELSE IF Splits("AND") # {} THEN Lazy("AND", "yes")
      ELSE IF q[i] = "NOT" THEN Negated(Value(q, i + 1, j, event))
      ELSE IF q[i] = "(" THEN Value(q, i + 1, j - 1, event)
      ELSE Compare(event, q[i], IF q[i + 1] = "IN" THEN "=" ELSE q[i + 1])

(* The parser accepts exactly the grammar: every complete query, and none   *)
(* with anything missing or left over (parse and the functions it calls).   *)
AcceptsTheGrammar == table = <<>> => (parse(Query).ok <=> IsQuery(Query))

(* A filter means what its text says: NOT binds tighter than AND, AND       *)
(* tighter than OR, parentheses override, and an unknown field raises only  *)
(* on an event that makes the evaluation reach it (_or_expr, _and_expr,     *)
(* _primary and _eval_pred against the definition by spans).                *)
MeansWhatItSays ==
  table = <<>> /\ IsPred(Query, 1, Len(Query)) /\ Query[1] # "FROM" =>
    \A facts \in SUBSET Facts :
      EvalPred(parse(Query).node.children[1], [facts |-> facts]) =
        Value(Query, 1, Len(Query), [facts |-> facts])

(* The language is its grammar: what is accepted and what it means          *)
(* (parse, _eval_pred).                                                     *)
LanguageExact == AcceptsTheGrammar /\ MeansWhatItSays
=============================================================================
