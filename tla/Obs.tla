--------------------------------- MODULE Obs ---------------------------------
(***************************************************************************)
(* internal/primitives/obs: the alert rules over the metrics.  Evaluate    *)
(* holds the lock of the alerts from start to end; the operators below are *)
(* what it does to the states of the rules.                                *)
(***************************************************************************)
EXTENDS Metrics, FiniteSetsExt, SequencesExt

(* A rule is [id, expr, for]; an expression is a sequence of                *)
(* <<kind, value>>, of kind "name", "op", "num", "{" or "}".  since = -1    *)
(* stands for the zero time.                                                *)

CompareOp(op, v, t) ==
  CASE op = ">"  -> v > t
    [] op = "<"  -> v < t
    [] op = ">=" -> v >= t
    [] op = "<=" -> v <= t
    [] op = "==" -> v = t
    [] op = "!=" -> v # t

\* The tokens outside label blocks; a block that is not closed has no end.
Inside(expr, i) ==
  \E j \in 1..i : expr[j][1] = "{" /\ \A k \in j..(i - 1) : expr[k][1] # "}"

\* indexOutside: where the operator first occurs outside the blocks, or 0.
IndexOutside(expr, op) ==
  LET at == {i \in DOMAIN expr : expr[i] = <<"op", op>> /\ ~Inside(expr, i)}
  IN IF at = {} THEN 0 ELSE Min(at)

\* splitExpr: operators are tried in this order (one that begins another comes
\* after it); the name is everything before the operator, label block included.
SplitExpr(expr) ==
  LET found == SelectSeq(<<">=", "<=", "==", "!=", ">", "<">>, LAMBDA op : IndexOutside(expr, op) > 0)
      i     == IndexOutside(expr, Head(found))
  IN IF found = <<>> THEN [ok |-> FALSE]
     ELSE IF i = Len(expr) THEN [ok |-> FALSE]
     ELSE IF expr[i + 1][1] # "num" THEN [ok |-> FALSE]
     ELSE [ok |-> TRUE, name |-> SubSeq(expr, 1, i - 1), op |-> Head(found), threshold |-> expr[i + 1][2]]

FreshState == [firing |-> FALSE, since |-> -1]

NewAlerts == [rules |-> <<>>, state |-> << >>]

Add(al, r) == [rules |-> Append(al.rules, r), state |-> With(al.state, r.id, FreshState)]

\* The state of every rule's ID.
StateOf(al) == al.state

\* evalExpr: the series of the metric, whose values are added up; none if the
\* expression does not split.
EvalExpr(reg, expr) ==
  LET e == SplitExpr(expr)
  IN IF ~e.ok THEN {} ELSE {k \in DOMAIN reg : e.name = <<<<"name", k[1]>>>>}

SumOf(reg, series) == MapThenSumSet(LAMBDA k : reg[k].value, series)

MatchesThreshold(expr, v) ==
  LET e == SplitExpr(expr) IN e.ok /\ CompareOp(e.op, v, e.threshold)

\* Mutant of EvaluateOne: resolving keeps the time since when it was pending.
EvaluateOneKeeps(st, r, reg, now) ==
  IF EvalExpr(reg, r.expr) = {} THEN st
  ELSE IF ~MatchesThreshold(r.expr, SumOf(reg, EvalExpr(reg, r.expr))) THEN [st EXCEPT !.firing = FALSE]
  ELSE IF st.firing THEN st
  ELSE IF st.since = -1 THEN [st EXCEPT !.since = now]
  ELSE IF now - st.since >= r.for THEN [st EXCEPT !.firing = TRUE]
  ELSE st

\* The body of Evaluate's loop for the state that a rule's ID names.
EvaluateOne(st, r, reg, now) ==
  IF EvalExpr(reg, r.expr) = {} THEN st
  ELSE IF ~MatchesThreshold(r.expr, SumOf(reg, EvalExpr(reg, r.expr))) THEN FreshState
  ELSE IF st.firing THEN st
  ELSE IF st.since = -1 THEN [st EXCEPT !.since = now]
  ELSE IF now - st.since >= r.for THEN [st EXCEPT !.firing = TRUE]
  ELSE st

Evaluate(al, reg, now) ==
  [al EXCEPT !.state =
     FoldLeft(LAMBDA state, r : [state EXCEPT ![r.id] = EvaluateOne(@, r, reg, now)],
              al.state, al.rules)]
==============================================================================
