---------------------------- MODULE CalcGrammar -----------------------------
(***************************************************************************)
(* The formulas of MicroCalc as mcalc.doc defines them, by the grammar it  *)
(* gave to YACC: for each nonterminal the set of trees of a sequence of    *)
(* tokens.  Nothing of the parser's tables is used.                        *)
(***************************************************************************)
EXTENDS Integers, SequencesExt

RECURSIVE e(_), t(_), f(_), x(_), u(_)

(* w split at one of the operators ops: it, and what is before and after. *)
Splits(w, ops) ==
  {<<w[i].type, SubSeq(w, 1, i - 1), SubSeq(w, i + 1, Len(w))>> :
     i \in {j \in 2 .. Len(w) - 1 : w[j].type \in ops}}

e(w) == t(w) \cup UNION {{<<s[1], a, b>> : a \in e(s[2]), b \in t(s[3])} : s \in Splits(w, {"+", "-"})}
t(w) == f(w) \cup UNION {{<<s[1], a, b>> : a \in t(s[2]), b \in f(s[3])} : s \in Splits(w, {"*", "/"})}
f(w) == x(w) \cup UNION {{<<s[1], a, b>> : a \in x(s[2]), b \in f(s[3])} : s \in Splits(w, {"^"})}
x(w) == IF w # << >> /\ w[1].type = "-" THEN {<<"-", a>> : a \in u(Tail(w))} ELSE u(w)

(* The sum of a group of cells, which lie in a row or in a column in order. *)
InLine(c, d) == (c[3] = d[3] /\ c[2] <= d[2]) \/ (c[2] = d[2] /\ c[3] <= d[3])

u(w) ==
  LET is(types) == [i \in DOMAIN w |-> w[i].type] = types
      inside(i) == SubSeq(w, i, Len(w) - 1)
      closed == Len(w) >= 3 /\ w[Len(w)].type = ")"
  IN  CASE is(<<"CELL", ":", "CELL">>) ->
             {<<"sum", c[1], c[2]>> : c \in {d \in {<<w[1].x, w[3].x>>} : InLine(d[1], d[2])}}
        [] is(<<"CELL">>) -> {<<"cell", w[1].x>>}
        [] is(<<"NUM">>) -> {<<"num">>}
        [] closed /\ w[1].type = "(" -> e(inside(2))
        [] closed /\ w[1].type = "FUNC" /\ w[2].type = "(" -> {<<"func", a>> : a \in e(inside(3))}
        [] OTHER -> {}
=============================================================================
