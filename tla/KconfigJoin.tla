----------------------------- MODULE KconfigJoin -----------------------------
(***************************************************************************)
(* Dependency expressions of Kconfig, the values of symbols and of         *)
(* comparisons, and the joins of two of them (expr_join_or, expr_join_and).*)
(***************************************************************************)
EXTENDS Naturals

CONSTANT Kind   \* type of each symbol: "bool", "tri" or "string"

\* No symbol has the name of one of the strings.
ASSUME KindAssumption ==
  /\ DOMAIN Kind \cap {"", "m", "n", "path", "y", "none"} = {}
  /\ \A s \in DOMAIN Kind : Kind[s] \in {"bool", "tri", "string"}

\* The constants 'y', 'm' and 'n', like every symbol without a type, have
\* their name as value.
Yes == [op |-> "sym", sym |-> "y"]
Mod == [op |-> "sym", sym |-> "m"]
No  == [op |-> "sym", sym |-> "n"]
Nothing == [op |-> "none"]   \* NULL
Symbol(s) == [op |-> "sym", sym |-> s]
Not(e)    == [op |-> "not", arg |-> e]
Junction(op, d, e) == [op |-> op, left |-> d, right |-> e]
Compare(op, s, c) == [op |-> op, sym |-> s, with |-> c]

Junctions   == {"and", "or"}
Relations   == {"eq", "ne", "lt", "le", "gt", "ge"}
KindOf(s)   == IF s \in DOMAIN Kind THEN Kind[s] ELSE "const"
Neutral(op) == IF op = "and" THEN Yes ELSE No
Zero(op)    == IF op = "and" THEN No ELSE Yes
Opposite == [eq |-> "ne", ne |-> "eq", lt |-> "ge", ge |-> "lt", gt |-> "le", le |-> "gt",
             and |-> "or", or |-> "and"]

\* The strings of the model, in the order strcmp puts them in.
Order == <<"", "m", "n", "path", "y">>
Words == {Order[i] : i \in DOMAIN Order}

\* Expressions, by how deep they are nested.  A symbol by itself is one that
\* can be on, or 'y' or 'n': without modules rewrite_m leaves no 'm', and a
\* string by itself has no value.
Terms    == DOMAIN Kind \cup Words
Switches == {s \in DOMAIN Kind : Kind[s] # "string"} \cup {"y", "n"}
Atoms    == [op : {"sym"}, sym : Switches] \cup [op : Relations, sym : Terms, with : Terms]
Expr[n \in Nat] ==
  IF n = 0 THEN Atoms \cup {Nothing}
  ELSE LET E == Expr[n - 1]
       IN  Atoms \cup {Nothing} \cup [op : {"not"}, arg : E] \cup [op : Junctions, left : E, right : E]

Join2(op, d, e) ==
  IF d = Nothing THEN e ELSE IF e = Nothing THEN d ELSE Junction(op, d, e)
And(d, e) == Join2("and", d, e)
Or(d, e)  == Join2("or", d, e)

-----------------------------------------------------------------------------
(* Values: v is the string each symbol has.                                *)

\* EXPR_AND and EXPR_OR
Lesser(i, j)  == IF i < j THEN i ELSE j
Greater(i, j) == IF i < j THEN j ELSE i

TriOf == [n |-> 0, m |-> 1, y |-> 2]
StringOf(s, v) == IF s \in DOMAIN v THEN v[s] ELSE s
Rank(x) == CHOOSE i \in DOMAIN Order : Order[i] = x

Holds(op, i, j) ==
  CASE op = "eq" -> i = j [] op = "ne" -> i # j [] op = "lt" -> i < j
    [] op = "le" -> i <= j [] op = "gt" -> i > j [] op = "ge" -> i >= j

\* The value of a symbol or of a comparison.
AtomVal(e, v) ==
  CASE e.op = "sym" -> IF KindOf(e.sym) = "string" THEN 0 ELSE TriOf[StringOf(e.sym, v)]
    [] e.op \in Relations ->
         IF Holds(e.op, Rank(StringOf(e.sym, v)), Rank(StringOf(e.with, v))) THEN 2 ELSE 0

-----------------------------------------------------------------------------
(* Joins.                                                                  *)

\* The symbol an operand is about, if the joins can look at it.
SubjectOf(e, ops) ==
  CASE e.op \in {"eq", "ne", "sym"}             -> e.sym
    [] e.op = "not" -> IF e.arg.op \in ops THEN e.arg.sym ELSE "none"
    [] OTHER                                    -> "none"
Joinable(d, e) ==
  LET s == SubjectOf(d, {"eq", "ne", "sym"})
  IN  s = SubjectOf(e, {"sym"}) /\ KindOf(s) \in {"bool", "tri"}

Comparing(d, e, op) == d.op = op /\ e.op = op /\ d.with # e.with
                         /\ {d.with, e.with} \subseteq {"y", "m", "n"}

\* Mutant: what the comment of the last join of two inequalities says.
ThirdAsCommented(c, d) ==
  IF {c, d} = {"m", "n"} THEN "m" ELSE CHOOSE x \in {"y", "m", "n"} : x \notin {c, d}

Third(c, d) == CHOOSE x \in {"y", "m", "n"} : x \notin {c, d}

\* e1 || e2, or NULL
JoinOr(d, e) ==
  IF ~Joinable(d, e) THEN Nothing
  ELSE LET s == SubjectOf(d, {"eq", "ne", "sym"})
       IN  CASE KindOf(s) = "tri" /\ Comparing(d, e, "eq")
                  -> Compare("ne", s, Third(d.with, e.with))
             [] KindOf(s) = "bool" /\ {d, e} = {Symbol(s), Not(Symbol(s))} -> Yes
             [] OTHER -> Nothing

\* One of the two is the symbol itself, the other compares it so.
SymbolAnd(d, e, op, c) ==
  \/ d.op = "sym" /\ e.op = op /\ e.with = c
  \/ e.op = "sym" /\ d.op = op /\ d.with = c

\* e1 && e2, or NULL
JoinAnd(d, e) ==
  IF ~Joinable(d, e) THEN Nothing
  ELSE LET s  == SubjectOf(d, {"eq", "ne", "sym"})
           eq == IF d.op = "eq" THEN d ELSE e
           ne == IF d.op = "ne" THEN d ELSE e
       IN  CASE SymbolAnd(d, e, "eq", "y") -> Compare("eq", s, "y")
             [] SymbolAnd(d, e, "ne", "n") -> Symbol(s)
             [] SymbolAnd(d, e, "ne", "m") -> Compare("eq", s, "y")
             [] KindOf(s) = "tri" /\ {d.op, e.op} = {"eq", "ne"}
                  /\ KindOf(eq.with) = "const" /\ KindOf(ne.with) = "const"
                  -> IF eq.with # ne.with THEN Compare("eq", s, eq.with) ELSE No
             [] KindOf(s) = "tri" /\ Comparing(d, e, "ne")
                  -> Compare("eq", s, Third(d.with, e.with))
             [] OTHER -> Nothing

\* A comparison of a bool symbol with 'y', 'm' or 'n' is the symbol or not.
TransformBool(e) ==
  CASE [op |-> e.op, with |-> e.with] \in
         {[op |-> "eq", with |-> "y"], [op |-> "ne", with |-> "n"]} -> Symbol(e.sym)
    [] [op |-> e.op, with |-> e.with] \in
         {[op |-> "eq", with |-> "n"], [op |-> "ne", with |-> "y"]} -> Not(Symbol(e.sym))
    [] e.with = "m" -> IF e.op = "eq" THEN No ELSE Yes
    [] OTHER -> e
=============================================================================
