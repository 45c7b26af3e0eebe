----------------------------- MODULE KconfigExpr -----------------------------
(***************************************************************************)
(* Dependency expressions of Kconfig: their values, the rewriting          *)
(* menu_finalize puts them through, and the decision to list an entry      *)
(* below the one before it.                                                *)
(***************************************************************************)
EXTENDS KconfigJoin, Sequences

CONSTANTS
  Exprs,  \* the expressions
  Depth,  \* bound: how deep chains may lie in one another
  Rounds  \* bound: of the rounds in which operands are joined

ASSUME DepthAssumption == Depth \in Nat /\ Rounds \in Nat

Val(e, v) ==
  LET val[d \in Exprs] ==
        CASE d.op = "none" -> 2
          [] d.op = "not"  -> 2 - val[d.arg]
          [] d.op = "and"  -> Lesser(val[d.left], val[d.right])
          [] d.op = "or"   -> Greater(val[d.left], val[d.right])
          [] OTHER         -> AtomVal(d, v)
  IN  val[e]

-----------------------------------------------------------------------------
(* Rewriting.                                                              *)

\* The operands of a chain of one operator, and the chain of some operands.
\* (How a chain is nested is left out: nothing depends on it.)
Operands(op, e) ==
  LET of[d \in Exprs] == IF d.op = op THEN of[d.left] \o of[d.right] ELSE <<d>>
  IN  of[e]
ChainOf(op, es) ==
  LET upTo[k \in 0..(Len(es) - 1)] ==
        IF k = 0 THEN es[1] ELSE Junction(op, upTo[k - 1], es[k + 1])
  IN  upTo[Len(es) - 1]

\* A chain without the constants among its operands, given the operands' own.
WithoutYn(op, l, r) ==
  CASE l = Zero(op)    -> l
    [] l = Neutral(op) -> r
    [] r = Zero(op)    -> r
    [] r = Neutral(op) -> l
    [] OTHER           -> Junction(op, l, r)
EliminateYn[e \in Exprs] ==
  IF e.op \in Junctions THEN WithoutYn(e.op, EliminateYn[e.left], EliminateYn[e.right]) ELSE e

\* <<1, 1>>, ..., <<1, n>>, <<2, 1>>, ...
IndexPairs(m, n) == [k \in 1..(m * n) |-> <<((k - 1) \div n) + 1, ((k - 1) % n) + 1>>]

\* Operands the two chains c share are replaced by the neutral element; same
\* tells which are.
Differ(same, l, r) == (l = r /\ l \in {Yes, No}) \/ ~same[<<l, r>>]
CancelPair(same, op, i, j, c) ==
  IF Differ(same, c[1][i], c[2][j]) THEN c
  ELSE <<[c[1] EXCEPT ![i] = Neutral(op)], [c[2] EXCEPT ![j] = Neutral(op)]>>
CancelPairs(same, op, pairs, c) ==
  LET upTo[k \in 0..Len(pairs)] ==
        IF k = 0 THEN c ELSE CancelPair(same, op, pairs[k][1], pairs[k][2], upTo[k - 1])
  IN  upTo[Len(pairs)]
CancelChains(same, op, c) == CancelPairs(same, op, IndexPairs(Len(c[1]), Len(c[2])), c)
Cancel(same, op, p) ==
  LET Chains(c) == [i \in {1, 2} |-> ChainOf(op, c[i])]
  IN  Chains(CancelChains(same, op, [i \in {1, 2} |-> Operands(op, p[i])]))

\* expr_eliminate_eq
CancelLeft(same, p) == IF p[1].op \in Junctions THEN Cancel(same, p[1].op, p) ELSE p
CancelRight(same, op, p) ==
  IF p[2].op \in Junctions \ {op} THEN Cancel(same, p[2].op, p) ELSE p
Eliminated(same, p) ==
  LET Final(q) == [i \in {1, 2} |-> EliminateYn[q[i]]]
  IN  IF Nothing \in {p[1], p[2]} THEN p ELSE Final(CancelRight(same, p[1].op, CancelLeft(same, p)))

EqualBy(same, d, e) ==
  LET OneSymbol(r) == r[1] = r[2] /\ r[1].op = "sym"
  IN  /\ d.op = e.op
      /\ CASE d.op = "not"       -> same[<<d.arg, e.arg>>]
           [] d.op \in Junctions -> OneSymbol(Eliminated(same, <<d, e>>))
           [] OTHER              -> d = e
EqualUpTo[n \in Nat] ==
  [p \in Exprs \X Exprs |-> n # 0 /\ EqualBy(EqualUpTo[n - 1], p[1], p[2])]
ExprEq(d, e) == EqualUpTo[Depth][<<d, e>>]
EliminateEq(p) == Eliminated(EqualUpTo[Depth], p)

Join(op, d, e) ==
  IF ExprEq(d, e) THEN d ELSE IF op = "or" THEN JoinOr(d, e) ELSE JoinAnd(d, e)

\* Operand i of a chain, which is d with its own operands joined, and operand
\* j are joined: one becomes the neutral element, the other the two of them.
JoinPair(op, s, i, j, d, both) ==
  CASE i = j -> s
    [] i # j /\ both = Nothing ->
         [expr |-> [s.expr EXCEPT ![i] = d.expr], joined |-> s.joined \/ d.joined]
    [] OTHER -> [expr |-> [s.expr EXCEPT ![i] = Neutral(op), ![j] = both], joined |-> TRUE]

\* Each operand of a chain is joined with every other, after its own.
Unjoined(e) == [expr |-> e, joined |-> FALSE]
JoinPairs(inner, op, pairs, es) ==
  LET Joined(s, i, j, d) == JoinPair(op, s, i, j, d, Join(op, d.expr, s.expr[j]))
      Next(s, i, j) == Joined(s, i, j, inner[s.expr[i]])
      upTo[k \in 0..Len(pairs)] ==
        IF k = 0 THEN Unjoined(es) ELSE Next(upTo[k - 1], pairs[k][1], pairs[k][2])
  IN  upTo[Len(pairs)]
JoinChain(inner, op, es) == JoinPairs(inner, op, IndexPairs(Len(es), Len(es)), es)
Rejoined(inner, e) ==
  LET Chain(s) == [s EXCEPT !.expr = ChainOf(e.op, @)]
  IN  Chain(JoinChain(inner, e.op, Operands(e.op, e)))
JoinedUpTo[n \in Nat] ==
  [e \in Exprs |-> IF n # 0 /\ e.op \in Junctions THEN Rejoined(JoinedUpTo[n - 1], e) ELSE Unjoined(e)]

\* Until nothing is left to join.
Round(r) ==
  LET After(j) == IF j.joined THEN [j EXCEPT !.expr = EliminateYn[@]] ELSE j
  IN  IF r.joined THEN After(JoinedUpTo[Depth][r.expr]) ELSE r
RoundsOf(e) ==
  LET upTo[k \in Nat] == IF k = 0 THEN [expr |-> e, joined |-> TRUE] ELSE Round(upTo[k - 1])
  IN  upTo[Rounds]
EliminateDups(e) == RoundsOf(e).expr

\* Negations are moved down to the symbols.  What an operand has become
\* stays as it is when it is transformed again.
NotOf == [y |-> "n", m |-> "m", n |-> "y"]
Negated[e \in Exprs] ==
  CASE e.op \in Junctions ->
         Junction(Opposite[e.op], Negated[e.left], Negated[e.right])
    [] e.op = "not" -> e.arg
    [] e.op \in Relations -> Compare(Opposite[e.op], e.sym, e.with)
    [] e.op = "sym" /\ e.sym \in DOMAIN NotOf -> Symbol(NotOf[e.sym])
    [] OTHER -> Not(e)
Transform[e \in Exprs] ==
  CASE e.op \in Junctions ->
         Junction(e.op, Transform[e.left], Transform[e.right])
    [] e.op \in {"eq", "ne"} /\ KindOf(e.sym) = "bool" -> TransformBool(e)
    [] e.op = "not" -> Negated[Transform[e.arg]]
    [] OTHER -> e

\* Nothing but symbols are negated.
Flat[e \in Exprs] ==
  CASE e.op \in Junctions -> Flat[e.left] /\ Flat[e.right]
    [] e.op = "not" -> e.arg.op \in {"sym", "none"}
    [] OTHER -> TRUE

\* In an expression about a symbol that cannot be 'm', FOO!=n is FOO.
TransBool[e \in Exprs] ==
  CASE e.op \in Junctions ->
         Junction(e.op, TransBool[e.left], TransBool[e.right])
    [] e.op = "not" -> Not(TransBool[e.arg])
    [] e.op = "ne" /\ KindOf(e.sym) = "tri" /\ e.with = "n" -> Symbol(e.sym)
    [] OTHER -> e

\* An entry's dependencies and those of its prompt, under its parent's.
BaseDep(parentdep, dep) == EliminateDups(And(parentdep, Transform[dep]))
PromptDep(kind, basedep, dep) ==
  LET Typed(e) == IF kind = "tri" THEN e ELSE TransBool[e]
  IN  Typed(EliminateDups(And(basedep, Transform[dep])))

-----------------------------------------------------------------------------
(* Which entries are listed below the one before them.                     *)

ContainsSymbol(e, s) ==
  LET on[d \in Exprs] ==
        CASE d.op = "none"      -> FALSE
          [] d.op = "sym"       -> d.sym = s
          [] d.op = "not"       -> on[d.arg]
          [] d.op \in Relations -> s \in {d.sym, d.with}
          [] d.op \in Junctions -> on[d.left] \/ on[d.right]
  IN  on[e]

\* The expression is 'n' unless the symbol is something else; through is what
\* it looks into.
DependsThrough(through, e, s) ==
  LET on[d \in Exprs] ==
        CASE d.op \in through -> on[d.left] \/ on[d.right]
          [] d.op = "sym" -> d.sym = s
          [] d.op = "eq"  -> d.sym = s /\ d.with \in {"y", "m"}
          [] d.op = "ne"  -> d.sym = s /\ d.with = "n"
          [] OTHER        -> FALSE
  IN  on[e]

\* Mutant: one side of an or is enough.
DependsSymbolThroughOr(e, s) == DependsThrough(Junctions, e, s)

DependsSymbol(e, s) == DependsThrough({"and"}, e, s)

\* The expression compared with 'n', either way.
TransCompare(e, op) ==
  LET compared[d \in Exprs] ==
        [o \in {"eq", "ne"} |->
           LET Negate(c) == IF o = "ne" THEN Not(c) ELSE c
           IN  CASE d.op = "none" -> Negate(No)
                 [] d.op = "sym"  -> Compare(o, d.sym, "n")
                 [] d.op = "not"  -> compared[d.arg][Opposite[o]]
                 [] d.op \in Junctions ->
                      Negate(Junction(Opposite[d.op], compared[d.left]["eq"], compared[d.right]["eq"]))
                 [] d.op \in Relations -> IF o = "ne" THEN d ELSE Not(d)]
  IN  compared[e][op]

\* An entry that depends on dep, after one of symbol s whose prompt depends
\* on basedep, is listed below that one.
Normals(p) == [i \in {1, 2} |-> EliminateDups(Transform[TransCompare(p[i], "ne")])]
Nested(s, basedep, dep) ==
  /\ ContainsSymbol(dep, s)
  /\ DependsSymbol(dep, s) \/ EliminateEq(Normals(<<dep, basedep>>))[2] = Yes
=============================================================================
