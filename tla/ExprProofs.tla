------------------------------- MODULE ExprProofs -------------------------------
(***************************************************************************)
(* What menu_finalize and expr.c do to the dependencies of Kconfig, for    *)
(* every expression, every configuration and every bound on depth and      *)
(* rounds.  The functions on expressions are recursive: AllExprs is their  *)
(* induction and StructuralRecursion says that they exist, so that each    *)
(* has the equations it is defined by.  A value is looked at one threshold *)
(* at a time (AtLeast), which makes of a chain a conjunction or            *)
(* disjunction over its operands; operands may then be joined, cancelled   *)
(* and replaced in place.                                                  *)
(***************************************************************************)
EXTENDS Kconfig, WellFoundedInduction, TLAPS

-----------------------------------------------------------------------------
(* Numbers.                                                                *)

\* A set of numbers that has 0 and with each number the next has them all.
LEMMA AllNumbers ==
  ASSUME NEW T \in SUBSET Nat, 0 \in T, \A n \in T : n + 1 \in T
  PROVE  T = Nat
<1>1. SUFFICES ASSUME NEW n \in Nat \ T PROVE FALSE
  OBVIOUS
<1>2. IsWellFoundedOn(OpToRel(<, Nat), Nat)
  BY NatLessThanWellFounded
<1>3. PICK x \in Nat \ T : \A y \in Nat \ T : ~ (<<y, x>> \in OpToRel(<, Nat))
  BY <1>1, <1>2, WFMin
<1>4. \A y \in Nat \ T : ~(y < x)
  BY <1>3 DEF OpToRel
<1>5. x \in Nat /\ x # 0 /\ x \notin T
  OBVIOUS
<1>6. x - 1 \in Nat /\ x - 1 < x /\ (x - 1) + 1 = x
  BY <1>5
<1>7. x - 1 \in T
  BY <1>4, <1>6
<1> QED
  BY <1>5, <1>6, <1>7

-----------------------------------------------------------------------------
(* The expressions.                                                        *)

\* Expressions nested to any depth.
Unbounded == Exprs = UNION {Expr[n] : n \in Nat}

Deeper(E) == Atoms \cup {Nothing} \cup [op : {"not"}, arg : E] \cup [op : Junctions, left : E, right : E]
IsLevels(f, m) == f = [n \in 0..m |-> IF n = 0 THEN Atoms \cup {Nothing} ELSE Deeper(f[n - 1])]

\* Each level is what can be made of the one before.
LEMMA LevelsOf ==
  ASSUME NEW f, NEW m \in Nat, IsLevels(f, m)
  PROVE  /\ f[0] = Atoms \cup {Nothing}
         /\ \A n \in Nat : n + 1 <= m => f[n + 1] = Deeper(f[n])
<1>1. f = [n \in 0..m |-> IF n = 0 THEN Atoms \cup {Nothing} ELSE Deeper(f[n - 1])]
  BY DEF IsLevels
<1>2. \A n \in 0..m : f[n] = IF n = 0 THEN Atoms \cup {Nothing} ELSE Deeper(f[n - 1])
  BY <1>1
<1>3. 0 \in 0..m /\ \A n \in Nat : n + 1 <= m => n + 1 \in 0..m /\ n + 1 # 0 /\ (n + 1) - 1 = n
  OBVIOUS
<1>4. ASSUME NEW n \in Nat, n + 1 <= m
      PROVE  f[n + 1] = Deeper(f[n])
  <2>1. f[n + 1] = Deeper(f[(n + 1) - 1])
    BY <1>2, <1>3, <1>4
  <2> QED
    BY <1>3, <1>4, <2>1
<1> QED
  BY <1>2, <1>3, <1>4

\* The levels can be built as high as is asked for.
LEMMA LevelsExist == \A m \in Nat : \E f : IsLevels(f, m)
<1> DEFINE T == {m \in Nat : \E f : IsLevels(f, m)}
<1>1. 0 \in T
  <2>1. IsLevels([n \in 0..0 |-> Atoms \cup {Nothing}], 0)
    BY DEF IsLevels
  <2> QED
    BY <2>1
<1>2. ASSUME NEW m \in T
      PROVE  m + 1 \in T
  <2>1. PICK f : IsLevels(f, m)
    BY <1>2
  <2> DEFINE g == [n \in 0..(m + 1) |-> IF n = m + 1 THEN Deeper(f[m]) ELSE f[n]]
  <2>2. ASSUME NEW n \in 0..(m + 1)
        PROVE  g[n] = IF n = 0 THEN Atoms \cup {Nothing} ELSE Deeper(g[n - 1])
    <3>1. CASE n = m + 1
      BY <3>1
    <3>2. CASE n # m + 1
      <4>1. n \in 0..m /\ (n # 0 => n - 1 \in 0..m) /\ m \in Nat
        BY <3>2, <2>2, <1>2
      <4>2. f[n] = IF n = 0 THEN Atoms \cup {Nothing} ELSE Deeper(f[n - 1])
        BY <2>1, <4>1 DEF IsLevels
      <4>3. g[n] = f[n] /\ (n # 0 => g[n - 1] = f[n - 1])
        BY <3>2, <4>1
      <4> QED
        BY <4>2, <4>3
    <3> QED
      BY <3>1, <3>2
  <2>3. g = [n \in 0..(m + 1) |-> g[n]]
    OBVIOUS
  <2> HIDE DEF g
  <2>4. IsLevels(g, m + 1)
    BY <2>2, <2>3 DEF IsLevels
  <2> QED
    BY <1>2, <2>4
<1>3. T = Nat
  BY <1>1, <1>2, AllNumbers
<1> QED
  BY <1>3

\* The levels do not depend on how many are built.
LEMMA LevelsAgree ==
  ASSUME NEW f, NEW g, NEW k \in Nat, NEW m \in Nat, IsLevels(f, k), IsLevels(g, m)
  PROVE  \A n \in Nat : n <= k /\ n <= m => f[n] = g[n]
<1> DEFINE T == {n \in Nat : n <= k /\ n <= m => f[n] = g[n]}
<1>1. 0 \in T
  BY LevelsOf
<1>2. ASSUME NEW n \in T
      PROVE  n + 1 \in T
  <2>1. SUFFICES ASSUME n + 1 <= k, n + 1 <= m PROVE f[n + 1] = g[n + 1]
    OBVIOUS
  <2>2. f[n] = g[n]
    BY <1>2, <2>1
  <2>3. f[n + 1] = Deeper(f[n]) /\ g[n + 1] = Deeper(g[n])
    BY <1>2, <2>1, LevelsOf
  <2> QED
    BY <2>2, <2>3
<1>3. T = Nat
  BY <1>1, <1>2, AllNumbers
<1> QED
  BY <1>3

\* The equations that define Expr.
LEMMA ExprIs ==
  /\ Expr[0] = Atoms \cup {Nothing}
  /\ \A n \in Nat : Expr[n + 1] = Deeper(Expr[n])
<1> DEFINE L(m) == CHOOSE f : IsLevels(f, m)
           F == [n \in Nat |-> L(n)[n]]
<1>1. \A m \in Nat : IsLevels(L(m), m)
  BY LevelsExist
<1> HIDE DEF L
<1>2. F[0] = Atoms \cup {Nothing}
  BY <1>1, LevelsOf
<1>3. ASSUME NEW n \in Nat
      PROVE  F[n + 1] = Deeper(F[n])
  <2>1. L(n + 1)[n + 1] = Deeper(L(n + 1)[n])
    BY <1>1, LevelsOf
  <2>2. L(n + 1)[n] = L(n)[n]
    BY <1>1, LevelsAgree
  <2> QED
    BY <2>1, <2>2
<1>4. \A n \in Nat : F[n] = IF n = 0 THEN Atoms \cup {Nothing} ELSE Deeper(F[n - 1])
  <2> SUFFICES ASSUME NEW n \in Nat
               PROVE  F[n] = IF n = 0 THEN Atoms \cup {Nothing} ELSE Deeper(F[n - 1])
    OBVIOUS
  <2>1. CASE n = 0
    BY <1>2, <2>1
  <2>2. CASE n # 0
    <3>1. n - 1 \in Nat /\ (n - 1) + 1 = n
      BY <2>2
    <3>2. F[(n - 1) + 1] = Deeper(F[n - 1])
      BY <1>3, <3>1
    <3> QED
      BY <2>2, <3>1, <3>2
  <2> QED
    BY <2>1, <2>2
<1>5. F = [n \in Nat |-> F[n]]
  OBVIOUS
<1> HIDE DEF F
<1>6. F = [n \in Nat |-> IF n = 0 THEN Atoms \cup {Nothing} ELSE Deeper(F[n - 1])]
  BY <1>4, <1>5
<1>7. Expr = [n \in Nat |-> IF n = 0 THEN Atoms \cup {Nothing} ELSE Deeper(Expr[n - 1])]
  BY <1>6 DEF Expr, Deeper
<1>8. \A n \in Nat : Expr[n] = IF n = 0 THEN Atoms \cup {Nothing} ELSE Deeper(Expr[n - 1])
  BY <1>7
<1>9. ASSUME NEW n \in Nat
      PROVE  Expr[n + 1] = Deeper(Expr[n])
  <2>1. n + 1 \in Nat /\ n + 1 # 0 /\ (n + 1) - 1 = n
    OBVIOUS
  <2>2. Expr[n + 1] = Deeper(Expr[(n + 1) - 1])
    BY <1>8, <2>1
  <2> QED
    BY <2>1, <2>2
<1> QED
  BY <1>8, <1>9

\* The fields of what expressions are made as, and that the constants differ.
LEMMA JunctionIs ==
  ASSUME NEW op, NEW d, NEW e
  PROVE  /\ Junction(op, d, e).op = op /\ Junction(op, d, e).left = d /\ Junction(op, d, e).right = e
         /\ Not(d).op = "not" /\ Not(d).arg = d
         /\ Nothing.op = "none" /\ Yes.op = "sym" /\ No.op = "sym"
         /\ Yes # No /\ Yes # Nothing /\ No # Nothing
BY DEF Junction, Not, Nothing, Yes, No

\* What an atom looks like.
LEMMA AtomOp ==
  ASSUME NEW e \in Atoms
  PROVE  /\ e.op \in {"sym"} \cup Relations /\ e # Nothing
         /\ e.op = "sym" => e.sym \in Switches /\ e = Symbol(e.sym)
         /\ e.op \in Relations => e.sym \in Terms /\ e.with \in Terms /\ e = Compare(e.op, e.sym, e.with)
BY DEF Atoms, Relations, Nothing, Symbol, Compare

\* What a member of the next level is made of.
LEMMA DeeperIs ==
  ASSUME NEW E, NEW e \in Deeper(E)
  PROVE  /\ e.op = "not" => e.arg \in E /\ e = Not(e.arg)
         /\ e.op \in Junctions => e.left \in E /\ e.right \in E /\ e = Junction(e.op, e.left, e.right)
         /\ e.op # "not" /\ e.op \notin Junctions => e \in Atoms \cup {Nothing}
         /\ e.op \in {"none", "not", "sym"} \cup Junctions \cup Relations
<1>1. CASE e \in Atoms
  BY <1>1, AtomOp DEF Relations, Junctions
<1>2. CASE e = Nothing
  BY <1>2 DEF Nothing, Junctions
<1>3. CASE e \in [op : {"not"}, arg : E]
  BY <1>3 DEF Not, Junctions
<1>4. CASE e \in [op : Junctions, left : E, right : E]
  BY <1>4 DEF Junction, Junctions
<1> QED
  BY <1>1, <1>2, <1>3, <1>4 DEF Deeper

\* What the next level has.
LEMMA DeeperHas ==
  ASSUME NEW E
  PROVE  /\ Atoms \cup {Nothing} \subseteq Deeper(E)
         /\ \A e \in E : Not(e) \in Deeper(E)
         /\ \A op \in Junctions : \A d, e \in E : Junction(op, d, e) \in Deeper(E)
BY DEF Deeper, Not, Junction

\* Every level has the ones before it.
LEMMA LevelsGrow == \A n \in Nat : Expr[n] \subseteq Expr[n + 1]
<1> DEFINE T == {n \in Nat : Expr[n] \subseteq Expr[n + 1]}
<1>1. 0 \in T
  BY ExprIs, DeeperHas
<1>2. ASSUME NEW n \in T
      PROVE  n + 1 \in T
  <2>1. Expr[n + 1] = Deeper(Expr[n]) /\ Expr[(n + 1) + 1] = Deeper(Expr[n + 1])
    BY <1>2, ExprIs
  <2>2. Expr[n] \subseteq Expr[n + 1]
    BY <1>2
  <2>3. Deeper(Expr[n]) \subseteq Deeper(Expr[n + 1])
    BY <2>2 DEF Deeper
  <2> QED
    BY <1>2, <2>1, <2>3
<1>3. T = Nat
  BY <1>1, <1>2, AllNumbers
<1> QED
  BY <1>3

\* A level is part of every later one.
LEMMA LevelsNest ==
  ASSUME NEW m \in Nat
  PROVE  \A k \in Nat : Expr[m] \subseteq Expr[m + k]
<1> DEFINE T == {k \in Nat : Expr[m] \subseteq Expr[m + k]}
<1>1. 0 \in T
  OBVIOUS
<1>2. ASSUME NEW k \in T
      PROVE  k + 1 \in T
  <2>1. m + k \in Nat /\ m + (k + 1) = (m + k) + 1
    BY <1>2
  <2>2. Expr[m + k] \subseteq Expr[(m + k) + 1]
    BY <2>1, LevelsGrow
  <2> QED
    BY <1>2, <2>1, <2>2
<1>3. T = Nat
  BY <1>1, <1>2, AllNumbers
<1> QED
  BY <1>3

\* What expressions there are.
LEMMA ExprsHave ==
  ASSUME Unbounded
  PROVE  /\ Atoms \cup {Nothing} \subseteq Exprs
         /\ \A e \in Exprs : Not(e) \in Exprs
         /\ \A op \in Junctions : \A d, e \in Exprs : Junction(op, d, e) \in Exprs
<1>1. \A n \in Nat : Expr[n] \subseteq Exprs
  BY DEF Unbounded
<1>2. Atoms \cup {Nothing} \subseteq Exprs
  BY <1>1, ExprIs
<1>3. ASSUME NEW e \in Exprs
      PROVE  Not(e) \in Exprs
  <2>1. PICK n \in Nat : e \in Expr[n]
    BY DEF Unbounded
  <2>2. Not(e) \in Expr[n + 1]
    BY <2>1, ExprIs, DeeperHas
  <2> QED
    BY <1>1, <2>2
<1>4. ASSUME NEW op \in Junctions, NEW d \in Exprs, NEW e \in Exprs
      PROVE  Junction(op, d, e) \in Exprs
  <2>1. PICK m \in Nat : d \in Expr[m]
    BY DEF Unbounded
  <2>2. PICK n \in Nat : e \in Expr[n]
    BY DEF Unbounded
  <2>3. m + n \in Nat /\ n + m = m + n
    OBVIOUS
  <2>4. Expr[m] \subseteq Expr[m + n] /\ Expr[n] \subseteq Expr[n + m]
    BY LevelsNest
  <2>5. d \in Expr[m + n] /\ e \in Expr[m + n]
    BY <2>1, <2>2, <2>3, <2>4
  <2> DEFINE k == m + n
  <2> HIDE DEF k
  <2>6. k \in Nat /\ d \in Expr[k] /\ e \in Expr[k]
    BY <2>3, <2>5 DEF k
  <2>7. Expr[k + 1] = Deeper(Expr[k])
    BY <2>6, ExprIs
  <2>8. Junction(op, d, e) \in Expr[k + 1] /\ k + 1 \in Nat
    BY <2>6, <2>7, DeeperHas
  <2> QED
    BY <1>1, <2>8
<1> QED
  BY <1>2, <1>3, <1>4

\* What an expression is made of is an expression.
LEMMA ExprsAre ==
  ASSUME Unbounded, NEW e \in Exprs
  PROVE  /\ e.op = "not" => e.arg \in Exprs /\ e = Not(e.arg)
         /\ e.op \in Junctions =>
              e.left \in Exprs /\ e.right \in Exprs /\ e = Junction(e.op, e.left, e.right)
         /\ e.op # "not" /\ e.op \notin Junctions => e \in Atoms \cup {Nothing}
         /\ e.op \in {"none", "not", "sym"} \cup Junctions \cup Relations
<1>1. PICK n \in Nat : e \in Expr[n]
  BY DEF Unbounded
<1>2. e \in Expr[n + 1] /\ Expr[n + 1] = Deeper(Expr[n]) /\ Expr[n] \subseteq Exprs
  BY <1>1, LevelsGrow, ExprIs DEF Unbounded
<1>3. e \in Deeper(Expr[n])
  BY <1>2
<1> QED
  BY <1>2, <1>3, DeeperIs

\* Induction: a set that has the atoms and what can be made of its members.
LEMMA AllExprs ==
  ASSUME Unbounded, NEW T \in SUBSET Exprs, Atoms \cup {Nothing} \subseteq T,
         \A e \in Exprs : e.op = "not" /\ e.arg \in T => e \in T,
         \A e \in Exprs : e.op \in Junctions /\ e.left \in T /\ e.right \in T => e \in T
  PROVE  T = Exprs
<1> DEFINE N == {n \in Nat : Expr[n] \subseteq T}
<1>1. 0 \in N
  BY ExprIs
<1>2. ASSUME NEW n \in N
      PROVE  n + 1 \in N
  <2>1. SUFFICES ASSUME NEW e \in Expr[n + 1] PROVE e \in T
    BY <1>2
  <2>2. e \in Deeper(Expr[n]) /\ Expr[n] \subseteq T /\ e \in Exprs
    BY <1>2, <2>1, ExprIs DEF Unbounded
  <2>3. \/ e \in Atoms \cup {Nothing}
        \/ e.op = "not" /\ e.arg \in T
        \/ e.op \in Junctions /\ e.left \in T /\ e.right \in T
    BY <2>2, DeeperIs
  <2> QED
    BY <2>2, <2>3
<1>3. N = Nat
  BY <1>1, <1>2, AllNumbers
<1> QED
  BY <1>3 DEF Unbounded

\* Functions given step by step exist.
IsRun(f, b, step, m) == f = [n \in 0..m |-> IF n = 0 THEN b ELSE step[<<n, f[n - 1]>>]]

\* The equations of a function given step by step.
LEMMA RunOf ==
  ASSUME NEW f, NEW b, NEW step, NEW m \in Nat, IsRun(f, b, step, m)
  PROVE  f[0] = b /\ \A n \in Nat : n + 1 <= m => f[n + 1] = step[<<n + 1, f[n]>>]
<1>1. \A n \in 0..m : f[n] = IF n = 0 THEN b ELSE step[<<n, f[n - 1]>>]
  BY DEF IsRun
<1>3. 0 \in 0..m
  OBVIOUS
<1>4. f[0] = b
  BY <1>1, <1>3
<1>2. ASSUME NEW n \in Nat, n + 1 <= m
      PROVE  f[n + 1] = step[<<n + 1, f[n]>>]
  <2>1. n + 1 \in 0..m /\ n + 1 # 0 /\ (n + 1) - 1 = n
    BY <1>2
  <2>2. f[n + 1] = step[<<n + 1, f[(n + 1) - 1]>>]
    BY <1>1, <2>1
  <2> QED
    BY <2>1, <2>2
<1> QED
  BY <1>4, <1>2

\* There is one, however many steps it has.
LEMMA RunsExist ==
  ASSUME NEW b, NEW step
  PROVE  \A m \in Nat : \E f : IsRun(f, b, step, m)
<1> DEFINE T == {m \in Nat : \E f : IsRun(f, b, step, m)}
<1>1. 0 \in T
  <2>1. IsRun([n \in 0..0 |-> b], b, step, 0)
    BY DEF IsRun
  <2> QED
    BY <2>1
<1>2. ASSUME NEW m \in T
      PROVE  m + 1 \in T
  <2>1. PICK f : IsRun(f, b, step, m)
    BY <1>2
  <2> DEFINE g == [n \in 0..(m + 1) |-> IF n = m + 1 THEN step[<<m + 1, f[m]>>] ELSE f[n]]
  <2>2. ASSUME NEW n \in 0..(m + 1)
        PROVE  g[n] = IF n = 0 THEN b ELSE step[<<n, g[n - 1]>>]
    <3>1. m \in Nat
      BY <1>2
    <3>2. CASE n = m + 1
      <4>1. n # 0 /\ n - 1 = m /\ m \in 0..(m + 1) /\ m # m + 1
        BY <3>1, <3>2
      <4> QED
        BY <3>2, <4>1
    <3>3. CASE n # m + 1
      <4>1. n \in 0..m /\ (n # 0 => n - 1 \in 0..m)
        BY <3>1, <3>3, <2>2
      <4>2. f[n] = IF n = 0 THEN b ELSE step[<<n, f[n - 1]>>]
        BY <2>1, <4>1 DEF IsRun
      <4>3. g[n] = f[n] /\ (n # 0 => g[n - 1] = f[n - 1])
        BY <3>1, <3>3, <4>1
      <4> QED
        BY <4>2, <4>3
    <3> QED
      BY <3>2, <3>3
  <2>3. g = [n \in 0..(m + 1) |-> g[n]]
    OBVIOUS
  <2> HIDE DEF g
  <2>4. IsRun(g, b, step, m + 1)
    BY <2>2, <2>3 DEF IsRun
  <2> QED
    BY <1>2, <2>4
<1>3. T = Nat
  BY <1>1, <1>2, AllNumbers
<1> QED
  BY <1>3

\* Two of them agree as far as both go.
LEMMA RunsAgree ==
  ASSUME NEW b, NEW step, NEW f, NEW g, NEW k \in Nat, NEW m \in Nat,
         IsRun(f, b, step, k), IsRun(g, b, step, m)
  PROVE  \A n \in Nat : n <= k /\ n <= m => f[n] = g[n]
<1> DEFINE T == {n \in Nat : n <= k /\ n <= m => f[n] = g[n]}
<1>1. 0 \in T
  <2>1. f[0] = b /\ g[0] = b
    BY RunOf
  <2> QED
    BY <2>1
<1>2. ASSUME NEW n \in T
      PROVE  n + 1 \in T
  <2>1. SUFFICES ASSUME n + 1 <= k, n + 1 <= m PROVE f[n + 1] = g[n + 1]
    OBVIOUS
  <2>2. n \in Nat /\ f[n] = g[n]
    BY <1>2, <2>1
  <2>3. f[n + 1] = step[<<n + 1, f[n]>>]
    BY <2>1, <2>2, RunOf
  <2>4. g[n + 1] = step[<<n + 1, g[n]>>]
    BY <2>1, <2>2, RunOf
  <2> QED
    BY <2>2, <2>3, <2>4
<1>3. T = Nat
  BY <1>1, <1>2, AllNumbers
<1> QED
  BY <1>3

Steps(S) == [Nat \X S -> S]

\* A function on the numbers can be given by its value at 0 and its steps.
LEMMA NatRecursion ==
  ASSUME NEW S, NEW b \in S, NEW step \in Steps(S)
  PROVE  \E f \in [Nat -> S] : f[0] = b /\ \A n \in Nat : f[n + 1] = step[<<n + 1, f[n]>>]
<1> DEFINE R(m) == CHOOSE f : IsRun(f, b, step, m)
           F == [n \in Nat |-> R(n)[n]]
<1>1. \A m \in Nat : IsRun(R(m), b, step, m)
  BY RunsExist
<1> HIDE DEF R
<1>2. F[0] = b
  <2>1. IsRun(R(0), b, step, 0)
    BY <1>1
  <2>2. R(0)[0] = b
    BY <2>1, RunOf
  <2> QED
    BY <2>2
<1>3. ASSUME NEW n \in Nat
      PROVE  F[n + 1] = step[<<n + 1, F[n]>>]
  <2>1. n + 1 \in Nat /\ n <= n + 1 /\ n + 1 <= n + 1 /\ n <= n
    OBVIOUS
  <2>2. IsRun(R(n + 1), b, step, n + 1) /\ IsRun(R(n), b, step, n)
    BY <1>1, <2>1
  <2>3. R(n + 1)[n + 1] = step[<<n + 1, R(n + 1)[n]>>]
    BY <2>1, <2>2, RunOf
  <2>4. R(n + 1)[n] = R(n)[n]
    BY <2>1, <2>2, RunsAgree
  <2> QED
    BY <2>1, <2>3, <2>4
<1>4. F = [n \in Nat |-> F[n]]
  OBVIOUS
<1> HIDE DEF F
<1> DEFINE T == {n \in Nat : F[n] \in S}
<1>5. 0 \in T
  BY <1>2
<1>6. ASSUME NEW n \in T
      PROVE  n + 1 \in T
  <2>1. n \in Nat /\ n + 1 \in Nat /\ F[n] \in S
    BY <1>6
  <2>2. step[<<n + 1, F[n]>>] \in S
    BY <2>1 DEF Steps
  <2> QED
    BY <1>3, <2>1, <2>2
<1>7. T = Nat
  BY <1>5, <1>6, AllNumbers
<1>8. F \in [Nat -> S]
  BY <1>4, <1>7
<1> QED
  BY <1>2, <1>3, <1>8

\* Functions given by the operands of an expression exist.
LeafSteps(S)     == [Exprs -> S]
NotSteps(S)      == [Exprs \X S -> S]
JunctionSteps(S) == [Exprs \X S \X S -> S]
StepOf(leaf, neg, junct, g, e) ==
  IF e.op = "not" THEN neg[<<e, g[e.arg]>>]
  ELSE IF e.op \in Junctions THEN junct[<<e, g[e.left], g[e.right]>>] ELSE leaf[e]

\* The value for an expression is in the set the steps stay in.
LEMMA StepTyped ==
  ASSUME Unbounded, NEW S, NEW leaf \in [Exprs -> S], NEW neg \in [Exprs \X S -> S],
         NEW junct \in [Exprs \X S \X S -> S], NEW g \in [Exprs -> S], NEW e \in Exprs
  PROVE  StepOf(leaf, neg, junct, g, e) \in S
<1>1. e.op = "not" => g[e.arg] \in S
  BY ExprsAre
<1>2. e.op \in Junctions => g[e.left] \in S /\ g[e.right] \in S
  BY ExprsAre
<1> QED
  BY <1>1, <1>2 DEF StepOf

\* What is used of a function are its values for the operands.
LEMMA StepAlike ==
  ASSUME NEW leaf, NEW neg, NEW junct, NEW g, NEW h, NEW e,
         e.op = "not" => g[e.arg] = h[e.arg],
         e.op \in Junctions => g[e.left] = h[e.left] /\ g[e.right] = h[e.right]
  PROVE  StepOf(leaf, neg, junct, g, e) = StepOf(leaf, neg, junct, h, e)
BY DEF StepOf

\* A function on the expressions can be given by its values for atoms and by
\* how it goes on for a negation and a junction.
LEMMA StructuralRecursion ==
  ASSUME Unbounded, NEW S, NEW leaf \in LeafSteps(S), NEW neg \in NotSteps(S),
         NEW junct \in JunctionSteps(S)
  PROVE  \E f \in LeafSteps(S) : \A e \in Exprs : f[e] = StepOf(leaf, neg, junct, f, e)
<1> USE DEF LeafSteps, NotSteps, JunctionSteps
<1> DEFINE G == [Exprs -> S]
           step == [p \in Nat \X G |-> [e \in Exprs |-> StepOf(leaf, neg, junct, p[2], e)]]
           Last(e) == CHOOSE n \in Nat : e \in Expr[n]
<1>1. step \in Steps(G)
  <2>1. ASSUME NEW p \in Nat \X G
        PROVE  [e \in Exprs |-> StepOf(leaf, neg, junct, p[2], e)] \in G
    BY StepTyped
  <2> QED
    BY <2>1 DEF Steps
<1>2. leaf \in G
  OBVIOUS
<1>3. ASSUME NEW n \in Nat, NEW g \in G
      PROVE  step[<<n, g>>] = [e \in Exprs |-> StepOf(leaf, neg, junct, g, e)]
  OBVIOUS
<1> HIDE DEF step, G
<1>4. PICK F \in [Nat -> G] : F[0] = leaf /\ \A n \in Nat : F[n + 1] = step[<<n + 1, F[n]>>]
  BY ONLY <1>1, <1>2, NatRecursion
<1>13. \A n \in Nat : n + 1 \in Nat /\ F[n] \in G
  BY <1>4
<1>5. \A n \in Nat : \A e \in Exprs : F[n + 1][e] = StepOf(leaf, neg, junct, F[n], e)
  <2> SUFFICES ASSUME NEW n \in Nat PROVE \A e \in Exprs : F[n + 1][e] = StepOf(leaf, neg, junct, F[n], e)
    OBVIOUS
  <2>1. F[n + 1] = step[<<n + 1, F[n]>>] /\ n + 1 \in Nat /\ F[n] \in G
    BY <1>4, <1>13
  <2>2. step[<<n + 1, F[n]>>] = [e \in Exprs |-> StepOf(leaf, neg, junct, F[n], e)]
    BY <1>3, <2>1
  <2> QED
    BY <2>1, <2>2
<1>6. \A e \in Exprs : Last(e) \in Nat /\ e \in Expr[Last(e)]
  BY DEF Unbounded
<1> HIDE DEF Last
<1> DEFINE Same(n) == \A e \in Expr[n] : \A k \in Nat : n <= k => F[k + 1][e] = F[n + 1][e]
           T == {n \in Nat : Same(n)}
<1>7. 0 \in T
  <2> SUFFICES ASSUME NEW e \in Expr[0], NEW k \in Nat
               PROVE  F[k + 1][e] = F[0 + 1][e]
    OBVIOUS
  <2>1. e \in Exprs /\ e.op # "not" /\ e.op \notin Junctions
    <3>1. e \in Atoms \cup {Nothing}
      BY ExprIs
    <3> QED
      BY <3>1, ExprsHave, AtomOp, JunctionIs DEF Relations, Junctions
  <2>2. \A n \in Nat : F[n + 1][e] = leaf[e]
    BY <1>5, <2>1 DEF StepOf
  <2>3. 0 \in Nat
    OBVIOUS
  <2> QED
    BY <2>2, <2>3
<1>8. ASSUME NEW n \in T
      PROVE  n + 1 \in T
  <2>1. n \in Nat /\ n + 1 \in Nat /\ Same(n)
    BY <1>8
  <2>2. ASSUME NEW e \in Expr[n + 1], NEW k \in Nat, n + 1 <= k
        PROVE  F[k + 1][e] = F[(n + 1) + 1][e]
    <3>1. e \in Exprs /\ e \in Deeper(Expr[n])
      BY <2>1, <2>2, ExprIs DEF Unbounded
    <3>2. k - 1 \in Nat /\ n <= k - 1 /\ (k - 1) + 1 = k
      BY <2>1, <2>2
    <3>3. \A d \in Expr[n] : F[k][d] = F[n + 1][d]
      BY <2>1, <3>2
    <3>4. /\ e.op = "not" => e.arg \in Expr[n]
          /\ e.op \in Junctions => e.left \in Expr[n] /\ e.right \in Expr[n]
      BY <3>1, DeeperIs
    <3>5. StepOf(leaf, neg, junct, F[k], e) = StepOf(leaf, neg, junct, F[n + 1], e)
      BY <3>3, <3>4, StepAlike
    <3> QED
      BY <1>5, <2>1, <3>1, <3>5
  <2> QED
    BY <2>1, <2>2
<1>9. T = Nat
  BY <1>7, <1>8, AllNumbers
<1> DEFINE f == [e \in Exprs |-> F[Last(e) + 1][e]]
<1>10. ASSUME NEW e \in Exprs, NEW n \in Nat, e \in Expr[n]
       PROVE  F[n + 1][e] = f[e]
  <2>1. Last(e) \in Nat /\ e \in Expr[Last(e)] /\ Same(n) /\ Same(Last(e))
    BY <1>6, <1>9
  <2> DEFINE k == n + Last(e)
  <2>2. k \in Nat /\ n <= k /\ Last(e) <= k
    BY <2>1
  <2> HIDE DEF k
  <2>3. F[k + 1][e] = F[n + 1][e]
    BY <1>10, <2>1, <2>2
  <2>4. F[k + 1][e] = F[Last(e) + 1][e]
    BY <2>1, <2>2
  <2> QED
    BY <2>3, <2>4
<1>11. f \in [Exprs -> S]
  <2>1. ASSUME NEW e \in Exprs
        PROVE  F[Last(e) + 1][e] \in S
    <3>1. Last(e) + 1 \in Nat
      BY <1>6
    <3>2. F[Last(e) + 1] \in [Exprs -> S]
      BY <1>4, <3>1 DEF G
    <3> QED
      BY <3>2
  <2> QED
    BY <2>1
<1> HIDE DEF f
<1>12. ASSUME NEW e \in Exprs
       PROVE  f[e] = StepOf(leaf, neg, junct, f, e)
  <2>1. PICK n \in Nat : e \in Expr[n]
    BY DEF Unbounded
  <2>2. n + 1 \in Nat /\ e \in Expr[n + 1] /\ e \in Deeper(Expr[n]) /\ Expr[n] \subseteq Exprs
    BY <2>1, LevelsGrow, ExprIs DEF Unbounded
  <2>3. f[e] = F[(n + 1) + 1][e]
    BY <1>10, <2>2
  <2>4. f[e] = StepOf(leaf, neg, junct, F[n + 1], e)
    BY <1>5, <2>2, <2>3
  <2>5. \A d \in Expr[n] : F[n + 1][d] = f[d]
    BY <1>10, <2>2
  <2>6. /\ e.op = "not" => e.arg \in Expr[n]
        /\ e.op \in Junctions => e.left \in Expr[n] /\ e.right \in Expr[n]
    BY <2>2, DeeperIs
  <2>7. StepOf(leaf, neg, junct, F[n + 1], e) = StepOf(leaf, neg, junct, f, e)
    BY <2>5, <2>6, StepAlike
  <2> QED
    BY <2>4, <2>7
<1> QED
  BY <1>11, <1>12

-----------------------------------------------------------------------------
(* The joins of two operands of a dependency.                              *)

Operand == Atoms \cup {Not(a) : a \in Atoms}
OperandVal(e, v) == IF e.op = "not" THEN 2 - AtomVal(e.arg, v) ELSE AtomVal(e, v)

\* No symbol has the name of a constant, and the symbols have values of
\* their types.
Typed(v) ==
  /\ DOMAIN v = DOMAIN Kind /\ DOMAIN Kind \cap (Words \cup {"none"}) = {}
  /\ \A s \in DOMAIN Kind : /\ Kind[s] \in {"bool", "tri", "string"}
                            /\ Kind[s] = "bool"   => v[s] \in {"y", "n"}
                            /\ Kind[s] = "tri"    => v[s] \in {"y", "m", "n"}
                            /\ Kind[s] = "string" => v[s] \in Words

\* The strings, listed.
LEMMA WordsAre == Words = {"", "m", "n", "path", "y"}
<1>1. DOMAIN Order = 1..5
  BY DEF Order
<1>2. Order[1] = "" /\ Order[2] = "m" /\ Order[3] = "n" /\ Order[4] = "path" /\ Order[5] = "y"
  BY DEF Order
<1>3. 1..5 = {1, 2, 3, 4, 5}
  OBVIOUS
<1> HIDE DEF Order
<1> QED
  BY <1>1, <1>2, <1>3 DEF Words

\* Strings are compared by what they are.
LEMMA RankIs ==
  ASSUME NEW x \in Words, NEW y \in Words
  PROVE  Rank(x) = Rank(y) <=> x = y
<1>1. Rank(x) \in DOMAIN Order /\ Order[Rank(x)] = x
  BY DEF Words, Rank
<1>2. Rank(y) \in DOMAIN Order /\ Order[Rank(y)] = y
  BY DEF Words, Rank
<1> QED
  BY <1>1, <1>2

\* The values of a bool or tristate symbol and of its comparisons.
LEMMA AtomIs ==
  ASSUME NEW v, Typed(v), NEW s \in DOMAIN Kind, Kind[s] \in {"bool", "tri"}
  PROVE  /\ AtomVal(Symbol(s), v) = TriOf[v[s]]
         /\ \A c \in Words :
              /\ AtomVal(Compare("eq", s, c), v) = IF v[s] = c THEN 2 ELSE 0
              /\ AtomVal(Compare("ne", s, c), v) = IF v[s] # c THEN 2 ELSE 0
<1>1. KindOf(s) = Kind[s] /\ StringOf(s, v) = v[s] /\ v[s] \in {"y", "m", "n"}
  BY DEF KindOf, StringOf, Typed
<1>2. AtomVal(Symbol(s), v) = TriOf[v[s]]
  BY <1>1 DEF AtomVal, Symbol, Relations
<1>3. ASSUME NEW c \in Words
      PROVE  StringOf(c, v) = c /\ v[s] \in Words
  BY <1>1, WordsAre DEF StringOf, Typed
<1>4. ASSUME NEW c \in Words
      PROVE  AtomVal(Compare("eq", s, c), v) = IF v[s] = c THEN 2 ELSE 0
  <2>1. Rank(v[s]) = Rank(c) <=> v[s] = c
    BY <1>3, RankIs
  <2> QED
    BY <1>1, <1>3, <2>1 DEF AtomVal, Compare, Relations, Holds
<1>5. ASSUME NEW c \in Words
      PROVE  AtomVal(Compare("ne", s, c), v) = IF v[s] # c THEN 2 ELSE 0
  <2>1. Rank(v[s]) = Rank(c) <=> v[s] = c
    BY <1>3, RankIs
  <2> QED
    BY <1>1, <1>3, <2>1 DEF AtomVal, Compare, Relations, Holds
<1> QED
  BY <1>2, <1>4, <1>5

(* Operands that can be joined are about the same symbol, which is bool or *)
(* tristate.                                                               *)
LEMMA OperandIs ==
  ASSUME NEW e \in Operand
  PROVE  \/ \E s \in Terms : e = Symbol(s)
         \/ \E op \in Relations, s \in Terms, c \in Terms : e = Compare(op, s, c)
         \/ \E a \in Atoms : e = Not(a)
<1>1. Switches \subseteq Terms
  BY WordsAre DEF Switches, Terms
<1>2. CASE e \in Atoms
  BY <1>1, <1>2, AtomOp
<1> QED
  BY <1>2 DEF Operand

\* Two operands the joins look at are about one symbol that has a type.
LEMMA JoinableIs ==
  ASSUME NEW d \in Operand, NEW e \in Operand, NEW v, Typed(v), Joinable(d, e)
  PROVE  LET s == SubjectOf(d, {"eq", "ne", "sym"})
         IN  /\ s \in DOMAIN Kind /\ Kind[s] \in {"bool", "tri"} /\ KindOf(s) = Kind[s]
             /\ \A x \in {d, e} :
                  \/ x = Symbol(s)
                  \/ \E op \in {"eq", "ne"}, c \in Terms : x = Compare(op, s, c)
                  \/ x.op = "not"
             /\ e.op = "not" => e = Not(Symbol(s))
<1> DEFINE s == SubjectOf(d, {"eq", "ne", "sym"})
<1>1. s = SubjectOf(e, {"sym"}) /\ KindOf(s) \in {"bool", "tri"}
  BY DEF Joinable
<1>2. s \in DOMAIN Kind /\ KindOf(s) = Kind[s]
  BY <1>1 DEF KindOf
<1>3. s # "none"
  BY <1>2 DEF Typed
<1> HIDE DEF s
<1>4. ASSUME NEW x \in Operand, NEW ops \in {{"eq", "ne", "sym"}, {"sym"}}, SubjectOf(x, ops) = s
      PROVE  /\ \/ x = Symbol(s)
                \/ \E op \in {"eq", "ne"}, c \in Terms : x = Compare(op, s, c)
                \/ x.op = "not"
             /\ ops = {"sym"} /\ x.op = "not" => x = Not(Symbol(s))
  <2>1. CASE \E t \in Terms : x = Symbol(t)
    BY <1>3, <1>4, <2>1 DEF SubjectOf, Symbol
  <2>2. CASE \E op \in Relations, t \in Terms, c \in Terms : x = Compare(op, t, c)
    <3>1. PICK op \in Relations, t \in Terms, c \in Terms : x = Compare(op, t, c)
      BY <2>2
    <3>2. x.op = op /\ x.sym = t
      BY <3>1 DEF Compare
    <3>3. op \in {"eq", "ne"}
      BY <1>3, <1>4, <3>2 DEF SubjectOf, Relations
    <3>4. t = s
      BY <1>4, <3>2, <3>3 DEF SubjectOf
    <3> QED
      BY <3>1, <3>2, <3>3, <3>4
  <2>3. CASE \E a \in Atoms : x = Not(a)
    <3>1. PICK a \in Atoms : x = Not(a)
      BY <2>3
    <3>2. x.op = "not" /\ x.arg = a
      BY <3>1 DEF Not
    <3>3. ASSUME ops = {"sym"}
          PROVE  x = Not(Symbol(s))
      <4>1. a.op = "sym" /\ a.sym = s
        BY <1>3, <1>4, <3>2, <3>3 DEF SubjectOf
      <4>2. PICK t \in Terms : a = Symbol(t)
        BY <4>1, AtomOp, WordsAre DEF Switches, Terms
      <4> QED
        BY <3>1, <4>1, <4>2 DEF Symbol
    <3> QED
      BY <3>2, <3>3
  <2> QED
    BY <2>1, <2>2, <2>3, OperandIs
<1>5. /\ \/ d = Symbol(s)
         \/ \E op \in {"eq", "ne"}, c \in Terms : d = Compare(op, s, c)
         \/ d.op = "not"
  BY <1>4 DEF s
<1>6. /\ \/ e = Symbol(s)
         \/ \E op \in {"eq", "ne"}, c \in Terms : e = Compare(op, s, c)
         \/ e.op = "not"
      /\ e.op = "not" => e = Not(Symbol(s))
  BY <1>1, <1>4
<1> QED
  BY <1>1, <1>2, <1>5, <1>6 DEF s

\* The third of the three values is neither of the other two.
LEMMA ThirdIs ==
  ASSUME NEW c \in {"y", "m", "n"}, NEW d \in {"y", "m", "n"}, c # d
  PROVE  /\ Third(c, d) \in {"y", "m", "n"} \ {c, d}
         /\ \A x \in {"y", "m", "n"} : x = c \/ x = d \/ x = Third(c, d)
BY DEF Third

\* The value of an operand about s.
LEMMA ValueIs ==
  ASSUME NEW v, Typed(v), NEW s \in DOMAIN Kind, Kind[s] \in {"bool", "tri"}
  PROVE  /\ OperandVal(Symbol(s), v) = TriOf[v[s]]
         /\ OperandVal(Not(Symbol(s)), v) = 2 - TriOf[v[s]]
         /\ \A c \in Words :
              /\ OperandVal(Compare("eq", s, c), v) = IF v[s] = c THEN 2 ELSE 0
              /\ OperandVal(Compare("ne", s, c), v) = IF v[s] # c THEN 2 ELSE 0
<1>1. /\ Symbol(s).op = "sym" /\ Not(Symbol(s)).op = "not" /\ Not(Symbol(s)).arg = Symbol(s)
      /\ \A c : Compare("eq", s, c).op = "eq" /\ Compare("ne", s, c).op = "ne"
  BY DEF Symbol, Not, Compare
<1> QED
  BY <1>1, AtomIs DEF OperandVal

\* The values of 'y' and 'n'.
LEMMA ConstantIs ==
  ASSUME NEW v, Typed(v)
  PROVE  OperandVal(Yes, v) = 2 /\ OperandVal(No, v) = 0
<1>1. "y" \in Words /\ "n" \in Words
  BY WordsAre
<1>2. StringOf("y", v) = "y" /\ StringOf("n", v) = "n" /\ KindOf("y") = "const" /\ KindOf("n") = "const"
  BY <1>1 DEF StringOf, KindOf, Typed
<1>3. Yes.op = "sym" /\ Yes.sym = "y" /\ No.op = "sym" /\ No.sym = "n"
  BY DEF Yes, No
<1>4. AtomVal(Yes, v) = TriOf["y"] /\ AtomVal(No, v) = TriOf["n"]
  BY <1>2, <1>3 DEF AtomVal, Relations
<1> QED
  BY <1>3, <1>4 DEF OperandVal, TriOf

\* Two comparisons that can be joined.
LEMMA ComparingIs ==
  ASSUME NEW d \in Operand, NEW e \in Operand, NEW v, Typed(v), Joinable(d, e),
         NEW op \in {"eq", "ne"}, Comparing(d, e, op)
  PROVE  LET s == SubjectOf(d, {"eq", "ne", "sym"})
         IN  /\ d = Compare(op, s, d.with) /\ e = Compare(op, s, e.with)
             /\ d.with \in {"y", "m", "n"} /\ e.with \in {"y", "m", "n"} /\ d.with # e.with
<1> DEFINE s == SubjectOf(d, {"eq", "ne", "sym"})
<1>1. d.op = op /\ e.op = op /\ d.with # e.with /\ {d.with, e.with} \subseteq {"y", "m", "n"}
  BY DEF Comparing
<1>2. \A x \in {d, e} : \/ x = Symbol(s)
                        \/ \E o \in {"eq", "ne"}, c \in Terms : x = Compare(o, s, c)
                        \/ x.op = "not"
  BY JoinableIs
<1> HIDE DEF s
<1>3. ASSUME NEW x \in {d, e}
      PROVE  x = Compare(op, s, x.with)
  <2>1. x.op = op
    BY <1>1
  <2>2. PICK o \in {"eq", "ne"}, c \in Terms : x = Compare(o, s, c)
    BY <1>2, <2>1 DEF Symbol
  <2>3. x.op = o /\ x.with = c
    BY <2>2 DEF Compare
  <2> QED
    BY <2>1, <2>2, <2>3
<1> QED
  BY <1>1, <1>3 DEF s

(* What expr_join_or makes of two operands has the value of the two,       *)
(* whatever they say and whatever the symbol they are about is.            *)
THEOREM OrKeepsValue ==
  ASSUME NEW v, Typed(v), NEW d \in Operand, NEW e \in Operand, JoinOr(d, e) # Nothing
  PROVE  OperandVal(JoinOr(d, e), v) = Greater(OperandVal(d, v), OperandVal(e, v))
<1> DEFINE s == SubjectOf(d, {"eq", "ne", "sym"})
<1>1. Joinable(d, e)
  BY DEF JoinOr
<1>2. s \in DOMAIN Kind /\ Kind[s] \in {"bool", "tri"} /\ KindOf(s) = Kind[s]
  BY <1>1, JoinableIs
<1>3. /\ Kind[s] = "bool" => v[s] \in {"y", "n"}
      /\ Kind[s] = "tri" => v[s] \in {"y", "m", "n"}
  BY <1>2 DEF Typed
<1>4. \/ Kind[s] = "tri" /\ Comparing(d, e, "eq")
           /\ JoinOr(d, e) = Compare("ne", s, Third(d.with, e.with))
      \/ Kind[s] = "bool" /\ {d, e} = {Symbol(s), Not(Symbol(s))} /\ JoinOr(d, e) = Yes
  BY <1>1, <1>2 DEF JoinOr
<1>5. ASSUME Kind[s] = "tri", Comparing(d, e, "eq"),
             JoinOr(d, e) = Compare("ne", s, Third(d.with, e.with))
      PROVE  OperandVal(JoinOr(d, e), v) = Greater(OperandVal(d, v), OperandVal(e, v))
  <2>1. /\ d = Compare("eq", s, d.with) /\ e = Compare("eq", s, e.with)
        /\ d.with \in {"y", "m", "n"} /\ e.with \in {"y", "m", "n"} /\ d.with # e.with
    BY <1>1, <1>5, ComparingIs
  <2>2. /\ Third(d.with, e.with) \in {"y", "m", "n"} \ {d.with, e.with}
        /\ \A x \in {"y", "m", "n"} : x = d.with \/ x = e.with \/ x = Third(d.with, e.with)
    BY <2>1, ThirdIs
  <2> HIDE DEF s
  <2>3. /\ OperandVal(d, v) = IF v[s] = d.with THEN 2 ELSE 0
        /\ OperandVal(e, v) = IF v[s] = e.with THEN 2 ELSE 0
        /\ OperandVal(JoinOr(d, e), v) = IF v[s] # Third(d.with, e.with) THEN 2 ELSE 0
    <3>1. /\ OperandVal(Compare("eq", s, d.with), v) = IF v[s] = d.with THEN 2 ELSE 0
          /\ OperandVal(Compare("eq", s, e.with), v) = IF v[s] = e.with THEN 2 ELSE 0
          /\ OperandVal(Compare("ne", s, Third(d.with, e.with)), v)
               = IF v[s] # Third(d.with, e.with) THEN 2 ELSE 0
      <4>1. {"y", "m", "n"} \subseteq Words
        BY WordsAre
      <4>2. \A c \in {"y", "m", "n"} :
              /\ OperandVal(Compare("eq", s, c), v) = IF v[s] = c THEN 2 ELSE 0
              /\ OperandVal(Compare("ne", s, c), v) = IF v[s] # c THEN 2 ELSE 0
        BY <1>2, <4>1, ValueIs
      <4> QED
        BY <2>1, <2>2, <4>2
    <3> QED
      BY <1>5, <2>1, <3>1
  <2> QED
    BY <1>3, <1>5, <2>2, <2>3 DEF Greater
<1>6. ASSUME Kind[s] = "bool", {d, e} = {Symbol(s), Not(Symbol(s))}, JoinOr(d, e) = Yes
      PROVE  OperandVal(JoinOr(d, e), v) = Greater(OperandVal(d, v), OperandVal(e, v))
  <2>1. \/ d = Symbol(s) /\ e = Not(Symbol(s))
        \/ e = Symbol(s) /\ d = Not(Symbol(s))
    <3>1. Symbol(s) # Not(Symbol(s))
      BY DEF Symbol, Not
    <3> HIDE DEF s
    <3> QED
      BY <1>6, <3>1
  <2>2. TriOf[v[s]] \in {0, 2}
    BY <1>3, <1>6 DEF TriOf
  <2> HIDE DEF s
  <2>3. OperandVal(Symbol(s), v) = TriOf[v[s]] /\ OperandVal(Not(Symbol(s)), v) = 2 - TriOf[v[s]]
    BY <1>2, ValueIs
  <2>4. OperandVal(JoinOr(d, e), v) = 2
    BY <1>6, ConstantIs
  <2> QED
    BY <2>1, <2>2, <2>3, <2>4 DEF Greater
<1> QED
  BY <1>4, <1>5, <1>6

(* What expr_join_and makes of two operands likewise.                      *)
THEOREM AndKeepsValue ==
  ASSUME NEW v, Typed(v), NEW d \in Operand, NEW e \in Operand, JoinAnd(d, e) # Nothing
  PROVE  OperandVal(JoinAnd(d, e), v) = Lesser(OperandVal(d, v), OperandVal(e, v))
<1> DEFINE s  == SubjectOf(d, {"eq", "ne", "sym"})
           eq == IF d.op = "eq" THEN d ELSE e
           ne == IF d.op = "ne" THEN d ELSE e
           Same == KindOf(s) = "tri" /\ {d.op, e.op} = {"eq", "ne"}
                     /\ KindOf(eq.with) = "const" /\ KindOf(ne.with) = "const"
<1>1. Joinable(d, e)
  BY DEF JoinAnd
<1>2. s \in DOMAIN Kind /\ Kind[s] \in {"bool", "tri"} /\ KindOf(s) = Kind[s]
  BY <1>1, JoinableIs
<1>3. v[s] \in {"y", "m", "n"} /\ TriOf[v[s]] \in {0, 1, 2}
      /\ (v[s] = "y" <=> TriOf[v[s]] = 2) /\ (v[s] = "n" <=> TriOf[v[s]] = 0)
  <2>1. v[s] \in {"y", "m", "n"}
    BY <1>2 DEF Typed
  <2> QED
    BY <2>1 DEF TriOf
<1>4. \A x \in {d, e} : \/ x = Symbol(s)
                        \/ \E o \in {"eq", "ne"}, c \in Terms : x = Compare(o, s, c)
                        \/ x.op = "not"
  BY <1>1, JoinableIs
<1>5. ASSUME NEW x \in {d, e}
      PROVE  /\ x.op = "sym" => x = Symbol(s)
             /\ x.op \in {"eq", "ne"} => x = Compare(x.op, s, x.with) /\ x.with \in Terms
  BY <1>4 DEF Symbol, Compare
<1>6. \A x \in {d, e} : /\ x.op = "sym" => OperandVal(x, v) = TriOf[v[s]]
                        /\ x.op = "eq" /\ x.with \in Words =>
                             OperandVal(x, v) = IF v[s] = x.with THEN 2 ELSE 0
                        /\ x.op = "ne" /\ x.with \in Words =>
                             OperandVal(x, v) = IF v[s] # x.with THEN 2 ELSE 0
  BY <1>2, <1>5, ValueIs
<1>7. /\ OperandVal(Symbol(s), v) = TriOf[v[s]] /\ OperandVal(No, v) = 0
      /\ \A c \in Words : OperandVal(Compare("eq", s, c), v) = IF v[s] = c THEN 2 ELSE 0
  BY <1>2, ValueIs, ConstantIs
<1>8. \/ SymbolAnd(d, e, "eq", "y") /\ JoinAnd(d, e) = Compare("eq", s, "y")
      \/ SymbolAnd(d, e, "ne", "n") /\ JoinAnd(d, e) = Symbol(s)
      \/ SymbolAnd(d, e, "ne", "m") /\ JoinAnd(d, e) = Compare("eq", s, "y")
      \/ Same /\ JoinAnd(d, e) = IF eq.with # ne.with THEN Compare("eq", s, eq.with) ELSE No
      \/ Comparing(d, e, "ne") /\ JoinAnd(d, e) = Compare("eq", s, Third(d.with, e.with))
  BY <1>1 DEF JoinAnd
<1> HIDE DEF s, eq, ne, Same
<1>9. CASE SymbolAnd(d, e, "eq", "y") /\ JoinAnd(d, e) = Compare("eq", s, "y")
  <2>1. \/ OperandVal(d, v) = TriOf[v[s]] /\ OperandVal(e, v) = IF v[s] = "y" THEN 2 ELSE 0
        \/ OperandVal(e, v) = TriOf[v[s]] /\ OperandVal(d, v) = IF v[s] = "y" THEN 2 ELSE 0
    BY <1>6, <1>9, WordsAre DEF SymbolAnd
  <2>2. OperandVal(JoinAnd(d, e), v) = IF v[s] = "y" THEN 2 ELSE 0
    BY <1>7, <1>9, WordsAre
  <2> QED
    BY <1>3, <2>1, <2>2 DEF Lesser
<1>10. CASE SymbolAnd(d, e, "ne", "n") /\ JoinAnd(d, e) = Symbol(s)
  <2>1. \/ OperandVal(d, v) = TriOf[v[s]] /\ OperandVal(e, v) = IF v[s] # "n" THEN 2 ELSE 0
        \/ OperandVal(e, v) = TriOf[v[s]] /\ OperandVal(d, v) = IF v[s] # "n" THEN 2 ELSE 0
    BY <1>6, <1>10, WordsAre DEF SymbolAnd
  <2>2. OperandVal(JoinAnd(d, e), v) = TriOf[v[s]]
    BY <1>7, <1>10, WordsAre
  <2> QED
    BY <1>3, <2>1, <2>2 DEF Lesser
<1>11. CASE SymbolAnd(d, e, "ne", "m") /\ JoinAnd(d, e) = Compare("eq", s, "y")
  <2>1. \/ OperandVal(d, v) = TriOf[v[s]] /\ OperandVal(e, v) = IF v[s] # "m" THEN 2 ELSE 0
        \/ OperandVal(e, v) = TriOf[v[s]] /\ OperandVal(d, v) = IF v[s] # "m" THEN 2 ELSE 0
    BY <1>6, <1>11, WordsAre DEF SymbolAnd
  <2>2. OperandVal(JoinAnd(d, e), v) = IF v[s] = "y" THEN 2 ELSE 0
    BY <1>7, <1>11, WordsAre
  <2> QED
    BY <1>3, <2>1, <2>2 DEF Lesser
<1>12. CASE Same /\ JoinAnd(d, e) = IF eq.with # ne.with THEN Compare("eq", s, eq.with) ELSE No
  <2>1. /\ \/ d = eq /\ e = ne
           \/ d = ne /\ e = eq
        /\ eq.op = "eq" /\ ne.op = "ne" /\ KindOf(eq.with) = "const" /\ KindOf(ne.with) = "const"
    BY <1>12 DEF Same, eq, ne
  <2>2. eq.with \in Words /\ ne.with \in Words
    <3>1. eq.with \in Terms /\ ne.with \in Terms
      BY <1>5, <2>1
    <3>2. \A x \in DOMAIN Kind : KindOf(x) # "const"
      BY DEF Typed, KindOf
    <3> QED
      BY <2>1, <3>1, <3>2 DEF Terms
  <2>3. /\ OperandVal(eq, v) = IF v[s] = eq.with THEN 2 ELSE 0
        /\ OperandVal(ne, v) = IF v[s] # ne.with THEN 2 ELSE 0
    BY <1>6, <2>1, <2>2
  <2>4. OperandVal(JoinAnd(d, e), v) = IF eq.with # ne.with /\ v[s] = eq.with THEN 2 ELSE 0
    BY <1>7, <1>12, <2>2
  <2> QED
    BY <2>1, <2>3, <2>4 DEF Lesser
<1>13. CASE Comparing(d, e, "ne") /\ JoinAnd(d, e) = Compare("eq", s, Third(d.with, e.with))
  <2>1. /\ d.op = "ne" /\ e.op = "ne" /\ d.with # e.with
        /\ d.with \in {"y", "m", "n"} /\ e.with \in {"y", "m", "n"}
    BY <1>13 DEF Comparing
  <2>2. /\ Third(d.with, e.with) \in {"y", "m", "n"} \ {d.with, e.with}
        /\ \A x \in {"y", "m", "n"} : x = d.with \/ x = e.with \/ x = Third(d.with, e.with)
    BY <2>1, ThirdIs
  <2>3. /\ OperandVal(d, v) = IF v[s] # d.with THEN 2 ELSE 0
        /\ OperandVal(e, v) = IF v[s] # e.with THEN 2 ELSE 0
    BY <1>6, <2>1, WordsAre
  <2>4. OperandVal(JoinAnd(d, e), v) = IF v[s] = Third(d.with, e.with) THEN 2 ELSE 0
    BY <1>7, <1>13, <2>2, WordsAre
  <2> QED
    BY <1>3, <2>2, <2>3, <2>4 DEF Lesser
<1> QED
  BY <1>8, <1>9, <1>10, <1>11, <1>12, <1>13

(* A comparison of a bool symbol that expr_transform rewrites keeps its    *)
(* value.                                                                  *)
THEOREM BoolKeepsValue ==
  ASSUME NEW v, Typed(v), NEW s \in DOMAIN Kind, Kind[s] = "bool",
         NEW op \in {"eq", "ne"}, NEW c \in Words
  PROVE  OperandVal(TransformBool(Compare(op, s, c)), v) = OperandVal(Compare(op, s, c), v)
<1> DEFINE e == Compare(op, s, c)
<1>1. e.op = op /\ e.sym = s /\ e.with = c
  BY DEF Compare
<1>2. v[s] \in {"y", "n"}
  BY DEF Typed
<1>3. /\ OperandVal(Symbol(s), v) = TriOf[v[s]] /\ OperandVal(Not(Symbol(s)), v) = 2 - TriOf[v[s]]
      /\ OperandVal(Compare("eq", s, c), v) = IF v[s] = c THEN 2 ELSE 0
      /\ OperandVal(Compare("ne", s, c), v) = IF v[s] # c THEN 2 ELSE 0
      /\ OperandVal(No, v) = 0 /\ OperandVal(Yes, v) = 2
  BY ValueIs, ConstantIs
<1>4. TransformBool(e) = CASE (op = "eq" /\ c = "y") \/ (op = "ne" /\ c = "n") -> Symbol(s)
                           [] (op = "eq" /\ c = "n") \/ (op = "ne" /\ c = "y") -> Not(Symbol(s))
                           [] c = "m" -> IF op = "eq" THEN No ELSE Yes
                           [] OTHER -> e
  BY <1>1 DEF TransformBool
<1> QED
  BY <1>2, <1>3, <1>4 DEF TriOf

-----------------------------------------------------------------------------
(* Values.                                                                 *)

\* The valuations the properties speak of give every symbol a value of its type.
LEMMA ValuationTyped ==
  ASSUME NEW v \in Valuations
  PROVE  Typed(v)
<1>1. DOMAIN v = DOMAIN Kind /\ \A s \in DOMAIN Kind : v[s] \in ValuesOf(s)
  BY DEF Valuations
<1> QED
  BY <1>1, KindAssumption, WordsAre DEF Typed, ValuesOf

\* The value of an atom is 'n', 'm' or 'y'.
LEMMA AtomTyped ==
  ASSUME NEW v, Typed(v), NEW e \in Atoms
  PROVE  AtomVal(e, v) \in 0..2
<1>1. CASE e.op = "sym"
  <2>1. e.sym \in Switches /\ e.op \notin Relations
    BY <1>1, AtomOp DEF Relations
  <2>2. StringOf(e.sym, v) \in {"y", "m", "n"} /\ KindOf(e.sym) # "string"
    BY <2>1, WordsAre DEF Typed, StringOf, Switches, KindOf
  <2> QED
    BY <1>1, <2>2 DEF AtomVal, TriOf
<1>2. CASE e.op \in Relations
  BY <1>2 DEF AtomVal, Relations
<1> QED
  BY <1>1, <1>2, AtomOp

\* expr_calc_value by what the expression is made of.
LEMMA ValIs ==
  ASSUME Unbounded, NEW v, Typed(v), NEW e \in Exprs
  PROVE  /\ Val(e, v) \in 0..2
         /\ e = Nothing => Val(e, v) = 2
         /\ e \in Atoms => Val(e, v) = AtomVal(e, v)
         /\ e.op = "not" => Val(e, v) = 2 - Val(e.arg, v)
         /\ e.op = "and" => Val(e, v) = Lesser(Val(e.left, v), Val(e.right, v))
         /\ e.op = "or"  => Val(e, v) = Greater(Val(e.left, v), Val(e.right, v))
<1> DEFINE S == 0..2
           leaf == [d \in Exprs |-> IF d \in Atoms THEN AtomVal(d, v) ELSE 2]
           neg == [p \in Exprs \X S |-> 2 - p[2]]
           junct == [p \in Exprs \X S \X S |-> IF p[1].op = "and" THEN Lesser(p[2], p[3]) ELSE Greater(p[2], p[3])]
           Body(f, d) == CASE d.op = "none" -> 2
                           [] d.op = "not"  -> 2 - f[d.arg]
                           [] d.op = "and"  -> Lesser(f[d.left], f[d.right])
                           [] d.op = "or"   -> Greater(f[d.left], f[d.right])
                           [] OTHER         -> AtomVal(d, v)
           val[d \in Exprs] ==
             CASE d.op = "none" -> 2
               [] d.op = "not"  -> 2 - val[d.arg]
               [] d.op = "and"  -> Lesser(val[d.left], val[d.right])
               [] d.op = "or"   -> Greater(val[d.left], val[d.right])
               [] OTHER         -> AtomVal(d, v)
<1>1. leaf \in LeafSteps(S)
  BY AtomTyped DEF LeafSteps
<1>2. neg \in NotSteps(S)
  BY DEF NotSteps
<1>3. junct \in JunctionSteps(S)
  BY DEF JunctionSteps, Lesser, Greater
<1>4. ASSUME NEW f \in LeafSteps(S), NEW d \in Exprs
      PROVE  StepOf(leaf, neg, junct, f, d) = Body(f, d)
  <2>1. CASE d.op = "not"
    <3>1. f[d.arg] \in S /\ d.op \notin {"none", "and", "or"}
      BY <2>1, ExprsAre DEF LeafSteps
    <3> QED
      BY <2>1, <3>1 DEF StepOf
  <2>2. CASE d.op \in Junctions
    <3>1. f[d.left] \in S /\ f[d.right] \in S /\ d.op \in {"and", "or"}
      BY <2>2, ExprsAre DEF LeafSteps, Junctions
    <3> QED
      BY <2>2, <3>1 DEF StepOf
  <2>3. CASE d.op # "not" /\ d.op \notin Junctions
    <3>1. d \in Atoms \cup {Nothing} /\ d.op \notin {"not", "and", "or"}
      BY <2>3, ExprsAre DEF Junctions
    <3>2. StepOf(leaf, neg, junct, f, d) = leaf[d]
      BY <2>3 DEF StepOf
    <3>3. CASE d \in Atoms
      <4>1. d.op # "none"
        BY <3>3, AtomOp DEF Relations
      <4> QED
        BY <3>1, <3>2, <3>3, <4>1
    <3>4. CASE d = Nothing
      <4>1. d.op = "none" /\ d \notin Atoms
        BY <3>4, AtomOp, JunctionIs
      <4> QED
        BY <3>1, <3>2, <4>1
    <3> QED
      BY <3>1, <3>3, <3>4
  <2> QED
    BY <2>1, <2>2, <2>3
<1> HIDE DEF leaf, neg, junct, S, Body
<1>5. PICK f \in LeafSteps(S) : \A d \in Exprs : f[d] = StepOf(leaf, neg, junct, f, d)
  BY <1>1, <1>2, <1>3, StructuralRecursion
<1>6. f = [d \in Exprs |-> Body(f, d)]
  BY <1>4, <1>5 DEF LeafSteps
<1>7. val = [d \in Exprs |-> Body(val, d)]
  BY <1>6 DEF Body
<1>8. \A d \in Exprs : Val(d, v) = val[d] /\ val[d] = Body(val, d)
  BY <1>7 DEF Val
<1> HIDE DEF val
<1>9. ASSUME NEW d \in Exprs
      PROVE  /\ d = Nothing => Val(d, v) = 2
             /\ d \in Atoms => Val(d, v) = AtomVal(d, v)
             /\ d.op = "not" => Val(d, v) = 2 - Val(d.arg, v)
             /\ d.op = "and" => Val(d, v) = Lesser(Val(d.left, v), Val(d.right, v))
             /\ d.op = "or"  => Val(d, v) = Greater(Val(d.left, v), Val(d.right, v))
  <2>1. CASE d.op = "not"
    <3>1. d.arg \in Exprs /\ d # Nothing /\ d \notin Atoms
      BY <2>1, ExprsAre, AtomOp, JunctionIs DEF Relations
    <3> QED
      BY <1>8, <2>1, <3>1 DEF Body
  <2>2. CASE d.op \in Junctions
    <3>1. d.left \in Exprs /\ d.right \in Exprs /\ d # Nothing /\ d \notin Atoms
      BY <2>2, ExprsAre, AtomOp, JunctionIs DEF Relations, Junctions
    <3> QED
      BY <1>8, <2>2, <3>1 DEF Body, Junctions
  <2>3. CASE d.op # "not" /\ d.op \notin Junctions
    <3>1. d = Nothing => d.op = "none"
      BY JunctionIs
    <3>2. d \in Atoms => d.op \notin {"none", "not", "and", "or"}
      BY AtomOp DEF Relations
    <3> QED
      BY <1>8, <2>3, <3>1, <3>2 DEF Body, Junctions
  <2> QED
    BY <2>1, <2>2, <2>3
<1> DEFINE T == {d \in Exprs : Val(d, v) \in 0..2}
<1>10. Atoms \cup {Nothing} \subseteq T
  BY <1>9, AtomTyped, ExprsHave
<1>11. ASSUME NEW d \in Exprs, d.op = "not", d.arg \in T
       PROVE  d \in T
  BY <1>9, <1>11
<1>12. ASSUME NEW d \in Exprs, d.op \in Junctions, d.left \in T, d.right \in T
       PROVE  d \in T
  BY <1>9, <1>12 DEF Junctions, Lesser, Greater
<1>13. T = Exprs
  BY <1>10, <1>11, <1>12, AllExprs
<1> QED
  BY <1>9, <1>13

\* The values of what expressions are made of.
LEMMA ValOf ==
  ASSUME Unbounded, NEW v, Typed(v), NEW d \in Exprs, NEW e \in Exprs
  PROVE  /\ Val(Nothing, v) = 2 /\ Val(Yes, v) = 2 /\ Val(No, v) = 0
         /\ Val(Not(d), v) = 2 - Val(d, v)
         /\ Val(Junction("and", d, e), v) = Lesser(Val(d, v), Val(e, v))
         /\ Val(Junction("or", d, e), v) = Greater(Val(d, v), Val(e, v))
<1>1. Yes \in Atoms /\ No \in Atoms
  BY DEF Yes, No, Atoms, Switches
<1>2. /\ Not(d) \in Exprs /\ Junction("and", d, e) \in Exprs /\ Junction("or", d, e) \in Exprs
      /\ Yes \in Exprs /\ No \in Exprs /\ Nothing \in Exprs
  BY <1>1, ExprsHave DEF Junctions
<1>3. OperandVal(Yes, v) = AtomVal(Yes, v) /\ OperandVal(No, v) = AtomVal(No, v)
  BY JunctionIs DEF OperandVal
<1> QED
  BY <1>1, <1>2, <1>3, ValIs, ConstantIs, JunctionIs

\* An operand the joins look at has the value they count on.
LEMMA OperandIsExpr ==
  ASSUME Unbounded, NEW v, Typed(v), NEW e \in Operand
  PROVE  e \in Exprs /\ Val(e, v) = OperandVal(e, v)
<1>1. CASE e \in Atoms
  <2>1. e \in Exprs /\ e.op # "not"
    BY <1>1, ExprsHave, AtomOp DEF Relations
  <2> QED
    BY <1>1, <2>1, ValIs DEF OperandVal
<1>2. ASSUME NEW a \in Atoms, e = Not(a)
      PROVE  e \in Exprs /\ Val(e, v) = OperandVal(e, v)
  <2>1. a \in Exprs /\ e \in Exprs /\ e.op = "not" /\ e.arg = a
    BY <1>2, ExprsHave, JunctionIs
  <2> QED
    BY <2>1, ValIs DEF OperandVal
<1> QED
  BY <1>1, <1>2 DEF Operand

\* Functions given for numbers up to a bound exist.
RunSteps(N, S) == [(1..N) \X S -> S]
RunFrom(N, S) == [0..N -> S]

\* A function on the numbers up to N can be given likewise.
LEMMA BoundedRecursion ==
  ASSUME NEW S, NEW b \in S, NEW N \in Nat, NEW step \in RunSteps(N, S)
  PROVE  \E f \in RunFrom(N, S) : \A k \in 0..N : f[k] = IF k = 0 THEN b ELSE step[<<k, f[k - 1]>>]
<1>1. PICK f : IsRun(f, b, step, N)
  BY RunsExist
<1>2. /\ f = [n \in 0..N |-> IF n = 0 THEN b ELSE step[<<n, f[n - 1]>>]]
      /\ f = [n \in 0..N |-> f[n]]
  BY <1>1 DEF IsRun
<1> DEFINE T == {n \in Nat : n <= N => f[n] \in S}
<1>3. f[0] = b /\ \A n \in Nat : n + 1 <= N => f[n + 1] = step[<<n + 1, f[n]>>]
  BY <1>1, RunOf
<1>4. 0 \in T
  BY <1>3
<1>5. ASSUME NEW n \in T
      PROVE  n + 1 \in T
  <2>1. SUFFICES ASSUME n + 1 <= N PROVE f[n + 1] \in S
    BY <1>5
  <2>2. n \in Nat /\ f[n] \in S /\ n + 1 \in 1..N
    BY <1>5, <2>1
  <2>3. step[<<n + 1, f[n]>>] \in S
    BY <2>2 DEF RunSteps
  <2> QED
    BY <1>3, <2>1, <2>2, <2>3
<1>6. T = Nat
  BY <1>4, <1>5, AllNumbers
<1>7. f \in RunFrom(N, S)
  BY <1>2, <1>6 DEF RunFrom
<1>8. \A k \in 0..N : f[k] = IF k = 0 THEN b ELSE step[<<k, f[k - 1]>>]
  BY <1>2
<1> QED
  BY <1>7, <1>8

-----------------------------------------------------------------------------
(* Chains.                                                                 *)

\* The equations of Operands.
LEMMA OperandsAre ==
  ASSUME Unbounded, NEW op \in Junctions, NEW e \in Exprs
  PROVE  /\ e.op = op => Operands(op, e) = Operands(op, e.left) \o Operands(op, e.right)
         /\ e.op # op => Operands(op, e) = <<e>>
<1> DEFINE S == Seq(Exprs)
           leaf == [d \in Exprs |-> <<d>>]
           neg == [p \in Exprs \X S |-> <<p[1]>>]
           junct == [p \in Exprs \X S \X S |-> IF p[1].op = op THEN p[2] \o p[3] ELSE <<p[1]>>]
           Body(f, d) == IF d.op = op THEN f[d.left] \o f[d.right] ELSE <<d>>
           of[d \in Exprs] == IF d.op = op THEN of[d.left] \o of[d.right] ELSE <<d>>
<1>1. leaf \in LeafSteps(S)
  BY DEF LeafSteps
<1>2. neg \in NotSteps(S)
  BY DEF NotSteps
<1>3. junct \in JunctionSteps(S)
  BY DEF JunctionSteps
<1>4. ASSUME NEW f \in LeafSteps(S), NEW d \in Exprs
      PROVE  StepOf(leaf, neg, junct, f, d) = Body(f, d)
  <2>1. CASE d.op = "not"
    <3>1. f[d.arg] \in S /\ d.op # op
      BY <2>1, ExprsAre DEF LeafSteps, Junctions
    <3> QED
      BY <2>1, <3>1 DEF StepOf
  <2>2. CASE d.op \in Junctions
    <3>1. f[d.left] \in S /\ f[d.right] \in S /\ d.op # "not"
      BY <2>2, ExprsAre DEF LeafSteps, Junctions
    <3> QED
      BY <2>2, <3>1 DEF StepOf
  <2>3. CASE d.op # "not" /\ d.op \notin Junctions
    BY <2>3 DEF StepOf
  <2> QED
    BY <2>1, <2>2, <2>3
<1> HIDE DEF leaf, neg, junct, S, Body
<1>5. PICK f \in LeafSteps(S) : \A d \in Exprs : f[d] = StepOf(leaf, neg, junct, f, d)
  BY <1>1, <1>2, <1>3, StructuralRecursion
<1>6. f = [d \in Exprs |-> Body(f, d)]
  BY <1>4, <1>5 DEF LeafSteps
<1>7. of = [d \in Exprs |-> Body(of, d)]
  BY <1>6 DEF Body
<1>8. \A d \in Exprs : Operands(op, d) = of[d] /\ of[d] = Body(of, d)
  BY <1>7 DEF Operands
<1> HIDE DEF of
<1>9. e.op = op => e.left \in Exprs /\ e.right \in Exprs
  BY ExprsAre
<1> QED
  BY <1>8, <1>9 DEF Body

\* A kind of expression that chains are made of and taken apart in.
ClosedKind(X) ==
  /\ Atoms \cup {Nothing} \subseteq X /\ X \subseteq Exprs
  /\ \A e \in X : e.op \in Junctions => e.left \in X /\ e.right \in X
  /\ \A op \in Junctions : \A d, e \in X : Junction(op, d, e) \in X

\* All expressions are one such kind.
LEMMA ExprsClosed ==
  ASSUME Unbounded
  PROVE  ClosedKind(Exprs)
BY ExprsHave, ExprsAre DEF ClosedKind

\* A chain has operands, and they are of its kind.
LEMMA OperandsTyped ==
  ASSUME Unbounded, NEW X, ClosedKind(X), NEW op \in Junctions, NEW e \in X
  PROVE  Operands(op, e) \in Seq(X) /\ Len(Operands(op, e)) \in Nat \ {0}
<1> DEFINE T == {d \in Exprs : d \in X => Operands(op, d) \in Seq(X) /\ Len(Operands(op, d)) \in Nat \ {0}}
<1>1. ASSUME NEW d \in Exprs, d.op # op
      PROVE  d \in T
  <2>1. Operands(op, d) = <<d>>
    BY <1>1, OperandsAre
  <2>2. d \in X => <<d>> \in Seq(X) /\ Len(<<d>>) = 1
    OBVIOUS
  <2> QED
    BY <2>1, <2>2
<1>2. Atoms \cup {Nothing} \subseteq T
  <2>1. ASSUME NEW d \in Atoms \cup {Nothing}
        PROVE  d \in Exprs /\ d.op # op
    BY ExprsHave, AtomOp, JunctionIs DEF Relations, Junctions
  <2> QED
    BY <1>1, <2>1
<1>3. ASSUME NEW d \in Exprs, d.op = "not", d.arg \in T
      PROVE  d \in T
  BY <1>1, <1>3 DEF Junctions
<1>4. ASSUME NEW d \in Exprs, d.op \in Junctions, d.left \in T, d.right \in T
      PROVE  d \in T
  <2>1. CASE d.op # op
    BY <1>1, <2>1
  <2>2. CASE d.op = op /\ d \in X
    <3>1. Operands(op, d) = Operands(op, d.left) \o Operands(op, d.right)
      BY <2>2, OperandsAre
    <3>2. d.left \in X /\ d.right \in X
      BY <2>2 DEF ClosedKind
    <3>3. /\ Operands(op, d.left) \in Seq(X) /\ Len(Operands(op, d.left)) \in Nat \ {0}
          /\ Operands(op, d.right) \in Seq(X) /\ Len(Operands(op, d.right)) \in Nat \ {0}
      BY <1>4, <3>2
    <3> DEFINE l == Operands(op, d.left)
               r == Operands(op, d.right)
    <3> HIDE DEF l, r
    <3>4. l \o r \in Seq(X) /\ Len(l \o r) = Len(l) + Len(r) /\ Len(l) + Len(r) \in Nat \ {0}
      BY <3>3 DEF l, r
    <3> QED
      BY <3>1, <3>4 DEF l, r
  <2> QED
    BY <2>1, <2>2
<1>5. T = Exprs
  BY <1>2, <1>3, <1>4, AllExprs
<1> QED
  BY <1>5 DEF ClosedKind

\* A chain has at least the value k.
AtLeast(op, k, es, v) ==
  IF op = "and" THEN \A i \in 1..Len(es) : k <= Val(es[i], v)
                ELSE \E i \in 1..Len(es) : k <= Val(es[i], v)

\* EXPR_AND and EXPR_OR, one threshold at a time.
LEMMA AtLeastBoth ==
  ASSUME NEW op \in Junctions, NEW k \in 1..2, NEW a \in 0..2, NEW b \in 0..2
  PROVE  k <= (IF op = "and" THEN Lesser(a, b) ELSE Greater(a, b))
           <=> IF op = "and" THEN k <= a /\ k <= b ELSE k <= a \/ k <= b
BY DEF Lesser, Greater

\* The value of a junction, one threshold at a time.
LEMMA JunctionVal ==
  ASSUME Unbounded, NEW v, Typed(v), NEW op \in Junctions, NEW d \in Exprs, NEW e \in Exprs, NEW k \in 1..2
  PROVE  k <= Val(Junction(op, d, e), v)
           <=> IF op = "and" THEN k <= Val(d, v) /\ k <= Val(e, v) ELSE k <= Val(d, v) \/ k <= Val(e, v)
<1>1. Val(d, v) \in 0..2 /\ Val(e, v) \in 0..2
  BY ValIs
<1>2. Val(Junction(op, d, e), v) = IF op = "and" THEN Lesser(Val(d, v), Val(e, v)) ELSE Greater(Val(d, v), Val(e, v))
  BY ValOf DEF Junctions
<1> QED
  BY <1>1, <1>2, AtLeastBoth

\* Values are the same if they reach the same thresholds.
LEMMA SameValue ==
  ASSUME NEW a \in 0..2, NEW b \in 0..2, \A k \in 1..2 : k <= a <=> k <= b
  PROVE  a = b
<1>1. (1 <= a <=> 1 <= b) /\ (2 <= a <=> 2 <= b)
  OBVIOUS
<1> QED
  BY <1>1

\* A chain put together of two reaches what both of them, or either, reach.
LEMMA AtLeastConcat ==
  ASSUME NEW op \in Junctions, NEW k, NEW v, NEW l \in Seq(Exprs), NEW r \in Seq(Exprs)
  PROVE  AtLeast(op, k, l \o r, v)
           <=> IF op = "and" THEN AtLeast(op, k, l, v) /\ AtLeast(op, k, r, v)
                             ELSE AtLeast(op, k, l, v) \/ AtLeast(op, k, r, v)
<1>1. /\ Len(l \o r) = Len(l) + Len(r) /\ Len(l) \in Nat /\ Len(r) \in Nat
      /\ \A i \in 1..Len(l) : i \in 1..Len(l \o r) /\ (l \o r)[i] = l[i]
      /\ \A i \in 1..Len(r) : Len(l) + i \in 1..Len(l \o r) /\ (l \o r)[Len(l) + i] = r[i]
  OBVIOUS
<1>2. ASSUME NEW i \in 1..Len(l \o r)
      PROVE  \/ i \in 1..Len(l) /\ (l \o r)[i] = l[i]
             \/ i - Len(l) \in 1..Len(r) /\ (l \o r)[i] = r[i - Len(l)]
  OBVIOUS
<1>3. CASE op = "and"
  BY <1>1, <1>2, <1>3 DEF AtLeast
<1>4. CASE op = "or"
  BY <1>1, <1>2, <1>4 DEF AtLeast
<1> QED
  BY <1>3, <1>4 DEF Junctions

\* The value of a chain is that of its operands.
LEMMA OperandsKeep ==
  ASSUME Unbounded, NEW v, Typed(v), NEW op \in Junctions, NEW e \in Exprs, NEW k \in 1..2
  PROVE  k <= Val(e, v) <=> AtLeast(op, k, Operands(op, e), v)
<1> DEFINE T == {d \in Exprs : k <= Val(d, v) <=> AtLeast(op, k, Operands(op, d), v)}
<1>1. ASSUME NEW d \in Exprs, d.op # op
      PROVE  d \in T
  <2>1. Operands(op, d) = <<d>>
    BY <1>1, OperandsAre
  <2>2. AtLeast(op, k, <<d>>, v) <=> k <= Val(d, v)
    <3>1. Len(<<d>>) = 1 /\ <<d>>[1] = d /\ \A i \in 1..1 : i = 1
      OBVIOUS
    <3> QED
      BY <3>1 DEF AtLeast
  <2> QED
    BY <2>1, <2>2
<1>2. Atoms \cup {Nothing} \subseteq T
  <2>1. ASSUME NEW d \in Atoms \cup {Nothing}
        PROVE  d \in Exprs /\ d.op # op
    BY ExprsHave, AtomOp, JunctionIs DEF Relations, Junctions
  <2> QED
    BY <1>1, <2>1
<1>3. ASSUME NEW d \in Exprs, d.op = "not", d.arg \in T
      PROVE  d \in T
  BY <1>1, <1>3 DEF Junctions
<1>4. ASSUME NEW d \in Exprs, d.op \in Junctions, d.left \in T, d.right \in T
      PROVE  d \in T
  <2>1. CASE d.op # op
    BY <1>1, <2>1
  <2>2. CASE d.op = op
    <3>1. /\ Operands(op, d) = Operands(op, d.left) \o Operands(op, d.right)
          /\ d.left \in Exprs /\ d.right \in Exprs /\ d = Junction(op, d.left, d.right)
      BY <2>2, OperandsAre, ExprsAre
    <3>2. Operands(op, d.left) \in Seq(Exprs) /\ Operands(op, d.right) \in Seq(Exprs)
      BY <3>1, OperandsTyped, ExprsClosed
    <3>3. k <= Val(d, v) <=> IF op = "and" THEN k <= Val(d.left, v) /\ k <= Val(d.right, v)
                                           ELSE k <= Val(d.left, v) \/ k <= Val(d.right, v)
      BY <3>1, JunctionVal
    <3>4. /\ k <= Val(d.left, v) <=> AtLeast(op, k, Operands(op, d.left), v)
          /\ k <= Val(d.right, v) <=> AtLeast(op, k, Operands(op, d.right), v)
      BY <1>4
    <3>5. AtLeast(op, k, Operands(op, d.left) \o Operands(op, d.right), v)
            <=> IF op = "and" THEN k <= Val(d.left, v) /\ k <= Val(d.right, v)
                              ELSE k <= Val(d.left, v) \/ k <= Val(d.right, v)
      BY <3>2, <3>4, AtLeastConcat
    <3> QED
      BY <3>1, <3>3, <3>5
  <2> QED
    BY <2>1, <2>2
<1>5. T = Exprs
  BY <1>2, <1>3, <1>4, AllExprs
<1> QED
  BY <1>5

\* ChainOf makes of some operands an expression of their value.
LEMMA ChainKeeps ==
  ASSUME Unbounded, NEW X, ClosedKind(X), NEW op \in Junctions, NEW es \in Seq(X), es # <<>>
  PROVE  /\ ChainOf(op, es) \in X
         /\ \A v : Typed(v) => \A k \in 1..2 : k <= Val(ChainOf(op, es), v) <=> AtLeast(op, k, es, v)
<1> DEFINE N == Len(es) - 1
           step == [p \in (1..N) \X X |-> Junction(op, p[2], es[p[1] + 1])]
           upTo[k \in 0..N] == IF k = 0 THEN es[1] ELSE Junction(op, upTo[k - 1], es[k + 1])
<1>1. N \in Nat /\ Len(es) \in Nat /\ \A k \in 0..N : k + 1 \in 1..Len(es) /\ es[k + 1] \in X
  OBVIOUS
<1>2. step \in RunSteps(N, X)
  BY <1>1 DEF RunSteps, ClosedKind
<1>3. es[1] \in X
  BY <1>1
<1>4. ASSUME NEW n \in 1..N, NEW x \in X
      PROVE  step[<<n, x>>] = Junction(op, x, es[n + 1])
  OBVIOUS
<1>5. ChainOf(op, es) = upTo[N]
  BY DEF ChainOf
<1> HIDE DEF N, step
<1>6. PICK f \in RunFrom(N, X) : \A k \in 0..N : f[k] = IF k = 0 THEN es[1] ELSE step[<<k, f[k - 1]>>]
  BY <1>1, <1>2, <1>3, BoundedRecursion
<1>7. ASSUME NEW k \in 0..N
      PROVE  f[k] = IF k = 0 THEN es[1] ELSE Junction(op, f[k - 1], es[k + 1])
  <2>1. CASE k = 0
    BY <1>6, <2>1
  <2>2. CASE k # 0
    <3>1. k \in 1..N /\ k - 1 \in 0..N
      BY <1>1, <2>2
    <3>2. f[k - 1] \in X
      BY <1>6, <3>1 DEF RunFrom
    <3> QED
      BY <1>4, <1>6, <2>2, <3>1, <3>2
  <2> QED
    BY <2>1, <2>2
<1>8. f = [k \in 0..N |-> IF k = 0 THEN es[1] ELSE Junction(op, f[k - 1], es[k + 1])]
  BY <1>6, <1>7 DEF RunFrom
<1>9. upTo = [k \in 0..N |-> IF k = 0 THEN es[1] ELSE Junction(op, upTo[k - 1], es[k + 1])]
  BY <1>8
<1> HIDE DEF upTo
<1>10. \A k \in 0..N : upTo[k] = IF k = 0 THEN es[1] ELSE Junction(op, upTo[k - 1], es[k + 1])
  BY <1>9
<1> DEFINE Has(n, k, v) == IF op = "and" THEN \A i \in 1..(n + 1) : k <= Val(es[i], v)
                                         ELSE \E i \in 1..(n + 1) : k <= Val(es[i], v)
           Good(n) == /\ upTo[n] \in X
                      /\ \A v : Typed(v) => \A k \in 1..2 : k <= Val(upTo[n], v) <=> Has(n, k, v)
           T == {n \in Nat : n <= N => Good(n)}
<1>11. 0 \in T
  <2>1. upTo[0] = es[1] /\ 0 + 1 = 1 /\ \A i \in 1..1 : i = 1
    BY <1>1, <1>10
  <2> QED
    BY <1>3, <2>1
<1>12. ASSUME NEW n \in T
       PROVE  n + 1 \in T
  <2>1. SUFFICES ASSUME n + 1 <= N PROVE Good(n + 1)
    BY <1>12
  <2>2. n \in Nat /\ Good(n) /\ n + 1 \in 0..N /\ n + 1 # 0 /\ (n + 1) - 1 = n
    BY <1>1, <1>12, <2>1
  <2>3. upTo[n + 1] = Junction(op, upTo[n], es[(n + 1) + 1])
    BY <1>10, <2>2
  <2>4. es[(n + 1) + 1] \in X
    BY <1>1, <2>2
  <2>5. upTo[n + 1] \in X /\ X \subseteq Exprs
    BY <2>2, <2>3, <2>4 DEF ClosedKind
  <2>6. ASSUME NEW v, Typed(v), NEW k \in 1..2
        PROVE  k <= Val(upTo[n + 1], v) <=> Has(n + 1, k, v)
    <3>1. k <= Val(upTo[n + 1], v) <=> IF op = "and" THEN k <= Val(upTo[n], v) /\ k <= Val(es[(n + 1) + 1], v)
                                       ELSE k <= Val(upTo[n], v) \/ k <= Val(es[(n + 1) + 1], v)
      BY <2>2, <2>3, <2>4, <2>5, <2>6, JunctionVal
    <3>2. k <= Val(upTo[n], v) <=> Has(n, k, v)
      BY <2>2, <2>6
    <3>3. \A i : i \in 1..((n + 1) + 1) <=> i \in 1..(n + 1) \/ i = (n + 1) + 1
      BY <2>2
    <3> QED
      BY <3>1, <3>2, <3>3
  <2> QED
    BY <2>5, <2>6
<1>13. T = Nat
  <2> HIDE DEF T
  <2> QED
    BY <1>11, <1>12, AllNumbers DEF T
<1>14. Good(N) /\ N + 1 = Len(es)
  BY <1>1, <1>13 DEF N
<1> QED
  BY <1>5, <1>14 DEF AtLeast

-----------------------------------------------------------------------------
(* expr_eliminate_yn.                                                      *)

\* 'y' and 'n' are of every kind.
LEMMA Constants ==
  ASSUME Unbounded, NEW X, ClosedKind(X)
  PROVE  /\ Yes \in X /\ No \in X /\ Nothing \in X /\ Atoms \subseteq X /\ X \subseteq Exprs
         /\ \A op : Neutral(op) \in {Yes, No} /\ Zero(op) \in {Yes, No}
<1>1. Yes \in Atoms /\ No \in Atoms
  BY DEF Yes, No, Atoms, Switches
<1> QED
  BY <1>1 DEF ClosedKind, Neutral, Zero

\* Leaving out a constant operand keeps the value of a junction.
LEMMA WithoutYnKeeps ==
  ASSUME Unbounded, NEW X, ClosedKind(X), NEW op \in Junctions, NEW l \in X, NEW r \in X
  PROVE  /\ WithoutYn(op, l, r) \in X
         /\ \A v : Typed(v) => Val(WithoutYn(op, l, r), v) = Val(Junction(op, l, r), v)
<1>1. Junction(op, l, r) \in X /\ X \subseteq Exprs
  BY DEF ClosedKind
<1>2. WithoutYn(op, l, r) \in {l, r, Junction(op, l, r)}
  BY DEF WithoutYn
<1>3. ASSUME NEW v, Typed(v)
      PROVE  Val(WithoutYn(op, l, r), v) = Val(Junction(op, l, r), v)
  <2>1. Val(l, v) \in 0..2 /\ Val(r, v) \in 0..2 /\ Val(Yes, v) = 2 /\ Val(No, v) = 0
    BY <1>1, <1>3, ValIs, ValOf
  <2>2. CASE op = "and"
    <3>1. Val(Junction(op, l, r), v) = Lesser(Val(l, v), Val(r, v)) /\ Zero(op) = No /\ Neutral(op) = Yes
      BY <1>1, <1>3, <2>2, ValOf DEF Zero, Neutral
    <3> QED
      BY <2>1, <3>1 DEF WithoutYn, Lesser
  <2>3. CASE op = "or"
    <3>1. Val(Junction(op, l, r), v) = Greater(Val(l, v), Val(r, v)) /\ Zero(op) = Yes /\ Neutral(op) = No
      BY <1>1, <1>3, <2>3, ValOf DEF Zero, Neutral
    <3> QED
      BY <2>1, <3>1 DEF WithoutYn, Greater
  <2> QED
    BY <2>2, <2>3 DEF Junctions
<1> QED
  BY <1>1, <1>2, <1>3

\* The equation that defines EliminateYn.
LEMMA EliminateYnIs ==
  ASSUME Unbounded, NEW e \in Exprs
  PROVE  EliminateYn[e] = IF e.op \in Junctions
                          THEN WithoutYn(e.op, EliminateYn[e.left], EliminateYn[e.right]) ELSE e
<1> DEFINE S == Exprs
           leaf == [d \in Exprs |-> d]
           neg == [p \in Exprs \X S |-> p[1]]
           junct == [p \in Exprs \X S \X S |-> IF p[1].op \in Junctions THEN WithoutYn(p[1].op, p[2], p[3]) ELSE p[1]]
           Body(f, d) == IF d.op \in Junctions THEN WithoutYn(d.op, f[d.left], f[d.right]) ELSE d
<1>1. leaf \in LeafSteps(S)
  BY DEF LeafSteps
<1>2. neg \in NotSteps(S)
  BY DEF NotSteps
<1>3. junct \in JunctionSteps(S)
  <2>1. ASSUME NEW d \in Exprs, NEW l \in Exprs, NEW r \in Exprs, d.op \in Junctions
        PROVE  WithoutYn(d.op, l, r) \in Exprs
    BY <2>1, WithoutYnKeeps, ExprsClosed
  <2> QED
    BY <2>1 DEF JunctionSteps
<1>4. ASSUME NEW f \in LeafSteps(S), NEW d \in Exprs
      PROVE  StepOf(leaf, neg, junct, f, d) = Body(f, d)
  <2>1. CASE d.op = "not"
    <3>1. f[d.arg] \in S /\ d.op \notin Junctions
      BY <2>1, ExprsAre DEF LeafSteps, Junctions
    <3> QED
      BY <2>1, <3>1 DEF StepOf
  <2>2. CASE d.op \in Junctions
    <3>1. f[d.left] \in S /\ f[d.right] \in S /\ d.op # "not"
      BY <2>2, ExprsAre DEF LeafSteps, Junctions
    <3> QED
      BY <2>2, <3>1 DEF StepOf
  <2>3. CASE d.op # "not" /\ d.op \notin Junctions
    BY <2>3 DEF StepOf
  <2> QED
    BY <2>1, <2>2, <2>3
<1> HIDE DEF leaf, neg, junct, S, Body
<1>5. PICK f \in LeafSteps(S) : \A d \in Exprs : f[d] = StepOf(leaf, neg, junct, f, d)
  BY <1>1, <1>2, <1>3, StructuralRecursion
<1>6. f = [d \in Exprs |-> Body(f, d)]
  BY <1>4, <1>5 DEF LeafSteps
<1>7. EliminateYn = [d \in Exprs |-> Body(EliminateYn, d)]
  BY <1>6 DEF Body, EliminateYn
<1> QED
  BY <1>7 DEF Body

\* expr_eliminate_yn keeps the value of an expression.
LEMMA EliminateYnKeeps ==
  ASSUME Unbounded, NEW X, ClosedKind(X), NEW e \in X
  PROVE  /\ EliminateYn[e] \in X
         /\ \A v : Typed(v) => Val(EliminateYn[e], v) = Val(e, v)
<1> DEFINE Good(d) == /\ EliminateYn[d] \in X
                      /\ \A v : Typed(v) => Val(EliminateYn[d], v) = Val(d, v)
           T == {d \in Exprs : d \in X => Good(d)}
<1>1. ASSUME NEW d \in Exprs, d.op \notin Junctions
      PROVE  d \in T
  <2>1. EliminateYn[d] = d
    BY <1>1, EliminateYnIs
  <2> QED
    BY <2>1
<1>2. Atoms \cup {Nothing} \subseteq T
  <2>1. ASSUME NEW d \in Atoms \cup {Nothing}
        PROVE  d \in Exprs /\ d.op \notin Junctions
    BY ExprsHave, AtomOp, JunctionIs DEF Relations, Junctions
  <2> QED
    BY <1>1, <2>1
<1>3. ASSUME NEW d \in Exprs, d.op = "not", d.arg \in T
      PROVE  d \in T
  BY <1>1, <1>3 DEF Junctions
<1>4. ASSUME NEW d \in Exprs, d.op \in Junctions, d.left \in T, d.right \in T
      PROVE  d \in T
  <2>1. SUFFICES ASSUME d \in X PROVE Good(d)
    OBVIOUS
  <2>2. d.left \in X /\ d.right \in X /\ d = Junction(d.op, d.left, d.right)
    BY <1>4, <2>1, ExprsAre DEF ClosedKind
  <2>3. Good(d.left) /\ Good(d.right)
    BY <1>4, <2>2
  <2> DEFINE l == EliminateYn[d.left]
             r == EliminateYn[d.right]
  <2>4. EliminateYn[d] = WithoutYn(d.op, l, r)
    BY <1>4, EliminateYnIs
  <2>5. /\ l \in X /\ r \in X
        /\ \A v : Typed(v) => Val(l, v) = Val(d.left, v) /\ Val(r, v) = Val(d.right, v)
    BY <2>3
  <2> HIDE DEF l, r
  <2>6. /\ WithoutYn(d.op, l, r) \in X
        /\ \A v : Typed(v) => Val(WithoutYn(d.op, l, r), v) = Val(Junction(d.op, l, r), v)
    BY <1>4, <2>5, WithoutYnKeeps
  <2>7. ASSUME NEW v, Typed(v)
        PROVE  Val(Junction(d.op, l, r), v) = Val(d, v)
    <3>1. d.left \in Exprs /\ d.right \in Exprs /\ l \in Exprs /\ r \in Exprs
      BY <2>2, <2>5 DEF ClosedKind
    <3>2. /\ d.op = "and" => Val(d, v) = Lesser(Val(d.left, v), Val(d.right, v))
          /\ d.op = "or" => Val(d, v) = Greater(Val(d.left, v), Val(d.right, v))
      BY <2>7, ValIs
    <3>3. /\ d.op = "and" => Val(Junction(d.op, l, r), v) = Lesser(Val(l, v), Val(r, v))
          /\ d.op = "or" => Val(Junction(d.op, l, r), v) = Greater(Val(l, v), Val(r, v))
      BY <2>7, <3>1, ValOf
    <3>4. Val(l, v) = Val(d.left, v) /\ Val(r, v) = Val(d.right, v)
      BY <2>5, <2>7
    <3> QED
      BY <1>4, <3>2, <3>3, <3>4 DEF Junctions
  <2> QED
    BY <2>4, <2>6, <2>7
<1>5. T = Exprs
  BY <1>2, <1>3, <1>4, AllExprs
<1> QED
  BY <1>5 DEF ClosedKind

-----------------------------------------------------------------------------
(* What two chains share may be left out of both.                          *)

\* The pairs of places in two chains.
LEMMA IndexPairsAre ==
  ASSUME NEW m \in Nat \ {0}, NEW n \in Nat \ {0}
  PROVE  /\ Len(IndexPairs(m, n)) \in Nat
         /\ \A k \in 1..Len(IndexPairs(m, n)) :
              IndexPairs(m, n)[k][1] \in 1..m /\ IndexPairs(m, n)[k][2] \in 1..n
<1>1. m * n \in Nat
  OBVIOUS
<1> DEFINE N == m * n
           pairs == [k \in 1..N |-> <<((k - 1) \div n) + 1, ((k - 1) % n) + 1>>]
<1>2. IndexPairs(m, n) = pairs
  BY DEF IndexPairs
<1>3. ASSUME NEW k \in 1..N
      PROVE  (k - 1) \div n \in 0..(m - 1) /\ (k - 1) % n \in 0..(n - 1)
  <2> DEFINE q == (k - 1) \div n
             r == (k - 1) % n
  <2>1. k - 1 \in Nat /\ k - 1 < N
    BY <1>1
  <2>2. q \in Int /\ r \in 0..(n - 1) /\ k - 1 = n * q + r
    BY <2>1
  <2> HIDE DEF q, r
  <2>3. q >= 0
    BY <2>1, <2>2
  <2>4. q < m
    <3>1. SUFFICES ASSUME q >= m PROVE FALSE
      BY <2>2
    <3>2. n * q >= n * m
      BY <2>2, <3>1
    <3> QED
      BY <2>1, <2>2, <3>2
  <2> QED
    BY <2>2, <2>3, <2>4 DEF q, r
<1>4. Len(pairs) = N /\ N \in Nat
  BY <1>1
<1>5. ASSUME NEW k \in 1..N
      PROVE  pairs[k][1] \in 1..m /\ pairs[k][2] \in 1..n
  <2>1. pairs[k] = <<((k - 1) \div n) + 1, ((k - 1) % n) + 1>>
    OBVIOUS
  <2> DEFINE q == (k - 1) \div n
             r == (k - 1) % n
  <2>2. q \in 0..(m - 1) /\ r \in 0..(n - 1) /\ pairs[k] = <<q + 1, r + 1>>
    BY <1>3, <2>1
  <2> HIDE DEF q, r, pairs
  <2>3. q + 1 \in 1..m /\ r + 1 \in 1..n
    BY <2>2
  <2> QED
    BY <2>2, <2>3
<1> HIDE DEF N, pairs
<1> QED
  BY <1>2, <1>4, <1>5

\* What is held equal has equal values.
Sound(same) ==
  /\ same \in [Exprs \X Exprs -> BOOLEAN]
  /\ \A d, e \in Exprs : same[<<d, e>>] => \A v : Typed(v) => Val(d, v) = Val(e, v)

\* Pairs of chains, and what is so of the first pair if it is of the second.
ChainPairs(X, m, n) == {c \in [{1, 2} -> Seq(X)] : Len(c[1]) = m /\ Len(c[2]) = n}
OrderedAs(op, k, v, c, q) ==
  \A i, j \in {1, 2} :
    (AtLeast(op, k, q[i], v) => AtLeast(op, k, q[j], v))
      => (AtLeast(op, k, c[i], v) => AtLeast(op, k, c[j], v))

\* What becomes of a chain when the neutral element takes an operand's place.
LEMMA NeutralAtLeast ==
  ASSUME Unbounded, NEW op \in Junctions, NEW v, Typed(v), NEW k \in 1..2,
         NEW es \in Seq(Exprs), NEW i \in 1..Len(es)
  PROVE  LET fs == [es EXCEPT ![i] = Neutral(op)]
         IN  AtLeast(op, k, es, v)
               <=> IF op = "and" THEN AtLeast(op, k, fs, v) /\ k <= Val(es[i], v)
                                 ELSE AtLeast(op, k, fs, v) \/ k <= Val(es[i], v)
<1> DEFINE fs == [es EXCEPT ![i] = Neutral(op)]
<1>1. Len(fs) = Len(es) /\ fs[i] = Neutral(op) /\ \A j \in 1..Len(es) : j # i => fs[j] = es[j]
  OBVIOUS
<1>2. Val(Yes, v) = 2 /\ Val(No, v) = 0
  BY ValOf, ExprsHave
<1> HIDE DEF fs
<1>3. CASE op = "and"
  BY <1>1, <1>2, <1>3 DEF AtLeast, Neutral
<1>4. CASE op = "or"
  BY <1>1, <1>2, <1>4 DEF AtLeast, Neutral
<1> QED
  BY <1>3, <1>4 DEF Junctions, fs

\* ... when an operand of each of two chains that have one value goes.
LEMMA CancelPairKeeps ==
  ASSUME Unbounded, NEW X, ClosedKind(X), NEW same, Sound(same), NEW op \in Junctions,
         NEW m \in Nat \ {0}, NEW n \in Nat \ {0},
         NEW c \in ChainPairs(X, m, n), NEW i \in 1..m, NEW j \in 1..n
  PROVE  /\ CancelPair(same, op, i, j, c) \in ChainPairs(X, m, n)
         /\ \A v : Typed(v) => \A k \in 1..2 : OrderedAs(op, k, v, c, CancelPair(same, op, i, j, c))
<1>1. CASE Differ(same, c[1][i], c[2][j])
  <2>1. CancelPair(same, op, i, j, c) = c
    BY <1>1 DEF CancelPair
  <2> QED
    BY <2>1 DEF OrderedAs
<1>2. CASE ~Differ(same, c[1][i], c[2][j])
  <2> DEFINE f == [c[1] EXCEPT ![i] = Neutral(op)]
             g == [c[2] EXCEPT ![j] = Neutral(op)]
  <2>1. CancelPair(same, op, i, j, c) = <<f, g>>
    BY <1>2 DEF CancelPair
  <2>2. c[1] \in Seq(X) /\ c[2] \in Seq(X) /\ Len(c[1]) = m /\ Len(c[2]) = n
    BY DEF ChainPairs
  <2>3. Neutral(op) \in X /\ X \subseteq Exprs
    BY Constants
  <2>4. f \in Seq(X) /\ g \in Seq(X) /\ Len(f) = m /\ Len(g) = n
    BY <2>2, <2>3
  <2>5. c[1] \in Seq(Exprs) /\ c[2] \in Seq(Exprs) /\ c[1][i] \in Exprs /\ c[2][j] \in Exprs
    BY <2>2, <2>3
  <2>6. same[<<c[1][i], c[2][j]>>]
    BY <1>2, <2>5 DEF Differ, Sound
  <2>7. ASSUME NEW v, Typed(v), NEW k \in 1..2
        PROVE  OrderedAs(op, k, v, c, <<f, g>>)
    <3>1. Val(c[1][i], v) = Val(c[2][j], v)
      BY <2>5, <2>6, <2>7 DEF Sound
    <3>2. AtLeast(op, k, c[1], v)
            <=> IF op = "and" THEN AtLeast(op, k, f, v) /\ k <= Val(c[1][i], v)
                              ELSE AtLeast(op, k, f, v) \/ k <= Val(c[1][i], v)
      BY <2>2, <2>5, <2>7, NeutralAtLeast
    <3>3. AtLeast(op, k, c[2], v)
            <=> IF op = "and" THEN AtLeast(op, k, g, v) /\ k <= Val(c[2][j], v)
                              ELSE AtLeast(op, k, g, v) \/ k <= Val(c[2][j], v)
      BY <2>2, <2>5, <2>7, NeutralAtLeast
    <3> HIDE DEF f, g
    <3>4. <<f, g>>[1] = f /\ <<f, g>>[2] = g
      OBVIOUS
    <3> QED
      BY <3>1, <3>2, <3>3, <3>4 DEF OrderedAs
  <2>8. <<f, g>> \in ChainPairs(X, m, n)
    <3> HIDE DEF f, g
    <3>1. <<f, g>> \in [{1, 2} -> Seq(X)] /\ <<f, g>>[1] = f /\ <<f, g>>[2] = g
      BY <2>4
    <3> QED
      BY <2>4, <3>1 DEF ChainPairs
  <2> QED
    BY <2>1, <2>7, <2>8
<1> QED
  BY <1>1, <1>2

\* ... and when all those do.
LEMMA CancelPairsKeep ==
  ASSUME Unbounded, NEW X, ClosedKind(X), NEW same, Sound(same), NEW op \in Junctions,
         NEW m \in Nat \ {0}, NEW n \in Nat \ {0}, NEW c \in ChainPairs(X, m, n)
  PROVE  /\ CancelChains(same, op, c) \in ChainPairs(X, m, n)
         /\ \A v : Typed(v) => \A k \in 1..2 : OrderedAs(op, k, v, c, CancelChains(same, op, c))
<1> DEFINE pairs == IndexPairs(m, n)
           N == Len(pairs)
           S == ChainPairs(X, m, n)
           After(k, b) == CancelPair(same, op, pairs[k][1], pairs[k][2], b)
           step == [p \in (1..N) \X S |-> After(p[1], p[2])]
           upTo[k \in 0..N] == IF k = 0 THEN c ELSE CancelPair(same, op, pairs[k][1], pairs[k][2], upTo[k - 1])
<1>1. CancelChains(same, op, c) = upTo[N]
  <2>1. Len(c[1]) = m /\ Len(c[2]) = n
    BY DEF ChainPairs
  <2> QED
    BY <2>1 DEF CancelChains, CancelPairs
<1>2. N \in Nat /\ \A k \in 1..N : pairs[k][1] \in 1..m /\ pairs[k][2] \in 1..n
  BY IndexPairsAre
<1>3. ASSUME NEW k \in 1..N, NEW b \in S
      PROVE  /\ After(k, b) \in S /\ step[<<k, b>>] = After(k, b)
             /\ \A v : Typed(v) => \A l \in 1..2 : OrderedAs(op, l, v, b, After(k, b))
  <2>1. pairs[k][1] \in 1..m /\ pairs[k][2] \in 1..n
    BY <1>2
  <2> QED
    BY <2>1, CancelPairKeeps
<1>4. step \in RunSteps(N, S)
  <2>1. \A p \in (1..N) \X S : After(p[1], p[2]) \in S
    BY <1>3
  <2> QED
    BY <2>1 DEF RunSteps
<1>10. upTo = [k \in 0..N |-> IF k = 0 THEN c ELSE After(k, upTo[k - 1])]
  <2> HIDE DEF N, S, step, pairs
  <2>1. PICK f \in RunFrom(N, S) : \A k \in 0..N : f[k] = IF k = 0 THEN c ELSE step[<<k, f[k - 1]>>]
    BY <1>2, <1>4, BoundedRecursion DEF S
  <2>2. ASSUME NEW k \in 0..N
        PROVE  f[k] = IF k = 0 THEN c ELSE After(k, f[k - 1])
    <3>1. CASE k = 0
      BY <2>1, <3>1
    <3>2. CASE k # 0
      <4>1. k \in 1..N /\ k - 1 \in 0..N
        BY <1>2, <3>2
      <4>2. f[k - 1] \in S
        BY <4>1 DEF RunFrom
      <4> QED
        BY <1>3, <2>1, <3>2, <4>1, <4>2
    <3> QED
      BY <3>1, <3>2
  <2>3. f = [k \in 0..N |-> IF k = 0 THEN c ELSE After(k, f[k - 1])]
    BY <2>1, <2>2 DEF RunFrom
  <2> QED
    BY <2>3
<1> HIDE DEF upTo, After
<1>5. \A k \in 0..N : upTo[k] = IF k = 0 THEN c ELSE After(k, upTo[k - 1])
  BY <1>10
<1> HIDE DEF N, S, pairs
<1> DEFINE Good(k) == upTo[k] \in S /\ \A v : Typed(v) => \A l \in 1..2 : OrderedAs(op, l, v, c, upTo[k])
           T == {k \in Nat : k <= N => Good(k)}
<1>6. 0 \in T
  <2>1. upTo[0] = c
    BY <1>2, <1>5
  <2> QED
    BY <2>1 DEF S, OrderedAs
<1>7. ASSUME NEW k \in T
      PROVE  k + 1 \in T
  <2>1. SUFFICES ASSUME k + 1 <= N PROVE Good(k + 1)
    BY <1>7
  <2>2. k \in Nat /\ Good(k) /\ k + 1 \in 1..N /\ k + 1 \in 0..N /\ k + 1 # 0 /\ (k + 1) - 1 = k
    BY <1>2, <1>7, <2>1
  <2>3. upTo[k + 1] = After(k + 1, upTo[k])
    BY <1>5, <2>2
  <2>4. /\ After(k + 1, upTo[k]) \in S
        /\ \A v : Typed(v) => \A l \in 1..2 : OrderedAs(op, l, v, upTo[k], After(k + 1, upTo[k]))
    BY <1>3, <2>2
  <2> QED
    BY <2>2, <2>3, <2>4 DEF OrderedAs
<1>8. T = Nat
  <2> HIDE DEF T
  <2> QED
    BY <1>6, <1>7, AllNumbers DEF T
<1>9. Good(N)
  BY <1>2, <1>8
<1> QED
  BY <1>1, <1>9 DEF S

\* The same of two expressions.
Ordered(k, v, p, q) ==
  \A i, j \in {1, 2} :
    (k <= Val(q[i], v) => k <= Val(q[j], v)) => (k <= Val(p[i], v) => k <= Val(p[j], v))

\* ... for two expressions and the chains they are (__expr_eliminate_eq).
LEMMA CancelKeeps ==
  ASSUME Unbounded, NEW X, ClosedKind(X), NEW same, Sound(same), NEW op \in Junctions,
         NEW p, p[1] \in X, p[2] \in X
  PROVE  /\ \A i \in {1, 2} : Cancel(same, op, p)[i] \in X
         /\ \A v : Typed(v) => \A k \in 1..2 : Ordered(k, v, p, Cancel(same, op, p))
<1> DEFINE c == [i \in {1, 2} |-> Operands(op, p[i])]
           m == Len(Operands(op, p[1]))
           n == Len(Operands(op, p[2]))
           e == CancelChains(same, op, c)
           q == [i \in {1, 2} |-> ChainOf(op, e[i])]
<1>1. Cancel(same, op, p) = q
  BY DEF Cancel
<1>2. /\ Operands(op, p[1]) \in Seq(X) /\ m \in Nat \ {0}
      /\ Operands(op, p[2]) \in Seq(X) /\ n \in Nat \ {0}
  BY OperandsTyped
<1>3. c \in ChainPairs(X, m, n)
  BY <1>2 DEF ChainPairs
<1>4. \A i \in {1, 2} : c[i] = Operands(op, p[i]) /\ p[i] \in X
  OBVIOUS
<1> HIDE DEF c, m, n
<1>5. /\ e \in ChainPairs(X, m, n)
      /\ \A v : Typed(v) => \A k \in 1..2 : OrderedAs(op, k, v, c, e)
  BY <1>2, <1>3, CancelPairsKeep
<1>6. \A i \in {1, 2} : q[i] = ChainOf(op, e[i])
  OBVIOUS
<1> HIDE DEF e, q
<1>7. ASSUME NEW i \in {1, 2}
      PROVE  e[i] \in Seq(X) /\ e[i] # <<>>
  <2>1. e[i] \in Seq(X) /\ Len(e[i]) \in Nat \ {0}
    BY <1>2, <1>5 DEF ChainPairs
  <2> QED
    BY <2>1
<1>8. ASSUME NEW i \in {1, 2}
      PROVE  /\ q[i] \in X
             /\ \A v : Typed(v) => \A k \in 1..2 : k <= Val(q[i], v) <=> AtLeast(op, k, e[i], v)
  BY <1>6, <1>7, ChainKeeps
<1>9. ASSUME NEW i \in {1, 2}, NEW v, Typed(v), NEW k \in 1..2
      PROVE  k <= Val(p[i], v) <=> AtLeast(op, k, c[i], v)
  <2>1. p[i] \in Exprs
    BY <1>4 DEF ClosedKind
  <2> QED
    BY <1>4, <1>9, <2>1, OperandsKeep
<1>10. ASSUME NEW v, Typed(v), NEW k \in 1..2
       PROVE  Ordered(k, v, p, q)
  BY <1>5, <1>8, <1>9, <1>10 DEF Ordered, OrderedAs
<1> QED
  BY <1>1, <1>8, <1>10

\* expr_eliminate_eq: where what is left of one is at most what is left of the
\* other, so were the two before.
LEMMA EliminatedKeeps ==
  ASSUME Unbounded, NEW X, ClosedKind(X), NEW same, Sound(same), NEW p, p[1] \in X, p[2] \in X
  PROVE  /\ \A i \in {1, 2} : Eliminated(same, p)[i] \in X
         /\ \A v : Typed(v) => \A k \in 1..2 : Ordered(k, v, p, Eliminated(same, p))
<1>1. CASE Nothing \in {p[1], p[2]}
  <2>1. Eliminated(same, p) = p
    BY <1>1 DEF Eliminated
  <2> QED
    BY <2>1 DEF Ordered
<1>2. CASE Nothing \notin {p[1], p[2]}
  <2> DEFINE op == p[1].op
             l == CancelLeft(same, p)
             r == CancelRight(same, op, l)
             q == [i \in {1, 2} |-> EliminateYn[r[i]]]
  <2>1. Eliminated(same, p) = q
    BY <1>2 DEF Eliminated
  <2>2. /\ l[1] \in X /\ l[2] \in X
        /\ \A v : Typed(v) => \A k \in 1..2 : Ordered(k, v, p, l)
    <3>1. CASE op \in Junctions
      <4>1. l = Cancel(same, op, p)
        BY <3>1 DEF CancelLeft
      <4> QED
        BY <3>1, <4>1, CancelKeeps
    <3>2. CASE op \notin Junctions
      <4>1. l = p
        BY <3>2 DEF CancelLeft
      <4> QED
        BY <4>1 DEF Ordered
    <3> QED
      BY <3>1, <3>2
  <2> HIDE DEF l
  <2>3. /\ r[1] \in X /\ r[2] \in X
        /\ \A v : Typed(v) => \A k \in 1..2 : Ordered(k, v, l, r)
    <3>1. CASE l[2].op \in Junctions \ {op}
      <4>1. r = Cancel(same, l[2].op, l)
        BY <3>1 DEF CancelRight
      <4> QED
        BY <2>2, <3>1, <4>1, CancelKeeps
    <3>2. CASE l[2].op \notin Junctions \ {op}
      <4>1. r = l
        BY <3>2 DEF CancelRight
      <4> QED
        BY <2>2, <4>1 DEF Ordered
    <3> QED
      BY <3>1, <3>2
  <2> HIDE DEF r
  <2>4. ASSUME NEW i \in {1, 2}
        PROVE  q[i] \in X /\ \A v : Typed(v) => Val(q[i], v) = Val(r[i], v)
    <3>1. q[i] = EliminateYn[r[i]] /\ r[i] \in X
      BY <2>3
    <3> QED
      BY <3>1, EliminateYnKeeps
  <2> HIDE DEF q, op
  <2>5. ASSUME NEW v, Typed(v), NEW k \in 1..2
        PROVE  Ordered(k, v, p, q)
    <3>1. Ordered(k, v, p, l) /\ Ordered(k, v, l, r) /\ \A i \in {1, 2} : Val(q[i], v) = Val(r[i], v)
      BY <2>2, <2>3, <2>4, <2>5
    <3> QED
      BY <3>1 DEF Ordered
  <2> QED
    BY <2>1, <2>4, <2>5
<1> QED
  BY <1>1, <1>2

\* Expressions found equal have equal values.
LEMMA EqualBySound ==
  ASSUME Unbounded, NEW same, Sound(same), NEW d \in Exprs, NEW e \in Exprs
  PROVE  /\ EqualBy(same, d, e) \in BOOLEAN
         /\ EqualBy(same, d, e) => \A v : Typed(v) => Val(d, v) = Val(e, v)
<1>1. CASE d.op # e.op
  BY <1>1 DEF EqualBy
<1>2. CASE d.op = e.op /\ d.op = "not"
  <2>1. d.arg \in Exprs /\ e.arg \in Exprs
    BY <1>2, ExprsAre
  <2>2. EqualBy(same, d, e) <=> same[<<d.arg, e.arg>>]
    <3>1. "not" \notin Junctions
      BY DEF Junctions
    <3> QED
      BY <1>2, <3>1 DEF EqualBy
  <2>4. EqualBy(same, d, e) \in BOOLEAN
    BY <1>2 DEF EqualBy
  <2>3. \A v : Typed(v) => Val(d, v) = 2 - Val(d.arg, v) /\ Val(e, v) = 2 - Val(e.arg, v)
    BY <1>2, ValIs
  <2> QED
    BY <2>1, <2>2, <2>3, <2>4 DEF Sound
<1>3. CASE d.op = e.op /\ d.op \in Junctions
  <2> DEFINE p == <<d, e>>
             r == Eliminated(same, p)
  <2>1. EqualBy(same, d, e) <=> r[1] = r[2] /\ r[1].op = "sym"
    BY <1>3 DEF EqualBy, Junctions
  <2>4. EqualBy(same, d, e) \in BOOLEAN
    BY <1>3 DEF EqualBy, Junctions
  <2>2. p[1] = d /\ p[2] = e
    OBVIOUS
  <2> HIDE DEF p, r
  <2>3. ASSUME NEW v, Typed(v), r[1] = r[2]
        PROVE  Val(d, v) = Val(e, v)
    <3>1. \A k \in 1..2 : Ordered(k, v, p, r)
      BY <2>2, <2>3, EliminatedKeeps, ExprsClosed DEF r
    <3>2. \A k \in 1..2 : k <= Val(d, v) <=> k <= Val(e, v)
      BY <2>2, <2>3, <3>1 DEF Ordered
    <3>3. Val(d, v) \in 0..2 /\ Val(e, v) \in 0..2
      BY <2>3, ValIs
    <3> QED
      BY <3>2, <3>3, SameValue
  <2> QED
    BY <2>1, <2>3, <2>4
<1>4. CASE d.op = e.op /\ d.op # "not" /\ d.op \notin Junctions
  BY <1>4 DEF EqualBy
<1> QED
  BY <1>1, <1>2, <1>3, <1>4

\* ... however deep they are compared.
LEMMA EqualUpToSound ==
  ASSUME Unbounded
  PROVE  \A n \in Nat : Sound(EqualUpTo[n])
<1> DEFINE S == [Exprs \X Exprs -> BOOLEAN]
           By(same) == [p \in Exprs \X Exprs |-> EqualBy(same, p[1], p[2])]
           none == [p \in Exprs \X Exprs |-> FALSE]
           G == {same \in S : Sound(same)}
           step == [p \in Nat \X G |-> By(p[2])]
           Body(f, n) == [p \in Exprs \X Exprs |-> n # 0 /\ EqualBy(f[n - 1], p[1], p[2])]
<1>1. none \in G
  BY DEF Sound
<1>2. ASSUME NEW same \in G
      PROVE  By(same) \in G
  <2>1. \A d, e \in Exprs : /\ EqualBy(same, d, e) \in BOOLEAN
                            /\ EqualBy(same, d, e) => \A v : Typed(v) => Val(d, v) = Val(e, v)
    BY EqualBySound
  <2>2. By(same) \in S
    BY <2>1
  <2>3. \A d, e \in Exprs : By(same)[<<d, e>>] = EqualBy(same, d, e)
    OBVIOUS
  <2> HIDE DEF By
  <2> QED
    BY <2>1, <2>2, <2>3 DEF Sound
<1>3. step \in Steps(G)
  BY <1>2 DEF Steps
<1>4. ASSUME NEW n \in Nat, NEW same \in G
      PROVE  step[<<n, same>>] = By(same)
  OBVIOUS
<1> HIDE DEF step, none, G
<1>5. PICK f \in [Nat -> G] : f[0] = none /\ \A n \in Nat : f[n + 1] = step[<<n + 1, f[n]>>]
  BY <1>1, <1>3, NatRecursion
<1>6. ASSUME NEW n \in Nat
      PROVE  f[n] = Body(f, n)
  <2>1. CASE n = 0
    <3>1. Body(f, 0) = [p \in Exprs \X Exprs |-> FALSE]
      OBVIOUS
    <3> QED
      BY <1>5, <2>1, <3>1 DEF none
  <2>2. CASE n # 0
    <3>1. n - 1 \in Nat /\ (n - 1) + 1 = n
      BY <2>2
    <3>2. f[n - 1] \in G
      BY <1>5, <3>1
    <3>3. f[n] = step[<<n, f[n - 1]>>]
      BY <1>5, <3>1
    <3>4. f[n] = By(f[n - 1])
      BY <1>4, <3>2, <3>3
    <3>5. \A p \in Exprs \X Exprs : EqualBy(f[n - 1], p[1], p[2]) \in BOOLEAN
      BY <3>2, EqualBySound DEF G
    <3>6. Body(f, n) = By(f[n - 1])
      BY <2>2, <3>5
    <3> QED
      BY <3>4, <3>6
  <2> QED
    BY <2>1, <2>2
<1>7. f = [n \in Nat |-> Body(f, n)]
  <2> HIDE DEF Body
  <2> QED
    BY <1>5, <1>6
<1>8. EqualUpTo = [n \in Nat |-> Body(EqualUpTo, n)]
  BY <1>7 DEF EqualUpTo
<1> DEFINE T == {n \in Nat : EqualUpTo[n] \in G}
<1>9. 0 \in T
  <2>1. EqualUpTo[0] = Body(EqualUpTo, 0)
    BY <1>8
  <2>2. Body(EqualUpTo, 0) = none
    BY DEF none
  <2> QED
    BY <1>1, <2>1, <2>2
<1>10. ASSUME NEW n \in T
       PROVE  n + 1 \in T
  <2>1. n \in Nat /\ n + 1 \in Nat /\ n + 1 # 0 /\ (n + 1) - 1 = n /\ EqualUpTo[n] \in G
    BY <1>10
  <2>2. EqualUpTo[n + 1] = Body(EqualUpTo, n + 1)
    BY <1>8, <2>1
  <2>3. \A p \in Exprs \X Exprs : EqualBy(EqualUpTo[n], p[1], p[2]) \in BOOLEAN
    BY <2>1, EqualBySound DEF G
  <2>4. Body(EqualUpTo, n + 1) = By(EqualUpTo[n])
    BY <2>1, <2>3
  <2>5. By(EqualUpTo[n]) \in G
    BY <1>2, <2>1
  <2> HIDE DEF By, Body
  <2> QED
    BY <2>1, <2>2, <2>4, <2>5
<1>11. T = Nat
  <2> HIDE DEF T
  <2> QED
    BY <1>9, <1>10, AllNumbers DEF T
<1> QED
  BY <1>11 DEF G

(* expr_eq: expressions it finds equal, after leaving out what they share, *)
(* have the same value in every configuration.                             *)
THEOREM ExprEqIsSound ==
  ASSUME Unbounded, NEW d \in Exprs, NEW e \in Exprs, ExprEq(d, e), NEW v, Typed(v)
  PROVE  Val(d, v) = Val(e, v)
<1>1. Sound(EqualUpTo[Depth])
  BY EqualUpToSound, DepthAssumption
<1> QED
  BY <1>1 DEF ExprEq, Sound

-----------------------------------------------------------------------------
(* Joining the operands of chains.                                         *)

\* The value of two operands together.
Together(op, d, e, v) == IF op = "and" THEN Lesser(Val(d, v), Val(e, v)) ELSE Greater(Val(d, v), Val(e, v))

\* What the joins look at is an atom or the negation of one.
LEMMA JoinableIsOperand ==
  ASSUME Unbounded, NEW d \in Exprs, NEW e \in Exprs, Joinable(d, e)
  PROVE  d \in Operand /\ e \in Operand
<1> DEFINE s == SubjectOf(d, {"eq", "ne", "sym"})
<1>1. s = SubjectOf(e, {"sym"}) /\ s # "none"
  <2>1. s \in DOMAIN Kind /\ s = SubjectOf(e, {"sym"})
    BY DEF Joinable, KindOf
  <2> QED
    BY <2>1, KindAssumption
<1>2. ASSUME NEW x \in Exprs, x.op \in {"eq", "ne", "sym"}
      PROVE  x \in Atoms
  BY <1>2, ExprsAre, JunctionIs DEF Junctions
<1>3. ASSUME NEW x \in Exprs, NEW ops \in SUBSET {"eq", "ne", "sym"}, SubjectOf(x, ops) # "none"
      PROVE  x \in Operand
  <2>1. CASE x.op \in {"eq", "ne", "sym"}
    BY <1>2, <2>1 DEF Operand
  <2>2. CASE x.op = "not"
    <3>1. x.arg \in Exprs /\ x = Not(x.arg)
      BY <2>2, ExprsAre
    <3>2. x.arg.op \in ops
      BY <1>3, <2>2 DEF SubjectOf
    <3> QED
      BY <1>2, <3>1, <3>2 DEF Operand
  <2>3. x.op \in {"eq", "ne", "sym", "not"}
    BY <1>3 DEF SubjectOf
  <2> QED
    BY <2>1, <2>2, <2>3
<1> HIDE DEF s
<1> QED
  BY <1>1, <1>3 DEF s

\* What the joins make is an atom.
LEMMA JoinedIsAtom ==
  ASSUME NEW d \in Operand, NEW e \in Operand
  PROVE  /\ JoinOr(d, e) # Nothing => JoinOr(d, e) \in Atoms
         /\ JoinAnd(d, e) # Nothing => JoinAnd(d, e) \in Atoms
<1> DEFINE s == SubjectOf(d, {"eq", "ne", "sym"})
           eq == IF d.op = "eq" THEN d ELSE e
<1>1. SUFFICES ASSUME Joinable(d, e)
               PROVE  /\ JoinOr(d, e) # Nothing => JoinOr(d, e) \in Atoms
                      /\ JoinAnd(d, e) # Nothing => JoinAnd(d, e) \in Atoms
  BY DEF JoinOr, JoinAnd
<1>2. s \in Switches /\ s \in Terms
  BY <1>1 DEF Joinable, KindOf, Switches, Terms
<1>3. {"y", "m", "n"} \subseteq Terms
  BY WordsAre DEF Terms
<1>4. Yes \in Atoms /\ No \in Atoms
  BY DEF Yes, No, Atoms, Switches
<1>5. Symbol(s) \in Atoms /\ \A op \in {"eq", "ne"} : \A c \in Terms : Compare(op, s, c) \in Atoms
  BY <1>2 DEF Symbol, Compare, Atoms, Relations
<1>6. \A x \in Operand : x.op \in {"eq", "ne"} => x.with \in Terms
  BY AtomOp, JunctionIs DEF Operand, Relations
<1>7. ASSUME NEW op \in {"eq", "ne"}, Comparing(d, e, op)
      PROVE  Third(d.with, e.with) \in Terms
  BY <1>3, <1>7, ThirdIs DEF Comparing
<1>8. {d.op, e.op} = {"eq", "ne"} => eq.with \in Terms
  BY <1>6
<1> HIDE DEF s, eq
<1>9. JoinOr(d, e) # Nothing => JoinOr(d, e) \in Atoms
  BY <1>3, <1>4, <1>5, <1>7 DEF JoinOr, s
<1>10. JoinAnd(d, e) # Nothing => JoinAnd(d, e) \in Atoms
  BY <1>3, <1>4, <1>5, <1>7, <1>8 DEF JoinAnd, s, eq
<1> QED
  BY <1>9, <1>10

\* expr_join_or and expr_join_and keep the value of the two operands.
LEMMA JoinKeeps ==
  ASSUME Unbounded, NEW X, ClosedKind(X), NEW op \in Junctions, NEW d \in X, NEW e \in X
  PROVE  /\ Join(op, d, e) \in X
         /\ Join(op, d, e) # Nothing =>
              \A v : Typed(v) => Val(Join(op, d, e), v) = Together(op, d, e, v)
<1>1. Atoms \cup {Nothing} \subseteq X /\ d \in Exprs /\ e \in Exprs
  BY DEF ClosedKind
<1>2. CASE ExprEq(d, e)
  <2>1. Join(op, d, e) = d
    BY <1>2 DEF Join
  <2>2. ASSUME NEW v, Typed(v)
        PROVE  Val(d, v) = Together(op, d, e, v)
    <3>1. Sound(EqualUpTo[Depth])
      BY EqualUpToSound, DepthAssumption
    <3>2. Val(d, v) = Val(e, v) /\ Val(d, v) \in 0..2
      BY <1>1, <1>2, <2>2, <3>1, ValIs DEF ExprEq, Sound
    <3> QED
      BY <3>2 DEF Together, Lesser, Greater
  <2> QED
    BY <2>1, <2>2
<1>3. CASE ~ExprEq(d, e) /\ op = "or" /\ JoinOr(d, e) # Nothing
  <2>1. Join(op, d, e) = JoinOr(d, e)
    BY <1>3 DEF Join
  <2>2. Joinable(d, e)
    BY <1>3 DEF JoinOr
  <2>3. d \in Operand /\ e \in Operand
    BY <1>1, <2>2, JoinableIsOperand
  <2>4. JoinOr(d, e) \in Atoms /\ JoinOr(d, e) \in Operand
    BY <1>3, <2>3, JoinedIsAtom DEF Operand
  <2>5. ASSUME NEW v, Typed(v)
        PROVE  Val(JoinOr(d, e), v) = Together(op, d, e, v)
    <3>1. OperandVal(JoinOr(d, e), v) = Greater(OperandVal(d, v), OperandVal(e, v))
      BY <1>3, <2>3, <2>5, OrKeepsValue
    <3> QED
      BY <1>3, <2>3, <2>4, <2>5, <3>1, OperandIsExpr DEF Together
  <2> QED
    BY <1>1, <2>1, <2>4, <2>5
<1>4. CASE ~ExprEq(d, e) /\ op = "and" /\ JoinAnd(d, e) # Nothing
  <2>1. Join(op, d, e) = JoinAnd(d, e)
    BY <1>4 DEF Join
  <2>2. Joinable(d, e)
    BY <1>4 DEF JoinAnd
  <2>3. d \in Operand /\ e \in Operand
    BY <1>1, <2>2, JoinableIsOperand
  <2>4. JoinAnd(d, e) \in Atoms /\ JoinAnd(d, e) \in Operand
    BY <1>4, <2>3, JoinedIsAtom DEF Operand
  <2>5. ASSUME NEW v, Typed(v)
        PROVE  Val(JoinAnd(d, e), v) = Together(op, d, e, v)
    <3>1. OperandVal(JoinAnd(d, e), v) = Lesser(OperandVal(d, v), OperandVal(e, v))
      BY <1>4, <2>3, <2>5, AndKeepsValue
    <3> QED
      BY <1>4, <2>3, <2>4, <2>5, <3>1, OperandIsExpr DEF Together
  <2> QED
    BY <1>1, <2>1, <2>4, <2>5
<1>5. CASE /\ ~ExprEq(d, e)
           /\ op = "or" => JoinOr(d, e) = Nothing
           /\ op = "and" => JoinAnd(d, e) = Nothing
  <2>1. Join(op, d, e) = Nothing
    BY <1>5 DEF Join, Junctions
  <2> QED
    BY <1>1, <2>1
<1> QED
  BY <1>2, <1>3, <1>4, <1>5 DEF Junctions

\* Chains of n operands, in the course of joining those of es.
Joins(X, op, es) ==
  {s \in [expr : Seq(X), joined : BOOLEAN] :
     /\ Len(s.expr) = Len(es)
     /\ \A v : Typed(v) => \A k \in 1..2 : AtLeast(op, k, s.expr, v) <=> AtLeast(op, k, es, v)}

\* What expressions become, which are as before.
Alike(X, d, r) == /\ r \in [expr : X, joined : BOOLEAN]
                  /\ \A v : Typed(v) => Val(r.expr, v) = Val(d, v)
Joiner(X, inner) == inner \in [Exprs -> [expr : Exprs, joined : BOOLEAN]] /\ \A d \in X : Alike(X, d, inner[d])

\* A chain may have an operand replaced by one of the same value,
LEMMA AtLeastChanged ==
  ASSUME NEW op \in Junctions, NEW v, NEW k, NEW es \in Seq(Exprs), NEW i \in 1..Len(es), NEW d \in Exprs,
         Val(d, v) = Val(es[i], v)
  PROVE  AtLeast(op, k, [es EXCEPT ![i] = d], v) <=> AtLeast(op, k, es, v)
<1> DEFINE fs == [es EXCEPT ![i] = d]
<1>1. Len(fs) = Len(es) /\ \A j \in 1..Len(es) : fs[j] = IF j = i THEN d ELSE es[j]
  OBVIOUS
<1> HIDE DEF fs
<1>2. \A j \in 1..Len(es) : Val(fs[j], v) = Val(es[j], v)
  BY <1>1
<1> QED
  BY <1>1, <1>2 DEF AtLeast, fs

\* ... and two by what they are joined to and the neutral element.
LEMMA AtLeastJoined ==
  ASSUME Unbounded, NEW op \in Junctions, NEW v, Typed(v), NEW k \in 1..2,
         NEW es \in Seq(Exprs), NEW i \in 1..Len(es), NEW j \in 1..Len(es), i # j,
         NEW d \in Exprs, Val(d, v) = Together(op, es[i], es[j], v)
  PROVE  AtLeast(op, k, [es EXCEPT ![i] = Neutral(op), ![j] = d], v) <=> AtLeast(op, k, es, v)
<1> DEFINE fs == [es EXCEPT ![i] = Neutral(op), ![j] = d]
<1>1. Len(fs) = Len(es) /\ \A l \in 1..Len(es) : fs[l] = IF l = j THEN d ELSE IF l = i THEN Neutral(op) ELSE es[l]
  OBVIOUS
<1>2. Val(es[i], v) \in 0..2 /\ Val(es[j], v) \in 0..2
  <2>1. es[i] \in Exprs /\ es[j] \in Exprs
    OBVIOUS
  <2> QED
    BY <2>1, ValIs
<1>3. k <= Val(d, v) <=> IF op = "and" THEN k <= Val(es[i], v) /\ k <= Val(es[j], v)
                                        ELSE k <= Val(es[i], v) \/ k <= Val(es[j], v)
  BY <1>2, AtLeastBoth DEF Together
<1>4. Val(Yes, v) = 2 /\ Val(No, v) = 0
  BY ValOf, ExprsHave
<1> HIDE DEF fs
<1>5. CASE op = "and"
  <2>1. k <= Val(Neutral(op), v)
    BY <1>4, <1>5 DEF Neutral
  <2> QED
    BY <1>1, <1>3, <1>5, <2>1 DEF AtLeast, fs
<1>6. CASE op = "or"
  <2>1. ~(k <= Val(Neutral(op), v))
    BY <1>4, <1>6 DEF Neutral
  <2> QED
    BY <1>1, <1>3, <1>6, <2>1 DEF AtLeast, fs
<1> QED
  BY <1>5, <1>6 DEF Junctions

JoinNext(inner, op, s, i, j) ==
  JoinPair(op, s, i, j, inner[s.expr[i]], Join(op, inner[s.expr[i]].expr, s.expr[j]))

\* Joining one operand with another keeps the value of the chain.
LEMMA JoinPairKeeps ==
  ASSUME Unbounded, NEW X, ClosedKind(X), NEW inner, Joiner(X, inner), NEW op \in Junctions,
         NEW es \in Seq(X), NEW s \in Joins(X, op, es), NEW i \in 1..Len(es), NEW j \in 1..Len(es)
  PROVE  JoinNext(inner, op, s, i, j) \in Joins(X, op, es)
<1> DEFINE d == inner[s.expr[i]]
           both == Join(op, d.expr, s.expr[j])
<1>1. /\ s.expr \in Seq(X) /\ s.joined \in BOOLEAN /\ Len(s.expr) = Len(es)
      /\ s.expr[i] \in X /\ s.expr[j] \in X
      /\ \A v : Typed(v) => \A k \in 1..2 : AtLeast(op, k, s.expr, v) <=> AtLeast(op, k, es, v)
  BY DEF Joins
<1>2. Alike(X, s.expr[i], d)
  BY <1>1 DEF Joiner
<1>3. d.expr \in X /\ d.joined \in BOOLEAN /\ \A v : Typed(v) => Val(d.expr, v) = Val(s.expr[i], v)
  BY <1>2 DEF Alike
<1> HIDE DEF d
<1>4. /\ both \in X
      /\ both # Nothing => \A v : Typed(v) => Val(both, v) = Together(op, d.expr, s.expr[j], v)
  BY <1>1, <1>3, JoinKeeps
<1>5. JoinNext(inner, op, s, i, j) = JoinPair(op, s, i, j, d, both)
  BY DEF JoinNext, d
<1> HIDE DEF both
<1>6. X \subseteq Exprs /\ s.expr \in Seq(Exprs) /\ Neutral(op) \in X
  <2>1. X \subseteq Exprs /\ Neutral(op) \in X
    BY Constants
  <2> QED
    BY <1>1, <2>1
<1>7. CASE i = j
  BY <1>5, <1>7 DEF JoinPair
<1>8. CASE i # j /\ both = Nothing
  <2> DEFINE fs == [s.expr EXCEPT ![i] = d.expr]
  <2>1. JoinPair(op, s, i, j, d, both) = [expr |-> fs, joined |-> s.joined \/ d.joined]
    BY <1>8 DEF JoinPair
  <2>2. fs \in Seq(X) /\ Len(fs) = Len(es)
    BY <1>1, <1>3
  <2>3. ASSUME NEW v, Typed(v), NEW k \in 1..2
        PROVE  AtLeast(op, k, fs, v) <=> AtLeast(op, k, es, v)
    <3>1. Val(d.expr, v) = Val(s.expr[i], v) /\ d.expr \in Exprs
      BY <1>3, <1>6, <2>3
    <3>2. AtLeast(op, k, fs, v) <=> AtLeast(op, k, s.expr, v)
      BY <1>1, <1>6, <3>1, AtLeastChanged
    <3> QED
      BY <1>1, <2>3, <3>2
  <2> HIDE DEF fs
  <2> QED
    BY <1>5, <2>1, <2>2, <2>3 DEF Joins
<1>9. CASE i # j /\ both # Nothing
  <2> DEFINE fs == [s.expr EXCEPT ![i] = Neutral(op), ![j] = both]
  <2>1. JoinPair(op, s, i, j, d, both) = [expr |-> fs, joined |-> TRUE]
    BY <1>9 DEF JoinPair
  <2>2. fs \in Seq(X) /\ Len(fs) = Len(es)
    <3> DEFINE gs == [s.expr EXCEPT ![i] = Neutral(op)]
    <3>1. gs \in Seq(X) /\ Len(gs) = Len(es)
      BY <1>1, <1>6
    <3>2. fs = [gs EXCEPT ![j] = both]
      OBVIOUS
    <3> HIDE DEF gs, fs
    <3> QED
      BY <1>4, <3>1, <3>2
  <2>3. ASSUME NEW v, Typed(v), NEW k \in 1..2
        PROVE  AtLeast(op, k, fs, v) <=> AtLeast(op, k, es, v)
    <3>1. Val(both, v) = Together(op, s.expr[i], s.expr[j], v) /\ both \in Exprs
      <4>1. Val(both, v) = Together(op, d.expr, s.expr[j], v) /\ Val(d.expr, v) = Val(s.expr[i], v)
        BY <1>3, <1>4, <1>9, <2>3
      <4> QED
        BY <1>4, <1>6, <4>1 DEF Together
    <3>2. AtLeast(op, k, fs, v) <=> AtLeast(op, k, s.expr, v)
      BY <1>1, <1>6, <1>9, <2>3, <3>1, AtLeastJoined
    <3> QED
      BY <1>1, <2>3, <3>2
  <2> HIDE DEF fs
  <2> QED
    BY <1>5, <2>1, <2>2, <2>3 DEF Joins
<1> QED
  BY <1>7, <1>8, <1>9

\* expr_eliminate_dups1: so does joining each with every other,
LEMMA JoinChainKeeps ==
  ASSUME Unbounded, NEW X, ClosedKind(X), NEW inner, Joiner(X, inner), NEW op \in Junctions,
         NEW es \in Seq(X), es # <<>>
  PROVE  JoinChain(inner, op, es) \in Joins(X, op, es)
<1> DEFINE pairs == IndexPairs(Len(es), Len(es))
           N == Len(pairs)
           S == Joins(X, op, es)
           After(k, s) == JoinNext(inner, op, s, pairs[k][1], pairs[k][2])
           start == Unjoined(es)
           step == [p \in (1..N) \X S |-> After(p[1], p[2])]
           Joined(s, i, j, d) == JoinPair(op, s, i, j, d, Join(op, d.expr, s.expr[j]))
           Following(s, i, j) == Joined(s, i, j, inner[s.expr[i]])
           upTo[k \in 0..N] ==
             IF k = 0 THEN Unjoined(es) ELSE Following(upTo[k - 1], pairs[k][1], pairs[k][2])
<1>1. JoinChain(inner, op, es) = upTo[N]
  BY DEF JoinChain, JoinPairs
<1>2. N \in Nat /\ \A k \in 1..N : pairs[k][1] \in 1..Len(es) /\ pairs[k][2] \in 1..Len(es)
  <2>1. Len(es) \in Nat \ {0}
    OBVIOUS
  <2> QED
    BY <2>1, IndexPairsAre
<1>3. start \in S
  BY DEF Unjoined, Joins
<1>4. ASSUME NEW k \in 1..N, NEW s \in S
      PROVE  After(k, s) \in S /\ step[<<k, s>>] = After(k, s)
  <2>1. pairs[k][1] \in 1..Len(es) /\ pairs[k][2] \in 1..Len(es)
    BY <1>2
  <2> QED
    BY <2>1, JoinPairKeeps
<1>5. step \in RunSteps(N, S)
  <2>1. \A p \in (1..N) \X S : After(p[1], p[2]) \in S
    BY <1>4
  <2> QED
    BY <2>1 DEF RunSteps
<1>6. \A s, k : Following(s, pairs[k][1], pairs[k][2]) = After(k, s)
  BY DEF JoinNext
<1>7. upTo[N] \in S
  <2> HIDE DEF N, S, step, pairs, After, Following, start
  <2>1. PICK f \in RunFrom(N, S) : \A k \in 0..N : f[k] = IF k = 0 THEN start ELSE step[<<k, f[k - 1]>>]
    BY <1>2, <1>3, <1>5, BoundedRecursion
  <2>2. ASSUME NEW k \in 0..N
        PROVE  f[k] = IF k = 0 THEN start ELSE Following(f[k - 1], pairs[k][1], pairs[k][2])
    <3>1. CASE k = 0
      BY <2>1, <3>1
    <3>2. CASE k # 0
      <4>1. k \in 1..N /\ k - 1 \in 0..N
        BY <1>2, <3>2
      <4>2. f[k - 1] \in S
        BY <4>1 DEF RunFrom
      <4>3. f[k] = step[<<k, f[k - 1]>>]
        BY <2>1, <3>2
      <4>4. step[<<k, f[k - 1]>>] = After(k, f[k - 1])
        BY <1>4, <4>1, <4>2
      <4>5. Following(f[k - 1], pairs[k][1], pairs[k][2]) = After(k, f[k - 1])
        BY <1>6
      <4> QED
        BY <3>2, <4>3, <4>4, <4>5
    <3> QED
      BY <3>1, <3>2
  <2>3. f = [k \in 0..N |-> IF k = 0 THEN start ELSE Following(f[k - 1], pairs[k][1], pairs[k][2])]
    BY <2>1, <2>2 DEF RunFrom
  <2>4. upTo = [k \in 0..N |-> IF k = 0 THEN start ELSE Following(upTo[k - 1], pairs[k][1], pairs[k][2])]
    BY <2>3 DEF start
  <2> HIDE DEF upTo
  <2> DEFINE T == {k \in Nat : k <= N => upTo[k] \in S}
  <2>5. 0 \in T
    BY <1>2, <1>3, <2>4
  <2>6. ASSUME NEW k \in T
        PROVE  k + 1 \in T
    <3>1. SUFFICES ASSUME k + 1 <= N PROVE upTo[k + 1] \in S
      BY <2>6
    <3>2. k \in Nat /\ upTo[k] \in S /\ k + 1 \in 1..N /\ k + 1 \in 0..N /\ k + 1 # 0 /\ (k + 1) - 1 = k
      BY <1>2, <2>6, <3>1
    <3>3. upTo[k + 1] = After(k + 1, upTo[k])
      BY <1>6, <2>4, <3>2
    <3> QED
      BY <1>4, <3>2, <3>3
  <2>7. T = Nat
    <3> HIDE DEF T
    <3> QED
      BY <2>5, <2>6, AllNumbers DEF T
  <2>8. upTo[N] \in S
    BY <1>2, <2>7
  <2> QED
    BY <2>8
<1> QED
  BY <1>1, <1>7

\* ... and making an expression of what is left.
LEMMA RejoinedKeeps ==
  ASSUME Unbounded, NEW X, ClosedKind(X), NEW inner, Joiner(X, inner), NEW e \in X, e.op \in Junctions
  PROVE  Alike(X, e, Rejoined(inner, e))
<1> DEFINE op == e.op
           es == Operands(op, e)
           s == JoinChain(inner, op, es)
<1>1. es \in Seq(X) /\ es # <<>>
  <2>1. es \in Seq(X) /\ Len(es) \in Nat \ {0}
    BY OperandsTyped
  <2> QED
    BY <2>1
<1>2. Rejoined(inner, e) = [s EXCEPT !.expr = ChainOf(op, s.expr)]
  BY DEF Rejoined
<1>8. ASSUME NEW v, Typed(v), NEW k \in 1..2
      PROVE  k <= Val(e, v) <=> AtLeast(op, k, es, v)
  <2>1. e \in Exprs
    BY DEF ClosedKind
  <2> QED
    BY <1>8, <2>1, OperandsKeep
<1> HIDE DEF es
<1>3. s \in Joins(X, op, es)
  BY <1>1, JoinChainKeeps
<1> HIDE DEF s
<1>4. s.expr \in Seq(X) /\ s.expr # <<>> /\ s \in [expr : Seq(X), joined : BOOLEAN]
  <2>1. s.expr \in Seq(X) /\ Len(s.expr) = Len(es) /\ s \in [expr : Seq(X), joined : BOOLEAN]
    BY <1>3 DEF Joins
  <2> QED
    BY <1>1, <2>1
<1> DEFINE c == ChainOf(op, s.expr)
<1>5. /\ c \in X
      /\ \A v : Typed(v) => \A k \in 1..2 : k <= Val(c, v) <=> AtLeast(op, k, s.expr, v)
  BY <1>4, ChainKeeps
<1> HIDE DEF c
<1>6. ASSUME NEW v, Typed(v)
      PROVE  Val(c, v) = Val(e, v)
  <2>1. \A k \in 1..2 : k <= Val(c, v) <=> k <= Val(e, v)
    BY <1>3, <1>5, <1>6, <1>8 DEF Joins
  <2>2. Val(c, v) \in 0..2 /\ Val(e, v) \in 0..2
    BY <1>5, <1>6, ValIs DEF ClosedKind
  <2> QED
    BY <2>1, <2>2, SameValue
<1>7. Rejoined(inner, e) \in [expr : X, joined : BOOLEAN] /\ Rejoined(inner, e).expr = c
  BY <1>2, <1>4, <1>5 DEF c
<1> QED
  BY <1>6, <1>7 DEF Alike

\* What is not a chain stays as it is.
LEMMA UnjoinedIs ==
  ASSUME NEW X, NEW e \in X
  PROVE  Alike(X, e, Unjoined(e))
BY DEF Alike, Unjoined

\* Joining keeps the value, however deep chains lie in one another.
LEMMA JoinedUpToKeeps ==
  ASSUME Unbounded, NEW X, ClosedKind(X)
  PROVE  \A n \in Nat : Joiner(X, JoinedUpTo[n])
<1> DEFINE G == {f \in [Exprs -> [expr : Exprs, joined : BOOLEAN]] : Joiner(Exprs, f) /\ Joiner(X, f)}
           By(f) == [e \in Exprs |-> IF e.op \in Junctions THEN Rejoined(f, e) ELSE Unjoined(e)]
           start == [e \in Exprs |-> Unjoined(e)]
           step == [p \in Nat \X G |-> By(p[2])]
           Body(F, n) == [e \in Exprs |-> IF n # 0 /\ e.op \in Junctions THEN Rejoined(F[n - 1], e) ELSE Unjoined(e)]
<1>1. ASSUME NEW f, \A e \in Exprs : Alike(Exprs, e, f[e]), \A e \in X : Alike(X, e, f[e]),
             f = [e \in Exprs |-> f[e]]
      PROVE  f \in G
  <2>1. f \in [Exprs -> [expr : Exprs, joined : BOOLEAN]]
    BY <1>1 DEF Alike
  <2> QED
    BY <1>1, <2>1 DEF Joiner
<1>2. X \subseteq Exprs
  BY DEF ClosedKind
<1>3. start \in G
  <2>1. \A e \in Exprs : start[e] = Unjoined(e)
    OBVIOUS
  <2>2. start = [e \in Exprs |-> start[e]]
    OBVIOUS
  <2> HIDE DEF start, G
  <2>3. \A e \in Exprs : Alike(Exprs, e, start[e])
    BY <2>1, UnjoinedIs
  <2>4. \A e \in X : Alike(X, e, start[e])
    BY <1>2, <2>1, UnjoinedIs
  <2> QED
    BY <1>1, <2>2, <2>3, <2>4
<1>4. ASSUME NEW f \in G
      PROVE  By(f) \in G
  <2>1. \A e \in Exprs : By(f)[e] = IF e.op \in Junctions THEN Rejoined(f, e) ELSE Unjoined(e)
    OBVIOUS
  <2>2. By(f) = [e \in Exprs |-> By(f)[e]]
    OBVIOUS
  <2>5. Joiner(Exprs, f) /\ Joiner(X, f)
    OBVIOUS
  <2> HIDE DEF By, G
  <2>3. ASSUME NEW e \in Exprs
        PROVE  Alike(Exprs, e, By(f)[e])
    BY <2>1, <2>5, UnjoinedIs, RejoinedKeeps, ExprsClosed
  <2>4. ASSUME NEW e \in X
        PROVE  Alike(X, e, By(f)[e])
    BY <1>2, <2>1, <2>5, UnjoinedIs, RejoinedKeeps
  <2> QED
    BY <1>1, <2>2, <2>3, <2>4
<1>5. step \in Steps(G)
  BY <1>4 DEF Steps
<1>6. ASSUME NEW n \in Nat, NEW f \in G
      PROVE  step[<<n, f>>] = By(f)
  OBVIOUS
<1>7. \A f \in G : Joiner(X, f)
  OBVIOUS
<1> HIDE DEF step, start, G
<1>8. PICK F \in [Nat -> G] : F[0] = start /\ \A n \in Nat : F[n + 1] = step[<<n + 1, F[n]>>]
  BY <1>3, <1>5, NatRecursion
<1>9. ASSUME NEW n \in Nat
      PROVE  F[n] = Body(F, n)
  <2>1. CASE n = 0
    <3>1. Body(F, 0) = [e \in Exprs |-> Unjoined(e)]
      OBVIOUS
    <3> QED
      BY <1>8, <2>1, <3>1 DEF start
  <2>2. CASE n # 0
    <3>1. n - 1 \in Nat /\ (n - 1) + 1 = n
      BY <2>2
    <3>2. F[n - 1] \in G /\ F[n] = step[<<n, F[n - 1]>>]
      BY <1>8, <3>1
    <3>3. F[n] = By(F[n - 1])
      BY <1>6, <3>2
    <3>4. Body(F, n) = By(F[n - 1])
      BY <2>2
    <3> QED
      BY <3>3, <3>4
  <2> QED
    BY <2>1, <2>2
<1>10. F = [n \in Nat |-> Body(F, n)]
  <2> HIDE DEF Body
  <2> QED
    BY <1>8, <1>9
<1>11. JoinedUpTo = [n \in Nat |-> Body(JoinedUpTo, n)]
  BY <1>10 DEF JoinedUpTo
<1> DEFINE T == {n \in Nat : JoinedUpTo[n] \in G}
<1>12. 0 \in T
  <2>1. JoinedUpTo[0] = Body(JoinedUpTo, 0)
    BY <1>11
  <2>2. Body(JoinedUpTo, 0) = start
    BY DEF start
  <2> QED
    BY <1>3, <2>1, <2>2
<1>13. ASSUME NEW n \in T
       PROVE  n + 1 \in T
  <2>1. n \in Nat /\ n + 1 \in Nat /\ n + 1 # 0 /\ (n + 1) - 1 = n /\ JoinedUpTo[n] \in G
    BY <1>13
  <2>2. JoinedUpTo[n + 1] = Body(JoinedUpTo, n + 1)
    BY <1>11, <2>1
  <2>3. Body(JoinedUpTo, n + 1) = By(JoinedUpTo[n])
    BY <2>1
  <2>4. By(JoinedUpTo[n]) \in G
    BY <1>4, <2>1
  <2> HIDE DEF By, Body
  <2> QED
    BY <2>1, <2>2, <2>3, <2>4
<1>14. T = Nat
  <2> HIDE DEF T
  <2> QED
    BY <1>12, <1>13, AllNumbers DEF T
<1> QED
  BY <1>7, <1>14

\* A round of expr_eliminate_dups keeps the value.
LEMMA RoundKeeps ==
  ASSUME Unbounded, NEW X, ClosedKind(X), NEW e \in X, NEW r, Alike(X, e, r)
  PROVE  Alike(X, e, Round(r))
<1> DEFINE j == JoinedUpTo[Depth][r.expr]
<1>1. r.expr \in X
  BY DEF Alike
<1>2. Alike(X, r.expr, j)
  BY <1>1, JoinedUpToKeeps, DepthAssumption DEF Joiner
<1> HIDE DEF j
<1>3. /\ j \in [expr : X, joined : BOOLEAN] /\ EliminateYn[j.expr] \in X
      /\ \A v : Typed(v) => Val(j.expr, v) = Val(e, v) /\ Val(EliminateYn[j.expr], v) = Val(e, v)
  <2>1. j \in [expr : X, joined : BOOLEAN] /\ j.expr \in X
    BY <1>2 DEF Alike
  <2> QED
    BY <1>2, <2>1, EliminateYnKeeps DEF Alike
<1>4. CASE ~r.joined
  <2>1. Round(r) = r
    BY <1>4 DEF Round
  <2> QED
    BY <2>1
<1>5. CASE r.joined /\ ~j.joined
  <2>1. Round(r) = j
    BY <1>5 DEF Round, j
  <2> QED
    BY <1>3, <2>1 DEF Alike
<1>6. CASE r.joined /\ j.joined
  <2>1. Round(r) = [j EXCEPT !.expr = EliminateYn[j.expr]]
    BY <1>6 DEF Round, j
  <2>2. Round(r) \in [expr : X, joined : BOOLEAN] /\ Round(r).expr = EliminateYn[j.expr]
    BY <1>3, <2>1
  <2> QED
    BY <1>3, <2>2 DEF Alike
<1> QED
  BY <1>4, <1>5, <1>6

(* expr_eliminate_dups: joining the operands of an expression with one     *)
(* another, round after round, keeps its value, whatever the expression is *)
(* and whatever values symbols have.                                       *)
THEOREM EliminateDupsKeeps ==
  ASSUME Unbounded, NEW X, ClosedKind(X), NEW e \in X
  PROVE  /\ EliminateDups(e) \in X
         /\ \A v : Typed(v) => Val(EliminateDups(e), v) = Val(e, v)
<1> DEFINE G == {r \in [expr : X, joined : BOOLEAN] : Alike(X, e, r)}
           start == [expr |-> e, joined |-> TRUE]
           step == [p \in Nat \X G |-> Round(p[2])]
           upTo[k \in Nat] == IF k = 0 THEN [expr |-> e, joined |-> TRUE] ELSE Round(upTo[k - 1])
<1>1. start \in G
  BY DEF Alike
<1>2. ASSUME NEW r \in G
      PROVE  Round(r) \in G
  BY RoundKeeps DEF Alike
<1>3. step \in Steps(G)
  BY <1>2 DEF Steps
<1>4. ASSUME NEW n \in Nat, NEW r \in G
      PROVE  step[<<n, r>>] = Round(r)
  OBVIOUS
<1>5. \A r \in G : r.expr \in X /\ \A v : Typed(v) => Val(r.expr, v) = Val(e, v)
  BY DEF Alike
<1> HIDE DEF step, G
<1>6. PICK F \in [Nat -> G] : F[0] = start /\ \A n \in Nat : F[n + 1] = step[<<n + 1, F[n]>>]
  <2> HIDE DEF start, upTo
  <2> QED
    BY ONLY <1>1, <1>3, NatRecursion
<1>7. ASSUME NEW n \in Nat
      PROVE  F[n] = IF n = 0 THEN start ELSE Round(F[n - 1])
  <2>1. CASE n = 0
    BY <1>6, <2>1
  <2>2. CASE n # 0
    <3>1. n - 1 \in Nat /\ (n - 1) + 1 = n
      BY <2>2
    <3>2. F[n - 1] \in G /\ F[n] = step[<<n, F[n - 1]>>]
      BY <1>6, <3>1
    <3> QED
      BY <1>4, <2>2, <3>2
  <2> QED
    BY <2>1, <2>2
<1>8. F = [n \in Nat |-> IF n = 0 THEN start ELSE Round(F[n - 1])]
  BY <1>6, <1>7
<1>9. upTo = [n \in Nat |-> IF n = 0 THEN start ELSE Round(upTo[n - 1])]
  BY <1>8
<1>10. EliminateDups(e) = upTo[Rounds].expr
  BY DEF EliminateDups, RoundsOf
<1> HIDE DEF upTo, start
<1> DEFINE T == {n \in Nat : upTo[n] \in G}
<1>11. 0 \in T
  BY <1>1, <1>9
<1>12. ASSUME NEW n \in T
       PROVE  n + 1 \in T
  <2>1. n \in Nat /\ n + 1 \in Nat /\ n + 1 # 0 /\ (n + 1) - 1 = n /\ upTo[n] \in G
    BY <1>12
  <2>2. upTo[n + 1] = Round(upTo[n])
    BY <1>9, <2>1
  <2> QED
    BY <1>2, <2>1, <2>2
<1>13. T = Nat
  <2> HIDE DEF T
  <2> QED
    BY <1>11, <1>12, AllNumbers DEF T
<1>14. upTo[Rounds] \in G
  BY <1>13, DepthAssumption
<1> QED
  BY <1>5, <1>10, <1>14

-----------------------------------------------------------------------------
(* Moving negations down.                                                  *)

\* The equations of Flat.
LEMMA FlatIs ==
  ASSUME Unbounded, NEW e \in Exprs
  PROVE  /\ e.op \in Junctions => (Flat[e] <=> Flat[e.left] /\ Flat[e.right])
         /\ e.op = "not" => (Flat[e] <=> e.arg.op \in {"sym", "none"})
         /\ e.op \notin Junctions \cup {"not"} => Flat[e]
<1> DEFINE S == BOOLEAN
           leaf == [d \in Exprs |-> TRUE]
           neg == [p \in Exprs \X S |-> p[1].arg.op \in {"sym", "none"}]
           junct == [p \in Exprs \X S \X S |-> p[2] /\ p[3]]
           Body(f, d) == CASE d.op \in Junctions -> f[d.left] /\ f[d.right]
                           [] d.op = "not" -> d.arg.op \in {"sym", "none"}
                           [] OTHER -> TRUE
<1>1. leaf \in LeafSteps(S)
  BY DEF LeafSteps
<1>2. neg \in NotSteps(S)
  BY DEF NotSteps
<1>3. junct \in JunctionSteps(S)
  BY DEF JunctionSteps
<1>4. ASSUME NEW f \in LeafSteps(S), NEW d \in Exprs
      PROVE  StepOf(leaf, neg, junct, f, d) = Body(f, d)
  <2>1. CASE d.op = "not"
    <3>1. f[d.arg] \in S /\ d.op \notin Junctions
      BY <2>1, ExprsAre DEF LeafSteps, Junctions
    <3> QED
      BY <2>1, <3>1 DEF StepOf
  <2>2. CASE d.op \in Junctions
    <3>1. f[d.left] \in S /\ f[d.right] \in S /\ d.op # "not"
      BY <2>2, ExprsAre DEF LeafSteps, Junctions
    <3> QED
      BY <2>2, <3>1 DEF StepOf
  <2>3. CASE d.op # "not" /\ d.op \notin Junctions
    BY <2>3 DEF StepOf
  <2> QED
    BY <2>1, <2>2, <2>3
<1>6. \A f, d : /\ d.op \in Junctions => (Body(f, d) <=> f[d.left] /\ f[d.right])
                /\ d.op = "not" => (Body(f, d) <=> d.arg.op \in {"sym", "none"})
                /\ d.op \notin Junctions \cup {"not"} => Body(f, d)
  BY DEF Junctions
<1> HIDE DEF leaf, neg, junct, S, Body
<1>7. PICK f \in LeafSteps(S) : \A d \in Exprs : f[d] = StepOf(leaf, neg, junct, f, d)
  BY <1>1, <1>2, <1>3, StructuralRecursion
<1>8. f = [d \in Exprs |-> Body(f, d)]
  BY <1>4, <1>7 DEF LeafSteps
<1>9. Flat = [d \in Exprs |-> Body(Flat, d)]
  BY <1>8 DEF Body, Flat
<1> QED
  BY <1>6, <1>9

FlatExprs == {e \in Exprs : Flat[e]}

\* Expressions whose negations are all of symbols are one such kind.
LEMMA FlatClosed ==
  ASSUME Unbounded
  PROVE  ClosedKind(FlatExprs)
<1>1. Atoms \cup {Nothing} \subseteq FlatExprs
  <2>1. ASSUME NEW e \in Atoms \cup {Nothing}
        PROVE  e \in Exprs /\ e.op \notin Junctions \cup {"not"}
    BY ExprsHave, AtomOp, JunctionIs DEF Relations, Junctions
  <2> QED
    BY <2>1, FlatIs DEF FlatExprs
<1>2. ASSUME NEW e \in FlatExprs, e.op \in Junctions
      PROVE  e.left \in FlatExprs /\ e.right \in FlatExprs
  BY <1>2, FlatIs, ExprsAre DEF FlatExprs
<1>3. ASSUME NEW op \in Junctions, NEW d \in FlatExprs, NEW e \in FlatExprs
      PROVE  Junction(op, d, e) \in FlatExprs
  BY FlatIs, ExprsHave, JunctionIs DEF FlatExprs
<1> QED
  BY <1>1, <1>2, <1>3 DEF ClosedKind, FlatExprs

\* The opposite of a comparison.
LEMMA RankTyped ==
  ASSUME NEW v, Typed(v), NEW s \in Terms
  PROVE  Rank(StringOf(s, v)) \in Nat
<1>1. StringOf(s, v) \in Words
  BY WordsAre DEF StringOf, Typed, Terms
<1>2. Rank(StringOf(s, v)) \in DOMAIN Order
  BY <1>1 DEF Words, Rank
<1>3. DOMAIN Order \subseteq Nat
  BY DEF Order
<1> QED
  BY <1>2, <1>3

\* The opposite of a comparison has the opposite value.
LEMMA OppositeIs ==
  ASSUME NEW v, Typed(v), NEW op \in Relations, NEW s \in Terms, NEW c \in Terms
  PROVE  /\ Compare(Opposite[op], s, c) \in Atoms
         /\ AtomVal(Compare(Opposite[op], s, c), v) = 2 - AtomVal(Compare(op, s, c), v)
<1>1. Opposite[op] \in Relations
  BY DEF Opposite, Relations
<1>2. Compare(Opposite[op], s, c) \in Atoms
  BY <1>1 DEF Compare, Atoms
<1> DEFINE i == Rank(StringOf(s, v))
           j == Rank(StringOf(c, v))
<1>3. \A o \in Relations : AtomVal(Compare(o, s, c), v) = IF Holds(o, i, j) THEN 2 ELSE 0
  BY DEF AtomVal, Compare, Relations
<1>4. i \in Nat /\ j \in Nat
  BY RankTyped
<1> HIDE DEF i, j
<1>5. Holds(Opposite[op], i, j) <=> ~Holds(op, i, j)
  <2>1. /\ op = "eq" => Opposite[op] = "ne"
        /\ op = "ne" => Opposite[op] = "eq"
        /\ op = "lt" => Opposite[op] = "ge"
        /\ op = "ge" => Opposite[op] = "lt"
        /\ op = "gt" => Opposite[op] = "le"
        /\ op = "le" => Opposite[op] = "gt"
    BY DEF Opposite
  <2>2. /\ Holds("eq", i, j) <=> i = j
        /\ Holds("ne", i, j) <=> i # j
        /\ Holds("lt", i, j) <=> i < j
        /\ Holds("le", i, j) <=> i <= j
        /\ Holds("gt", i, j) <=> i > j
        /\ Holds("ge", i, j) <=> i >= j
    BY DEF Holds
  <2>3. op \in {"eq", "ne", "lt", "le", "gt", "ge"}
    BY DEF Relations
  <2> HIDE DEF Holds
  <2> QED
    BY <1>4, <2>1, <2>2, <2>3
<1> QED
  BY <1>1, <1>2, <1>3, <1>5

\* What becomes of a symbol, a comparison or nothing.
NegatedLeaf(e) ==
  IF e.op \in Relations THEN Compare(Opposite[e.op], e.sym, e.with)
  ELSE IF e.op = "sym" /\ e.sym \in DOMAIN NotOf THEN Symbol(NotOf[e.sym]) ELSE Not(e)

\* The negation of a symbol, a comparison or nothing has the opposite value.
LEMMA LeafNegated ==
  ASSUME Unbounded, NEW e \in Exprs, e.op \notin Junctions \cup {"not"}
  PROVE  /\ NegatedLeaf(e) \in FlatExprs
         /\ \A v : Typed(v) => Val(NegatedLeaf(e), v) = 2 - Val(e, v)
<1>1. e \in Atoms \cup {Nothing}
  BY ExprsAre
<1>2. FlatExprs \subseteq Exprs /\ Atoms \cup {Nothing} \subseteq FlatExprs
  BY FlatClosed DEF ClosedKind
<1>3. CASE e.op \in Relations
  <2>1. e \in Atoms /\ e.sym \in Terms /\ e.with \in Terms /\ e = Compare(e.op, e.sym, e.with)
    BY <1>1, <1>3, AtomOp, JunctionIs DEF Relations
  <2>2. NegatedLeaf(e) = Compare(Opposite[e.op], e.sym, e.with)
    BY <1>3 DEF NegatedLeaf
  <2>3. Compare(Opposite[e.op], e.sym, e.with) \in Atoms
    <3>1. Opposite[e.op] \in Relations
      BY <1>3 DEF Opposite, Relations
    <3> QED
      BY <2>1, <3>1 DEF Compare, Atoms
  <2>4. ASSUME NEW v, Typed(v)
        PROVE  Val(NegatedLeaf(e), v) = 2 - Val(e, v)
    <3>1. AtomVal(Compare(Opposite[e.op], e.sym, e.with), v) = 2 - AtomVal(Compare(e.op, e.sym, e.with), v)
      BY <1>3, <2>1, <2>4, OppositeIs
    <3>2. Val(e, v) = AtomVal(e, v) /\ Val(NegatedLeaf(e), v) = AtomVal(NegatedLeaf(e), v)
      BY <1>2, <2>1, <2>2, <2>3, <2>4, ValIs
    <3> QED
      BY <2>1, <2>2, <3>1, <3>2
  <2> QED
    BY <1>2, <2>2, <2>3, <2>4
<1>4. CASE e.op = "sym" /\ e.sym \in DOMAIN NotOf
  <2>1. e \in Atoms /\ e.sym \in Switches /\ e = Symbol(e.sym)
    BY <1>1, <1>4, AtomOp, JunctionIs
  <2>2. e.sym \in {"y", "n"}
    BY <1>4, <2>1, KindAssumption DEF Switches, NotOf
  <2>3. NegatedLeaf(e) = Symbol(NotOf[e.sym])
    BY <1>4 DEF NegatedLeaf, Relations
  <2>4. \/ e = Yes /\ NegatedLeaf(e) = No
        \/ e = No /\ NegatedLeaf(e) = Yes
    BY <2>1, <2>2, <2>3 DEF Symbol, Yes, No, NotOf
  <2>5. Yes \in FlatExprs /\ No \in FlatExprs
    BY FlatClosed, Constants
  <2>6. ASSUME NEW v, Typed(v)
        PROVE  Val(NegatedLeaf(e), v) = 2 - Val(e, v)
    <3>1. Val(Yes, v) = 2 /\ Val(No, v) = 0
      BY <2>6, ValOf
    <3> QED
      BY <2>4, <3>1
  <2> QED
    BY <2>4, <2>5, <2>6
<1>5. CASE e.op \notin Relations /\ ~(e.op = "sym" /\ e.sym \in DOMAIN NotOf)
  <2>1. NegatedLeaf(e) = Not(e) /\ Not(e) \in Exprs
    BY <1>5, ExprsHave DEF NegatedLeaf
  <2>2. e.op \in {"sym", "none"}
    BY <1>1, <1>5, AtomOp, JunctionIs
  <2>3. Flat[Not(e)]
    BY <2>1, <2>2, FlatIs, JunctionIs
  <2>4. \A v : Typed(v) => Val(Not(e), v) = 2 - Val(e, v)
    BY ValOf
  <2> QED
    BY <2>1, <2>3, <2>4 DEF FlatExprs
<1> QED
  BY <1>3, <1>4, <1>5

\* The equations of Negated.
LEMMA NegatedIs ==
  ASSUME Unbounded, NEW e \in Exprs
  PROVE  /\ e.op \in Junctions => Negated[e] = Junction(Opposite[e.op], Negated[e.left], Negated[e.right])
         /\ e.op = "not" => Negated[e] = e.arg
         /\ e.op \notin Junctions \cup {"not"} => Negated[e] = NegatedLeaf(e)
<1> DEFINE S == Exprs
           leaf == [d \in Exprs |-> IF d.op \in Junctions \cup {"not"} THEN d ELSE NegatedLeaf(d)]
           neg == [p \in Exprs \X S |-> IF p[1].op = "not" THEN p[1].arg ELSE p[1]]
           junct == [p \in Exprs \X S \X S |->
                       IF p[1].op \in Junctions THEN Junction(Opposite[p[1].op], p[2], p[3]) ELSE p[1]]
           Body(f, d) ==
             CASE d.op \in Junctions -> Junction(Opposite[d.op], f[d.left], f[d.right])
               [] d.op = "not" -> d.arg
               [] d.op \in Relations -> Compare(Opposite[d.op], d.sym, d.with)
               [] d.op = "sym" /\ d.sym \in DOMAIN NotOf -> Symbol(NotOf[d.sym])
               [] OTHER -> Not(d)
<1>1. leaf \in LeafSteps(S)
  <2>1. FlatExprs \subseteq Exprs
    BY DEF FlatExprs
  <2> QED
    BY <2>1, LeafNegated DEF LeafSteps
<1>2. neg \in NotSteps(S)
  BY ExprsAre DEF NotSteps
<1>3. junct \in JunctionSteps(S)
  <2>1. ASSUME NEW d \in Exprs, NEW l \in Exprs, NEW r \in Exprs, d.op \in Junctions
        PROVE  Junction(Opposite[d.op], l, r) \in Exprs
    <3>1. Opposite[d.op] \in Junctions
      BY <2>1 DEF Opposite, Junctions
    <3> QED
      BY <3>1, ExprsHave
  <2> QED
    BY <2>1 DEF JunctionSteps
<1>6. \A f, d : /\ d.op \in Junctions => Body(f, d) = Junction(Opposite[d.op], f[d.left], f[d.right])
                /\ d.op = "not" => Body(f, d) = d.arg
                /\ d.op \notin Junctions \cup {"not"} => Body(f, d) = NegatedLeaf(d)
  <2> SUFFICES ASSUME NEW f, NEW d
               PROVE  /\ d.op \in Junctions => Body(f, d) = Junction(Opposite[d.op], f[d.left], f[d.right])
                      /\ d.op = "not" => Body(f, d) = d.arg
                      /\ d.op \notin Junctions \cup {"not"} => Body(f, d) = NegatedLeaf(d)
    OBVIOUS
  <2> QED
    BY DEF Junctions, Relations, NegatedLeaf
<1> HIDE DEF Body
<1>4. ASSUME NEW f \in LeafSteps(S), NEW d \in Exprs
      PROVE  StepOf(leaf, neg, junct, f, d) = Body(f, d)
  <2>1. CASE d.op = "not"
    <3>1. f[d.arg] \in S /\ d.op \notin Junctions
      BY <2>1, ExprsAre DEF LeafSteps, Junctions
    <3> QED
      BY <1>6, <2>1, <3>1 DEF StepOf
  <2>2. CASE d.op \in Junctions
    <3>1. f[d.left] \in S /\ f[d.right] \in S /\ d.op # "not"
      BY <2>2, ExprsAre DEF LeafSteps, Junctions
    <3> QED
      BY <1>6, <2>2, <3>1 DEF StepOf
  <2>3. CASE d.op # "not" /\ d.op \notin Junctions
    BY <1>6, <2>3 DEF StepOf
  <2> QED
    BY <2>1, <2>2, <2>3
<1> HIDE DEF leaf, neg, junct, S
<1>7. PICK f \in LeafSteps(S) : \A d \in Exprs : f[d] = StepOf(leaf, neg, junct, f, d)
  BY <1>1, <1>2, <1>3, StructuralRecursion
<1>8. f = [d \in Exprs |-> Body(f, d)]
  BY <1>4, <1>7 DEF LeafSteps
<1>9. Negated = [d \in Exprs |-> Body(Negated, d)]
  BY <1>8 DEF Body, Negated
<1> QED
  BY <1>6, <1>9

\* de Morgan's laws for three values.
LEMMA OppositeVal ==
  ASSUME Unbounded, NEW v, Typed(v), NEW op \in Junctions, NEW d \in Exprs, NEW e \in Exprs,
         NEW x \in Exprs, NEW y \in Exprs, Val(x, v) = 2 - Val(d, v), Val(y, v) = 2 - Val(e, v)
  PROVE  Val(Junction(Opposite[op], x, y), v) = 2 - Val(Junction(op, d, e), v)
<1>1. Val(d, v) \in 0..2 /\ Val(e, v) \in 0..2
  BY ValIs
<1>2. CASE op = "and"
  <2>1. Opposite[op] = "or"
    BY <1>2 DEF Opposite
  <2> QED
    BY <1>1, <1>2, <2>1, ValOf DEF Lesser, Greater
<1>3. CASE op = "or"
  <2>1. Opposite[op] = "and"
    BY <1>3 DEF Opposite
  <2> QED
    BY <1>1, <1>3, <2>1, ValOf DEF Lesser, Greater
<1> QED
  BY <1>2, <1>3 DEF Junctions

\* A negation moved down has the opposite of what it is the negation of.
LEMMA NegatedKeeps ==
  ASSUME Unbounded, NEW e \in Exprs
  PROVE  /\ Negated[e] \in Exprs
         /\ Flat[e] => Negated[e] \in FlatExprs
         /\ \A v : Typed(v) => Val(Negated[e], v) = 2 - Val(e, v)
<1> DEFINE Good(d) == /\ Negated[d] \in Exprs
                      /\ Flat[d] => Negated[d] \in FlatExprs
                      /\ \A v : Typed(v) => Val(Negated[d], v) = 2 - Val(d, v)
           T == {d \in Exprs : Good(d)}
<1>1. Atoms \cup {Nothing} \subseteq T
  <2>1. ASSUME NEW d \in Atoms \cup {Nothing}
        PROVE  d \in Exprs /\ d.op \notin Junctions \cup {"not"}
    BY ExprsHave, AtomOp, JunctionIs DEF Relations, Junctions
  <2> QED
    BY <2>1, NegatedIs, LeafNegated DEF FlatExprs
<1>2. ASSUME NEW d \in Exprs, d.op = "not", d.arg \in T
      PROVE  d \in T
  <2>1. Negated[d] = d.arg /\ d.arg \in Exprs
    BY <1>2, NegatedIs, ExprsAre
  <2>2. Flat[d] => d.arg \in FlatExprs
    <3>1. Flat[d] => d.arg.op \notin Junctions \cup {"not"}
      BY <1>2, FlatIs DEF Junctions
    <3> QED
      BY <2>1, <3>1, FlatIs DEF FlatExprs
  <2>3. ASSUME NEW v, Typed(v)
        PROVE  Val(d.arg, v) = 2 - Val(d, v)
    <3>1. Val(d, v) = 2 - Val(d.arg, v) /\ Val(d.arg, v) \in 0..2
      BY <1>2, <2>1, <2>3, ValIs
    <3> QED
      BY <3>1
  <2> QED
    BY <2>1, <2>2, <2>3
<1>3. ASSUME NEW d \in Exprs, d.op \in Junctions, d.left \in T, d.right \in T
      PROVE  d \in T
  <2> DEFINE l == Negated[d.left]
             r == Negated[d.right]
  <2>1. Negated[d] = Junction(Opposite[d.op], l, r) /\ Opposite[d.op] \in Junctions
    BY <1>3, NegatedIs DEF Opposite, Junctions
  <2>2. l \in Exprs /\ r \in Exprs
    BY <1>3
  <2>3. Flat[d] => l \in FlatExprs /\ r \in FlatExprs
    BY <1>3, FlatIs
  <2>4. \A v : Typed(v) => Val(l, v) = 2 - Val(d.left, v) /\ Val(r, v) = 2 - Val(d.right, v)
    BY <1>3
  <2> HIDE DEF l, r
  <2>5. d.left \in Exprs /\ d.right \in Exprs /\ d = Junction(d.op, d.left, d.right)
    BY <1>3, ExprsAre
  <2>6. ASSUME NEW v, Typed(v)
        PROVE  Val(Junction(Opposite[d.op], l, r), v) = 2 - Val(d, v)
    BY <1>3, <2>2, <2>4, <2>5, <2>6, OppositeVal
  <2>7. Negated[d] \in Exprs
    BY <2>1, <2>2, ExprsHave
  <2>8. Flat[d] => Negated[d] \in FlatExprs
    BY <2>1, <2>3, FlatClosed DEF ClosedKind
  <2> QED
    BY <2>1, <2>6, <2>7, <2>8
<1>4. T = Exprs
  <2> HIDE DEF Good
  <2> QED
    BY <1>1, <1>2, <1>3, AllExprs
<1> QED
  BY <1>4

\* A comparison of a bool symbol.
Switching(e) == e.op \in {"eq", "ne"} /\ KindOf(e.sym) = "bool"

\* expr_transform: a comparison of a bool symbol keeps its value.
LEMMA SwitchingKeeps ==
  ASSUME Unbounded, NEW e \in Exprs, Switching(e)
  PROVE  /\ TransformBool(e) \in FlatExprs
         /\ \A v : Typed(v) => Val(TransformBool(e), v) = Val(e, v)
<1>1. e \in Atoms
  <2>1. e.op \notin Junctions \cup {"not"} /\ e # Nothing
    BY JunctionIs DEF Switching, Junctions
  <2> QED
    BY <2>1, ExprsAre
<1>2. e.sym \in DOMAIN Kind /\ Kind[e.sym] = "bool" /\ e.with \in Terms /\ e = Compare(e.op, e.sym, e.with)
  BY <1>1, AtomOp DEF Switching, KindOf, Relations
<1>3. FlatExprs \subseteq Exprs /\ Atoms \subseteq FlatExprs
  BY FlatClosed DEF ClosedKind
<1>4. CASE e.with \in DOMAIN Kind
  <2>1. e.with \notin {"y", "n", "m"}
    BY <1>4, KindAssumption
  <2>2. TransformBool(e) = e
    BY <2>1 DEF TransformBool
  <2> QED
    BY <1>1, <1>3, <2>2
<1>5. CASE e.with \in Words
  <2>1. e.sym \in Switches
    BY <1>2 DEF Switches
  <2>2. Symbol(e.sym) \in Atoms /\ Yes \in Atoms /\ No \in Atoms
    BY <2>1 DEF Symbol, Yes, No, Atoms, Switches
  <2>3. Not(Symbol(e.sym)) \in FlatExprs
    <3>1. Symbol(e.sym) \in Exprs /\ Symbol(e.sym).op = "sym"
      BY <1>3, <2>2 DEF Symbol
    <3>2. Not(Symbol(e.sym)) \in Exprs
      BY <3>1, ExprsHave
    <3> QED
      BY <3>1, <3>2, FlatIs, JunctionIs DEF FlatExprs
  <2>4. TransformBool(e) \in {Symbol(e.sym), Not(Symbol(e.sym)), Yes, No, e}
    BY DEF TransformBool
  <2>5. TransformBool(e) \in FlatExprs /\ TransformBool(e) \in Operand /\ e \in Operand
    BY <1>1, <1>3, <2>2, <2>3, <2>4 DEF Operand
  <2>6. ASSUME NEW v, Typed(v)
        PROVE  Val(TransformBool(e), v) = Val(e, v)
    <3>1. OperandVal(TransformBool(e), v) = OperandVal(e, v)
      BY <1>2, <1>5, <2>6, BoolKeepsValue DEF Switching
    <3> QED
      BY <2>5, <2>6, <3>1, OperandIsExpr
  <2> QED
    BY <2>5, <2>6
<1> QED
  BY <1>2, <1>4, <1>5 DEF Terms

\* The equations of Transform.
LEMMA TransformIs ==
  ASSUME Unbounded, NEW e \in Exprs
  PROVE  /\ e.op \in Junctions => Transform[e] = Junction(e.op, Transform[e.left], Transform[e.right])
         /\ e.op = "not" => Transform[e] = Negated[Transform[e.arg]]
         /\ e.op \notin Junctions \cup {"not"} => Transform[e] = IF Switching(e) THEN TransformBool(e) ELSE e
<1> DEFINE S == Exprs
           Leaf(d) == IF Switching(d) THEN TransformBool(d) ELSE d
           leaf == [d \in Exprs |-> Leaf(d)]
           neg == [p \in Exprs \X S |-> Negated[p[2]]]
           junct == [p \in Exprs \X S \X S |-> IF p[1].op \in Junctions THEN Junction(p[1].op, p[2], p[3]) ELSE p[1]]
           Body(f, d) ==
             CASE d.op \in Junctions -> Junction(d.op, f[d.left], f[d.right])
               [] d.op \in {"eq", "ne"} /\ KindOf(d.sym) = "bool" -> TransformBool(d)
               [] d.op = "not" -> Negated[f[d.arg]]
               [] OTHER -> d
<1>1. leaf \in LeafSteps(S)
  <2>1. FlatExprs \subseteq Exprs
    BY DEF FlatExprs
  <2> QED
    BY <2>1, SwitchingKeeps DEF LeafSteps
<1>2. neg \in NotSteps(S)
  BY NegatedKeeps DEF NotSteps
<1>3. junct \in JunctionSteps(S)
  BY ExprsHave DEF JunctionSteps
<1>6. ASSUME NEW f, NEW d
      PROVE  /\ d.op \in Junctions => Body(f, d) = Junction(d.op, f[d.left], f[d.right])
             /\ d.op = "not" => Body(f, d) = Negated[f[d.arg]]
             /\ d.op \notin Junctions \cup {"not"} => Body(f, d) = Leaf(d)
  BY DEF Junctions, Switching
<1> HIDE DEF Body, Leaf
<1>4. ASSUME NEW f \in LeafSteps(S), NEW d \in Exprs
      PROVE  StepOf(leaf, neg, junct, f, d) = Body(f, d)
  <2>1. CASE d.op = "not"
    <3>1. f[d.arg] \in S /\ d.op \notin Junctions
      BY <2>1, ExprsAre DEF LeafSteps, Junctions
    <3> QED
      BY <1>6, <2>1, <3>1 DEF StepOf
  <2>2. CASE d.op \in Junctions
    <3>1. f[d.left] \in S /\ f[d.right] \in S /\ d.op # "not"
      BY <2>2, ExprsAre DEF LeafSteps, Junctions
    <3> QED
      BY <1>6, <2>2, <3>1 DEF StepOf
  <2>3. CASE d.op # "not" /\ d.op \notin Junctions
    BY <1>6, <2>3 DEF StepOf
  <2> QED
    BY <2>1, <2>2, <2>3
<1> HIDE DEF leaf, neg, junct, S
<1>7. PICK f \in LeafSteps(S) : \A d \in Exprs : f[d] = StepOf(leaf, neg, junct, f, d)
  BY <1>1, <1>2, <1>3, StructuralRecursion
<1>8. f = [d \in Exprs |-> Body(f, d)]
  BY <1>4, <1>7 DEF LeafSteps
<1>9. Transform = [d \in Exprs |-> Body(Transform, d)]
  BY <1>8 DEF Body, Transform
<1> QED
  BY <1>6, <1>9 DEF Leaf

\* Chains of operands that have the same values have the same value.
LEMMA JunctionAlike ==
  ASSUME Unbounded, NEW v, Typed(v), NEW op \in Junctions, NEW d \in Exprs, NEW e \in Exprs,
         NEW x \in Exprs, NEW y \in Exprs, Val(x, v) = Val(d, v), Val(y, v) = Val(e, v)
  PROVE  Val(Junction(op, x, y), v) = Val(Junction(op, d, e), v)
BY ValOf DEF Junctions

(* expr_transform: moving negations down to the symbols, where they then   *)
(* all are, keeps the value of every expression.                           *)
THEOREM TransformKeeps ==
  ASSUME Unbounded, NEW e \in Exprs
  PROVE  /\ Transform[e] \in FlatExprs
         /\ \A v : Typed(v) => Val(Transform[e], v) = Val(e, v)
<1> DEFINE Good(d) == /\ Transform[d] \in FlatExprs
                      /\ \A v : Typed(v) => Val(Transform[d], v) = Val(d, v)
           T == {d \in Exprs : Good(d)}
<1>1. Atoms \cup {Nothing} \subseteq T
  <2>1. ASSUME NEW d \in Atoms \cup {Nothing}
        PROVE  d \in Exprs /\ d.op \notin Junctions \cup {"not"} /\ d \in FlatExprs
    <3>1. d \in Exprs /\ d.op \notin Junctions \cup {"not"}
      BY ExprsHave, AtomOp, JunctionIs DEF Relations, Junctions
    <3> QED
      BY <3>1, FlatClosed DEF ClosedKind
  <2> QED
    BY <2>1, TransformIs, SwitchingKeeps
<1>2. ASSUME NEW d \in Exprs, d.op = "not", d.arg \in T
      PROVE  d \in T
  <2> DEFINE a == Transform[d.arg]
  <2>1. Transform[d] = Negated[a] /\ d.arg \in Exprs
    BY <1>2, TransformIs, ExprsAre
  <2>2. a \in Exprs /\ Flat[a] /\ \A v : Typed(v) => Val(a, v) = Val(d.arg, v)
    BY <1>2 DEF FlatExprs
  <2> HIDE DEF a
  <2>3. Negated[a] \in FlatExprs /\ \A v : Typed(v) => Val(Negated[a], v) = 2 - Val(a, v)
    BY <2>2, NegatedKeeps
  <2>4. \A v : Typed(v) => Val(d, v) = 2 - Val(d.arg, v)
    BY <1>2, ValIs
  <2> QED
    BY <2>1, <2>2, <2>3, <2>4
<1>3. ASSUME NEW d \in Exprs, d.op \in Junctions, d.left \in T, d.right \in T
      PROVE  d \in T
  <2> DEFINE l == Transform[d.left]
             r == Transform[d.right]
  <2>1. Transform[d] = Junction(d.op, l, r)
    BY <1>3, TransformIs
  <2>2. /\ l \in FlatExprs /\ r \in FlatExprs
        /\ \A v : Typed(v) => Val(l, v) = Val(d.left, v) /\ Val(r, v) = Val(d.right, v)
    BY <1>3
  <2> HIDE DEF l, r
  <2>3. d.left \in Exprs /\ d.right \in Exprs /\ d = Junction(d.op, d.left, d.right)
    BY <1>3, ExprsAre
  <2>4. Junction(d.op, l, r) \in FlatExprs
    BY <1>3, <2>2, FlatClosed DEF ClosedKind
  <2>5. ASSUME NEW v, Typed(v)
        PROVE  Val(Junction(d.op, l, r), v) = Val(d, v)
    <3>1. l \in Exprs /\ r \in Exprs
      BY <2>2 DEF FlatExprs
    <3>2. Val(l, v) = Val(d.left, v) /\ Val(r, v) = Val(d.right, v)
      BY <2>2, <2>5
    <3> QED
      BY <1>3, <2>3, <2>5, <3>1, <3>2, JunctionAlike
  <2> QED
    BY <2>1, <2>4, <2>5
<1>4. T = Exprs
  <2> HIDE DEF Good
  <2> QED
    BY <1>1, <1>2, <1>3, AllExprs
<1> QED
  BY <1>4

\* expr_alloc_and has the value of the two.
LEMMA AndKeeps ==
  ASSUME Unbounded, NEW X, ClosedKind(X), NEW d \in X, NEW e \in X
  PROVE  /\ And(d, e) \in X
         /\ \A v : Typed(v) => Val(And(d, e), v) = Lesser(Val(d, v), Val(e, v))
<1>1. d \in Exprs /\ e \in Exprs
  BY DEF ClosedKind
<1>2. \A v : Typed(v) => Val(d, v) \in 0..2 /\ Val(e, v) \in 0..2 /\ Val(Nothing, v) = 2
  BY <1>1, ValIs, ValOf
<1>3. CASE d = Nothing
  <2>1. And(d, e) = e
    BY <1>3 DEF And, Join2
  <2> QED
    BY <1>2, <1>3, <2>1 DEF Lesser
<1>4. CASE d # Nothing /\ e = Nothing
  <2>1. And(d, e) = d
    BY <1>4 DEF And, Join2
  <2> QED
    BY <1>2, <1>4, <2>1 DEF Lesser
<1>5. CASE d # Nothing /\ e # Nothing
  <2>1. And(d, e) = Junction("and", d, e)
    BY <1>5 DEF And, Join2
  <2>2. And(d, e) \in X
    BY <2>1 DEF ClosedKind, Junctions
  <2> QED
    BY <1>1, <2>1, <2>2, ValOf
<1> QED
  BY <1>3, <1>4, <1>5

\* What menu_finalize makes of a dependency means the same.
LEMMA BaseDepKeeps ==
  ASSUME Unbounded, NEW p \in FlatExprs, NEW e \in Exprs
  PROVE  /\ BaseDep(p, e) \in FlatExprs
         /\ \A v : Typed(v) => Val(BaseDep(p, e), v) = Lesser(Val(p, v), Val(e, v))
<1> DEFINE t == Transform[e]
           a == And(p, t)
<1>1. t \in FlatExprs /\ \A v : Typed(v) => Val(t, v) = Val(e, v)
  BY TransformKeeps
<1> HIDE DEF t
<1>2. a \in FlatExprs /\ \A v : Typed(v) => Val(a, v) = Lesser(Val(p, v), Val(t, v))
  BY <1>1, FlatClosed, AndKeeps
<1>3. BaseDep(p, e) = EliminateDups(a)
  BY DEF BaseDep, t
<1> HIDE DEF a
<1>4. EliminateDups(a) \in FlatExprs /\ \A v : Typed(v) => Val(EliminateDups(a), v) = Val(a, v)
  BY <1>2, FlatClosed, EliminateDupsKeeps
<1> QED
  BY <1>1, <1>2, <1>3, <1>4

-----------------------------------------------------------------------------
(* expr_trans_bool.                                                        *)

\* FOO!=n, where FOO cannot be 'm' any more.
Unequal(e) == e.op = "ne" /\ KindOf(e.sym) = "tri" /\ e.with = "n"

\* FOO!=n and FOO are 'n' together.
LEMMA UnequalKeeps ==
  ASSUME Unbounded, NEW e \in Exprs, Unequal(e)
  PROVE  /\ Symbol(e.sym) \in Exprs
         /\ \A v : Typed(v) => (Val(Symbol(e.sym), v) = 0 <=> Val(e, v) = 0)
<1>1. e \in Atoms
  <2>1. e.op \notin Junctions \cup {"not"} /\ e # Nothing
    BY JunctionIs DEF Unequal, Junctions
  <2> QED
    BY <2>1, ExprsAre
<1>2. e.sym \in DOMAIN Kind /\ Kind[e.sym] = "tri" /\ e = Compare("ne", e.sym, "n")
  BY <1>1, AtomOp DEF Unequal, KindOf, Relations
<1>3. Symbol(e.sym) \in Atoms
  BY <1>2 DEF Symbol, Atoms, Switches
<1>4. Symbol(e.sym) \in Exprs
  BY <1>3, ExprsHave
<1>5. ASSUME NEW v, Typed(v)
      PROVE  Val(Symbol(e.sym), v) = 0 <=> Val(e, v) = 0
  <2>1. Val(Symbol(e.sym), v) = TriOf[v[e.sym]] /\ Val(e, v) = IF v[e.sym] # "n" THEN 2 ELSE 0
    <3>1. "n" \in Words
      BY WordsAre
    <3>2. AtomVal(Symbol(e.sym), v) = TriOf[v[e.sym]] /\ AtomVal(e, v) = IF v[e.sym] # "n" THEN 2 ELSE 0
      BY <1>2, <1>5, <3>1, AtomIs
    <3>3. Val(Symbol(e.sym), v) = AtomVal(Symbol(e.sym), v) /\ Val(e, v) = AtomVal(e, v)
      BY <1>1, <1>3, <1>4, <1>5, ValIs
    <3> QED
      BY <3>2, <3>3
  <2>2. v[e.sym] \in {"y", "m", "n"}
    BY <1>2, <1>5 DEF Typed
  <2> QED
    BY <2>1, <2>2 DEF TriOf
<1> QED
  BY <1>4, <1>5

\* The equations of TransBool.
LEMMA TransBoolIs ==
  ASSUME Unbounded, NEW e \in Exprs
  PROVE  /\ TransBool[e] \in Exprs
         /\ e.op \in Junctions => TransBool[e] = Junction(e.op, TransBool[e.left], TransBool[e.right])
         /\ e.op = "not" => TransBool[e] = Not(TransBool[e.arg])
         /\ e.op \notin Junctions \cup {"not"} => TransBool[e] = IF Unequal(e) THEN Symbol(e.sym) ELSE e
<1> DEFINE S == Exprs
           Leaf(d) == IF Unequal(d) THEN Symbol(d.sym) ELSE d
           leaf == [d \in Exprs |-> Leaf(d)]
           neg == [p \in Exprs \X S |-> Not(p[2])]
           junct == [p \in Exprs \X S \X S |-> IF p[1].op \in Junctions THEN Junction(p[1].op, p[2], p[3]) ELSE p[1]]
           Body(f, d) ==
             CASE d.op \in Junctions -> Junction(d.op, f[d.left], f[d.right])
               [] d.op = "not" -> Not(f[d.arg])
               [] d.op = "ne" /\ KindOf(d.sym) = "tri" /\ d.with = "n" -> Symbol(d.sym)
               [] OTHER -> d
<1>1. leaf \in LeafSteps(S)
  BY UnequalKeeps DEF LeafSteps
<1>2. neg \in NotSteps(S)
  BY ExprsHave DEF NotSteps
<1>3. junct \in JunctionSteps(S)
  BY ExprsHave DEF JunctionSteps
<1>6. ASSUME NEW f, NEW d
      PROVE  /\ d.op \in Junctions => Body(f, d) = Junction(d.op, f[d.left], f[d.right])
             /\ d.op = "not" => Body(f, d) = Not(f[d.arg])
             /\ d.op \notin Junctions \cup {"not"} => Body(f, d) = Leaf(d)
  BY DEF Junctions, Unequal
<1> HIDE DEF Body, Leaf
<1>4. ASSUME NEW f \in LeafSteps(S), NEW d \in Exprs
      PROVE  StepOf(leaf, neg, junct, f, d) = Body(f, d)
  <2>1. CASE d.op = "not"
    <3>1. f[d.arg] \in S /\ d.op \notin Junctions
      BY <2>1, ExprsAre DEF LeafSteps, Junctions
    <3> QED
      BY <1>6, <2>1, <3>1 DEF StepOf
  <2>2. CASE d.op \in Junctions
    <3>1. f[d.left] \in S /\ f[d.right] \in S /\ d.op # "not"
      BY <2>2, ExprsAre DEF LeafSteps, Junctions
    <3> QED
      BY <1>6, <2>2, <3>1 DEF StepOf
  <2>3. CASE d.op # "not" /\ d.op \notin Junctions
    BY <1>6, <2>3 DEF StepOf
  <2> QED
    BY <2>1, <2>2, <2>3
<1> HIDE DEF leaf, neg, junct
<1>7. PICK f \in LeafSteps(S) : \A d \in Exprs : f[d] = StepOf(leaf, neg, junct, f, d)
  BY <1>1, <1>2, <1>3, StructuralRecursion
<1>8. f = [d \in Exprs |-> Body(f, d)]
  BY <1>4, <1>7 DEF LeafSteps
<1>9. TransBool = [d \in Exprs |-> Body(TransBool, d)]
  BY <1>8 DEF Body, TransBool
<1>10. /\ e.op \in Junctions => TransBool[e] = Junction(e.op, TransBool[e.left], TransBool[e.right])
       /\ e.op = "not" => TransBool[e] = Not(TransBool[e.arg])
       /\ e.op \notin Junctions \cup {"not"} => TransBool[e] = Leaf(e)
  BY <1>6, <1>9
<1> DEFINE T == {d \in Exprs : TransBool[d] \in Exprs}
<1>11. \A d \in Exprs : /\ d.op \in Junctions => TransBool[d] = Junction(d.op, TransBool[d.left], TransBool[d.right])
                        /\ d.op = "not" => TransBool[d] = Not(TransBool[d.arg])
                        /\ d.op \notin Junctions \cup {"not"} => TransBool[d] = Leaf(d)
  BY <1>6, <1>9
<1>12. Atoms \cup {Nothing} \subseteq T
  <2>1. ASSUME NEW d \in Atoms \cup {Nothing}
        PROVE  d \in Exprs /\ d.op \notin Junctions \cup {"not"}
    BY ExprsHave, AtomOp, JunctionIs DEF Relations, Junctions
  <2> QED
    BY <1>11, <2>1, UnequalKeeps DEF Leaf
<1>13. ASSUME NEW d \in Exprs, d.op = "not", d.arg \in T
       PROVE  d \in T
  BY <1>11, <1>13, ExprsHave
<1>14. ASSUME NEW d \in Exprs, d.op \in Junctions, d.left \in T, d.right \in T
       PROVE  d \in T
  BY <1>11, <1>14, ExprsHave
<1>15. T = Exprs
  BY <1>12, <1>13, <1>14, AllExprs
<1> QED
  BY <1>10, <1>15 DEF Leaf

(* expr_trans_bool: what it makes of an expression is 'n' in the same      *)
(* configurations.                                                         *)
THEOREM TransBoolKeeps ==
  ASSUME Unbounded, NEW e \in FlatExprs
  PROVE  \A v : Typed(v) => (Val(TransBool[e], v) = 0 <=> Val(e, v) = 0)
<1> DEFINE Good(d) == \A v : Typed(v) => (Val(TransBool[d], v) = 0 <=> Val(d, v) = 0)
           T == {d \in Exprs : d \in FlatExprs => Good(d)}
<1>1. ASSUME NEW d \in Exprs, d.op \notin Junctions \cup {"not"}
      PROVE  d \in T
  BY <1>1, TransBoolIs, UnequalKeeps
<1>2. Atoms \cup {Nothing} \subseteq T
  <2>1. ASSUME NEW d \in Atoms \cup {Nothing}
        PROVE  d \in Exprs /\ d.op \notin Junctions \cup {"not"}
    BY ExprsHave, AtomOp, JunctionIs DEF Relations, Junctions
  <2> QED
    BY <1>1, <2>1
<1>3. ASSUME NEW d \in Exprs, d.op = "not", d.arg \in T
      PROVE  d \in T
  <2>1. SUFFICES ASSUME d \in FlatExprs PROVE Good(d)
    OBVIOUS
  <2>2. d.arg \in Exprs /\ d = Not(d.arg) /\ d.arg.op \in {"sym", "none"}
    BY <1>3, <2>1, ExprsAre, FlatIs DEF FlatExprs
  <2>3. TransBool[d.arg] = d.arg
    BY <2>2, TransBoolIs DEF Unequal, Junctions
  <2>4. TransBool[d] = d
    BY <1>3, <2>2, <2>3, TransBoolIs
  <2> QED
    BY <2>4
<1>4. ASSUME NEW d \in Exprs, d.op \in Junctions, d.left \in T, d.right \in T
      PROVE  d \in T
  <2>1. SUFFICES ASSUME d \in FlatExprs PROVE Good(d)
    OBVIOUS
  <2>2. d.left \in FlatExprs /\ d.right \in FlatExprs
    BY <1>4, <2>1, FlatClosed DEF ClosedKind
  <2>3. d.left \in Exprs /\ d.right \in Exprs /\ Good(d.left) /\ Good(d.right)
    BY <1>4, <2>2
  <2> DEFINE l == TransBool[d.left]
             r == TransBool[d.right]
  <2>4. TransBool[d] = Junction(d.op, l, r) /\ l \in Exprs /\ r \in Exprs
    BY <1>4, <2>3, TransBoolIs
  <2>5. SUFFICES ASSUME NEW v, Typed(v) PROVE Val(Junction(d.op, l, r), v) = 0 <=> Val(d, v) = 0
    BY <2>4
  <2>6. (Val(l, v) = 0 <=> Val(d.left, v) = 0) /\ (Val(r, v) = 0 <=> Val(d.right, v) = 0)
    BY <2>3, <2>5
  <2> HIDE DEF l, r
  <2>7. /\ Val(l, v) \in 0..2 /\ Val(r, v) \in 0..2
        /\ Val(d.left, v) \in 0..2 /\ Val(d.right, v) \in 0..2
    BY <2>3, <2>4, <2>5, ValIs
  <2>8. CASE d.op = "and"
    <3>1. /\ Val(Junction(d.op, l, r), v) = Lesser(Val(l, v), Val(r, v))
          /\ Val(d, v) = Lesser(Val(d.left, v), Val(d.right, v))
      BY <2>4, <2>5, <2>8, ValOf, ValIs
    <3> QED
      BY <2>6, <2>7, <3>1 DEF Lesser
  <2>9. CASE d.op = "or"
    <3>1. /\ Val(Junction(d.op, l, r), v) = Greater(Val(l, v), Val(r, v))
          /\ Val(d, v) = Greater(Val(d.left, v), Val(d.right, v))
      BY <2>4, <2>5, <2>9, ValOf, ValIs
    <3> QED
      BY <2>6, <2>7, <3>1 DEF Greater
  <2> QED
    BY <1>4, <2>8, <2>9 DEF Junctions
<1>5. T = Exprs
  <2> HIDE DEF Good
  <2> QED
    BY <1>2, <1>3, <1>4, AllExprs
<1> QED
  BY <1>5 DEF FlatExprs

\* A prompt's dependency, where the prompt has none of its own.
LEMMA PromptDepIs ==
  ASSUME Unbounded, NEW kind, NEW b \in FlatExprs
  PROVE  /\ PromptDep(kind, b, Nothing) \in Exprs
         /\ \A v : Typed(v) => (Val(PromptDep(kind, b, Nothing), v) = 0 <=> Val(b, v) = 0)
<1> DEFINE t == Transform[Nothing]
           a == And(b, t)
           d == EliminateDups(a)
<1>1. Nothing \in FlatExprs /\ Nothing \in Exprs /\ FlatExprs \subseteq Exprs
  BY FlatClosed, ExprsHave DEF ClosedKind
<1>2. t \in FlatExprs /\ \A v : Typed(v) => Val(t, v) = 2
  BY <1>1, TransformKeeps, ValOf
<1> HIDE DEF t
<1>3. a \in FlatExprs /\ \A v : Typed(v) => Val(a, v) = Lesser(Val(b, v), Val(t, v))
  BY <1>2, FlatClosed, AndKeeps
<1> HIDE DEF a
<1>4. d \in FlatExprs /\ \A v : Typed(v) => Val(d, v) = Val(a, v)
  BY <1>3, FlatClosed, EliminateDupsKeeps
<1> HIDE DEF d
<1>5. \A v : Typed(v) => Val(b, v) \in 0..2
  BY <1>1, ValIs
<1>6. \A v : Typed(v) => Val(d, v) = Val(b, v)
  BY <1>2, <1>3, <1>4, <1>5 DEF Lesser
<1>7. TransBool[d] \in Exprs /\ \A v : Typed(v) => (Val(TransBool[d], v) = 0 <=> Val(d, v) = 0)
  BY <1>1, <1>4, TransBoolIs, TransBoolKeeps
<1>8. PromptDep(kind, b, Nothing) = IF kind = "tri" THEN d ELSE TransBool[d]
  BY DEF PromptDep, d, a, t
<1> QED
  BY <1>1, <1>4, <1>6, <1>7, <1>8

\* menu_finalize keeps what every dependency and every prompt means.
LEMMA MeaningIsKept ==
  ASSUME Unbounded
  PROVE  AllKeepMeaning
<1>1. SUFFICES ASSUME NEW p \in Parents, NEW e \in Deps
               PROVE  Keeps(And(p, e), BaseDep(p, e), PromptDep("bool", BaseDep(p, e), Nothing))
  BY DEF AllKeepMeaning
<1>2. p \in FlatExprs /\ e \in Exprs /\ p \in Exprs
  BY DepsAssumption DEF FlatExprs
<1> DEFINE b == BaseDep(p, e)
           q == PromptDep("bool", b, Nothing)
<1>3. b \in FlatExprs /\ \A v : Typed(v) => Val(b, v) = Lesser(Val(p, v), Val(e, v))
  BY <1>2, BaseDepKeeps
<1> HIDE DEF b
<1>4. \A v : Typed(v) => (Val(q, v) = 0 <=> Val(b, v) = 0)
  BY <1>3, PromptDepIs
<1>5. \A v : Typed(v) => Val(And(p, e), v) = Lesser(Val(p, v), Val(e, v))
  BY <1>2, ExprsClosed, AndKeeps
<1> HIDE DEF q
<1>6. Keeps(And(p, e), b, q)
  BY <1>3, <1>4, <1>5, ValuationTyped DEF Keeps
<1> QED
  BY <1>6 DEF b, q

(* What menu_finalize makes of the dependencies of an entry and its parent *)
(* has the value of the two in every configuration, and the prompt's       *)
(* dependency is 'n' when that is, whatever the dependencies say.          *)
THEOREM RewritingKeepsMeaning ==
  ASSUME Unbounded
  PROVE  Spec => []MeaningKept
<1>1. MeaningKept
  BY MeaningIsKept DEF MeaningKept
<1> QED
  BY <1>1, PTL

-----------------------------------------------------------------------------
(* Which entries are listed below the one before them.                     *)

\* A typed valuation in which nothing is 'm'.
TwoValued(v) == Typed(v) /\ \A s \in DOMAIN Kind : Kind[s] = "tri" => v[s] # "m"

\* The value of a symbol by itself.
LEMMA SymbolIs ==
  ASSUME Unbounded, NEW v, Typed(v), NEW e \in Exprs, e.op = "sym"
  PROVE  /\ e \in Atoms /\ e.sym \in Terms /\ e = Symbol(e.sym)
         /\ StringOf(e.sym, v) \in {"y", "m", "n"} /\ Val(e, v) = TriOf[StringOf(e.sym, v)]
         /\ TwoValued(v) => StringOf(e.sym, v) \in {"y", "n"}
<1>1. e \in Atoms
  BY ExprsAre, JunctionIs DEF Junctions
<1>2. e.sym \in Switches /\ e = Symbol(e.sym)
  BY <1>1, AtomOp
<1>3. e.sym \in Terms /\ KindOf(e.sym) # "string"
  BY <1>2, WordsAre, KindAssumption DEF Terms, Switches, KindOf
<1>4. /\ StringOf(e.sym, v) \in {"y", "m", "n"}
      /\ TwoValued(v) => StringOf(e.sym, v) \in {"y", "n"}
  BY <1>2, WordsAre DEF StringOf, Switches, Typed, TwoValued
<1>5. Val(e, v) = AtomVal(e, v)
  BY <1>1, ValIs
<1>6. AtomVal(e, v) = TriOf[StringOf(e.sym, v)]
  BY <1>3 DEF AtomVal, Relations
<1> QED
  BY <1>1, <1>2, <1>3, <1>4, <1>5, <1>6

\* The value of a comparison is 'n' or 'y'.
LEMMA ComparisonIs ==
  ASSUME Unbounded, NEW v, Typed(v), NEW e \in Exprs, e.op \in Relations
  PROVE  e \in Atoms /\ Val(e, v) \in {0, 2} /\ e = Compare(e.op, e.sym, e.with)
<1>1. e \in Atoms
  BY ExprsAre, JunctionIs DEF Junctions, Relations
<1>2. Val(e, v) = AtomVal(e, v)
  BY <1>1, ValIs
<1> QED
  BY <1>1, <1>2, AtomOp DEF AtomVal, Relations

\* Where nothing is 'm', no expression is.
LEMMA ValTwoValued ==
  ASSUME Unbounded, NEW v, TwoValued(v), NEW e \in Exprs
  PROVE  Val(e, v) \in {0, 2}
<1> DEFINE T == {d \in Exprs : Val(d, v) \in {0, 2}}
<1>0. Typed(v)
  BY DEF TwoValued
<1>1. Atoms \cup {Nothing} \subseteq T
  <2>1. ASSUME NEW d \in Atoms \cup {Nothing}
        PROVE  d \in Exprs /\ (d = Nothing \/ d.op = "sym" \/ d.op \in Relations)
    BY ExprsHave, AtomOp
  <2>2. ASSUME NEW d \in Exprs, d.op = "sym"
        PROVE  Val(d, v) \in {0, 2}
    BY <1>0, <2>2, SymbolIs DEF TriOf
  <2> QED
    BY <1>0, <2>1, <2>2, ComparisonIs, ValOf
<1>2. ASSUME NEW d \in Exprs, d.op = "not", d.arg \in T
      PROVE  d \in T
  <2>1. Val(d, v) = 2 - Val(d.arg, v)
    BY <1>0, <1>2, ValIs
  <2> QED
    BY <1>2, <2>1
<1>3. ASSUME NEW d \in Exprs, d.op \in Junctions, d.left \in T, d.right \in T
      PROVE  d \in T
  <2>1. /\ d.op = "and" => Val(d, v) = Lesser(Val(d.left, v), Val(d.right, v))
        /\ d.op = "or"  => Val(d, v) = Greater(Val(d.left, v), Val(d.right, v))
    BY <1>0, ValIs
  <2> QED
    BY <1>3, <2>1 DEF Lesser, Greater, Junctions
<1>4. T = Exprs
  BY <1>1, <1>2, <1>3, AllExprs
<1> QED
  BY <1>4

Ways == {"eq", "ne"}
\* An atom, or nothing, compared with 'n'.
LeafCompared(d, o) ==
  CASE d.op = "none" -> IF o = "ne" THEN Not(No) ELSE No
    [] d.op = "sym"  -> Compare(o, d.sym, "n")
    [] OTHER         -> IF o = "ne" THEN d ELSE Not(d)

\* A symbol, a comparison or nothing compared with 'n' has the value it should.
LEMMA LeafComparedIs ==
  ASSUME Unbounded, NEW d \in Exprs, d.op \notin Junctions \cup {"not"}, NEW o \in Ways
  PROVE  /\ LeafCompared(d, o) \in Exprs
         /\ \A v : TwoValued(v) => Val(LeafCompared(d, o), v) = IF o = "ne" THEN Val(d, v) ELSE 2 - Val(d, v)
<1>0. \A v : TwoValued(v) => Typed(v)
  BY DEF TwoValued
<1>1. d = Nothing \/ d.op = "sym" \/ d.op \in Relations
  BY ExprsAre, AtomOp
<1>2. CASE d = Nothing
  <2>1. LeafCompared(d, o) = IF o = "ne" THEN Not(No) ELSE No
    BY <1>2, JunctionIs DEF LeafCompared
  <2>2. No \in Exprs /\ Not(No) \in Exprs
    BY Constants, ExprsClosed, ExprsHave
  <2>3. \A v : TwoValued(v) => Val(No, v) = 0 /\ Val(Not(No), v) = 2 /\ Val(d, v) = 2
    BY <1>0, <1>2, <2>2, ValOf
  <2> QED
    BY <2>1, <2>2, <2>3 DEF Ways
<1>3. CASE d.op = "sym"
  <2> DEFINE c == Compare(o, d.sym, "n")
  <2>1. LeafCompared(d, o) = c
    BY <1>3 DEF LeafCompared
  <2>2. ASSUME NEW v, TwoValued(v)
        PROVE  c \in Atoms /\ Val(c, v) = IF o = "ne" THEN Val(d, v) ELSE 2 - Val(d, v)
    <3>1. /\ d.sym \in Terms /\ StringOf(d.sym, v) \in {"y", "n"}
          /\ Val(d, v) = TriOf[StringOf(d.sym, v)]
      BY <1>0, <1>3, <2>2, SymbolIs
    <3>2. "n" \in Terms /\ "n" \in Words /\ "y" \in Words /\ StringOf("n", v) = "n"
      BY <1>0, <2>2, WordsAre DEF Terms, StringOf, Typed
    <3>3. c \in Atoms
      BY <3>1, <3>2 DEF Compare, Atoms, Relations, Ways
    <3>4. Val(c, v) = AtomVal(c, v)
      BY <1>0, <2>2, <3>3, ExprsHave, ValIs
    <3>5. AtomVal(c, v) = IF Holds(o, Rank(StringOf(d.sym, v)), Rank("n")) THEN 2 ELSE 0
      BY <3>2 DEF AtomVal, Compare, Relations, Ways
    <3>6. Rank(StringOf(d.sym, v)) = Rank("n") <=> StringOf(d.sym, v) = "n"
      BY <3>1, <3>2, RankIs
    <3>7. Holds(o, Rank(StringOf(d.sym, v)), Rank("n")) <=> IF o = "ne" THEN StringOf(d.sym, v) # "n" ELSE StringOf(d.sym, v) = "n"
      BY <3>6 DEF Holds, Ways
    <3>8. Val(d, v) = IF StringOf(d.sym, v) = "n" THEN 0 ELSE 2
      BY <3>1 DEF TriOf
    <3> QED
      BY <3>3, <3>4, <3>5, <3>7, <3>8
  <2>3. c \in Exprs
    <3>1. d \in Atoms /\ d.sym \in Switches
      BY <1>3, ExprsAre, JunctionIs, AtomOp DEF Junctions
    <3>2. d.sym \in Terms /\ "n" \in Terms
      BY <3>1, WordsAre DEF Switches, Terms
    <3>3. c \in Atoms
      BY <3>2 DEF Compare, Atoms, Relations, Ways
    <3> QED
      BY <3>3, ExprsHave
  <2> QED
    BY <2>1, <2>2, <2>3
<1>4. CASE d.op \in Relations
  <2>1. LeafCompared(d, o) = IF o = "ne" THEN d ELSE Not(d)
    BY <1>4 DEF LeafCompared, Relations
  <2>2. Not(d) \in Exprs /\ \A v : TwoValued(v) => Val(Not(d), v) = 2 - Val(d, v)
    BY <1>0, ValOf, ExprsHave
  <2> QED
    BY <2>1, <2>2
<1> QED
  BY <1>1, <1>2, <1>3, <1>4

JunctionCompared(op, l, r, o) ==
  IF o = "ne" THEN Not(Junction(Opposite[op], l, r)) ELSE Junction(Opposite[op], l, r)

\* The opposites of junctions and of the two comparisons.
LEMMA OppositeTyped ==
  /\ \A op \in Junctions : Opposite[op] \in Junctions
  /\ \A o \in Ways : Opposite[o] \in Ways /\ Opposite[o] # o
BY DEF Opposite, Junctions, Ways

\* The equations of TransCompare.
LEMMA TransCompareIs ==
  ASSUME Unbounded, NEW e \in Exprs
  PROVE  \A o \in Ways :
           /\ TransCompare(e, o) \in Exprs
           /\ e.op \in Junctions =>
                TransCompare(e, o) = JunctionCompared(e.op, TransCompare(e.left, "eq"), TransCompare(e.right, "eq"), o)
           /\ e.op = "not" => TransCompare(e, o) = TransCompare(e.arg, Opposite[o])
           /\ e.op \notin Junctions \cup {"not"} => TransCompare(e, o) = LeafCompared(e, o)
<1> DEFINE S == [Ways -> Exprs]
           leaf == [d \in Exprs |-> [o \in Ways |-> IF d.op \in Junctions \cup {"not"} THEN d ELSE LeafCompared(d, o)]]
           neg == [p \in Exprs \X S |-> [o \in Ways |-> p[2][Opposite[o]]]]
           junct == [p \in Exprs \X S \X S |->
                      [o \in Ways |->
                         IF p[1].op \in Junctions THEN JunctionCompared(p[1].op, p[2]["eq"], p[3]["eq"], o) ELSE p[1]]]
           AtWay(f, d, o) ==
             LET Negate(c) == IF o = "ne" THEN Not(c) ELSE c
             IN  CASE d.op = "none" -> Negate(No)
                   [] d.op = "sym"  -> Compare(o, d.sym, "n")
                   [] d.op = "not"  -> f[d.arg][Opposite[o]]
                   [] d.op \in Junctions ->
                        Negate(Junction(Opposite[d.op], f[d.left]["eq"], f[d.right]["eq"]))
                   [] d.op \in Relations -> IF o = "ne" THEN d ELSE Not(d)
           Body(f, d) == [o \in Ways |-> AtWay(f, d, o)]
           compared[d \in Exprs] ==
             [o \in {"eq", "ne"} |->
                LET Negate(c) == IF o = "ne" THEN Not(c) ELSE c
                IN  CASE d.op = "none" -> Negate(No)
                      [] d.op = "sym"  -> Compare(o, d.sym, "n")
                      [] d.op = "not"  -> compared[d.arg][Opposite[o]]
                      [] d.op \in Junctions ->
                           Negate(Junction(Opposite[d.op], compared[d.left]["eq"], compared[d.right]["eq"]))
                      [] d.op \in Relations -> IF o = "ne" THEN d ELSE Not(d)]
<1>1. leaf \in LeafSteps(S)
  BY LeafComparedIs DEF LeafSteps
<1>2. neg \in NotSteps(S)
  BY OppositeTyped DEF NotSteps
<1>3. junct \in JunctionSteps(S)
  <2>1. ASSUME NEW op \in Junctions, NEW l \in Exprs, NEW r \in Exprs, NEW o \in Ways
        PROVE  JunctionCompared(op, l, r, o) \in Exprs
    BY OppositeTyped, ExprsHave DEF JunctionCompared
  <2>2. "eq" \in Ways
    BY DEF Ways
  <2>3. ASSUME NEW p \in Exprs \X S \X S, NEW o \in Ways
        PROVE  (IF p[1].op \in Junctions THEN JunctionCompared(p[1].op, p[2]["eq"], p[3]["eq"], o) ELSE p[1]) \in Exprs
    <3>1. p[1] \in Exprs /\ p[2]["eq"] \in Exprs /\ p[3]["eq"] \in Exprs
      BY <2>2
    <3> QED
      BY <2>1, <3>1
  <2> QED
    BY <2>3 DEF JunctionSteps
<1>4. ASSUME NEW f, NEW d, NEW o \in Ways
      PROVE  /\ d.op \in Junctions => AtWay(f, d, o) = JunctionCompared(d.op, f[d.left]["eq"], f[d.right]["eq"], o)
             /\ d.op = "not" => AtWay(f, d, o) = f[d.arg][Opposite[o]]
             /\ d.op \in {"none", "sym"} \cup Relations => AtWay(f, d, o) = LeafCompared(d, o)
  <2>1. CASE d.op \in Junctions
    <3>1. d.op \notin {"none", "sym", "not"} \cup Relations
      BY <2>1 DEF Junctions, Relations
    <3> QED
      BY <2>1, <3>1 DEF JunctionCompared
  <2>2. CASE d.op = "not"
    BY <2>2 DEF Junctions, Relations
  <2>3. CASE d.op \in {"none", "sym"} \cup Relations
    BY <2>3 DEF Junctions, Relations, LeafCompared
  <2>4. CASE d.op \notin {"none", "sym", "not"} \cup Relations \cup Junctions
    BY <2>4
  <2> QED
    BY <2>1, <2>2, <2>3, <2>4
<1>5. \A f, d : Body(f, d) = [o \in Ways |-> AtWay(f, d, o)]
  OBVIOUS
<1>6. ASSUME NEW f \in LeafSteps(S), NEW d \in Exprs
      PROVE  StepOf(leaf, neg, junct, f, d) = Body(f, d)
  <2> HIDE DEF AtWay
  <2>1. CASE d.op = "not"
    <3>1. f[d.arg] \in S /\ d.op \notin Junctions
      BY <2>1, ExprsAre DEF LeafSteps, Junctions
    <3> QED
      BY <1>4, <2>1, <3>1 DEF StepOf
  <2>2. CASE d.op \in Junctions
    <3>1. f[d.left] \in S /\ f[d.right] \in S /\ d.op # "not"
      BY <2>2, ExprsAre DEF LeafSteps, Junctions
    <3>2. StepOf(leaf, neg, junct, f, d)
            = [o \in Ways |-> JunctionCompared(d.op, f[d.left]["eq"], f[d.right]["eq"], o)]
      BY <2>2, <3>1 DEF StepOf
    <3> QED
      BY <1>4, <2>2, <3>2
  <2>3. CASE d.op # "not" /\ d.op \notin Junctions
    <3>1. d.op \in {"none", "sym"} \cup Relations
      BY <2>3, ExprsAre
    <3>2. StepOf(leaf, neg, junct, f, d) = [o \in Ways |-> LeafCompared(d, o)]
      BY <2>3 DEF StepOf
    <3> QED
      BY <1>4, <3>1, <3>2
  <2> QED
    BY <2>1, <2>2, <2>3
<1>7. ASSUME NEW f \in LeafSteps(S), NEW d \in Exprs, NEW o \in Ways
      PROVE  f[d][o] \in Exprs
  BY DEF LeafSteps
<1> HIDE DEF leaf, neg, junct, S, Body, AtWay
<1>8. PICK f \in LeafSteps(S) : \A d \in Exprs : f[d] = StepOf(leaf, neg, junct, f, d)
  BY <1>1, <1>2, <1>3, StructuralRecursion
<1>9. f = [d \in Exprs |-> Body(f, d)]
  BY <1>6, <1>8 DEF LeafSteps
<1>10. compared = [d \in Exprs |-> Body(compared, d)]
  BY <1>9 DEF Body, AtWay, Ways
<1>11. \A d, o : TransCompare(d, o) = compared[d][o]
  BY DEF TransCompare
<1> HIDE DEF compared
<1>12. ASSUME NEW d \in Exprs, NEW o \in Ways
       PROVE  TransCompare(d, o) = AtWay(compared, d, o)
  <2>1. compared[d] = Body(compared, d)
    BY <1>10
  <2> QED
    BY <1>5, <1>11, <2>1
<1>13. ASSUME NEW d \in Exprs, NEW o \in Ways
       PROVE  /\ d.op \in Junctions =>
                   TransCompare(d, o) = JunctionCompared(d.op, TransCompare(d.left, "eq"), TransCompare(d.right, "eq"), o)
              /\ d.op = "not" => TransCompare(d, o) = TransCompare(d.arg, Opposite[o])
              /\ d.op \notin Junctions \cup {"not"} => TransCompare(d, o) = LeafCompared(d, o)
  <2>1. d.op \notin Junctions \cup {"not"} => d.op \in {"none", "sym"} \cup Relations
    BY ExprsAre
  <2> QED
    BY <1>4, <1>11, <1>12, <2>1
<1> DEFINE T == {d \in Exprs : \A o \in Ways : TransCompare(d, o) \in Exprs}
<1>14. Atoms \cup {Nothing} \subseteq T
  <2>1. ASSUME NEW d \in Atoms \cup {Nothing}
        PROVE  d \in Exprs /\ d.op \notin Junctions \cup {"not"}
    BY ExprsHave, AtomOp, JunctionIs DEF Relations, Junctions
  <2> QED
    BY <1>13, <2>1, LeafComparedIs
<1>15. ASSUME NEW d \in Exprs, d.op = "not", d.arg \in T
       PROVE  d \in T
  BY <1>13, <1>15, OppositeTyped
<1>16. ASSUME NEW d \in Exprs, d.op \in Junctions, d.left \in T, d.right \in T
       PROVE  d \in T
  <2>1. "eq" \in Ways /\ Opposite[d.op] \in Junctions
    BY <1>16, OppositeTyped DEF Ways
  <2>2. TransCompare(d.left, "eq") \in Exprs /\ TransCompare(d.right, "eq") \in Exprs
    BY <1>16, <2>1
  <2> QED
    BY <1>13, <1>16, <2>1, <2>2, ExprsHave DEF JunctionCompared
<1>17. T = Exprs
  BY <1>14, <1>15, <1>16, AllExprs
<1> QED
  BY <1>13, <1>17

(* expr_trans_compare: what it makes of an expression is 'y' where that is *)
(* not 'n', or where it is.                                                *)
THEOREM TransCompareKeeps ==
  ASSUME Unbounded, NEW v, TwoValued(v), NEW e \in Exprs
  PROVE  Val(TransCompare(e, "ne"), v) = Val(e, v) /\ Val(TransCompare(e, "eq"), v) = 2 - Val(e, v)
<1>0. Typed(v) /\ "eq" \in Ways /\ "ne" \in Ways /\ Opposite["eq"] = "ne" /\ Opposite["ne"] = "eq"
  BY DEF TwoValued, Ways, Opposite
<1> DEFINE Good(d) == Val(TransCompare(d, "ne"), v) = Val(d, v) /\ Val(TransCompare(d, "eq"), v) = 2 - Val(d, v)
           T == {d \in Exprs : Good(d)}
<1>1. Atoms \cup {Nothing} \subseteq T
  <2>1. ASSUME NEW d \in Atoms \cup {Nothing}
        PROVE  d \in Exprs /\ d.op \notin Junctions \cup {"not"}
    BY ExprsHave, AtomOp, JunctionIs DEF Relations, Junctions
  <2> QED
    BY <1>0, <2>1, TransCompareIs, LeafComparedIs
<1>2. ASSUME NEW d \in Exprs, d.op = "not", d.arg \in T
      PROVE  d \in T
  <2>1. TransCompare(d, "ne") = TransCompare(d.arg, "eq") /\ TransCompare(d, "eq") = TransCompare(d.arg, "ne")
    BY <1>0, <1>2, TransCompareIs
  <2>2. Val(d, v) = 2 - Val(d.arg, v) /\ Val(d.arg, v) \in 0..2
    BY <1>0, <1>2, ValIs
  <2>3. Val(TransCompare(d.arg, "ne"), v) = Val(d.arg, v) /\ Val(TransCompare(d.arg, "eq"), v) = 2 - Val(d.arg, v)
    BY <1>2
  <2>4. 2 - (2 - Val(d.arg, v)) = Val(d.arg, v)
    BY <2>2
  <2> QED
    BY <2>1, <2>2, <2>3, <2>4
<1>3. ASSUME NEW d \in Exprs, d.op \in Junctions, d.left \in T, d.right \in T
      PROVE  d \in T
  <2> DEFINE l == TransCompare(d.left, "eq")
             r == TransCompare(d.right, "eq")
             j == Junction(Opposite[d.op], l, r)
  <2>1. TransCompare(d, "ne") = Not(j) /\ TransCompare(d, "eq") = j
    BY <1>0, <1>3, TransCompareIs DEF JunctionCompared
  <2>2. /\ d.left \in Exprs /\ d.right \in Exprs /\ d = Junction(d.op, d.left, d.right)
        /\ Opposite[d.op] \in Junctions
    BY <1>3, ExprsAre, OppositeTyped
  <2>3. l \in Exprs /\ r \in Exprs
    BY <1>0, <2>2, TransCompareIs
  <2>4. Val(l, v) = 2 - Val(d.left, v) /\ Val(r, v) = 2 - Val(d.right, v)
    BY <1>3
  <2> HIDE DEF l, r
  <2>5. Val(j, v) = 2 - Val(d, v)
    BY <1>0, <1>3, <2>2, <2>3, <2>4, OppositeVal
  <2>6. j \in Exprs
    BY <2>2, <2>3, ExprsHave
  <2> HIDE DEF j
  <2>7. Val(Not(j), v) = 2 - Val(j, v) /\ Val(d, v) \in 0..2
    BY <1>0, <2>6, ValOf, ValIs
  <2>8. 2 - (2 - Val(d, v)) = Val(d, v)
    BY <2>7
  <2> QED
    BY <2>1, <2>5, <2>7, <2>8
<1>4. T = Exprs
  <2> HIDE DEF Good
  <2> QED
    BY <1>1, <1>2, <1>3, AllExprs
<1> QED
  BY <1>4

\* What DependsSymbol looks at.
LEMMA DependsIs ==
  ASSUME Unbounded, NEW s, NEW e \in Exprs
  PROVE  DependsSymbol(e, s) =>
           \/ e.op = "and" /\ (DependsSymbol(e.left, s) \/ DependsSymbol(e.right, s))
           \/ e.op = "sym" /\ e.sym = s
           \/ e.op = "eq" /\ e.sym = s /\ e.with \in {"y", "m"}
           \/ e.op = "ne" /\ e.sym = s /\ e.with = "n"
<1> DEFINE S == BOOLEAN
           Leaf(d) == \/ d.op = "sym" /\ d.sym = s
                      \/ d.op = "eq" /\ d.sym = s /\ d.with \in {"y", "m"}
                      \/ d.op = "ne" /\ d.sym = s /\ d.with = "n"
           leaf == [d \in Exprs |-> Leaf(d)]
           neg == [p \in Exprs \X S |-> FALSE]
           junct == [p \in Exprs \X S \X S |-> p[1].op = "and" /\ (p[2] \/ p[3])]
           Body(f, d) == CASE d.op \in {"and"} -> f[d.left] \/ f[d.right]
                           [] d.op = "sym" -> d.sym = s
                           [] d.op = "eq"  -> d.sym = s /\ d.with \in {"y", "m"}
                           [] d.op = "ne"  -> d.sym = s /\ d.with = "n"
                           [] OTHER        -> FALSE
           on[d \in Exprs] == CASE d.op \in {"and"} -> on[d.left] \/ on[d.right]
                                [] d.op = "sym" -> d.sym = s
                                [] d.op = "eq"  -> d.sym = s /\ d.with \in {"y", "m"}
                                [] d.op = "ne"  -> d.sym = s /\ d.with = "n"
                                [] OTHER        -> FALSE
<1>1. leaf \in LeafSteps(S)
  BY DEF LeafSteps
<1>2. neg \in NotSteps(S)
  BY DEF NotSteps
<1>3. junct \in JunctionSteps(S)
  BY DEF JunctionSteps
<1>4. ASSUME NEW f \in LeafSteps(S), NEW d \in Exprs
      PROVE  StepOf(leaf, neg, junct, f, d) = Body(f, d)
  <2>1. CASE d.op = "not"
    <3>1. f[d.arg] \in S /\ d.op \notin {"and", "sym", "eq", "ne"}
      BY <2>1, ExprsAre DEF LeafSteps
    <3> QED
      BY <2>1, <3>1 DEF StepOf
  <2>2. CASE d.op \in Junctions
    <3>1. f[d.left] \in S /\ f[d.right] \in S /\ d.op \in {"and", "or"}
      BY <2>2, ExprsAre DEF LeafSteps, Junctions
    <3> QED
      BY <2>2, <3>1 DEF StepOf
  <2>3. CASE d.op # "not" /\ d.op \notin Junctions
    BY <2>3 DEF StepOf, Junctions
  <2> QED
    BY <2>1, <2>2, <2>3
<1>5. ASSUME NEW f, NEW d
      PROVE  Body(f, d) => (d.op = "and" /\ (f[d.left] \/ f[d.right])) \/ Leaf(d)
  OBVIOUS
<1> HIDE DEF leaf, neg, junct, S, Body
<1>6. PICK f \in LeafSteps(S) : \A d \in Exprs : f[d] = StepOf(leaf, neg, junct, f, d)
  BY <1>1, <1>2, <1>3, StructuralRecursion
<1>7. f = [d \in Exprs |-> Body(f, d)]
  BY <1>4, <1>6 DEF LeafSteps
<1>8. on = [d \in Exprs |-> Body(on, d)]
  BY <1>7 DEF Body
<1>9. \A d : DependsSymbol(d, s) <=> on[d]
  BY DEF DependsSymbol, DependsThrough
<1> HIDE DEF on
<1> QED
  BY <1>5, <1>8, <1>9

(* expr_depends_symbol: an expression it says depends on a symbol is 'n'   *)
(* where that symbol is.                                                   *)
THEOREM DependsKeeps ==
  ASSUME Unbounded, NEW v, TwoValued(v), NEW s \in DOMAIN Kind, Kind[s] # "string", NEW e \in Exprs,
         DependsSymbol(e, s), v[s] = "n"
  PROVE  Val(e, v) = 0
<1>0. Typed(v) /\ Kind[s] \in {"bool", "tri"} /\ StringOf(s, v) = "n"
  BY DEF TwoValued, Typed, StringOf
<1> DEFINE T == {d \in Exprs : DependsSymbol(d, s) => Val(d, v) = 0}
<1>1. ASSUME NEW d \in Atoms
      PROVE  d \in T
  <2>1. d \in Exprs /\ d.op # "and"
    BY ExprsHave, AtomOp DEF Relations
  <2>2. SUFFICES ASSUME DependsSymbol(d, s) PROVE Val(d, v) = 0
    BY <2>1
  <2>3. CASE d.op = "sym" /\ d.sym = s
    <3>1. Val(d, v) = TriOf[StringOf(d.sym, v)]
      BY <1>0, <2>1, <2>3, SymbolIs
    <3> QED
      BY <1>0, <2>3, <3>1 DEF TriOf
  <2>4. CASE d.op \in {"eq", "ne"} /\ d.sym = s /\ d.with \in {"y", "m", "n"} /\ (d.op = "eq" <=> d.with # "n")
    <3>1. Val(d, v) = AtomVal(d, v) /\ d = Compare(d.op, s, d.with) /\ d.with \in Words
      BY <1>0, <2>1, <2>4, ValIs, AtomOp, WordsAre DEF Relations
    <3> QED
      BY <1>0, <2>4, <3>1, AtomIs
  <2> QED
    BY <2>1, <2>2, <2>3, <2>4, DependsIs
<1>2. Nothing \in T
  BY ExprsHave, JunctionIs, DependsIs
<1>3. ASSUME NEW d \in Exprs, d.op = "not", d.arg \in T
      PROVE  d \in T
  BY <1>3, DependsIs
<1>4. ASSUME NEW d \in Exprs, d.op \in Junctions, d.left \in T, d.right \in T
      PROVE  d \in T
  <2>1. SUFFICES ASSUME DependsSymbol(d, s) PROVE Val(d, v) = 0
    OBVIOUS
  <2>2. d.op = "and" /\ (DependsSymbol(d.left, s) \/ DependsSymbol(d.right, s))
    BY <1>4, <2>1, DependsIs DEF Junctions
  <2>3. Val(d, v) = Lesser(Val(d.left, v), Val(d.right, v)) /\ Val(d.left, v) \in 0..2 /\ Val(d.right, v) \in 0..2
    BY <1>0, <1>4, <2>2, ValIs
  <2> QED
    BY <1>4, <2>2, <2>3 DEF Lesser
<1>5. Atoms \cup {Nothing} \subseteq T
  BY <1>1, <1>2
<1>6. T = Exprs
  BY <1>3, <1>4, <1>5, AllExprs
<1> QED
  BY <1>6

\* The valuations ListedIsReached speaks of have no 'm'.
LEMMA ModlessTwoValued ==
  ASSUME NEW v \in WithoutMods
  PROVE  TwoValued(v)
<1>1. v \in Valuations /\ \A s \in DOMAIN Kind : Kind[s] = "tri" => v[s] # "m"
  BY DEF WithoutMods
<1> QED
  BY <1>1, ValuationTyped DEF TwoValued

\* menu_finalize's form of a dependency has its value.
LEMMA NormalIs ==
  ASSUME Unbounded, NEW e \in Exprs
  PROVE  LET n == EliminateDups(Transform[TransCompare(e, "ne")])
         IN  n \in Exprs /\ \A v : TwoValued(v) => Val(n, v) = Val(e, v)
<1> DEFINE c == TransCompare(e, "ne")
           t == Transform[c]
           n == EliminateDups(t)
<1>0. \A v : TwoValued(v) => Typed(v)
  BY DEF TwoValued
<1>1. c \in Exprs /\ \A v : TwoValued(v) => Val(c, v) = Val(e, v)
  <2>1. "ne" \in Ways
    BY DEF Ways
  <2> QED
    BY <2>1, TransCompareIs, TransCompareKeeps
<1> HIDE DEF c
<1>2. t \in Exprs /\ \A v : Typed(v) => Val(t, v) = Val(c, v)
  BY <1>1, TransformKeeps DEF FlatExprs
<1> HIDE DEF t
<1>3. n \in Exprs /\ \A v : Typed(v) => Val(n, v) = Val(t, v)
  BY <1>2, ExprsClosed, EliminateDupsKeeps
<1> HIDE DEF n
<1>4. n \in Exprs /\ \A v : TwoValued(v) => Val(n, v) = Val(e, v)
  BY <1>0, <1>1, <1>2, <1>3
<1> QED
  BY <1>4 DEF n, t, c

\* menu_finalize lists an entry below another only if it depends on that one.
LEMMA EntryIsReached ==
  ASSUME Unbounded, NEW s \in DOMAIN Kind, Kind[s] # "string", NEW base \in Exprs, NEW dep \in Exprs
  PROVE  Reached(s, base, dep)
<1>1. SUFFICES ASSUME Nested(s, base, dep), NEW v \in WithoutMods, Val(dep, v) # 0, v[s] = "n"
               PROVE  Val(base, v) # 0
  BY DEF Reached
<1>2. TwoValued(v) /\ Typed(v)
  BY ModlessTwoValued DEF TwoValued
<1>3. ~DependsSymbol(dep, s)
  BY <1>1, <1>2, DependsKeeps
<1> DEFINE p == Normals(<<dep, base>>)
           q == EliminateEq(p)
<1>4. q[2] = Yes
  BY <1>1, <1>3 DEF Nested
<1>5. /\ p[1] = EliminateDups(Transform[TransCompare(dep, "ne")])
      /\ p[2] = EliminateDups(Transform[TransCompare(base, "ne")])
  BY DEF Normals
<1>6. /\ p[1] \in Exprs /\ Val(p[1], v) = Val(dep, v)
      /\ p[2] \in Exprs /\ Val(p[2], v) = Val(base, v)
  BY <1>2, <1>5, NormalIs
<1>7. q = Eliminated(EqualUpTo[Depth], p)
  BY DEF EliminateEq
<1> HIDE DEF p, q
<1>8. Sound(EqualUpTo[Depth])
  BY EqualUpToSound, DepthAssumption
<1>9. Ordered(1, v, p, q)
  <2>1. 1 \in 1..2
    OBVIOUS
  <2> QED
    BY <1>2, <1>6, <1>7, <1>8, <2>1, EliminatedKeeps, ExprsClosed
<1>10. Val(q[2], v) = 2
  BY <1>2, <1>4, ValOf, ExprsHave
<1>11. 1 <= Val(p[1], v) => 1 <= Val(p[2], v)
  BY <1>9, <1>10 DEF Ordered
<1>12. Val(p[1], v) \in 0..2 /\ Val(p[2], v) \in 0..2
  BY <1>2, <1>6, ValIs
<1> QED
  BY <1>1, <1>6, <1>11, <1>12

\* So it is for all of them.
LEMMA AllListedAreReached ==
  ASSUME Unbounded
  PROVE  AllListedReached
<1>1. Nothing \in FlatExprs
  BY FlatClosed DEF ClosedKind
<1>2. ASSUME NEW kind, NEW e \in Exprs
      PROVE  PromptDep(kind, BaseDep(Nothing, e), Nothing) \in Exprs
  BY <1>1, BaseDepKeeps, PromptDepIs
<1>3. ASSUME NEW s \in DOMAIN Kind, NEW p \in Parents, NEW e \in Deps, Kind[s] # "string"
      PROVE  Reached(s, PromptDep(Kind[s], BaseDep(Nothing, p), Nothing),
                        PromptDep("bool", BaseDep(Nothing, e), Nothing))
  <2>1. p \in Exprs /\ e \in Exprs
    BY DepsAssumption
  <2>2. /\ PromptDep(Kind[s], BaseDep(Nothing, p), Nothing) \in Exprs
        /\ PromptDep("bool", BaseDep(Nothing, e), Nothing) \in Exprs
    BY <1>2, <2>1
  <2> QED
    BY <1>3, <2>2, EntryIsReached
<1> QED
  BY <1>3 DEF AllListedReached

(* An entry that menu_finalize lists below the one before it is on show    *)
(* only when that one is, or is set, so that menu_is_visible does not skip *)
(* it, whatever the two depend on, as long as nothing is 'm'.              *)
THEOREM ListedEntriesAreReached ==
  ASSUME Unbounded
  PROVE  Spec => []ListedIsReached
<1>1. ListedIsReached
  BY AllListedAreReached DEF ListedIsReached
<1> QED
  BY <1>1, PTL

=============================================================================
