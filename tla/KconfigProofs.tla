---------------------------- MODULE KconfigProofs ----------------------------
(***************************************************************************)
(* What holds of the configuration for every menu, every file and every    *)
(* set of objects: the symbols' values are determined, a .config and its   *)
(* minimal form read back as what they were written from, a session at the *)
(* menu loses nothing, and the objects follow the configuration through    *)
(* edits and failures.                                                     *)
(***************************************************************************)
EXTENDS AutoConf, KconfigSession, WellFoundedInduction, TLAPS

-----------------------------------------------------------------------------
(* Menus, their values and the files.                                      *)

(* A set of natural numbers has a least element.                           *)
LEMMA Least ==
  ASSUME NEW T \in SUBSET Nat, T # {}
  PROVE  \E m \in T : \A k \in T : m <= k
<1>1. IsWellFoundedOn(OpToRel(<, Nat), Nat)
  BY NatLessThanWellFounded
<1>2. PICK x \in T : \A y \in T : ~ (<<y, x>> \in OpToRel(<, Nat))
  BY <1>1, WFMin
<1>3. \A y \in T : ~(y < x)
  BY <1>2 DEF OpToRel
<1>4. x \in T
  BY <1>2
<1>5. \A k \in T : x <= k
  BY <1>3, <1>4
<1> QED
  BY <1>4, <1>5

(* What the user and the file can have said of the symbols.                *)
Defs ==
  {d \in [Named(Menu) -> Texts \cup Named(Menu) \cup {Absent}] :
     \A s \in Named(Menu) :
       d[s] \in {Absent} \cup (IF IsChoice(Menu, s) THEN MemberSet(Menu, s) ELSE OfKind(s))}

LEMMA EntryAt ==
  ASSUME NEW i \in DOMAIN Menu
  PROVE  Menu[i].sym \in Named(Menu) /\ Entry(Menu, Menu[i].sym) = Menu[i]
BY EntriesAssumption DEF Named, Entry

LEMMA EntryOf ==
  ASSUME NEW s \in Named(Menu)
  PROVE  \E i \in DOMAIN Menu : Menu[i].sym = s /\ Entry(Menu, s) = Menu[i]
BY EntryAt DEF Named

(* The choice a member belongs to.                                         *)
LEMMA ChoiceOf ==
  ASSUME NEW i \in DOMAIN Menu, Menu[i].of # "none"
  PROVE  \E k \in 1..(i - 1) :
           /\ k \in DOMAIN Menu /\ Menu[k].sym = Menu[i].of /\ Menu[k].of = "none"
           /\ IsChoice(Menu, Menu[k].sym) /\ i \in Members(Menu, Menu[k].sym)
<1>1. PICK k \in 1..(i - 1) : Menu[k].sym = Menu[i].of /\ Menu[k].of = "none"
  BY EntriesAssumption
<1>2. k \in DOMAIN Menu
  BY EntriesAssumption
<1>3. i \in Members(Menu, Menu[k].sym)
  BY <1>1 DEF Members
<1> QED
  BY <1>1, <1>2, <1>3 DEF IsChoice

LEMMA ChoiceIsNoMember ==
  ASSUME NEW k \in DOMAIN Menu, IsChoice(Menu, Menu[k].sym)
  PROVE  Menu[k].of = "none" /\ Kind[Menu[k].sym] # "string"
BY EntriesAssumption

LEMMA MemberIsPlain ==
  ASSUME NEW k \in DOMAIN Menu, NEW i \in Members(Menu, Menu[k].sym)
  PROVE  /\ i \in DOMAIN Menu /\ Menu[i].of = Menu[k].sym /\ Menu[i].of # "none"
         /\ ~IsChoice(Menu, Menu[i].sym) /\ Menu[i].default = Nothing
         /\ Kind[Menu[i].sym] # "string"
<1>1. i \in DOMAIN Menu /\ Menu[i].of = Menu[k].sym
  BY DEF Members
<1>2. Menu[k].sym # "none"
  BY EntriesAssumption, EntryAt
<1> QED
  BY <1>1, <1>2, EntriesAssumption

-----------------------------------------------------------------------------
(* What an entry does not look at does not matter to it.                   *)

LEMMA ScopeIsNamed ==
  ASSUME NEW i \in DOMAIN Menu
  PROVE  Scope(i) \subseteq Named(Menu)
<1>1. CASE Menu[i].of = "none"
  BY <1>1, EntriesAssumption, EntryAt DEF Scope
<1>2. CASE Menu[i].of # "none"
  BY <1>2, ChoiceOf, EntryAt DEF Scope
<1> QED
  BY <1>1, <1>2

Alike(S, v, w) == \A s \in S : v[s] = w[s]

LEMMA SeenAlike ==
  ASSUME NEW i \in DOMAIN Menu, NEW v \in Valuations, NEW w \in Valuations, Alike(Scope(i), v, w)
  PROVE  /\ Visible(Menu[i], v) <=> Visible(Menu[i], w)
         /\ HasDefault(Menu[i], v) <=> HasDefault(Menu[i], w)
         /\ Kind[Menu[i].sym] # "string" /\ ~IsChoice(Menu, Menu[i].sym) =>
              ValueOf(And(Menu[i].default, Menu[i].base), v)
                = ValueOf(And(Menu[i].default, Menu[i].base), w)
<1>1. Above(i, v) = Above(i, w)
  BY DEF Above, Alike
<1>2. ASSUME NEW x \in ExpressionsOf(Menu[i])
      PROVE  ValueOf(x, v) = ValueOf(x, w)
  <2>1. ValueOf(x, v) = ValueOf(x, Above(i, v))
    BY ScopeAssumption
  <2>2. ValueOf(x, w) = ValueOf(x, Above(i, w))
    BY ScopeAssumption
  <2> QED
    BY <1>1, <2>1, <2>2
<1>3. ValueOf(Menu[i].shown, v) = ValueOf(Menu[i].shown, w)
  BY <1>2 DEF ExpressionsOf
<1>4. ValueOf(Menu[i].base, v) = ValueOf(Menu[i].base, w)
  BY <1>2 DEF ExpressionsOf
<1>5. ASSUME Kind[Menu[i].sym] # "string", ~IsChoice(Menu, Menu[i].sym)
      PROVE  And(Menu[i].default, Menu[i].base) \in ExpressionsOf(Menu[i])
  BY <1>5 DEF ExpressionsOf
<1> QED
  BY <1>2, <1>3, <1>4, <1>5 DEF Visible, HasDefault

LEMMA ChosenAlike ==
  ASSUME NEW k \in DOMAIN Menu, IsChoice(Menu, Menu[k].sym), NEW d \in Defs,
         NEW v \in Valuations, NEW w \in Valuations, Alike(Scope(k) \cup {Menu[k].sym}, v, w)
  PROVE  /\ ChoiceDefault(Menu, Menu[k], v) = ChoiceDefault(Menu, Menu[k], w)
         /\ Chosen(Menu, d, Menu[k], v) = Chosen(Menu, d, Menu[k], w)
<1>1. ASSUME NEW m \in Members(Menu, Menu[k].sym)
      PROVE  Visible(Menu[m], v) <=> Visible(Menu[m], w)
  <2>1. m \in DOMAIN Menu /\ Scope(m) = {Menu[k].sym}
    BY MemberIsPlain DEF Scope
  <2> QED
    BY <2>1, SeenAlike DEF Alike
<1>2. HasDefault(Menu[k], v) <=> HasDefault(Menu[k], w)
  BY SeenAlike DEF Alike
<1>3. {m \in Members(Menu, Menu[k].sym) : Visible(Menu[m], v)}
        = {m \in Members(Menu, Menu[k].sym) : Visible(Menu[m], w)}
  BY <1>1
<1>4. ChoiceDefault(Menu, Menu[k], v) = ChoiceDefault(Menu, Menu[k], w)
  BY <1>2, <1>3 DEF ChoiceDefault
<1>5. ASSUME d[Menu[k].sym] # Absent
      PROVE  Visible(Entry(Menu, d[Menu[k].sym]), v) <=> Visible(Entry(Menu, d[Menu[k].sym]), w)
  <2>1. d[Menu[k].sym] \in MemberSet(Menu, Menu[k].sym)
    BY <1>5, EntryAt DEF Defs
  <2>2. PICK m \in Members(Menu, Menu[k].sym) : d[Menu[k].sym] = Menu[m].sym
    BY <2>1 DEF MemberSet
  <2>3. Entry(Menu, d[Menu[k].sym]) = Menu[m]
    BY <2>2, EntryAt, MemberIsPlain
  <2> QED
    BY <1>1, <2>3
<1> QED
  BY <1>4, <1>5 DEF Chosen

-----------------------------------------------------------------------------
(* Smallest and largest.                                                   *)

LEMMA SmallestIs ==
  ASSUME NEW S \in SUBSET (DOMAIN Menu), S # {}
  PROVE  Smallest(S) \in S
<1>1. S \in SUBSET Nat
  BY EntriesAssumption
<1> QED
  BY <1>1, Least DEF Smallest

LEMMA LargestIs ==
  ASSUME NEW S \in SUBSET (DOMAIN Menu), S # {}
  PROVE  Largest(S) \in S
<1> DEFINE T == {Len(Menu) - i : i \in S}
<1>1. T \in SUBSET Nat /\ T # {}
  BY EntriesAssumption
<1>2. PICK m \in T : \A k \in T : m <= k
  BY <1>1, Least
<1>3. PICK i \in S : m = Len(Menu) - i
  BY <1>2
<1>4. \A j \in S : Len(Menu) - i <= Len(Menu) - j
  BY <1>2, <1>3
<1>5. \A j \in S : j <= i
  BY <1>4, EntriesAssumption
<1> QED
  BY <1>5 DEF Largest

-----------------------------------------------------------------------------
(* The value of one entry.                                                 *)

(* The member of a choice that is 'y' is one that is visible.              *)
LEMMA ChosenIsVisible ==
  ASSUME NEW k \in DOMAIN Menu, IsChoice(Menu, Menu[k].sym), NEW d \in Defs, NEW v,
         NEW i \in Members(Menu, Menu[k].sym), Visible(Menu[i], v)
  PROVE  /\ \E m \in Members(Menu, Menu[k].sym) :
              Chosen(Menu, d, Menu[k], v) = Menu[m].sym /\ Visible(Menu[m], v)
         /\ \E m \in Members(Menu, Menu[k].sym) :
              ChoiceDefault(Menu, Menu[k], v) = Menu[m].sym /\ Visible(Menu[m], v)
<1> DEFINE shown == {m \in Members(Menu, Menu[k].sym) : Visible(Menu[m], v)}
<1>1. shown \in SUBSET (DOMAIN Menu) /\ shown # {}
  BY DEF Members
<1>2. Smallest(shown) \in shown
  BY <1>1, SmallestIs
<1>3. PICK m \in shown : ChoiceDefault(Menu, Menu[k], v) = Menu[m].sym
  BY <1>2 DEF ChoiceDefault
<1>4. CASE Chosen(Menu, d, Menu[k], v) = ChoiceDefault(Menu, Menu[k], v)
  BY <1>3, <1>4
<1>5. CASE d[Menu[k].sym] # Absent /\ Visible(Entry(Menu, d[Menu[k].sym]), v)
           /\ Chosen(Menu, d, Menu[k], v) = d[Menu[k].sym]
  <2>1. d[Menu[k].sym] \in MemberSet(Menu, Menu[k].sym)
    BY <1>5, EntryAt DEF Defs
  <2>2. PICK x \in Members(Menu, Menu[k].sym) : d[Menu[k].sym] = Menu[x].sym
    BY <2>1 DEF MemberSet
  <2>3. Entry(Menu, d[Menu[k].sym]) = Menu[x]
    BY <2>2, EntryAt, MemberIsPlain
  <2> QED
    BY <1>3, <1>5, <2>2, <2>3
<1> QED
  BY <1>4, <1>5 DEF Chosen

LEMMA CalcOfChoice ==
  ASSUME NEW k \in DOMAIN Menu, IsChoice(Menu, Menu[k].sym), NEW d, NEW v
  PROVE  Calc(Menu, d, Menu[k], v) = IfSo(Visible(Menu[k], v))
BY DEF Calc

LEMMA CalcOfMember ==
  ASSUME NEW k \in DOMAIN Menu, NEW i \in Members(Menu, Menu[k].sym), NEW d, NEW v
  PROVE  Calc(Menu, d, Menu[i], v)
           = IF Visible(Menu[i], v) THEN IfSo(Chosen(Menu, d, Menu[k], v) = Menu[i].sym) ELSE "n"
<1>1. /\ Menu[i].of = Menu[k].sym /\ Menu[i].of # "none" /\ ~IsChoice(Menu, Menu[i].sym)
      /\ Menu[i].default = Nothing /\ Kind[Menu[i].sym] # "string"
  BY MemberIsPlain
<1>2. Entry(Menu, Menu[i].of) = Menu[k]
  BY <1>1, EntryAt
<1>3. DefaultValue(Menu[i], v) = "n"
  BY <1>1 DEF DefaultValue, HasDefault, EmptyOf
<1> QED
  BY <1>1, <1>2, <1>3 DEF Calc, MemberValue

LEMMA CalcOfOther ==
  ASSUME NEW i \in DOMAIN Menu, Menu[i].of = "none", ~IsChoice(Menu, Menu[i].sym), NEW d, NEW v
  PROVE  Calc(Menu, d, Menu[i], v)
           = IF Visible(Menu[i], v) /\ d[Menu[i].sym] # Absent THEN d[Menu[i].sym]
             ELSE DefaultValue(Menu[i], v)
BY DEF Calc

(* Every entry is a choice, a member of one, or neither.                   *)
LEMMA ThreeKinds ==
  ASSUME NEW i \in DOMAIN Menu
  PROVE  \/ IsChoice(Menu, Menu[i].sym)
         \/ \E k \in DOMAIN Menu : i \in Members(Menu, Menu[k].sym) /\ IsChoice(Menu, Menu[k].sym)
                                   /\ k < i
         \/ Menu[i].of = "none" /\ ~IsChoice(Menu, Menu[i].sym)
<1>1. CASE Menu[i].of # "none"
  <2>1. PICK k \in 1..(i - 1) :
           /\ k \in DOMAIN Menu /\ IsChoice(Menu, Menu[k].sym) /\ i \in Members(Menu, Menu[k].sym)
    BY <1>1, ChoiceOf
  <2>2. k < i
    BY EntriesAssumption
  <2> QED
    BY <2>1, <2>2
<1> QED
  BY <1>1

LEMMA CalcAlike ==
  ASSUME NEW d \in Defs, NEW i \in DOMAIN Menu, NEW v \in Valuations, NEW w \in Valuations,
         Alike({Menu[j].sym : j \in 1..(i - 1)}, v, w)
  PROVE  Calc(Menu, d, Menu[i], v) = Calc(Menu, d, Menu[i], w)
<1>1. CASE IsChoice(Menu, Menu[i].sym)
  <2>1. Alike(Scope(i), v, w)
    BY <1>1, ChoiceIsNoMember DEF Scope
  <2>2. Visible(Menu[i], v) <=> Visible(Menu[i], w)
    BY <2>1, SeenAlike
  <2>3. IfSo(Visible(Menu[i], v)) = IfSo(Visible(Menu[i], w))
    BY <2>2 DEF IfSo
  <2> QED
    BY <1>1, <2>3, CalcOfChoice
<1>2. ASSUME NEW k \in DOMAIN Menu, i \in Members(Menu, Menu[k].sym),
             IsChoice(Menu, Menu[k].sym), k < i
      PROVE  Calc(Menu, d, Menu[i], v) = Calc(Menu, d, Menu[i], w)
  <2>1. Menu[i].of = Menu[k].sym /\ Menu[i].of # "none"
    BY <1>2, MemberIsPlain
  <2>2. Scope(k) = {Menu[j].sym : j \in 1..(k - 1)} /\ Scope(i) = {Menu[k].sym}
    BY <1>2, <2>1, ChoiceIsNoMember DEF Scope
  <2>3. 1..(k - 1) \subseteq 1..(i - 1) /\ k \in 1..(i - 1)
    BY <1>2, EntriesAssumption
  <2>4. Alike(Scope(k) \cup {Menu[k].sym}, v, w) /\ Alike(Scope(i), v, w)
    BY <2>2, <2>3 DEF Alike
  <2> QED
    BY <1>2, <2>4, SeenAlike, ChosenAlike, CalcOfMember
<1>3. CASE Menu[i].of = "none" /\ ~IsChoice(Menu, Menu[i].sym)
  <2>1. Alike(Scope(i), v, w)
    BY <1>3 DEF Scope
  <2>2. (Visible(Menu[i], v) <=> Visible(Menu[i], w)) /\ DefaultValue(Menu[i], v) = DefaultValue(Menu[i], w)
    BY <1>3, <2>1, SeenAlike DEF DefaultValue
  <2> QED
    BY <1>3, <2>2, CalcOfOther
<1> QED
  BY <1>1, <1>2, <1>3, ThreeKinds

LEMMA CalcTyped ==
  ASSUME NEW d \in Defs, NEW i \in DOMAIN Menu, NEW v
  PROVE  Calc(Menu, d, Menu[i], v) \in OfKind(Menu[i].sym)
<1>1. CASE IsChoice(Menu, Menu[i].sym)
  BY <1>1, CalcOfChoice, ChoiceIsNoMember DEF OfKind, IfSo
<1>2. ASSUME NEW k \in DOMAIN Menu, i \in Members(Menu, Menu[k].sym)
      PROVE  Calc(Menu, d, Menu[i], v) \in OfKind(Menu[i].sym)
  BY <1>2, CalcOfMember, MemberIsPlain DEF OfKind, IfSo
<1>3. CASE Menu[i].of = "none" /\ ~IsChoice(Menu, Menu[i].sym)
  <2>1. DefaultValue(Menu[i], v) \in OfKind(Menu[i].sym)
    BY SessionAssumption, EntriesAssumption DEF DefaultValue, EmptyOf, OfKind, IfSo, HasDefault
  <2>2. d[Menu[i].sym] \in OfKind(Menu[i].sym) \cup {Absent}
    BY <1>3, EntryAt DEF Defs
  <2> QED
    BY <1>3, <2>1, <2>2, CalcOfOther
<1> QED
  BY <1>1, <1>2, <1>3, ThreeKinds

(* Calc looks at what was said of the symbol itself, or of its choice.     *)
LEMMA CalcSame ==
  ASSUME NEW d, NEW e, NEW i \in DOMAIN Menu, NEW v,
         Menu[i].of = "none" /\ ~IsChoice(Menu, Menu[i].sym) =>
           d[Menu[i].sym] = e[Menu[i].sym] \/ ~Visible(Menu[i], v),
         Menu[i].of # "none" => d[Menu[i].of] = e[Menu[i].of]
  PROVE  Calc(Menu, d, Menu[i], v) = Calc(Menu, e, Menu[i], v)
<1>1. CASE IsChoice(Menu, Menu[i].sym)
  BY <1>1, CalcOfChoice
<1>2. ASSUME NEW k \in DOMAIN Menu, i \in Members(Menu, Menu[k].sym)
      PROVE  Calc(Menu, d, Menu[i], v) = Calc(Menu, e, Menu[i], v)
  <2>1. d[Menu[k].sym] = e[Menu[k].sym]
    BY <1>2, MemberIsPlain
  <2>2. Chosen(Menu, d, Menu[k], v) = Chosen(Menu, e, Menu[k], v)
    BY <2>1 DEF Chosen
  <2> QED
    BY <1>2, <2>2, CalcOfMember
<1>3. CASE Menu[i].of = "none" /\ ~IsChoice(Menu, Menu[i].sym)
  BY <1>3, CalcOfOther
<1> QED
  BY <1>1, <1>2, <1>3, ThreeKinds

-----------------------------------------------------------------------------
(* The values of all symbols: what Calculated computes entry by entry is   *)
(* the one valuation in which every entry has the value Calc gives it.     *)

IsPass(g, d, m) ==
  g = [i \in 0..m |-> IF i = 0 THEN Uncalculated(Menu) ELSE Settle(Menu, d, Menu[i], g[i - 1])]

LEMMA PassesExist ==
  ASSUME NEW d
  PROVE  \A m \in Nat : \E g : IsPass(g, d, m)
<1> DEFINE T == {m \in Nat : ~\E g : IsPass(g, d, m)}
<1>1. SUFFICES ASSUME T # {} PROVE FALSE
  OBVIOUS
<1>2. PICK m \in T : \A k \in T : m <= k
  BY <1>1, Least
<1>3. m \in Nat /\ ~\E g : IsPass(g, d, m)
  BY <1>2
<1>4. m # 0
  <2>1. IsPass([i \in 0..0 |-> Uncalculated(Menu)], d, 0)
    BY DEF IsPass
  <2> QED
    BY <1>3, <2>1
<1>5. m - 1 \in Nat /\ m - 1 \notin T
  BY <1>2, <1>4
<1>6. PICK g : IsPass(g, d, m - 1)
  BY <1>5
<1> DEFINE h == [i \in 0..m |-> IF i = m THEN Settle(Menu, d, Menu[m], g[m - 1]) ELSE g[i]]
<1>7. ASSUME NEW i \in 0..m
      PROVE  h[i] = IF i = 0 THEN Uncalculated(Menu) ELSE Settle(Menu, d, Menu[i], h[i - 1])
  <2>1. CASE i = m
    BY <2>1, <1>3, <1>4, <1>5
  <2>2. CASE i # m
    <3>1. i \in 0..(m - 1)
      BY <1>7, <1>3, <1>5, <2>2
    <3>2. g[i] = IF i = 0 THEN Uncalculated(Menu) ELSE Settle(Menu, d, Menu[i], g[i - 1])
      BY <1>6, <3>1 DEF IsPass
    <3> QED
      BY <1>5, <2>2, <3>1, <3>2
  <2> QED
    BY <2>1, <2>2
<1> HIDE DEF h
<1>8. h = [i \in 0..m |-> h[i]]
  BY DEF h
<1>9. IsPass(h, d, m)
  BY <1>7, <1>8 DEF IsPass
<1> QED
  BY <1>3, <1>9

LEMMA CalculatedIsPass ==
  ASSUME NEW d
  PROVE  \E g : IsPass(g, d, Len(Menu)) /\ OnScreen(d) = g[Len(Menu)]
<1> DEFINE upTo[i \in 0..Len(Menu)] ==
        IF i = 0 THEN Uncalculated(Menu) ELSE Settle(Menu, d, Menu[i], upTo[i - 1])
<1>1. OnScreen(d) = upTo[Len(Menu)]
  BY DEF OnScreen, Calculated
<1>2. \E g : IsPass(g, d, Len(Menu))
  BY PassesExist, EntriesAssumption
<1>3. IsPass(upTo, d, Len(Menu))
  BY <1>2 DEF IsPass
<1> QED
  BY <1>1, <1>3

LEMMA PassStarts ==
  ASSUME NEW d, NEW g, IsPass(g, d, Len(Menu))
  PROVE  g[0] = Uncalculated(Menu)
BY EntriesAssumption DEF IsPass

LEMMA PassSteps ==
  ASSUME NEW d, NEW g, IsPass(g, d, Len(Menu)), NEW i \in DOMAIN Menu
  PROVE  /\ i \in Nat /\ i - 1 \in 0..Len(Menu)
         /\ g[i] = Settle(Menu, d, Menu[i], g[i - 1])
<1>1. i \in 1..Len(Menu) /\ Len(Menu) \in Nat
  BY EntriesAssumption
<1>2. i \in 0..Len(Menu) /\ i # 0 /\ i - 1 \in 0..Len(Menu)
  BY <1>1
<1>3. g[i] = Settle(Menu, d, Menu[i], g[i - 1])
  BY <1>2 DEF IsPass
<1> QED
  BY <1>2, <1>3

LEMMA SettleTyped ==
  ASSUME NEW d \in Defs, NEW v \in Valuations, NEW i \in DOMAIN Menu
  PROVE  /\ Settle(Menu, d, Menu[i], v) \in Valuations
         /\ \A s \in Named(Menu) : Settle(Menu, d, Menu[i], v)[s]
              = IF s = Menu[i].sym THEN Calc(Menu, d, Menu[i], v) ELSE v[s]
<1>1. Calc(Menu, d, Menu[i], v) \in OfKind(Menu[i].sym)
  BY CalcTyped
<1>2. OfKind(Menu[i].sym) \subseteq Texts
  BY DEF OfKind, Texts
<1> QED
  BY <1>1, <1>2 DEF Valuations, Settle

LEMMA PassTyped ==
  ASSUME NEW d \in Defs, NEW g, IsPass(g, d, Len(Menu))
  PROVE  \A k \in 0..Len(Menu) : g[k] \in Valuations
<1> DEFINE T == {k \in 0..Len(Menu) : g[k] \notin Valuations}
<1>1. SUFFICES ASSUME T # {} PROVE FALSE
  OBVIOUS
<1>2. T \in SUBSET Nat
  BY EntriesAssumption
<1>3. PICK k \in T : \A j \in T : k <= j
  BY <1>1, <1>2, Least
<1>4. k # 0
  <2>1. Uncalculated(Menu) \in Valuations
    BY SessionAssumption DEF Uncalculated, EmptyOf, Valuations, OfKind, Texts
  <2> QED
    BY <2>1, <1>3, PassStarts
<1>5. k \in DOMAIN Menu /\ k - 1 \in 0..Len(Menu) /\ k - 1 < k
  BY <1>3, <1>4, EntriesAssumption
<1>6. g[k - 1] \in Valuations
  BY <1>2, <1>3, <1>5
<1>7. g[k] = Settle(Menu, d, Menu[k], g[k - 1])
  BY <1>5, PassSteps
<1>8. g[k] \in Valuations
  BY <1>5, <1>6, <1>7, SettleTyped
<1> QED
  BY <1>3, <1>8

LEMMA PassKeeps ==
  ASSUME NEW d \in Defs, NEW g, IsPass(g, d, Len(Menu)), NEW j \in DOMAIN Menu
  PROVE  \A k \in j..Len(Menu) : g[k][Menu[j].sym] = g[j][Menu[j].sym]
<1> DEFINE T == {k \in j..Len(Menu) : g[k][Menu[j].sym] # g[j][Menu[j].sym]}
<1>1. SUFFICES ASSUME T # {} PROVE FALSE
  OBVIOUS
<1>2. T \in SUBSET Nat /\ j \in Nat
  BY EntriesAssumption
<1>3. PICK k \in T : \A i \in T : k <= i
  BY <1>1, <1>2, Least
<1>4. k # j
  BY <1>3
<1>5. k \in DOMAIN Menu /\ k - 1 \in j..Len(Menu) /\ k - 1 < k
  BY <1>2, <1>3, <1>4, EntriesAssumption
<1>6. g[k - 1][Menu[j].sym] = g[j][Menu[j].sym]
  BY <1>2, <1>3, <1>5
<1>7. Menu[k].sym # Menu[j].sym
  BY <1>4, <1>5, EntriesAssumption
<1>8. g[k - 1] \in Valuations
  BY <1>5, PassTyped, PassSteps
<1>9. g[k][Menu[j].sym] = g[k - 1][Menu[j].sym]
  <2>1. g[k] = Settle(Menu, d, Menu[k], g[k - 1])
    BY <1>5, PassSteps
  <2>2. Menu[j].sym \in Named(Menu)
    BY EntryAt
  <2> QED
    BY <1>5, <1>7, <1>8, <2>1, <2>2, SettleTyped
<1> QED
  BY <1>3, <1>6, <1>9

Solves(d, v) == \A i \in DOMAIN Menu : v[Menu[i].sym] = Calc(Menu, d, Menu[i], v)

LEMMA Solved ==
  ASSUME NEW d \in Defs
  PROVE  OnScreen(d) \in Valuations /\ Solves(d, OnScreen(d))
<1>1. PICK g : IsPass(g, d, Len(Menu)) /\ OnScreen(d) = g[Len(Menu)]
  BY CalculatedIsPass
<1>2. Len(Menu) \in 0..Len(Menu)
  BY EntriesAssumption
<1>3. OnScreen(d) \in Valuations
  BY <1>1, <1>2, PassTyped
<1>4. ASSUME NEW i \in DOMAIN Menu
      PROVE  OnScreen(d)[Menu[i].sym] = Calc(Menu, d, Menu[i], OnScreen(d))
  <2>1. i - 1 \in 0..Len(Menu) /\ g[i - 1] \in Valuations
    BY <1>1, PassSteps, PassTyped
  <2>2. Len(Menu) \in i..Len(Menu)
    BY EntriesAssumption
  <2>3. OnScreen(d)[Menu[i].sym] = g[i][Menu[i].sym]
    BY <1>1, <2>2, PassKeeps
  <2>4. g[i][Menu[i].sym] = Calc(Menu, d, Menu[i], g[i - 1])
    <3>1. g[i] = Settle(Menu, d, Menu[i], g[i - 1])
      BY <1>1, PassSteps
    <3>2. Menu[i].sym \in Named(Menu)
      BY EntryAt
    <3> QED
      BY <2>1, <3>1, <3>2, SettleTyped
  <2>5. Alike({Menu[j].sym : j \in 1..(i - 1)}, g[i - 1], OnScreen(d))
    <3>1. SUFFICES ASSUME NEW j \in 1..(i - 1) PROVE g[i - 1][Menu[j].sym] = OnScreen(d)[Menu[j].sym]
      BY DEF Alike
    <3>2. j \in DOMAIN Menu /\ i - 1 \in j..Len(Menu) /\ Len(Menu) \in j..Len(Menu)
      BY EntriesAssumption
    <3> QED
      BY <1>1, <3>2, PassKeeps
  <2> QED
    BY <1>3, <2>1, <2>3, <2>4, <2>5, CalcAlike
<1> QED
  BY <1>3, <1>4 DEF Solves

(* Two sets of sayings that agree up to an entry give the same values up   *)
(* to it.                                                                  *)
LEMMA Agree ==
  ASSUME NEW d \in Defs, NEW e \in Defs, NEW v \in Valuations, NEW w \in Valuations,
         Solves(d, v), Solves(e, w), NEW m \in Nat,
         \A i \in DOMAIN Menu : i < m => Calc(Menu, d, Menu[i], v) = Calc(Menu, e, Menu[i], v)
  PROVE  \A i \in DOMAIN Menu : i < m => v[Menu[i].sym] = w[Menu[i].sym]
<1> DEFINE T == {i \in DOMAIN Menu : i < m /\ v[Menu[i].sym] # w[Menu[i].sym]}
<1>1. SUFFICES ASSUME T # {} PROVE FALSE
  OBVIOUS
<1>2. T \in SUBSET Nat
  BY EntriesAssumption
<1>3. PICK i \in T : \A j \in T : i <= j
  BY <1>1, <1>2, Least
<1>4. Alike({Menu[j].sym : j \in 1..(i - 1)}, v, w)
  <2>1. SUFFICES ASSUME NEW j \in 1..(i - 1) PROVE v[Menu[j].sym] = w[Menu[j].sym]
    BY DEF Alike
  <2>2. j \in DOMAIN Menu /\ j < i /\ j < m
    BY <1>3, EntriesAssumption
  <2>3. j \notin T
    BY <1>2, <1>3, <2>2
  <2> QED
    BY <2>2, <2>3
<1>5. Calc(Menu, e, Menu[i], v) = Calc(Menu, e, Menu[i], w)
  BY <1>3, <1>4, CalcAlike
<1>6. Calc(Menu, d, Menu[i], v) = Calc(Menu, e, Menu[i], v)
  BY <1>3
<1> QED
  BY <1>3, <1>5, <1>6 DEF Solves

(* Whatever solves what was said is what conf calculates.                  *)
LEMMA Unique ==
  ASSUME NEW d \in Defs, NEW v \in Valuations, Solves(d, v)
  PROVE  OnScreen(d) = v
<1>1. OnScreen(d) \in Valuations /\ Solves(d, OnScreen(d))
  BY Solved
<1>2. \A i \in DOMAIN Menu : i < Len(Menu) + 1 => v[Menu[i].sym] = OnScreen(d)[Menu[i].sym]
  <2>1. Len(Menu) + 1 \in Nat
    BY EntriesAssumption
  <2> QED
    BY <1>1, <2>1, Agree
<1>3. \A i \in DOMAIN Menu : i < Len(Menu) + 1
  BY EntriesAssumption
<1>4. \A s \in Named(Menu) : v[s] = OnScreen(d)[s]
  BY <1>2, <1>3 DEF Named
<1> QED
  BY <1>1, <1>4 DEF Valuations

(* The order sym_calc_value is called in does not matter: there is exactly *)
(* one valuation in which every symbol has the value it calculates from    *)
(* the others, and it is the one the entries give one after the other.     *)
THEOREM ValuesDetermined ==
  ASSUME NEW d \in Defs
  PROVE  /\ OnScreen(d) \in Valuations /\ Solves(d, OnScreen(d))
         /\ \A v \in Valuations : Solves(d, v) => v = OnScreen(d)
BY Solved, Unique

-----------------------------------------------------------------------------
(* Reading and writing.                                                    *)

LEMMA NamedEntry ==
  ASSUME NEW s \in Plain(Menu)
  PROVE  \E i \in DOMAIN Menu : /\ Menu[i].sym = s /\ Entry(Menu, s) = Menu[i]
                                /\ ~IsChoice(Menu, Menu[i].sym)
BY EntryOf DEF Plain

(* The members of a choice the file has on.                                *)
On(c, s) == {i \in Members(Menu, s) : c[Menu[i].sym] = "y"}

LEMMA ReadOf ==
  ASSUME NEW c, NEW s \in Named(Menu)
  PROVE  /\ s \in Plain(Menu) => Read(Menu, c)[s] = c[s]
         /\ IsChoice(Menu, s) =>
              Read(Menu, c)[s] = IF On(c, s) = {} THEN Absent ELSE Menu[Largest(On(c, s))].sym
BY DEF Read, Plain, On

LEMMA OnIsMember ==
  ASSUME NEW c, NEW s, On(c, s) # {}
  PROVE  Largest(On(c, s)) \in On(c, s)
<1>1. On(c, s) \in SUBSET (DOMAIN Menu)
  BY DEF Members, On
<1> QED
  BY <1>1, LargestIs

LEMMA ReadTyped ==
  ASSUME NEW c \in FileContents
  PROVE  Read(Menu, c) \in Defs
<1>1. ASSUME NEW s \in Named(Menu)
      PROVE  Read(Menu, c)[s] \in
               {Absent} \cup (IF IsChoice(Menu, s) THEN MemberSet(Menu, s) ELSE OfKind(s))
  <2>1. CASE IsChoice(Menu, s)
    <3>1. Read(Menu, c)[s] = IF On(c, s) = {} THEN Absent ELSE Menu[Largest(On(c, s))].sym
      BY <2>1, ReadOf
    <3>2. On(c, s) # {} => Largest(On(c, s)) \in Members(Menu, s)
      BY OnIsMember DEF On
    <3> QED
      BY <2>1, <3>1, <3>2 DEF MemberSet
  <2>2. CASE ~IsChoice(Menu, s)
    <3>1. s \in Plain(Menu)
      BY <2>2 DEF Plain
    <3>2. c[s] \in OfKind(s) \cup {Absent}
      BY <3>1 DEF FileContents
    <3> QED
      BY <2>2, <3>1, <3>2, ReadOf
  <2> QED
    BY <2>1, <2>2
<1>2. ASSUME NEW s \in Named(Menu)
      PROVE  Read(Menu, c)[s] \in Texts \cup Named(Menu) \cup {Absent}
  <2>1. MemberSet(Menu, s) \subseteq Named(Menu) /\ OfKind(s) \subseteq Texts
    BY DEF MemberSet, Members, Named, OfKind, Texts
  <2> QED
    BY <1>1, <2>1
<1>3. Read(Menu, c) = [s \in Named(Menu) |-> Read(Menu, c)[s]]
  BY DEF Read
<1>4. Read(Menu, c) \in [Named(Menu) -> Texts \cup Named(Menu) \cup {Absent}]
  BY <1>2, <1>3
<1> QED
  BY <1>1, <1>4 DEF Defs

(* Sayings without those about symbols nobody sees.                        *)
Visibly(d, v) ==
  [s \in Named(Menu) |->
     IF Entry(Menu, s).of = "none" /\ ~IsChoice(Menu, s) /\ ~Visible(Entry(Menu, s), v)
     THEN Absent ELSE d[s]]

LEMMA VisiblySame ==
  ASSUME NEW d \in Defs
  PROVE  Visibly(d, OnScreen(d)) \in Defs /\ OnScreen(Visibly(d, OnScreen(d))) = OnScreen(d)
<1> DEFINE v == OnScreen(d)
           e == Visibly(d, v)
<1>1. v \in Valuations /\ Solves(d, v)
  BY Solved
<1> HIDE DEF v
<1>2. e \in Defs
  BY DEF Defs, Visibly
<1>3. ASSUME NEW i \in DOMAIN Menu
      PROVE  Calc(Menu, d, Menu[i], v) = Calc(Menu, e, Menu[i], v)
  <2>1. Menu[i].sym \in Named(Menu) /\ Entry(Menu, Menu[i].sym) = Menu[i]
    BY EntryAt
  <2>2. e[Menu[i].sym] = d[Menu[i].sym] \/ ~Visible(Menu[i], v)
    BY <2>1 DEF Visibly
  <2>3. ASSUME Menu[i].of # "none"
        PROVE  e[Menu[i].of] = d[Menu[i].of]
    <3>1. PICK k \in DOMAIN Menu : Menu[k].sym = Menu[i].of /\ IsChoice(Menu, Menu[k].sym)
      BY <2>3, ChoiceOf
    <3> QED
      BY <3>1, EntryAt DEF Visibly
  <2> QED
    BY <2>2, <2>3, CalcSame
<1>4. Solves(e, v)
  BY <1>1, <1>3 DEF Solves
<1>5. OnScreen(e) = v
  BY <1>1, <1>2, <1>4, Unique
<1> QED
  BY <1>2, <1>5 DEF v

LEMMA ReadBackIs ==
  ASSUME NEW c
  PROVE  ReadBack(Menu, c) = IF Unsaved(Menu, Read(Menu, c)) THEN Read(Menu, c)
                             ELSE Visibly(Read(Menu, c), OnScreen(Read(Menu, c)))
BY DEF ReadBack, Unsaved, Visibly, OnScreen

LEMMA ReadBackSame ==
  ASSUME NEW c \in FileContents
  PROVE  ReadBack(Menu, c) \in Defs /\ OnScreen(ReadBack(Menu, c)) = OnScreen(Read(Menu, c))
BY ReadTyped, ReadBackIs, VisiblySame

Has(s, v) == s \in Plain(Menu) /\ IsWritten(Menu, Entry(Menu, s), v)

LEMMA WholeIs ==
  ASSUME NEW d
  PROVE  Whole(d) = [s \in Lines |-> IF Has(s, OnScreen(d)) THEN OnScreen(d)[s] ELSE Absent]
BY DEF Whole, Written, OnScreen, Has

LEMMA WholeTyped ==
  ASSUME NEW d \in Defs
  PROVE  Whole(d) \in FileContents
<1>1. OnScreen(d) \in Valuations
  BY Solved
<1>2. ASSUME NEW s \in Lines
      PROVE  /\ Whole(d)[s] \in Texts \cup {Absent}
             /\ s \in Plain(Menu) => Whole(d)[s] \in OfKind(s) \cup {Absent}
  BY <1>1, WholeIs DEF Has, Plain, Valuations
<1> QED
  BY <1>2, WholeIs, SessionAssumption DEF FileContents

LEMMA UnsavedIs ==
  ASSUME NEW d
  PROVE  ~Unsaved(Menu, d) <=>
           \A s \in Plain(Menu) : d[s] = IF Has(s, OnScreen(d)) THEN OnScreen(d)[s] ELSE Absent
BY DEF Unsaved, UnsavedAmong, OnScreen, Has

(* What conf finds nothing to write in is what it would write.             *)
LEMMA UnchangedIsWhole ==
  ASSUME NEW c \in FileContents, ~Changed(Menu, c)
  PROVE  c = Whole(ReadBack(Menu, c))
<1>1. ~Unsaved(Menu, Read(Menu, c)) /\ ~Warned(Menu, c)
  BY DEF Changed
<1> DEFINE v == OnScreen(Read(Menu, c))
<1>2. ASSUME NEW s \in Lines
      PROVE  c[s] = IF Has(s, v) THEN v[s] ELSE Absent
  <2>1. CASE s \in Plain(Menu)
    <3>1. s \in Named(Menu)
      BY <2>1 DEF Plain
    <3>2. Read(Menu, c)[s] = c[s]
      BY <2>1, <3>1, ReadOf
    <3> QED
      BY <1>1, <2>1, <3>2, UnsavedIs
  <2>2. CASE s \notin Plain(Menu)
    BY <1>1, <2>2 DEF Warned, FileContents, Has
  <2> QED
    BY <2>1, <2>2
<1>3. OnScreen(ReadBack(Menu, c)) = v
  BY ReadBackSame
<1> HIDE DEF v
<1>4. Whole(ReadBack(Menu, c)) = [s \in Lines |-> IF Has(s, v) THEN v[s] ELSE Absent]
  BY <1>3, WholeIs
<1> QED
  BY <1>2, <1>4 DEF FileContents

LEMMA PlainAt ==
  ASSUME NEW i \in DOMAIN Menu, ~IsChoice(Menu, Menu[i].sym)
  PROVE  Menu[i].sym \in Plain(Menu) /\ Menu[i].sym \in Lines
BY EntryAt, SessionAssumption DEF Plain

LEMMA HasAt ==
  ASSUME NEW i \in DOMAIN Menu, ~IsChoice(Menu, Menu[i].sym), NEW v
  PROVE  Has(Menu[i].sym, v)
           <=> Visible(Menu[i], v) \/ (Menu[i].of = "none" /\ HasDefault(Menu[i], v))
BY PlainAt, EntryAt DEF Has, IsWritten

(* The member that is 'y' is the only one.                                 *)
LEMMA OneIsOn ==
  ASSUME NEW d \in Defs, NEW v \in Valuations, Solves(d, v),
         NEW k \in DOMAIN Menu, NEW i \in Members(Menu, Menu[k].sym), Visible(Menu[i], v)
  PROVE  \E x \in Members(Menu, Menu[k].sym) :
           /\ Visible(Menu[x], v) /\ Chosen(Menu, d, Menu[k], v) = Menu[x].sym
           /\ \A m \in Members(Menu, Menu[k].sym) :
                v[Menu[m].sym] = IF m = x THEN "y" ELSE "n"
<1>1. IsChoice(Menu, Menu[k].sym)
  BY DEF IsChoice
<1>2. PICK x \in Members(Menu, Menu[k].sym) :
        Chosen(Menu, d, Menu[k], v) = Menu[x].sym /\ Visible(Menu[x], v)
  BY <1>1, ChosenIsVisible
<1>3. ASSUME NEW m \in Members(Menu, Menu[k].sym)
      PROVE  v[Menu[m].sym] = IF m = x THEN "y" ELSE "n"
  <2>1. m \in DOMAIN Menu /\ x \in DOMAIN Menu
    BY DEF Members
  <2>2. v[Menu[m].sym] = IF Visible(Menu[m], v)
                         THEN IfSo(Chosen(Menu, d, Menu[k], v) = Menu[m].sym) ELSE "n"
    BY <2>1, CalcOfMember DEF Solves
  <2>3. Menu[x].sym = Menu[m].sym <=> m = x
    BY <2>1, EntriesAssumption
  <2> QED
    BY <1>2, <2>2, <2>3 DEF IfSo
<1> QED
  BY <1>2, <1>3

(* Of a choice with a member on show exactly one member is on, one that is *)
(* on show, whatever the user and the file said (sym_calc_choice).         *)
THEOREM OneMemberIsOn ==
  ASSUME NEW d \in Defs, NEW k \in DOMAIN Menu, NEW i \in Members(Menu, Menu[k].sym),
         Visible(Menu[i], OnScreen(d))
  PROVE  \E x \in Members(Menu, Menu[k].sym) :
           /\ Visible(Menu[x], OnScreen(d))
           /\ \A m \in Members(Menu, Menu[k].sym) :
                OnScreen(d)[Menu[m].sym] = IF m = x THEN "y" ELSE "n"
<1>1. OnScreen(d) \in Valuations /\ Solves(d, OnScreen(d))
  BY Solved
<1> QED
  BY <1>1, OneIsOn

(* A file that says of the visible symbols what they have, or nothing when *)
(* they have it anyhow, gives all symbols the values they have.            *)
SaysAsMuch(c, v) ==
  /\ \A i \in DOMAIN Menu :
       Menu[i].of = "none" /\ ~IsChoice(Menu, Menu[i].sym) /\ Visible(Menu[i], v) =>
         \/ c[Menu[i].sym] = v[Menu[i].sym]
         \/ c[Menu[i].sym] = Absent /\ v[Menu[i].sym] = DefaultValue(Menu[i], v)
  /\ \A i \in DOMAIN Menu :
       Menu[i].of # "none" =>
         /\ c[Menu[i].sym] = "y" => Visible(Menu[i], v) /\ v[Menu[i].sym] = "y"
         /\ Visible(Menu[i], v) /\ v[Menu[i].sym] = "y" /\ c[Menu[i].sym] # "y" =>
              ChoiceDefault(Menu, Entry(Menu, Menu[i].of), v) = Menu[i].sym

LEMMA ReadChosen ==
  ASSUME NEW d \in Defs, NEW v \in Valuations, Solves(d, v), NEW c, SaysAsMuch(c, v),
         NEW k \in DOMAIN Menu, NEW i \in Members(Menu, Menu[k].sym), Visible(Menu[i], v)
  PROVE  Chosen(Menu, Read(Menu, c), Menu[k], v) = Chosen(Menu, d, Menu[k], v)
<1> DEFINE on == On(c, Menu[k].sym)
           r  == Read(Menu, c)
<1>1. Menu[k].sym \in Named(Menu) /\ IsChoice(Menu, Menu[k].sym) /\ Entry(Menu, Menu[k].sym) = Menu[k]
  BY EntryAt DEF IsChoice
<1>2. PICK x \in Members(Menu, Menu[k].sym) :
           /\ Visible(Menu[x], v) /\ Chosen(Menu, d, Menu[k], v) = Menu[x].sym
           /\ \A m \in Members(Menu, Menu[k].sym) :
                v[Menu[m].sym] = IF m = x THEN "y" ELSE "n"
  BY OneIsOn
<1>3. x \in DOMAIN Menu /\ Menu[x].of = Menu[k].sym /\ Menu[x].of # "none"
  BY MemberIsPlain
<1>4. on \subseteq {x}
  <2>1. SUFFICES ASSUME NEW m \in on PROVE m = x
    OBVIOUS
  <2>2. m \in Members(Menu, Menu[k].sym) /\ c[Menu[m].sym] = "y"
    BY DEF On
  <2>3. m \in DOMAIN Menu /\ Menu[m].of # "none"
    BY <2>2, MemberIsPlain
  <2>4. v[Menu[m].sym] = "y"
    BY <2>2, <2>3 DEF SaysAsMuch
  <2> QED
    BY <1>2, <2>2, <2>4
<1>5. r[Menu[k].sym] = IF on = {} THEN Absent ELSE Menu[Largest(on)].sym
  BY <1>1, ReadOf
<1>6. CASE on = {}
  <2>1. c[Menu[x].sym] # "y"
    BY <1>6 DEF On
  <2>2. ChoiceDefault(Menu, Menu[k], v) = Menu[x].sym
    BY <1>1, <1>2, <1>3, <2>1 DEF SaysAsMuch
  <2>3. r[Menu[k].sym] = Absent
    BY <1>5, <1>6
  <2> QED
    BY <1>2, <2>2, <2>3 DEF Chosen
<1>7. CASE on # {}
  <2>1. Largest(on) = x
    BY <1>4, <1>7, OnIsMember
  <2>2. r[Menu[k].sym] = Menu[x].sym
    BY <1>5, <1>7, <2>1
  <2>3. Menu[x].sym # Absent /\ Entry(Menu, Menu[x].sym) = Menu[x]
    BY <1>3, EntryAt, EntriesAssumption
  <2> QED
    BY <1>2, <2>2, <2>3 DEF Chosen
<1> QED
  BY <1>6, <1>7

LEMMA ReadSolves ==
  ASSUME NEW d \in Defs, NEW c \in FileContents, SaysAsMuch(c, OnScreen(d))
  PROVE  OnScreen(Read(Menu, c)) = OnScreen(d)
<1> DEFINE v == OnScreen(d)
           r == Read(Menu, c)
<1>1. v \in Valuations /\ Solves(d, v)
  BY Solved
<1>2. SaysAsMuch(c, v)
  OBVIOUS
<1> HIDE DEF v
<1>3. ASSUME NEW i \in DOMAIN Menu
      PROVE  Calc(Menu, r, Menu[i], v) = v[Menu[i].sym]
  <2>1. v[Menu[i].sym] = Calc(Menu, d, Menu[i], v)
    BY <1>1 DEF Solves
  <2>2. CASE IsChoice(Menu, Menu[i].sym)
    BY <2>1, <2>2, CalcOfChoice
  <2>3. ASSUME NEW k \in DOMAIN Menu, i \in Members(Menu, Menu[k].sym)
        PROVE  Calc(Menu, r, Menu[i], v) = v[Menu[i].sym]
    <3>1. CASE ~Visible(Menu[i], v)
      BY <2>1, <2>3, <3>1, CalcOfMember
    <3>2. CASE Visible(Menu[i], v)
      <4>1. Chosen(Menu, r, Menu[k], v) = Chosen(Menu, d, Menu[k], v)
        BY <1>1, <1>2, <2>3, <3>2, ReadChosen
      <4> QED
        BY <2>1, <2>3, <4>1, CalcOfMember
    <3> QED
      BY <3>1, <3>2
  <2>4. CASE Menu[i].of = "none" /\ ~IsChoice(Menu, Menu[i].sym)
    <3>1. CASE ~Visible(Menu[i], v)
      BY <2>1, <2>4, <3>1, CalcOfOther
    <3>2. CASE Visible(Menu[i], v)
      <4>1. \/ c[Menu[i].sym] = v[Menu[i].sym]
            \/ c[Menu[i].sym] = Absent /\ v[Menu[i].sym] = DefaultValue(Menu[i], v)
        BY <1>2, <2>4, <3>2 DEF SaysAsMuch
      <4>2. r[Menu[i].sym] = c[Menu[i].sym]
        BY <2>4, EntryAt, PlainAt, ReadOf
      <4>3. Calc(Menu, r, Menu[i], v) = IF r[Menu[i].sym] # Absent THEN r[Menu[i].sym]
                                        ELSE DefaultValue(Menu[i], v)
        BY <2>4, <3>2, CalcOfOther
      <4>4. v[Menu[i].sym] # Absent
        <5>1. v[Menu[i].sym] \in Texts
          BY <1>1, EntryAt DEF Valuations
        <5> QED
          BY <5>1, SessionAssumption DEF Texts, Absent
      <4> QED
        BY <4>1, <4>2, <4>3, <4>4
    <3> QED
      BY <3>1, <3>2
  <2> QED
    BY <2>2, <2>3, <2>4, ThreeKinds
<1>4. r \in Defs
  BY ReadTyped
<1>5. Solves(r, v)
  BY <1>3 DEF Solves
<1>6. OnScreen(r) = v
  BY <1>1, <1>4, <1>5, Unique
<1> QED
  BY <1>6 DEF v

LEMMA WholeDepends ==
  ASSUME NEW d, NEW e, OnScreen(d) = OnScreen(e)
  PROVE  Whole(d) = Whole(e)
BY WholeIs

LEMMA WholeAt ==
  ASSUME NEW d \in Defs, NEW i \in DOMAIN Menu, ~IsChoice(Menu, Menu[i].sym)
  PROVE  Whole(d)[Menu[i].sym] = IF Has(Menu[i].sym, OnScreen(d)) THEN OnScreen(d)[Menu[i].sym]
                                 ELSE Absent
BY PlainAt, WholeIs

LEMMA WholeSays ==
  ASSUME NEW d \in Defs
  PROVE  SaysAsMuch(Whole(d), OnScreen(d))
<1> DEFINE v == OnScreen(d)
<1>1. ASSUME NEW i \in DOMAIN Menu, Menu[i].of = "none", ~IsChoice(Menu, Menu[i].sym),
             Visible(Menu[i], v)
      PROVE  Whole(d)[Menu[i].sym] = v[Menu[i].sym]
  BY <1>1, WholeAt, HasAt
<1>2. ASSUME NEW i \in DOMAIN Menu, Menu[i].of # "none"
      PROVE  Whole(d)[Menu[i].sym] = IF Visible(Menu[i], v) THEN v[Menu[i].sym] ELSE Absent
  <2>1. ~IsChoice(Menu, Menu[i].sym)
    BY <1>2, EntriesAssumption
  <2> QED
    BY <1>2, <2>1, WholeAt, HasAt
<1>3. Absent # "y"
  BY DEF Absent
<1> HIDE DEF v
<1>4. SaysAsMuch(Whole(d), v)
  BY <1>1, <1>2, <1>3 DEF SaysAsMuch
<1> QED
  BY <1>4 DEF v

LEMMA WholeUnwarned ==
  ASSUME NEW d \in Defs
  PROVE  ~Warned(Menu, Whole(d))
<1> DEFINE v == OnScreen(d)
<1>1. v \in Valuations /\ Solves(d, v)
  BY Solved
<1>2. SaysAsMuch(Whole(d), v)
  BY WholeSays
<1>3. ASSUME NEW s \in DOMAIN Whole(d) \ Plain(Menu)
      PROVE  Whole(d)[s] = Absent
  BY WholeIs DEF Has
<1> HIDE DEF v
<1>4. ASSUME NEW s \in Named(Menu), NEW x \in MemberSet(Menu, s), NEW y \in MemberSet(Menu, s),
             Whole(d)[x] = "y", Whole(d)[y] = "y"
      PROVE  x = y
  <2>1. PICK k \in DOMAIN Menu : Menu[k].sym = s
    BY DEF Named
  <2>2. PICK i \in Members(Menu, Menu[k].sym), j \in Members(Menu, Menu[k].sym) :
          x = Menu[i].sym /\ y = Menu[j].sym
    BY <2>1 DEF MemberSet
  <2>3. i \in DOMAIN Menu /\ j \in DOMAIN Menu /\ Menu[i].of # "none" /\ Menu[j].of # "none"
    BY MemberIsPlain
  <2>4. Visible(Menu[i], v) /\ v[Menu[i].sym] = "y" /\ v[Menu[j].sym] = "y"
    BY <1>2, <1>4, <2>2, <2>3 DEF SaysAsMuch
  <2>5. PICK z \in Members(Menu, Menu[k].sym) :
          \A m \in Members(Menu, Menu[k].sym) : v[Menu[m].sym] = IF m = z THEN "y" ELSE "n"
    BY <1>1, <2>4, OneIsOn
  <2> QED
    BY <2>2, <2>4, <2>5
<1> QED
  BY <1>3, <1>4 DEF Warned

(* What has been written is read back with the values it had, nothing is   *)
(* found to write again and no question is asked.                          *)
THEOREM WholeReadsBack ==
  ASSUME NEW d \in Defs
  PROVE  /\ ReadBack(Menu, Whole(d)) \in Defs
         /\ OnScreen(ReadBack(Menu, Whole(d))) = OnScreen(d)
         /\ Whole(ReadBack(Menu, Whole(d))) = Whole(d)
         /\ ~Changed(Menu, Whole(d))
         /\ NothingNew(Menu, ReadBack(Menu, Whole(d)))
<1> DEFINE v == OnScreen(d)
           r == Read(Menu, Whole(d))
<1>1. Whole(d) \in FileContents /\ r \in Defs
  BY WholeTyped, ReadTyped
<1>2. OnScreen(r) = v
  BY <1>1, WholeSays, ReadSolves
<1>3. ASSUME NEW s \in Plain(Menu)
      PROVE  r[s] = IF Has(s, v) THEN v[s] ELSE Absent
  <2>1. s \in Lines /\ s \in Named(Menu)
    BY SessionAssumption DEF Plain
  <2> QED
    BY <2>1, ReadOf, WholeIs
<1>4. ~Unsaved(Menu, r)
  BY <1>2, <1>3, UnsavedIs
<1>5. ~Changed(Menu, Whole(d))
  BY <1>4, WholeUnwarned DEF Changed
<1>6. ReadBack(Menu, Whole(d)) = Visibly(r, v)
  BY <1>2, <1>4, ReadBackIs
<1>7. ReadBack(Menu, Whole(d)) \in Defs /\ OnScreen(ReadBack(Menu, Whole(d))) = v
  BY <1>1, <1>2, <1>6, VisiblySame
<1>8. v \in Valuations
  BY Solved
<1> HIDE DEF v, r
<1>9. ASSUME NEW i \in DOMAIN Menu, ~IsChoice(Menu, Menu[i].sym), Visible(Menu[i], v)
      PROVE  Visibly(r, v)[Menu[i].sym] # Absent
  <2>1. Menu[i].sym \in Named(Menu) /\ Entry(Menu, Menu[i].sym) = Menu[i]
    BY EntryAt
  <2>2. Visibly(r, v)[Menu[i].sym] = r[Menu[i].sym]
    BY <1>9, <2>1 DEF Visibly
  <2>3. r[Menu[i].sym] = v[Menu[i].sym]
    BY <1>3, <1>9, PlainAt, HasAt
  <2>4. v[Menu[i].sym] \in Texts
    BY <1>8, <2>1 DEF Valuations
  <2> QED
    BY <2>2, <2>3, <2>4, SessionAssumption DEF Texts, Absent
<1>10. ASSUME NEW i \in DOMAIN Menu
       PROVE  ~IsNew(Menu, Visibly(r, v), Menu[i], v)
  <2>1. CASE IsChoice(Menu, Menu[i].sym)
    <3>1. ASSUME NEW x \in MemberSet(Menu, Menu[i].sym), Visible(Entry(Menu, x), v)
          PROVE  Visibly(r, v)[x] # Absent
      <4>1. PICK m \in Members(Menu, Menu[i].sym) : x = Menu[m].sym
        BY DEF MemberSet
      <4>2. m \in DOMAIN Menu /\ ~IsChoice(Menu, Menu[m].sym) /\ Entry(Menu, x) = Menu[m]
        BY <4>1, MemberIsPlain, EntryAt
      <4> QED
        BY <1>9, <3>1, <4>1, <4>2
    <3> QED
      BY <2>1, <3>1 DEF IsNew
  <2>2. CASE ~IsChoice(Menu, Menu[i].sym)
    BY <1>9, <2>2 DEF IsNew
  <2> QED
    BY <2>1, <2>2
<1>11. NothingNew(Menu, ReadBack(Menu, Whole(d)))
  <2>1. Calculated(Menu, Visibly(r, v)) = v
    BY <1>6, <1>7 DEF OnScreen
  <2> QED
    BY <1>6, <1>10, <2>1 DEF NothingNew
<1>12. Whole(ReadBack(Menu, Whole(d))) = Whole(d)
  BY <1>7, WholeDepends DEF v
<1> QED
  BY <1>5, <1>7, <1>11, <1>12 DEF v

-----------------------------------------------------------------------------
(* The minimal file.                                                       *)

LEMMA MinimalIs ==
  ASSUME NEW d
  PROVE  Minimal(d) = [s \in Lines |-> IF Has(s, OnScreen(d)) /\ ~Redundant(Entry(Menu, s), OnScreen(d))
                                       THEN OnScreen(d)[s] ELSE Absent]
BY DEF Minimal, Has

LEMMA MinimalTyped ==
  ASSUME NEW d \in Defs
  PROVE  Minimal(d) \in FileContents
<1>1. OnScreen(d) \in Valuations
  BY Solved
<1>2. ASSUME NEW s \in Lines
      PROVE  /\ Minimal(d)[s] \in Texts \cup {Absent}
             /\ s \in Plain(Menu) => Minimal(d)[s] \in OfKind(s) \cup {Absent}
  BY <1>1, MinimalIs DEF Has, Plain, Valuations
<1> QED
  BY <1>2, MinimalIs, SessionAssumption DEF FileContents

(* conf_write_defconfig and sym_calc_value agree on what a default is.     *)
LEMMA DefaultsAgree ==
  ASSUME NEW e, NEW v
  PROVE  DefaultOf(e, v) = DefaultValue(e, v)
BY DEF DefaultOf, DefaultValue, EmptyOf, IfSo

LEMMA MinimalSays ==
  ASSUME NEW d \in Defs
  PROVE  SaysAsMuch(Minimal(d), OnScreen(d))
<1> DEFINE v == OnScreen(d)
           c == Minimal(d)
<1>1. ASSUME NEW i \in DOMAIN Menu, ~IsChoice(Menu, Menu[i].sym)
      PROVE  c[Menu[i].sym] = IF Has(Menu[i].sym, v) /\ ~Redundant(Menu[i], v)
                              THEN v[Menu[i].sym] ELSE Absent
  BY <1>1, MinimalIs, PlainAt, EntryAt
<1>2. Absent # "y"
  BY DEF Absent
<1> HIDE DEF v, c
<1>3. ASSUME NEW i \in DOMAIN Menu, Menu[i].of = "none", ~IsChoice(Menu, Menu[i].sym),
             Visible(Menu[i], v)
      PROVE  \/ c[Menu[i].sym] = v[Menu[i].sym]
             \/ c[Menu[i].sym] = Absent /\ v[Menu[i].sym] = DefaultValue(Menu[i], v)
  BY <1>1, <1>3, HasAt, DefaultsAgree DEF Redundant
<1>4. ASSUME NEW i \in DOMAIN Menu, Menu[i].of # "none"
      PROVE  /\ c[Menu[i].sym] = "y" => Visible(Menu[i], v) /\ v[Menu[i].sym] = "y"
             /\ Visible(Menu[i], v) /\ v[Menu[i].sym] = "y" /\ c[Menu[i].sym] # "y" =>
                  ChoiceDefault(Menu, Entry(Menu, Menu[i].of), v) = Menu[i].sym
  <2>1. ~IsChoice(Menu, Menu[i].sym) /\ Menu[i].default = Nothing /\ Kind[Menu[i].sym] # "string"
    BY <1>4, EntriesAssumption
  <2>2. Has(Menu[i].sym, v) <=> Visible(Menu[i], v)
    BY <1>4, <2>1, HasAt
  <2>3. DefaultOf(Menu[i], v) = "n"
    BY <2>1 DEF DefaultOf, HasDefault, IfSo
  <2>4. c[Menu[i].sym] = IF Visible(Menu[i], v) /\ ~Redundant(Menu[i], v)
                         THEN v[Menu[i].sym] ELSE Absent
    BY <1>1, <2>1, <2>2
  <2> QED
    BY <1>2, <2>3, <2>4 DEF Redundant
<1>5. SaysAsMuch(c, v)
  BY <1>3, <1>4 DEF SaysAsMuch
<1> QED
  BY <1>5 DEF v, c

(* Nothing is lost by leaving the redundant lines out.                     *)
LEMMA MinimalReadsBack ==
  ASSUME NEW d \in Defs
  PROVE  /\ ReadBack(Menu, Minimal(d)) \in Defs
         /\ OnScreen(ReadBack(Menu, Minimal(d))) = OnScreen(d)
         /\ Whole(ReadBack(Menu, Minimal(d))) = Whole(d)
<1>1. OnScreen(Read(Menu, Minimal(d))) = OnScreen(d)
  BY MinimalTyped, MinimalSays, ReadSolves
<1>2. /\ ReadBack(Menu, Minimal(d)) \in Defs
      /\ OnScreen(ReadBack(Menu, Minimal(d))) = OnScreen(d)
  BY <1>1, MinimalTyped, ReadBackSame
<1> QED
  BY <1>2, WholeIs

-----------------------------------------------------------------------------
(* Settings.                                                               *)

LEMMA ChoiceAndMembers ==
  ASSUME NEW j \in DOMAIN Menu, Menu[j].of # "none", NEW i \in DOMAIN Menu,
         ~IsChoice(Menu, Menu[i].sym)
  PROVE  Menu[j].of # Menu[i].sym /\ Menu[j].of \in Named(Menu) /\ IsChoice(Menu, Menu[j].of)
BY ChoiceOf, EntryAt

(* What is said of a symbol that is on show is its value, and of the       *)
(* symbols before it nothing changes.                                      *)
LEMMA SetPlain ==
  ASSUME NEW d \in Defs, NEW i \in DOMAIN Menu, Menu[i].of = "none",
         ~IsChoice(Menu, Menu[i].sym), Visible(Menu[i], OnScreen(d)),
         NEW val \in OfKind(Menu[i].sym)
  PROVE  LET e == [d EXCEPT ![Menu[i].sym] = val]
         IN  /\ e \in Defs
             /\ OnScreen(e)[Menu[i].sym] = val
             /\ OnScreen(d)[Menu[i].sym] = val => OnScreen(e) = OnScreen(d)
<1> DEFINE e == [d EXCEPT ![Menu[i].sym] = val]
           v == OnScreen(d)
           w == OnScreen(e)
<1>1. Menu[i].sym \in Named(Menu) /\ val # Absent /\ val \in Texts
  BY EntryAt, SessionAssumption DEF OfKind, Texts, Absent
<1>2. e \in Defs /\ e[Menu[i].sym] = val
  BY <1>1 DEF Defs
<1>3. \A s \in Named(Menu) : s # Menu[i].sym => e[s] = d[s]
  BY <1>1 DEF Defs
<1>4. /\ v \in Valuations /\ Solves(d, v) /\ Visible(Menu[i], v)
      /\ w \in Valuations /\ Solves(e, w)
  BY <1>2, Solved
<1> HIDE DEF e, v, w
<1>5. ASSUME NEW j \in DOMAIN Menu, j # i
      PROVE  Calc(Menu, d, Menu[j], v) = Calc(Menu, e, Menu[j], v)
  <2>1. Menu[j].sym \in Named(Menu) /\ Menu[j].sym # Menu[i].sym
    BY <1>5, EntryAt, EntriesAssumption
  <2>2. Menu[j].of # "none" => d[Menu[j].of] = e[Menu[j].of]
    BY <1>3, ChoiceAndMembers
  <2> QED
    BY <1>3, <2>1, <2>2, CalcSame
<1>6. w[Menu[i].sym] = val
  <2>1. i \in Nat
    BY EntriesAssumption
  <2>2. \A j \in DOMAIN Menu : j < i => Calc(Menu, d, Menu[j], v) = Calc(Menu, e, Menu[j], v)
    BY <1>5, <2>1
  <2>3. \A j \in DOMAIN Menu : j < i => v[Menu[j].sym] = w[Menu[j].sym]
    BY <1>2, <1>4, <2>1, <2>2, Agree
  <2>4. \A j \in 1..(i - 1) : j \in DOMAIN Menu /\ j < i
    BY EntriesAssumption
  <2>5. Alike(Scope(i), v, w)
    BY <2>3, <2>4 DEF Alike, Scope
  <2>6. Visible(Menu[i], w)
    BY <1>4, <2>5, SeenAlike
  <2>7. w[Menu[i].sym] = Calc(Menu, e, Menu[i], w)
    BY <1>4 DEF Solves
  <2> QED
    BY <1>1, <1>2, <2>6, <2>7, CalcOfOther
<1>7. ASSUME v[Menu[i].sym] = val
      PROVE  w = v
  <2>1. Calc(Menu, e, Menu[i], v) = val
    BY <1>1, <1>2, <1>4, CalcOfOther
  <2>2. Solves(e, v)
    BY <1>4, <1>5, <1>7, <2>1 DEF Solves
  <2>3. OnScreen(e) = v
    BY <1>2, <1>4, <2>2, Unique
  <2> QED
    BY <2>3 DEF w
<1> QED
  BY <1>2, <1>6, <1>7 DEF e, v, w

(* Of a member of a choice it does not matter what is said.                *)
LEMMA SetOff ==
  ASSUME NEW d \in Defs, NEW i \in DOMAIN Menu, Menu[i].of # "none",
         NEW val \in OfKind(Menu[i].sym)
  PROVE  LET e == [d EXCEPT ![Menu[i].sym] = val]
         IN  e \in Defs /\ OnScreen(e) = OnScreen(d)
<1> DEFINE e == [d EXCEPT ![Menu[i].sym] = val]
           v == OnScreen(d)
<1>1. Menu[i].sym \in Named(Menu) /\ val \in Texts /\ ~IsChoice(Menu, Menu[i].sym)
  BY EntryAt, EntriesAssumption DEF OfKind, Texts
<1>2. e \in Defs
  BY <1>1 DEF Defs
<1>3. \A s \in Named(Menu) : s # Menu[i].sym => e[s] = d[s]
  BY <1>1 DEF Defs
<1>4. v \in Valuations /\ Solves(d, v)
  BY Solved
<1> HIDE DEF e, v
<1>5. ASSUME NEW j \in DOMAIN Menu
      PROVE  Calc(Menu, d, Menu[j], v) = Calc(Menu, e, Menu[j], v)
  <2>1. Menu[j].of = "none" => d[Menu[j].sym] = e[Menu[j].sym]
    BY <1>3, EntryAt, EntriesAssumption
  <2>2. Menu[j].of # "none" => d[Menu[j].of] = e[Menu[j].of]
    BY <1>1, <1>3, ChoiceAndMembers
  <2> QED
    BY <2>1, <2>2, CalcSame
<1>6. Solves(e, v)
  BY <1>4, <1>5 DEF Solves
<1>7. OnScreen(e) = v
  BY <1>2, <1>4, <1>6, Unique
<1> QED
  BY <1>2, <1>7 DEF e, v

LEMMA ChoseIs ==
  ASSUME NEW d \in Defs, NEW k \in DOMAIN Menu, NEW i \in Members(Menu, Menu[k].sym), NEW v,
         NEW e, e = Chose(Menu, d, Menu[i], v)
  PROVE  /\ e \in Defs
         /\ e[Menu[k].sym] = Menu[i].sym
         /\ \A s \in Named(Menu) \ {Menu[k].sym} : s \notin MemberSet(Menu, Menu[k].sym) => e[s] = d[s]
         /\ \A m \in Members(Menu, Menu[k].sym) : Visible(Menu[m], v) => e[Menu[m].sym] # Absent
<1> DEFINE c == Menu[k].sym
<1>1. /\ i \in DOMAIN Menu /\ Menu[i].of = c /\ Menu[i].sym \in MemberSet(Menu, c)
      /\ c \in Named(Menu) /\ IsChoice(Menu, c)
  BY MemberIsPlain, EntryAt DEF MemberSet, IsChoice
<1>2. ASSUME NEW s \in MemberSet(Menu, c)
      PROVE  s \in Named(Menu) /\ s # c /\ ~IsChoice(Menu, s) /\ OfKind(s) = {"y", "n"}
  <2>1. PICK m \in Members(Menu, Menu[k].sym) : s = Menu[m].sym
    BY DEF MemberSet
  <2>2. m \in DOMAIN Menu /\ ~IsChoice(Menu, s) /\ Kind[s] # "string"
    BY <2>1, MemberIsPlain
  <2> QED
    BY <1>1, <2>1, <2>2, EntryAt DEF OfKind
<1>3. /\ e[c] = Menu[i].sym
      /\ \A s \in MemberSet(Menu, c) : e[s] \in {"y", "n", d[s]}
      /\ \A s \in MemberSet(Menu, c) : Visible(Entry(Menu, s), v) => e[s] # Absent
      /\ \A s \in Named(Menu) \ {c} : s \notin MemberSet(Menu, c) => e[s] = d[s]
  BY <1>1, <1>2 DEF Chose, Absent
<1>4. DOMAIN e = Named(Menu) /\ e = [s \in Named(Menu) |-> e[s]]
  BY DEF Chose
<1> HIDE DEF c
<1>5. ASSUME NEW s \in Named(Menu)
      PROVE  /\ e[s] \in {Absent} \cup (IF IsChoice(Menu, s) THEN MemberSet(Menu, s) ELSE OfKind(s))
             /\ e[s] \in Texts \cup Named(Menu) \cup {Absent}
  <2>1. /\ d[s] \in {Absent} \cup (IF IsChoice(Menu, s) THEN MemberSet(Menu, s) ELSE OfKind(s))
        /\ d[s] \in Texts \cup Named(Menu) \cup {Absent}
    BY DEF Defs
  <2>2. CASE s = c
    BY <1>1, <1>2, <1>3, <2>2
  <2>3. CASE s \in MemberSet(Menu, c)
    BY <1>2, <1>3, <2>1, <2>3 DEF Texts
  <2>4. CASE s # c /\ s \notin MemberSet(Menu, c)
    BY <1>3, <2>1, <2>4
  <2> QED
    BY <2>2, <2>3, <2>4
<1>6. e \in Defs
  BY <1>4, <1>5 DEF Defs
<1>7. ASSUME NEW m \in Members(Menu, Menu[k].sym), Visible(Menu[m], v)
      PROVE  e[Menu[m].sym] # Absent
  <2>1. Menu[m].sym \in MemberSet(Menu, c) /\ Entry(Menu, Menu[m].sym) = Menu[m]
    BY MemberIsPlain, EntryAt DEF MemberSet, c
  <2> QED
    BY <1>3, <1>7, <2>1
<1> QED
  BY <1>3, <1>6, <1>7 DEF c

(* A member that is switched on is the one its choice has.                 *)
LEMMA SetOn ==
  ASSUME NEW d \in Defs, NEW k \in DOMAIN Menu, NEW i \in Members(Menu, Menu[k].sym),
         Visible(Menu[i], OnScreen(d)), NEW e, e = Chose(Menu, d, Menu[i], OnScreen(d))
  PROVE  /\ e \in Defs
         /\ \A m \in Members(Menu, Menu[k].sym) :
              OnScreen(e)[Menu[m].sym] = IF m = i THEN "y" ELSE "n"
         /\ OnScreen(d)[Menu[i].sym] = "y" => OnScreen(e) = OnScreen(d)
<1> DEFINE v == OnScreen(d)
           w == OnScreen(e)
<1>1. /\ e \in Defs /\ e[Menu[k].sym] = Menu[i].sym
      /\ \A s \in Named(Menu) \ {Menu[k].sym} : s \notin MemberSet(Menu, Menu[k].sym) => e[s] = d[s]
  <2>1. e = Chose(Menu, d, Menu[i], v)
    OBVIOUS
  <2> HIDE DEF v
  <2> QED
    BY ONLY <2>1, ChoseIs, d \in Defs, k \in DOMAIN Menu, i \in Members(Menu, Menu[k].sym)
<1>2. /\ v \in Valuations /\ Solves(d, v) /\ Visible(Menu[i], v)
      /\ w \in Valuations /\ Solves(e, w)
  BY <1>1, Solved
<1>3. /\ i \in DOMAIN Menu /\ Menu[i].of = Menu[k].sym /\ Menu[i].of # "none"
      /\ IsChoice(Menu, Menu[k].sym) /\ Menu[k].sym \in Named(Menu) /\ Menu[k].of = "none"
      /\ Entry(Menu, Menu[i].sym) = Menu[i] /\ Menu[i].sym \in Named(Menu) /\ Menu[i].sym # Absent
  BY MemberIsPlain, EntryAt, ChoiceIsNoMember, EntriesAssumption DEF IsChoice
<1>4. ASSUME NEW s \in MemberSet(Menu, Menu[k].sym)
      PROVE  \E m \in DOMAIN Menu : s = Menu[m].sym /\ Menu[m].of # "none" /\ ~IsChoice(Menu, s)
  BY MemberIsPlain DEF MemberSet
<1> HIDE DEF v, w
<1>5. ASSUME NEW j \in DOMAIN Menu, j \notin Members(Menu, Menu[k].sym)
      PROVE  Calc(Menu, d, Menu[j], v) = Calc(Menu, e, Menu[j], v)
  <2>1. ASSUME Menu[j].of = "none", ~IsChoice(Menu, Menu[j].sym)
        PROVE  d[Menu[j].sym] = e[Menu[j].sym]
    <3>1. Menu[j].sym \notin MemberSet(Menu, Menu[k].sym)
      BY <1>4, <2>1, EntriesAssumption
    <3>2. Menu[j].sym # Menu[k].sym /\ Menu[j].sym \in Named(Menu)
      BY <1>3, <2>1, EntryAt
    <3> QED
      BY <1>1, <3>1, <3>2
  <2>2. ASSUME Menu[j].of # "none"
        PROVE  d[Menu[j].of] = e[Menu[j].of]
    <3>1. Menu[j].of # Menu[k].sym
      BY <1>5 DEF Members
    <3>2. Menu[j].of \in Named(Menu) /\ IsChoice(Menu, Menu[j].of)
      BY <2>2, ChoiceOf, EntryAt
    <3>3. Menu[j].of \notin MemberSet(Menu, Menu[k].sym)
      BY <1>4, <3>2
    <3> QED
      BY <1>1, <3>1, <3>2, <3>3
  <2>3. Menu[j].of = "none" /\ ~IsChoice(Menu, Menu[j].sym) =>
          d[Menu[j].sym] = e[Menu[j].sym] \/ ~Visible(Menu[j], v)
    BY <2>1
  <2>4. Menu[j].of # "none" => d[Menu[j].of] = e[Menu[j].of]
    BY <2>2
  <2> QED
    BY <2>3, <2>4, CalcSame
<1>6. \A u \in {v, w} : Visible(Menu[i], u) => Chosen(Menu, e, Menu[k], u) = Menu[i].sym
  BY <1>1, <1>3 DEF Chosen
<1>7. Visible(Menu[i], w)
  <2>1. k \in Nat
    BY EntriesAssumption
  <2>2. ASSUME NEW j \in DOMAIN Menu, j < k
        PROVE  j \notin Members(Menu, Menu[k].sym)
    <3>1. SUFFICES ASSUME j \in Members(Menu, Menu[k].sym) PROVE FALSE
      OBVIOUS
    <3>2. Menu[j].of # "none" /\ Menu[j].of = Menu[k].sym
      BY <3>1, MemberIsPlain
    <3>3. PICK l \in 1..(j - 1) : l \in DOMAIN Menu /\ Menu[l].sym = Menu[j].of
      BY <3>2, ChoiceOf
    <3>4. l = k
      BY <3>2, <3>3, EntriesAssumption
    <3> QED
      BY <2>2, <3>3, <3>4, EntriesAssumption
  <2>3. \A j \in DOMAIN Menu : j < k => v[Menu[j].sym] = w[Menu[j].sym]
    BY <1>1, <1>2, <1>5, <2>1, <2>2, Agree
  <2>4. \A j \in 1..(k - 1) : j \in DOMAIN Menu /\ j < k
    BY EntriesAssumption
  <2>5. Alike(Scope(k), v, w)
    BY <1>3, <2>3, <2>4 DEF Alike, Scope
  <2>6. Visible(Menu[k], v) <=> Visible(Menu[k], w)
    BY <1>2, <2>5, SeenAlike
  <2>7. v[Menu[k].sym] = IfSo(Visible(Menu[k], v)) /\ w[Menu[k].sym] = IfSo(Visible(Menu[k], w))
    BY <1>2, <1>3, CalcOfChoice DEF Solves
  <2>8. v[Menu[k].sym] = w[Menu[k].sym]
    BY <2>6, <2>7 DEF IfSo
  <2>9. Alike(Scope(i), v, w)
    BY <1>3, <2>8 DEF Alike, Scope
  <2> QED
    BY <1>2, <1>3, <2>9, SeenAlike
<1>8. ASSUME NEW m \in Members(Menu, Menu[k].sym)
      PROVE  w[Menu[m].sym] = IF m = i THEN "y" ELSE "n"
  <2>1. m \in DOMAIN Menu
    BY MemberIsPlain
  <2>2. w[Menu[m].sym] = IF Visible(Menu[m], w) THEN IfSo(Chosen(Menu, e, Menu[k], w) = Menu[m].sym)
                         ELSE "n"
    BY <1>2, <2>1, CalcOfMember DEF Solves
  <2>3. Menu[i].sym = Menu[m].sym <=> m = i
    BY <1>3, <2>1, EntriesAssumption
  <2> QED
    BY <1>6, <1>7, <2>2, <2>3 DEF IfSo
<1>9. ASSUME v[Menu[i].sym] = "y"
      PROVE  w = v
  <2>1. Chosen(Menu, d, Menu[k], v) = Menu[i].sym
    <3>1. v[Menu[i].sym] = IfSo(Chosen(Menu, d, Menu[k], v) = Menu[i].sym)
      BY <1>2, <1>3, CalcOfMember DEF Solves
    <3> QED
      BY <1>9, <3>1 DEF IfSo
  <2>2. ASSUME NEW j \in DOMAIN Menu
        PROVE  Calc(Menu, d, Menu[j], v) = Calc(Menu, e, Menu[j], v)
    <3>1. CASE j \in Members(Menu, Menu[k].sym)
      <4>1. Chosen(Menu, e, Menu[k], v) = Menu[i].sym
        BY <1>2, <1>6
      <4>2. Calc(Menu, d, Menu[j], v) = IF Visible(Menu[j], v)
              THEN IfSo(Chosen(Menu, d, Menu[k], v) = Menu[j].sym) ELSE "n"
        BY <3>1, CalcOfMember
      <4>3. Calc(Menu, e, Menu[j], v) = IF Visible(Menu[j], v)
              THEN IfSo(Chosen(Menu, e, Menu[k], v) = Menu[j].sym) ELSE "n"
        BY <3>1, CalcOfMember
      <4> QED
        BY <2>1, <4>1, <4>2, <4>3
    <3>2. CASE j \notin Members(Menu, Menu[k].sym)
      BY <1>5, <3>2
    <3> QED
      BY <3>1, <3>2
  <2>3. Solves(e, v)
    BY <1>2, <2>2 DEF Solves
  <2>4. OnScreen(e) = v
    BY <1>1, <1>2, <2>3, Unique
  <2> QED
    BY <2>4 DEF w
<1> QED
  BY <1>1, <1>8, <1>9 DEF v, w

-----------------------------------------------------------------------------
(* The questions.                                                          *)

LEMMA MemberOfOne ==
  ASSUME NEW x, NEW s, NEW z, x \in MemberSet(Menu, s), x \in MemberSet(Menu, z)
  PROVE  s = z /\ x \in Named(Menu)
<1>1. PICK i \in Members(Menu, s) : x = Menu[i].sym
  BY DEF MemberSet
<1>2. PICK j \in Members(Menu, z) : x = Menu[j].sym
  BY DEF MemberSet
<1>3. i \in DOMAIN Menu /\ j \in DOMAIN Menu /\ Menu[i].of = s /\ Menu[j].of = z
  BY DEF Members
<1>4. i = j
  BY <1>1, <1>2, <1>3, EntriesAssumption
<1> QED
  BY <1>1, <1>3, <1>4, EntryAt

(* Two sets of sayings that differ in one entry, or in a choice and its    *)
(* members, give the entries before it the same values, and show the same  *)
(* up to it.                                                               *)
LEMMA EarlierAlike ==
  ASSUME NEW d \in Defs, NEW e \in Defs, NEW k \in DOMAIN Menu, Menu[k].of = "none",
         \A s \in Named(Menu) \ {Menu[k].sym} : s \notin MemberSet(Menu, Menu[k].sym) => e[s] = d[s]
  PROVE  \A j \in DOMAIN Menu : j <= k /\ Menu[j].of = "none" =>
           /\ Visible(Menu[j], OnScreen(d)) <=> Visible(Menu[j], OnScreen(e))
           /\ \A m \in Members(Menu, Menu[j].sym) :
                Visible(Menu[m], OnScreen(d)) <=> Visible(Menu[m], OnScreen(e))
<1> DEFINE v == OnScreen(d)
           w == OnScreen(e)
<1>1. v \in Valuations /\ Solves(d, v) /\ w \in Valuations /\ Solves(e, w)
  BY Solved
<1> HIDE DEF v, w
<1>2. ASSUME NEW j \in DOMAIN Menu, j < k
      PROVE  Calc(Menu, d, Menu[j], v) = Calc(Menu, e, Menu[j], v)
  <2>1. Menu[j].sym \in Named(Menu) /\ Menu[j].sym # Menu[k].sym /\ j \in Nat /\ k \in Nat
    BY <1>2, EntryAt, EntriesAssumption
  <2>2. ASSUME Menu[j].of = "none"
        PROVE  d[Menu[j].sym] = e[Menu[j].sym]
    <3>1. ASSUME NEW m \in Members(Menu, Menu[k].sym)
          PROVE  Menu[m].sym # Menu[j].sym
      BY <2>2, MemberIsPlain, EntriesAssumption
    <3>2. Menu[j].sym \notin MemberSet(Menu, Menu[k].sym)
      BY <3>1 DEF MemberSet
    <3> QED
      BY <2>1, <3>2
  <2>3. ASSUME Menu[j].of # "none"
        PROVE  d[Menu[j].of] = e[Menu[j].of]
    <3>1. PICK c \in 1..(j - 1) :
             c \in DOMAIN Menu /\ Menu[c].sym = Menu[j].of /\ Menu[c].of = "none"
      BY <2>3, ChoiceOf
    <3>2. Menu[c].sym # Menu[k].sym /\ Menu[c].sym \in Named(Menu)
      BY <1>2, <2>1, <3>1, EntryAt, EntriesAssumption
    <3>3. ASSUME NEW m \in Members(Menu, Menu[k].sym)
          PROVE  Menu[m].sym # Menu[c].sym
      BY <3>1, MemberIsPlain, EntriesAssumption
    <3>4. Menu[c].sym \notin MemberSet(Menu, Menu[k].sym)
      BY <3>3 DEF MemberSet
    <3> QED
      BY <3>1, <3>2, <3>4
  <2> QED
    BY <2>2, <2>3, CalcSame
<1>3. k \in Nat
  BY EntriesAssumption
<1>4. \A j \in DOMAIN Menu : j < k => v[Menu[j].sym] = w[Menu[j].sym]
  BY <1>1, <1>2, <1>3, Agree
<1>5. ASSUME NEW j \in DOMAIN Menu, j <= k, Menu[j].of = "none"
      PROVE  Visible(Menu[j], v) <=> Visible(Menu[j], w)
  <2>1. \A i \in 1..(j - 1) : i \in DOMAIN Menu /\ i < k
    BY <1>3, <1>5, EntriesAssumption
  <2>2. Alike(Scope(j), v, w)
    BY <1>4, <1>5, <2>1 DEF Alike, Scope
  <2> QED
    BY <1>1, <2>2, SeenAlike
<1>6. ASSUME NEW j \in DOMAIN Menu, j <= k, Menu[j].of = "none",
             NEW m \in Members(Menu, Menu[j].sym)
      PROVE  Visible(Menu[m], v) <=> Visible(Menu[m], w)
  <2>1. IsChoice(Menu, Menu[j].sym)
    BY DEF IsChoice
  <2>2. v[Menu[j].sym] = IfSo(Visible(Menu[j], v)) /\ w[Menu[j].sym] = IfSo(Visible(Menu[j], w))
    BY <1>1, <2>1, CalcOfChoice DEF Solves
  <2>3. v[Menu[j].sym] = w[Menu[j].sym]
    BY <1>5, <1>6, <2>2 DEF IfSo
  <2>4. m \in DOMAIN Menu /\ Scope(m) = {Menu[j].sym}
    BY MemberIsPlain DEF Scope
  <2>5. Alike(Scope(m), v, w)
    BY <2>3, <2>4 DEF Alike
  <2> QED
    BY <1>1, <2>4, <2>5, SeenAlike
<1> QED
  BY <1>5, <1>6 DEF v, w

(* What the answers to a question change.                                  *)
LEMMA AnswersAre ==
  ASSUME NEW d \in Defs, NEW k \in DOMAIN Menu, Menu[k].of = "none", NEW v,
         NEW e \in Answers(Menu, d, Menu[k], v)
  PROVE  /\ e \in Defs
         /\ \A s \in Named(Menu) \ {Menu[k].sym} : s \notin MemberSet(Menu, Menu[k].sym) => e[s] = d[s]
         /\ ~IsChoice(Menu, Menu[k].sym) => e[Menu[k].sym] # Absent
         /\ \A m \in Members(Menu, Menu[k].sym) : Visible(Menu[m], v) => e[Menu[m].sym] # Absent
<1>1. CASE IsChoice(Menu, Menu[k].sym)
  <2>1. PICK i \in Members(Menu, Menu[k].sym) : e = Chose(Menu, d, Menu[i], v)
    BY <1>1 DEF Answers
  <2> QED
    BY <1>1, <2>1, ChoseIs
<1>2. CASE ~IsChoice(Menu, Menu[k].sym)
  <2>1. PICK a \in OfKind(Menu[k].sym) : e = [d EXCEPT ![Menu[k].sym] = a]
    BY <1>2 DEF Answers, OfKind
  <2>2. Menu[k].sym \in Named(Menu) /\ a \in Texts /\ a # Absent
    BY EntryAt, SessionAssumption DEF OfKind, Texts, Absent
  <2>3. e \in Defs /\ e[Menu[k].sym] = a /\ \A s \in Named(Menu) \ {Menu[k].sym} : e[s] = d[s]
    BY <1>2, <2>1, <2>2 DEF Defs
  <2> QED
    BY <1>2, <2>2, <2>3 DEF IsChoice
<1> QED
  BY <1>1, <1>2

LEMMA IsNewAt ==
  ASSUME NEW d, NEW j \in DOMAIN Menu, NEW v
  PROVE  IsNew(Menu, d, Menu[j], v) <=>
           /\ Visible(Menu[j], v) /\ Menu[j].of = "none"
           /\ IF IsChoice(Menu, Menu[j].sym)
              THEN \E m \in Members(Menu, Menu[j].sym) : Visible(Menu[m], v) /\ d[Menu[m].sym] = Absent
              ELSE d[Menu[j].sym] = Absent
<1>1. \A m \in Members(Menu, Menu[j].sym) : Entry(Menu, Menu[m].sym) = Menu[m]
  BY MemberIsPlain, EntryAt
<1> QED
  BY <1>1 DEF IsNew, MemberSet

(* A visit leaves its entry with nothing to ask for, and the entries before *)
(* it as they were.                                                         *)
LEMMA VisitSettles ==
  ASSUME NEW every \in BOOLEAN, NEW d \in Defs, NEW k \in DOMAIN Menu,
         NEW e \in Visited(Menu, every, d, Menu[k])
  PROVE  /\ e \in Defs
         /\ ~IsNew(Menu, e, Menu[k], OnScreen(e))
         /\ \A j \in DOMAIN Menu : j < k =>
              (IsNew(Menu, e, Menu[j], OnScreen(e)) <=> IsNew(Menu, d, Menu[j], OnScreen(d)))
<1> DEFINE v == OnScreen(d)
           w == OnScreen(e)
<1>1. e \in IF IsAsked(Menu, every, d, Menu[k], v) THEN Answers(Menu, d, Menu[k], v) ELSE {d}
  BY DEF Visited, OnScreen
<1>2. CASE ~IsAsked(Menu, every, d, Menu[k], v)
  BY <1>1, <1>2 DEF IsAsked
<1>3. CASE IsAsked(Menu, every, d, Menu[k], v)
  <2>1. Menu[k].of = "none"
    BY <1>3 DEF IsAsked, IsNew
  <2>2. /\ e \in Defs
        /\ \A s \in Named(Menu) \ {Menu[k].sym} : s \notin MemberSet(Menu, Menu[k].sym) => e[s] = d[s]
        /\ ~IsChoice(Menu, Menu[k].sym) => e[Menu[k].sym] # Absent
        /\ \A m \in Members(Menu, Menu[k].sym) : Visible(Menu[m], v) => e[Menu[m].sym] # Absent
    BY <1>1, <1>3, <2>1, AnswersAre
  <2>3. \A j \in DOMAIN Menu : j <= k /\ Menu[j].of = "none" =>
          /\ Visible(Menu[j], v) <=> Visible(Menu[j], w)
          /\ \A m \in Members(Menu, Menu[j].sym) : Visible(Menu[m], v) <=> Visible(Menu[m], w)
    BY <2>1, <2>2, EarlierAlike
  <2> HIDE DEF v, w
  <2>4. ~IsNew(Menu, e, Menu[k], w)
    <3>1. k <= k
      BY EntriesAssumption
    <3> QED
      BY <2>1, <2>2, <2>3, <3>1, IsNewAt
  <2>5. ASSUME NEW j \in DOMAIN Menu, j < k
        PROVE  IsNew(Menu, e, Menu[j], w) <=> IsNew(Menu, d, Menu[j], v)
    <3>1. CASE Menu[j].of # "none"
      BY <3>1, IsNewAt
    <3>2. CASE Menu[j].of = "none"
      <4>1. /\ j <= k /\ Menu[j].sym # Menu[k].sym
            /\ Menu[j].sym \in Named(Menu) /\ Menu[k].sym \in Named(Menu)
        BY <2>5, EntryAt, EntriesAssumption
      <4>2. /\ Visible(Menu[j], v) <=> Visible(Menu[j], w)
            /\ \A m \in Members(Menu, Menu[j].sym) : Visible(Menu[m], v) <=> Visible(Menu[m], w)
        BY <2>3, <3>2, <4>1
      <4>3. ASSUME NEW m \in Members(Menu, Menu[j].sym)
            PROVE  e[Menu[m].sym] = d[Menu[m].sym]
        <5>1. Menu[m].sym \in MemberSet(Menu, Menu[j].sym)
          BY DEF MemberSet
        <5>2. Menu[m].sym \notin MemberSet(Menu, Menu[k].sym) /\ Menu[m].sym \in Named(Menu)
          BY <4>1, <5>1, MemberOfOne
        <5>3. Menu[m].sym # Menu[k].sym
          BY <2>1, MemberIsPlain, EntriesAssumption
        <5> QED
          BY <2>2, <5>2, <5>3
      <4>4. e[Menu[j].sym] = d[Menu[j].sym]
        <5>1. ASSUME NEW m \in Members(Menu, Menu[k].sym)
              PROVE  Menu[m].sym # Menu[j].sym
          BY <3>2, MemberIsPlain, EntriesAssumption
        <5>2. Menu[j].sym \notin MemberSet(Menu, Menu[k].sym)
          BY <5>1 DEF MemberSet
        <5> QED
          BY <2>2, <4>1, <5>2
      <4>5. (\E m \in Members(Menu, Menu[j].sym) : Visible(Menu[m], w) /\ e[Menu[m].sym] = Absent)
              <=> \E m \in Members(Menu, Menu[j].sym) : Visible(Menu[m], v) /\ d[Menu[m].sym] = Absent
        BY <4>2, <4>3
      <4>6. IsNew(Menu, e, Menu[j], w) <=>
              /\ Visible(Menu[j], w) /\ Menu[j].of = "none"
              /\ IF IsChoice(Menu, Menu[j].sym)
                 THEN \E m \in Members(Menu, Menu[j].sym) : Visible(Menu[m], w) /\ e[Menu[m].sym] = Absent
                 ELSE e[Menu[j].sym] = Absent
        BY IsNewAt
      <4>7. IsNew(Menu, d, Menu[j], v) <=>
              /\ Visible(Menu[j], v) /\ Menu[j].of = "none"
              /\ IF IsChoice(Menu, Menu[j].sym)
                 THEN \E m \in Members(Menu, Menu[j].sym) : Visible(Menu[m], v) /\ d[Menu[m].sym] = Absent
                 ELSE d[Menu[j].sym] = Absent
        BY IsNewAt
      <4> QED
        BY <4>2, <4>4, <4>5, <4>6, <4>7
    <3> QED
      BY <3>1, <3>2
  <2> QED
    BY <2>2, <2>4, <2>5 DEF v, w
<1> QED
  BY <1>2, <1>3

(* One entry visited after the other.                                       *)

IsVisit(g, every, d, m) ==
  g = [i \in 0..m |->
         IF i = 0 THEN {d} ELSE UNION {Visited(Menu, every, e, Menu[i]) : e \in g[i - 1]}]

LEMMA VisitsExist ==
  ASSUME NEW every, NEW d
  PROVE  \A m \in Nat : \E g : IsVisit(g, every, d, m)
<1> DEFINE T == {m \in Nat : ~\E g : IsVisit(g, every, d, m)}
<1>1. SUFFICES ASSUME T # {} PROVE FALSE
  OBVIOUS
<1>2. PICK m \in T : \A k \in T : m <= k
  BY <1>1, Least
<1>3. m \in Nat /\ ~\E g : IsVisit(g, every, d, m)
  BY <1>2
<1>4. m # 0
  <2>1. IsVisit([i \in 0..0 |-> {d}], every, d, 0)
    BY DEF IsVisit
  <2> QED
    BY <1>3, <2>1
<1>5. m - 1 \in Nat /\ m - 1 \notin T
  BY <1>2, <1>4
<1>6. PICK g : IsVisit(g, every, d, m - 1)
  BY <1>5
<1> DEFINE After(i, S) == UNION {Visited(Menu, every, e, Menu[i]) : e \in S}
           h == [i \in 0..m |-> IF i = m THEN After(m, g[m - 1]) ELSE g[i]]
<1> HIDE DEF After
<1>7. ASSUME NEW i \in 0..m
      PROVE  h[i] = IF i = 0 THEN {d} ELSE After(i, h[i - 1])
  <2>1. CASE i = m
    BY <2>1, <1>3, <1>4, <1>5
  <2>2. CASE i # m
    <3>1. i \in 0..(m - 1)
      BY <1>7, <1>3, <1>5, <2>2
    <3>2. g[i] = IF i = 0 THEN {d} ELSE After(i, g[i - 1])
      BY <1>6, <3>1 DEF IsVisit, After
    <3> QED
      BY <1>5, <2>2, <3>1, <3>2
  <2> QED
    BY <2>1, <2>2
<1> HIDE DEF h
<1>8. h = [i \in 0..m |-> h[i]]
  BY DEF h
<1>9. IsVisit(h, every, d, m)
  BY <1>7, <1>8 DEF IsVisit, After
<1> QED
  BY <1>3, <1>9

LEMMA AskedIsVisit ==
  ASSUME NEW every, NEW d
  PROVE  \E g : IsVisit(g, every, d, Len(Menu)) /\ Asked(Menu, every, d) = g[Len(Menu)]
<1> DEFINE upTo[i \in 0..Len(Menu)] ==
        IF i = 0 THEN {d} ELSE UNION {Visited(Menu, every, e, Menu[i]) : e \in upTo[i - 1]}
<1>1. Asked(Menu, every, d) = upTo[Len(Menu)]
  BY DEF Asked
<1>2. \E g : IsVisit(g, every, d, Len(Menu))
  BY VisitsExist, EntriesAssumption
<1>3. IsVisit(upTo, every, d, Len(Menu))
  BY <1>2 DEF IsVisit
<1> QED
  BY <1>1, <1>3

LEMMA VisitSteps ==
  ASSUME NEW every, NEW d, NEW g, IsVisit(g, every, d, Len(Menu))
  PROVE  /\ g[0] = {d}
         /\ \A i \in DOMAIN Menu :
              g[i] = UNION {Visited(Menu, every, e, Menu[i]) : e \in g[i - 1]}
<1>1. 0 \in 0..Len(Menu) /\ \A i \in DOMAIN Menu : i \in 0..Len(Menu) /\ i # 0
  BY EntriesAssumption
<1> QED
  BY <1>1 DEF IsVisit

\* What the entries up to k have been asked for is said.
Said(S, k) ==
  \A e \in S : e \in Defs /\ \A j \in DOMAIN Menu : j <= k => ~IsNew(Menu, e, Menu[j], OnScreen(e))

LEMMA VisitSays ==
  ASSUME NEW every \in BOOLEAN, NEW d \in Defs, NEW g, IsVisit(g, every, d, Len(Menu))
  PROVE  \A k \in 0..Len(Menu) : Said(g[k], k)
<1> DEFINE T == {k \in 0..Len(Menu) : ~Said(g[k], k)}
<1>1. SUFFICES ASSUME T # {} PROVE FALSE
  OBVIOUS
<1>2. T \in SUBSET Nat
  BY EntriesAssumption
<1>3. PICK k \in T : \A j \in T : k <= j
  BY <1>1, <1>2, Least
<1>4. k # 0
  <2>1. Said(g[0], 0)
    BY VisitSteps, EntriesAssumption DEF Said
  <2> QED
    BY <2>1, <1>3
<1>5. k \in DOMAIN Menu /\ k - 1 \in 0..Len(Menu) /\ k - 1 < k
  BY <1>3, <1>4, EntriesAssumption
<1>6. Said(g[k - 1], k - 1)
  BY <1>2, <1>3, <1>5
<1>7. ASSUME NEW e \in g[k]
      PROVE  e \in Defs /\ \A j \in DOMAIN Menu : j <= k => ~IsNew(Menu, e, Menu[j], OnScreen(e))
  <2>1. PICK b \in g[k - 1] : e \in Visited(Menu, every, b, Menu[k])
    BY <1>5, VisitSteps
  <2>2. b \in Defs /\ \A j \in DOMAIN Menu : j <= k - 1 => ~IsNew(Menu, b, Menu[j], OnScreen(b))
    BY <1>6 DEF Said
  <2>3. /\ e \in Defs
        /\ ~IsNew(Menu, e, Menu[k], OnScreen(e))
        /\ \A j \in DOMAIN Menu : j < k =>
             (IsNew(Menu, e, Menu[j], OnScreen(e)) <=> IsNew(Menu, b, Menu[j], OnScreen(b)))
    BY <1>5, <2>1, <2>2, VisitSettles
  <2>4. \A j \in DOMAIN Menu : j <= k => j = k \/ (j < k /\ j <= k - 1)
    BY <1>5, EntriesAssumption
  <2> QED
    BY <2>2, <2>3, <2>4
<1>8. Said(g[k], k)
  BY <1>7 DEF Said
<1> QED
  BY <1>3, <1>8

(* Once conf has gone through a menu whose entries refer to earlier ones   *)
(* only (ScopeAssumption), nothing is left to ask for, whatever was        *)
(* answered, and the one pass Asked makes is all of the loop of            *)
(* conf.c:679-685.  An entry that refers to a later one may take another.  *)
LEMMA OneRoundSuffices ==
  ASSUME NEW every \in BOOLEAN, NEW d \in Defs, NEW e \in Asked(Menu, every, d)
  PROVE  e \in Defs /\ NothingNew(Menu, e)
<1>1. PICK g : IsVisit(g, every, d, Len(Menu)) /\ Asked(Menu, every, d) = g[Len(Menu)]
  BY AskedIsVisit
<1>2. Len(Menu) \in 0..Len(Menu) /\ \A j \in DOMAIN Menu : j <= Len(Menu)
  BY EntriesAssumption
<1>3. Said(g[Len(Menu)], Len(Menu))
  BY <1>1, <1>2, VisitSays
<1>4. e \in Defs /\ \A j \in DOMAIN Menu : ~IsNew(Menu, e, Menu[j], OnScreen(e))
  BY <1>1, <1>2, <1>3 DEF Said
<1> QED
  BY <1>4 DEF NothingNew, OnScreen

(* Where nothing is new nothing is asked.                                  *)
LEMMA NothingNewIsAsked ==
  ASSUME NEW d, NothingNew(Menu, d)
  PROVE  Asked(Menu, FALSE, d) = {d}
<1>1. PICK g : IsVisit(g, FALSE, d, Len(Menu)) /\ Asked(Menu, FALSE, d) = g[Len(Menu)]
  BY AskedIsVisit
<1>2. ASSUME NEW k \in DOMAIN Menu
      PROVE  Visited(Menu, FALSE, d, Menu[k]) = {d}
  BY DEF NothingNew, Visited, IsAsked
<1> DEFINE T == {k \in 0..Len(Menu) : g[k] # {d}}
<1>3. ASSUME T # {} PROVE FALSE
  <2>1. T \in SUBSET Nat
    BY EntriesAssumption
  <2>2. PICK k \in T : \A j \in T : k <= j
    BY <1>3, <2>1, Least
  <2>3. k # 0
    BY <1>1, <2>2, VisitSteps
  <2>4. k \in DOMAIN Menu /\ k - 1 \in 0..Len(Menu) /\ k - 1 < k
    BY <2>2, <2>3, EntriesAssumption
  <2>5. g[k - 1] = {d}
    BY <2>1, <2>2, <2>4
  <2>6. g[k] = UNION {Visited(Menu, FALSE, e, Menu[k]) : e \in g[k - 1]}
    BY <1>1, <2>3, <2>4 DEF IsVisit
  <2>7. \A e \in g[k - 1] : Visited(Menu, FALSE, e, Menu[k]) = {d}
    BY <1>2, <2>4, <2>5
  <2>8. g[k] = {d}
    BY <2>5, <2>6, <2>7
  <2> QED
    BY <2>2, <2>8
<1>4. Len(Menu) \in 0..Len(Menu)
  BY EntriesAssumption
<1> QED
  BY <1>1, <1>3, <1>4

(* What conf finds nothing to write in it has nothing to ask for, either.  *)
LEMMA UnchangedNothingNew ==
  ASSUME NEW c \in FileContents, ~Changed(Menu, c)
  PROVE  NothingNew(Menu, ReadBack(Menu, c)) /\ Asked(Menu, FALSE, ReadBack(Menu, c)) = {ReadBack(Menu, c)}
<1>1. ReadBack(Menu, c) \in Defs /\ c = Whole(ReadBack(Menu, c))
  BY ReadBackSame, UnchangedIsWhole
<1>2. NothingNew(Menu, ReadBack(Menu, c))
  BY <1>1, WholeReadsBack
<1> QED
  BY <1>2, NothingNewIsAsked

-----------------------------------------------------------------------------
(* The targets that set everything.                                        *)

LEMMA UnreadTyped == Unread \in Defs
BY DEF Unread, Defs

Absents(d) == {s \in Plain(Menu) : Kind[s] = "bool" /\ d[s] = Absent}
NotPicked(d) == {s \in Named(Menu) : IsChoice(Menu, s) /\ d[s] = Absent}
GivenBy(d, b, p) ==
  [s \in Named(Menu) |-> IF s \in DOMAIN b THEN b[s] ELSE IF s \in DOMAIN p THEN p[s] ELSE d[s]]

LEMMA DefaultIs ==
  ASSUME NEW d
  PROVE  AllNew("default", d) = {d}
BY DEF AllNew

LEMMA YesIs ==
  ASSUME NEW d
  PROVE  AllNew("yes", d) = {GivenBy(d, [s \in Absents(d) |-> "y"], <<>>)}
BY DEF AllNew, Absents, GivenBy

LEMMA NoIs ==
  ASSUME NEW d
  PROVE  AllNew("no", d) = {GivenBy(d, [s \in Absents(d) |-> "n"], <<>>)}
BY DEF AllNew, Absents, GivenBy

Picks(d) == {q \in [NotPicked(d) -> Named(Menu)] : \A s \in NotPicked(d) : q[s] \in MemberSet(Menu, s)}
LEMMA RandomIs ==
  ASSUME NEW d
  PROVE  AllNew("random", d) = {GivenBy(d, b, p) : b \in [Absents(d) -> {"y", "n"}], p \in Picks(d)}
BY DEF AllNew, Absents, NotPicked, GivenBy, Picks

LEMMA EmptyHasNoDomain == DOMAIN <<>> = {}
OBVIOUS

LEMMA GivenTyped ==
  ASSUME NEW d \in Defs, NEW b \in [Absents(d) -> {"y", "n"}], NEW p,
         DOMAIN p \subseteq NotPicked(d), \A s \in DOMAIN p : p[s] \in MemberSet(Menu, s)
  PROVE  GivenBy(d, b, p) \in Defs
<1>1. ASSUME NEW s \in Named(Menu)
      PROVE  /\ GivenBy(d, b, p)[s] \in
                  {Absent} \cup (IF IsChoice(Menu, s) THEN MemberSet(Menu, s) ELSE OfKind(s))
             /\ GivenBy(d, b, p)[s] \in Texts \cup Named(Menu) \cup {Absent}
  <2>1. GivenBy(d, b, p)[s] = IF s \in DOMAIN b THEN b[s] ELSE IF s \in DOMAIN p THEN p[s] ELSE d[s]
    BY DEF GivenBy
  <2>2. CASE s \in DOMAIN b
    <3>1. ~IsChoice(Menu, s) /\ OfKind(s) = {"y", "n"}
      BY <2>2 DEF Absents, Plain, OfKind
    <3>2. b[s] \in {"y", "n"}
      BY <2>2
    <3> QED
      BY <2>1, <2>2, <3>1, <3>2 DEF Texts
  <2>3. CASE s \notin DOMAIN b /\ s \in DOMAIN p
    <3>1. IsChoice(Menu, s) /\ p[s] \in MemberSet(Menu, s)
      BY <2>3 DEF NotPicked
    <3>2. MemberSet(Menu, s) \subseteq Named(Menu)
      BY DEF MemberSet, Members, Named
    <3> QED
      BY <2>1, <2>3, <3>1, <3>2
  <2>4. CASE s \notin DOMAIN b /\ s \notin DOMAIN p
    BY <2>1, <2>4 DEF Defs
  <2> QED
    BY <2>2, <2>3, <2>4
<1>2. GivenBy(d, b, p) = [s \in Named(Menu) |-> GivenBy(d, b, p)[s]]
  BY DEF GivenBy
<1>3. GivenBy(d, b, p) \in [Named(Menu) -> Texts \cup Named(Menu) \cup {Absent}]
  BY <1>1, <1>2
<1> QED
  BY <1>1, <1>3 DEF Defs

LEMMA AllNewTyped ==
  ASSUME NEW d \in Defs, NEW m \in {"default", "yes", "no", "random"}
  PROVE  AllNew(m, d) \subseteq Defs
<1>1. CASE m = "default"
  BY <1>1, DefaultIs
<1>2. CASE m = "yes"
  <2>1. [s \in Absents(d) |-> "y"] \in [Absents(d) -> {"y", "n"}]
    OBVIOUS
  <2>2. GivenBy(d, [s \in Absents(d) |-> "y"], <<>>) \in Defs
    BY <2>1, EmptyHasNoDomain, GivenTyped
  <2> QED
    BY <1>2, <2>2, YesIs
<1>3. CASE m = "no"
  <2>1. [s \in Absents(d) |-> "n"] \in [Absents(d) -> {"y", "n"}]
    OBVIOUS
  <2>2. GivenBy(d, [s \in Absents(d) |-> "n"], <<>>) \in Defs
    BY <2>1, EmptyHasNoDomain, GivenTyped
  <2> QED
    BY <1>3, <2>2, NoIs
<1>4. CASE m = "random"
  <2>1. ASSUME NEW b \in [Absents(d) -> {"y", "n"}], NEW p \in Picks(d)
        PROVE  GivenBy(d, b, p) \in Defs
    BY GivenTyped DEF Picks
  <2> QED
    BY <1>4, <2>1, RandomIs
<1> QED
  BY <1>1, <1>2, <1>3, <1>4

-----------------------------------------------------------------------------
(* A session.                                                              *)

\* What the tools write is a whole configuration, what savedefconfig writes
\* the minimal form of one.
Sound ==
  /\ def \in Defs /\ file \in FileContents /\ changed \in BOOLEAN
  /\ byTool \in BOOLEAN
  /\ byTool => \E d \in Defs : file = Whole(d)
  /\ minimal # NoFile => \E d \in Defs : minimal = Minimal(d) /\ origin = Whole(d)
  /\ latest # NoSetting => \E i \in DOMAIN Menu : latest.sym = Menu[i].sym
SessionIInv == Sound /\ QuitLosesNothing /\ SettingHolds

(* A front end that has read a .config.                                    *)
LEMMA StartedIs ==
  ASSUME NEW c \in FileContents
  PROVE  /\ Started(c).file = c /\ Started(c).def \in Defs /\ Started(c).changed \in BOOLEAN
         /\ ~Started(c).changed => c = Whole(Started(c).def)
<1>1. /\ Started(c).file = c /\ Started(c).def = ReadBack(Menu, c)
      /\ Started(c).changed = Changed(Menu, c)
  BY DEF Started
<1>2. Changed(Menu, c) \in BOOLEAN
  BY DEF Changed, Unsaved, UnsavedAmong, Warned
<1> QED
  BY <1>1, <1>2, ReadBackSame, UnchangedIsWhole

LEMMA StartedWhole ==
  ASSUME NEW d \in Defs
  PROVE  OnScreen(Started(Whole(d)).def) = OnScreen(d)
BY WholeReadsBack DEF Started

LEMMA SoundInit == SessionInit => SessionIInv
<1> SUFFICES ASSUME SessionInit PROVE SessionIInv
  OBVIOUS
<1>1. PICK c \in Files : file = Started(c).file /\ def = Started(c).def /\ changed = Started(c).changed
  BY DEF SessionInit
<1>2. c \in FileContents
  BY SessionAssumption
<1>3. def \in Defs /\ file \in FileContents /\ changed \in BOOLEAN /\ QuitLosesNothing
  BY <1>1, <1>2, StartedIs DEF QuitLosesNothing
<1>4. minimal = NoFile /\ byTool = FALSE /\ latest = NoSetting
  BY DEF SessionInit
<1> QED
  BY <1>3, <1>4 DEF SessionIInv, Sound, SettingHolds

KeptBy(e, val, v) ==
  /\ v[e.sym] = val
  /\ e.of # "none" /\ val = "y" => \A s \in MemberSet(Menu, e.of) \ {e.sym} : v[s] = "n"

LEMMA SettingHoldsIs ==
  SettingHolds <=>
    (latest # NoSetting => KeptBy(Entry(Menu, latest.sym), latest.val, OnScreen(def)))
BY DEF SettingHolds, KeptBy

LEMMA SettingHoldsNext ==
  SettingHolds' <=>
    (latest' # NoSetting => KeptBy(Entry(Menu, latest'.sym), latest'.val, OnScreen(def')))
BY DEF SettingHolds, KeptBy

(* The symbol that is set has the value it is set to, and without a change *)
(* to be saved all values are what they were.                              *)
LEMMA SetKeeps ==
  ASSUME def \in Defs, changed \in BOOLEAN, NEW i \in Offered(OnScreen(def)),
         NEW val \in OfKind(Menu[i].sym), SetTo(Menu[i], val, OnScreen(def))
  PROVE  /\ def' \in Defs /\ changed' \in BOOLEAN
         /\ changed => changed'
         /\ ~changed' => OnScreen(def') = OnScreen(def)
         /\ KeptBy(Menu[i], val, OnScreen(def'))
<1> DEFINE v == OnScreen(def)
<1>1. i \in DOMAIN Menu /\ Visible(Menu[i], v) /\ ~IsChoice(Menu, Menu[i].sym)
  BY DEF Offered
<1>2. Kind[Menu[i].sym] = "string" => Menu[i].of = "none"
  BY <1>1, EntriesAssumption
<1> HIDE DEF v
<1>3. CASE Kind[Menu[i].sym] = "string"
  <2>1. def' = [def EXCEPT ![Menu[i].sym] = val] /\ changed' = (changed \/ def[Menu[i].sym] # val)
    BY <1>3 DEF SetTo, SetString
  <2>2. def' \in Defs /\ OnScreen(def')[Menu[i].sym] = val
    BY <1>1, <1>2, <1>3, <2>1, SetPlain DEF v
  <2>3. def[Menu[i].sym] = val => def' = def
    BY <2>1 DEF Defs
  <2> QED
    BY <1>2, <1>3, <2>1, <2>2, <2>3 DEF KeptBy
<1>4. CASE Kind[Menu[i].sym] # "string"
  <2>1. SetTristate(Menu[i], val, v)
    BY <1>4 DEF SetTo, v
  <2>2. changed' = (changed \/ v[Menu[i].sym] # val)
    BY <2>1 DEF SetTristate
  <2>3. CASE Menu[i].of = "none"
    <3>1. def' = [def EXCEPT ![Menu[i].sym] = val]
      BY <2>1, <2>3 DEF SetTristate
    <3>2. /\ def' \in Defs /\ OnScreen(def')[Menu[i].sym] = val
          /\ v[Menu[i].sym] = val => OnScreen(def') = v
      BY <1>1, <2>3, <3>1, SetPlain DEF v
    <3> QED
      BY <2>2, <2>3, <3>2 DEF KeptBy, v
  <2>4. CASE Menu[i].of # "none" /\ val = "y"
    <3>1. def' = Chose(Menu, def, Menu[i], v)
      BY <2>1, <2>4 DEF SetTristate
    <3>2. PICK k \in DOMAIN Menu : Menu[k].sym = Menu[i].of /\ i \in Members(Menu, Menu[k].sym)
      BY <1>1, <2>4, ChoiceOf
    <3>3. /\ def' \in Defs
          /\ \A m \in Members(Menu, Menu[k].sym) :
               OnScreen(def')[Menu[m].sym] = IF m = i THEN "y" ELSE "n"
          /\ v[Menu[i].sym] = "y" => OnScreen(def') = v
      BY <1>1, <3>1, <3>2, SetOn DEF v
    <3>4. \A s \in MemberSet(Menu, Menu[i].of) \ {Menu[i].sym} : OnScreen(def')[s] = "n"
      BY <3>2, <3>3 DEF MemberSet
    <3> QED
      BY <2>2, <2>4, <3>2, <3>3, <3>4 DEF KeptBy, v
  <2>5. CASE Menu[i].of # "none" /\ val # "y"
    <3>1. def' = [def EXCEPT ![Menu[i].sym] = val] /\ v[Menu[i].sym] = val
      BY <2>1, <2>5 DEF SetTristate, WithinRange
    <3>2. def' \in Defs /\ OnScreen(def') = v
      BY <1>1, <2>5, <3>1, SetOff DEF v
    <3> QED
      BY <2>2, <2>5, <3>1, <3>2 DEF KeptBy, v
  <2> QED
    BY <2>3, <2>4, <2>5
<1> QED
  BY <1>3, <1>4

LEMMA SetStep == SessionIInv /\ Set => SessionIInv'
<1> SUFFICES ASSUME SessionIInv, Set PROVE SessionIInv'
  OBVIOUS
<1> USE DEF SessionIInv
<1>1. def \in Defs /\ changed \in BOOLEAN
  BY DEF Sound
<1>2. PICK i \in Offered(OnScreen(def)) :
        \E val \in IF Kind[Menu[i].sym] = "string" THEN Strings ELSE {"y", "n"} :
          SetTo(Menu[i], val, OnScreen(def))
  BY DEF Set, SetOne
<1>3. PICK val \in OfKind(Menu[i].sym) : SetTo(Menu[i], val, OnScreen(def))
  BY <1>2 DEF OfKind
<1>4. i \in DOMAIN Menu
  BY DEF Offered
<1>5. /\ def' \in Defs /\ changed' \in BOOLEAN
      /\ changed => changed'
      /\ ~changed' => OnScreen(def') = OnScreen(def)
      /\ KeptBy(Menu[i], val, OnScreen(def'))
  BY <1>1, <1>3, SetKeeps
<1>6. latest' = [sym |-> Menu[i].sym, val |-> val]
  BY <1>3 DEF SetTo
<1>7. UNCHANGED <<file, minimal, origin, byTool>>
  BY DEF Set
<1>8. Sound'
  BY <1>4, <1>5, <1>6, <1>7 DEF Sound
<1>9. QuitLosesNothing'
  <2>1. ~changed' => file = Whole(def)
    BY <1>1, <1>5 DEF QuitLosesNothing
  <2>2. ~changed' => Whole(def') = Whole(def)
    BY <1>5, WholeDepends
  <2> QED
    BY <1>7, <2>1, <2>2 DEF QuitLosesNothing
<1>10. SettingHolds'
  <2>1. Entry(Menu, latest'.sym) = Menu[i] /\ latest'.val = val
    BY <1>4, <1>6, EntryAt
  <2>2. KeptBy(Entry(Menu, latest'.sym), latest'.val, OnScreen(def'))
    BY <1>5, <2>1
  <2> QED
    BY <2>2, SettingHoldsIs, SettingHoldsNext
<1> QED
  BY <1>8, <1>9, <1>10

LEMMA SaveStep == SessionIInv /\ Save => SessionIInv'
<1> SUFFICES ASSUME SessionIInv, Save PROVE SessionIInv'
  OBVIOUS
<1> USE DEF SessionIInv
<1>1. /\ file' = Whole(def) /\ changed' = FALSE /\ byTool' = TRUE
      /\ UNCHANGED <<def, minimal, origin, latest, settings>>
  BY DEF Save
<1>2. Whole(def) \in FileContents
  BY WholeTyped DEF Sound
<1>3. Sound'
  BY <1>1, <1>2 DEF Sound
<1>4. QuitLosesNothing'
  BY <1>1 DEF QuitLosesNothing
<1>5. SettingHolds'
  BY <1>1, SettingHoldsIs, SettingHoldsNext
<1> QED
  BY <1>3, <1>4, <1>5

(* Starting again keeps a setting only when quitting did not ask.          *)
LEMMA RestartStep == SessionIInv /\ Restart => SessionIInv'
<1> SUFFICES ASSUME SessionIInv, Restart PROVE SessionIInv'
  OBVIOUS
<1> USE DEF SessionIInv
<1>1. /\ def \in Defs /\ file \in FileContents /\ changed \in BOOLEAN
  BY DEF Sound
<1>2. /\ file' = file /\ def' = Started(file).def /\ changed' = Started(file).changed
      /\ latest' = IF changed THEN NoSetting ELSE latest
      /\ UNCHANGED <<minimal, origin, byTool>>
  BY <1>1, StartedIs DEF Restart, Start
<1>3. /\ def' \in Defs /\ changed' \in BOOLEAN /\ QuitLosesNothing'
  BY <1>1, <1>2, StartedIs DEF QuitLosesNothing
<1>4. Sound'
  BY <1>1, <1>2, <1>3 DEF Sound
<1>5. SettingHolds'
  <2>1. CASE changed
    BY <1>2, <2>1, SettingHoldsIs, SettingHoldsNext
  <2>2. CASE ~changed
    <3>1. file = Whole(def)
      BY <2>2 DEF QuitLosesNothing
    <3>2. OnScreen(def') = OnScreen(def)
      BY <1>1, <1>2, <3>1, StartedWhole
    <3> QED
      BY <1>2, <2>2, <3>2, SettingHoldsIs, SettingHoldsNext
  <2> QED
    BY <2>1, <2>2
<1> QED
  BY <1>3, <1>4, <1>5

LEMMA SaveDefconfigStep == SessionIInv /\ SaveDefconfig => SessionIInv'
<1> SUFFICES ASSUME SessionIInv, SaveDefconfig PROVE SessionIInv'
  OBVIOUS
<1> USE DEF SessionIInv
<1>1. /\ minimal' = Minimal(ReadBack(Menu, file)) /\ origin' = Whole(ReadBack(Menu, file))
      /\ UNCHANGED <<file, def, changed, byTool, latest, settings>>
  BY DEF SaveDefconfig
<1>2. ReadBack(Menu, file) \in Defs
  BY ReadBackSame DEF Sound
<1>3. Sound'
  BY <1>1, <1>2 DEF Sound
<1>4. QuitLosesNothing'
  BY <1>1 DEF QuitLosesNothing
<1>5. SettingHolds'
  BY <1>1, SettingHoldsIs, SettingHoldsNext
<1> QED
  BY <1>3, <1>4, <1>5

(* A tool that writes .config, whatever it makes of it.                    *)
LEMMA WriteConfigStep ==
  ASSUME SessionIInv, NEW S \in SUBSET Defs, WriteConfig({Started(Whole(d)) : d \in S})
  PROVE  SessionIInv'
<1> USE DEF SessionIInv
<1>1. PICK d \in S : Start(Started(Whole(d)))
  BY DEF WriteConfig
<1>2. Whole(d) \in FileContents
  BY WholeTyped
<1>3. /\ file' = Whole(d) /\ def' = Started(Whole(d)).def /\ changed' = Started(Whole(d)).changed
      /\ byTool' = TRUE /\ latest' = NoSetting
      /\ UNCHANGED <<minimal, origin, settings>>
  BY <1>1, <1>2, StartedIs DEF WriteConfig, Start
<1>4. /\ def' \in Defs /\ changed' \in BOOLEAN /\ QuitLosesNothing'
  BY <1>2, <1>3, StartedIs DEF QuitLosesNothing
<1>5. Sound'
  BY <1>2, <1>3, <1>4 DEF Sound
<1>6. SettingHolds'
  BY <1>3, SettingHoldsIs, SettingHoldsNext
<1> QED
  BY <1>4, <1>5, <1>6

LEMMA AllConfigStep == SessionIInv /\ AllConfig => SessionIInv'
<1> SUFFICES ASSUME SessionIInv, AllConfig PROVE SessionIInv'
  OBVIOUS
<1> DEFINE S == UNION {AllNew(m, Unread) : m \in {"default", "yes", "no", "random"}}
<1>1. S \subseteq Defs
  BY AllNewTyped, UnreadTyped
<1>2. WriteConfig({Started(Whole(d)) : d \in S})
  BY DEF AllConfig, Presets
<1> HIDE DEF S
<1> QED
  BY <1>1, <1>2, WriteConfigStep

LEMMA DefconfigStep == SessionIInv /\ Defconfig => SessionIInv'
<1> SUFFICES ASSUME SessionIInv, Defconfig PROVE SessionIInv'
  OBVIOUS
<1>1. ReadBack(Menu, minimal) \in Defs
  BY MinimalReadsBack DEF SessionIInv, Sound, Defconfig
<1>2. AllNew("default", ReadBack(Menu, minimal)) \subseteq Defs
  BY <1>1, AllNewTyped
<1>3. WriteConfig({Started(Whole(d)) : d \in AllNew("default", ReadBack(Menu, minimal))})
  BY DEF Defconfig
<1> QED
  BY <1>2, <1>3, WriteConfigStep

LEMMA QuestionsTyped ==
  ASSUME file \in FileContents, NEW every \in BOOLEAN
  PROVE  Questions(every) \subseteq Defs
<1>1. ReadBack(Menu, file) \in Defs
  BY ReadBackSame
<1> QED
  BY <1>1, OneRoundSuffices DEF Questions

LEMMA AskConfigStep == SessionIInv /\ AskConfig => SessionIInv'
<1> SUFFICES ASSUME SessionIInv, AskConfig PROVE SessionIInv'
  OBVIOUS
<1>1. PICK every \in BOOLEAN : WriteConfig({Started(Whole(d)) : d \in Questions(every)})
  BY DEF AskConfig
<1>2. Questions(every) \subseteq Defs
  BY QuestionsTyped DEF SessionIInv, Sound
<1> QED
  BY <1>1, <1>2, WriteConfigStep

LEMMA OldDefconfigStep == SessionIInv /\ OldDefconfig => SessionIInv'
<1> SUFFICES ASSUME SessionIInv, OldDefconfig PROVE SessionIInv'
  OBVIOUS
<1>1. {ReadBack(Menu, file)} \subseteq Defs
  BY ReadBackSame DEF SessionIInv, Sound
<1>2. WriteConfig({Started(Whole(d)) : d \in {ReadBack(Menu, file)}})
  <2>1. {Started(Whole(d)) : d \in {ReadBack(Menu, file)}} = {Started(Whole(ReadBack(Menu, file)))}
    OBVIOUS
  <2> QED
    BY <2>1 DEF OldDefconfig
<1> QED
  BY <1>1, <1>2, WriteConfigStep

(* A file that is left alone is what would be written.                     *)
LEMMA SilentOldConfigStep == SessionIInv /\ SilentOldConfig => SessionIInv'
<1> SUFFICES ASSUME SessionIInv, SilentOldConfig PROVE SessionIInv'
  OBVIOUS
<1>1. file \in FileContents /\ Questions(FALSE) \subseteq Defs
  BY QuestionsTyped DEF SessionIInv, Sound
<1>2. ASSUME NEW d \in Questions(FALSE)
      PROVE  Refreshed(d) = Started(Whole(d))
  <2>1. CASE Changed(Menu, file) \/ d # ReadBack(Menu, file)
    BY <2>1 DEF Refreshed
  <2>2. CASE ~(Changed(Menu, file) \/ d # ReadBack(Menu, file))
    <3>1. file = Whole(d)
      BY <1>1, <2>2, UnchangedIsWhole
    <3> QED
      BY <2>2, <3>1 DEF Refreshed
  <2> QED
    BY <2>1, <2>2
<1>3. {Refreshed(d) : d \in Questions(FALSE)} = {Started(Whole(d)) : d \in Questions(FALSE)}
  BY <1>2
<1>4. WriteConfig({Started(Whole(d)) : d \in Questions(FALSE)})
  BY <1>3 DEF SilentOldConfig
<1> QED
  BY <1>1, <1>4, WriteConfigStep

LEMMA SessionInvariance == SessionSpec => []SessionIInv
<1>1. SessionIInv /\ UNCHANGED sessionVars => SessionIInv'
  <2> SUFFICES ASSUME SessionIInv, UNCHANGED sessionVars PROVE SessionIInv'
    OBVIOUS
  <2>1. UNCHANGED <<file, def, changed, minimal, origin, byTool, latest>>
    BY DEF sessionVars
  <2>2. Sound'
    BY <2>1 DEF SessionIInv, Sound
  <2>3. QuitLosesNothing'
    BY <2>1 DEF SessionIInv, QuitLosesNothing
  <2>4. SettingHolds'
    BY <2>1, SettingHoldsIs, SettingHoldsNext DEF SessionIInv
  <2> QED
    BY <2>2, <2>3, <2>4 DEF SessionIInv
<1>2. SessionIInv /\ SessionNext => SessionIInv'
  BY SetStep, SaveStep, RestartStep, SaveDefconfigStep, AllConfigStep, DefconfigStep,
     AskConfigStep, OldDefconfigStep, SilentOldConfigStep DEF SessionNext
<1> QED
  BY <1>1, <1>2, SoundInit, PTL DEF SessionSpec

(* Quitting without a question loses nothing, whatever the menu, the file  *)
(* the front end found and the settings made.                              *)
THEOREM NothingLost == SessionSpec => []QuitLosesNothing
<1>1. SessionIInv => QuitLosesNothing
  BY DEF SessionIInv
<1> QED
  BY <1>1, SessionInvariance, PTL

(* A setting that was accepted holds until the next, or until it is given  *)
(* up, in every menu: of a choice exactly the member that was switched on  *)
(* is on, and starting the front end again gives the same.                 *)
THEOREM SettingsHold == SessionSpec => []SettingHolds
<1>1. SessionIInv => SettingHolds
  BY DEF SessionIInv
<1> QED
  BY <1>1, SessionInvariance, PTL

(* What a tool has written leaves nothing to ask for and nothing to write. *)
THEOREM NothingAsked == SessionSpec => []NothingAskedAgain
<1>1. SessionIInv => NothingAskedAgain
  <2> SUFFICES ASSUME SessionIInv, byTool PROVE ~Changed(Menu, file) /\ NothingNew(Menu, ReadBack(Menu, file))
    BY DEF NothingAskedAgain
  <2>1. PICK d \in Defs : file = Whole(d)
    BY DEF SessionIInv, Sound
  <2> QED
    BY <2>1, WholeReadsBack
<1> QED
  BY <1>1, SessionInvariance, PTL

(* What conf writes after any answers reads back with nothing to ask and   *)
(* nothing to write, for every menu and every .config; and conf writes     *)
(* exactly the files that are not so already.                              *)
THEOREM WrittenReadsBack == SessionSpec => []RoundTrip
<1>1. SessionIInv => RoundTrip
  <2> SUFFICES ASSUME SessionIInv, NEW d \in Questions(FALSE)
               PROVE  LET lines == Whole(d)
                          again == ReadBack(Menu, Whole(d))
                      IN  /\ NothingNew(Menu, d)
                          /\ Changed(Menu, file) <=> lines # file
                          /\ ~Changed(Menu, lines) /\ Asked(Menu, FALSE, again) = {again}
                          /\ Generated(Menu, again, Lines, Absent) = Generated(Menu, d, Lines, Absent)
    BY DEF RoundTrip
  <2>1. file \in FileContents /\ ReadBack(Menu, file) \in Defs
    BY ReadBackSame DEF SessionIInv, Sound
  <2>2. d \in Defs /\ NothingNew(Menu, d)
    BY <2>1, OneRoundSuffices DEF Questions
  <2>3. /\ ~Changed(Menu, Whole(d)) /\ NothingNew(Menu, ReadBack(Menu, Whole(d)))
        /\ Whole(ReadBack(Menu, Whole(d))) = Whole(d)
    BY <2>2, WholeReadsBack
  <2>4. Asked(Menu, FALSE, ReadBack(Menu, Whole(d))) = {ReadBack(Menu, Whole(d))}
    BY <2>3, NothingNewIsAsked
  <2>5. ASSUME ~Changed(Menu, file) PROVE Whole(d) = file
    <3>1. d = ReadBack(Menu, file)
      BY <2>1, <2>5, UnchangedNothingNew DEF Questions
    <3> QED
      BY <2>1, <2>5, <3>1, UnchangedIsWhole
  <2>6. Changed(Menu, file) <=> Whole(d) # file
    BY <2>3, <2>5
  <2>7. Generated(Menu, ReadBack(Menu, Whole(d)), Lines, Absent) = Generated(Menu, d, Lines, Absent)
    BY <2>3 DEF Generated, Whole
  <2> QED
    BY <2>2, <2>3, <2>4, <2>6, <2>7
<1> QED
  BY <1>1, SessionInvariance, PTL

(* Of every choice on show exactly one member is on at any time.           *)
THEOREM OneIsSelected == SessionSpec => []OneArchitecture
<1>1. SessionIInv => OneArchitecture
  <2> SUFFICES ASSUME SessionIInv, NEW s \in Named(Menu), NEW x \in MemberSet(Menu, s),
                      Visible(Entry(Menu, x), OnScreen(def))
               PROVE  \E z \in MemberSet(Menu, s) : \A y \in MemberSet(Menu, s) :
                        OnScreen(def)[y] = "y" <=> y = z
    BY DEF OneArchitecture, OneOfChoice
  <2>1. PICK k \in DOMAIN Menu : Menu[k].sym = s
    BY DEF Named
  <2>2. PICK i \in Members(Menu, Menu[k].sym) : x = Menu[i].sym
    BY <2>1 DEF MemberSet
  <2>3. Entry(Menu, x) = Menu[i]
    BY <2>2, MemberIsPlain, EntryAt
  <2>4. def \in Defs
    BY DEF SessionIInv, Sound
  <2>5. PICK z \in Members(Menu, Menu[k].sym) :
          \A m \in Members(Menu, Menu[k].sym) : OnScreen(def)[Menu[m].sym] = IF m = z THEN "y" ELSE "n"
    BY <2>2, <2>3, <2>4, OneMemberIsOn
  <2>6. ASSUME NEW y \in MemberSet(Menu, s)
        PROVE  OnScreen(def)[y] = "y" <=> y = Menu[z].sym
    <3>1. PICK m \in Members(Menu, Menu[k].sym) : y = Menu[m].sym
      BY <2>1 DEF MemberSet
    <3>2. m \in DOMAIN Menu /\ z \in DOMAIN Menu
      BY MemberIsPlain
    <3>3. y = Menu[z].sym <=> m = z
      BY <3>1, <3>2, EntriesAssumption
    <3> QED
      BY <2>5, <3>1, <3>3
  <2>7. Menu[z].sym \in MemberSet(Menu, s)
    BY <2>1 DEF MemberSet
  <2> QED
    BY <2>6, <2>7
<1> QED
  BY <1>1, SessionInvariance, PTL

(* What savedefconfig leaves out of its file comes back when the file is   *)
(* used as a defconfig, for every menu.                                    *)
THEOREM MinimalSuffices == SessionSpec => []MinimalIsEnough
<1>1. SessionIInv => MinimalIsEnough
  <2> SUFFICES ASSUME SessionIInv, minimal # NoFile,
                      NEW d \in AllNew("default", ReadBack(Menu, minimal))
               PROVE  Whole(d) = origin
    BY DEF MinimalIsEnough
  <2>1. PICK e \in Defs : minimal = Minimal(e) /\ origin = Whole(e)
    BY DEF SessionIInv, Sound
  <2>2. d = ReadBack(Menu, minimal)
    BY DefaultIs
  <2> QED
    BY <2>1, <2>2, MinimalReadsBack
<1> QED
  BY <1>1, SessionInvariance, PTL

-----------------------------------------------------------------------------
(* From .config to the objects.                                            *)

(* Between the actions auto.conf, tristate.conf and autoconf.h are written  *)
(* one after the other.                                                    *)
Staged ==
  /\ pc \in Renaming => tmp = New
  /\ pc \in {"tristate", "auto"} => header = tmp
  /\ pc = "auto" => tristate = tmp

(* They agree whenever make relies on them.                                *)
Agreed ==
  /\ pc = "build" => header = auto /\ auto \in Config
  /\ fresh => /\ header = auto /\ tristate = auto /\ auto \in Config
              /\ pc \in {"idle", "again", "read", "write", "build", "mrproper"}
              /\ pc = "read" => byHand

(* Users of the changed symbols among S will be compiled.                  *)
Marked(S) ==
  \A s \in S : OldValue(s) # New[s] => \A o \in Objects : s \in Uses[o] => o \in ToBuild
MarkedSoFar ==
  /\ pc = "split" => Marked(Symbols \ todo)
  /\ pc \in {"tmp"} \cup Renaming => Marked(Symbols)
  /\ pc = "mrproper" => ToBuild = Objects

(* The files are the ones conf has read, unless an edit overtook it.       *)
InStep ==
  /\ pc \in {"write", "old"} /\ ~overtaken => kconfig = mem.tree
  /\ pc \in {"dep", "split", "tmp"} /\ ~overtaken => dot = mem.content /\ kconfig = mem.tree
  /\ pc \in Renaming /\ ~overtaken /\ ~edited => dot = mem.content /\ kconfig = mem.tree

USE AutoConfAssumption DEF files, generated, objects, conf, marks, bounds

LEMMA NewType ==
  ASSUME AutoTypeOK
  PROVE  New \in Config
BY DEF AutoTypeOK, New, Config

LEMMA TypeInit == Init => AutoTypeOK
<1> SUFFICES ASSUME Init PROVE AutoTypeOK
  OBVIOUS
<1>1. obj \in [Objects -> Config \cup {None}] /\ {auto, tristate, header} \subseteq Config \cup {None}
  BY DEF Init
<1>2. mem \in [tree: Trees, content: Contents]
  BY DEF Init
<1>3. edits \in 0..MaxEdits /\ stops \in 0..MaxStops
  BY DEF Init
<1>4. {fresh, byHand, edited, overtaken} \subseteq BOOLEAN /\ tmp \in Config \cup {None}
  BY DEF Init
<1> QED
  BY <1>1, <1>2, <1>3, <1>4 DEF Init, AutoTypeOK

LEMMA TypeNext == AutoTypeOK /\ [Next]_vars => AutoTypeOK'
<1> SUFFICES ASSUME AutoTypeOK, [Next]_vars PROVE AutoTypeOK'
  OBVIOUS
<1> USE DEF AutoTypeOK, Reading, Renaming
<1>1. CASE StartMake
  BY <1>1 DEF StartMake
<1>2. CASE ConfRead
  <2>1. mem' \in [tree: Trees, content: Contents]
    BY <1>2 DEF ConfRead
  <2> QED
    BY <1>2, <2>1 DEF ConfRead
<1>3. CASE PutAside
  BY <1>3 DEF PutAside
<1>4. CASE PutNew
  BY <1>4 DEF PutNew
<1>5. CASE WriteDep
  BY <1>5 DEF WriteDep
<1>6. CASE Split
  <2>1. stale' \in SUBSET Objects /\ todo' \in SUBSET Symbols /\ pc' \in {"split", "tmp"}
    BY <1>6 DEF Split, SplitTouching
  <2> QED
    BY <1>6, <2>1 DEF Split, SplitTouching
<1>7. CASE WriteTmp
  BY <1>7, NewType DEF WriteTmp
<1>8. CASE RenameHeader \/ RenameTristate \/ RenameAuto
  BY <1>8 DEF RenameHeader, RenameTristate, RenameAuto, RenameAutoBeing
<1>9. CASE Build
  <2>1. obj' \in [Objects -> Config \cup {None}] /\ stale' \in SUBSET Objects
    BY <1>9 DEF Build, ToBuild
  <2> QED
    BY <1>9, <2>1 DEF Build
<1>10. CASE EndMake \/ NothingToRead \/ Mrproper
  BY <1>10 DEF EndMake, NothingToRead, Mrproper
<1>11. CASE User
  <2>1. edits' \in 0..MaxEdits
    BY <1>11 DEF User, Edit, OldConfig, Clean, UserAct
  <2>2. CASE Edit
    BY <2>1, <2>2 DEF Edit, UserAct
  <2>3. CASE OldConfig
    BY <2>1, <2>3 DEF OldConfig, UserAct
  <2>4. CASE Clean
    BY <2>1, <2>4 DEF Clean, UserAct
  <2> QED
    BY <1>11, <2>2, <2>3, <2>4 DEF User
<1>12. CASE Stop
  <2>1. stops' \in 0..MaxStops
    BY <1>12 DEF Stop
  <2> QED
    BY <1>12, <2>1 DEF Stop
<1>13. CASE UNCHANGED vars
  BY <1>13 DEF vars
<1> QED
  BY <1>1, <1>2, <1>3, <1>4, <1>5, <1>6, <1>7, <1>8, <1>9, <1>10, <1>11, <1>12, <1>13
  DEF Next, Make, ConfStep

(* Every variable keeps its type.                                          *)
THEOREM TypeCorrect == Spec => []AutoTypeOK
BY TypeInit, TypeNext, PTL DEF Spec

-----------------------------------------------------------------------------
(* The generated files.                                                    *)

LEMMA AgreedInit == Init => Staged /\ Agreed
BY DEF Init, Staged, Agreed, Renaming

LEMMA AgreedNext ==
  ASSUME AutoTypeOK, Staged, Agreed, [Next]_vars
  PROVE  Staged' /\ Agreed'
<1> USE DEF Staged, Agreed, Renaming
<1>1. CASE StartMake
  BY <1>1 DEF StartMake, New
<1>2. CASE ConfRead
  BY <1>2 DEF ConfRead
<1>3. CASE PutAside \/ PutNew \/ WriteDep
  BY <1>3 DEF PutAside, PutNew, WriteDep
<1>4. CASE Split
  BY <1>4 DEF Split, SplitTouching
<1>5. CASE WriteTmp
  BY <1>5 DEF WriteTmp, New
<1>6. CASE RenameHeader \/ RenameTristate
  BY <1>6 DEF RenameHeader, RenameTristate, New
<1>7. CASE RenameAuto
  BY <1>7, NewType DEF RenameAuto, RenameAutoBeing, New
<1>8. CASE Build
  BY <1>8 DEF Build, New
<1>9. CASE EndMake \/ NothingToRead \/ Mrproper \/ Stop
  BY <1>9 DEF EndMake, NothingToRead, Mrproper, Stop
<1>10. CASE User
  BY <1>10 DEF User, Edit, OldConfig, Clean, New
<1>11. CASE UNCHANGED vars
  BY <1>11 DEF vars, New
<1> QED
  BY <1>1, <1>2, <1>3, <1>4, <1>5, <1>6, <1>7, <1>8, <1>9, <1>10, <1>11
  DEF Next, Make, ConfStep

-----------------------------------------------------------------------------
(* The objects.                                                            *)

LEMMA MarkedInit == Init => MarkedSoFar /\ CurrentObjectsAgree
BY DEF Init, MarkedSoFar, CurrentObjectsAgree, Renaming, ToBuild

(* A configuration with a symbol is not the absence of one.                *)
LEMMA SomeSymbol ==
  ASSUME NEW c \in Config, NEW s \in Symbols
  PROVE  c # None
<1>1. s \in DOMAIN c
  BY DEF Config
<1>2. DOMAIN None = {}
  BY DEF None
<1> QED
  BY <1>1, <1>2

LEMMA MarkedNext ==
  ASSUME AutoTypeOK, Staged, Agreed, MarkedSoFar, CurrentObjectsAgree, [Next]_vars
  PROVE  MarkedSoFar' /\ CurrentObjectsAgree'
<1> USE DEF Renaming
<1>1. ASSUME UNCHANGED <<auto, obj, stale>>, pc' \notin {"split", "tmp", "mrproper"} \cup Renaming
      PROVE  MarkedSoFar' /\ CurrentObjectsAgree'
  BY <1>1 DEF MarkedSoFar, CurrentObjectsAgree, ToBuild
<1>2. ASSUME UNCHANGED <<auto, obj, stale, mem, todo>>,
             pc' = pc \/ (pc \in {"tmp"} \cup Renaming /\ pc' \in {"tmp"} \cup Renaming)
      PROVE  MarkedSoFar' /\ CurrentObjectsAgree'
  BY <1>2 DEF MarkedSoFar, CurrentObjectsAgree, Marked, OldValue, New, ToBuild
<1>3. CASE StartMake \/ EndMake \/ NothingToRead \/ Stop
  BY <1>1, <1>3 DEF StartMake, EndMake, NothingToRead, Stop
<1>4. CASE ConfRead
  BY <1>1, <1>4 DEF ConfRead
<1>5. CASE PutAside \/ PutNew
  BY <1>1, <1>5 DEF PutAside, PutNew
<1>6. CASE WriteDep
  <2>1. Symbols \ todo' = {} /\ pc' = "split"
    BY <1>6 DEF WriteDep
  <2>2. CurrentObjectsAgree'
    BY <1>6 DEF WriteDep, CurrentObjectsAgree, ToBuild
  <2> QED
    BY <2>1, <2>2 DEF MarkedSoFar, Marked
<1>7. CASE Split
  <2>1. UNCHANGED <<auto, obj, mem>> /\ pc = "split" /\ stale \subseteq stale'
    BY <1>7 DEF Split, SplitTouching
  <2>2. ToBuild \subseteq ToBuild' /\ CurrentObjectsAgree'
    BY <2>1 DEF CurrentObjectsAgree, ToBuild
  <2>3. Marked(Symbols \ todo) => Marked(Symbols \ todo)'
    <3>1. CASE todo # {}
      <4> DEFINE x == CHOOSE y \in todo : TRUE
      <4>1. todo' = todo \ {x}
            /\ (OldValue(x) # New[x] => \A o \in Objects : x \in Uses[o] => o \in stale')
        BY <1>7, <3>1 DEF Split, SplitTouching, AutoTypeOK
      <4> HIDE DEF x
      <4>2. SUFFICES ASSUME Marked(Symbols \ todo), NEW s \in Symbols \ todo',
                            OldValue(s) # New[s], NEW o \in Objects, s \in Uses[o]
                     PROVE  o \in ToBuild'
        BY <2>1 DEF Marked, OldValue, New
      <4>3. CASE s = x
        BY <4>1, <4>2, <4>3 DEF ToBuild
      <4>4. CASE s # x
        BY <4>1, <4>2, <4>4, <2>2 DEF Marked
      <4> QED
        BY <4>3, <4>4
    <3>2. CASE todo = {}
      BY <1>7, <2>1, <2>2, <3>2 DEF Split, SplitTouching, Marked, OldValue, New
    <3> QED
      BY <3>1, <3>2
  <2>4. pc' = "split" \/ (pc' = "tmp" /\ todo' = {})
    BY <1>7 DEF Split, SplitTouching
  <2>5. Marked(Symbols \ todo)' /\ (todo' = {} => Marked(Symbols)')
    <3>1. todo' = {} => Symbols \ todo' = Symbols
      OBVIOUS
    <3> QED
      BY <2>1, <2>3, <3>1 DEF MarkedSoFar, Marked
  <2> QED
    BY <2>2, <2>4, <2>5 DEF MarkedSoFar
<1>8. CASE WriteTmp
  BY <1>2, <1>8 DEF WriteTmp
<1>9. CASE RenameHeader \/ RenameTristate
  BY <1>2, <1>9 DEF RenameHeader, RenameTristate
<1>10. CASE RenameAuto
  <2>1. auto' = New /\ New \in Config /\ UNCHANGED <<obj, stale>> /\ pc' = "again" /\ Marked(Symbols)
    BY <1>10, NewType DEF RenameAuto, RenameAutoBeing, Staged, MarkedSoFar
  <2>2. ASSUME NEW o \in Objects \ ToBuild, NEW s \in Uses[o]
        PROVE  New # None /\ obj[o][s] = New[s]
    <3>1. s \in Symbols
      OBVIOUS
    <3>2. auto # None /\ obj[o][s] = auto[s]
      BY <2>2 DEF CurrentObjectsAgree
    <3>3. OldValue(s) = New[s]
      BY <2>1, <2>2, <3>1 DEF Marked
    <3> QED
      BY <2>1, <3>1, <3>2, <3>3, SomeSymbol DEF OldValue
  <2>3. ToBuild' = ToBuild
    BY <2>1 DEF ToBuild
  <2>4. CurrentObjectsAgree'
    BY <2>1, <2>2, <2>3 DEF CurrentObjectsAgree
  <2> QED
    BY <2>1, <2>4 DEF MarkedSoFar
<1>11. CASE Build
  <2>1. PICK p \in ToBuild : obj' = [obj EXCEPT ![p] = header] /\ stale' = stale \ {p}
    BY <1>11 DEF Build
  <2>2. pc' = "build" /\ UNCHANGED auto /\ header = auto /\ auto \in Config
    BY <1>11 DEF Build, Agreed
  <2>3. ASSUME NEW o \in Objects \ ToBuild', NEW s \in Uses[o]
        PROVE  auto # None /\ obj'[o][s] = auto[s]
    <3>1. CASE o = p
      <4>1. s \in Symbols /\ obj'[o] = auto
        BY <2>1, <2>2, <3>1 DEF AutoTypeOK
      <4> QED
        BY <2>2, <4>1, SomeSymbol
    <3>2. CASE o # p
      BY <2>1, <2>3, <3>2 DEF CurrentObjectsAgree, ToBuild, AutoTypeOK
    <3> QED
      BY <3>1, <3>2
  <2>4. CurrentObjectsAgree'
    BY <2>2, <2>3 DEF CurrentObjectsAgree
  <2> QED
    BY <2>2, <2>4 DEF MarkedSoFar
<1>12. CASE Mrproper
  <2>1. ToBuild' = Objects /\ pc' = "idle"
    BY <1>12 DEF Mrproper, MarkedSoFar, ToBuild
  <2> QED
    BY <2>1 DEF MarkedSoFar, CurrentObjectsAgree
<1>13. CASE Edit
  BY <1>2, <1>13 DEF Edit
<1>14. CASE OldConfig
  BY <1>1, <1>14 DEF OldConfig
<1>15. CASE Clean
  <2>1. ToBuild' = Objects /\ pc' \in {"idle", "mrproper"}
    BY <1>15 DEF Clean, ToBuild
  <2> QED
    BY <2>1 DEF MarkedSoFar, CurrentObjectsAgree
<1>16. CASE UNCHANGED vars
  BY <1>2, <1>16 DEF vars
<1> QED
  BY <1>3, <1>4, <1>5, <1>6, <1>7, <1>8, <1>9, <1>10, <1>11, <1>12, <1>13, <1>14, <1>15, <1>16
  DEF Next, Make, ConfStep, User

-----------------------------------------------------------------------------
(* The files there are and the files conf has read.                        *)

LEMMA InStepInit == Init => InStep /\ FreshAgrees
BY DEF Init, InStep, FreshAgrees, Renaming

LEMMA InStepNext ==
  ASSUME AutoTypeOK, Staged, Agreed, InStep, FreshAgrees, [Next]_vars
  PROVE  InStep' /\ FreshAgrees'
<1> USE DEF Reading, Renaming, InStep, FreshAgrees
<1>1. CASE StartMake \/ EndMake \/ NothingToRead \/ Stop
  BY <1>1 DEF StartMake, EndMake, NothingToRead, Stop
<1>2. CASE ConfRead
  <2>1. UNCHANGED <<dot, kconfig, header, auto, tristate, fresh>>
        /\ overtaken' = (overtaken /\ fresh) /\ pc' \in {"write", "dep"}
    BY <1>2 DEF ConfRead
  <2>2. mem'.tree = kconfig /\ (pc' = "dep" => mem'.content = dot)
    BY <1>2 DEF ConfRead
  <2> QED
    BY <2>1, <2>2
<1>3. CASE PutAside
  BY <1>3 DEF PutAside
<1>4. CASE PutNew
  BY <1>4 DEF PutNew
<1>5. CASE WriteDep \/ WriteTmp
  BY <1>5 DEF WriteDep, WriteTmp
<1>6. CASE Split
  BY <1>6 DEF Split, SplitTouching
<1>7. CASE RenameHeader \/ RenameTristate
  <2>1. ~fresh
    BY <1>7 DEF RenameHeader, RenameTristate, Agreed
  <2> QED
    BY <1>7, <2>1 DEF RenameHeader, RenameTristate
<1>8. CASE RenameAuto
  <2>1. header = New /\ tristate = New /\ tmp = New
    BY <1>8 DEF RenameAuto, RenameAutoBeing, Staged
  <2>2. ~overtaken /\ ~edited => dot = mem.content /\ kconfig = mem.tree /\ dot # Missing
    BY <1>8 DEF RenameAuto, RenameAutoBeing, AutoTypeOK
  <2> QED
    BY <1>8, <2>1, <2>2 DEF RenameAuto, RenameAutoBeing, New
<1>9. CASE Build \/ Mrproper
  BY <1>9 DEF Build, Mrproper
<1>10. CASE Edit
  <2>1. ~fresh' /\ pc' = pc /\ mem' = mem
    BY <1>10 DEF Edit
  <2>2. pc \in Reading => overtaken'
    BY <1>10 DEF Edit
  <2>3. pc \in Renaming => edited'
    BY <1>10 DEF Edit
  <2> QED
    BY <2>1, <2>2, <2>3
<1>11. CASE OldConfig \/ Clean
  BY <1>11 DEF OldConfig, Clean
<1>12. CASE UNCHANGED vars
  BY <1>12 DEF vars
<1> QED
  BY <1>1, <1>2, <1>3, <1>4, <1>5, <1>6, <1>7, <1>8, <1>9, <1>10, <1>11, <1>12
  DEF Next, Make, ConfStep, User

-----------------------------------------------------------------------------
IInv == AutoTypeOK /\ Staged /\ Agreed /\ MarkedSoFar /\ CurrentObjectsAgree /\ InStep /\ FreshAgrees

LEMMA Invariance == Spec => []IInv
<1>1. Init => AutoTypeOK
  BY TypeInit
<1>2. Init => IInv
  BY <1>1, AgreedInit, MarkedInit, InStepInit DEF IInv
<1>3. IInv /\ [Next]_vars => IInv'
  BY TypeNext, AgreedNext, MarkedNext, InStepNext DEF IInv
<1> QED
  BY <1>2, <1>3, PTL DEF Spec

(* An object that is not compiled again agrees with auto.conf on the       *)
(* symbols it mentions, after any number of interrupted configurations.    *)
THEOREM ObjectsAreCurrent == Spec => []CurrentObjectsAgree
BY Invariance, PTL DEF IInv

(* When auto.conf is newer than its sources, it and autoconf.h hold their  *)
(* values, unless they were edited while conf was at work.                 *)
THEOREM FreshIsRight == Spec => []FreshAgrees
BY Invariance, PTL DEF IInv
=============================================================================
