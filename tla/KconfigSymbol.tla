---------------------------- MODULE KconfigSymbol ----------------------------
(***************************************************************************)
(* What conf makes of a .config: the values of the symbols, whether the    *)
(* file has to be rewritten and with what, and which symbols are new.      *)
(* A menu is a sequence of entries [sym, prompt, dep, default, of], where  *)
(* of is the choice the symbol belongs to; entries depend on earlier ones, *)
(* members of a choice on nothing but the choice, and there are no modules.*)
(* menu_finalize adds base and shown, the dependencies of entry and        *)
(* prompt.  A .config maps every symbol to the value of its line or to     *)
(* Absent.                                                                 *)
(***************************************************************************)
EXTENDS KconfigJoin, Sequences

CONSTANTS
  ValueOf(_, _),  \* expr_calc_value: an expression, given the symbols' values
  Strings         \* what may be typed at a string prompt

Absent == "absent"

Smallest(S) == CHOOSE i \in S : \A j \in S : i <= j
Largest(S)  == CHOOSE i \in S : \A j \in S : j <= i

Named(menu)      == {menu[i].sym : i \in DOMAIN menu}
Entry(menu, s)   == menu[CHOOSE i \in DOMAIN menu : menu[i].sym = s]
\* The members of a choice, by their places in the menu.
Members(menu, s) == {i \in DOMAIN menu : menu[i].of = s}
IsChoice(menu, s) == Members(menu, s) # {}
MemberSet(menu, s) == {menu[i].sym : i \in Members(menu, s)}
\* The symbols that have lines of their own.
Plain(menu) == {s \in Named(menu) : ~IsChoice(menu, s)}

-----------------------------------------------------------------------------
(* Values.  def has what the user or the file said of each symbol, Absent  *)
(* where nothing; of a choice it has the member.                           *)

\* Without modules 'm' is as good as 'y'.
Visible(e, v)    == e.prompt /\ ValueOf(e.shown, v) # 0
HasDefault(e, v) == e.default # Nothing /\ ValueOf(e.base, v) # 0
IfSo(b) == IF b THEN "y" ELSE "n"

\* A default that is visible, or the first member that is.
ChoiceDefault(menu, e, v) ==
  LET shown == {i \in Members(menu, e.sym) : Visible(menu[i], v)}
  IN  IF HasDefault(e, v) /\ \E i \in shown : menu[i].sym = e.default.sym
      THEN e.default.sym ELSE menu[Smallest(shown)].sym
Chosen(menu, def, e, v) ==
  IF def[e.sym] # Absent /\ Visible(Entry(menu, def[e.sym]), v)
  THEN def[e.sym] ELSE ChoiceDefault(menu, e, v)

\* Mutant: a member of a choice is what the user said, like any symbol.
MemberValueByUser(menu, def, e, v) ==
  IF def[e.sym] # Absent THEN def[e.sym]
  ELSE IfSo(Chosen(menu, def, Entry(menu, e.of), v) = e.sym)

MemberValue(menu, def, e, v) == IfSo(Chosen(menu, def, Entry(menu, e.of), v) = e.sym)

\* A symbol that nobody has set has its default, or stays empty.
EmptyOf(s) == IF Kind[s] = "string" THEN "" ELSE "n"
DefaultValue(e, v) ==
  IF ~HasDefault(e, v) THEN EmptyOf(e.sym)
  ELSE IF Kind[e.sym] = "string" THEN e.default.sym
  ELSE IfSo(ValueOf(And(e.default, e.base), v) # 0)

\* sym_calc_value, the values of earlier entries being v.  A choice that is
\* not optional is selected by its own prompt.
Calc(menu, def, e, v) ==
  IF IsChoice(menu, e.sym) THEN IfSo(Visible(e, v))
  ELSE IF e.of # "none" /\ Visible(e, v) THEN MemberValue(menu, def, e, v)
  ELSE IF Visible(e, v) /\ def[e.sym] # Absent THEN def[e.sym]
  ELSE DefaultValue(e, v)

\* The symbols as they are before they are calculated (symbol_empty), and
\* with one entry after the other settled.
Uncalculated(menu) == [s \in Named(menu) |-> EmptyOf(s)]
Settle(menu, def, e, v) == [v EXCEPT ![e.sym] = Calc(menu, def, e, v)]
Calculated(menu, def) ==
  LET upTo[i \in 0..Len(menu)] ==
        IF i = 0 THEN Uncalculated(menu) ELSE Settle(menu, def, menu[i], upTo[i - 1])
  IN  upTo[Len(menu)]

\* SYMBOL_WRITE.  The code never takes it back from a member of a choice
\* (symbol.c:365): one that has been on show keeps a line when its choice is
\* hidden, which that of this Kconfig, having no condition, never is.
IsWritten(menu, e, v) ==
  ~IsChoice(menu, e.sym) /\ (Visible(e, v) \/ (e.of = "none" /\ HasDefault(e, v)))

-----------------------------------------------------------------------------
(* Reading and writing .config.                                            *)

\* The last member that is 'y' is the one; a choice counts as set only when
\* every member on show is.
Read(menu, content) ==
  LET OfChoice(s) ==
        LET on == {i \in Members(menu, s) : content[menu[i].sym] = "y"}
        IN  IF on = {} THEN Absent ELSE menu[Largest(on)].sym
  IN  [s \in Named(menu) |-> IF IsChoice(menu, s) THEN OfChoice(s) ELSE content[s]]

\* What is read and what is calculated differ, or only one of them is.
UnsavedAmong(menu, def, v) ==
  LET Differs(s, written) == IF written THEN def[s] # v[s] ELSE def[s] # Absent
  IN  \E s \in Plain(menu) : Differs(s, IsWritten(menu, Entry(menu, s), v))
Unsaved(menu, def) == UnsavedAmong(menu, def, Calculated(menu, def))

\* The file names symbols the menu has not, or two members of a choice.
Warned(menu, content) ==
  \/ \E s \in DOMAIN content \ Plain(menu) : content[s] # Absent
  \/ \E s \in Named(menu) : \E x, y \in MemberSet(menu, s) :
       x # y /\ content[x] = "y" /\ content[y] = "y"

\* conf_read: when all is as it was, symbols nobody sees become new.
ReadBack(menu, content) ==
  LET def == Read(menu, content)
      Shown(v) == {s \in Named(menu) : Visible(Entry(menu, s), v)}
      Kept(shown) == [s \in Named(menu) |->
                        IF Entry(menu, s).of = "none" /\ ~IsChoice(menu, s) /\ s \notin shown
                        THEN Absent ELSE def[s]]
      Reset(v) == IF UnsavedAmong(menu, def, v) THEN def ELSE Kept(Shown(v))
  IN  Reset(Calculated(menu, def))

\* conf_write; universe has every symbol a .config may name.
Written(menu, def, universe) ==
  LET Line(v) == [s \in universe |->
        IF s \in Plain(menu) /\ IsWritten(menu, Entry(menu, s), v) THEN v[s] ELSE Absent]
  IN  Line(Calculated(menu, def))

\* conf_write_autoconf: of what is written, 'n' is not.
Generated(menu, def, universe, unset) ==
  LET Valued(lines) == [s \in universe |-> IF lines[s] \in {Absent, "n"} THEN unset ELSE lines[s]]
  IN  Valued(Written(menu, def, universe))

-----------------------------------------------------------------------------
(* The questions.                                                          *)

IsNew(menu, def, e, v) ==
  /\ Visible(e, v)
  /\ e.of = "none"
  /\ IF IsChoice(menu, e.sym)
     THEN \E x \in MemberSet(menu, e.sym) : Visible(Entry(menu, x), v) /\ def[x] = Absent
     ELSE def[e.sym] = Absent

\* A member that is switched on is what the choice has, and none is new.
Chose(menu, def, e, v) ==
  [s \in Named(menu) |->
     CASE s = e.of -> e.sym
       [] s = e.sym -> "y"
       [] s \in MemberSet(menu, e.of) \ {e.sym} /\ Visible(Entry(menu, s), v) /\ def[s] = Absent -> "n"
       [] OTHER -> def[s]]

\* The answers to one question.
Answers(menu, def, e, v) ==
  IF IsChoice(menu, e.sym)
  THEN {Chose(menu, def, menu[i], v) : i \in {j \in Members(menu, e.sym) : Visible(menu[j], v)}}
  ELSE {[def EXCEPT ![e.sym] = a] : a \in IF Kind[e.sym] = "string" THEN Strings ELSE {"y", "n"}}

\* conf: what is new is asked for, and with oldaskconfig whatever is on show.
IsAsked(menu, every, def, e, v) ==
  IsNew(menu, def, e, v) \/ (every /\ Visible(e, v) /\ e.of = "none")
Visited(menu, every, def, e) ==
  LET Visit(v) == IF IsAsked(menu, every, def, e, v) THEN Answers(menu, def, e, v) ELSE {def}
  IN  Visit(Calculated(menu, def))

\* Mutant: what is asked for is settled before the first answer.
AskedAtOnce(menu, every, def) ==
  LET Visit(d, e, v) == IF IsAsked(menu, every, d, e, v) THEN Answers(menu, d, e, v) ELSE {d}
      upTo[i \in 0..Len(menu)] ==
        IF i = 0 THEN {def}
        ELSE UNION {Visit(d, menu[i], Calculated(menu, def)) : d \in upTo[i - 1]}
  IN  upTo[Len(menu)]

\* The states the questions may be left in, one entry visited after the
\* other.  main goes round until there are no changes; where an answer matters
\* to later entries only, as in this Kconfig, nothing is left for a second
\* round.  Menus that need one are not modelled.
Asked(menu, every, def) ==
  LET upTo[i \in 0..Len(menu)] ==
        IF i = 0 THEN {def} ELSE UNION {Visited(menu, every, d, menu[i]) : d \in upTo[i - 1]}
  IN  upTo[Len(menu)]

\* check_conf finds nothing to ask for.
NothingNew(menu, def) ==
  LET NoneAmong(v) == \A i \in DOMAIN menu : ~IsNew(menu, def, menu[i], v)
  IN  NoneAmong(Calculated(menu, def))

\* conf has found something to write.
Changed(menu, content) == Unsaved(menu, Read(menu, content)) \/ Warned(menu, content)
=============================================================================
