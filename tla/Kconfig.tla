------------------------------- MODULE Kconfig -------------------------------
(***************************************************************************)
(* The configuration of the loader as a whole: AutoConf over the menus of  *)
(* Kconfig, with the values, questions and files conf makes of them.       *)
(***************************************************************************)
EXTENDS AutoConf, KconfigMenu, FiniteSets

CONSTANTS
  Deps,    \* dependencies as Kconfig files give them
  Parents  \* ... and as menu_finalize hands them to what depends on a parent

ASSUME DepsAssumption == Deps \subseteq Exprs /\ Parents \subseteq {e \in Exprs : Flat[e]}

Config0(s, dep, default) ==
  [sym |-> s, prompt |-> TRUE, dep |-> dep, default |-> default, of |-> "none"]

\* Kconfig: one of its optional parts, with its path and validation symbol,
\* and the same before the part became optional.
PartMenu ==
  << Config0("ENABLE", Nothing, No),
     Config0("PATH", Symbol("ENABLE"), Nothing),
     [Config0("VALID", Or(Not(Symbol("ENABLE")),
                          And(Symbol("ENABLE"), Compare("ne", "PATH", ""))), Yes)
        EXCEPT !.prompt = FALSE] >>
OldMenu == << Config0("PATH", Nothing, Nothing) >>

Menus == [part |-> Finalize(PartMenu), older |-> Finalize(OldMenu)]
MenuKinds == [ENABLE |-> "bool", VALID |-> "bool", PATH |-> "string", TRI |-> "tri"]

Lines  == Plain(PartMenu) \cup Plain(OldMenu)
NoLines == [s \in Lines |-> Absent]

\* What conf writes, having read c: nothing if nothing has changed.
Outcome(t, c) ==
  IF Changed(Menus[t], c)
  THEN {Written(Menus[t], d, Lines) : d \in Asked(Menus[t], FALSE, ReadBack(Menus[t], c))}
  ELSE {c}

-----------------------------------------------------------------------------
(* The constants of AutoConf, tabulated, and checked against conf's code.  *)

MenuSymbols  == {"ENABLE", "PATH", "VALID"}
MenuTrees    == {"part", "older"}
\* No .config yet, and what conf leaves as it is.
LinesOf ==
  [none    |-> NoLines,
   off     |-> [NoLines EXCEPT !["ENABLE"] = "n", !["VALID"] = "y"],
   bare    |-> [NoLines EXCEPT !["ENABLE"] = "y", !["PATH"] = ""],
   set     |-> [NoLines EXCEPT !["ENABLE"] = "y", !["PATH"] = "path", !["VALID"] = "y"],
   oldbare |-> [NoLines EXCEPT !["PATH"] = ""],
   oldset  |-> [NoLines EXCEPT !["PATH"] = "path"]]
MenuContents == DOMAIN LinesOf
MenuOutcomes ==
  [part  |-> [none |-> {"off", "bare", "set"}, off |-> {"off"}, bare |-> {"bare"}, set |-> {"set"},
              oldbare |-> {"off", "bare"}, oldset |-> {"off", "set"}],
   older |-> [none |-> {"oldbare", "oldset"}, off |-> {"oldbare", "oldset"},
              bare |-> {"oldbare"}, set |-> {"oldset"},
              oldbare |-> {"oldbare"}, oldset |-> {"oldset"}]]
Given(e, p, v) == [ENABLE |-> e, PATH |-> p, VALID |-> v]
MenuValue ==
  LET alone == Given(Unset, "", Unset)
      path  == Given(Unset, "path", Unset)
      off   == Given(Unset, Unset, "y")
  IN  [part  |-> [none |-> off, off |-> off, bare |-> Given("y", "", Unset),
                  set |-> Given("y", "path", "y"), oldbare |-> off, oldset |-> off],
       older |-> [none |-> alone, off |-> alone, bare |-> alone, set |-> path,
                  oldbare |-> alone, oldset |-> path]]
MenuObjects  == {"main", "arch"}
MenuUses     == [main |-> {"ENABLE", "PATH"}, arch |-> {"VALID"}]

ASSUME TableAssumption ==
  \A t \in MenuTrees : \A c \in MenuContents :
    /\ {LinesOf[d] : d \in MenuOutcomes[t][c]} = Outcome(t, LinesOf[c])
    /\ MenuValue[t][c]
         = Generated(Menus[t], ReadBack(Menus[t], LinesOf[c]), MenuSymbols, Unset)

-----------------------------------------------------------------------------
(* Expressions for the properties of rewriting.                            *)

NestedExprs == Expr[6]
MenuAtoms ==
  {Symbol("ENABLE"), Symbol("TRI"), Compare("ne", "PATH", "")}
    \cup {Compare(op, s, c) : op \in {"eq", "ne"}, s \in {"ENABLE", "TRI"}, c \in {"y", "m", "n"}}
MenuPairs == {And(d, e) : d \in MenuAtoms, e \in MenuAtoms} \cup {Or(d, e) : d \in MenuAtoms, e \in MenuAtoms}
MenuDeps  == MenuAtoms \cup MenuPairs \cup {Not(e) : e \in MenuAtoms \cup MenuPairs}
MenuParents ==
  {Nothing, Symbol("ENABLE"), Compare("ne", "TRI", "m"), Compare("ne", "PATH", "")}

-----------------------------------------------------------------------------
(* What ConfRead relies on.  Each of the following is about every file and *)
(* every expression of the instance, and is asked for when conf is about   *)
(* to read one.                                                            *)

\* The values symbols can have, and those of them without an 'm'.
ValuesOf(s) == CASE Kind[s] = "bool" -> {"n", "y"} [] Kind[s] = "tri" -> {"n", "m", "y"} [] OTHER -> Words
Valuations  == {v \in [DOMAIN Kind -> Words] : \A s \in DOMAIN Kind : v[s] \in ValuesOf(s)}
WithoutMods == {v \in Valuations : \A s \in DOMAIN Kind : Kind[s] = "tri" => v[s] # "m"}

Keeps(d, b, q) ==
  \A v \in Valuations :
    LET value == Val(b, v) IN value = Val(d, v) /\ (value = 0 <=> Val(q, v) = 0)
AllKeepMeaning ==
  LET KeptWithPrompt(d, b) == Keeps(d, b, PromptDep("bool", b, Nothing))
  IN  \A p \in Parents : \A e \in Deps : KeptWithPrompt(And(p, e), BaseDep(p, e))

(* Rewriting keeps the value of every dependency, and that of a prompt of  *)
(* a symbol that cannot be 'm' as far as being 'n' or not                  *)
(* (menu_finalize and the joins of expr.c).                                *)
MeaningKept == pc = "read" => AllKeepMeaning

Reached(s, base, dep) ==
  Nested(s, base, dep) =>
    \A v \in WithoutMods : Val(dep, v) # 0 => v[s] # "n" \/ Val(base, v) # 0
AllListedReached ==
  LET PromptOf(kind, e) == PromptDep(kind, BaseDep(Nothing, e), Nothing)
  IN  \A s \in DOMAIN Kind : \A p \in {x \in Parents : ~ContainsSymbol(x, s)} :
        \A e \in Deps :
          Kind[s] # "string" => Reached(s, PromptOf(Kind[s], p), PromptOf("bool", e))

(* An entry listed below another is on show only when that one is, or is   *)
(* set: otherwise menu_is_visible would skip it with its parent and conf   *)
(* would never ask for it.  That is so as long as nothing is 'm', as in    *)
(* this repository's Kconfig.                                              *)
ListedIsReached == pc = "read" => AllListedReached
=============================================================================
