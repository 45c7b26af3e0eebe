--------------------------- MODULE MCKconfigSession ---------------------------
(***************************************************************************)
(* A session over a menu in the manner of Kconfig: the choice of the       *)
(* architecture, a part that is switched on, its path, its validation      *)
(* symbol, and a symbol whose default follows another.                     *)
(***************************************************************************)
EXTENDS KconfigSession, KconfigMenu

Config0(s, dep, default, of) ==
  [sym |-> s, prompt |-> TRUE, dep |-> dep, default |-> default, of |-> of]

SessionEntries ==
  << Config0("ARCH", Nothing, Symbol("LOONGARCH64"), "none"),
     Config0("LOONGARCH64", Nothing, Nothing, "ARCH"),
     Config0("RISCV64", Nothing, Nothing, "ARCH"),
     Config0("ENABLE", Nothing, No, "none"),
     Config0("PATH", Symbol("ENABLE"), [op |-> "sym", sym |-> "path"], "none"),
     Config0("EMBED", Symbol("RISCV64"), Symbol("ENABLE"), "none"),
     [Config0("VALID", Or(Not(Symbol("ENABLE")), Compare("ne", "PATH", "")), Yes, "none")
        EXCEPT !.prompt = FALSE] >>

\* These dependencies are as menu_finalize leaves them.
SessionMenu ==
  LET With(e, d) == e @@ [base |-> d, shown |-> d]
  IN  [i \in DOMAIN SessionEntries |->
         LET e == SessionEntries[i] IN With(e, IF e.of = "none" THEN e.dep ELSE Symbol(e.of))]
ASSUME MenuAssumption == SessionMenu = Finalize(SessionEntries)

SessionExprs == Expr[4]
SessionKinds ==
  [ARCH |-> "bool", LOONGARCH64 |-> "bool", RISCV64 |-> "bool", ENABLE |-> "bool",
   PATH |-> "string", EMBED |-> "bool", VALID |-> "bool"]
SessionLines == {"LOONGARCH64", "RISCV64", "ENABLE", "PATH", "EMBED", "VALID"}

\* Files written by hand: the choice made not at all, once or twice, and
\* symbols with and without a line.
NoLines == [s \in SessionLines |-> Absent]
SessionFiles ==
  {[NoLines EXCEPT !["LOONGARCH64"] = l, !["RISCV64"] = r, !["ENABLE"] = e, !["PATH"] = p] :
     l \in {Absent, "y"}, r \in {Absent, "y"}, e \in {Absent, "y"}, p \in {Absent, "path"}}
=============================================================================
