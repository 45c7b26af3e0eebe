----------------------------- MODULE KconfigMenu -----------------------------
(***************************************************************************)
(* A menu as menu_finalize leaves it.                                      *)
(***************************************************************************)
EXTENDS KconfigExpr, KconfigSymbol, TLC

\* menu_finalize: what an entry and what its prompt depend on.
BaseOf(e) == BaseDep(IF e.of = "none" THEN Nothing ELSE Symbol(e.of), e.dep)
Finalized(e) ==
  LET With(base) == e @@ [base |-> base, shown |-> PromptDep(Kind[e.sym], base, Nothing)]
  IN  With(BaseOf(e))
Finalize(menu) == [i \in DOMAIN menu |-> Finalized(menu[i])]
=============================================================================
