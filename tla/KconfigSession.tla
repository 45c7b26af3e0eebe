---------------------------- MODULE KconfigSession ----------------------------
(***************************************************************************)
(* A user at the configuration menu: a front end that has read .config,    *)
(* the settings made in it, and the targets that write a .config or a      *)
(* minimal one (savedefconfig) without asking.                             *)
(***************************************************************************)
EXTENDS KconfigSymbol

CONSTANTS
  Menu, Lines,   \* the menu, and every symbol a .config may name
  Files,         \* what .config may hold to begin with
  MaxSettings    \* bound: settings made

\* What a symbol's value may be, and what a .config may say of it.
OfKind(s)  == IF Kind[s] = "string" THEN Strings ELSE {"y", "n"}
Texts      == Strings \cup {"y", "n"}
Valuations == {v \in [Named(Menu) -> Texts] : \A s \in Named(Menu) : v[s] \in OfKind(s)}
FileContents == {c \in [Lines -> Texts \cup {Absent}] :
                 \A s \in Plain(Menu) : c[s] \in OfKind(s) \cup {Absent}}

ASSUME SessionAssumption ==
  /\ Plain(Menu) \subseteq Lines /\ MaxSettings \in Nat
  /\ Files \subseteq FileContents
  /\ "" \in Strings /\ Absent \notin Strings

\* Every symbol has one entry, a choice comes before its members, which are
\* bool and have no default, and the default of a string is one.
ASSUME EntriesAssumption ==
  /\ Len(Menu) \in Nat /\ DOMAIN Menu = 1..Len(Menu)
  /\ {"none", Absent} \cap Named(Menu) = {}
  /\ \A i, j \in DOMAIN Menu : Menu[i].sym = Menu[j].sym => i = j
  /\ \A j \in DOMAIN Menu : Menu[j].of # "none" =>
       /\ \E i \in 1..(j - 1) : Menu[i].sym = Menu[j].of /\ Menu[i].of = "none"
       /\ Menu[j].default = Nothing /\ ~IsChoice(Menu, Menu[j].sym)
  /\ \A i \in DOMAIN Menu :
       Kind[Menu[i].sym] = "string" =>
         /\ Menu[i].of = "none" /\ ~IsChoice(Menu, Menu[i].sym)
         /\ Menu[i].default # Nothing => Menu[i].default.sym \in Strings

\* The expressions an entry's value follows from look at symbols before it
\* only, those of a member of a choice at the choice alone.  This Kconfig is
\* of that kind.  The code takes others: sym_check_deps refuses symbols that
\* depend on each other, but not an entry that refers to a later one, after
\* which conf may have to go round again (conf.c:679-685).
ExpressionsOf(e) ==
  {e.shown, e.base}
    \cup (IF Kind[e.sym] = "string" \/ IsChoice(Menu, e.sym) THEN {} ELSE {And(e.default, e.base)})
Scope(i) == IF Menu[i].of = "none" THEN {Menu[j].sym : j \in 1..(i - 1)} ELSE {Menu[i].of}
Above(i, v) == [s \in Named(Menu) |-> IF s \in Scope(i) THEN v[s] ELSE Uncalculated(Menu)[s]]
ASSUME ScopeAssumption ==
  \A i \in DOMAIN Menu : \A x \in ExpressionsOf(Menu[i]) :
    \A v \in Valuations : ValueOf(x, v) = ValueOf(x, Above(i, v))

VARIABLES
  file,      \* .config
  def,       \* what the user and the file said, as the front end holds it
  changed,   \* conf_get_changed(): quitting asks whether to save
  minimal,   \* the file savedefconfig wrote, or NoFile
  origin,    \* history: the configuration it was made of
  byTool,    \* history: .config was written by one of the tools
  latest,    \* history: the last setting, unless it was given up
  settings

sessionVars == <<file, def, changed, minimal, origin, byTool, latest, settings>>

NoFile    == [none |-> TRUE]
NoSetting == [none |-> TRUE]
OnScreen(d) == Calculated(Menu, d)

\* Mutant: what is off has no line, as in auto.conf.
WholeButNo(d) ==
  LET Shortened(c) == [s \in Lines |-> IF c[s] = "n" THEN Absent ELSE c[s]]
  IN  Shortened(Written(Menu, d, Lines))

Whole(d)  == Written(Menu, d, Lines)

\* A front end that has read a .config.
Started(content) ==
  [file |-> content, def |-> ReadBack(Menu, content), changed |-> Changed(Menu, content)]

SessionInit ==
  /\ \E s \in {Started(c) : c \in Files} : file = s.file /\ def = s.def /\ changed = s.changed
  /\ minimal = NoFile /\ origin = NoFile
  /\ byTool = FALSE /\ latest = NoSetting
  /\ settings = 0

-----------------------------------------------------------------------------
(* Settings.                                                               *)

\* sym_tristate_within_range, v being the values on the screen: a choice is
\* selected by its prompt, and of its members one can only be switched on.
WithinRange(e, val, v) ==
  /\ Visible(e, v)
  /\ ~IsChoice(Menu, e.sym)
  /\ e.of # "none" => val = "y"

\* Mutant: the choice keeps the member it had.
SetMemberAlone(e, val, v) ==
  /\ WithinRange(e, val, v) \/ v[e.sym] = val
  /\ def' = [def EXCEPT ![e.sym] = val]
  /\ changed' = (changed \/ v[e.sym] # val)

\* Mutant: only a symbol without a value counts as a change.
SetTristateNewOnly(e, val, v) ==
  /\ WithinRange(e, val, v) \/ v[e.sym] = val
  /\ def' = IF e.of # "none" /\ val = "y" THEN Chose(Menu, def, e, v) ELSE [def EXCEPT ![e.sym] = val]
  /\ changed' = (changed \/ def[e.sym] = Absent)

SetTristate(e, val, v) ==
  /\ WithinRange(e, val, v) \/ v[e.sym] = val
  /\ def' = IF e.of # "none" /\ val = "y" THEN Chose(Menu, def, e, v) ELSE [def EXCEPT ![e.sym] = val]
  /\ changed' = (changed \/ v[e.sym] # val)

\* A symbol that has become new may still hold its old text, which the code
\* takes for no change (symbol.c:687-690).  That needs a prompt that has a
\* condition of its own; this Kconfig has none.
SetString(e, str) ==
  /\ def' = [def EXCEPT ![e.sym] = str]
  /\ changed' = (changed \/ def[e.sym] # str)

\* The front ends offer what is visible, and of a choice its members.
Offered(v) == {i \in DOMAIN Menu : Visible(Menu[i], v) /\ ~IsChoice(Menu, Menu[i].sym)}
SetTo(e, val, v) ==
  /\ IF Kind[e.sym] = "string" THEN SetString(e, val) ELSE SetTristate(e, val, v)
  /\ latest' = [sym |-> e.sym, val |-> val]
SetOne(v) ==
  \E i \in Offered(v) :
    \E val \in IF Kind[Menu[i].sym] = "string" THEN Strings ELSE {"y", "n"} : SetTo(Menu[i], val, v)
Set ==
  /\ settings < MaxSettings /\ settings' = settings + 1
  /\ SetOne(OnScreen(def))
  /\ UNCHANGED <<file, minimal, origin, byTool>>

-----------------------------------------------------------------------------
(* Files.                                                                  *)

Save ==
  /\ file' = Whole(def)
  /\ changed' = FALSE /\ byTool' = TRUE
  /\ UNCHANGED <<def, minimal, origin, latest, settings>>

Start(s) == file' = s.file /\ def' = s.def /\ changed' = s.changed

\* Leaving without saving, and starting again.
Restart ==
  /\ Start(Started(file))
  /\ latest' = IF changed THEN NoSetting ELSE latest
  /\ UNCHANGED <<minimal, origin, byTool, settings>>

\* sym_get_string_default: a choice member has none.
DefaultOf(e, v) ==
  CASE Kind[e.sym] = "string" -> IF HasDefault(e, v) THEN e.default.sym ELSE ""
    [] OTHER -> IfSo(HasDefault(e, v) /\ ValueOf(And(e.default, e.base), v) # 0)

\* Mutant: every member of a choice that is on is taken for its default.
RedundantMember(e, v) ==
  \/ ~Visible(e, v)
  \/ v[e.sym] = DefaultOf(e, v)
  \/ e.of # "none" /\ v[e.sym] = "y"

\* The line can be left out: the symbol cannot be changed, has its default,
\* or is the member its choice has by default.
Redundant(e, v) ==
  \/ ~Visible(e, v)
  \/ v[e.sym] = DefaultOf(e, v)
  \/ e.of # "none" /\ v[e.sym] = "y" /\ ChoiceDefault(Menu, Entry(Menu, e.of), v) = e.sym

Minimal(d) ==
  LET Line(v) == [s \in Lines |->
        IF s \in Plain(Menu) /\ IsWritten(Menu, Entry(Menu, s), v) /\ ~Redundant(Entry(Menu, s), v)
        THEN v[s] ELSE Absent]
  IN  Line(OnScreen(d))

\* conf --savedefconfig
SaveDefconfig ==
  /\ minimal' = Minimal(ReadBack(Menu, file))
  /\ origin' = Whole(ReadBack(Menu, file))
  /\ UNCHANGED <<file, def, changed, byTool, latest, settings>>

\* conf_set_all_new_symbols, having read d: what it may make of the symbols
\* that have no value.  A choice takes its default, or any member at random.
AllNew(mode, d) ==
  LET Bools == {s \in Plain(Menu) : Kind[s] = "bool" /\ d[s] = Absent}
      Picks == {s \in Named(Menu) : IsChoice(Menu, s) /\ d[s] = Absent}
      Given(b, p) == [s \in Named(Menu) |->
                        IF s \in DOMAIN b THEN b[s] ELSE IF s \in DOMAIN p THEN p[s] ELSE d[s]]
  IN  CASE mode = "default" -> {d}
        [] mode = "yes" -> {Given([s \in Bools |-> "y"], <<>>)}
        [] mode = "no"  -> {Given([s \in Bools |-> "n"], <<>>)}
        [] mode = "random" ->
             {Given(b, p) : b \in [Bools -> {"y", "n"}],
                            p \in {q \in [Picks -> Named(Menu)] :
                                     \A s \in Picks : q[s] \in MemberSet(Menu, s)}}

Unread == [s \in Named(Menu) |-> Absent]

\* The tools write .config whether or not it has changed, and the front end
\* is started anew.
WriteConfig(outcomes) ==
  /\ \E s \in outcomes : Start(s)
  /\ byTool' = TRUE
  /\ latest' = NoSetting
  /\ UNCHANGED <<minimal, origin, settings>>

\* make allnoconfig, allyesconfig, alldefconfig and randconfig
Presets ==
  {Started(Whole(d)) : d \in UNION {AllNew(m, Unread) : m \in {"default", "yes", "no", "random"}}}
AllConfig == WriteConfig(Presets)

\* make defconfig
Defconfig ==
  /\ minimal # NoFile
  /\ WriteConfig({Started(Whole(d)) : d \in AllNew("default", ReadBack(Menu, minimal))})

\* make config and oldconfig ask and write.
Questions(every) == Asked(Menu, every, ReadBack(Menu, file))
AskConfig == \E every \in BOOLEAN : WriteConfig({Started(Whole(d)) : d \in Questions(every)})

\* make olddefconfig
OldDefconfig == WriteConfig({Started(Whole(ReadBack(Menu, file)))})

\* silentoldconfig, as any make runs it, writes if there is something new.
Refreshed(d) ==
  Started(IF Changed(Menu, file) \/ d # ReadBack(Menu, file) THEN Whole(d) ELSE file)
SilentOldConfig == WriteConfig({Refreshed(d) : d \in Questions(FALSE)})

SessionNext ==
  \/ Set \/ Save \/ Restart \/ SaveDefconfig \/ AllConfig \/ Defconfig
  \/ AskConfig \/ OldDefconfig \/ SilentOldConfig

SessionSpec == SessionInit /\ [][SessionNext]_sessionVars

-----------------------------------------------------------------------------
(* Quitting without a question loses nothing: as long as conf_get_changed  *)
(* says no, .config has the values on the screen (mconf.c:962).            *)
QuitLosesNothing == ~changed => file = Whole(def)

(* "All values that has default values are skipped as this is redundant"   *)
(* (confdata.c:655): what savedefconfig leaves out comes back when the     *)
(* file is used as a defconfig.                                            *)
MinimalIsEnough ==
  minimal # NoFile => \A d \in AllNew("default", ReadBack(Menu, minimal)) : Whole(d) = origin

(* What a tool has written, a front end after any settings or a target,    *)
(* whether it asks or not, is complete: the next make neither asks nor     *)
(* rewrites it (conf.c:674, silentoldconfig).                              *)
NothingAskedAgain ==
  byTool => /\ ~Changed(Menu, file)
            /\ NothingNew(Menu, ReadBack(Menu, file))

(* A setting that is accepted is the symbol's value, and of a choice that  *)
(* of no other member, until the next setting; quitting without a question *)
(* and starting again does not change that (sym_set_tristate_value).       *)
SettingHolds ==
  latest # NoSetting =>
    LET Kept(v, e) ==
          /\ v[e.sym] = latest.val
          /\ e.of # "none" /\ latest.val = "y" =>
               \A s \in MemberSet(Menu, e.of) \ {e.sym} : v[s] = "n"
    IN  Kept(OnScreen(def), Entry(Menu, latest.sym))

(* Whatever the file says and whatever is answered, what conf writes it    *)
(* reads back without a question, without a reason to write it again and   *)
(* with the values it had: make does not run into the same questions on    *)
(* every build, and auto.conf is the same whoever makes it                 *)
(* (confdata.c:428, "check that calculated value agrees with saved         *)
(* value").  No question is left, either, and a file that conf leaves      *)
(* alone is one it would write like that.                                  *)
RoundTrip ==
  \A d \in Questions(FALSE) :
    LET SameAgain(lines, again) ==
          /\ NothingNew(Menu, d)
          /\ Changed(Menu, file) <=> lines # file
          /\ ~Changed(Menu, lines) /\ Asked(Menu, FALSE, again) = {again}
          /\ Generated(Menu, again, Lines, Absent) = Generated(Menu, d, Lines, Absent)
    IN  SameAgain(Whole(d), ReadBack(Menu, Whole(d)))

OneOfChoice(s, v) ==
  (\E x \in MemberSet(Menu, s) : Visible(Entry(Menu, x), v)) =>
    \E x \in MemberSet(Menu, s) : \A y \in MemberSet(Menu, s) : v[y] = "y" <=> y = x

(* Whatever .config says, whatever is set and whatever is answered, exactly *)
(* one target architecture is selected, which is what the Makefile and the  *)
(* #elif chain of arch.c choose the code by (Kconfig:4): of a choice with a *)
(* member on show exactly one is on.                                        *)
OneArchitecture ==
  LET OneOn(v) == \A s \in Named(Menu) : OneOfChoice(s, v)
  IN  OneOn(OnScreen(def))
=============================================================================
