------------------------------- MODULE AutoConf -------------------------------
(***************************************************************************)
(* How a change of .config or of the Kconfig files reaches the objects.    *)
(* make compares auto.conf with them and, when it is older, runs conf      *)
(* --silentoldconfig, which may rewrite .config, touches the marker file   *)
(* of every symbol whose value changed, and writes autoconf.h,             *)
(* tristate.conf and, last, auto.conf.  Objects are compiled against       *)
(* autoconf.h and depend on the markers of the symbols they mention.       *)
(* Every step may fail or be cut short by a crash, and the user may edit   *)
(* the files at any time.                                                  *)
(***************************************************************************)
EXTENDS Naturals

CONSTANTS
  Symbols, Values, Unset,    \* Unset: nothing is written for the symbol
  Contents, Missing, Empty,  \* of .config
  Trees,                     \* of Kconfig files
  Outcomes,   \* Outcomes[t][c]: what conf may turn a .config c into
  Value,      \* Value[t][c]: the values conf then gives the symbols
  Objects, Uses,             \* the symbols an object mentions
  MaxEdits, MaxStops         \* bounds: of the user's actions, of failures

ASSUME AutoConfAssumption ==
  /\ Unset \in Values
  /\ Empty \in Contents /\ Missing \notin Contents
  /\ Outcomes \in [Trees -> [Contents -> SUBSET Contents]]
  /\ Value \in [Trees -> [Contents -> [Symbols -> Values]]]
  /\ Uses \in [Objects -> SUBSET Symbols]
  /\ MaxEdits \in Nat /\ MaxStops \in Nat

\* Files that are not there, and objects that are not compiled.
None == [s \in {} |-> Unset]

VARIABLES
  dot, old,   \* .config and .config.old
  kconfig,    \* the Kconfig files
  auto, tristate, header,  \* auto.conf, tristate.conf, autoconf.h
  fresh,      \* auto.conf is newer than .config, Kconfig and auto.conf.cmd
  obj,        \* values each object was compiled with
  stale,      \* objects older than one of their markers
  pc,         \* control point of make and of the conf it runs
  byHand,     \* conf was run by the user, not by make
  mem,        \* .config and Kconfig files as conf holds them
  todo,       \* symbols conf_split_config has not looked at
  tmp,        \* the three temporary files
  edited,     \* a file was edited after they were written
  overtaken,  \* history: ... or after conf had read it and before that
  edits, stops

files == <<dot, old, kconfig>>
generated == <<auto, tristate, header, fresh>>
objects == <<obj, stale>>
conf == <<byHand, mem, todo, tmp>>
marks == <<edited, overtaken>>
bounds == <<edits, stops>>
vars == <<files, generated, objects, pc, conf, marks, bounds>>

Config == [Symbols -> Values]
New == Value[mem.tree][mem.content]

\* Between reading .config and writing the temporary files, and after that.
Reading == {"write", "old", "dep", "split", "tmp"}
Renaming == {"header", "tristate", "auto"}

AutoTypeOK ==
  /\ dot \in Contents \cup {Missing} /\ old \in Contents \cup {Missing}
  /\ kconfig \in Trees
  /\ {auto, tristate, header} \subseteq Config \cup {None}
  /\ {fresh, byHand, edited, overtaken} \subseteq BOOLEAN
  /\ obj \in [Objects -> Config \cup {None}]
  /\ stale \in SUBSET Objects
  /\ pc \in {"idle", "again", "read", "build", "mrproper"} \cup Reading \cup Renaming
  /\ mem \in [tree: Trees, content: Contents]
  /\ todo \in SUBSET Symbols
  /\ tmp \in Config \cup {None}
  /\ edits \in 0..MaxEdits /\ stops \in 0..MaxStops

Init ==
  /\ dot \in Contents /\ old = Missing
  /\ kconfig \in Trees
  /\ auto = None /\ tristate = None /\ header = None /\ fresh = FALSE
  /\ obj = [o \in Objects |-> None] /\ stale = {}
  /\ pc = "idle" /\ byHand = FALSE
  /\ mem = [tree |-> kconfig, content |-> dot]
  /\ todo = {} /\ tmp = None
  /\ edited = FALSE /\ overtaken = FALSE
  /\ edits = 0 /\ stops = 0

-----------------------------------------------------------------------------
(* make and conf.                                                          *)

\* auto.conf is remade before anything else; make then starts over, and looks
\* at it again.
StartMake ==
  /\ pc \in {"idle", "again"}
  /\ pc' = IF fresh THEN "build" ELSE "read"
  /\ byHand' = FALSE
  /\ UNCHANGED <<files, generated, objects, mem, todo, tmp, marks, bounds>>

\* conf reads the files, asks for what is new and settles the values;
\* without a .config only a conf run by hand goes on.
ConfRead ==
  /\ pc = "read"
  /\ dot = Missing => byHand
  /\ LET content == IF dot = Missing THEN Empty ELSE dot
     IN  \E c \in Outcomes[kconfig][content] :
           /\ mem' = [tree |-> kconfig, content |-> c]
           /\ pc' = IF byHand \/ c # dot THEN "write" ELSE "dep"
  /\ overtaken' = (overtaken /\ fresh)
  /\ edited' = FALSE
  /\ UNCHANGED <<files, generated, objects, byHand, todo, tmp, bounds>>

\* conf_write puts the old .config aside, ...
PutAside ==
  /\ pc = "write"
  /\ dot' = Missing
  /\ old' = IF dot = Missing THEN old ELSE dot
  /\ fresh' = FALSE
  /\ pc' = "old"
  /\ UNCHANGED <<kconfig, auto, tristate, header, objects, conf, marks, bounds>>

\* ... and the new one in its place.
PutNew ==
  /\ pc = "old"
  /\ dot' = mem.content
  /\ fresh' = FALSE
  /\ pc' = IF byHand THEN "idle" ELSE "dep"
  /\ UNCHANGED <<old, kconfig, auto, tristate, header, objects, conf, marks, bounds>>

\* auto.conf.cmd is written before anything that depends on it.
WriteDep ==
  /\ pc = "dep"
  /\ fresh' = FALSE
  /\ todo' = Symbols
  /\ pc' = "split"
  /\ UNCHANGED <<files, auto, tristate, header, objects, byHand, mem, tmp, marks, bounds>>

\* The value auto.conf has for a symbol; 'no' is not saved in it.
OldValue(s) == IF auto = None THEN Unset ELSE auto[s]

\* The markers of changed symbols are touched, in the order of the symbols:
\* touched holds the symbols whose marker conf touches if it comes to them.
SplitTouching(touched) ==
  /\ pc = "split"
  /\ \/ /\ todo # {}
        /\ LET s == CHOOSE x \in todo : TRUE
           IN  /\ todo' = todo \ {s}
               /\ stale' = IF s \in touched
                           THEN stale \cup {o \in Objects : s \in Uses[o]}
                           ELSE stale
        /\ UNCHANGED pc
     \/ /\ todo = {}
        /\ pc' = "tmp"
        /\ UNCHANGED <<todo, stale>>
  /\ UNCHANGED <<files, generated, obj, byHand, mem, tmp, marks, bounds>>

\* Mutant: an old value without a new one counts as no change.
SplitOnlyWritten ==
  SplitTouching({s \in Symbols : New[s] # Unset /\ OldValue(s) # New[s]})

Split == SplitTouching({s \in Symbols : OldValue(s) # New[s]})

WriteTmp ==
  /\ pc = "tmp"
  /\ tmp' = New
  /\ edited' = FALSE
  /\ pc' = "header"
  /\ UNCHANGED <<files, generated, objects, byHand, mem, todo, overtaken, bounds>>

RenameHeader ==
  /\ pc = "header"
  /\ header' = tmp
  /\ pc' = "tristate"
  /\ UNCHANGED <<files, auto, tristate, fresh, objects, conf, marks, bounds>>

RenameTristate ==
  /\ pc = "tristate"
  /\ tristate' = tmp
  /\ pc' = "auto"
  /\ UNCHANGED <<files, auto, header, fresh, objects, conf, marks, bounds>>

\* The last step; the file is as old as its contents.
RenameAutoBeing(newer) ==
  /\ pc = "auto"
  /\ auto' = tmp
  /\ fresh' = newer
  /\ pc' = "again"
  /\ UNCHANGED <<files, tristate, header, objects, conf, marks, bounds>>

\* Mutant: the file is touched once it is in place.
RenameAutoTouched == RenameAutoBeing(TRUE)

\* Mutant: auto.conf.cmd is written after it.
RenameAutoBeforeDep == RenameAutoBeing(FALSE)

RenameAuto == RenameAutoBeing(~edited)

ToBuild == {o \in Objects : obj[o] = None \/ o \in stale}

\* Each object that is missing or older than a marker is compiled.
Build ==
  /\ pc = "build"
  /\ \E o \in ToBuild :
       /\ obj' = [obj EXCEPT ![o] = header]
       /\ stale' = stale \ {o}
  /\ UNCHANGED <<files, generated, pc, conf, marks, bounds>>

EndMake ==
  /\ pc = "build" /\ ToBuild = {}
  /\ pc' = "idle"
  /\ UNCHANGED <<files, generated, objects, conf, marks, bounds>>

\* make mrproper: everything compiled goes first, then the configuration.
\* It is not begun again by the next make when it is cut short.
Mrproper ==
  /\ pc = "mrproper"
  /\ dot' = Missing /\ old' = Missing
  /\ auto' = None /\ tristate' = None /\ header' = None /\ fresh' = FALSE
  /\ pc' = "idle"
  /\ UNCHANGED <<kconfig, objects, conf, marks, bounds>>

ConfStep ==
  \/ ConfRead \/ PutAside \/ PutNew \/ WriteDep \/ Split \/ WriteTmp
  \/ RenameHeader \/ RenameTristate \/ RenameAuto

Make == StartMake \/ ConfStep \/ Build \/ EndMake \/ Mrproper

-----------------------------------------------------------------------------
(* The user, and failures.                                                 *)

UserAct == edits < MaxEdits /\ edits' = edits + 1 /\ UNCHANGED stops

\* An editor, a copied defconfig or an update of the sources.
Edit ==
  /\ UserAct
  /\ \/ dot' \in Contents \ {dot} /\ UNCHANGED kconfig
     \/ kconfig' \in Trees \ {kconfig} /\ UNCHANGED dot
  /\ fresh' = FALSE
  /\ overtaken' = (overtaken \/ pc \in Reading)
  /\ edited' = (edited \/ pc \in Renaming)
  /\ UNCHANGED <<old, auto, tristate, header, objects, pc, conf>>

\* make oldconfig
OldConfig ==
  /\ UserAct
  /\ pc = "idle"
  /\ pc' = "read" /\ byHand' = TRUE
  /\ UNCHANGED <<files, generated, objects, mem, todo, tmp, marks>>

\* make clean, and the first part of make mrproper.
Clean ==
  /\ UserAct
  /\ pc = "idle"
  /\ obj' = [o \in Objects |-> None] /\ stale' = {}
  /\ pc' \in {"idle", "mrproper"}
  /\ UNCHANGED <<files, generated, conf, marks>>

User == Edit \/ OldConfig \/ Clean

\* A file that cannot be written, a compile error, a crash; conf also gives
\* up when it may not change .config or has nobody to ask.
Stop ==
  /\ pc # "idle"
  /\ stops < MaxStops /\ stops' = stops + 1
  /\ pc' = "idle"
  /\ UNCHANGED <<files, generated, objects, conf, marks, edits>>

\* Without a .config conf gives up too.
NothingToRead ==
  /\ pc = "read" /\ dot = Missing /\ ~byHand
  /\ pc' = "idle"
  /\ UNCHANGED <<files, generated, objects, conf, marks, bounds>>

Next == Make \/ NothingToRead \/ User \/ Stop

\* Whoever builds runs make again until it is done.
Spec == Init /\ [][Next]_vars /\ WF_vars(Make \/ NothingToRead)

-----------------------------------------------------------------------------
(* Makefile:437: when auto.conf is newer than .config nobody has tinkered  *)
(* with it since: autoconf.h, tristate.conf and auto.conf hold the values  *)
(* of the .config and the Kconfig files there are, whatever was cut short  *)
(* on the way.  Only an edit made while conf was between reading the files *)
(* and writing its temporary ones goes unnoticed.                          *)
FreshAgrees ==
  fresh /\ ~overtaken =>
    /\ dot # Missing
    /\ header = Value[kconfig][dot]
    /\ auto = header /\ tristate = header

(* An object make does not compile again was compiled with the values      *)
(* auto.conf has for the symbols it mentions: a change of a symbol reaches *)
(* its users even if conf is cut short and the next conf, for another      *)
(* change, completes (confdata.c:1018, the order of the renames).          *)
CurrentObjectsAgree ==
  \A o \in Objects \ ToBuild : \A s \in Uses[o] : auto # None /\ obj[o][s] = auto[s]

(* Once the user and the failures leave make alone, and unless .config is  *)
(* gone, it reaches a state in which it has nothing to do and stays there. *)
Converges == <>[](dot = Missing \/ (fresh /\ ToBuild = {}))
=============================================================================
