------------------------------- MODULE Kconfig -------------------------------
(***************************************************************************)
(* Configuring and building: the programs conf (scripts/kconfig/conf.c)    *)
(* and the files that they keep.                                           *)
(*                                                                         *)
(* A program reads .config, asks, writes .config by way of a temporary     *)
(* file, and, as silentoldconfig, brings include/config/ and auto.conf up  *)
(* to date; it may be killed between any two changes of a file.  g is the  *)
(* running program: the state of its symbols, the entries of the menu that *)
(* it has still to visit, and the question that it waits on.               *)
(***************************************************************************)
EXTENDS KconfigFile

CONSTANTS
    Sources,    \* the Kconfig files that the source tree may have
    Parse(_),   \* conf_parse
    Strings,    \* what a user may type for a string or a number
    MaxRuns,    \* the programs that are started
    AskAll,     \* which of them may ask everything, by the runs before
    MaxEdits,   \* the times that .config is edited by hand
    Edited      \* the lines that an edit is about

VARIABLES
    kconfig,    \* the Kconfig file of the source tree
    config,     \* .config
    oldconfig,  \* .config.old
    auto,       \* include/config/auto.conf
    header,     \* include/generated/autoconf.h
    touched,    \* the headers of include/config newer than the objects
    built,      \* what each symbol was when its objects were compiled
    g,          \* the running program
    runs, edits,
    saved       \* history: the configuration that was saved or edited last

vars == <<kconfig, config, oldconfig, auto, header, touched, built, g, runs, edits, saved>>
files == <<config, oldconfig, auto, header, touched>>

Parsed == [f \in Sources |-> Parse(f)]
Accepted(f) == Parsed[f].errors = 0 /\ ~Parsed[f].exit
Here == Parsed[kconfig]

Names == UNION {Symbols(Parsed[f]) : f \in Sources}
LinesFor(file, s) == SelectSeq(file, LAMBDA line : line[1] = "set" /\ line[2] = s)

NoProgram == [pc |-> "none"]

----------------------------------------------------------------------------
\* The menu walk of conf.c.

RECURSIVE menu_get_parent_menu(_, _)
menu_get_parent_menu(P, m) ==
    IF m = 1 THEN m
    ELSE IF P.menus[m].prompt # 0 /\ P.props[P.menus[m].prompt].type = "menu" THEN m
    ELSE menu_get_parent_menu(P, P.menus[m].parent)

\* conf_askvalue: whether the user is asked.
conf_askvalue(S, s, mode) == sym_is_changable(S, s) /\ (mode = "ask_silent" => ~sym_has_value(S, s))

Entries(P, kind, m) == [i \in DOMAIN Chain(P, P.menus[m].list) |-> <<kind, Chain(P, P.menus[m].list)[i]>>]

\* The entries of a choice that can be chosen, in found.
RECURSIVE Visible(_, _, _)
Visible(P, h, list) ==
    IF list = <<>> THEN h
    ELSE Then(menu_is_visible(P, h.S, Head(list)), LAMBDA A :
              Visible(P, [h EXCEPT !.S = A, !.found = IF A.ok /\ P.menus[Head(list)].sym # NoSymbol
                                                      THEN Append(@, Head(list)) ELSE @], Tail(list)))

Looked(P, h, m) == [h EXCEPT !.S = menu_is_visible(P, h.S, m)]

\* conf: an entry, its symbol and its entries.
Question(P, h, m) ==
    LET s == P.menus[m].sym
    IN  IF ~conf_askvalue(h.S, s, h.mode) THEN <<"none">>
        ELSE IF P.syms[s].type \in {"int", "hex", "string"} THEN <<"string", m>>
        ELSE <<"tristate", m>>
ConfVisible(P, h, m, rest) ==
    LET s == P.menus[m].sym
    IN  IF ~h.S.ok THEN [h EXCEPT !.todo = rest]
        ELSE IF P.props[P.menus[m].prompt].type = "menu" /\ h.mode = "ask_silent" /\ h.root # m
             THEN [h EXCEPT !.todo = << <<"check", m>> >> \o rest]
        ELSE IF s = NoSymbol THEN [h EXCEPT !.todo = Entries(P, "conf", m) \o rest]
        ELSE IF sym_is_choice(P, s)
             THEN [h EXCEPT !.todo = << <<"choice", m, ~sym_has_value(h.S, s)>> >> \o rest, !.q = Question(P, h, m)]
        ELSE [h EXCEPT !.todo = Entries(P, "conf", m) \o rest, !.q = Question(P, h, m)]
conf(P, h, m, rest) == ConfVisible(P, Looked(P, h, m), m, rest)

Choose(P, h, chosen, rest) ==
    [h EXCEPT !.S = sym_set_tristate_value(P, @, P.menus[chosen].sym, yes), !.todo = Entries(P, "conf", chosen) \o rest,
              !.found = <<>>]

\* conf_choice, once the choice itself has a value.
ChooseAmong(P, h, m, new, rest) ==
    LET def == {i \in DOMAIN h.found : P.menus[h.found[i]].sym = h.S.cho[P.menus[m].sym]}
        only == Len(h.found) = 1
    IN  IF ~only /\ (h.mode # "ask_silent" \/ new) THEN [h EXCEPT !.todo = rest, !.q = <<"choice", m>>]
        ELSE IF ~only /\ def = {} THEN [h EXCEPT !.q = <<"hung">>]
        ELSE Choose(P, h, h.found[IF only THEN 1 ELSE CHOOSE i \in def : TRUE], rest)
ChoiceValued(P, h, m, new, rest) ==
    LET tri == h.S.tri[P.menus[m].sym]
    IN  IF tri = yes THEN ChooseAmong(P, Visible(P, h, Chain(P, P.menus[m].list)), m, new, rest)
        ELSE [h EXCEPT !.todo = IF tri = mod THEN Entries(P, "conf", m) \o rest ELSE rest]
conf_choice(P, h, m, new, rest) ==
    ChoiceValued(P, [h EXCEPT !.S = sym_calc_value(P, h.S, P.menus[m].sym)], m, new, rest)

\* check_conf: an entry with a new symbol has its whole menu asked.
CheckVisible(P, h, m, rest) ==
    LET s == P.menus[m].sym
        root == menu_get_parent_menu(P, m)
        new == /\ s # NoSymbol
               /\ ~sym_has_value(h.S, s)
               /\ sym_is_changable(h.S, s) \/ (sym_is_choice(P, s) /\ h.S.tri[s] = yes)
    IN  IF ~h.S.ok THEN [h EXCEPT !.todo = rest]
        ELSE IF new THEN [h EXCEPT !.again = TRUE, !.root = root,
                                   !.todo = << <<"conf", root>> >> \o Entries(P, "check", m) \o rest]
        ELSE [h EXCEPT !.todo = Entries(P, "check", m) \o rest]
check_conf(P, h, m, rest) == CheckVisible(P, Looked(P, h, m), m, rest)

\* From one question to the next, or to the end.
RECURSIVE Go(_, _)
Go(P, h) ==
    LET next == Head(h.todo)
        rest == Tail(h.todo)
        recheck == [h EXCEPT !.mode = "ask_silent", !.again = FALSE, !.todo = << <<"check", 1>> >>]
    IN  IF h.q # <<"none">> THEN h
        ELSE IF h.todo = <<>> THEN IF h.mode = "ask_silent" /\ ~h.again THEN [h EXCEPT !.q = <<"done">>] ELSE Go(P, recheck)
        ELSE Then(CASE next[1] = "conf"   -> conf(P, h, next[2], rest)
                    [] next[1] = "choice" -> conf_choice(P, h, next[2], next[3], rest)
                    [] next[1] = "check"  -> check_conf(P, h, next[2], rest),
                  LAMBDA k : Go(P, k))

----------------------------------------------------------------------------
\* A new source tree, or one that was configured with the new symbols set
\* to y and was built.
Fresh ==
    /\ config = NoFile /\ auto = NoFile /\ header = <<>>
    /\ touched = Names
    /\ built = [s \in Names |-> <<>>]
Configured ==
    /\ Accepted(kconfig)
    /\ \E S \in {conf_set_all_new_symbols(Here, NewState(Here), "yes", [s \in DOMAIN Here.syms |-> yes], 0)} :
           config \in {conf_write(Here, S).lines}
    /\ \E S \in {conf_read(Here, NewState(Here), config, TRUE)} : auto \in {conf_write_autoconf(Here, S, NoFile).lines}
    /\ header = auto
    /\ touched = {}
    /\ built = [s \in Names |-> LinesFor(header, s)]

Init ==
    /\ kconfig \in Sources
    /\ Fresh \/ Configured
    /\ oldconfig = NoFile
    /\ g = NoProgram
    /\ runs = 0 /\ edits = 0
    /\ saved = config

\* conf: reads .config, and starts with the whole menu or the new symbols.
\* A broken Kconfig file, or no .config for silentoldconfig, ends it.
Start(mode, sync) ==
    /\ g.pc = "none" /\ runs < MaxRuns /\ (mode = "ask_all" => runs \in AskAll)
    /\ runs' = runs + 1
    /\ IF Accepted(kconfig) /\ (sync => config # NoFile)
       THEN \E S \in {conf_read(Here, NewState(Here), config, TRUE)} :
                g' = Go(Here, [pc |-> "ask", sync |-> sync, S |-> S, mode |-> mode, root |-> 1, again |-> mode = "ask_silent",
                               q |-> <<"none">>, found |-> <<>>, todo |-> IF mode = "ask_silent" THEN <<>> ELSE << <<"conf", 1>> >>])
       ELSE g' = NoProgram
    /\ UNCHANGED <<kconfig, files, built, edits, saved>>

Continue(S) == Go(Here, [g EXCEPT !.S = S, !.q = <<"none">>])

\* conf_sym and conf_string: an answer that is not taken is asked again.
AnswerTristate ==
    /\ g.pc = "ask" /\ g.q[1] = "tristate"
    /\ \E v \in {no, mod, yes} : \E S \in {sym_set_tristate_value(Here, g.S, Here.menus[g.q[2]].sym, v)} :
           S.ok /\ g' = Continue(S)
    /\ UNCHANGED <<kconfig, files, built, runs, edits, saved>>

AnswerString ==
    /\ g.pc = "ask" /\ g.q[1] = "string"
    /\ LET s == Here.menus[g.q[2]].sym
       IN  \E str \in Strings \cup {g.S.val[s]} : \E S \in {sym_set_string_value(Here, g.S, s, str)} :
              S.ok /\ g' = Continue(S)
    /\ UNCHANGED <<kconfig, files, built, runs, edits, saved>>

AnswerChoice ==
    /\ g.pc = "ask" /\ g.q[1] = "choice"
    /\ \E i \in DOMAIN g.found : g' = Go(Here, Choose(Here, [g EXCEPT !.q = <<"none">>], g.found[i], g.todo))
    /\ UNCHANGED <<kconfig, files, built, runs, edits, saved>>

\* main, when nothing is left to ask.
Asked ==
    /\ g.pc = "ask" /\ g.q = <<"done">>
    /\ g' = [pc |-> IF g.sync /\ ~g.S.changes THEN "autoconf" ELSE "write", sync |-> g.sync, S |-> g.S]
    /\ UNCHANGED <<kconfig, files, built, runs, edits, saved>>

\* conf -n, -m, -y, -r, -d: every new symbol gets a value without asking.
SetAll(mode) ==
    /\ g.pc = "none" /\ runs < MaxRuns /\ Accepted(kconfig)
    /\ runs' = runs + 1
    /\ \E pick \in 0 .. 1 : \E A \in {NewState(Here)} :
       \E S \in {IF mode = "default" THEN conf_read(Here, A, config, FALSE) ELSE A} :
           LET vals == [s \in DOMAIN Here.syms |->
                           CASE mode = "yes" -> yes [] mode = "mod" -> mod [] mode = "random" -> IF pick = 0 THEN mod ELSE yes
                             [] OTHER -> no]
           IN  g' = IF mode = "default" /\ ~S.ok THEN NoProgram
                    ELSE [pc |-> "write", sync |-> FALSE, S |-> conf_set_all_new_symbols(Here, S, mode, vals, pick)]
    /\ UNCHANGED <<kconfig, files, built, edits, saved>>

----------------------------------------------------------------------------
\* conf_write: the temporary file, .config becomes .config.old, and the
\* temporary file .config.
WriteConfig ==
    /\ g.pc = "write"
    /\ \E w \in {conf_write(Here, g.S)} : g' = [pc |-> "rename_old", sync |-> g.sync, S |-> w.state, new |-> w.lines]
    /\ UNCHANGED <<kconfig, files, built, runs, edits, saved>>

RenameOld ==
    /\ g.pc = "rename_old"
    /\ oldconfig' = IF config = NoFile THEN oldconfig ELSE config
    /\ config' = NoFile
    /\ g' = [g EXCEPT !.pc = "rename_new"]
    /\ UNCHANGED <<kconfig, auto, header, touched, built, runs, edits, saved>>

RenameNew ==
    /\ g.pc = "rename_new"
    /\ config' = g.new /\ saved' = g.new
    /\ g' = IF g.sync THEN [pc |-> "autoconf", sync |-> TRUE, S |-> [g.S EXCEPT !.changes = FALSE]] ELSE NoProgram
    /\ UNCHANGED <<kconfig, oldconfig, auto, header, touched, built, runs, edits>>

\* conf_write_autoconf: the headers of what changed, then autoconf.h, and
\* auto.conf as the last.
SplitConfig ==
    /\ g.pc = "autoconf"
    /\ \E w \in {conf_write_autoconf(Here, g.S, auto)} :
           /\ touched' = touched \cup w.touched
           /\ g' = [pc |-> "rename_h", new |-> w.lines]
    /\ UNCHANGED <<kconfig, config, oldconfig, auto, header, built, runs, edits, saved>>

RenameHeader ==
    /\ g.pc = "rename_h"
    /\ header' = g.new
    /\ g' = [g EXCEPT !.pc = "rename_auto"]
    /\ UNCHANGED <<kconfig, config, oldconfig, auto, touched, built, runs, edits, saved>>

RenameAuto ==
    /\ g.pc = "rename_auto"
    /\ auto' = g.new
    /\ g' = [pc |-> "make"]
    /\ UNCHANGED <<kconfig, config, oldconfig, header, touched, built, runs, edits, saved>>

\* The compiler: what uses a symbol whose header was touched.
Build ==
    /\ g.pc = "make"
    /\ built' = [s \in Names |-> IF s \in touched THEN LinesFor(header, s) ELSE built[s]]
    /\ touched' = {}
    /\ g' = NoProgram
    /\ UNCHANGED <<kconfig, config, oldconfig, auto, header, runs, edits, saved>>

\* The program is killed, or one of its file operations fails.
Killed ==
    /\ g.pc # "none"
    /\ g' = NoProgram
    /\ UNCHANGED <<kconfig, files, built, runs, edits, saved>>

\* .config loses a line, or gets one that does not fit.
EditConfig ==
    /\ g.pc = "none" /\ edits < MaxEdits /\ config # NoFile
    /\ edits' = edits + 1
    /\ \/ \E i \in DOMAIN config \cap Edited : config' = SubSeq(config, 1, i - 1) \o SubSeq(config, i + 1, Len(config))
       \/ \E i \in DOMAIN config \cap Edited : config' = Append(config, IF config[i][1] = "set" THEN <<"unset", config[i][2]>>
                                                            ELSE <<"set", config[i][2], <<"y">> >>)
       \/ config' = Append(config, <<"junk">>)
    /\ saved' = config'
    /\ UNCHANGED <<kconfig, oldconfig, auto, header, touched, built, g, runs>>

UpdateSource ==
    /\ g.pc = "none"
    /\ kconfig' \in Sources \ {kconfig}
    /\ UNCHANGED <<files, built, g, runs, edits, saved>>

Next ==
    \/ Start("ask_all", FALSE) \/ Start("ask_silent", FALSE) \/ Start("ask_silent", TRUE)
    \/ AnswerTristate \/ AnswerString \/ AnswerChoice \/ Asked
    \/ \E mode \in {"no", "mod", "yes", "random", "default"} : SetAll(mode)
    \/ WriteConfig \/ RenameOld \/ RenameNew
    \/ SplitConfig \/ RenameHeader \/ RenameAuto \/ Build
    \/ Killed \/ EditConfig \/ UpdateSource

Spec == Init /\ [][Next]_vars

----------------------------------------------------------------------------
\* Objects that were compiled with another value of a symbol than the one
\* autoconf.h has are going to be compiled again: the symbol's header under
\* include/config was touched, whichever program was killed where and
\* however the configuration and the Kconfig files changed
\* (conf_split_config, conf_write_autoconf).
ObjectsCurrent == \A s \in Names : s \in touched \/ built[s] = LinesFor(header, s)

\* The configuration that was saved last is in .config or .config.old, even
\* when a program is killed while it saves another (conf_write).
SavedKept == saved # NoFile => saved \in {config, oldconfig}

\* What conf_write wrote, conf_read reads: every symbol gets the value that
\* it had in the program that saved, and nothing counts as changed.
ReadsBack ==
    g.pc = "rename_old" =>
        \E S \in {conf_read(Here, NewState(Here), g.new, TRUE)} :
            /\ ~S.changes
            /\ \A s \in Symbols(Here) : Here.syms[s].type # "unknown" =>
                   sym_get_string_value(Here, S, s) = sym_get_string_value(Here, g.S, s)

\* A configuration that was saved is not lost: neither when a program is
\* killed while it saves another, nor when it is read (conf_write, conf_read).
ConfigKept == SavedKept /\ ReadsBack

\* A value that is kept is the one that a new calculation gives
\* (sym_calc_value, sym_clear_all_valid).
FreshValues ==
    g.pc \in {"ask", "write"} =>
        \E F \in {ForAll(Here, sym_clear_all_valid(Here, g.S), sym_calc_value, 1)} :
            \A s \in Symbols(Here) :
                Is(g.S, s, "valid") => sym_get_string_value(Here, F, s) = sym_get_string_value(Here, g.S, s)

Unset(S) == {s \in Symbols(Here) : ~sym_has_value(S, s)}

\* The questions of conf come to an end: each one that oldconfig asks is
\* about a symbol without a value, its answer gives it one, and no other
\* symbol loses its own (conf_askvalue, check_conf, the loop at the end of
\* main).
AskingEnds ==
    [][g.pc = "ask" /\ g'.pc = "ask" /\ g.mode = "ask_silent" =>
           Unset(g'.S) \subseteq Unset(g.S) /\ Unset(g'.S) # Unset(g.S)]_vars
=============================================================================
