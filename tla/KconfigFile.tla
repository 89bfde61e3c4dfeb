---------------------------- MODULE KconfigFile ----------------------------
(***************************************************************************)
(* Configuration files (scripts/kconfig/confdata.c and the menu walks that *)
(* it needs from menu.c).                                                  *)
(*                                                                         *)
(* A file is the sequence of its lines that matter: <<"set", symbol,       *)
(* characters>> is CONFIG_symbol=characters, <<"unset", symbol>> is        *)
(* "# CONFIG_symbol is not set", and <<"junk">> a line of no known form.   *)
(* Symbols that auto.conf names and the Kconfig files no longer do are in  *)
(* S.foreign.                                                              *)
(***************************************************************************)
EXTENDS KconfigSymbol

NoFile == << <<"missing">> >>

\* F of v, with v calculated once.
Then(v, F(_)) == CHOOSE r \in {F(x) : x \in {v}} : TRUE

\* What conf_write puts between quotes, and what conf_set_sym_val makes of
\* the characters after the first quote: NoString without a closing quote.
RECURSIVE Escaped(_), Unescaped(_)
Escaped(str) ==
    IF str = <<>> THEN <<>>
    ELSE (IF str[1] \in {"\"", "\\"} THEN <<"\\", str[1]>> ELSE <<str[1]>>) \o Escaped(Tail(str))
Unescaped(str) ==
    IF str = <<>> THEN NoString
    ELSE IF str[1] = "\"" THEN <<>>
    ELSE IF str[1] = "\\" /\ Len(str) = 1 THEN NoString
    ELSE LET skip == IF str[1] = "\\" THEN 2 ELSE 1
             rest == Unescaped(SubSeq(str, skip + 1, Len(str)))
         IN  IF rest = NoString THEN NoString ELSE <<str[skip]>> \o rest

\* Mutant: quotes are written as they are.
Quoted_Plain(str) == <<"\"">> \o str \o <<"\"">>

Quoted(str) == <<"\"">> \o Escaped(str) \o <<"\"">>

\* The value of a line, for the user's values or those of auto.conf; ok is
\* false when the rest of the line's handling is skipped.
StoreTri(S, def, s, v) ==
    IF def = "def_user" THEN [Set(S, s, def) EXCEPT !.dtri[s] = v] ELSE [Set(S, s, def) EXCEPT !.atri[s] = v]
StoreVal(S, def, s, v) ==
    IF def = "def_user" THEN [Set(S, s, def) EXCEPT !.dval[s] = v] ELSE [Set(S, s, def) EXCEPT !.aval[s] = v]
Warned(S) == [S EXCEPT !.warnings = TRUE]

conf_set_sym_val(P, S, def, s, p) ==
    LET type == P.syms[s].type
        str == IF type = "string" THEN Unescaped(Tail(p)) ELSE p
        taken == [S EXCEPT !.ok = TRUE]
    IN  CASE type \in {"boolean", "tristate"} ->
               CASE p[1] = "m" /\ type = "tristate" -> StoreTri(taken, def, s, mod)
                 [] p[1] = "y" -> StoreTri(taken, def, s, yes)
                 [] p[1] = "n" -> StoreTri(taken, def, s, no)
                 [] OTHER      -> Warned(taken)
          [] type = "string" /\ p[1] # "\"" -> taken
          [] (type = "string" /\ p[1] = "\"") \/ type \in {"int", "hex"} ->
               IF str = NoString \/ ~sym_string_valid(type, str) THEN [Warned(S) EXCEPT !.ok = FALSE]
               ELSE StoreVal(taken, def, s, str)
          [] OTHER -> taken

\* What a value of a choice in the file says of the choice.
ReadChoice(P, S, def, s) ==
    LET cs == ChoiceOf(P, s)
        user == def = "def_user"
        tri == IF user THEN S.dtri ELSE S.atri
        A == CASE tri[s] = no  -> S
               [] tri[s] = mod -> IF tri[cs] = yes THEN Clear(Warned(S), cs, def) ELSE S
               [] tri[s] = yes -> LET W == IF tri[cs] # no THEN Warned(S) ELSE S
                                  IN  IF user THEN [W EXCEPT !.dcho[cs] = s] ELSE W
        both == EXPR_OR(tri[cs], tri[s])
    IN  IF ~sym_is_choice_value(P, s) THEN S
        ELSE IF user THEN [A EXCEPT !.dtri[cs] = both] ELSE [A EXCEPT !.atri[cs] = both]

StoreLine(P, S, def, line) ==
    LET s == line[2]
    IN  IF line[1] = "set" THEN conf_set_sym_val(P, S, def, s, line[3])
        ELSE IF P.syms[s].type \in {"boolean", "tristate"} THEN [StoreTri(S, def, s, no) EXCEPT !.ok = TRUE]
        ELSE [S EXCEPT !.ok = TRUE]
ReadLine(P, S, def, line) ==
    LET s == line[2]
        choice(T) == IF T.ok THEN ReadChoice(P, T, def, s) ELSE T
    IN  IF line[1] = "junk" THEN Warned(S)
        ELSE IF s \in Symbols(P) THEN choice(StoreLine(P, IF Is(S, s, def) THEN Warned(S) ELSE S, def, line))
        ELSE IF def = "def_user" THEN [S EXCEPT !.changes = TRUE]
        ELSE [S EXCEPT !.foreign = @ \cup {s}]

RECURSIVE ReadLines(_, _, _, _)
ReadLines(P, S, def, lines) ==
    IF lines = <<>> THEN S
    ELSE Then(ReadLine(P, S, def, Head(lines)), LAMBDA T : ReadLines(P, T, def, Tail(lines)))

\* ok is false when there is no such file; configname tells that no name
\* was given.
conf_read_simple(P, S, file, def, configname) ==
    LET forgotten(s) == (S.flags[s] \ {def, "valid"}) \cup (IF sym_is_choice(P, s) THEN {def} ELSE {})
        A == [S EXCEPT !.warnings = FALSE, !.unsaved = FALSE, !.foreign = {},
                       !.flags = [s \in Symbols(P) |-> forgotten(s)] @@ @]
        clean == NewState(P)
        B == IF def = "def_user" THEN [A EXCEPT !.dtri = clean.dtri, !.dval = clean.dval, !.dcho = clean.dcho]
             ELSE [A EXCEPT !.atri = clean.atri, !.aval = clean.aval]
    IN  IF file = NoFile THEN [S EXCEPT !.changes = @ \/ configname, !.ok = FALSE]
        ELSE [sym_calc_value(P, ReadLines(P, B, def, file), modules_sym) EXCEPT !.ok = TRUE]

\* Whether the value calculated for s agrees with the one in the file; and
\* a choice has a value only when all its visible values have one.
Agrees(P, S, s) ==
    \/ sym_is_choice(P, s) \/ Flagged(P, s, "auto")
    \/ ~sym_has_value(S, s) /\ ~Is(S, s, "write")
    \/ /\ sym_has_value(S, s) /\ Is(S, s, "write")
       /\ IF P.syms[s].type \in {"boolean", "tristate"} THEN S.dtri[s] = S.tri[s] ELSE S.val[s] = S.dval[s]
NewValueVisible(P, S, choice) ==
    \E i \in DOMAIN ChoiceList(P, choice) :
        S.visible[ChoiceList(P, choice)[i]] # no /\ ~sym_has_value(S, ChoiceList(P, choice)[i])
CheckCalculated(P, S, s) ==
    LET A == IF Agrees(P, S, s) THEN S ELSE [S EXCEPT !.unsaved = TRUE]
    IN  IF sym_is_choice(P, s) /\ NewValueVisible(P, A, s) THEN Clear(A, s, "def_user") ELSE A
CheckRead(P, S, s) == CheckCalculated(P, sym_calc_value(P, S, s), s)

\* Values of symbols that are not visible, and numbers out of range, are
\* forgotten.
ResetRange(S, s) == IF S.ok THEN S ELSE [Clear(Clear(S, s, "valid"), s, "def_user") EXCEPT !.unsaved = TRUE]
ResetRead(P, S, s) ==
    LET A == IF S.visible[s] = no /\ ~S.unsaved THEN Clear(S, s, "def_user") ELSE S
    IN  IF ~sym_has_value(S, s) \/ sym_is_choice_value(P, s) THEN S
        ELSE IF P.syms[s].type \notin {"string", "int", "hex"} THEN A
        ELSE ResetRange(sym_string_within_range(P, A, s, A.dval[s]), s)

\* for_all_symbols
RECURSIVE ForAll(_, _, _, _)
ForAll(P, S, Do(_, _, _), i) ==
    IF i > Len(P.order) THEN S ELSE Then(Do(P, S, P.order[i]), LAMBDA T : ForAll(P, T, Do, i + 1))

CheckAllRead(P, S) ==
    IF ~S.ok THEN S
    ELSE Then(ForAll(P, ForAll(P, S, CheckRead, 1), ResetRead, 1),
              LAMBDA T : [T EXCEPT !.changes = @ \/ T.warnings \/ T.unsaved, !.ok = TRUE])
conf_read(P, S, file, configname) ==
    CheckAllRead(P, conf_read_simple(P, [S EXCEPT !.changes = FALSE], file, "def_user", configname))

----------------------------------------------------------------------------
\* menu_is_visible: ok tells.
RECURSIVE menu_is_visible(_, _, _), SomeVisible(_, _, _)
PromptVisible(P, S, prompt) == [S EXCEPT !.pvis[prompt] = S.ret]
MenuCalculated(P, S, m) ==
    LET s == P.menus[m].sym
    IN  IF S.pvis[P.menus[m].prompt] # no THEN [S EXCEPT !.ok = TRUE]
        ELSE IF s = NoSymbol THEN [S EXCEPT !.ok = FALSE]
        ELSE IF S.tri[s] = no THEN [S EXCEPT !.ok = FALSE]
        ELSE SomeVisible(P, S, Chain(P, P.menus[m].list))
menu_is_visible(P, S, m) ==
    LET s == P.menus[m].sym
        prompt == P.menus[m].prompt
    IN  IF prompt = 0 THEN [S EXCEPT !.ok = FALSE]
        ELSE MenuCalculated(P, IF s # NoSymbol THEN sym_calc_value(P, S, s)
                               ELSE PromptVisible(P, expr_calc_value(P, S, P.props[prompt].vis), prompt), m)
SomeVisible(P, S, list) ==
    IF list = <<>> THEN [S EXCEPT !.ok = FALSE]
    ELSE Then(menu_is_visible(P, S, Head(list)), LAMBDA T : IF T.ok THEN T ELSE SomeVisible(P, T, Tail(list)))

\* The lines for a symbol.
TriLines(s, v) ==
    IF v = no THEN << <<"unset", s>> >> ELSE << <<"set", s, IF v = mod THEN <<"m">> ELSE <<"y">> >> >>
LinesOf(P, S, s) ==
    CASE P.syms[s].type \in {"boolean", "tristate"} -> TriLines(s, S.tri[s])
      [] P.syms[s].type = "string"                  -> << <<"set", s, Quoted(S.val[s])>> >>
      [] OTHER                                      -> << <<"set", s, S.val[s]>> >>

\* The menu after m: its first entry, or the next one of it or of the
\* closest menu around it that has one.
RECURSIVE Onward(_, _)
Onward(P, m) == IF m = 0 THEN 0 ELSE IF P.menus[m].next # 0 THEN P.menus[m].next ELSE Onward(P, P.menus[m].parent)
NextMenu(P, m) == IF P.menus[m].list # 0 THEN P.menus[m].list ELSE Onward(P, m)

\* The state and the lines after the menus from m on are written.
RECURSIVE WriteMenus(_, _, _, _)
WriteMenus(P, S, m, lines) ==
    LET s == P.menus[m].sym
        next == NextMenu(P, m)
    IN  IF m = 0 THEN [state |-> S, lines |-> lines]
        ELSE IF s = NoSymbol THEN Then(menu_is_visible(P, S, m), LAMBDA T : WriteMenus(P, T, next, lines))
        ELSE IF sym_is_choice(P, s) THEN WriteMenus(P, S, next, lines)
        ELSE Then(sym_calc_value(P, S, s), LAMBDA T :
                  IF Is(T, s, "write") THEN WriteMenus(P, Clear(T, s, "write"), next, lines \o LinesOf(P, T, s))
                  ELSE WriteMenus(P, T, next, lines))

\* The file that conf_write makes; the change count is cleared once it has
\* its name.
conf_write(P, S) ==
    WriteMenus(P, IF S.changes THEN S ELSE sym_clear_all_valid(P, S), P.menus[1].list, <<>>)

----------------------------------------------------------------------------
\* conf_split_config: the symbols whose header is touched, since their
\* value is not the one of auto.conf.
Touches(P, S, s) ==
    LET type == P.syms[s].type
        write == Is(S, s, "write")
        auto == Is(S, s, "def_auto")
        same == IF type \in {"boolean", "tristate"} THEN S.tri[s] = S.atri[s] ELSE S.val[s] = S.aval[s]
    IN  /\ ~Flagged(P, s, "auto") /\ ~sym_is_choice(P, s)
        /\ \/ write /\ auto /\ ~same
           \/ write /\ ~auto /\ ~(type \in {"boolean", "tristate"} /\ S.tri[s] = no)
           \/ ~write /\ auto

\* Mutant: a symbol that is no longer in the configuration is forgotten.
Split_Kept(P, S, auto) == [state |-> S, touched |-> {s \in Symbols(P) : Touches(P, S, s) /\ Is(S, s, "write")}]

\* Once auto.conf is read and everything calculated.
Split(P, S, auto) ==
    [state |-> S, touched |-> {s \in Symbols(P) : Touches(P, S, s)} \cup (IF auto = NoFile THEN {} ELSE S.foreign)]
conf_split_config(P, S, auto) ==
    Split(P, ForAll(P, conf_read_simple(P, S, auto, "def_auto", FALSE), sym_calc_value, 1), auto)

\* conf_write_autoconf: the lines of auto.conf, which autoconf.h repeats as
\* macros.
AutoLines(P, S, s) ==
    IF ~Is(S, s, "write") \/ sym_is_choice(P, s) THEN <<>>
    ELSE IF P.syms[s].type \in {"boolean", "tristate"} /\ S.tri[s] = no THEN <<>>
    ELSE IF P.syms[s].type = "unknown" THEN <<>>
    ELSE LinesOf(P, S, s)

RECURSIVE AutoFile(_, _, _)
AutoFile(P, S, i) == IF i > Len(P.order) THEN <<>> ELSE AutoLines(P, S, P.order[i]) \o AutoFile(P, S, i + 1)

WithLines(P, split) == [touched |-> split.touched, lines |-> AutoFile(P, split.state, 1)]
conf_write_autoconf(P, S, auto) == WithLines(P, conf_split_config(P, sym_clear_all_valid(P, S), auto))

----------------------------------------------------------------------------
\* conf_set_all_new_symbols: val gives each symbol without a value the one
\* of the mode, or one by chance; pick is the chance that decides a choice.
NewValue(P, S, s, mode, val) ==
    IF sym_has_value(S, s) \/ sym_get_type(P, S, s) \notin {"boolean", "tristate"} \/ mode = "default" THEN S
    ELSE LET A == [S EXCEPT !.dtri[s] = val] IN IF sym_is_choice(P, s) /\ mode = "random" THEN A ELSE Set(A, s, "def_user")

ChooseOne(P, A, s, pick) ==
    LET values == ChoiceList(P, s)
        chosen == values[(pick % Len(values)) + 1]
        set == {values[i] : i \in DOMAIN values}
    IN  IF A.tri[s] # yes THEN A
        ELSE Clear(Set([A EXCEPT !.dcho[s] = chosen,
                                 !.dtri = [x \in set |-> IF x = chosen THEN yes ELSE no] @@ @],
                       s, "def_user"), s, "valid")
RandomChoice(P, S, s, pick) ==
    IF sym_has_value(S, s) \/ ~sym_is_choice(P, s) THEN S ELSE ChooseOne(P, sym_calc_value(P, S, s), s, pick)

\* vals gives the value of each symbol.
conf_set_all_new_symbols(P, S, mode, vals, pick) ==
    Then(sym_clear_all_valid(P, ForAll(P, S, LAMBDA Q, T, s : NewValue(Q, T, s, mode, vals[s]), 1)),
         LAMBDA A : IF mode # "random" THEN A ELSE ForAll(P, A, LAMBDA Q, T, s : RandomChoice(Q, T, s, pick), 1))
=============================================================================
