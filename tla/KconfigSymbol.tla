--------------------------- MODULE KconfigSymbol ---------------------------
(***************************************************************************)
(* The values of configuration symbols (scripts/kconfig/symbol.c).         *)
(*                                                                         *)
(* P is what the parser built (module KconfigMenu); S is what changes      *)
(* afterwards: for every symbol its flags SYMBOL_VALID, SYMBOL_WRITE,      *)
(* SYMBOL_DEF_USER and SYMBOL_DEF_AUTO, its visibility, the value of its   *)
(* reverse dependencies, its current value, the user's and auto.conf's,    *)
(* and the visibility of every property.  A value is calculated when it is *)
(* asked for and kept until SYMBOL_VALID is cleared.                       *)
(*                                                                         *)
(* A string is the sequence of its characters; a choice's value is a       *)
(* symbol, in cho and dcho.  What tells displays to refresh                *)
(* (SYMBOL_CHANGED, MENU_CHANGED) is left out.                             *)
(***************************************************************************)
EXTENDS KconfigMenu, TLC

CONSTANT Text   \* the name of each symbol that stands for its own name, as a string

Digits == [c \in {"0", "1", "2", "3", "4", "5", "6", "7", "8", "9", "a", "b", "c", "d", "e", "f"} |->
    CASE c = "0" -> 0 [] c = "1" -> 1 [] c = "2" -> 2 [] c = "3" -> 3 [] c = "4" -> 4 [] c = "5" -> 5
      [] c = "6" -> 6 [] c = "7" -> 7 [] c = "8" -> 8 [] c = "9" -> 9 [] c = "a" -> 10 [] c = "b" -> 11
      [] c = "c" -> 12 [] c = "d" -> 13 [] c = "e" -> 14 [] c = "f" -> 15]
IsDigit(c, base) == c \in DOMAIN Digits /\ Digits[c] < base
Prefixed(str) == Len(str) >= 2 /\ str[1] = "0" /\ str[2] = "x"

\* a null string pointer
NoString == <<"(null)">>

\* strtol, sprintf with %d and with 0x%x
RECURSIVE Digested(_, _, _), Spelled(_, _)
Digested(str, base, n) ==
    IF str = <<>> \/ ~IsDigit(str[1], base) THEN n ELSE Digested(Tail(str), base, n * base + Digits[str[1]])
strtol(str, base) ==
    IF str # <<>> /\ str[1] = "-" THEN 0 - Digested(Tail(str), base, 0)
    ELSE Digested(IF base = 16 /\ Prefixed(str) THEN SubSeq(str, 3, Len(str)) ELSE str, base, 0)
Spelled(n, base) ==
    LET d == CHOOSE c \in DOMAIN Digits : Digits[c] = n % base
    IN  IF n < base THEN <<d>> ELSE Append(Spelled(n \div base, base), d)
sprintf(n, type) ==
    IF type = "hex" THEN <<"0", "x">> \o Spelled(n, 16)
    ELSE IF n < 0 THEN <<"-">> \o Spelled(0 - n, 10) ELSE Spelled(n, 10)

----------------------------------------------------------------------------
Is(S, s, flag) == flag \in S.flags[s]
Set(S, s, flag) == [S EXCEPT !.flags = (s :> (S.flags[s] \cup {flag})) @@ S.flags]
Clear(S, s, flag) == [S EXCEPT !.flags = (s :> (S.flags[s] \ {flag})) @@ S.flags]
sym_has_value(S, s) == Is(S, s, "def_user")

\* The symbols of the hash table.
Symbols(P) == {P.order[i] : i \in DOMAIN P.order}
PropsOf(P, s, Wanted(_)) == SelectSeq(P.syms[s].props, LAMBDA p : Wanted(P.props[p]))

sym_get_type(P, S, s) ==
    IF /\ P.syms[s].type = "tristate"
       /\ \/ sym_is_choice_value(P, s) /\ S.visible[s] = yes
          \/ S.modules_val = no
    THEN "boolean" ELSE P.syms[s].type

sym_get_string_value(P, S, s) ==
    IF P.syms[s].type \in {"boolean", "tristate"}
    THEN CASE S.tri[s] = no -> <<"n">> [] S.tri[s] = mod -> <<"m">> [] S.tri[s] = yes -> <<"y">>
    ELSE S.val[s]

\* The symbols of an expression, in the order in which they are calculated.
RECURSIVE SymbolsIn(_)
SymbolsIn(e) ==
    CASE e = NULL        -> <<>>
      [] e[1] = "symbol" -> <<e[2]>>
      [] e[1] = "not"    -> SymbolsIn(e[2])
      [] IsBinary(e)     -> SymbolsIn(e[2]) \o SymbolsIn(e[3])
      [] OTHER           -> <<e[2], e[3]>>

\* The value of an expression whose symbols are calculated.
RECURSIVE ExprValue(_, _, _)
ExprValue(P, S, e) ==
    LET same == sym_get_string_value(P, S, e[2]) = sym_get_string_value(P, S, e[3])
    IN  CASE e = NULL            -> yes
          [] e[1] = "symbol"     -> S.tri[e[2]]
          [] e[1] = "and"        -> EXPR_AND(ExprValue(P, S, e[2]), ExprValue(P, S, e[3]))
          [] e[1] = "or"         -> EXPR_OR(ExprValue(P, S, e[2]), ExprValue(P, S, e[3]))
          [] e[1] = "not"        -> EXPR_NOT(ExprValue(P, S, e[2]))
          [] e[1] = "equal"      -> IF same THEN yes ELSE no
          [] e[1] = "unequal"    -> IF same THEN no ELSE yes

RECURSIVE sym_calc_value(_, _, _), CalcAll(_, _, _), FirstVisible(_, _, _), sym_calc_choice(_, _, _, _)

CalcAll(P, S, list) == IF list = <<>> THEN S ELSE CalcAll(P, sym_calc_value(P, S, Head(list)), Tail(list))

\* The state after e is evaluated, with e's value in ret.
Evaluated(P, S, e) == [S EXCEPT !.ret = ExprValue(P, S, e)]
expr_calc_value(P, S, e) == Evaluated(P, CalcAll(P, S, SymbolsIn(e)), e)

Greatest(tris) == CHOOSE t \in tris : \A u \in tris : u <= t

\* The visibility of the prompts ps, and of s by the one that is most visible.
Prompts(P, s) == PropsOf(P, s, LAMBDA p : p.text)
Shown(P, S, s, ps) ==
    LET tri == Greatest({no} \cup {ExprValue(P, S, P.props[p].vis) : p \in ps})
    IN  [S EXCEPT !.pvis = [p \in ps |-> ExprValue(P, S, P.props[p].vis)] @@ @,
                  !.visible[s] = IF tri = mod /\ (P.syms[s].type # "tristate" \/ S.modules_val = no) THEN yes ELSE tri]
\* What the symbols that select s ask for.
Selected(P, S, s) == [S EXCEPT !.rev[s] = IF S.ret = mod /\ sym_get_type(P, S, s) = "boolean" THEN yes ELSE S.ret]
ReverseDependency(P, S, s) ==
    IF sym_is_choice_value(P, s) THEN S
    ELSE IF P.syms[s].rev_dep = NULL THEN [S EXCEPT !.rev[s] = no]
    ELSE Selected(P, expr_calc_value(P, S, P.syms[s].rev_dep), s)

RECURSIVE SymbolsOfAll(_, _)
SymbolsOfAll(P, ps) == IF ps = <<>> THEN <<>> ELSE SymbolsIn(P.props[Head(ps)].vis) \o SymbolsOfAll(P, Tail(ps))

sym_calc_visibility(P, S, s) ==
    ReverseDependency(P, Shown(P, CalcAll(P, S, SymbolsOfAll(P, Prompts(P, s))), s,
                               {Prompts(P, s)[i] : i \in DOMAIN Prompts(P, s)}), s)

\* sym_get_default_prop, sym_get_range_prop: the first of the properties
\* whose condition is not n, in ret, or 0.
FirstOr(P, S, ps) ==
    IF S.ret # no THEN [S EXCEPT !.pvis[Head(ps)] = S.ret, !.ret = Head(ps)]
    ELSE FirstVisible(P, [S EXCEPT !.pvis[Head(ps)] = no], Tail(ps))
FirstVisible(P, S, ps) ==
    IF ps = <<>> THEN [S EXCEPT !.ret = 0]
    ELSE FirstOr(P, expr_calc_value(P, S, P.props[Head(ps)].vis), ps)

Defaults(P, s) == PropsOf(P, s, LAMBDA p : p.type = "default")
Ranges(P, s)   == PropsOf(P, s, LAMBDA p : p.type = "range")

\* The user's choice if it is visible, else a default that is, else the
\* first value that is; what is left to try, each with its condition.
Candidates(P, S, s) ==
    LET user == IF S.dcho[s] = NoSymbol THEN <<>> ELSE << <<NULL, S.dcho[s]>> >>
        defaults == [i \in DOMAIN Defaults(P, s) |-> <<P.props[Defaults(P, s)[i]].vis, P.props[Defaults(P, s)[i]].expr[2]>>]
        values == [i \in DOMAIN ChoiceList(P, s) |-> <<NULL, ChoiceList(P, s)[i]>>]
    IN  user \o defaults \o values

TryNext(P, S, s, try) ==
    IF S.visible[try[1][2]] # no THEN [S EXCEPT !.cho[s] = try[1][2]] ELSE sym_calc_choice(P, S, s, Tail(try))
TryFirst(P, S, s, try) ==
    IF S.ret = no THEN sym_calc_choice(P, S, s, Tail(try))
    ELSE TryNext(P, sym_calc_visibility(P, S, try[1][2]), s, try)
sym_calc_choice(P, S, s, try) ==
    IF try = <<>> THEN [S EXCEPT !.tri[s] = no, !.cho[s] = NoSymbol]
    ELSE TryFirst(P, expr_calc_value(P, S, try[1][1]), s, try)

sym_get_range_val(P, S, s, base) ==
    strtol(S.val[s], IF P.syms[s].type = "int" THEN 10 ELSE IF P.syms[s].type = "hex" THEN 16 ELSE base)
Base(type) == IF type = "hex" THEN 16 ELSE 10

\* A number out of its range becomes the end of the range that it passed.
ClampHigh(P, S, s, range) ==
    LET high == sym_get_range_val(P, S, range[3], Base(P.syms[s].type))
    IN  IF strtol(S.val[s], Base(P.syms[s].type)) > high THEN [S EXCEPT !.val[s] = sprintf(high, P.syms[s].type)] ELSE S
ClampLow(P, S, s, range) ==
    LET low == sym_get_range_val(P, S, range[2], Base(P.syms[s].type))
    IN  IF strtol(S.val[s], Base(P.syms[s].type)) < low THEN [S EXCEPT !.val[s] = sprintf(low, P.syms[s].type)]
        ELSE ClampHigh(P, sym_calc_value(P, S, range[3]), s, range)
Clamp(P, S, s) ==
    IF S.ret = 0 THEN S
    ELSE ClampLow(P, sym_calc_value(P, S, P.props[S.ret].expr[2]), s, P.props[S.ret].expr)
sym_validate_range(P, S, s) ==
    IF P.syms[s].type \in {"int", "hex"} THEN Clamp(P, FirstVisible(P, S, Ranges(P, s)), s) ELSE S

\* A bool or tristate symbol that no choice decides on: the user's value if
\* it is visible and there is one, else the first default that applies, and
\* at least what the symbols that select it ask for.
RaiseDefault(P, S, s, p) == [S EXCEPT !.tri[s] = EXPR_OR(EXPR_AND(S.ret, S.pvis[p]), S.rev[s])]
DefaultTristate(P, S, s) ==
    IF S.ret = 0 THEN [S EXCEPT !.tri[s] = S.rev[s]]
    ELSE RaiseDefault(P, expr_calc_value(P, Set(S, s, "write"), P.props[S.ret].expr), s, S.ret)

\* Mutant: a symbol that others select can be switched off by the user.
CalcTristate_Unselected(P, S, s) ==
    IF S.visible[s] # no /\ sym_has_value(S, s)
    THEN [Set(S, s, "write") EXCEPT !.tri[s] = EXPR_AND(S.dtri[s], S.visible[s])]
    ELSE DefaultTristate(P, FirstVisible(P, IF S.visible[s] # no \/ S.rev[s] # no THEN Set(S, s, "write") ELSE S,
                                         IF sym_is_choice(P, s) THEN <<>> ELSE Defaults(P, s)), s)

CalcTristate(P, S, s) ==
    IF S.visible[s] # no /\ sym_has_value(S, s)
    THEN [Set(S, s, "write") EXCEPT !.tri[s] = EXPR_OR(EXPR_AND(S.dtri[s], S.visible[s]), S.rev[s])]
    ELSE DefaultTristate(P, FirstVisible(P, IF S.visible[s] # no \/ S.rev[s] # no THEN Set(S, s, "write") ELSE S,
                                         IF sym_is_choice(P, s) THEN <<>> ELSE Defaults(P, s)), s)

CopyValue(S, s, ds) == [S EXCEPT !.val[s] = S.val[ds]]
DefaultString(P, S, s) ==
    IF S.ret = 0 THEN S
    ELSE IF P.props[S.ret].expr[1] # "symbol" THEN S
    ELSE CopyValue(sym_calc_value(P, Set(S, s, "write"), P.props[S.ret].expr[2]), s, P.props[S.ret].expr[2])
CalcString(P, S, s) ==
    LET A == IF S.visible[s] # no THEN Set(S, s, "write") ELSE S
    IN  IF S.visible[s] # no /\ sym_has_value(S, s) THEN [A EXCEPT !.val[s] = S.dval[s]]
        ELSE DefaultString(P, FirstVisible(P, A, Defaults(P, s)), s)

\* The steps of sym_calc_value.
NameOf(s) == IF s \in DOMAIN Text THEN Text[s] ELSE <<s>>
CalcStart(P, S, s) ==
    LET V == Set(S, s, "valid") IN IF sym_is_choice_value(P, s) THEN V ELSE Clear(V, s, "write")
CalcBoolean(P, S, s) == IF S.tri[s] = mod /\ sym_get_type(P, S, s) = "boolean" THEN [S EXCEPT !.tri[s] = yes] ELSE S
CalcCurrent(P, S, s) ==
    IF P.syms[s].type \notin {"boolean", "tristate"} THEN CalcString(P, S, s)
    ELSE IF sym_is_choice_value(P, s) /\ S.visible[s] = yes
         THEN [S EXCEPT !.tri[s] = IF S.cho[ChoiceOf(P, s)] = s THEN yes ELSE no]
    ELSE CalcBoolean(P, CalcTristate(P, S, s), s)
CalcChosen(P, S, s) ==
    IF sym_is_choice(P, s) /\ S.tri[s] = yes THEN sym_calc_choice(P, S, s, Candidates(P, S, s)) ELSE S
CalcFlags(P, S, s) ==
    LET values == {ChoiceList(P, s)[i] : i \in DOMAIN ChoiceList(P, s)}
        A == IF s = modules_sym THEN [S EXCEPT !.modules_val = S.tri[s]] ELSE S
        B == IF sym_is_choice(P, s) /\ Is(A, s, "write")
             THEN [A EXCEPT !.flags = [x \in values |-> @[x] \cup {"write"}] @@ @]
             ELSE A
    IN  IF Flagged(P, s, "auto") THEN Clear(B, s, "write") ELSE B

sym_calc_value(P, S, s) ==
    LET reset(T) == [T EXCEPT !.tri[s] = no, !.val[s] = <<>>, !.cho[s] = NoSymbol]
    IN  IF Is(S, s, "valid") THEN S
        ELSE IF P.syms[s].type = "unknown" THEN [Set(S, s, "valid") EXCEPT !.val[s] = NameOf(s), !.tri[s] = no]
        ELSE CalcFlags(P, sym_validate_range(P, CalcChosen(P, CalcCurrent(P,
                 reset(sym_calc_visibility(P, CalcStart(P, S, s), s)), s), s), s), s)

sym_clear_all_valid(P, S) ==
    sym_calc_value(P, [S EXCEPT !.flags = [s \in Symbols(P) |-> @[s] \ {"valid"}] @@ @, !.changes = TRUE], modules_sym)

sym_tristate_within_range(P, S, s, val) ==
    /\ S.visible[s] # no
    /\ sym_get_type(P, S, s) \in {"boolean", "tristate"}
    /\ ~(sym_get_type(P, S, s) = "boolean" /\ val = mod)
    /\ S.visible[s] > S.rev[s]
    /\ IF sym_is_choice_value(P, s) /\ S.visible[s] = yes THEN val = yes
       ELSE val >= S.rev[s] /\ val <= S.visible[s]

\* Mutants: the calculated values are kept, and an answer that changes
\* nothing is not remembered.
sym_set_tristate_value_Stale(P, S, s, val) ==
    LET C == [Set(S, s, "def_user") EXCEPT !.dtri[s] = val, !.ok = TRUE]
    IN  IF S.tri[s] # val /\ ~sym_tristate_within_range(P, S, s, val) THEN [S EXCEPT !.ok = FALSE]
        ELSE [C EXCEPT !.changes = TRUE]
sym_set_tristate_value_Same(P, S, s, val) ==
    LET C == [Set(S, s, "def_user") EXCEPT !.dtri[s] = val, !.ok = TRUE]
    IN  IF S.tri[s] = val THEN [S EXCEPT !.ok = TRUE]
        ELSE IF ~sym_tristate_within_range(P, S, s, val) THEN [S EXCEPT !.ok = FALSE]
        ELSE sym_clear_all_valid(P, C)

\* ok tells whether the value was taken.
sym_set_tristate_value(P, S, s, val) ==
    LET A == Set(S, s, "def_user")
        choice == ChoiceOf(P, s)
        values == {ChoiceList(P, choice)[i] : i \in DOMAIN ChoiceList(P, choice)}
        B == IF ~(sym_is_choice_value(P, s) /\ val = yes) THEN A
             ELSE [A EXCEPT !.dcho[choice] = s,
                            !.flags = [x \in {choice} \cup {v \in values : A.visible[v] # no} |-> @[x] \cup {"def_user"}] @@ @]
        C == [B EXCEPT !.dtri[s] = val, !.ok = TRUE]
    IN  IF S.tri[s] # val /\ ~sym_tristate_within_range(P, S, s, val) THEN [S EXCEPT !.ok = FALSE]
        ELSE IF S.tri[s] # val THEN sym_clear_all_valid(P, C) ELSE C

\* n, m, y in turn, until one is taken or all were tried; new was tried last.
RECURSIVE ToggleFrom(_, _, _, _, _)
ToggleFrom(P, S, s, old, new) ==
    IF S.ok \/ new = old THEN S
    ELSE ToggleFrom(P, sym_set_tristate_value(P, S, s, (new + 1) % 3), s, old, (new + 1) % 3)
sym_toggle_tristate_value(P, S, s) ==
    ToggleFrom(P, sym_set_tristate_value(P, S, s, (S.tri[s] + 1) % 3), s, S.tri[s], (S.tri[s] + 1) % 3)

TriOf == [c \in {"y", "m", "n"} |-> IF c = "y" THEN yes ELSE IF c = "m" THEN mod ELSE no]
AllDigits(str, base) == str # <<>> /\ \A i \in DOMAIN str : IsDigit(str[i], base)
sym_string_valid(type, str) ==
    LET digits == IF str # <<>> /\ str[1] = "-" THEN Tail(str) ELSE str
    IN  CASE type = "string" -> TRUE
          [] type = "int"    -> AllDigits(digits, 10) /\ (digits[1] = "0" => Len(digits) = 1)
          [] type = "hex"    -> AllDigits(IF Prefixed(str) THEN SubSeq(str, 3, Len(str)) ELSE str, 16)
          [] type \in {"boolean", "tristate"} -> str # <<>> /\ str[1] \in DOMAIN TriOf
          [] OTHER           -> FALSE

\* ok tells whether the string is one that the symbol may have.
WithinEnds(P, S, val, range, base) ==
    [S EXCEPT !.ok = /\ val >= sym_get_range_val(P, S, range[2], base)
                     /\ val <= sym_get_range_val(P, S, range[3], base)]
WithinRange(P, S, val, base) ==
    IF S.ret = 0 THEN [S EXCEPT !.ok = TRUE]
    ELSE LET range == P.props[S.ret].expr IN WithinEnds(P, CalcAll(P, S, <<range[2], range[3]>>), val, range, base)
sym_string_within_range(P, S, s, str) ==
    LET type == P.syms[s].type
    IN  IF type \in {"int", "hex"} /\ sym_string_valid(type, str)
        THEN WithinRange(P, FirstVisible(P, S, Ranges(P, s)), strtol(str, Base(type)), Base(type))
        ELSE [S EXCEPT !.ok = /\ sym_string_valid(type, str)
                              /\ type \in {"boolean", "tristate"} => sym_tristate_within_range(P, S, s, TriOf[str[1]])]

StoreString(P, S, s, str) ==
    LET B == Set(S, s, "def_user")
        new == IF P.syms[s].type = "hex" /\ ~Prefixed(str) THEN <<"0", "x">> \o str ELSE str
    IN  IF ~S.ok THEN S
        ELSE IF new = str /\ S.dval[s] = str THEN B
        ELSE [sym_clear_all_valid(P, [B EXCEPT !.dval[s] = new]) EXCEPT !.ok = TRUE]
sym_set_string_value(P, S, s, str) ==
    IF P.syms[s].type \notin {"boolean", "tristate"} THEN StoreString(P, sym_string_within_range(P, S, s, str), s, str)
    ELSE IF str # <<>> /\ str[1] \in DOMAIN TriOf THEN sym_set_tristate_value(P, S, s, TriOf[str[1]])
    ELSE [S EXCEPT !.ok = FALSE]

sym_is_changable(S, s) == S.visible[s] > S.rev[s]

\* A state in which nothing is calculated yet.
NewState(P) ==
    [flags |-> [s \in DOMAIN P.syms |-> IF s \in {"y", "m", "n"} THEN {"valid"} ELSE {}],
     tri |-> [s \in DOMAIN P.syms |-> IF s = "y" THEN yes ELSE IF s = "m" THEN mod ELSE no],
     val |-> [s \in DOMAIN P.syms |-> IF s \in {"y", "m", "n"} THEN <<s>> ELSE <<>>],
     cho |-> [s \in DOMAIN P.syms |-> NoSymbol],
     visible |-> [s \in DOMAIN P.syms |-> no], rev |-> [s \in DOMAIN P.syms |-> no],
     dtri |-> [s \in DOMAIN P.syms |-> no], dval |-> [s \in DOMAIN P.syms |-> NoString],
     dcho |-> [s \in DOMAIN P.syms |-> NoSymbol],
     atri |-> [s \in DOMAIN P.syms |-> no], aval |-> [s \in DOMAIN P.syms |-> NoString],
     pvis |-> [p \in DOMAIN P.props |-> no],
     modules_val |-> no, changes |-> FALSE, warnings |-> FALSE, unsaved |-> FALSE,
     foreign |-> {}, ret |-> 0, ok |-> TRUE]
=============================================================================
