---------------------------- MODULE KconfigMenu ----------------------------
(***************************************************************************)
(* How a Kconfig file becomes symbols, properties and menus                *)
(* (scripts/kconfig/zconf.y, menu.c and the dependency check of symbol.c). *)
(*                                                                         *)
(* P is what the parser has built: its symbols, its properties and its     *)
(* menus, which point to each other by name and by number (0 is a null     *)
(* pointer, menu 1 the root).  A statement is a record with its kind and   *)
(* its arguments.                                                          *)
(***************************************************************************)
EXTENDS KconfigExpr

CONSTANTS
    Statements,  \* the statements of each file
    Environment  \* the values of the environment variables, as symbols

NoSymbol == "-"
modules_sym == "<modules>"

NewSymbol(flags) == [type |-> "unknown", flags |-> flags, props |-> <<>>, rev_dep |-> NULL]
NewMenu(sym, parent, file) ==
    [sym |-> sym, parent |-> parent, next |-> 0, list |-> 0, prompt |-> 0, dep |-> NULL, help |-> FALSE, file |-> file]

Flagged(P, s, flag) == flag \in P.syms[s].flags
sym_is_choice(P, s)       == Flagged(P, s, "choice")
sym_is_choice_value(P, s) == Flagged(P, s, "choiceval")
sym_is_optional(P, s)     == Flagged(P, s, "optional")
TypesOf(P) == [s \in DOMAIN P.syms |-> P.syms[s].type]

sym_lookup(P, s, flags) ==
    IF s \in DOMAIN P.syms THEN P
    ELSE [P EXCEPT !.syms = [x \in DOMAIN P.syms \cup {s} |-> IF x = s THEN NewSymbol(flags) ELSE P.syms[x]],
                   !.order = <<s>> \o @]

\* Every symbol of an expression is looked up as it is read.
RECURSIVE LookupAll(_, _)
LookupAll(P, e) ==
    LET name(Q, s) == sym_lookup(Q, s, IF s \in ConstSymbols THEN {"const"} ELSE {})
    IN  CASE e = NULL          -> P
          [] e[1] = "symbol"   -> name(P, e[2])
          [] e[1] = "not"      -> LookupAll(P, e[2])
          [] IsBinary(e)       -> LookupAll(LookupAll(P, e[2]), e[3])
          [] OTHER             -> name(name(P, e[2]), e[3])

prop_alloc(P, type, s, menu, expr, vis, text) ==
    LET Q == [P EXCEPT !.props = Append(@, [type |-> type, sym |-> s, menu |-> menu, expr |-> expr, vis |-> vis, text |-> text])]
    IN  IF s = NoSymbol THEN Q ELSE [Q EXCEPT !.syms[s].props = Append(@, Len(Q.props))]

SetFlag(P, s, flag) == [P EXCEPT !.syms[s].flags = @ \cup {flag}]

\* The pointer that the next entry goes to.
SetLast(P, m) == IF P.last.field = "list" THEN [P EXCEPT !.menus[P.last.menu].list = m]
                 ELSE [P EXCEPT !.menus[P.last.menu].next = m]

menu_add_entry(P, s) ==
    LET m == Len(P.menus) + 1
        Q == [P EXCEPT !.menus = Append(@, NewMenu(s, P.current_menu, Head(P.files)))]
    IN  [SetLast(Q, m) EXCEPT !.last = [field |-> "next", menu |-> m], !.current_entry = m]

menu_add_menu(P) ==
    [P EXCEPT !.last = [field |-> "list", menu |-> P.current_entry], !.current_menu = P.current_entry]

menu_end_menu(P) ==
    [P EXCEPT !.last = [field |-> "next", menu |-> P.current_menu],
              !.current_menu = P.menus[P.current_menu].parent]

\* 'm' is changed into 'm' && MODULES.
RECURSIVE menu_check_dep(_)
menu_check_dep(e) ==
    CASE e[1] = "not"              -> <<"not", menu_check_dep(e[2])>>
      [] IsBinary(e)               -> <<e[1], menu_check_dep(e[2]), menu_check_dep(e[3])>>
      [] e = Symbol(symbol_mod)    -> <<"and", e, Symbol(modules_sym)>>
      [] OTHER                     -> e

menu_add_dep(P, dep) ==
    [P EXCEPT !.menus[P.current_entry].dep = expr_alloc_and(@, menu_check_dep(dep))]

menu_set_type(P, m, type) ==
    LET s == P.menus[m].sym
    IN  IF P.syms[s].type = "unknown" THEN [P EXCEPT !.syms[s].type = type] ELSE P

menu_add_prop(P, m, type, prompt, expr, dep) ==
    LET Q == prop_alloc(P, type, P.menus[m].sym, m, expr, menu_check_dep(dep), prompt)
    IN  IF prompt THEN [Q EXCEPT !.menus[m].prompt = Len(Q.props)] ELSE Q

menu_add_symbol(P, m, type, s, dep) == menu_add_prop(P, m, type, FALSE, Symbol(s), dep)

\* option modules and option env="..."; a second environment variable of a
\* symbol is only warned about.
prop_add_env(P, env) ==
    LET s == P.menus[P.current_entry].sym
        has == \E i \in 1 .. Len(P.syms[s].props) : P.props[P.syms[s].props[i]].type = "env"
        Q == SetFlag(P, s, "auto")
        E == prop_alloc(sym_lookup(Q, env, {"const"}), "env", s, 0, Symbol(env), NULL, FALSE)
    IN  IF has THEN Q
        ELSE IF env \notin DOMAIN Environment THEN E
        ELSE prop_alloc(sym_lookup(E, Environment[env], {"const"}), "default", s, 0, Symbol(Environment[env]), NULL, FALSE)

menu_add_option(P, token, arg) ==
    IF token = "modules"
    THEN prop_alloc(P, "default", modules_sym, 0, Symbol(P.menus[P.current_entry].sym), NULL, FALSE)
    ELSE prop_add_env(P, arg)

\* The end of a choice, an if or a menu closes what was opened last, in the
\* same file.
zconf_endtoken(P, kind) ==
    /\ P.open # <<>> /\ Head(P.open) = kind
    /\ P.menus[P.current_menu].file = Head(P.files)

End(P, kind) ==
    IF P.open = <<>> THEN [P EXCEPT !.errors = @ + 1]
    ELSE IF zconf_endtoken(P, kind) THEN [menu_end_menu(P) EXCEPT !.open = Tail(@)]
    ELSE [P EXCEPT !.errors = @ + 2, !.open = Tail(@)]

zconf_nextfile(P, f) ==
    IF f \in P.busy \cup P.scanned THEN [P EXCEPT !.exit = TRUE]
    ELSE [P EXCEPT !.files = <<f>> \o @, !.busy = @ \cup {f}]

zconf_endfile(P) ==
    [P EXCEPT !.scanned = @ \cup {Head(P.files)}, !.busy = @ \ {Head(P.files)}, !.files = Tail(@)]

\* config and menuconfig
ConfigEntry(P, s) == menu_add_entry(SetFlag(sym_lookup(P, s, {}), s, "optional"), s)
\* choice
ChoiceEntry(P, s) ==
    LET Q == menu_add_entry(SetFlag(sym_lookup(P, s, {"choice"}), s, "auto"), s)
    IN  menu_add_prop(Q, Q.current_entry, "choice", FALSE, NULL, NULL)
\* if, menu and comment
IfEntry(P, e) == menu_add_menu(menu_add_dep(menu_add_entry(LookupAll(P, e), NoSymbol), e))
TextEntry(P, type) ==
    LET Q == menu_add_entry(P, NoSymbol) IN menu_add_prop(Q, Q.current_entry, type, TRUE, NULL, NULL)

\* What the parser does at a statement.
Statement(P, st) ==
    LET here == P.current_entry
        Q == LookupAll(LookupAll(P, st.expr), st.dep)
    IN  CASE st.kind \in {"config", "menuconfig"} -> ConfigEntry(P, st.arg)
          [] st.kind = "endmenuconfig" ->
               IF P.menus[here].prompt = 0 THEN P ELSE [P EXCEPT !.props[P.menus[here].prompt].type = "menu"]
          [] st.kind = "type"     -> menu_set_type(P, here, st.arg)
          [] st.kind = "prompt"   -> menu_add_prop(Q, here, "prompt", TRUE, NULL, st.dep)
          [] st.kind = "default"  -> menu_add_prop(Q, here, "default", FALSE, st.expr, st.dep)
          [] st.kind = "select"   -> menu_add_symbol(sym_lookup(Q, st.arg, {}), here, "select", st.arg, st.dep)
          [] st.kind = "range"    -> menu_add_prop(Q, here, "range", FALSE, st.expr, st.dep)
          [] st.kind = "option"   -> menu_add_option(P, st.arg, st.arg2)
          [] st.kind = "depends"  -> menu_add_dep(Q, st.expr)
          [] st.kind = "optional" -> SetFlag(P, P.menus[here].sym, "optional")
          [] st.kind = "help"     -> [P EXCEPT !.menus[here].help = TRUE]
          [] st.kind = "choice"   -> ChoiceEntry(P, st.arg)
          [] st.kind = "if"       -> [IfEntry(P, st.expr) EXCEPT !.open = <<"if">> \o @]
          [] st.kind = "menu"     -> TextEntry(P, "menu")
          [] st.kind = "comment"  -> TextEntry(P, "comment")
          [] st.kind = "block"    -> [menu_add_menu(P) EXCEPT !.open = <<st.arg>> \o @]
          [] st.kind = "end"      -> End(P, st.arg)
          [] st.kind = "source"   -> zconf_nextfile(P, st.arg)

\* zconfparse: the statements of file f from the i-th on.
RECURSIVE zconfparse(_, _, _)
zconfparse(P, f, i) ==
    IF P.exit THEN P
    ELSE IF i > Len(Statements[f]) THEN zconf_endfile(P)
    ELSE LET st == Statements[f][i]
             Q == Statement(P, st)
         IN  zconfparse(IF st.kind = "source" /\ ~Q.exit THEN zconfparse(Q, st.arg, 1) ELSE Q, f, i + 1)

----------------------------------------------------------------------------
\* menu_finalize

VisibleOf(P, m) == P.props[P.menus[m].prompt].vis

\* The menus of the list that starts at m.
RECURSIVE Chain(_, _)
Chain(P, m) == IF m = 0 THEN <<>> ELSE <<m>> \o Chain(P, P.menus[m].next)

\* A choice without a type takes that of its first value that has one, and
\* the values without a type that of the choice.
RECURSIVE TypeFromValues(_, _, _), TypeToValues(_, _, _)
TypeFromValues(P, m, list) ==
    IF list = <<>> THEN P
    ELSE LET s == P.menus[Head(list)].sym
         IN  IF s # NoSymbol /\ P.syms[s].type # "unknown" THEN menu_set_type(P, m, P.syms[s].type)
             ELSE TypeFromValues(P, m, Tail(list))
TypeToValues(P, m, list) ==
    IF list = <<>> THEN P
    ELSE LET s == P.menus[Head(list)].sym
             Q == IF s # NoSymbol THEN menu_set_type(P, Head(list), P.syms[P.menus[m].sym].type) ELSE P
         IN  TypeToValues(Q, m, Tail(list))

\* The properties of m's symbol that were given at m, or m's prompt.
PropsAt(P, m) ==
    IF P.menus[m].sym = NoSymbol THEN IF P.menus[m].prompt = 0 THEN <<>> ELSE <<P.menus[m].prompt>>
    ELSE SelectSeq(P.syms[P.menus[m].sym].props, LAMBDA p : P.props[p].menu = m)

\* A property depends on what its entry depends on; what selects is a
\* reverse dependency of what is selected.
RECURSIVE PropagateProps(_, _, _, _)
PropagateProps(P, m, basedep, ps) ==
    IF ps = <<>> THEN P
    ELSE LET ty == TypesOf(P)
             s == P.menus[m].sym
             prop == P.props[Head(ps)]
             dep1 == expr_eliminate_dups(ty, expr_alloc_and(basedep, expr_transform(ty, prop.vis)))
             dep == IF s # NoSymbol /\ ty[s] # "tristate" THEN expr_trans_bool(ty, dep1) ELSE dep1
             Q == [P EXCEPT !.props[Head(ps)].vis = dep]
             R == IF prop.type # "select" THEN Q
                  ELSE [Q EXCEPT !.syms[prop.expr[2]].rev_dep = expr_alloc_or(@, expr_alloc_and(Symbol(s), dep))]
         IN  PropagateProps(R, m, basedep, Tail(ps))

\* Every entry of a menu depends on what the menu depends on.
RECURSIVE PropagateDeps(_, _, _)
PropagateDeps(P, parentdep, list) ==
    IF list = <<>> THEN P
    ELSE LET m == Head(list)
             ty == TypesOf(P)
             basedep == expr_eliminate_dups(ty, expr_alloc_and(parentdep, expr_transform(ty, P.menus[m].dep)))
             Q == [P EXCEPT !.menus[m].dep = basedep]
         IN  PropagateDeps(PropagateProps(Q, m, basedep, PropsAt(Q, m)), parentdep, Tail(list))

\* An entry of a choice becomes one of its values.
ChoiceValue(P, choice, m) ==
    LET s == P.menus[m].sym
        Q == SetFlag(P, s, "choiceval")
        only == <<"equal", choice, symbol_yes>>
        R == IF ~(Q.syms[choice].type = "tristate" /\ Q.syms[s].type # "tristate") THEN Q
             ELSE [Q EXCEPT !.menus[m].dep = expr_alloc_and(only, @),
                            !.props = [p \in DOMAIN Q.props |->
                                IF \E i \in DOMAIN PropsAt(Q, m) : PropsAt(Q, m)[i] = p
                                THEN [Q.props[p] EXCEPT !.vis = expr_alloc_and(only, @)] ELSE Q.props[p]]]
        T == menu_add_symbol(R, m, "choice", choice, NULL)
        first == CHOOSE p \in DOMAIN T.props : T.props[p].type = "choice" /\ T.props[p].sym = choice
    IN  [T EXCEPT !.props[first].expr = IF @ = NULL THEN <<"list", <<s>> >> ELSE <<"list", Append(@[2], s)>>]

\* Mutant: they stay where they are.
Flatten_Stay(P, parent, m) == P

\* Entries of an entry without a prompt move up to its own menu.
Flatten(P, parent, m) ==
    LET inner == Chain(P, P.menus[m].list)
        Q == [P EXCEPT !.menus = [x \in DOMAIN P.menus |->
                 IF \E i \in DOMAIN inner : inner[i] = x THEN [P.menus[x] EXCEPT !.parent = parent] ELSE P.menus[x]]]
    IN  IF P.menus[m].list = 0 \/ P.menus[m].prompt # 0 THEN P
        ELSE [Q EXCEPT !.menus[inner[Len(inner)]].next = P.menus[m].next,
                       !.menus[m].next = P.menus[m].list,
                       !.menus[m].list = 0]

RECURSIVE FinishEntries(_, _, _)
FinishEntries(P, parent, m) ==
    IF m = 0 THEN P
    ELSE LET choice == P.menus[parent].sym
             s == P.menus[m].sym
             Q == IF /\ choice # NoSymbol /\ sym_is_choice(P, choice)
                     /\ s # NoSymbol /\ ~sym_is_choice_value(P, s)
                  THEN ChoiceValue(P, choice, m) ELSE P
             R == Flatten(Q, parent, m)
         IN  FinishEntries(R, parent, R.menus[m].next)

RECURSIVE menu_finalize(_, _), FinalizeEach(_, _), Submenu(_, _, _, _, _)

FinalizeEach(P, m) ==
    IF m = 0 THEN P ELSE LET Q == menu_finalize(P, m) IN FinalizeEach(Q, Q.menus[m].next)

\* The entries after parent that depend on its symbol: from m on; last is
\* the last one found.
Submenu(P, parent, basedep, m, last) ==
    LET s == P.menus[parent].sym
        ty == TypesOf(P)
        dep == IF P.menus[m].prompt # 0 THEN VisibleOf(P, m) ELSE P.menus[m].dep
        same == expr_eliminate_eq(expr_eliminate_dups(ty, expr_transform(ty, expr_trans_compare(dep, "unequal", symbol_no))), basedep)
        belongs == /\ m # 0
                   /\ expr_contains_symbol(dep, s)
                   /\ expr_depends_symbol(dep, s) \/ expr_is_yes(same[2])
        Q == [menu_finalize(P, m) EXCEPT !.menus[m].parent = parent]
    IN  IF belongs THEN Submenu(Q, parent, basedep, Q.menus[m].next, m)
        ELSE IF last = 0 THEN P
        ELSE [P EXCEPT !.menus[parent].list = P.menus[parent].next,
                       !.menus[parent].next = P.menus[last].next,
                       !.menus[last].next = 0]

menu_finalize(P, parent) ==
    LET s == P.menus[parent].sym
        list == Chain(P, P.menus[parent].list)
        choice == s # NoSymbol /\ sym_is_choice(P, s)
        prompt == P.menus[parent].prompt
        P1 == IF choice THEN TypeToValues(IF P.syms[s].type = "unknown" THEN TypeFromValues(P, parent, list) ELSE P, parent, list)
              ELSE P
        parentdep == IF choice THEN Symbol(s) ELSE IF prompt # 0 THEN VisibleOf(P, parent) ELSE P.menus[parent].dep
        ty == TypesOf(P)
        own == IF prompt # 0 THEN VisibleOf(P, parent) ELSE NULL
        basedep == expr_eliminate_dups(ty, expr_transform(ty, expr_trans_compare(own, "unequal", symbol_no)))
        P2 == IF list # <<>> THEN LET Q == PropagateDeps(P1, parentdep, list) IN FinalizeEach(Q, Q.menus[parent].list)
              ELSE IF s # NoSymbol THEN Submenu(P, parent, basedep, P.menus[parent].next, 0)
              ELSE P
        P3 == FinishEntries(P2, parent, P2.menus[parent].list)
    IN  IF s = NoSymbol \/ prompt = 0 THEN P3
        ELSE IF sym_is_optional(P3, s) THEN P3
        ELSE [P3 EXCEPT !.syms[s].rev_dep = expr_alloc_or(@, expr_alloc_and(VisibleOf(P3, parent), Symbol(symbol_mod)))]

----------------------------------------------------------------------------
\* The check for recursive dependencies.  C holds the symbols on the way
\* (SYMBOL_CHECK), those seen (SYMBOL_CHECKED), the errors counted, and the
\* symbol that the last check returned.

RECURSIVE sym_check_expr_deps(_, _, _), sym_check_sym_deps(_, _, _, _), sym_check_choice_deps(_, _, _),
          sym_check_deps(_, _, _), CheckValues(_, _, _)

sym_check_expr_deps(P, C, e) ==
    LET both(check(_, _, _), a, b) == LET D == check(P, C, a) IN IF D.ret # NoSymbol THEN D ELSE check(P, D, b)
    IN  CASE e = NULL             -> [C EXCEPT !.ret = NoSymbol]
          [] IsBinary(e)          -> both(sym_check_expr_deps, e[2], e[3])
          [] e[1] = "not"         -> sym_check_expr_deps(P, C, e[2])
          [] IsCompare(e)         -> both(sym_check_deps, e[2], e[3])
          [] e[1] = "symbol"      -> sym_check_deps(P, C, e[2])

\* What a symbol depends on: its reverse dependencies, the conditions of its
\* properties and, but for a choice, its defaults; those from the i-th on.
DependsOn(P, s) ==
    LET ps == SelectSeq(P.syms[s].props, LAMBDA p : P.props[p].type \notin {"choice", "select"})
        of(p) == IF P.props[p].type = "default" /\ ~sym_is_choice(P, s)
                 THEN <<P.props[p].vis, P.props[p].expr>> ELSE <<P.props[p].vis>>
        from[i \in 1 .. Len(ps) + 1] == IF i > Len(ps) THEN <<>> ELSE of(ps[i]) \o from[i + 1]
    IN  <<P.syms[s].rev_dep>> \o from[1]

sym_check_sym_deps(P, C, s, i) ==
    IF i > Len(DependsOn(P, s)) THEN [C EXCEPT !.ret = NoSymbol]
    ELSE LET D == sym_check_expr_deps(P, C, DependsOn(P, s)[i])
         IN  IF D.ret # NoSymbol THEN D ELSE sym_check_sym_deps(P, D, s, i + 1)

ChoiceList(P, choice) ==
    LET p == CHOOSE p \in DOMAIN P.props : P.props[p].type = "choice" /\ P.props[p].sym = choice
    IN  IF P.props[p].expr = NULL THEN <<>> ELSE P.props[p].expr[2]
ChoiceOf(P, s) ==
    LET p == CHOOSE p \in DOMAIN P.props : P.props[p].type = "choice" /\ P.props[p].sym = s
    IN  P.props[p].expr[2]

CheckValues(P, C, values) ==
    IF values = <<>> THEN [C EXCEPT !.ret = NoSymbol]
    ELSE LET D == sym_check_sym_deps(P, C, Head(values), 1)
         IN  IF D.ret # NoSymbol THEN D ELSE CheckValues(P, D, Tail(values))

sym_check_choice_deps(P, C, choice) ==
    LET values == ChoiceList(P, choice)
        set == {values[i] : i \in DOMAIN values}
        C1 == [C EXCEPT !.check = @ \cup set \cup {choice}, !.checked = @ \cup set \cup {choice}]
        C2 == sym_check_sym_deps(P, C1, choice, 1)
        C3 == [C2 EXCEPT !.check = @ \ {choice}]
        C4 == IF C3.ret # NoSymbol THEN C3 ELSE CheckValues(P, C3, values)
    IN  [C4 EXCEPT !.check = @ \ set, !.ret = IF @ \in set THEN choice ELSE @]

sym_check_deps(P, C, s) ==
    IF s \in C.check THEN [C EXCEPT !.ret = s]
    ELSE IF s \in C.checked THEN [C EXCEPT !.ret = NoSymbol]
    ELSE LET on == [C EXCEPT !.check = @ \cup {s}, !.checked = @ \cup {s}]
             D == CASE sym_is_choice_value(P, s) -> sym_check_deps(P, C, ChoiceOf(P, s))
                    [] ~sym_is_choice_value(P, s) /\ sym_is_choice(P, s) -> sym_check_choice_deps(P, C, s)
                    [] OTHER -> LET E == sym_check_sym_deps(P, on, s, 1) IN [E EXCEPT !.check = @ \ {s}]
         IN  IF D.ret = s THEN [D EXCEPT !.errors = @ + 1, !.ret = NoSymbol] ELSE D

RECURSIVE CheckAll(_, _, _)
CheckAll(P, C, i) ==
    IF i > Len(P.order) THEN C
    ELSE LET D == sym_check_deps(P, C, P.order[i])
         IN  CheckAll(P, IF D.ret # NoSymbol THEN [D EXCEPT !.errors = @ + 1] ELSE D, i + 1)

\* conf_parse: P.errors # 0 or P.exit when the program exits.
EmptyParse(f) ==
    [syms |-> [s \in {symbol_yes, symbol_mod, symbol_no, modules_sym} |->
                 IF s = modules_sym THEN [NewSymbol({"auto"}) EXCEPT !.type = "boolean"] ELSE NewSymbol({"const"})],
     order |-> <<modules_sym>>, props |-> <<>>, menus |-> <<NewMenu(NoSymbol, 0, f)>>,
     current_menu |-> 1, current_entry |-> 1, last |-> [field |-> "list", menu |-> 1],
     open |-> <<>>, files |-> <<f>>, busy |-> {f}, scanned |-> {}, errors |-> 0, exit |-> FALSE]

conf_parse(f) ==
    LET P1 == zconfparse(menu_add_prop(EmptyParse(f), 1, "menu", TRUE, NULL, NULL), f, 1)
        P2 == IF P1.syms[modules_sym].props # <<>> THEN P1
              ELSE prop_alloc(sym_lookup(P1, "MODULES", {}), "default", modules_sym, 0, Symbol("MODULES"), NULL, FALSE)
        P3 == menu_finalize(P2, 1)
        C == CheckAll(P3, [check |-> {}, checked |-> {}, errors |-> 0, ret |-> NoSymbol], 1)
    IN  IF P1.exit \/ P1.errors # 0 THEN P1 ELSE [P3 EXCEPT !.errors = C.errors]
=============================================================================
