-------------------------------- MODULE Mconf --------------------------------
(***************************************************************************)
(* menuconfig (scripts/kconfig/mconf.c): the menus that it shows, and what *)
(* the keys do to the symbols.                                             *)
(*                                                                         *)
(* An item of a menu has the tag that tells what can be done with it: m    *)
(* opens a menu, t is a bool, a tristate or a choice, s is a string, and : *)
(* nothing.  The dialogs (scripts/kconfig/lxdialog) return the item and    *)
(* the key; help, search and the single menu mode are left out.            *)
(***************************************************************************)
EXTENDS KconfigFile, FiniteSets, Functions

CONSTANTS
    Trees,      \* the Kconfig files that menuconfig is started with
    Parse(_),   \* conf_parse
    Files,      \* the .config files that it may find
    Inputs,     \* what a user may type in an input box
    MaxKeys     \* the keys that change something

VARIABLES
    tree, Tree, \* the Kconfig file, and the menus and symbols that were made of it
    sy,         \* the state of the symbols
    stack,      \* the menus that are open, the last one opened first
    ref,        \* history: what the Kconfig file says, taken from its text
    keys, file  \* how many keys were used, and the file that was read or saved

mvars == <<tree, Tree, ref, sy, stack, keys, file>>

----------------------------------------------------------------------------
RECURSIVE build_conf(_, _, _, _), BuildEach(_, _, _, _)

BuildEach(P, b, list, cur) ==
    IF list = <<>> THEN b ELSE Then(build_conf(P, b, Head(list), cur), LAMBDA c : BuildEach(P, c, Tail(list), cur))

\* The visible entry of a choice whose symbol is the one chosen, or 0.
DefMenu(P, S, m) ==
    LET list == Chain(P, P.menus[m].list)
        of == {i \in DOMAIN list : P.menus[list[i]].sym = S.cho[P.menus[m].sym] /\ menu_is_visible(P, S, list[i]).ok}
    IN  IF S.cho[P.menus[m].sym] = NoSymbol \/ of = {} THEN 0 ELSE list[CHOOSE i \in of : \A j \in of : j <= i]

\* b holds the state and the items made so far; cur is the open menu.
Item(b, tag, m) == [b EXCEPT !.items = Append(@, <<tag, m>>)]
BuildInside(P, b, m, cur) == BuildEach(P, b, Chain(P, P.menus[m].list), cur)
IsMenu(P, m) == P.props[P.menus[m].prompt].type = "menu"

\* A menu, a comment or the top of the open menu.
BuildText(P, b, m, cur) ==
    IF m # cur /\ IsMenu(P, m) THEN Item(b, "m", m)
    ELSE BuildInside(P, IF m = cur THEN b ELSE Item(b, ":", m), m, cur)

\* A choice that is y shows what was chosen, and the entries below that.
BuildChoice(P, b, m, cur, def) ==
    LET c == Item(b, IF sym_is_changable(b.S, P.menus[m].sym) \/ def # 0 THEN "t" ELSE ":", m)
    IN  IF b.S.tri[P.menus[m].sym] # yes THEN BuildInside(P, c, m, cur)
        ELSE IF def = 0 \/ P.menus[def].list = 0 THEN c
        ELSE build_conf(P, c, def, cur)

BuildSymbol(P, b, m, cur) ==
    LET s == P.menus[m].sym
        tristate == sym_get_type(P, b.S, s) \in {"boolean", "tristate"}
        tag == IF m = cur THEN ":" ELSE IF ~tristate THEN "s"
               ELSE IF sym_is_choice_value(P, s) /\ b.S.tri[s] = yes THEN ":" ELSE "t"
    IN  IF m # cur /\ tristate /\ IsMenu(P, m) THEN Item(b, tag, m) ELSE BuildInside(P, Item(b, tag, m), m, cur)

build_conf(P, b, m, cur) ==
    Then([b EXCEPT !.S = menu_is_visible(P, b.S, m)], LAMBDA c :
         IF ~c.S.ok THEN c
         ELSE IF P.menus[m].sym = NoSymbol THEN BuildText(P, c, m, cur)
         ELSE IF sym_is_choice(P, P.menus[m].sym) THEN BuildChoice(P, c, m, cur, DefMenu(P, c.S, m))
         ELSE BuildSymbol(P, c, m, cur))

Items(P, S, m) == build_conf(P, [S |-> S, items |-> <<>>], m, m)

----------------------------------------------------------------------------
\* What the Kconfig file says of a symbol, taken from its statements as they
\* stand: the condition that its prompt has from "depends on" and the blocks
\* around it, and who selects it under which condition.

RECURSIVE Declared(_, _, _, _)
\* The entries from statement i on: symbol, condition and selects; around is
\* the stack of the conditions of the blocks.
Declared(stmts, i, around, found) ==
    IF i > Len(stmts) THEN found
    ELSE LET st == stmts[i]
             n == Len(found)
         IN  CASE st.kind \in {"config", "choice", "menu", "comment"} ->
                    Declared(stmts, i + 1, around, Append(found, [kind |-> st.kind, sym |-> st.arg, dep |-> around[1], selects |-> {}]))
               [] st.kind = "depends" ->
                    Declared(stmts, i + 1, around, [found EXCEPT ![n].dep = <<"and", @, st.expr>>])
               [] st.kind = "select" ->
                    Declared(stmts, i + 1, around, [found EXCEPT ![n].selects = @ \cup {<<st.arg, st.dep>>}])
               [] st.kind = "if" ->
                    Declared(stmts, i + 1, << <<"and", around[1], st.expr>> >> \o around,
                             Append(found, [kind |-> "if", sym |-> NoSymbol, dep |-> NULL, selects |-> {}]))
               [] st.kind = "block" ->
                    Declared(stmts, i + 1,
                             << IF st.arg = "choice" THEN Symbol(found[n].sym) ELSE found[n].dep >> \o around, found)
               [] st.kind = "end" -> Declared(stmts, i + 1, Tail(around), found)
               [] OTHER -> Declared(stmts, i + 1, around, found)

EntriesOf(f) == Declared(Statements[f], 1, <<NULL>>, <<>>)
Configs(entries) == {entries[i] : i \in {j \in DOMAIN entries : entries[j].kind \in {"config", "choice"}}}

RECURSIVE SymbolsOf(_)
SymbolsOf(x) ==
    CASE x = NULL        -> {}
      [] x[1] = "symbol" -> {x[2]}
      [] x[1] = "not"    -> SymbolsOf(x[2])
      [] IsBinary(x)     -> SymbolsOf(x[2]) \cup SymbolsOf(x[3])
      [] OTHER           -> {x[2], x[3]}

\* A choice and its values are one node of the graph of dependencies.
NodesOf(configs) ==
    LET within(d) == {c.sym : c \in {x \in configs : x.kind = "choice" /\ x.sym \in SymbolsOf(d.dep)}}
    IN  [s \in {d.sym : d \in configs} |->
            LET w == UNION {within(d) : d \in {x \in configs : x.sym = s}} IN IF w = {} THEN s ELSE CHOOSE c \in w : TRUE]

\* What a symbol depends on: its condition, and the symbols that select it
\* with their conditions.
EdgesOf(configs, node) ==
    LET selectors(d) == {x \in configs : \E sel \in x.selects : sel[1] = d.sym}
        needs(d) == (SymbolsOf(d.dep) \ {node[d.sym]}) \cup UNION {{c.sym} \cup SymbolsOf(c.dep) : c \in selectors(d)}
    IN  UNION {{<<node[d.sym], node[t]>> : t \in needs(d)} : d \in configs}
RECURSIVE Reach(_, _, _)
Reach(edges, from, n) == IF n = 0 THEN from ELSE Reach(edges, from \cup {b[2] : b \in {x \in edges : x[1] \in from}}, n - 1)
Cyclic(edges) == \E b \in edges : b[1] \in Reach(edges, {b[2]}, Cardinality(edges))

WithNodes(entries, node) == [entries |-> entries, node |-> node, cyclic |-> Cyclic(EdgesOf(Configs(entries), node))]
ReferenceOf(entries) == WithNodes(entries, NodesOf(Configs(entries)))

----------------------------------------------------------------------------
MInit ==
    /\ tree \in Trees /\ Tree \in {Parse(tree)} /\ ref \in {ReferenceOf(EntriesOf(tree))}
    /\ file \in Files
    /\ IF Tree.errors # 0 \/ Tree.exit THEN sy \in {NewState(Tree)} /\ stack = <<>>
       ELSE sy \in {conf_read(Tree, NewState(Tree), file, TRUE)} /\ stack = <<1>>
    /\ keys = 0

Used == keys < MaxKeys /\ keys' = keys + 1

\* The items that the dialog may return, after the menu was built.
Picks == IF stack = <<>> THEN {}
         ELSE UNION {{[S |-> b.S, tag |-> b.items[i][1], m |-> b.items[i][2]] : i \in DOMAIN b.items} :
                     b \in {Items(Tree, sy, Head(stack))}}
SymOf(p) == Tree.menus[p.m].sym
IsChosen(p) == sym_is_choice(Tree, SymOf(p)) /\ p.S.tri[SymOf(p)] = yes

Open ==
    /\ \E p \in Picks :
           /\ p.tag = "m" \/ (p.tag = "t" /\ IsMenu(Tree, p.m) /\ ~IsChosen(p))
           /\ sy' = p.S
           /\ stack' = <<p.m>> \o stack
    /\ UNCHANGED <<tree, Tree, ref, keys, file>>

\* y, which falls back to m, n, m and the space bar.
SetYes(S, s, y) == IF y.ok THEN y ELSE sym_set_tristate_value(Tree, y, s, mod)
KeyStates(S, s) ==
    {SetYes(S, s, sym_set_tristate_value(Tree, S, s, yes)), sym_toggle_tristate_value(Tree, S, s)}
    \cup {sym_set_tristate_value(Tree, S, s, v) : v \in {no, mod}}
Key ==
    /\ Used
    /\ \E p \in Picks : p.tag = "t" /\ sy' \in KeyStates(p.S, SymOf(p))
    /\ UNCHANGED <<tree, Tree, ref, stack, file>>

\* conf_choice: one of the visible entries.
PickChoice ==
    /\ Used
    /\ \E p \in Picks :
           /\ p.tag = "t" /\ IsChosen(p)
           /\ \E x \in Range(Chain(Tree, Tree.menus[p.m].list)) : \E A \in {menu_is_visible(Tree, p.S, x)} :
                  /\ A.ok /\ Tree.menus[x].sym # NoSymbol
                  /\ sy' = sym_set_tristate_value(Tree, A, Tree.menus[x].sym, yes)
    /\ UNCHANGED <<tree, Tree, ref, stack, file>>

\* conf_string: what is not taken is asked again.
TypeString ==
    /\ Used
    /\ \E p \in Picks : p.tag = "s" /\ \E str \in Inputs :
           \E A \in {sym_set_string_value(Tree, p.S, SymOf(p), str)} : A.ok /\ sy' = A
    /\ UNCHANGED <<tree, Tree, ref, stack, file>>

Exit ==
    /\ stack # <<>>
    /\ stack' = Tail(stack)
    /\ UNCHANGED <<tree, Tree, ref, sy, keys, file>>

\* The question at the end: the configuration is saved, or not, or ESC goes
\* back to the main menu; without a change there is no question.
Quit ==
    /\ stack = <<>>
    /\ \/ /\ sy.changes
          /\ \E w \in {conf_write(Tree, sy)} : file' = w.lines /\ sy' = [w.state EXCEPT !.changes = FALSE]
          /\ UNCHANGED stack
       \/ sy.changes /\ stack' = <<1>> /\ UNCHANGED <<sy, file>>
    /\ UNCHANGED <<tree, Tree, ref, keys>>

\* conf_save and conf_load, from the main menu.
SaveAs ==
    /\ stack = <<1>> /\ Used
    /\ \E w \in {conf_write(Tree, sy)} : file' = w.lines /\ sy' = [w.state EXCEPT !.changes = FALSE]
    /\ UNCHANGED <<tree, Tree, ref, stack>>

LoadFrom ==
    /\ stack = <<1>> /\ Used
    /\ \E S \in {conf_read(Tree, sy, file, FALSE)} : sy' = IF S.ok THEN [S EXCEPT !.changes = TRUE] ELSE S
    /\ UNCHANGED <<tree, Tree, ref, stack, file>>

MNext ==
    \/ Open \/ Key \/ PickChoice \/ TypeString
    \/ Exit \/ Quit \/ SaveAs \/ LoadFrom

----------------------------------------------------------------------------
\* A Kconfig file is refused just when a symbol depends on itself, over
\* "depends on", the menus around it, selects and choices (sym_check_deps).
CyclesFound ==
    tree \in Trees => (Tree.errors # 0 <=> ref.cyclic)

\* Once everything is calculated, every symbol has the value that the user
\* gave it, cut to what it depends on and raised to what selects it, as its
\* entry in the Kconfig file says, and a choice that is y has just one value
\* that is y (menu_finalize, sym_calc_value).
ValuesAsDeclared ==
    tree \in Trees /\ Tree.errors = 0 =>
    \A F \in {ForAll(Tree, sym_clear_all_valid(Tree, sy), sym_calc_value, 1)} :
    LET v == F.tri
        configs == Configs(ref.entries)
        node == ref.node
        round(s, t) == IF t = mod /\ (Tree.syms[s].type = "boolean" \/ v["MODULES"] = no) THEN yes ELSE t
        limit(d) == round(d.sym, ValueOf(d.dep, v))
        from(d, c) == LET conds == {ValueOf(sel[2], v) : sel \in {x \in c.selects : x[1] = d.sym}}
                      IN  IF conds = {} THEN no ELSE EXPR_AND(v[c.sym], EXPR_AND(ValueOf(c.dep, v), CHOOSE t \in conds : TRUE))
        raised(d) == round(d.sym, CHOOSE t \in {from(d, c) : c \in configs} : \A c \in configs : from(d, c) <= t)
        user(d) == IF sym_has_value(F, d.sym) THEN F.dtri[d.sym] ELSE no
        plain == {d \in configs : d.kind = "config" /\ node[d.sym] = d.sym /\ Tree.syms[d.sym].type \in {"boolean", "tristate"}}
    IN  /\ \A d \in plain : v[d.sym] = round(d.sym, EXPR_OR(EXPR_AND(user(d), limit(d)), raised(d)))
        /\ \A c \in configs : c.kind = "choice" /\ v[c.sym] = yes =>
               Cardinality({d \in configs : node[d.sym] = c.sym /\ d.sym # c.sym /\ v[d.sym] = yes}) = 1

\* A Kconfig file is understood as it is written: recursive dependencies are
\* found, where there are none they are not, and the values are those that
\* the entries declare, whatever the user has set and in whichever order.
AsDeclared == CyclesFound /\ ValuesAsDeclared

\* The entries that the menus and lists that can be opened from m show.
RECURSIVE Offered(_, _), OfferedBy(_, _, _)
OfferedBy(S, items, m) ==
    LET t == items[1][1]
        x == items[1][2]
        s == Tree.menus[x].sym
        opens == IF t = "m" THEN Offered(S, x)
                 ELSE IF t \in {"t", ":"} /\ s # NoSymbol /\ sym_is_choice(Tree, s) /\ S.tri[s] = yes
                      THEN SelectSeq(Chain(Tree, Tree.menus[x].list), LAMBDA y : menu_is_visible(Tree, S, y).ok)
                 ELSE IF t = "t" /\ Tree.props[Tree.menus[x].prompt].type = "menu" THEN Offered(S, x)
                 ELSE <<>>
    IN  IF items = <<>> THEN <<>>
        ELSE (IF x = m THEN <<>> ELSE <<x>> \o opens) \o OfferedBy(S, Tail(items), m)
Offered(S, m) == Then(Items(Tree, S, m), LAMBDA b : OfferedBy(b.S, b.items, m))

\* Every entry whose prompt is visible by what the Kconfig file says is
\* offered in the main menu or in one of the menus and lists that can be
\* opened from there, and only once unless it is the value of a choice
\* (menu_finalize, build_conf, conf_choice).
AllOffered ==
    tree \in Trees /\ Tree.errors = 0 =>
    \A F \in {ForAll(Tree, sym_clear_all_valid(Tree, sy), sym_calc_value, 1)} : \A shown \in {Offered(F, 1)} :
    LET times(x) == Cardinality({i \in DOMAIN shown : shown[i] = x})
        value(s) == s \in DOMAIN ref.node /\ ref.node[s] # s
    IN  \A i \in DOMAIN ref.entries :
            /\ ref.entries[i].kind # "if" /\ ValueOf(ref.entries[i].dep, F.tri) # no => times(i + 1) >= 1
            /\ ~value(ref.entries[i].sym) => times(i + 1) <= 1
=============================================================================
