---------------------------- MODULE MCMenuconfig ----------------------------
(***************************************************************************)
(* menuconfig on small Kconfig files of many shapes, the expressions that  *)
(* dependencies are made of, the boxes that show the menus, and the        *)
(* dependencies of objects on options: a behaviour is about one of them.   *)
(***************************************************************************)
EXTENDS Mconf, KconfigSimplify, Lxdialog, Fixdep

St(kind) == [kind |-> kind, arg |-> "", arg2 |-> "", expr |-> NULL, dep |-> NULL]
Arg(kind, a) == [St(kind) EXCEPT !.arg = a]
Ex(kind, x) == [St(kind) EXCEPT !.expr = x]
Entry(s, type) == << Arg("config", s), Arg("type", type), St("prompt") >>
DependsOnIf(x) == IF x = NULL THEN <<>> ELSE << Ex("depends", x) >>
Sel(from, x) == IF x[1] = from THEN << Arg("select", x[2]) >> ELSE <<>>

A == Symbol("A")
B == Symbol("B")
C == Symbol("C")
\* the dependencies of A, B and C, who selects whom, and what is around B and C
\* (an entry of a choice that depends on an entry before it goes below that
\* one and is no value of the choice)
Nth(n, size, list) == list[((n \div size) % Len(list)) + 1]
DepA(n)  == Nth(n, 1, <<NULL, C>>)
DepB(n)  == Nth(n, 2, <<NULL, C>>)
DepC(n)  == Nth(n, 4, <<NULL, <<"and", A, <<"not", B>> >> >>)
Sels(n)  == Nth(n, 8, << <<"-", "-">>, <<"B", "C">>, <<"C", "A">> >>)
Kind(n)  == Nth(n, 24, <<"none", "menu", "if", "choice">>)
Shapes == {n \in 0 .. 95 : /\ Kind(n) = "choice" => DepC(n) = NULL
                           /\ Kind(n) \in {"menu", "if"} => DepA(n) = NULL
                           /\ Kind(n) = "if" => DepB(n) = NULL}
Around(kind, inner) ==
    CASE kind = "none"   -> inner
      [] kind = "menu"   -> << Arg("menu", "-"), Ex("depends", A), Arg("block", "menu") >> \o inner \o << Arg("end", "menu") >>
      [] kind = "if"     -> << Ex("if", A) >> \o inner \o Entry("N", "int") \o << Arg("end", "if") >>
      [] kind = "choice" -> << Arg("choice", "<C>"), St("prompt"), Arg("block", "choice") >> \o inner \o << Arg("end", "choice") >>
MCStatements == [n \in Shapes |->
    Entry("MODULES", "boolean") \o << Arg("option", "modules") >>
    \o Entry("A", "tristate") \o DependsOnIf(DepA(n)) \o Sel("A", Sels(n))
    \o Around(Kind(n), Entry("B", "boolean") \o DependsOnIf(DepB(n)) \o Sel("B", Sels(n))
                       \o Entry("C", "tristate") \o DependsOnIf(DepC(n)) \o Sel("C", Sels(n)))]
MCEnv == [name \in {"ARCH"} |-> "unix"]
MCText == [s \in {"1"} |-> <<s>>]
MCFiles == { << <<"set", "MODULES", <<"y">> >>, <<"set", "A", <<"y">> >>, <<"set", "B", <<"y">> >> >>,
             << <<"set", "MODULES", <<"y">> >>, <<"set", "A", <<"m">> >>, <<"set", "C", <<"m">> >> >> }
MCInputs == { <<"9">>, <<"\"", "\\">> }
MCTypes == [s \in {"A", "T", "y", "m", "n"} |->
    IF s = "A" THEN "boolean" ELSE IF s = "T" THEN "tristate" ELSE "unknown"]
MCParts == {A, Symbol("T"), Symbol("m"), <<"equal", "T", "y">>, <<"unequal", "T", "m">>, <<"unequal", "A", "y">>}

\* Menus, lists and texts shorter and longer than the boxes; 0 is an item that
\* is no entry.
MCMenus == {<<1>>, <<1, 2>>, <<1, 2, 3, 4>>, <<1, 3, 4, 0>>, <<1, 2, 3, 4, 5>>}
MCLetters == [i \in 0 .. 5 |-> <<"l", "a", "s", "a", "b", "x">>[i + 1]]
MCLists == {<<"a">>, <<"a", "b">>, <<"a", "s", "a", "b">>, <<"b", "h", "a", "x", "a">>}
MCTexts == {<<"c", "\n">>, <<"\n">>, <<"c", "\n", "\n", "c", "\n">>,
            <<"\n", "c", "\n", "c", "c", "\n", "\n", "c", "\n">>, <<"c", "\n", "c">>}
MCInits == {<<>>, <<"a">>, <<"a", "o">>, <<"a", "o", "a">>, <<"a", "o", "a", "a">>}

\* An option at each of the places in a word, one that is part of another, the
\* option of a module, one at the end of the file.
Padding == {[k \in 1 .. n |-> "x"] : n \in 0 .. 4}
Options == {<<>>, <<"A">>, <<"A", "B">>, <<"A">> \o _MODULE, Tail(_MODULE), <<"A", "_">> \o CONFIG_ \o <<"B">>}
Rests   == {<<>>, <<" ">>, <<" ">> \o CONFIG_ \o <<"A", "\n">>}
MCContents == {p \o CONFIG_ \o w \o t : p \in Padding, w \in Options, t \in Rests} \cup {<<>>}

NoMenus == tree = -1 /\ Tree = 0 /\ ref = 0 /\ sy = [changes |-> FALSE] /\ stack = <<>> /\ keys = 0 /\ file = NoFile
NoExpression == e = NULL
NoDialogs == dlg = [box |-> "unused", open |-> TRUE]
NoDeps == fx = [names |-> <<>>, at |-> 0, config |-> clear_config, out |-> <<>>]

MCInit ==
    \/ MInit /\ NoExpression /\ NoDialogs /\ NoDeps
    \/ NoMenus /\ SimplifyInit /\ NoDialogs /\ NoDeps
    \/ NoMenus /\ NoExpression /\ DInit /\ NoDeps
    \/ NoMenus /\ NoExpression /\ NoDialogs /\ FInit
MCNext ==
    \/ MNext /\ UNCHANGED <<e, dlg, fx>>
    \/ SimplifyNext /\ UNCHANGED <<mvars, dlg, fx>>
    \/ DNext /\ UNCHANGED <<mvars, e, fx>>
    \/ FNext /\ UNCHANGED <<mvars, e, dlg>>
Spec == MCInit /\ [][MCNext]_<<mvars, e, dlg, fx>>
=============================================================================
