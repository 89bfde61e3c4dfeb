----------------------------- MODULE MCKconfig -----------------------------
(***************************************************************************)
(* Two versions of a small Kconfig tree, and a broken one.                 *)
(***************************************************************************)
EXTENDS Kconfig

St(kind) == [kind |-> kind, arg |-> "", arg2 |-> "", expr |-> NULL, dep |-> NULL]
Arg(kind, a) == [St(kind) EXCEPT !.arg = a]
If(kind, e, d) == [St(kind) EXCEPT !.expr = e, !.dep = d]
Default(s) == If("default", Symbol(s), NULL)
Entry(s, type) == << Arg("config", s), Arg("type", type), St("prompt") >>

Common ==
    Entry("MODULES", "boolean") \o << Arg("option", "modules") >>
    \o Entry("T", "tristate") \o << Default("m") >>
Selecting ==
    Entry("B", "boolean") \o << If("depends", Symbol("T"), NULL), Arg("select", "S") >>
    \o << Arg("config", "S"), Arg("type", "tristate") >>
Number == Entry("N", "int") \o << If("range", <<"range", "1", "5">>, NULL), Default("3") >>
Choice ==
    << Arg("choice", "<C>"), St("prompt"), Arg("block", "choice") >>
    \o Entry("CA", "boolean") \o Entry("CB", "boolean") \o << If("depends", Symbol("T"), NULL) >>
    \o << Arg("end", "choice") >>
MCStatements == [f \in {"K1", "K2", "K3"} |->
    CASE f = "K1" -> Common \o Selecting
                     \o << Arg("menu", ""), If("depends", Symbol("S"), NULL), Arg("block", "menu") >> \o Number
                     \o << Arg("end", "menu") >>
      [] f = "K2" -> Common \o Choice \o Entry("X", "string") \o << Default("a") >>
      [] f = "K3" -> Entry("A", "boolean") \o << If("depends", Symbol("D"), NULL) >>
                     \o Entry("D", "boolean") \o << If("depends", Symbol("A"), NULL) >>]
MCEnvironment == [e \in {"ARCH"} |-> "unix"]
MCText == [s \in {"1", "3", "5", "a"} |-> IF s = "a" THEN <<"\"", "\\">> ELSE <<s>>]
MCConst == {"y", "m", "n", "1", "3", "5", "a"}
MCStrings == { <<"4">> }
=============================================================================
