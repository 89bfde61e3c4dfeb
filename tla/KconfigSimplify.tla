-------------------------- MODULE KconfigSimplify --------------------------
(***************************************************************************)
(* Expressions built up part by part, and what the simplifications and the *)
(* printing of module KconfigExpr do to them.  The grammar of expressions  *)
(* is the one of scripts/kconfig/zconf.y.                                  *)
(***************************************************************************)
EXTENDS KconfigExpr

CONSTANTS
    Types,    \* the type of every symbol
    Parts,    \* the expressions that others are built from
    MaxParts  \* bound: the parts of an expression, before its negation is joined to it

ASSUME SimplifyAssumption == MaxParts \in Nat \ {0}

VARIABLE e    \* the expression, or NULL when none is looked at

RECURSIVE PartsOf(_)
PartsOf(x) == IF IsBinary(x) THEN PartsOf(x[2]) + PartsOf(x[3])
              ELSE IF x[1] = "not" THEN PartsOf(x[2]) ELSE 1

\* Reading an expression from the tokens ts: the expression and what follows.
\* ! binds most, || least, and both && and || group to the left.
RECURSIVE ReadOr(_), ReadAnd(_), ReadNot(_), MoreOr(_), MoreAnd(_)
ReadNot(ts) ==
    CASE ts[1] = "!" -> LET r == ReadNot(Tail(ts)) IN <<<<"not", r[1]>>, r[2]>>
      [] ts[1] = "(" -> LET r == ReadOr(Tail(ts)) IN <<r[1], Tail(r[2])>>
      [] OTHER ->
           IF Len(ts) >= 3 /\ ts[2] \in {"=", "!="}
           THEN << <<IF ts[2] = "=" THEN "equal" ELSE "unequal", ts[1], ts[3]>>, SubSeq(ts, 4, Len(ts))>>
           ELSE <<Symbol(ts[1]), Tail(ts)>>
MoreAnd(r) == IF r[2] # <<>> /\ r[2][1] = "&&"
              THEN LET f == ReadNot(Tail(r[2])) IN MoreAnd(<< <<"and", r[1], f[1]>>, f[2]>>)
              ELSE r
ReadAnd(ts) == MoreAnd(ReadNot(ts))
MoreOr(r) == IF r[2] # <<>> /\ r[2][1] = "||"
             THEN LET f == ReadAnd(Tail(r[2])) IN MoreOr(<< <<"or", r[1], f[1]>>, f[2]>>)
             ELSE r
ReadOr(ts) == MoreOr(ReadAnd(ts))

SimplifyInit == e \in Parts
Negate == e # NULL /\ e[1] # "not" /\ e' = <<"not", e>>
Join(type) == \E x \in Parts \cup {<<"not", p>> : p \in Parts} :
    /\ e # NULL /\ PartsOf(e) < MaxParts
    /\ \/ e' = <<type, e, x>>
       \/ e' = <<type, x, e>>
Twice(type) == e # NULL /\ PartsOf(e) < MaxParts /\ e' = <<type, e, <<"not", e>>>>
SimplifyNext == Negate \/ Join("and") \/ Join("or") \/ Twice("and") \/ Twice("or")

----------------------------------------------------------------------------
Variable == {s \in DOMAIN Types : Types[s] \in {"boolean", "tristate"}}
Valuations == {v \in [Variable -> {no, mod, yes}] : \A s \in Variable : Types[s] = "boolean" => v[s] # mod}

\* Neither the expression nor any part of it has the value m.
RECURSIVE NeverMod(_, _)
NeverMod(x, v) ==
    /\ ValueOf(x, v) # mod
    /\ IsBinary(x) => NeverMod(x[2], v) /\ NeverMod(x[3], v)
    /\ x[1] = "not" => NeverMod(x[2], v)

\* The simplified forms of an expression have its value.  What
\* expr_transform and expr_eliminate_yn make of it has, whatever the values
\* of the symbols; what expr_eliminate_dups makes of it, and the comparison
\* with n that menu_finalize makes to find submenus, as long as no part of
\* the expression is m; expr_eq holds only of expressions of one value; and
\* the text that expr_print makes of it is read as an expression that has it.
SimplifiedKeepsValue == e # NULL =>
    \A t \in {expr_transform(Types, e)} : \A d \in {expr_eliminate_dups(Types, t)} : \A r \in {ReadOr(expr_print(e, "none"))} :
    \A v \in Valuations :
    /\ ValueOf(t, v) = ValueOf(e, v)
    /\ ValueOf(expr_eliminate_yn(e), v) = ValueOf(e, v)
    /\ NeverMod(e, v) =>
           /\ ValueOf(d, v) = ValueOf(e, v)
           /\ ValueOf(expr_trans_compare(e, "unequal", "n"), v) = (IF ValueOf(e, v) = no THEN no ELSE yes)
    /\ \A f \in {t} \cup Parts \cup (IF IsBinary(e) THEN {<<e[1], e[3], e[2]>>} ELSE {}) :
           expr_eq(e, f) => ValueOf(e, v) = ValueOf(f, v)
    /\ r[2] = <<>> /\ ValueOf(r[1], v) = ValueOf(e, v)
=============================================================================
