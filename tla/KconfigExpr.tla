---------------------------- MODULE KconfigExpr ----------------------------
(***************************************************************************)
(* The dependency expressions of the configuration language                *)
(* (scripts/kconfig/expr.c): how they are simplified and printed.          *)
(*                                                                         *)
(* An expression is a tuple, its type first: <<"symbol", s>>,              *)
(* <<"equal", s, t>>, <<"unequal", s, t>>, <<"not", e>>, <<"and", e, f>>,  *)
(* <<"or", e, f>>; <<"none">> is the null pointer.  A symbol is a string;  *)
(* ty gives the type of each.  Where the code walks one tree with two      *)
(* pointers, which may be the same or one above the other, a pointer is    *)
(* the path from the root, so that what is changed through one is seen     *)
(* through the other.                                                      *)
(***************************************************************************)
EXTENDS Integers, Sequences

\* The symbols with SYMBOL_CONST: y, m, n and quoted words.
CONSTANT ConstSymbols

no  == 0
mod == 1
yes == 2

NULL == <<"none">>
symbol_yes == "y"
symbol_mod == "m"
symbol_no  == "n"

EXPR_OR(d1, d2)  == IF d1 > d2 THEN d1 ELSE d2
EXPR_AND(d1, d2) == IF d1 < d2 THEN d1 ELSE d2
EXPR_NOT(d) == 2 - d

Symbol(s) == <<"symbol", s>>
IsBinary(e)  == e[1] \in {"and", "or"}
IsCompare(e) == e[1] \in {"equal", "unequal"}

expr_alloc_and(e1, e2) ==
    IF e1 = NULL THEN e2 ELSE IF e2 = NULL THEN e1 ELSE <<"and", e1, e2>>
expr_alloc_or(e1, e2) ==
    IF e1 = NULL THEN e2 ELSE IF e2 = NULL THEN e1 ELSE <<"or", e1, e2>>

expr_is_yes(e) == e \in {NULL, Symbol(symbol_yes)}
expr_is_no(e)  == e = Symbol(symbol_no)

\* What is left of a part of an and, or of an or, that is taken out.
Neutral(type) == Symbol(IF type = "and" THEN symbol_yes ELSE symbol_no)

\* Drops y and n from ands and ors.
RECURSIVE expr_eliminate_yn(_)
expr_eliminate_yn(e) ==
    IF ~IsBinary(e) THEN e
    ELSE LET type == e[1]
             l == expr_eliminate_yn(e[2])
             r == expr_eliminate_yn(e[3])
             absorbing == Neutral(IF type = "and" THEN "or" ELSE "and")
         IN  CASE l = absorbing      -> l
               [] l = Neutral(type)  -> r
               [] r = absorbing      -> r
               [] r = Neutral(type)  -> l
               [] OTHER              -> <<type, l, r>>

\* Takes the parts that are equal out of both expressions, which are two
\* trees, and reads what is left for equality.
RECURSIVE __expr_eliminate_eq(_, _, _), expr_eliminate_eq(_, _), expr_eq(_, _)
__expr_eliminate_eq(type, e1, e2) ==
    CASE e1[1] = type ->
           LET l == __expr_eliminate_eq(type, e1[2], e2)
               r == __expr_eliminate_eq(type, e1[3], l[2])
           IN  << <<type, l[1], r[1]>>, r[2] >>
      [] e1[1] # type /\ e2[1] = type ->
           LET l == __expr_eliminate_eq(type, e1, e2[2])
               r == __expr_eliminate_eq(type, l[1], e2[3])
           IN  << r[1], <<type, l[2], r[2]>> >>
      [] OTHER ->
           IF e1 = e2 /\ e1 \in {Symbol(symbol_yes), Symbol(symbol_no)} THEN <<e1, e2>>
           ELSE IF expr_eq(e1, e2) THEN <<Neutral(type), Neutral(type)>>
           ELSE <<e1, e2>>

expr_eliminate_eq(e1, e2) ==
    IF NULL \in {e1, e2} THEN <<e1, e2>>
    ELSE LET a == IF IsBinary(e1) THEN __expr_eliminate_eq(e1[1], e1, e2) ELSE <<e1, e2>>
             b == IF a[1][1] # a[2][1] /\ IsBinary(a[2])
                  THEN __expr_eliminate_eq(a[2][1], a[1], a[2]) ELSE a
         IN  <<expr_eliminate_yn(b[1]), expr_eliminate_yn(b[2])>>

expr_eq(e1, e2) ==
    CASE e1[1] # e2[1]                   -> FALSE
      [] e1[1] = e2[1] /\ e1[1] = "not"  -> expr_eq(e1[2], e2[2])
      [] e1[1] = e2[1] /\ IsBinary(e1)   ->
           LET r == expr_eliminate_eq(e1, e2)
           IN  r[1][1] = "symbol" /\ r[2][1] = "symbol" /\ r[1] = r[2]
      [] OTHER                           -> e1 = e2

\* FOO!=n -> FOO, for a tristate FOO.
RECURSIVE expr_trans_bool(_, _)
expr_trans_bool(ty, e) ==
    CASE IsBinary(e)    -> <<e[1], expr_trans_bool(ty, e[2]), expr_trans_bool(ty, e[3])>>
      [] e[1] = "not"   -> <<"not", expr_trans_bool(ty, e[2])>>
      [] e[1] = "unequal" /\ ty[e[2]] = "tristate" /\ e[3] = symbol_no -> Symbol(e[2])
      [] OTHER          -> e

\* The symbol that a part to be joined is about; "" when it is not joined.
JoinLeft(e) ==
    CASE e[1] = "not" /\ (IsCompare(e[2]) \/ e[2][1] = "symbol") -> e[2][2]
      [] IsCompare(e) \/ e[1] = "symbol"                         -> e[2]
      [] OTHER                                                   -> ""
JoinRight(e) ==
    CASE e[1] = "not" /\ e[2][1] = "symbol"  -> e[2][2]
      [] IsCompare(e) \/ e[1] = "symbol"     -> e[2]
      [] OTHER                               -> ""

\* The type, when e1 and e2 are about the same symbol of type bool or tristate.
JoinType(ty, e1, e2) ==
    IF JoinLeft(e1) # "" /\ JoinLeft(e1) = JoinRight(e2) /\ ty[JoinLeft(e1)] \in {"boolean", "tristate"}
    THEN ty[JoinLeft(e1)] ELSE "none"

\* One is of type t1 and the other of t2, compared with s1 and s2.
Either(e1, e2, a, b) == {e1, e2} = {a, b} /\ e1 # e2

\* e1 || e2 as one expression, NULL when they stay apart.
expr_join_or(ty, e1, e2) ==
    LET s == JoinLeft(e1)
        type == JoinType(ty, e1, e2)
    IN  IF expr_eq(e1, e2) THEN e1
        ELSE CASE type = "tristate" /\ Either(e1, e2, <<"equal", s, "y">>, <<"equal", s, "m">>) -> <<"unequal", s, "n">>
               [] type = "tristate" /\ Either(e1, e2, <<"equal", s, "y">>, <<"equal", s, "n">>) -> <<"unequal", s, "m">>
               [] type = "tristate" /\ Either(e1, e2, <<"equal", s, "m">>, <<"equal", s, "n">>) -> <<"unequal", s, "y">>
               [] type = "boolean" /\ Either(e1, e2, <<"not", Symbol(s)>>, Symbol(s)) -> Symbol(symbol_yes)
               [] OTHER -> NULL

\* (a='b') && (a!='c') -> 'b'='c' ? 'n' : a='b'
JoinEqualUnequal(s, eq, ne) ==
    IF {eq[3], ne[3]} \subseteq ConstSymbols
    THEN IF eq[3] # ne[3] THEN <<"equal", s, eq[3]>> ELSE Symbol(symbol_no)
    ELSE NULL

expr_join_and(ty, e1, e2) ==
    LET s == JoinLeft(e1)
        type == JoinType(ty, e1, e2)
    IN  IF expr_eq(e1, e2) THEN e1
        ELSE IF type = "none" THEN NULL
        ELSE CASE Either(e1, e2, Symbol(s), <<"equal", s, "y">>)   -> <<"equal", s, "y">>
               [] Either(e1, e2, Symbol(s), <<"unequal", s, "n">>) -> Symbol(s)
               [] Either(e1, e2, Symbol(s), <<"unequal", s, "m">>) -> <<"equal", s, "y">>
               [] type = "tristate" /\ e1[1] = "equal" /\ e2[1] = "unequal" -> JoinEqualUnequal(s, e1, e2)
               [] type = "tristate" /\ e1[1] = "unequal" /\ e2[1] = "equal" -> JoinEqualUnequal(s, e2, e1)
               [] type = "tristate" /\ Either(e1, e2, <<"unequal", s, "y">>, <<"unequal", s, "n">>) -> <<"equal", s, "m">>
               [] type = "tristate" /\ Either(e1, e2, <<"unequal", s, "y">>, <<"unequal", s, "m">>) -> <<"equal", s, "n">>
               [] type = "tristate" /\ Either(e1, e2, <<"unequal", s, "m">>, <<"unequal", s, "n">>) -> <<"equal", s, "y">>
               [] OTHER -> NULL

\* The expression at path p of tree t, and t with x at p.
RECURSIVE At(_, _), Put(_, _, _)
At(t, p) == IF p = <<>> THEN t ELSE At(t[Head(p)], Tail(p))
Put(t, p, x) == IF p = <<>> THEN x ELSE [t EXCEPT ![Head(p)] = Put(@, Tail(p), x)]

RECURSIVE expr_transform(_, _)

\* !e, where e is transformed already.
TransformNot(ty, e) ==
    CASE e[1] = "not"                 -> expr_transform(ty, e[2])
      [] e[1] = "equal"               -> <<"unequal", e[2], e[3]>>
      [] e[1] = "unequal"             -> <<"equal", e[2], e[3]>>
      [] e[1] = "or"                  -> expr_transform(ty, <<"and", <<"not", e[2]>>, <<"not", e[3]>> >>)
      [] e[1] = "and"                 -> expr_transform(ty, <<"or", <<"not", e[2]>>, <<"not", e[3]>> >>)
      [] e = Symbol(symbol_yes)       -> Symbol(symbol_no)
      [] e = Symbol(symbol_mod)       -> Symbol(symbol_mod)
      [] e = Symbol(symbol_no)        -> Symbol(symbol_yes)
      [] OTHER                        -> <<"not", e>>

\* Mutant: != is taken for =.
TransformCompare_Equal(e) == IF e[3] = symbol_yes THEN Symbol(e[2]) ELSE IF e[3] = symbol_mod THEN Symbol(symbol_no) ELSE <<"not", Symbol(e[2])>>

\* A boolean symbol compared with y, m or n.
TransformCompare(e) ==
    LET is == e[1] = "equal"
    IN  CASE e[3] = symbol_no  -> IF is THEN <<"not", Symbol(e[2])>> ELSE Symbol(e[2])
          [] e[3] = symbol_mod -> Symbol(IF is THEN symbol_no ELSE symbol_yes)
          [] e[3] = symbol_yes -> IF is THEN Symbol(e[2]) ELSE <<"not", Symbol(e[2])>>
          [] OTHER             -> e

expr_transform(ty, e) ==
    CASE IsBinary(e)     -> <<e[1], expr_transform(ty, e[2]), expr_transform(ty, e[3])>>
      [] e[1] = "not"    -> TransformNot(ty, expr_transform(ty, e[2]))
      [] IsCompare(e)    -> IF ty[e[2]] = "boolean" THEN TransformCompare(e) ELSE e
      [] OTHER           -> e

\* The parts that e1 and e2 have in common move to ep.
RECURSIVE expr_extract_eq(_, _, _, _)
expr_extract_eq(type, ep, e1, e2) ==
    CASE e1[1] = type ->
           LET l == expr_extract_eq(type, ep, e1[2], e2)
               r == expr_extract_eq(type, l[1], e1[3], l[3])
           IN  <<r[1], <<type, l[2], r[2]>>, r[3]>>
      [] e1[1] # type /\ e2[1] = type ->
           LET l == expr_extract_eq(type, ep, e1, e2[2])
               r == expr_extract_eq(type, l[1], l[2], e2[3])
           IN  <<r[1], r[2], <<type, l[3], r[3]>> >>
      [] OTHER ->
           IF expr_eq(e1, e2)
           THEN <<IF ep = NULL THEN e1 ELSE <<type, ep, e1>>, Neutral(type), Neutral(type)>>
           ELSE <<ep, e1, e2>>

\* expr_extract_eq_and, expr_extract_eq_or: what is left of e1.
ExtractedLeft(type, e1, e2) ==
    LET r == expr_extract_eq(type, NULL, e1, e2)
    IN  IF r[1] = NULL THEN r[2] ELSE expr_eliminate_yn(r[2])

\* The pairs of parts that stand for the pair at p1 and p2, when one of the
\* two is of the given type.
PartPairs(type, t, p1, p2) ==
    IF At(t, p1)[1] = type THEN << <<p1 \o <<2>>, p2>>, <<p1 \o <<3>>, p2>> >>
    ELSE IF At(t, p2)[1] = type THEN << <<p1, p2 \o <<2>> >>, <<p1, p2 \o <<3>> >> >>
    ELSE <<>>

\* Joins the parts of an and, or of an or, two by two.  s is the tree with
\* trans_count, p1 and p2 the two pointers into it.
Joined(type, s, p1, p2, j) ==
    IF j = NULL THEN s ELSE [t |-> Put(Put(s.t, p1, Neutral(type)), p2, j), n |-> s.n + 1]
JoinParts(ty, type, s, p1, p2) ==
    Joined(type, s, p1, p2,
           IF type = "or" THEN expr_join_or(ty, At(s.t, p1), At(s.t, p2)) ELSE expr_join_and(ty, At(s.t, p1), At(s.t, p2)))

RECURSIVE expr_eliminate_dups1(_, _, _, _, _), DupsEach1(_, _, _, _)
DupsEach1(ty, type, s, pairs) ==
    IF pairs = <<>> THEN s
    ELSE DupsEach1(ty, type, expr_eliminate_dups1(ty, type, s, pairs[1][1], pairs[1][2]), Tail(pairs))
expr_eliminate_dups1(ty, type, s, p1, p2) ==
    IF PartPairs(type, s.t, p1, p2) # <<>> THEN DupsEach1(ty, type, s, PartPairs(type, s.t, p1, p2))
    ELSE IF p1 = p2 THEN s
    ELSE JoinParts(ty, type, IF IsBinary(At(s.t, p1)) THEN DupsEach1(ty, At(s.t, p1)[1], s, << <<p1, p1>> >>) ELSE s, p1, p2)

\* An or of parts, anded with the negations of them, is n; and the dual.
Opposed(ty, s, p1, p2) ==
    LET e1 == At(s.t, p1)
        or == e1[1] = "or"
        left == ExtractedLeft(IF or THEN "and" ELSE "or", expr_transform(ty, <<"not", e1>>), At(s.t, p2))
    IN  IF ~(IF or THEN expr_is_yes(left) ELSE expr_is_no(left)) THEN s
        ELSE [t |-> Put(s.t, p1, Symbol(IF or THEN symbol_no ELSE symbol_yes)), n |-> s.n + 1]

RECURSIVE expr_eliminate_dups2(_, _, _, _, _), DupsEach2(_, _, _, _), Negated2(_, _, _, _)
DupsEach2(ty, type, s, pairs) ==
    IF pairs = <<>> THEN s
    ELSE DupsEach2(ty, type, expr_eliminate_dups2(ty, type, s, pairs[1][1], pairs[1][2]), Tail(pairs))
Negated2(ty, s, p1, p2) ==
    IF ~IsBinary(At(s.t, p1)) THEN s ELSE Opposed(ty, DupsEach2(ty, At(s.t, p1)[1], s, << <<p1, p1>> >>), p1, p2)
expr_eliminate_dups2(ty, type, s, p1, p2) ==
    LET each == DupsEach2(ty, type, s, PartPairs(type, s.t, p1, p2))
    IN  IF At(s.t, p1)[1] = type \/ p1 = p2 THEN each ELSE Negated2(ty, each, p1, p2)

RECURSIVE expr_eliminate_dups(_, _)
expr_eliminate_dups(ty, e) ==
    LET again(s) == IF s.n = 0 THEN s.t ELSE expr_eliminate_dups(ty, expr_eliminate_yn(s.t))
    IN  IF ~IsBinary(e) THEN e
        ELSE again(expr_eliminate_dups2(ty, e[1], expr_eliminate_dups1(ty, e[1], [t |-> e, n |-> 0], <<>>, <<>>), <<>>, <<>>))

RECURSIVE expr_contains_symbol(_, _), expr_depends_symbol(_, _)
expr_contains_symbol(e, s) ==
    CASE IsBinary(e)        -> expr_contains_symbol(e[2], s) \/ expr_contains_symbol(e[3], s)
      [] e[1] = "not"       -> expr_contains_symbol(e[2], s)
      [] IsCompare(e)       -> s \in {e[2], e[3]}
      [] e[1] = "symbol"    -> e[2] = s
      [] OTHER              -> FALSE

expr_depends_symbol(e, s) ==
    CASE e[1] = "and"       -> expr_depends_symbol(e[2], s) \/ expr_depends_symbol(e[3], s)
      [] e[1] = "symbol"    -> e[2] = s
      [] e[1] = "equal"     -> e[2] = s /\ e[3] \in {symbol_yes, symbol_mod}
      [] e[1] = "unequal"   -> e[2] = s /\ e[3] = symbol_no
      [] OTHER              -> FALSE

\* e compared with the symbol y, m or n, as an expression.
RECURSIVE expr_trans_compare(_, _, _)
expr_trans_compare(e, type, s) ==
    LET dual == [x \in {"and", "or"} |-> IF x = "and" THEN "or" ELSE "and"]
        l == expr_trans_compare(e[2], "equal", s)
        r == expr_trans_compare(e[3], "equal", s)
        joined == IF s = symbol_yes THEN <<e[1], l, r>> ELSE IF s = symbol_no THEN <<dual[e[1]], l, r>> ELSE e
        direct == (type = "equal") = (s = symbol_yes)
    IN  CASE e = NULL         -> IF type = "unequal" THEN <<"not", Symbol(s)>> ELSE Symbol(s)
          [] IsBinary(e)      -> IF type = "unequal" THEN <<"not", joined>> ELSE joined
          [] e[1] = "not"     -> expr_trans_compare(e[2], IF type = "equal" THEN "unequal" ELSE "equal", s)
          [] IsCompare(e)     -> IF s = symbol_mod THEN Symbol(IF type = "equal" THEN symbol_no ELSE symbol_yes)
                                 ELSE IF direct THEN e ELSE <<"not", e>>
          [] e[1] = "symbol"  -> <<type, e[2], s>>

\* Printing: an expression within one that binds tighter is in parentheses.
expr_compare_type(t1, t2) ==
    /\ t1 # t2
    /\ \/ t1 \in {"equal", "unequal"} /\ t2 = "not"
       \/ t1 \in {"equal", "unequal", "not"} /\ t2 = "and"
       \/ t1 \in {"equal", "unequal", "not", "and"} /\ t2 = "or"

RECURSIVE expr_print(_, _)
expr_print(e, prevtoken) ==
    LET text == CASE e = NULL         -> <<"y">>
                  [] e[1] = "symbol"  -> <<e[2]>>
                  [] e[1] = "not"     -> <<"!">> \o expr_print(e[2], "not")
                  [] e[1] = "equal"   -> <<e[2], "=", e[3]>>
                  [] e[1] = "unequal" -> <<e[2], "!=", e[3]>>
                  [] e[1] = "or"      -> expr_print(e[2], "or") \o <<"||">> \o expr_print(e[3], "or")
                  [] e[1] = "and"     -> expr_print(e[2], "and") \o <<"&&">> \o expr_print(e[3], "and")
    IN  IF expr_compare_type(prevtoken, e[1]) THEN <<"(">> \o text \o <<")">> ELSE text

----------------------------------------------------------------------------
\* The value of an expression when the symbols have the values v.
Letter(t) == CASE t = no -> "n" [] t = mod -> "m" [] t = yes -> "y"
RECURSIVE ValueOf(_, _)
ValueOf(x, v) ==
    LET tri(s) == IF s \in DOMAIN v THEN v[s] ELSE IF s = "y" THEN yes ELSE IF s = "m" THEN mod ELSE no
        str(s) == IF s \in DOMAIN v THEN Letter(v[s]) ELSE s
    IN  CASE x = NULL           -> yes
          [] x[1] = "symbol"    -> tri(x[2])
          [] x[1] = "not"       -> EXPR_NOT(ValueOf(x[2], v))
          [] x[1] = "and"       -> EXPR_AND(ValueOf(x[2], v), ValueOf(x[3], v))
          [] x[1] = "or"        -> EXPR_OR(ValueOf(x[2], v), ValueOf(x[3], v))
          [] x[1] = "equal"     -> IF str(x[2]) = str(x[3]) THEN yes ELSE no
          [] x[1] = "unequal"   -> IF str(x[2]) = str(x[3]) THEN no ELSE yes
=============================================================================
