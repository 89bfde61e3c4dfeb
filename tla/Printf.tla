------------------------------- MODULE Printf -------------------------------
(***************************************************************************)
(* The two small versions of the formatting, pp_printf/vsprintf-xint.c and *)
(* vsprintf-mini.c, and what they share with the full one.  A format and   *)
(* what is printed are sequences of characters, a character is a string of *)
(* one; NUL is the end of a format.                                        *)
(*                                                                         *)
(* WordBits is the width of unsigned and of unsigned long.                 *)
(***************************************************************************)
EXTENDS Integers, Sequences, FiniteSets, SequencesExt, FiniteSetsExt

CONSTANT WordBits

NUL == ""
W(x) == x % 2^WordBits
Digit      == <<"0", "1", "2", "3", "4", "5", "6", "7", "8", "9", "A", "B", "C", "D", "E", "F">>
SmallDigit == <<"0", "1", "2", "3", "4", "5", "6", "7", "8", "9", "a", "b", "c", "d", "e", "f">>
IsDigit(c) == \E k \in 1 .. 10 : Digit[k] = c
DigitValue(c) == (CHOOSE k \in 1 .. 16 : c \in {Digit[k], SmallDigit[k]}) - 1
Times(n, c) == [k \in 1 .. n |-> c]
Char(fmt, k) == IF k <= Len(fmt) THEN fmt[k] ELSE NUL
IntegerConversions == {"d", "i", "u", "o", "x", "X"}

-----------------------------------------------------------------------------
\* number() of vsprintf-xint.c: the digits from the last one on, then the sign
\* before blanks, or zeros and the sign before them.
xint_digits[value \in Nat, base \in {8, 10, 16}] ==
    IF value = 0 THEN <<>>
    ELSE xint_digits[value \div base, base] \o <<SmallDigit[(value % base) + 1]>>
xint_number(value0, base, lead, wid) ==
    LET negative == value0 >= 2^(WordBits - 1) /\ base = 10
        value  == IF negative THEN W(2^WordBits - value0) ELSE value0
        digits == IF value = 0 THEN <<"0">> ELSE xint_digits[value, base]
        fill(n, t) == Times(Max({n - Len(t), 0}), lead) \o t
    IN  IF ~negative THEN fill(wid, digits)
        ELSE IF lead = " " THEN fill(wid, <<"-">> \o digits)
        ELSE <<"-">> \o fill(wid - 1, digits)

\* What is between % and the conversion: a 0, the last digit of a width, and
\* anything else, which is passed over.  A star is not in these formats.
SmallConversions == IntegerConversions \cup {"c", "s", "n", "%", "p"}
ConversionAt(fmt, at) ==
    Min({k \in at + 1 .. Len(fmt) + 1 : Char(fmt, k) \in SmallConversions \cup {NUL}})
XintLead(fmt, at, end) == IF \E k \in at + 1 .. end - 1 : fmt[k] = "0" THEN "0" ELSE " "
XintWidth(fmt, at, end) ==
    LET ks == {k \in at + 1 .. end - 1 : IsDigit(fmt[k]) /\ fmt[k] # "0"}
    IN  IF ks = {} THEN 1 ELSE DigitValue(fmt[Max(ks)])

\* An integer as one version and the other show it: vsprintf-mini.c has a
\* word of hexadecimal digits for every conversion.
xint_shown(value, c, lead, wid) ==
    xint_number(value, CASE c \in {"p", "x", "X"} -> 16 [] c = "o" -> 8 [] OTHER -> 10, lead, wid)
mini_shown(value) ==
    LET n == WordBits \div 4
    IN  <<"<">> \o [k \in 1 .. n |-> SmallDigit[((value \div 16^(n - k)) % 16) + 1]] \o <<">">>

\* One directive: str is what was printed, args the arguments that are left.
SmallDirective(fmt, p, version) ==
    LET end == ConversionAt(fmt, p.at)
        c   == Char(fmt, end)
        arg == Head(p.args)
        go(out, args) == [p EXCEPT !.at = end + 1, !.str = @ \o out, !.args = args]
    IN  CASE c = NUL -> [p EXCEPT !.at = end]
          [] c = "c" -> go(<<arg>>, Tail(p.args))
          [] c = "s" -> go(arg, Tail(p.args))
          [] c = "n" -> go(<<>>, p.args)
          [] c = "%" -> go(<<"%">>, p.args)
          [] OTHER   -> go(IF version = "mini" THEN mini_shown(W(arg))
                           ELSE xint_shown(W(arg), c, XintLead(fmt, p.at, end), XintWidth(fmt, p.at, end)),
                           Tail(p.args))

SmallVsprintf(fmt, args, version) ==
    LET step(p, k) ==
            IF p.at > Len(fmt) THEN p
            ELSE IF fmt[p.at] # "%" THEN [p EXCEPT !.str = Append(@, fmt[p.at]), !.at = @ + 1]
            ELSE SmallDirective(fmt, p, version)
    IN  FoldLeft(step, [at |-> 1, args |-> args, str |-> <<>>], [k \in 1 .. Len(fmt) |-> k])
xint_vsprintf(fmt, args) == SmallVsprintf(fmt, args, "xint")
mini_vsprintf(fmt, args) == SmallVsprintf(fmt, args, "mini")

-----------------------------------------------------------------------------
(***************************************************************************)
(* The formatting of pp_printf/vsprintf-full.c: the decimal conversion by  *)
(* multiplications and shifts, the layout of a field, and the reading of a *)
(* format.  The flags of a directive are a set; ShortBits is the width of  *)
(* unsigned short.                                                         *)
(***************************************************************************)
CONSTANTS ShortBits,
          Values,       \* arguments of the integer conversions
          Widths,       \* field widths and precisions given as arguments
          Strings,      \* arguments of %s
          FlagRuns, WidthRuns, PrecisionRuns, Qualifiers, Conversions,
          Blocks        \* multiples of 1000 from which decimals are checked

VARIABLE pf     \* what is printed: a directive with its arguments, and the result

-----------------------------------------------------------------------------
\* Five digits of q, the least significant one first.
put_dec_full(q0) ==
    LET q  == W(q0)
        e1 == (q \div 16) % 16
        e2 == (q \div 256) % 16
        e3 == q \div 4096
        d0 == 6 * (e3 + e2 + e1) + (q % 16)
        q1 == W(d0 * 205) \div 2048
        d1 == q1 + 9 * e3 + 5 * e2 + e1
        q2 == W(d1 * 205) \div 2048
        d2 == q2 + 2 * e2
        q3 == W(d2 * 13) \div 128
        d3 == q3 + 4 * e3
        q4 == W(d3 * 205) \div 2048
    IN  <<d0 - 10 * q1, d1 - 10 * q2, d2 - 10 * q3, d3 - 10 * q4, q4>>

\* The same, and it stops where only zeros would follow.
put_dec_trunc(q0) ==
    LET q  == W(q0)
        e1 == (q \div 16) % 16
        e2 == (q \div 256) % 16
        e3 == q \div 4096
        d0 == 6 * (e3 + e2 + e1) + (q % 16)
        q1 == W(d0 * 205) \div 2048
        d1 == q1 + 9 * e3 + 5 * e2 + e1
        q2 == W(d1 * 205) \div 2048
        d2 == q2 + 2 * e2
        q3 == W(d2 * 13) \div 128
        d3 == q3 + 4 * e3
        q4 == W(d3 * 205) \div 2048
        digits == IF d1 = 0 THEN 1
                  ELSE IF d2 = 0 /\ e3 = 0 THEN 2
                  ELSE IF d3 = 0 THEN 3
                  ELSE IF q4 = 0 THEN 4 ELSE 5
    IN  SubSeq(<<d0 - 10 * q1, d1 - 10 * q2, d2 - 10 * q3, d3 - 10 * q4, q4>>, 1, digits)

put_dec[num \in Nat] ==
    IF num < 100000 THEN put_dec_trunc(num)
    ELSE put_dec_full(num % 100000) \o put_dec[num \div 100000]

\* Digits in base 8 or 16, by masks and shifts.
put_bits[num \in Nat, base \in {8, 16}] ==
    <<num % base>> \o (IF num < base THEN <<>> ELSE put_bits[num \div base, base])

\* A number in a field of the given size, with at least precision digits.
number(num0, base, size, precision, flags) ==
    LET type     == IF "LEFT" \in flags THEN flags \ {"ZEROPAD"} ELSE flags
        negative == "SIGN" \in type /\ num0 >= 2^(WordBits - 1)
        num      == IF negative THEN W(2^WordBits - num0) ELSE num0
        sign     == IF "SIGN" \notin type THEN <<>>
                    ELSE IF negative THEN <<"-">>
                    ELSE IF "PLUS" \in type THEN <<"+">>
                    ELSE IF "SPACE" \in type THEN <<" ">> ELSE <<>>
        prefix   == IF "SPECIAL" \notin type \/ base = 10 THEN <<>>
                    ELSE IF base = 8 THEN <<"0">>
                    ELSE <<"0", IF "SMALL" \in type THEN "x" ELSE "X">>
        tmp      == IF num = 0 THEN <<0>>
                    ELSE IF base = 10 THEN put_dec[num] ELSE put_bits[num, base]
        chars    == [k \in DOMAIN tmp |-> (IF "SMALL" \in type THEN SmallDigit ELSE Digit)[tmp[k] + 1]]
        zeros    == Times(Max({precision - Len(tmp), 0}), "0")
        pad(c)   == Times(Max({size - Len(sign) - Len(prefix) - Max({precision, Len(tmp)}), 0}), c)
    IN  (IF type \cap {"ZEROPAD", "LEFT"} = {} THEN pad(" ") ELSE <<>>)
            \o sign \o prefix
            \o (IF "ZEROPAD" \in type THEN pad("0") ELSE <<>>)
            \o zeros \o Reverse(chars)
            \o (IF "LEFT" \in type THEN pad(" ") ELSE <<>>)

string(s, field_width, precision, flags) ==
    LET text == IF precision < 0 THEN s ELSE SubSeq(s, 1, Min({precision, Len(s)}))
        pad  == Times(Max({field_width - Len(text), 0}), " ")
    IN  IF "LEFT" \in flags THEN text \o pad ELSE pad \o text

pointer(ptr, field_width, precision, flags) ==
    IF ptr = 0 THEN string(<<"(", "n", "u", "l", "l", ")">>, field_width, precision, flags)
    ELSE IF field_width = -1
         THEN number(ptr, 16, 2 * (WordBits \div 8), precision, flags \cup {"SMALL", "ZEROPAD"})
         ELSE number(ptr, 16, field_width, precision, flags \cup {"SMALL"})

-----------------------------------------------------------------------------
\* The reading of a directive.  p is the place in the format, the arguments
\* that are left, and what was read so far.

\* The end of the run of characters of a kind that starts at k.
RunEnd(fmt, k, IsOf(_)) ==
    Min({j \in k .. Len(fmt) + 1 : ~IsOf(Char(fmt, j))})

FlagOf(c) ==
    CASE c = "-" -> "LEFT" [] c = "+" -> "PLUS" [] c = " " -> "SPACE"
      [] c = "#" -> "SPECIAL" [] c = "0" -> "ZEROPAD"
IsFlag(c) == c \in {"-", "+", " ", "#", "0"}

skip_atoi(fmt, k) ==
    LET end == RunEnd(fmt, k, IsDigit)
        add(n, c) == n * 10 + DigitValue(c)
    IN  [at |-> end, n |-> FoldLeft(add, 0, SubSeq(fmt, k, end - 1))]

GetFlags(fmt, p) ==
    LET end == RunEnd(fmt, p.at + 1, IsFlag)
    IN  [p EXCEPT !.at = end, !.flags = {FlagOf(fmt[k]) : k \in p.at + 1 .. end - 1}]

GetWidth(fmt, p) ==
    LET c == Char(fmt, p.at)
        n == skip_atoi(fmt, p.at)
    IN  IF IsDigit(c) THEN [p EXCEPT !.at = n.at, !.width = n.n]
        ELSE IF c = "*"
        THEN [p EXCEPT !.at = @ + 1, !.args = Tail(@),
                       !.width = IF Head(p.args) < 0 THEN -Head(p.args) ELSE Head(p.args),
                       !.flags = IF Head(p.args) < 0 THEN @ \cup {"LEFT"} ELSE @]
        ELSE p

GetPrecision(fmt, p) ==
    IF Char(fmt, p.at) # "." THEN p
    ELSE LET c == Char(fmt, p.at + 1)
             n == skip_atoi(fmt, p.at + 1)
         IN  IF IsDigit(c) THEN [p EXCEPT !.at = n.at, !.precision = n.n]
             ELSE IF c = "*"
             THEN [p EXCEPT !.at = @ + 2, !.args = Tail(@), !.precision = Max({Head(p.args), 0})]
             ELSE [p EXCEPT !.at = @ + 1, !.precision = 0]

\* c is not read again after the first l, which therefore counts as two.
GetQualifier(fmt, p) ==
    LET c == Char(fmt, p.at)
    IN  IF c \notin {"h", "l", "L", "Z", "z", "t"} THEN p
        ELSE IF c = "l" THEN [p EXCEPT !.at = @ + 2, !.qualifier = "L"]
        ELSE [p EXCEPT !.at = @ + 1, !.qualifier = c]

\* Mutated form: a short argument is never negative.
Converted_unsigned(x, qualifier, signed) == IF qualifier # "h" THEN W(x) ELSE x % 2^ShortBits

\* The integer argument x, converted as its qualifier and its sign say.
Converted(x, qualifier, signed) ==
    LET h == x % 2^ShortBits
    IN  IF qualifier # "h" THEN W(x)
        ELSE IF signed /\ h >= 2^(ShortBits - 1) THEN W(2^WordBits + h - 2^ShortBits) ELSE h

Integer(p, c) ==
    LET flags == p.flags \cup (IF c = "x" THEN {"SMALL"} ELSE {})
                         \cup (IF c \in {"d", "i"} THEN {"SIGN"} ELSE {})
        base  == CASE c = "o" -> 8 [] c \in {"x", "X"} -> 16 [] OTHER -> 10
    IN  number(Converted(Head(p.args), p.qualifier, "SIGN" \in flags), base, p.width, p.precision, flags)

\* The conversion: what is printed, and the arguments that are left.  A
\* letter after %p keeps the code from ending, and is not in a format here.
Convert(p, c) ==
    LET use(out) == [p EXCEPT !.str = @ \o out, !.args = Tail(@), !.at = @ + 1]
        pad == Times(Max({p.width - 1, 0}), " ")
    IN  CASE c = "c" -> use(IF "LEFT" \in p.flags THEN <<Head(p.args)>> \o pad ELSE pad \o <<Head(p.args)>>)
          [] c = "s" -> use(string(Head(p.args), p.width, p.precision, p.flags))
          [] c = "p" -> use(pointer(W(Head(p.args)), p.width, p.precision, p.flags))
          [] c = "%" -> [p EXCEPT !.str = Append(@, "%"), !.at = @ + 1]
          [] c \in {"o", "x", "X", "d", "i", "u"} -> use(Integer(p, c))
          [] OTHER -> [p EXCEPT !.str = @ \o (IF c = NUL THEN <<"%">> ELSE <<"%", c>>), !.at = @ + 1]

Directive(fmt, p) ==
    LET q == GetQualifier(fmt, GetPrecision(fmt, GetWidth(fmt, GetFlags(fmt, p))))
    IN  Convert(q, Char(fmt, q.at))

pp_vsprintf(fmt, args) ==
    LET fresh(p) == [p EXCEPT !.flags = {}, !.width = -1, !.precision = -1, !.qualifier = ""]
        step(p, k) ==
            IF p.at > Len(fmt) THEN p
            ELSE IF fmt[p.at] # "%" THEN [p EXCEPT !.str = Append(@, fmt[p.at]), !.at = @ + 1]
            ELSE Directive(fmt, fresh(p))
    IN  FoldLeft(step, [at |-> 1, args |-> args, str |-> <<>>, flags |-> {}, width |-> -1,
                        precision |-> -1, qualifier |-> ""], [k \in 1 .. Len(fmt) |-> k])

-----------------------------------------------------------------------------
\* A directive between two characters, and the arguments it asks for.
Fmt(d) == <<"<", "%">> \o d.flags \o d.width \o d.precision \o d.qualifier \o <<d.conv, ">">>
Arguments(c) ==
    IF c = "c" THEN {"q"} ELSE IF c = "s" THEN Strings ELSE IF c = "p" THEN {0, 23} ELSE Values

PInit ==
    \/ \E b \in Blocks : pf = [pc |-> "digits", block |-> b]
    \/ \E c \in Conversions, fl \in FlagRuns, wd \in WidthRuns, pr \in PrecisionRuns, qu \in Qualifiers :
         pf = [pc |-> "fmt", d |-> [conv |-> c, flags |-> fl, width |-> wd, precision |-> pr, qualifier |-> qu]]

\* Star arguments come before the value.
Starred(f) == f # <<>> /\ Last(f) = "*"
StarArgs(f) == IF Starred(f) THEN {<<v>> : v \in Widths} ELSE {<<>>}
Vsprintf ==
    /\ pf.pc = "fmt"
    /\ \E w \in StarArgs(pf.d.width), pr \in StarArgs(pf.d.precision), x \in Arguments(pf.d.conv) :
          pf' = [pc |-> "done", d |-> pf.d, w |-> w, pr |-> pr, x |-> x,
                 r |-> pp_vsprintf(Fmt(pf.d), w \o pr \o <<x, 4711>>)]

\* The small versions print what they support of the same directive.
VsprintfSmall ==
    /\ pf.pc = "fmt"
    /\ ~Starred(pf.d.width) /\ ~Starred(pf.d.precision) /\ pf.d.conv \in SmallConversions
    /\ \E x \in Arguments(pf.d.conv) :
          pf' = [pc |-> "small", d |-> pf.d, w |-> <<>>, pr |-> <<>>, x |-> x,
                 xint |-> xint_vsprintf(Fmt(pf.d), <<x, 4711>>),
                 mini |-> mini_vsprintf(Fmt(pf.d), <<x, 4711>>)]

PNext == Vsprintf \/ VsprintfSmall

-----------------------------------------------------------------------------
\* What a directive means, apart from the way it is read.
Magnitude(n) == IF n < 0 THEN -n ELSE n
Number(f) == FoldLeft(LAMBDA n, c : n * 10 + DigitValue(c), 0, f)
MeantWidth == IF Starred(pf.d.width) THEN Magnitude(pf.w[1]) ELSE Number(pf.d.width)
MeantPrecision ==
    IF pf.d.precision = <<>> THEN -1
    ELSE IF Starred(pf.d.precision) THEN Max({pf.pr[1], 0}) ELSE Number(Tail(pf.d.precision))
MeantLeft == "-" \in ToSet(pf.d.flags) \/ (Starred(pf.d.width) /\ pf.w[1] < 0)
MeantValue ==
    LET n == IF pf.d.qualifier = <<"h">> THEN pf.x % 2^ShortBits ELSE W(pf.x)
        bits == IF pf.d.qualifier = <<"h">> THEN ShortBits ELSE WordBits
    IN  IF pf.d.conv \in {"d", "i"} /\ n >= 2^(bits - 1) THEN n - 2^bits ELSE n

\* The value of the text of a number, whatever it is padded with, and the
\* number of characters that it needs.
Base == CASE pf.d.conv = "o" -> 8 [] pf.d.conv \in {"x", "X"} -> 16 [] OTHER -> 10
Reading(text) ==
    LET digits == SelectSeq(text, LAMBDA c : c \notin {" ", "+", "-", "x", "X"})
        n == FoldLeft(LAMBDA m, c : m * Base + DigitValue(c), 0, digits)
    IN  IF "-" \in ToSet(text) THEN -n ELSE n
Needed ==
    LET flags  == ToSet(pf.d.flags)
        digits == Min({k \in 1 .. (IF Base = 16 THEN 7 ELSE 9) : Base^k > Magnitude(MeantValue)})
        sign   == IF pf.d.conv \in {"d", "i"} /\ (MeantValue < 0 \/ {"+", " "} \cap flags # {}) THEN 1 ELSE 0
        prefix == IF "#" \notin flags THEN 0 ELSE CASE Base = 8 -> 1 [] Base = 16 -> 2 [] OTHER -> 0
    IN  sign + prefix + Max({digits, MeantPrecision})

\* A field is as wide as its text needs or as was asked for, and the text is
\* at its left or its right end.
Field(text, needed) ==
    LET pad == Len(text) - needed
    IN  /\ pad = Max({MeantWidth - needed, 0})
        /\ MeantLeft => SubSeq(text, needed + 1, Len(text)) = Times(pad, " ")
        /\ ~MeantLeft /\ needed > 0 => Last(text) # " "

DecimalTrue(n) ==
    LET digits == put_dec[n]
    IN  /\ Len(digits) = Min({k \in 1 .. 8 : 10^k > n})
        /\ \A k \in DOMAIN digits : digits[k] = (n \div 10^(k - 1)) % 10

\* The small version knows the last digit of a width, and no precision or
\* qualifier; it takes an unsigned decimal for a signed one.
XintTrue ==
    LET text  == SubSeq(pf.xint.str, 2, Len(pf.xint.str) - 1)
        n     == W(pf.x)
        value == IF Base = 10 /\ n >= 2^(WordBits - 1) THEN n - 2^WordBits ELSE n
        asked == SelectSeq(pf.d.width \o pf.d.precision, LAMBDA c : c \notin {"0", ".", "*"})
        width == IF asked = <<>> THEN 1 ELSE DigitValue(Last(asked))
        needed == (IF value < 0 THEN 1 ELSE 0)
                    + Min({k \in 1 .. (IF Base = 16 THEN 7 ELSE 9) : Base^k > Magnitude(value)})
    IN  pf.d.conv \in IntegerConversions =>
            Reading(text) = value /\ Len(text) = Max({width, needed})

MiniTrue ==
    LET text == SubSeq(pf.mini.str, 3, Len(pf.mini.str) - 2)
    IN  pf.d.conv \in IntegerConversions =>
            FoldLeft(LAMBDA m, c : m * 16 + DigitValue(c), 0, text) = W(pf.x)

\* Every number is printed with the digits that it has, whatever the shifts
\* of the conversion round away; what a directive prints reads back as its
\* argument, is as wide as was asked for and where it was asked for, for every
\* order of flags, width, precision and qualifier, and the format goes on
\* behind it with the next argument (number, string, pp_vsprintf).  The small
\* versions print the same value, and use as many arguments.
PrintedTrue ==
    /\ pf.pc = "digits" =>
          \A q \in pf.block .. pf.block + 999 :
              DecimalTrue(q) /\ DecimalTrue(q + 100000 * (1 + (q % 160)))
    /\ pf.pc = "small" =>
          /\ XintTrue /\ MiniTrue
          /\ \A r \in {pf.xint, pf.mini} :
                /\ Head(r.str) = "<" /\ Last(r.str) = ">"
                /\ r.args = IF pf.d.conv = "%" THEN <<pf.x, 4711>> ELSE <<4711>>
    /\ pf.pc = "done" =>
          LET text == SubSeq(pf.r.str, 2, Len(pf.r.str) - 1)
              c    == pf.d.conv
              left == IF c \in IntegerConversions \cup {"c", "s", "p"} THEN <<4711>> ELSE <<pf.x, 4711>>
              cut  == IF MeantPrecision < 0 THEN Len(pf.x) ELSE Min({MeantPrecision, Len(pf.x)})
          IN  /\ Head(pf.r.str) = "<" /\ Last(pf.r.str) = ">"
              /\ pf.r.args = left
              /\ c \in IntegerConversions => Field(text, Needed) /\ Reading(text) = MeantValue
              /\ c = "s" => /\ Field(text, cut)
                            /\ SelectSeq(text, LAMBDA x : x # " ") = SubSeq(pf.x, 1, cut)
              /\ c = "c" => Field(text, 1) /\ SelectSeq(text, LAMBDA x : x # " ") = <<pf.x>>
              /\ c = "%" => text = <<"%">>
=============================================================================
