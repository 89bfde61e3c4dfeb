------------------------------- MODULE Fixdep -------------------------------
(***************************************************************************)
(* scripts/basic/fixdep.c: the options that the prerequisites of an object *)
(* mention become dependencies of the object on the headers under          *)
(* include/config that Kconfig's split_config touches.  A prerequisite is  *)
(* the sequence of its characters, one string each; it is searched four    *)
(* bytes at a time, at addresses that are multiples of four.               *)
(***************************************************************************)
EXTENDS Integers, Sequences, FiniteSets, SequencesExt

CONSTANTS Contents,     \* of the prerequisites
          MaxDeps       \* prerequisites of the object

VARIABLE fx
    \* names: the prerequisites, with the kind of their names; at: the ones
    \* done; config: str_config; out: the headers printed, in order

FWord == 4
CONFIG_ == <<"C", "O", "N", "F", "I", "G", "_">>
_MODULE == <<"_", "M", "O", "D", "U", "L", "E">>
OptionChar(c) == c \notin {" ", "\n"}
\* Where a piece of text is in another one, from 0 on.
IsAt(s, k, t) == k >= 0 /\ k + Len(t) <= Len(s) /\ SubSeq(s, k + 1, k + Len(t)) = t

-----------------------------------------------------------------------------
\* str_config holds the options that were met, each between two newlines.
clear_config == <<"\n">>
is_defined_config(config, name) ==
    \E k \in 1 .. Len(config) - Len(name) - 1 :
        /\ config[k] = "\n"
        /\ config[k + Len(name) + 1] = "\n"
        /\ SubSeq(config, k + 1, k + Len(name)) = name
define_config(config, name) == config \o name \o <<"\n">>

\* The name of an option's header: / for _, and small letters, which letters
\* are anyway as far as they are told apart here.
HeaderName(name) == [k \in DOMAIN name |-> IF name[k] = "_" THEN "/" ELSE name[k]]
use_config(s, name) ==
    IF is_defined_config(s.config, name) THEN s
    ELSE [config |-> define_config(s.config, name), out |-> Append(s.out, HeaderName(name))]

\* Mutated form: the last of the four is taken for the third.
PlaceOf_third(text, m) ==
    IF IsAt(text, m, <<"C", "O", "N", "F">>) THEN m
    ELSE IF IsAt(text, m, <<"O", "N", "F", "I">>) THEN m - 1
    ELSE IF IsAt(text, m, <<"N", "F", "I", "G">>) \/ IsAt(text, m, <<"F", "I", "G", "_">>) THEN m - 2
    ELSE -1

\* The place of CONFIG_ in text when the word at m is a part of it: -1 when
\* the word is none of its first four.
PlaceOf(text, m) ==
    IF IsAt(text, m, <<"C", "O", "N", "F">>) THEN m
    ELSE IF IsAt(text, m, <<"O", "N", "F", "I">>) THEN m - 1
    ELSE IF IsAt(text, m, <<"N", "F", "I", "G">>) THEN m - 2
    ELSE IF IsAt(text, m, <<"F", "I", "G", "_">>) THEN m - 3
    ELSE -1

\* The option that a word leads to.  One at the end of the file, with nothing
\* behind it, is not looked at.
Meets(text, s, m) ==
    LET p    == PlaceOf(text, m)
        ends == {q \in p + 7 .. Len(text) - 1 : ~OptionChar(text[q + 1])}
        q    == CHOOSE x \in ends : \A y \in ends : x <= y
        e    == IF IsAt(text, q - 7, _MODULE) THEN q - 7 ELSE q
    IN  IF p = -1 \/ ~IsAt(text, p, CONFIG_) \/ ends = {} THEN s
        ELSE IF e - p - 7 < 0 THEN s
        ELSE use_config(s, SubSeq(text, p + 8, e))

\* The search starts with the second word, so that no place is before the file.
parse_config_file(text, s) ==
    LET meets(t, m) == Meets(text, t, m)
    IN  FoldLeft(meets, s, [k \in 1 .. ((Len(text) - 1) \div FWord) |-> k * FWord])

-----------------------------------------------------------------------------
\* One prerequisite of the dependency file; the configuration's header and
\* checksums are left out.
FInit ==
    \E n \in 1 .. MaxDeps :
        \E names \in [1 .. n -> [kind : {"file"}, text : Contents]
                                  \cup {[kind |-> "autoconf.h", text |-> CONFIG_ \o <<"Z", " ", " ">>]}] :
            fx = [names |-> names, at |-> 0, config |-> clear_config, out |-> <<>>]

\* An empty file is not mapped.
do_config_file(text, s) == IF text = <<>> THEN s ELSE parse_config_file(text, s)

\* The next name; autoconf.h is neither printed nor read.
parse_dep_file ==
    /\ fx.at < Len(fx.names)
    /\ LET f == fx.names[fx.at + 1]
           s == [config |-> fx.config, out |-> fx.out]
           r == IF f.kind = "file" THEN do_config_file(f.text, s) ELSE s
       IN  fx' = [fx EXCEPT !.at = @ + 1, !.config = r.config, !.out = r.out]

FNext == parse_dep_file

-----------------------------------------------------------------------------
\* The options that a text mentions: the longest word after each CONFIG_,
\* wherever it is but at the very start of the file, and followed by
\* something; a module's option is that of its symbol.
Mentioned(text) ==
    LET word(p, q) == /\ IsAt(text, p, CONFIG_)
                      /\ \A k \in p + 8 .. q : OptionChar(text[k])
                      /\ ~OptionChar(text[q + 1])
        short(w) == IF Len(w) >= 7 /\ SubSeq(w, Len(w) - 6, Len(w)) = _MODULE
                    THEN SubSeq(w, 1, Len(w) - 7) ELSE w
    IN  {short(SubSeq(text, x[1] + 8, x[2])) :
            x \in {y \in (1 .. Len(text)) \X (0 .. Len(text) - 1) :
                       y[2] >= y[1] + 7 /\ word(y[1], y[2])}}
        \ {Tail(_MODULE)}

\* The object depends on the header of every option that one of its
\* prerequisites mentions, in whichever of the four positions of a word it
\* starts and however often it is mentioned, once on each, and on no other
\* (parse_config_file, use_config).
OptionsFound ==
    LET files == {k \in 1 .. fx.at : fx.names[k].kind = "file"}
        all   == UNION {Mentioned(fx.names[k].text) : k \in files}
    IN  /\ ToSet(fx.out) = {HeaderName(o) : o \in all}
        /\ Len(fx.out) = Cardinality(all)
=============================================================================
