----------------------------- MODULE MCLibrary ------------------------------
(***************************************************************************)
(* Small instances of the libraries: the allocator, the lists, the         *)
(* formatting and the one-wire bus.  A behaviour is about one of them; the *)
(* others keep a value of their own.                                       *)
(***************************************************************************)
EXTENDS Allocator, Lists, Printf, W1

\* One or two sizes of every order, the whole memory, and more than that.
MCSizes == {1, 2, 3, 7, 16, 17}

\* Arguments of either sign, the largest and the smallest; runs of flags,
\* widths and precisions in every position.
MCValues == {0, 200, -1, -129, 65535, -8388608}
MCStars == {-4, 0, 6}
MCStrings == {<<>>, <<"a", "b", "c">>}
MCFlagRuns == {<<>>, <<"-">>, <<"0">>, <<"+">>, <<" ">>, <<"0", "#">>, <<"-", "0", "#">>}
MCWidthRuns == {<<>>, <<"5">>, <<"1", "2">>, <<"*">>}
MCPrecisionRuns == {<<>>, <<".">>, <<".", "2">>, <<".", "*">>}
MCQualifiers == {<<>>, <<"h">>}
MCConversions == {"d", "u", "o", "x", "X", "c", "s", "p", "%", "q"}
MCBlocks == {1000 * k : k \in 0 .. 99}

\* No list can be used, nothing is printed, no bus is looked at.
NoLists  == /\ stale = Heads /\ lists = [h \in Heads |-> <<>>]
            /\ l = [next |-> [x \in Nodes |-> x], prev |-> [x \in Nodes |-> x]]
NoPrintf == pf = [pc |-> "none"]
NoW1     == w1 = W1State({}, "none")

MCInit ==
    /\ Init
    /\ \/ NoLists /\ NoPrintf /\ NoW1
       \/ LInit /\ NoPrintf /\ NoW1
       \/ NoLists /\ PInit /\ NoW1
       \/ NoLists /\ NoPrintf /\ W1Init

MCNext ==
    \/ stale = Heads /\ pf.pc = "none" /\ w1.pc = "none" /\ Next /\ UNCHANGED <<lvars, pf, w1>>
    \/ stale # Heads /\ LNext /\ UNCHANGED <<vars, pf, w1>>
    \/ PNext /\ UNCHANGED <<vars, lvars, w1>>
    \/ W1Next /\ UNCHANGED <<vars, lvars, pf>>

LibrarySpec == MCInit /\ [][MCNext]_<<vars, lvars, pf, w1>>
=============================================================================
