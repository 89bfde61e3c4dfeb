------------------------------- MODULE Lists --------------------------------
(***************************************************************************)
(* The doubly linked lists of include/linux/list.h, on which the timer's   *)
(* ticks, the pipes of a device and the queues of buffers are kept.  l     *)
(* holds the two pointers of every list_head; each operation is the        *)
(* sequence of its assignments, so that what happens when two of its       *)
(* arguments are the same list_head, or neighbours, is the code's.  lists  *)
(* is what the callers mean: the entries of each list, in order.           *)
(*                                                                         *)
(* An entry is added only while it is in no list, removed only while it is *)
(* in one, or was initialised, as the comments of list.h require.          *)
(***************************************************************************)
EXTENDS Integers, Sequences, SequencesExt

CONSTANTS Heads, Entries, LIST_POISON

VARIABLES l,        \* the next and prev pointers
          lists,    \* the entries of each list
          stale     \* heads that list_splice or list_replace left behind

lvars == <<l, lists, stale>>

Nodes == Heads \cup Entries

SetNext(m, x, y) == [m EXCEPT !.next[x] = y]
SetPrev(m, x, y) == [m EXCEPT !.prev[x] = y]

-----------------------------------------------------------------------------
INIT_LIST_HEAD(m, x) == SetPrev(SetNext(m, x, x), x, x)

__list_add(m, new, prev, next) ==
    SetNext(SetPrev(SetNext(SetPrev(m, next, new), new, next), new, prev), prev, new)
list_add(m, new, head)      == __list_add(m, new, head, m.next[head])
list_add_tail(m, new, head) == __list_add(m, new, m.prev[head], head)

\* The neighbours of a node that leaves know each other.
__list_del(m, prev, next) == SetNext(SetPrev(m, next, prev), prev, next)
__list_del_entry(m, x)    == __list_del(m, m.prev[x], m.next[x])
list_del(m, x) ==
    SetPrev(SetNext(__list_del_entry(m, x), x, LIST_POISON), x, LIST_POISON)
list_del_init(m, x)       == INIT_LIST_HEAD(__list_del_entry(m, x), x)
list_move(m, x, head)      == list_add(__list_del_entry(m, x), x, head)
list_move_tail(m, x, head) == list_add_tail(__list_del_entry(m, x), x, head)

list_replace(m, old, new) ==
    LET a == SetNext(m, new, m.next[old])
        b == SetPrev(a, a.next[new], new)
        c == SetPrev(b, new, b.prev[old])
    IN  SetNext(c, c.prev[new], new)
list_replace_init(m, old, new) == INIT_LIST_HEAD(list_replace(m, old, new), old)

list_is_last(m, x, head)   == m.next[x] = head
list_empty(m, head)        == m.next[head] = head
list_empty_careful(m, head) == m.next[head] = head /\ m.next[head] = m.prev[head]
list_is_singular(m, head)  == ~list_empty(m, head) /\ m.next[head] = m.prev[head]

list_rotate_left(m, head) ==
    IF list_empty(m, head) THEN m ELSE list_move_tail(m, m.next[head], head)

\* Mutated form: the entry that is first now does not know the head.
__list_cut_position_one_way(m, list, head, x) ==
    LET new_first == m.next[x]
        a == SetNext(m, list, m.next[head])
        b == SetPrev(a, a.next[list], list)
        c == SetNext(SetPrev(b, list, x), x, list)
    IN  SetNext(c, head, new_first)

__list_cut_position(m, list, head, x) ==
    LET new_first == m.next[x]
        a == SetNext(m, list, m.next[head])
        b == SetPrev(a, a.next[list], list)
        c == SetNext(SetPrev(b, list, x), x, list)
    IN  SetPrev(SetNext(c, head, new_first), new_first, head)

list_cut_position(m, list, head, x) ==
    IF list_empty(m, head) \/ (list_is_singular(m, head) /\ x \notin {m.next[head], head})
    THEN m
    ELSE IF x = head THEN INIT_LIST_HEAD(m, list) ELSE __list_cut_position(m, list, head, x)

__list_splice(m, list, prev, next) ==
    LET first == m.next[list]
        last  == m.prev[list]
    IN  SetPrev(SetNext(SetNext(SetPrev(m, first, prev), prev, first), last, next), next, last)
list_splice(m, list, head) ==
    IF list_empty(m, list) THEN m ELSE __list_splice(m, list, head, m.next[head])
list_splice_tail(m, list, head) ==
    IF list_empty(m, list) THEN m ELSE __list_splice(m, list, m.prev[head], head)
list_splice_init(m, list, head) ==
    IF list_empty(m, list) THEN m
    ELSE INIT_LIST_HEAD(__list_splice(m, list, head, m.next[head]), list)
list_splice_tail_init(m, list, head) ==
    IF list_empty(m, list) THEN m
    ELSE INIT_LIST_HEAD(__list_splice(m, list, m.prev[head], head), list)

\* The walk of list_for_each_safe over a list, whose body deletes the entries
\* in S.  It has as many rounds as the list has entries at most.
Visit(S, w, k) ==
    IF w.pos = w.head THEN w
    ELSE LET m == IF w.pos \in S THEN list_del(w.m, w.pos) ELSE w.m
         IN  [w EXCEPT !.m = m, !.pos = w.n, !.n = m.next[w.n], !.seen = Append(@, w.pos)]
list_for_each_safe(m, head, S) ==
    LET first == m.next[head]
        visit(w, k) == Visit(S, w, k)
    IN  FoldLeft(visit,
                 [m |-> m, head |-> head, pos |-> first, n |-> m.next[first], seen |-> <<>>],
                 [k \in 1 .. Cardinality(Nodes) |-> k])

-----------------------------------------------------------------------------
\* What the operations mean.
Usable      == Heads \ stale
Listed(x)   == \E h \in Usable : x \in ToSet(lists[h])
HeadOf(x)   == CHOOSE h \in Usable : x \in ToSet(lists[h])
SelfLinked(x) == l.next[x] = x /\ l.prev[x] = x
Outside     == {x \in Entries : ~Listed(x)}
Movable     == {x \in Entries : Listed(x) \/ SelfLinked(x)}
Without(ls, x) == [h \in Heads |-> Remove(ls[h], x)]

LInit ==
    /\ l = [next |-> [x \in Nodes |-> IF x \in Heads THEN x ELSE LIST_POISON],
            prev |-> [x \in Nodes |-> IF x \in Heads THEN x ELSE LIST_POISON]]
    /\ lists = [h \in Heads |-> <<>>]
    /\ stale = {}

Add == \E x \in Outside, h \in Usable :
    \/ l' = list_add(l, x, h) /\ lists' = [lists EXCEPT ![h] = <<x>> \o @] /\ UNCHANGED stale
    \/ l' = list_add_tail(l, x, h) /\ lists' = [lists EXCEPT ![h] = Append(@, x)] /\ UNCHANGED stale

Delete == \E x \in Entries :
    /\ Listed(x)
    /\ l' \in {list_del(l, x), list_del_init(l, x)}
    /\ lists' = Without(lists, x)
    /\ UNCHANGED stale

Move == \E x \in Movable, h \in Usable :
    LET ls == Without(lists, x)
    IN  /\ \/ l' = list_move(l, x, h) /\ lists' = [ls EXCEPT ![h] = <<x>> \o @]
           \/ l' = list_move_tail(l, x, h) /\ lists' = [ls EXCEPT ![h] = Append(@, x)]
        /\ UNCHANGED stale

ReplaceEntry == \E old \in Entries, new \in Outside :
    /\ Listed(old)
    /\ l' \in {list_replace(l, old, new), list_replace_init(l, old, new)}
    /\ lists' = [lists EXCEPT ![HeadOf(old)] = ReplaceAll(@, old, new)]
    /\ UNCHANGED stale

\* A head is replaced by one whose list is empty or was lost.
ReplaceHead == \E old \in Usable, new \in Heads :
    /\ new # old
    /\ new \in stale \/ lists[new] = <<>>
    /\ lists' = [lists EXCEPT ![new] = lists[old], ![old] = <<>>]
    /\ \/ l' = list_replace(l, old, new) /\ stale' = (stale \ {new}) \cup {old}
       \/ l' = list_replace_init(l, old, new) /\ stale' = stale \ {new}

Rotate == \E h \in Usable :
    /\ l' = list_rotate_left(l, h)
    /\ lists' = [lists EXCEPT ![h] = IF @ = <<>> THEN @ ELSE Append(Tail(@), Head(@))]
    /\ UNCHANGED stale

\* The entries of head up to x go to list, which is empty or was lost.
Cut == \E head \in Usable, list \in Heads :
    /\ list # head
    /\ list \in stale \/ lists[list] = <<>>
    /\ lists[head] # <<>>
    /\ \E k \in 0 .. Len(lists[head]) :
          /\ l' = list_cut_position(l, list, head, IF k = 0 THEN head ELSE lists[head][k])
          /\ lists' = [lists EXCEPT ![list] = SubSeq(lists[head], 1, k),
                                    ![head] = SubSeq(@, k + 1, Len(@))]
    /\ stale' = stale \ {list}

\* list keeps its pointers into the other list unless it is initialised, or
\* was empty.
Splice == \E list, head \in Usable :
    LET front == lists[list] \o lists[head]
        back  == lists[head] \o lists[list]
        left  == IF lists[list] = <<>> THEN stale ELSE stale \cup {list}
    IN  /\ list # head
        /\ \/ /\ l' = list_splice(l, list, head) /\ stale' = left
              /\ lists' = [lists EXCEPT ![list] = <<>>, ![head] = front]
           \/ /\ l' = list_splice_tail(l, list, head) /\ stale' = left
              /\ lists' = [lists EXCEPT ![list] = <<>>, ![head] = back]
           \/ /\ l' = list_splice_init(l, list, head) /\ UNCHANGED stale
              /\ lists' = [lists EXCEPT ![list] = <<>>, ![head] = front]
           \/ /\ l' = list_splice_tail_init(l, list, head) /\ UNCHANGED stale
              /\ lists' = [lists EXCEPT ![list] = <<>>, ![head] = back]

Reinit == \E h \in stale :
    l' = INIT_LIST_HEAD(l, h) /\ stale' = stale \ {h} /\ UNCHANGED lists

DeleteWhileWalking == \E h \in Usable : \E S \in SUBSET ToSet(lists[h]) :
    /\ S # {}
    /\ l' = list_for_each_safe(l, h, S).m
    /\ lists' = [lists EXCEPT ![h] = SelectSeq(@, LAMBDA x : x \notin S)]
    /\ UNCHANGED stale

LNext == \/ Add \/ Delete \/ Move \/ ReplaceEntry \/ ReplaceHead \/ Rotate
         \/ Cut \/ Splice \/ Reinit \/ DeleteWhileWalking

-----------------------------------------------------------------------------
Ring(h) == <<h>> \o lists[h]

\* The list_heads of a list form a ring in both directions, in the order that
\* the callers asked for, after every sequence of operations on neighbours, on
\* the only entry, on an empty list; the questions about a list are answered
\* for that order, and a walk that deletes visits every entry once.
ListsAreRings ==
    \A h \in Usable :
        LET r == Ring(h)
            after(k) == r[(k % Len(r)) + 1]
        IN  /\ \A k \in DOMAIN r : l.next[r[k]] = after(k) /\ l.prev[after(k)] = r[k]
            /\ list_empty(l, h) = (lists[h] = <<>>)
            /\ list_empty_careful(l, h) = list_empty(l, h)
            /\ list_is_singular(l, h) = (Len(lists[h]) = 1)
            /\ \A k \in DOMAIN lists[h] :
                  list_is_last(l, lists[h][k], h) = (k = Len(lists[h]))
            /\ \A S \in SUBSET ToSet(lists[h]) : list_for_each_safe(l, h, S).seen = lists[h]
=============================================================================
