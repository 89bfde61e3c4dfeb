------------------------------ MODULE Lxdialog ------------------------------
(***************************************************************************)
(* The boxes of scripts/kconfig/lxdialog: what they have in common, then   *)
(* the menu, the list, the text and the input field, each with its keys.   *)
(*                                                                         *)
(* dlg is the box that is open (or the last one, if it is not open any     *)
(* more): the variables of its function and what its windows show.  Keys   *)
(* are named by what is printed on them; a display that was resized sends  *)
(* one as well.  Colours, borders, titles and prompts are left out.        *)
(***************************************************************************)
EXTENDS Integers, Sequences, FiniteSets, FiniteSetsExt, SequencesExt

VARIABLE dlg

NoBox == [box |-> "none", open |-> FALSE]

NoneOpen == dlg.box = "none"
IsOpen(box) == dlg.box = box /\ dlg.open

\* A window whose rows moved up by n (wscrl); what is new is empty.
Scrolled(rows, n, empty) ==
    [r \in DOMAIN rows |-> IF r + n \in DOMAIN rows THEN rows[r + n] ELSE empty]

KEY_ESC  == 27
TooSmall == -1      \* -ERRDISPLAYTOOSMALL
NoCode   == -2      \* the box has not returned

\* The box is closed; its function returns code.
Return(d, code) == [d EXCEPT !.open = FALSE, !.ret = code]

\* ESC closes a box if it was pressed twice; on_key_esc drops every other
\* sequence that begins with it, and gives back a single key that follows.
on_key_esc(d, k) == IF k = "esc esc" THEN Return(d, KEY_ESC) ELSE d

\* The buttons of a box, in a circle, and the one that print_buttons shows
\* as the active one.
Button(d, k, n) ==
    LET b == (d.button + IF k = "left" THEN n - 1 ELSE 1) % n
    IN  [d EXCEPT !.button = b, !.lit = b]

\* A box that is to be drawn may not fit on the display.
Draw(d) == dlg' \in {d, Return(d, TooSmall)}

-----------------------------------------------------------------------------
\* dialog_yesno.
YesNo == [box |-> "yesno", open |-> TRUE, ret |-> NoCode, button |-> 0, lit |-> 0, resized |-> FALSE]

YesNoKeys == {"y", "n", "tab", "left", "right", " ", "\n", "esc esc", "esc"}

YesNoKey(d, k) ==
    CASE k = "y"  -> Return(d, 0)
      [] k = "n"  -> Return(d, 1)
      [] k \in {" ", "\n"} -> Return(d, d.button)
      [] k \in {"tab", "left", "right"} -> Button(d, k, 2)
      [] OTHER -> on_key_esc(d, k)

dialog_yesno == NoneOpen /\ Draw(YesNo)

PressYesNo == IsOpen("yesno") /\ \E k \in YesNoKeys : dlg' = YesNoKey(dlg, k)

ResizeYesNo == IsOpen("yesno") /\ Draw([dlg EXCEPT !.lit = 0, !.resized = TRUE])

\* The program is done with the box.
Leave == ~dlg.open /\ ~NoneOpen /\ dlg' = NoBox

-----------------------------------------------------------------------------
(***************************************************************************)
(* The menu box (scripts/kconfig/lxdialog/menubox.c), as conf() of mconf.c *)
(* uses it: conf() makes the items, calls dialog_menu, does what the user  *)
(* wants to be done with an item, and makes the items again, which may now *)
(* be others; the box should open where the user left it.                  *)
(***************************************************************************)
CONSTANTS
    Menus,      \* what the items of a menu may be: sequences of entries
    Letters,    \* the letter of an entry that first_alpha finds
    Heights     \* the rows of the menu, 0 if the display is too small

NoEntry == 0    \* the data of the items that are no entry of the menu

Empty == <<-1, FALSE>>

item_count(d) == Len(d.items)
max_choice(d) == Min({d.height, item_count(d)})

\* print_item: row shows the item, highlighted or not.
print_item(d, index, row, selected) == [d EXCEPT !.rows[row] = <<index, selected>>]

print_arrows(d) ==
    [d EXCEPT !.up = d.scroll > 0,
              !.down = d.height < item_count(d) /\ d.scroll + d.height < item_count(d)]

do_scroll(d, n) == [d EXCEPT !.rows = Scrolled(@, n, Empty), !.scroll = @ + n]

-----------------------------------------------------------------------------
\* From do_resize on: the item that was active is looked for, and if the
\* scroll that was saved shows it the box opens with it.
ShownMenu(d) ==
    LET at    == {i \in DOMAIN d.items : d.selected # NoEntry /\ d.items[i] = d.selected}
        c     == IF at = {} THEN d.choice ELSE Max(at) - 1
        max   == max_choice(d)
        n     == item_count(d)
        saved == d.s_scroll <= c /\ d.s_scroll + max > c /\ d.s_scroll >= 0 /\ d.s_scroll + max <= n
        far   == ~saved /\ c >= max
        scroll == IF saved THEN d.s_scroll
                  ELSE IF ~far THEN 0
                  ELSE IF c >= n - max \div 2 THEN n - max ELSE c - max \div 2
        first == IF saved \/ far THEN scroll ELSE d.first_item
    IN  print_arrows([d EXCEPT !.scroll = scroll, !.first_item = first, !.choice = c - scroll, !.lit = 0,
                               !.rows = [r \in 0 .. d.height - 1 |->
                                   IF r < max THEN <<first + r, r = c - scroll>> ELSE Empty]])

dialog_menu(items, selected, s_scroll, height) ==
    LET d == [box |-> "menu", open |-> TRUE, ret |-> NoCode, items |-> items, selected |-> selected,
              s_scroll |-> s_scroll, height |-> height, scroll |-> 0, choice |-> 0, first_item |-> 0,
              rows |-> <<>>, picked |-> -1, button |-> 0, lit |-> 0, up |-> FALSE, down |-> FALSE, resized |-> FALSE]
    IN  IF height = 0 THEN Return(d, TooSmall) ELSE ShownMenu(d)

-----------------------------------------------------------------------------
\* The row that a letter moves to: the next one with it, from the top again
\* if there is none; max_choice if it is nobody's letter.
LetterRow(d, k) ==
    LET of(rows) == {i \in rows : Letters[d.items[d.scroll + i + 1]] = k}
        below == of(d.choice + 1 .. max_choice(d) - 1)
        all   == of(0 .. max_choice(d) - 1)
    IN  IF k \in {"y", "n", "m", "h"} \/ all = {} THEN max_choice(d)
        ELSE IF below # {} THEN Min(below) ELSE Min(all)

\* One line up or down, and the lines of a page; the first or last row is
\* printed when the window has been scrolled.
LineUp(d) == LET e == do_scroll(d, -1) IN print_item(e, e.scroll, 0, FALSE)

\* Mutated form: the row that comes in is that of the scroll before.
LineDown_old(d) ==
    LET e == do_scroll(d, 1) IN print_item(e, d.scroll + max_choice(e) - 1, max_choice(e) - 1, FALSE)

LineDown(d) ==
    LET e == do_scroll(d, 1) IN print_item(e, e.scroll + max_choice(e) - 1, max_choice(e) - 1, FALSE)
Below(d) == d.scroll + max_choice(d) < item_count(d)

KeyUp(d) == IF d.choice < 2 /\ d.scroll # 0 THEN LineUp(d) ELSE [d EXCEPT !.choice = Max({@ - 1, 0})]
KeyDown(d) ==
    IF d.choice > max_choice(d) - 3 /\ Below(d) THEN LineDown(d)
    ELSE [d EXCEPT !.choice = Min({@ + 1, max_choice(d) - 1})]
PageUp(d, i) == IF d.scroll > 0 THEN LineUp(d) ELSE [d EXCEPT !.choice = IF @ > 0 THEN @ - 1 ELSE @]
PageDown(d, i) ==
    IF Below(d) THEN LineDown(d) ELSE [d EXCEPT !.choice = IF @ + 1 < max_choice(d) THEN @ + 1 ELSE @]
Page(d, Step(_, _)) == FoldLeft(Step, d, [i \in 1 .. max_choice(d) |-> i])

Moved(d, k) ==
    CASE k \in {"up", "-"}   -> KeyUp(d)
      [] k \in {"down", "+"} -> KeyDown(d)
      [] k = "pgup"          -> Page(d, PageUp)
      [] k = "pgdn"          -> Page(d, PageDown)
      [] OTHER               -> [d EXCEPT !.choice = LetterRow(d, k)]

\* The highlight goes from the old row to the new one.
Move(d, k) ==
    LET e == Moved(print_item(d, d.scroll + d.choice, d.choice, FALSE), k)
    IN  print_arrows(print_item(e, e.scroll + e.choice, e.choice, TRUE))

Code == [k \in {"s", "y", "n", "m", " ", "/"} |->
    CASE k \in {"s", "y"} -> 3 [] k = "n" -> 4 [] k = "m" -> 5 [] k = " " -> 6 [] k = "/" -> 7]

\* An item is acted on.
Picked(d, code) == [Return(d, code) EXCEPT !.s_scroll = d.scroll, !.picked = d.scroll + d.choice]

MenuKeys ==
    {"up", "down", "pgup", "pgdn", "tab", "left", "right", " ", "y", "h", "\n", "s", "x", "a",
     "esc esc", "esc"}

MenuKey(d, k) ==
    IF LetterRow(d, k) < max_choice(d) \/ k \in {"up", "down", "-", "+", "pgup", "pgdn"} THEN Move(d, k)
    ELSE CASE k \in {"left", "tab", "right"} -> Button(d, k, 3)
           [] k \in DOMAIN Code   -> Picked(d, Code[k])
           [] k \in {"h", "?"}    -> Picked([d EXCEPT !.button = 2], 2)
           [] k = "\n"            -> Picked(d, d.button)
           [] k \in {"e", "x"}    -> Return(d, KEY_ESC)
           [] OTHER               -> on_key_esc(d, k)

PressMenu == IsOpen("menu") /\ \E k \in MenuKeys : dlg' = MenuKey(dlg, k)

\* KEY_RESIZE: the box is drawn again, from what its variables hold.
ResizeMenu ==
    /\ IsOpen("menu")
    /\ \E h \in Heights :
           LET d == [dlg EXCEPT !.height = h, !.resized = TRUE]
           IN  dlg' = IF h = 0 THEN Return(d, TooSmall) ELSE ShownMenu(d)

-----------------------------------------------------------------------------
\* conf() of mconf.c opens the box of a menu, and once more after every item that was
\* acted on, with what is an item of the menu by then.
Acted(d) == d.box = "menu" /\ ~d.open /\ d.ret \in {0} \union 2 .. 7

OpenMenu == \E items \in Menus :
    \/ NoneOpen /\ \E h \in Heights : dlg' = dialog_menu(items, NoEntry, 0, h)
    \/ Acted(dlg) /\ dlg' = dialog_menu(items, dlg.items[dlg.picked + 1], dlg.s_scroll, dlg.height)

-----------------------------------------------------------------------------
\* The rows are the items that a key would act on, the one that would be
\* taken is highlighted, the arrows say whether there is more to see, and
\* the button that is lit is the one that ENTER presses.
MenuTrue(d) ==
    /\ d.choice \in 0 .. max_choice(d) - 1
    /\ \A r \in DOMAIN d.rows :
           d.rows[r] = IF r < max_choice(d) THEN <<d.scroll + r, r = d.choice>> ELSE Empty
    /\ d.up = (d.scroll > 0)
    /\ d.down = Below(d)
    /\ d.lit = d.button

\* What was acted on is the item that was highlighted.
PickedTrue(d) == Acted(d) => \E r \in DOMAIN d.rows : d.rows[r] = <<d.picked, TRUE>>

\* If no item came or went the box opens as it was left.
MenuStays ==
    (Acted(dlg) /\ IsOpen("menu")' /\ dlg'.items = dlg.items /\ dlg'.selected = dlg.items[dlg.picked + 1]
         /\ dlg'.selected # NoEntry /\ dlg'.height = dlg.height)
        => dlg'.scroll = dlg.scroll /\ dlg'.choice = dlg.choice

-----------------------------------------------------------------------------
(***************************************************************************)
(* The list of the values of a choice (lxdialog/checklist.c), from which   *)
(* one is taken.                                                           *)
(***************************************************************************)
CONSTANTS
    Lists,          \* what may be listed: sequences of first letters
    ListHeights     \* the rows of the list

EmptyRow == <<-1, FALSE>>

listed(d) == Min({d.list_height, Len(d.items)})     \* max_choice

PrintRow(d, row, selected) == [d EXCEPT !.rows[row] = <<d.scroll + row, selected>>]

ListArrows(d) ==
    [d EXCEPT !.up = d.scroll > 0,
              !.down = d.list_height < Len(d.items) /\ d.scroll + d.choice < Len(d.items) - 1]

\* From do_resize on.
ShownList(d) ==
    LET scroll == IF d.choice >= d.list_height THEN d.choice - d.list_height + 1 ELSE d.scroll
        choice == IF d.choice >= d.list_height THEN d.choice - scroll ELSE d.choice
    IN  ListArrows([d EXCEPT !.scroll = scroll, !.choice = choice, !.lit = 0,
                             !.rows = [r \in 0 .. d.list_height - 1 |->
                                 IF r < listed(d) THEN <<scroll + r, r = choice>> ELSE EmptyRow]])

\* The highlight is on the item that is selected, or on the value that the
\* choice has; 0 stands for no item.
dialog_checklist(items, x, selected, list_height) ==
    ShownList([box |-> "list", open |-> TRUE, ret |-> NoCode, items |-> items, list_height |-> list_height,
               choice |-> IF selected # 0 THEN selected - 1 ELSE IF x # 0 THEN x - 1 ELSE 0, scroll |-> 0,
               rows |-> <<>>, picked |-> -1, button |-> 0, lit |-> 0, up |-> FALSE, down |-> FALSE,
               resized |-> FALSE])

-----------------------------------------------------------------------------
\* A list of one row is not scrolled, it is printed anew.
ScrollList(d, n, row) ==
    LET e == [PrintRow(d, row, FALSE) EXCEPT !.rows = Scrolled(@, n, EmptyRow)]
    IN  ListArrows(PrintRow([(IF d.list_height > 1 THEN e ELSE d) EXCEPT !.scroll = @ + n], row, TRUE))

Highlight(d, i) == PrintRow([PrintRow(d, d.choice, FALSE) EXCEPT !.choice = i], i, TRUE)

ListUp(d) ==
    IF d.choice > 0 THEN Highlight(d, d.choice - 1) ELSE IF d.scroll = 0 THEN d ELSE ScrollList(d, -1, 0)

ListDown(d) ==
    IF d.choice < listed(d) - 1 THEN Highlight(d, d.choice + 1)
    ELSE IF d.scroll + d.choice >= Len(d.items) - 1 THEN d ELSE ScrollList(d, 1, listed(d) - 1)

ListKeys == {"up", "down", "tab", "left", "h", "s", "\n", "x", "a", "b", "esc esc", "esc"}

ListKey(d, k) ==
    LET with == {i \in 0 .. listed(d) - 1 : d.items[d.scroll + i + 1] = k}
    IN  CASE k \in {"up", "-"}   -> ListUp(d)
          [] k \in {"down", "+"} -> ListDown(d)
          [] with # {}           -> Highlight(d, Min(with))
          [] with = {} /\ k \in {"h", "?", "s", " ", "\n"} ->
                 [Return(d, IF k \in {"h", "?"} THEN 1 ELSE d.button) EXCEPT !.picked = d.scroll + d.choice]
          [] k \in {"tab", "left", "right"} -> Button(d, k, 2)
          [] with = {} /\ k = "x" -> Return(d, KEY_ESC)
          [] k \in {"esc esc", "esc"} -> on_key_esc(d, k)
          [] OTHER -> d

PressList == IsOpen("list") /\ \E k \in ListKeys : dlg' = ListKey(dlg, k)

ResizeList == IsOpen("list") /\ Draw(ShownList([dlg EXCEPT !.resized = TRUE]))

\* conf_choice opens the list, and again with the same item after its help.
OpenList ==
    \/ NoneOpen /\ \E items \in Lists, h \in ListHeights : \E x, selected \in 0 .. Len(items) :
           Draw(dialog_checklist(items, x, selected, h))
    \/ dlg.box = "list" /\ dlg.ret = 1 /\ \E x \in 0 .. Len(dlg.items) :
           Draw(dialog_checklist(dlg.items, x, dlg.picked + 1, dlg.list_height))

-----------------------------------------------------------------------------
\* The list shows what a key would act on, as the menu does.
ListTrue(d) ==
    /\ d.choice \in 0 .. listed(d) - 1
    /\ \A r \in DOMAIN d.rows :
           d.rows[r] = IF r < listed(d) THEN <<d.scroll + r, r = d.choice>> ELSE EmptyRow
    /\ d.up = (d.scroll > 0)
    /\ d.down = (d.scroll + listed(d) < Len(d.items))
    /\ d.lit = d.button

TakenTrue(d) ==
    (d.box = "list" /\ d.ret \in {0, 1}) => \E r \in DOMAIN d.rows : d.rows[r] = <<d.picked, TRUE>>

-----------------------------------------------------------------------------
(***************************************************************************)
(* The box of a text (lxdialog/textbox.c), the help of an option first of  *)
(* all.  A text is a sequence of characters of which "\n" ends a line;     *)
(* page is where get_line reads the next one.  A row of the window shows   *)
(* the line that begins at an offset, from column hscroll on.              *)
(***************************************************************************)
CONSTANTS
    Texts,          \* the texts, none of them empty
    BoxHeights,     \* the rows of the box
    MAX_LEN         \* how far a text is scrolled to the right at most

CharAt(d, p) == d.text[p + 1]
Ends(d, from, to) == {p \in from .. to : CharAt(d, p) = "\n"}
AtEnd(d) == d.page = Len(d.text)

\* get_line: page goes to the start of the next line.
get_line(d) ==
    LET ends == Ends(d, d.page, Len(d.text) - 1)
    IN  [d EXCEPT !.page = IF ends = {} THEN Len(d.text) ELSE Min(ends) + 1, !.end_reached = ends = {}]

print_line(d, row) == get_line([d EXCEPT !.rows[row] = <<d.page, d.hscroll>>])

\* What print_page and KEY_UP do with every row; only Printed rows are drawn.
Line(d, row, printed) ==
    LET e == IF printed THEN print_line(d, row) ELSE get_line(d)
    IN  [e EXCEPT !.page_length = IF d.passed_end THEN @ ELSE @ + 1, !.passed_end = @ \/ e.end_reached]

Lines(d, Printed(_)) ==
    LET step(e, i) == Line(e, i - 1, Printed(i - 1))
    IN  FoldLeft(step, [d EXCEPT !.page_length = 0, !.passed_end = FALSE], [i \in 1 .. d.boxh |-> i])

print_page(d) == LET all(row) == TRUE IN Lines(d, all)

\* back_lines: n lines back.  At the end of the text the first one of them
\* is the end.
BackLine(d, i) ==
    LET ends == Ends(d, 0, d.page - 2)
    IN  IF d.begin_reached THEN d
        ELSE IF AtEnd(d) /\ d.end_reached THEN [d EXCEPT !.end_reached = FALSE]
        ELSE IF ends = {} THEN [d EXCEPT !.page = 0, !.begin_reached = TRUE]
        ELSE [d EXCEPT !.page = Max(ends) + 1]

back_lines(d, n) == FoldLeft(BackLine, [d EXCEPT !.begin_reached = FALSE], [i \in 1 .. n |-> i])

-----------------------------------------------------------------------------
dialog_textbox(text, boxh) ==
    print_page([box |-> "text", open |-> TRUE, ret |-> NoCode, text |-> text, boxh |-> boxh, page |-> 0,
                begin_reached |-> TRUE, end_reached |-> FALSE, page_length |-> 0, passed_end |-> FALSE,
                hscroll |-> 0, rows |-> [r \in 0 .. boxh - 1 |-> <<-1, 0>>]])

FirstPage(d) == IF d.begin_reached THEN d ELSE print_page([d EXCEPT !.begin_reached = TRUE, !.page = 0])

LastPage(d) == print_page(back_lines([d EXCEPT !.end_reached = TRUE, !.page = Len(d.text)], d.boxh))

\* One line up: the window is scrolled and only its first row is printed.
PreviousLine(d) ==
    LET first(row) == row = 0
        e == back_lines(d, d.page_length + 1)
    IN  IF d.begin_reached THEN d ELSE Lines([e EXCEPT !.rows = Scrolled(@, -1, <<-1, 0>>)], first)

PreviousPage(d) == IF d.begin_reached THEN d ELSE print_page(back_lines(d, d.page_length + d.boxh))

\* One line down, and a page.
NextLine(d) ==
    IF d.end_reached THEN d
    ELSE print_line([d EXCEPT !.begin_reached = FALSE, !.rows = Scrolled(@, 1, <<-1, 0>>)], d.boxh - 1)

NextPage(d) == IF d.end_reached THEN d ELSE print_page([d EXCEPT !.begin_reached = FALSE])

\* To the left or the right: the page is printed again.
Sideways(d, h) == print_page(back_lines([d EXCEPT !.hscroll = h], d.page_length))

TextKeys == {"g", "G", "k", "b", "j", " ", "0", "h", "l", "x", "\n", "esc esc", "esc"}

TextKey(d, k) ==
    CASE k = "g" -> FirstPage(d)
      [] k = "G" -> LastPage(d)
      [] k = "k" -> PreviousLine(d)
      [] k = "b" -> PreviousPage(d)
      [] k = "j" -> NextLine(d)
      [] k = " " -> NextPage(d)
      [] k = "0" -> IF d.hscroll = 0 THEN d ELSE Sideways(d, 0)
      [] k = "h" -> IF d.hscroll = 0 THEN d ELSE Sideways(d, d.hscroll - 1)
      [] k = "l" -> IF d.hscroll >= MAX_LEN THEN d ELSE Sideways(d, d.hscroll + 1)
      [] k = "x" -> Return(d, 0)
      [] k = "\n" -> Return(d, 10)
      [] OTHER   -> on_key_esc(d, k)

PressText == IsOpen("text") /\ \E k \in TextKeys : dlg' = TextKey(dlg, k)

\* KEY_RESIZE goes back as many lines as the old box is high, borders
\* included, and prints a page of the new size.
ResizeText ==
    /\ IsOpen("text")
    /\ \E h \in BoxHeights :
           Draw(print_page([back_lines(dlg, dlg.boxh + 4) EXCEPT
                                !.boxh = h, !.rows = [r \in 0 .. h - 1 |-> <<-1, 0>>]]))

show_textbox == NoneOpen /\ \E t \in Texts, h \in BoxHeights : Draw(dialog_textbox(t, h))

-----------------------------------------------------------------------------
\* In a text whose lines all end, the rows are lines that follow each other,
\* empty below the last one, all from the same column; and the box knows
\* whether the first and the last line are shown.
TextTrue(d) ==
    LET starts == {0} \union {p + 1 : p \in Ends(d, 0, Len(d.text) - 1)}
        after(p) == IF p = Len(d.text) THEN p ELSE Min({q \in starts : q > p})
    IN  Last(d.text) = "\n" =>
            /\ \A r \in DOMAIN d.rows : d.rows[r][1] \in starts /\ d.rows[r][2] = d.hscroll
            /\ \A r \in DOMAIN d.rows \ {0} : d.rows[r][1] = after(d.rows[r - 1][1])
            /\ d.begin_reached = (d.rows[0][1] = 0)
            /\ d.end_reached = (d.rows[d.boxh - 1][1] = Len(d.text))

-----------------------------------------------------------------------------
(***************************************************************************)
(* The box in which a line is typed (lxdialog/inputbox.c): the value of a  *)
(* string option or the name of a file.                                    *)
(***************************************************************************)
CONSTANTS
    Chars,          \* the characters that are typed
    Inits,          \* what the line is at first: sequences of Chars
    BoxWidths,      \* the columns of the field
    MAX_INPUT       \* the longest line (MAX_LEN)

Space == " "

\* The characters of the line from scroll on, in the first n columns.
Visible(d, n) ==
    [c \in DOMAIN d.cells |->
        IF c >= n THEN d.cells[c]
        ELSE IF d.scroll + c < Len(d.instr) THEN d.instr[d.scroll + c + 1] ELSE Space]

PutCell(cells, x, c) == [y \in DOMAIN cells |-> IF y = x THEN c ELSE cells[y]]

\* From do_resize on.
ShownField(d) ==
    LET long == Len(d.instr) >= d.width
        e    == [d EXCEPT !.scroll = IF long THEN Len(d.instr) - d.width + 1 ELSE @,
                          !.input_x = IF long THEN d.width - 1 ELSE Len(d.instr),
                          !.cells = [c \in 0 .. d.width - 1 |-> Space], !.lit = 0]
    IN  [e EXCEPT !.cells = IF long THEN Visible(e, d.width - 1) ELSE Visible([e EXCEPT !.scroll = 0], d.width)]

dialog_inputbox(init, width) ==
    ShownField([box |-> "input", open |-> TRUE, ret |-> NoCode, instr |-> init, width |-> width, input_x |-> 0,
                scroll |-> 0, cells |-> <<>>, button |-> -1, lit |-> 0, resized |-> FALSE])

-----------------------------------------------------------------------------
\* A key that prints, at the end of the line; the field is scrolled when it
\* is full.  What is written behind the end is not part of the line.
Type(d, k) ==
    LET at == d.scroll + d.input_x
        e == [d EXCEPT !.instr = IF at > Len(@) THEN @ ELSE Append(SubSeq(@, 1, at), k)]
        s == [e EXCEPT !.scroll = @ + 1]
    IN  IF d.scroll + d.input_x >= MAX_INPUT THEN d
        ELSE IF d.input_x = d.width - 1 THEN [s EXCEPT !.cells = Visible(s, d.width - 1)]
        ELSE [e EXCEPT !.cells = PutCell(@, d.input_x, k), !.input_x = @ + 1]

\* Backspace; in the first column the field is scrolled back, and nothing
\* is deleted.
Backspace(d) ==
    LET s == [d EXCEPT !.scroll = IF @ < d.width - 1 THEN 0 ELSE @ - (d.width - 1)]
        e == IF d.input_x > 0 THEN [d EXCEPT !.input_x = @ - 1]
             ELSE [s EXCEPT !.cells = Visible(s, d.width), !.input_x = Len(d.instr) - s.scroll]
    IN  IF d.input_x = 0 /\ d.scroll = 0 THEN d
        ELSE [e EXCEPT !.instr = SubSeq(@, 1, Min({e.scroll + e.input_x, Len(@)})), !.cells = PutCell(@, e.input_x, Space)]

\* The field (-1) and the two buttons, in a circle; Ok is lit in the field.
Turn(d, n) == LET b == ((d.button + 1 + n) % 3) - 1 IN [d EXCEPT !.button = b, !.lit = Max({b, 0})]

InputKeys == Chars \union {"backspace", "tab", "up", "left", "right", "\n", "o", "h", "x", "esc esc", "esc"}

InputKey(d, k) ==
    LET field == d.button = -1
        prints == k \in Chars \union {"o", "h", "x"}
    IN  CASE field /\ k \in {"left", "right"}  -> d
          [] field /\ k = "backspace"          -> Backspace(d)
          [] field /\ prints                   -> Type(d, k)
          [] ~field /\ k = "o"                 -> Return(d, 0)
          [] ~field /\ k = "h"                 -> Return(d, 1)
          [] ~field /\ k = "x"                 -> Return(d, KEY_ESC)
          [] k = "up" \/ (~field /\ k = "left")  -> Turn(d, 2)
          [] k = "tab" \/ (~field /\ k = "right") -> Turn(d, 1)
          [] k = "\n"                          -> Return(d, Max({d.button, 0}))
          [] k \in {"esc esc", "esc"}          -> on_key_esc(d, k)
          [] OTHER                             -> d

PressInput == IsOpen("input") /\ \E k \in InputKeys : dlg' = InputKey(dlg, k)

\* KEY_RESIZE.  A line that was scrolled and has become short again keeps
\* its scroll.
ResizeInput == IsOpen("input") /\ Draw(ShownField([dlg EXCEPT !.resized = TRUE]))

OpenInput == NoneOpen /\ \E init \in Inits, w \in BoxWidths : Draw(dialog_inputbox(init, w))

-----------------------------------------------------------------------------
\* The field shows the end of the line, up to where the next character goes.
FieldTrue(d) ==
    /\ d.input_x \in 0 .. d.width - 1
    /\ d.scroll + d.input_x = Len(d.instr)
    /\ \A c \in DOMAIN d.cells : d.cells[c] = IF c < d.input_x THEN d.instr[d.scroll + c + 1] ELSE Space
    /\ d.lit = Max({d.button, 0})

-----------------------------------------------------------------------------
(***************************************************************************)
(* The boxes of lxdialog, as mconf.c opens them one after the other.       *)
(***************************************************************************)
DInit == dlg = NoBox

DNext ==
    \/ OpenMenu \/ PressMenu \/ ResizeMenu
    \/ OpenList \/ PressList \/ ResizeList
    \/ show_textbox \/ PressText \/ ResizeText
    \/ OpenInput \/ PressInput \/ ResizeInput
    \/ dialog_yesno \/ PressYesNo \/ ResizeYesNo
    \/ Leave

-----------------------------------------------------------------------------
\* What a box shows is what its keys act upon, as long as the display is
\* not resized: MenuTrue, ListTrue, TextTrue, FieldTrue.
Truthful ==
    /\ dlg.open =>
           CASE dlg.box = "menu"  -> dlg.resized \/ MenuTrue(dlg)
             [] dlg.box = "list"  -> dlg.resized \/ ListTrue(dlg)
             [] dlg.box = "text"  -> TextTrue(dlg)
             [] dlg.box = "input" -> dlg.resized \/ FieldTrue(dlg)
             [] dlg.box = "yesno" -> dlg.resized \/ dlg.lit = dlg.button
             [] OTHER -> TRUE
    /\ dlg.box = "menu" => dlg.resized \/ PickedTrue(dlg)
    /\ dlg.box = "list" => dlg.resized \/ TakenTrue(dlg)

\* Every key leaves a box truthful, and a menu that did not change is shown
\* again as it was left (dialog_menu, dialog_checklist, dialog_textbox,
\* dialog_inputbox, dialog_yesno).
DialogsTruthful == [][Truthful' /\ MenuStays]_dlg
=============================================================================
