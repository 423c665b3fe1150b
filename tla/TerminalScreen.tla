---------------------------- MODULE TerminalScreen ----------------------------
(***************************************************************************)
(* The terminal emulator of the process tools (process_tools.rs): it       *)
(* follows the output of a process that has a terminal on a screen of Rows *)
(* lines of Cols cells, with an alternate screen, and decides whether an   *)
(* answer carries a snapshot of what is visible.                           *)
(*                                                                         *)
(* The input is a sequence of units: a visible character, a control        *)
(* character or an escape sequence with its parameters.  Of a sequence     *)
(* that a read has cut the beginning is dropped and the rest is fed as     *)
(* characters.  The counters that only matter up to a threshold stop at it.*)
(***************************************************************************)
EXTENDS Integers, Sequences, SequencesExt, FiniteSetsExt

CONSTANTS
    Rows, Cols,   \* the size of the screen
    TabWidth,     \* distance of the tab stops (8 in the code)
    Glyphs,       \* visible characters
    Units,        \* the kinds of units the process writes
    MaxUnits      \* bound: units written

ScreenAssumption ==
    /\ Rows \in Nat \ {0} /\ Cols \in Nat \ {0} /\ TabWidth \in Nat \ {0} /\ MaxUnits \in Nat
    /\ Units \subseteq {"cr", "lf", "bs", "tab", "goto", "move", "erase", "scroll", "save",
                        "restore", "alt", "sgr", "reset"}

Blank == " "

VARIABLES
    primary, alternate,   \* the two screens: lines of cells
    use_alternate,        \* which one is shown
    row, col,             \* the cursor
    saved,                \* saved_cursor, or <<>>
    saw_alternate,        \* an alternate screen was used
    moves,                \* cursor_moves, at most 2
    erases,               \* erase_ops, at most 1
    returns,              \* carriage_returns, at most 2
    feeds,                \* line_feeds, at most 3
    visible,              \* visible_chars, at most Cols
    tab,                  \* the column a tab is on its way to, or 0
    fed,                  \* units fed so far
    text                  \* history: the lines a plain output makes

vars == <<primary, alternate, use_alternate, row, col, saved, saw_alternate, moves, erases,
          returns, feeds, visible, tab, fed, text>>

counters == <<moves, erases, returns, feeds, visible>>

BlankLine   == [c \in 1..Cols |-> Blank]
BlankScreen == [r \in 1..Rows |-> BlankLine]

Init ==
    /\ primary = BlankScreen /\ alternate = BlankScreen /\ use_alternate = FALSE
    /\ row = 0 /\ col = 0 /\ saved = <<>> /\ saw_alternate = FALSE
    /\ moves = 0 /\ erases = 0 /\ returns = 0 /\ feeds = 0 /\ visible = 0
    /\ tab = 0 /\ fed = 0 /\ text = <<<<>>>>

Shown == IF use_alternate THEN alternate ELSE primary

Scrolled(s) == Append(Tail(s), BlankLine)

NewlineNoScroll(s, r) == IF r + 1 >= Rows THEN <<s, Rows - 1>> ELSE <<s, r + 1>>

\* newline: back to the first column, scrolling on the last line
Newline(s, r) == IF r + 1 >= Rows THEN <<Scrolled(s), Rows - 1>> ELSE <<s, r + 1>>

ShowOnPrimary(s) == primary' = s /\ alternate' = IF use_alternate THEN s ELSE alternate

\* set_cell and the others write to the screen that is shown
Show(s) ==
    /\ primary' = IF use_alternate THEN primary ELSE s
    /\ alternate' = IF use_alternate THEN s ELSE alternate

\* put_char: the cursor wraps at once when it has filled the line
PutChar(ch) ==
    LET s == [Shown EXCEPT ![row + 1][col + 1] = ch]
        n == Newline(s, row)
    IN  /\ visible' = Min({visible + 1, Cols})
        /\ IF col + 1 >= Cols THEN Show(n[1]) /\ row' = n[2] /\ col' = 0
           ELSE Show(s) /\ row' = row /\ col' = col + 1

\* the lines of a plain output, cut where it reaches the right border
TextPut(ch) ==
    LET line == Append(Last(text), ch)
    IN  IF Len(line) = Cols THEN Front(text) \o <<line, <<>>>> ELSE Front(text) \o <<line>>

Feed(kind) == kind \in Units /\ fed < MaxUnits /\ tab = 0 /\ fed' = fed + 1

Glyph ==
    /\ fed < MaxUnits /\ tab = 0 /\ fed' = fed + 1
    /\ \E ch \in Glyphs : PutChar(ch) /\ text' = TextPut(ch)
    /\ UNCHANGED <<use_alternate, saved, saw_alternate, moves, erases, returns, feeds, tab>>

CarriageReturn ==
    /\ Feed("cr") /\ col' = 0 /\ returns' = Min({returns + 1, 2})
    /\ UNCHANGED <<primary, alternate, use_alternate, row, saved, saw_alternate, moves, erases,
                   feeds, visible, tab, text>>

LineFeed ==
    /\ Feed("lf") /\ feeds' = Min({feeds + 1, 3})
    /\ LET n == Newline(Shown, row) IN Show(n[1]) /\ row' = n[2] /\ col' = 0
    /\ text' = Append(text, <<>>)
    /\ UNCHANGED <<use_alternate, saved, saw_alternate, moves, erases, returns, visible, tab>>

Backspace ==
    /\ Feed("bs") /\ col' = Max({col - 1, 0})
    /\ UNCHANGED <<primary, alternate, use_alternate, row, saved, saw_alternate, counters, tab, text>>

\* a tab puts spaces until the cursor has reached the next stop
TabStart ==
    /\ Feed("tab") /\ tab' = ((col \div TabWidth) + 1) * TabWidth
    /\ UNCHANGED <<primary, alternate, use_alternate, row, col, saved, saw_alternate, counters, text>>

TabStep ==
    /\ tab # 0
    /\ IF col < tab THEN PutChar(Blank) /\ tab' = tab
       ELSE tab' = 0 /\ UNCHANGED <<primary, alternate, row, col, visible>>
    /\ UNCHANGED <<use_alternate, saved, saw_alternate, moves, erases, returns, feeds, fed, text>>

MoveToLoose(r, c) == row' = Min({r, Rows - 1}) /\ col' = c

\* move_to
MoveTo(r, c) == row' = Min({r, Rows - 1}) /\ col' = Min({c, Cols - 1})

\* CSI H, f and G: an address counted from 1, 0 and a missing one are 1
Goto ==
    /\ Feed("goto") /\ moves' = Min({moves + 1, 2})
    /\ \E r \in 0..(Rows + 1), c \in 0..(Cols + 1) : MoveTo(Max({r, 1}) - 1, Max({c, 1}) - 1)
    /\ UNCHANGED <<primary, alternate, use_alternate, saved, saw_alternate, erases, returns,
                   feeds, visible, tab, text>>

Clamp(n, size) == Max({0, Min({n, size - 1})})

\* move_relative: CSI A to D, and E and F, which go to the first column
MoveRelative ==
    /\ Feed("move") /\ moves' = Min({moves + 1, 2})
    /\ \E n \in 1..Max({Rows, Cols}), sign \in {-1, 1} :
          \/ row' = Clamp(row + sign * n, Rows) /\ col' \in {col, 0}
          \/ col' = Clamp(col + sign * n, Cols) /\ row' = row
    /\ UNCHANGED <<primary, alternate, use_alternate, saved, saw_alternate, erases, returns,
                   feeds, visible, tab, text>>

Erased(cells) ==
    [r \in 1..Rows |-> [c \in 1..Cols |-> IF <<r - 1, c - 1>> \in cells THEN Blank ELSE Shown[r][c]]]

Cells  == (0..Rows - 1) \X (0..Cols - 1)
Before == {p \in Cells : p[1] < row \/ (p[1] = row /\ p[2] <= col)}
After  == {p \in Cells : p[1] > row \/ (p[1] = row /\ p[2] >= col)}
OnLine == {p \in Cells : p[1] = row}

\* erase_display and erase_line, modes 1, 0 and 2: a cleared screen takes the
\* cursor home, a cleared line does not
Erase ==
    /\ Feed("erase") /\ erases' = 1
    /\ \/ \E cells \in {Before, After, OnLine \cap Before, OnLine \cap After, OnLine} :
             Show(Erased(cells)) /\ UNCHANGED <<row, col>>
       \/ Show(BlankScreen) /\ row' = 0 /\ col' = 0
    /\ UNCHANGED <<use_alternate, saved, saw_alternate, moves, returns, feeds, visible, tab, text>>

\* ESC c
Reset ==
    /\ Feed("reset") /\ erases' = 1
    /\ Show(BlankScreen) /\ row' = 0 /\ col' = 0
    /\ UNCHANGED <<use_alternate, saved, saw_alternate, moves, returns, feeds, visible, tab, text>>

\* CSI S: scroll_up leaves the cursor on the last line
ScrollUp ==
    /\ Feed("scroll") /\ \E n \in 1..Rows :
          Show(SubSeq(Shown \o BlankScreen, n + 1, n + Rows))
    /\ row' = Rows - 1
    /\ UNCHANGED <<use_alternate, col, saved, saw_alternate, counters, tab, text>>

SaveCursor ==
    /\ Feed("save") /\ saved' = <<row, col>>
    /\ UNCHANGED <<primary, alternate, use_alternate, row, col, saw_alternate, counters, tab, text>>

RestoreCursor ==
    /\ Feed("restore")
    /\ IF saved = <<>> THEN UNCHANGED <<row, col>> ELSE MoveTo(saved[1], saved[2])
    /\ UNCHANGED <<primary, alternate, use_alternate, saved, saw_alternate, counters, tab, text>>

\* handle_mode_change: entering clears the alternate screen, leaving shows
\* the primary one as it was; both take the cursor home
AlternateScreen ==
    /\ Feed("alt") /\ saw_alternate' = TRUE /\ row' = 0 /\ col' = 0
    /\ \/ use_alternate' = TRUE /\ alternate' = BlankScreen
       \/ use_alternate' = FALSE /\ alternate' = alternate
    /\ primary' = primary
    /\ UNCHANGED <<saved, counters, tab, text>>

\* CSI m, whose colours are not kept, and what is not understood: other
\* control characters and sequences, titles (OSC) and sequences that are cut
Sgr == Feed("sgr") /\ UNCHANGED <<primary, alternate, use_alternate, row, col, saved,
                                  saw_alternate, counters, tab, text>>

Next ==
    \/ Glyph \/ CarriageReturn \/ LineFeed \/ Backspace \/ TabStart \/ TabStep \/ Goto
    \/ MoveRelative \/ Erase \/ Reset \/ ScrollUp \/ SaveCursor \/ RestoreCursor
    \/ AlternateScreen \/ Sgr

Spec == Init /\ [][Next]_vars

----------------------------------------------------------------------------
\* should_snapshot
ShouldSnapshot ==
    \/ saw_alternate /\ use_alternate
    \/ erases > 0 /\ (moves > 0 \/ visible > 0)
    \/ moves >= 2
    \/ returns >= 2 /\ feeds <= 2 /\ visible >= Cols

\* terminal_snapshot_value and visible_text, up to the blanks at the ends of lines
Snapshot == IF ShouldSnapshot THEN <<Shown>> ELSE <<>>

TypeOK ==
    /\ row \in 0..(Rows - 1) /\ col \in 0..(Cols - 1)
    /\ use_alternate \in BOOLEAN /\ saw_alternate \in BOOLEAN
    /\ DOMAIN primary = 1..Rows /\ DOMAIN alternate = 1..Rows
    /\ \A r \in 1..Rows : DOMAIN primary[r] = 1..Cols /\ DOMAIN alternate[r] = 1..Cols

Padded(line) == [c \in 1..Cols |-> IF c <= Len(line) THEN line[c] ELSE Blank]

\* Plain output, characters and line feeds only, is shown as its last lines
\* cut at the right border: what a terminal of that size would show.
PlainTextIsShown ==
    LET n     == Len(text)
        first == Max({0, n - Rows})
    IN  primary = [r \in 1..Rows |-> IF first + r <= n THEN Padded(text[first + r]) ELSE BlankLine]

\* What the primary screen showed is untouched while a full-screen program
\* uses the alternate one, so that it is back when the program ends.
\* An answer meanwhile carries a snapshot, and it is of the alternate screen.
PrimaryIsKept ==
    [][use_alternate \/ use_alternate' =>
          primary' = primary /\ (use_alternate => Snapshot = <<alternate>>)]_vars
=============================================================================
