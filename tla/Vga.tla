-------------------------------- MODULE Vga --------------------------------
(***************************************************************************)
(* The text console, src/vga.c: a buffer of the last VGA_SCROLLBACK_ROWS   *)
(* rows, the cursor, a viewport that the user can move over the rows, and  *)
(* the screen, a copy of the rows in the viewport that every operation     *)
(* redraws.  The blank border of the screen is left out.                   *)
(***************************************************************************)
EXTENDS Integers

CONSTANTS
    VGA_SCROLLBACK_ROWS,
    VGA_CONTENT_WIDTH,
    VGA_CONTENT_HEIGHT,
    Chars,        \* the printable characters, with the blank
    Colors,       \* the colours, with LIGHT_GREY
    MaxDropped    \* bound: rows that leave the buffer before it is cleared

ASSUME GeometryAssumption ==
    /\ {VGA_SCROLLBACK_ROWS, VGA_CONTENT_WIDTH, VGA_CONTENT_HEIGHT} \subseteq Nat \ {0}
    /\ VGA_CONTENT_HEIGHT < VGA_SCROLLBACK_ROWS

LIGHT_GREY == 7

ASSUME CharsAssumption == " " \in Chars /\ LIGHT_GREY \in Colors

Rows == 0 .. VGA_SCROLLBACK_ROWS - 1
Cols == 0 .. VGA_CONTENT_WIDTH - 1
Lines == 0 .. VGA_CONTENT_HEIGHT - 1

\* A cell of the screen: a character in its colour.
vga_entry(c, color) == <<c, color>>
Entries == {vga_entry(c, color) : c \in Chars, color \in Colors}

VARIABLES
    terminal_color,
    history_buffer, terminal_row, terminal_column, viewport_row, total_rows,
    terminal_buffer,  \* the rows on the screen
    cursor,           \* the hardware cursor, <<line of the screen, column>>
    dropped           \* history: the rows shifted out since the last clear

output == <<terminal_buffer, cursor>>
position == <<terminal_row, terminal_column, viewport_row, total_rows, dropped>>
vars == <<terminal_color, history_buffer, position, output>>
-----------------------------------------------------------------------------
blank_entry == vga_entry(" ", terminal_color)
BlankRow == [x \in Cols |-> blank_entry]

Bottom(total) ==
    IF total > VGA_CONTENT_HEIGHT THEN total - VGA_CONTENT_HEIGHT ELSE 0

vga_bottom_viewport_row == Bottom(total_rows)

\* The rows in the viewport; below the last row the screen is blank.
Window(buffer, view, total) ==
    [y \in Lines |-> IF view + y < total THEN buffer[view + y] ELSE BlankRow]

\* Mutant: the screen is not redrawn.
render_nothing == UNCHANGED terminal_buffer

render_viewport == terminal_buffer' = Window(history_buffer', viewport_row', total_rows')

\* The line of the screen on which a row is shown; the last one if it is not.
vga_get_row(row, view) ==
    IF view <= row /\ row < view + VGA_CONTENT_HEIGHT
      THEN row - view ELSE VGA_CONTENT_HEIGHT - 1

update_cursor == cursor' = <<vga_get_row(terminal_row', viewport_row'), terminal_column'>>

Refresh == render_viewport /\ update_cursor /\ UNCHANGED terminal_color

\* The viewport_row of sync_viewport.
sync_viewport(view, total, follow_bottom) ==
    IF follow_bottom \/ view > Bottom(total) THEN Bottom(total) ELSE view

Shifted(buffer) ==
    [r \in Rows |-> IF r + 1 \in Rows THEN buffer[r + 1] ELSE BlankRow]

\* Mutant: the rows move under a viewport that stays.
ViewNotShifted == viewport_row

\* The viewport after shift_history_up: it moves up with the text.
ViewShifted == IF viewport_row > 0 THEN viewport_row - 1 ELSE 0

Cleared(buffer, row) == [buffer EXCEPT ![row] = BlankRow]

\* advance_line on a buffer into which the last character has been written.
advance_line(buffer, follow_bottom) ==
    LET full == terminal_row + 1 >= VGA_SCROLLBACK_ROWS
        row == IF full THEN terminal_row ELSE terminal_row + 1
        rows == IF full THEN total_rows - 1 ELSE total_rows
        total == IF row + 1 > rows THEN row + 1 ELSE rows
    IN  /\ full => dropped < MaxDropped
        /\ dropped' = IF full THEN dropped + 1 ELSE dropped
        /\ history_buffer' = Cleared(IF full THEN Shifted(buffer) ELSE buffer, row)
        /\ terminal_row' = row
        /\ terminal_column' = 0
        /\ total_rows' = total
        /\ viewport_row' = sync_viewport(IF full THEN ViewShifted ELSE viewport_row,
                                         total, follow_bottom)
-----------------------------------------------------------------------------
Init ==
    /\ terminal_color = LIGHT_GREY
    /\ history_buffer = [r \in Rows |-> BlankRow]
    /\ terminal_row = 0 /\ terminal_column = 0
    /\ viewport_row = 0 /\ total_rows = 1
    /\ terminal_buffer = [y \in Lines |-> BlankRow]
    /\ cursor = <<0, 0>>
    /\ dropped = 0

FollowBottom == viewport_row = vga_bottom_viewport_row

\* Only what is written from now on has the colour.
vga_setcolor(color) ==
    /\ terminal_color' = color
    /\ UNCHANGED <<history_buffer, position, output>>

putchar_newline ==
    /\ advance_line(history_buffer, FollowBottom)
    /\ Refresh

\* The cursor after a backspace.
Back == IF terminal_column = 0 THEN <<terminal_row - 1, VGA_CONTENT_WIDTH - 1>>
                               ELSE <<terminal_row, terminal_column - 1>>

putchar_backspace ==
    /\ IF terminal_column > 0 \/ terminal_row > 0
         THEN /\ terminal_row' = Back[1] /\ terminal_column' = Back[2]
              /\ history_buffer' = [history_buffer EXCEPT ![Back[1]][Back[2]] = blank_entry]
         ELSE UNCHANGED <<history_buffer, terminal_row, terminal_column>>
    /\ viewport_row' = sync_viewport(viewport_row, total_rows, FollowBottom)
    /\ UNCHANGED <<total_rows, dropped>>
    /\ Refresh

putchar_printable(c) ==
    LET written == [history_buffer EXCEPT
                      ![terminal_row][terminal_column] = vga_entry(c, terminal_color)]
    IN  /\ IF terminal_column + 1 = VGA_CONTENT_WIDTH
             THEN advance_line(written, FollowBottom)
             ELSE /\ history_buffer' = written
                  /\ terminal_column' = terminal_column + 1
                  /\ total_rows' = IF terminal_row + 1 > total_rows
                                     THEN terminal_row + 1 ELSE total_rows
                  /\ viewport_row' = sync_viewport(viewport_row, total_rows', FollowBottom)
                  /\ UNCHANGED <<terminal_row, dropped>>
        /\ Refresh

vga_clear ==
    /\ history_buffer' = [r \in Rows |-> BlankRow]
    /\ terminal_row' = 0 /\ terminal_column' = 0
    /\ viewport_row' = 0 /\ total_rows' = 1
    /\ dropped' = 0
    /\ Refresh

Moved(view) ==
    /\ viewport_row' = view
    /\ UNCHANGED <<history_buffer, terminal_row, terminal_column, total_rows, dropped>>
    /\ Refresh

vga_scroll_view(delta) ==
    LET next == viewport_row + delta
    IN  Moved(CASE next < 0 -> 0
                [] next > vga_bottom_viewport_row -> vga_bottom_viewport_row
                [] OTHER -> next)

vga_scroll_to_bottom == Moved(vga_bottom_viewport_row)

\* x is a column and y a line of the screen, or the call changes nothing.
vga_putentryat(entry, x, y) ==
    /\ viewport_row + y < VGA_SCROLLBACK_ROWS
    /\ history_buffer' = [history_buffer EXCEPT ![viewport_row + y][x] = entry]
    /\ UNCHANGED <<terminal_color, position, cursor>>
    /\ render_viewport

Next ==
    \/ putchar_newline
    \/ putchar_backspace
    \/ \E c \in Chars : putchar_printable(c)
    \/ vga_clear
    \/ \E delta \in {-1, 1} : vga_scroll_view(delta)
    \/ vga_scroll_to_bottom
    \/ \E entry \in Entries, x \in Cols, y \in Lines : vga_putentryat(entry, x, y)
    \/ \E color \in Colors : vga_setcolor(color)

Spec == Init /\ [][Next]_vars
-----------------------------------------------------------------------------
\* Every variable has its type, and every index into the buffer is inside it:
\* the cursor stands in one of the rows in use, the viewport does not go
\* beyond the last screenful of them.
TypeOK ==
    /\ terminal_color \in Colors
    /\ history_buffer \in [Rows -> [Cols -> Entries]]
    /\ total_rows \in 1 .. VGA_SCROLLBACK_ROWS
    /\ terminal_row \in 0 .. total_rows - 1
    /\ terminal_column \in Cols
    /\ viewport_row \in 0 .. vga_bottom_viewport_row

\* The rows of the viewport, and below the last one blanks in one colour.
Shows(color) ==
    \A y \in Lines :
      terminal_buffer[y] =
        IF viewport_row + y < total_rows THEN history_buffer[viewport_row + y]
                                         ELSE [x \in Cols |-> vga_entry(" ", color)]

\* The screen shows the rows of the viewport in their colours, redrawn after
\* every operation that changes either, and below the last one no rest of what
\* was there before, only blanks in the colour of the last redraw; the
\* hardware cursor stands where the next character will go whenever that row
\* is on the screen; no index leaves the buffer.
ScreenCurrent ==
    /\ TypeOK
    /\ \E color \in Colors : Shows(color)
    /\ viewport_row <= terminal_row /\ terminal_row < viewport_row + VGA_CONTENT_HEIGHT
         => cursor = <<terminal_row - viewport_row, terminal_column>>

\* Rows that shift in the buffer, counters that are decremented with them and
\* a viewport that is clamped make up a roll of paper on which nothing moves:
\* a user who has scrolled up keeps seeing the same lines while output goes
\* on below, output touches no line but the cursor's and the next one, text
\* keeps the colour it was written in, and only lines older than the buffer
\* are lost.
Roll == INSTANCE Terminal WITH
    Width <- VGA_CONTENT_WIDTH,
    Height <- VGA_CONTENT_HEIGHT,
    Capacity <- VGA_SCROLLBACK_ROWS,
    ink <- terminal_color,
    oldest <- dropped,
    last <- dropped + total_rows - 1,
    paper <- [l \in dropped .. dropped + total_rows - 1 |-> history_buffer[l - dropped]],
    line <- dropped + terminal_row,
    column <- terminal_column,
    top <- dropped + viewport_row

ImplementsRoll == Roll!Spec
=============================================================================
