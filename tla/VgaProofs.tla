------------------------------ MODULE VgaProofs ------------------------------
(***************************************************************************)
(* Proofs about the text console, for every size of the screen and of the  *)
(* buffer, every alphabet and every sequence of calls.                     *)
(***************************************************************************)
EXTENDS Vga, TLAPS

-----------------------------------------------------------------------------
(* Types.                                                                  *)

\* The geometry, one constant at a time.
LEMMA Geometry ==
    /\ VGA_SCROLLBACK_ROWS \in Nat \ {0} /\ VGA_CONTENT_WIDTH \in Nat \ {0}
    /\ VGA_CONTENT_HEIGHT \in Nat \ {0} /\ VGA_CONTENT_HEIGHT < VGA_SCROLLBACK_ROWS
  BY GeometryAssumption

\* The lines a buffer is made of.
Buffers == [Rows -> [Cols -> Entries]]

\* A character in a colour is an entry.
LEMMA EntryType ==
    ASSUME NEW c \in Chars, NEW color \in Colors
    PROVE  vga_entry(c, color) \in Entries
  BY DEF Entries

\* A blank line is a line.
LEMMA BlankType ==
    ASSUME TypeOK
    PROVE  blank_entry \in Entries /\ BlankRow \in [Cols -> Entries]
  <1>1. blank_entry \in Entries
    BY CharsAssumption, EntryType DEF TypeOK, blank_entry
  <1> QED BY <1>1 DEF BlankRow

\* Writing one character into a buffer leaves a buffer.
LEMMA WrittenType ==
    ASSUME NEW buffer \in Buffers, NEW r \in Rows, NEW x \in Cols, NEW entry \in Entries
    PROVE  [buffer EXCEPT ![r][x] = entry] \in Buffers
  BY DEF Buffers

\* The rows after a shift are a buffer.
LEMMA ShiftedType ==
    ASSUME TypeOK, NEW buffer \in Buffers
    PROVE  Shifted(buffer) \in Buffers
  BY BlankType DEF Shifted, Buffers

\* What advance_line computes, in its two cases: a row further down, or every
\* row one up.
LEMMA AdvanceIs ==
    ASSUME TypeOK, NEW buffer, NEW follow, advance_line(buffer, follow)
    PROVE  /\ terminal_column' = 0
           /\ \/ /\ terminal_row + 1 < VGA_SCROLLBACK_ROWS
                 /\ dropped' = dropped
                 /\ terminal_row' = terminal_row + 1
                 /\ total_rows' = IF terminal_row + 2 > total_rows
                                    THEN terminal_row + 2 ELSE total_rows
                 /\ history_buffer' = [buffer EXCEPT ![terminal_row + 1] = BlankRow]
                 /\ viewport_row' = sync_viewport(viewport_row, total_rows', follow)
              \/ /\ terminal_row + 1 = VGA_SCROLLBACK_ROWS
                 /\ total_rows = VGA_SCROLLBACK_ROWS
                 /\ dropped' = dropped + 1
                 /\ terminal_row' = terminal_row
                 /\ total_rows' = VGA_SCROLLBACK_ROWS
                 /\ history_buffer' = [Shifted(buffer) EXCEPT ![terminal_row] = BlankRow]
                 /\ viewport_row' = sync_viewport(ViewShifted, total_rows', follow)
  <1> USE Geometry
  <1>1. /\ total_rows \in Nat /\ total_rows <= VGA_SCROLLBACK_ROWS
        /\ terminal_row \in Nat /\ terminal_row < total_rows
    BY DEF TypeOK
  <1>2. CASE terminal_row + 1 < VGA_SCROLLBACK_ROWS
    <2>1. ~(terminal_row + 1 >= VGA_SCROLLBACK_ROWS)
      BY <1>1, <1>2
    <2>2. terminal_row + 1 + 1 = terminal_row + 2
      BY <1>1
    <2> QED BY <1>2, <2>1, <2>2 DEF advance_line, Cleared
  <1>3. CASE ~(terminal_row + 1 < VGA_SCROLLBACK_ROWS)
    <2>1. /\ terminal_row + 1 >= VGA_SCROLLBACK_ROWS
          /\ terminal_row + 1 = VGA_SCROLLBACK_ROWS
          /\ total_rows = VGA_SCROLLBACK_ROWS
          /\ terminal_row + 1 > total_rows - 1
      BY <1>1, <1>3
    <2> QED BY <2>1 DEF advance_line, Cleared
  <1> QED BY <1>2, <1>3

\* What the steps need to know of the state: numbers in their ranges.
LEMMA Ranges ==
    ASSUME TypeOK
    PROVE  /\ total_rows \in Nat /\ 1 <= total_rows /\ total_rows <= VGA_SCROLLBACK_ROWS
           /\ terminal_row \in Nat /\ terminal_row < total_rows /\ terminal_row \in Rows
           /\ terminal_column \in Nat /\ terminal_column < VGA_CONTENT_WIDTH
           /\ viewport_row \in Nat /\ viewport_row <= vga_bottom_viewport_row
           /\ vga_bottom_viewport_row \in Nat
           /\ vga_bottom_viewport_row < total_rows
           /\ history_buffer \in Buffers
  <1>1. /\ total_rows \in Nat /\ 1 <= total_rows /\ total_rows <= VGA_SCROLLBACK_ROWS
        /\ terminal_row \in Nat /\ terminal_row < total_rows
        /\ terminal_column \in Nat /\ terminal_column < VGA_CONTENT_WIDTH
    BY Geometry DEF TypeOK, Cols
  <1>2. vga_bottom_viewport_row \in Nat /\ vga_bottom_viewport_row < total_rows
    BY <1>1, Geometry DEF vga_bottom_viewport_row, Bottom
  <1> QED BY <1>1, <1>2, Geometry DEF TypeOK, Rows, Buffers

\* sync_viewport leaves the viewport within the rows in use.
LEMMA SyncedType ==
    ASSUME NEW view \in Nat, NEW total \in 1 .. VGA_SCROLLBACK_ROWS, NEW follow
    PROVE  sync_viewport(view, total, follow) \in 0 .. Bottom(total)
  <1>1. Bottom(total) \in Nat
    BY Geometry DEF Bottom
  <1> QED BY <1>1 DEF sync_viewport

\* advance_line keeps every index inside the buffer.
LEMMA AdvanceType ==
    ASSUME TypeOK, NEW buffer \in Buffers, NEW follow, advance_line(buffer, follow),
           UNCHANGED terminal_color
    PROVE  TypeOK'
  <1> USE Geometry
  <1>1. terminal_column' \in Cols
    BY AdvanceIs DEF Cols
  <1>2. total_rows' \in 1 .. VGA_SCROLLBACK_ROWS /\ terminal_row' \in 0 .. total_rows' - 1
    BY AdvanceIs, Ranges
  <1>3. viewport_row' \in 0 .. Bottom(total_rows')
    <2>1. viewport_row \in Nat /\ ViewShifted \in Nat
      BY Ranges DEF ViewShifted
    <2> QED BY <1>2, <2>1, AdvanceIs, SyncedType
  <1>4. history_buffer' \in Buffers
    <2>1. Shifted(buffer) \in Buffers /\ BlankRow \in [Cols -> Entries]
      BY ShiftedType, BlankType
    <2> QED BY <2>1, AdvanceIs DEF Buffers
  <1> QED BY <1>1, <1>2, <1>3, <1>4 DEF TypeOK, Buffers, vga_bottom_viewport_row

\* The row and the column of a backspace lie inside the buffer.
LEMMA BackType ==
    ASSUME TypeOK, terminal_column > 0 \/ terminal_row > 0
    PROVE  /\ Back[1] \in Rows /\ Back[2] \in Cols
           /\ Back[1] = IF terminal_column = 0 THEN terminal_row - 1 ELSE terminal_row
           /\ Back[2] = IF terminal_column = 0 THEN VGA_CONTENT_WIDTH - 1
                                               ELSE terminal_column - 1
  BY Ranges, Geometry DEF Back, Rows, Cols

\* Output, scrolling or not, keeps the viewport where it was unless it follows.
LEMMA SyncSame ==
    ASSUME TypeOK
    PROVE  sync_viewport(viewport_row, total_rows, FollowBottom) = viewport_row
  BY Ranges DEF sync_viewport, FollowBottom, vga_bottom_viewport_row

\* What putchar_printable does at the end of a row, and elsewhere.
LEMMA PrintableIs ==
    ASSUME TypeOK, NEW c \in Chars, putchar_printable(c)
    PROVE  /\ [history_buffer EXCEPT ![terminal_row][terminal_column] =
                 vga_entry(c, terminal_color)] \in Buffers
           /\ Refresh
           /\ \/ /\ terminal_column + 1 = VGA_CONTENT_WIDTH
                 /\ advance_line([history_buffer EXCEPT ![terminal_row][terminal_column] =
                                    vga_entry(c, terminal_color)], FollowBottom)
              \/ /\ terminal_column + 1 # VGA_CONTENT_WIDTH
                 /\ history_buffer' = [history_buffer EXCEPT
                                         ![terminal_row][terminal_column] =
                                           vga_entry(c, terminal_color)]
                 /\ terminal_column' = terminal_column + 1
                 /\ UNCHANGED <<total_rows, terminal_row, viewport_row, dropped>>
  <1>1. vga_entry(c, terminal_color) \in Entries /\ terminal_row \in Rows
        /\ terminal_column \in Cols /\ history_buffer \in Buffers
    BY EntryType, Ranges DEF TypeOK
  <1>2. [history_buffer EXCEPT ![terminal_row][terminal_column] =
           vga_entry(c, terminal_color)] \in Buffers
    BY <1>1, WrittenType
  <1>3. ~(terminal_row + 1 > total_rows)
    BY Ranges
  <1>4. CASE terminal_column + 1 = VGA_CONTENT_WIDTH
    BY <1>2, <1>4 DEF putchar_printable
  <1>5. CASE terminal_column + 1 # VGA_CONTENT_WIDTH
    <2>1. /\ history_buffer' = [history_buffer EXCEPT
                                  ![terminal_row][terminal_column] =
                                    vga_entry(c, terminal_color)]
          /\ terminal_column' = terminal_column + 1
          /\ total_rows' = total_rows
          /\ viewport_row' = sync_viewport(viewport_row, total_rows', FollowBottom)
          /\ UNCHANGED <<terminal_row, dropped>>
          /\ Refresh
      BY <1>3, <1>5 DEF putchar_printable
    <2>2. viewport_row' = viewport_row
      BY <2>1, SyncSame
    <2> QED BY <1>2, <1>5, <2>1, <2>2
  <1> QED BY <1>4, <1>5

\* The same of putchar_backspace.
LEMMA BackspaceIs ==
    ASSUME TypeOK, putchar_backspace
    PROVE  /\ Refresh
           /\ UNCHANGED <<total_rows, viewport_row, dropped>>
           /\ \/ /\ terminal_column > 0 \/ terminal_row > 0
                 /\ terminal_row' = Back[1] /\ terminal_column' = Back[2]
                 /\ history_buffer' = [history_buffer EXCEPT
                                         ![Back[1]][Back[2]] = blank_entry]
              \/ /\ terminal_column = 0 /\ terminal_row = 0
                 /\ UNCHANGED <<history_buffer, terminal_row, terminal_column>>
  <1>1. viewport_row' = viewport_row
    BY SyncSame DEF putchar_backspace
  <1>2. CASE terminal_column > 0 \/ terminal_row > 0
    BY <1>1, <1>2 DEF putchar_backspace
  <1>3. CASE ~(terminal_column > 0 \/ terminal_row > 0)
    <2>1. terminal_column = 0 /\ terminal_row = 0
      BY <1>3, Ranges
    <2> QED BY <1>1, <1>3, <2>1 DEF putchar_backspace
  <1> QED BY <1>2, <1>3

\* The viewport of the scroll operations is within the rows in use.
LEMMA ScrollIs ==
    ASSUME TypeOK, vga_scroll_to_bottom \/ (\E delta \in {-1, 1} : vga_scroll_view(delta))
    PROVE  /\ viewport_row' \in 0 .. vga_bottom_viewport_row
           /\ UNCHANGED <<history_buffer, terminal_row, terminal_column, total_rows, dropped>>
           /\ Refresh
  <1>1. CASE vga_scroll_to_bottom
    BY <1>1, Ranges DEF vga_scroll_to_bottom, Moved
  <1>2. ASSUME NEW delta \in {-1, 1}, vga_scroll_view(delta)
        PROVE  /\ viewport_row' \in 0 .. vga_bottom_viewport_row
               /\ UNCHANGED <<history_buffer, terminal_row, terminal_column, total_rows,
                              dropped>>
               /\ Refresh
    <2> DEFINE next == viewport_row + delta
    <2>1. next \in Int
      BY Ranges
    <2>2. CASE next < 0
      BY <1>2, <2>2, Ranges DEF vga_scroll_view, Moved
    <2>3. CASE next > vga_bottom_viewport_row
      BY <1>2, <2>3, Ranges DEF vga_scroll_view, Moved
    <2>4. CASE ~(next < 0) /\ ~(next > vga_bottom_viewport_row)
      BY <1>2, <2>1, <2>4, Ranges DEF vga_scroll_view, Moved
    <2> QED BY <2>2, <2>3, <2>4
  <1> QED BY <1>1, <1>2

\* vga_putentryat writes inside the buffer.
LEMMA PatchIs ==
    ASSUME TypeOK, NEW entry \in Entries, NEW x \in Cols, NEW y \in Lines,
           vga_putentryat(entry, x, y)
    PROVE  /\ viewport_row + y \in Rows
           /\ history_buffer' = [history_buffer EXCEPT ![viewport_row + y][x] = entry]
           /\ history_buffer' \in Buffers
  <1>1. viewport_row + y \in Rows
    BY Ranges, Geometry DEF vga_putentryat, Lines, Rows
  <1> QED BY <1>1, Ranges, WrittenType DEF vga_putentryat

\* Every operation keeps every index inside the buffer.
LEMMA TypesKept ==
    ASSUME TypeOK, [Next]_vars
    PROVE  TypeOK'
  <1> USE DEF Buffers, vga_bottom_viewport_row
  <1>1. CASE putchar_newline
    BY <1>1, AdvanceType, Ranges DEF putchar_newline, Refresh
  <1>2. CASE putchar_backspace
    <2>1. /\ history_buffer' \in Buffers
          /\ terminal_row' \in 0 .. total_rows' - 1
          /\ terminal_column' \in Cols
      <3>1. CASE terminal_column = 0 /\ terminal_row = 0
        BY <1>2, <3>1, BackspaceIs, Ranges DEF TypeOK
      <3>2. CASE terminal_column > 0 \/ terminal_row > 0
        <4>1. /\ terminal_row' = Back[1] /\ terminal_column' = Back[2]
              /\ history_buffer' = [history_buffer EXCEPT ![Back[1]][Back[2]] = blank_entry]
              /\ total_rows' = total_rows
          BY <1>2, <3>2, BackspaceIs, Ranges
        <4>2. history_buffer' \in Buffers
          BY <3>2, <4>1, BackType, BlankType, WrittenType, Ranges
        <4>3. Back[1] \in 0 .. total_rows - 1 /\ Back[2] \in Cols
          BY <3>2, BackType, Ranges DEF Rows
        <4> QED BY <4>1, <4>2, <4>3
      <3> QED BY <3>1, <3>2, Ranges
    <2>2. UNCHANGED <<total_rows, viewport_row, terminal_color>>
      BY <1>2, BackspaceIs DEF Refresh
    <2> QED BY <2>1, <2>2 DEF TypeOK
  <1>3. ASSUME NEW c \in Chars, putchar_printable(c) PROVE TypeOK'
    <2>1. CASE terminal_column + 1 = VGA_CONTENT_WIDTH
      BY <1>3, <2>1, PrintableIs, AdvanceType DEF Refresh
    <2>2. CASE terminal_column + 1 # VGA_CONTENT_WIDTH
      <3>1. /\ history_buffer' \in Buffers /\ terminal_column' = terminal_column + 1
            /\ UNCHANGED <<total_rows, terminal_row, viewport_row, terminal_color>>
        BY <1>3, <2>2, PrintableIs DEF Refresh
      <3>2. terminal_column' \in Cols
        BY <2>2, <3>1, Ranges, Geometry DEF Cols
      <3> QED BY <3>1, <3>2 DEF TypeOK
    <2> QED BY <2>1, <2>2
  <1>4. CASE vga_clear
    <2>1. history_buffer' \in Buffers
      BY <1>4, BlankType DEF vga_clear
    <2>2. /\ 1 \in 1 .. VGA_SCROLLBACK_ROWS /\ 0 \in Cols /\ 0 \in 0 .. 1 - 1
          /\ 0 \in 0 .. Bottom(1)
      BY Geometry DEF Cols, Bottom
    <2> QED BY <1>4, <2>1, <2>2 DEF vga_clear, Refresh, TypeOK
  <1>5. CASE vga_scroll_to_bottom \/ (\E delta \in {-1, 1} : vga_scroll_view(delta))
    BY <1>5, ScrollIs DEF TypeOK, Refresh
  <1>6. ASSUME NEW entry \in Entries, NEW x \in Cols, NEW y \in Lines,
               vga_putentryat(entry, x, y)
        PROVE  TypeOK'
    BY <1>6, PatchIs DEF TypeOK, vga_putentryat, position
  <1>7. ASSUME NEW color \in Colors, vga_setcolor(color) PROVE TypeOK'
    BY <1>7 DEF TypeOK, vga_setcolor, position
  <1>8. CASE UNCHANGED vars
    BY <1>8 DEF TypeOK, vars, position
  <1> QED BY <1>1, <1>2, <1>3, <1>4, <1>5, <1>6, <1>7, <1>8 DEF Next
-----------------------------------------------------------------------------
(* The screen.                                                             *)

\* Redrawing makes the screen show the viewport.
LEMMA RenderShows ==
    ASSUME TypeOK, render_viewport
    PROVE  \E color \in Colors : Shows(color)'
  <1>1. PICK color \in Colors : color = terminal_color
    BY DEF TypeOK
  <1>2. BlankRow = [x \in Cols |-> vga_entry(" ", color)]
    BY <1>1 DEF BlankRow, blank_entry
  <1>3. \A y \in Lines :
          terminal_buffer'[y] = IF viewport_row' + y < total_rows'
                                  THEN history_buffer'[viewport_row' + y] ELSE BlankRow
    BY DEF render_viewport, Window
  <1>4. Shows(color)'
    BY <1>2, <1>3 DEF Shows
  <1> QED BY <1>4

\* Redrawing puts the hardware cursor where the next character goes.
LEMMA CursorShows ==
    ASSUME TypeOK', update_cursor,
           viewport_row' <= terminal_row',
           terminal_row' < viewport_row' + VGA_CONTENT_HEIGHT
    PROVE  cursor' = <<terminal_row' - viewport_row', terminal_column'>>
  BY DEF update_cursor, vga_get_row

\* An operation that ends with a redraw leaves the screen current.
LEMMA RefreshShows ==
    ASSUME TypeOK, TypeOK', Refresh
    PROVE  ScreenCurrent'
  BY RenderShows, CursorShows DEF Refresh, ScreenCurrent

\* The operations that end with a redraw.
LEMMA Refreshing ==
    ASSUME TypeOK,
           \/ putchar_newline \/ putchar_backspace \/ vga_clear \/ vga_scroll_to_bottom
           \/ \E c \in Chars : putchar_printable(c)
           \/ \E delta \in {-1, 1} : vga_scroll_view(delta)
    PROVE  Refresh
  BY PrintableIs, ScrollIs DEF putchar_newline, putchar_backspace, vga_clear

\* Every operation leaves the screen current.
LEMMA ScreenKept ==
    ASSUME ScreenCurrent, [Next]_vars
    PROVE  ScreenCurrent'
  <1>1. TypeOK /\ TypeOK'
    BY TypesKept DEF ScreenCurrent
  <1>2. CASE Refresh
    BY <1>1, <1>2, RefreshShows
  <1>3. ASSUME NEW entry \in Entries, NEW x \in Cols, NEW y \in Lines,
               vga_putentryat(entry, x, y)
        PROVE  ScreenCurrent'
    <2>1. /\ render_viewport
          /\ UNCHANGED <<cursor, terminal_row, terminal_column, viewport_row>>
      BY <1>3 DEF vga_putentryat, position
    <2> QED BY <1>1, <2>1, RenderShows DEF ScreenCurrent
  <1>4. CASE UNCHANGED <<history_buffer, position, output>>
    BY <1>1, <1>4 DEF ScreenCurrent, Shows, position, output
  <1> QED BY <1>1, <1>2, <1>3, <1>4, Refreshing DEF Next, vars, vga_setcolor

\* vga_initialize leaves a blank screen over blank rows.
LEMMA ScreenInitially == Init => ScreenCurrent
  <1> SUFFICES ASSUME Init PROVE ScreenCurrent
    OBVIOUS
  <1> USE Geometry
  <1>1. blank_entry \in Entries /\ terminal_color \in Colors
    BY EntryType, CharsAssumption DEF Init, blank_entry
  <1>2. /\ BlankRow \in [Cols -> Entries]
        /\ BlankRow = [x \in Cols |-> vga_entry(" ", terminal_color)]
    BY <1>1 DEF BlankRow, blank_entry
  <1>3. history_buffer \in [Rows -> [Cols -> Entries]]
    BY <1>2 DEF Init
  <1>4. TypeOK
    BY <1>1, <1>3 DEF Init, TypeOK, Cols, vga_bottom_viewport_row, Bottom
  <1>5. \A y \in Lines : terminal_buffer[y] = BlankRow
    BY DEF Init
  <1>6. \A y \in Lines : viewport_row + y < total_rows => y = 0
    BY DEF Init, Lines
  <1>7. history_buffer[0] = BlankRow
    BY DEF Init, Rows
  <1>8. Shows(terminal_color)
    <2>1. \A y \in Lines : viewport_row + y < total_rows => viewport_row + y = 0
      BY <1>6 DEF Init
    <2> QED BY <1>2, <1>5, <1>7, <2>1 DEF Shows
  <1>9. cursor = <<terminal_row - viewport_row, terminal_column>>
    BY DEF Init
  <1> QED BY <1>1, <1>4, <1>8, <1>9 DEF ScreenCurrent

\* After every operation of vga.c the screen shows the rows of the viewport,
\* blanks below the last one and the cursor, and no index leaves the buffer.
THEOREM Screen == Spec => []ScreenCurrent
  <1>1. Init => ScreenCurrent
    BY ScreenInitially
  <1>2. ScreenCurrent /\ [Next]_vars => ScreenCurrent'
    BY ScreenKept
  <1> QED BY <1>1, <1>2, PTL DEF Spec
-----------------------------------------------------------------------------
(* The console implements the roll of paper.                               *)

\* The types, and the number of the oldest row kept.
Numbered == TypeOK /\ dropped \in Nat

\* Rows are only ever dropped, until the console is cleared.
LEMMA DroppedKept ==
    ASSUME Numbered, [Next]_vars
    PROVE  dropped' \in Nat
  <1>1. CASE putchar_newline
    BY <1>1, AdvanceIs DEF Numbered, putchar_newline
  <1>2. ASSUME NEW c \in Chars, putchar_printable(c) PROVE dropped' \in Nat
    <2>1. CASE terminal_column + 1 = VGA_CONTENT_WIDTH
      <3>1. PICK buffer : advance_line(buffer, FollowBottom)
        BY <1>2, <2>1, PrintableIs DEF Numbered
      <3> QED BY <3>1, AdvanceIs DEF Numbered
    <2>2. CASE terminal_column + 1 # VGA_CONTENT_WIDTH
      BY <1>2, <2>2, PrintableIs DEF Numbered
    <2> QED BY <2>1, <2>2
  <1>3. CASE putchar_backspace \/ vga_clear
    <2>1. dropped' = dropped \/ dropped' = 0
      BY <1>3, BackspaceIs DEF Numbered, vga_clear
    <2> QED BY <2>1 DEF Numbered
  <1>4. CASE vga_scroll_to_bottom \/ (\E delta \in {-1, 1} : vga_scroll_view(delta))
    BY <1>4, ScrollIs DEF Numbered
  <1>5. CASE \/ \E entry \in Entries, x \in Cols, y \in Lines : vga_putentryat(entry, x, y)
             \/ \E color \in Colors : vga_setcolor(color)
             \/ UNCHANGED vars
    BY <1>5 DEF Numbered, vga_putentryat, vga_setcolor, vars, position
  <1> QED BY <1>1, <1>2, <1>3, <1>4, <1>5 DEF Next

\* The state is numbered throughout.
LEMMA AlwaysNumbered == Spec => []Numbered
  <1>1. Init => Numbered
    <2>1. Init => TypeOK
      BY ScreenInitially DEF ScreenCurrent
    <2>2. Init => dropped \in Nat
      BY DEF Init
    <2> QED BY <2>1, <2>2 DEF Numbered
  <1>2. Numbered /\ [Next]_vars => Numbered'
    BY DroppedKept, TypesKept DEF Numbered
  <1> QED BY <1>1, <1>2, PTL DEF Spec

\* The lines kept, and the text on them, as the refinement has them.
Kept == dropped .. dropped + total_rows - 1
Paper == [l \in Kept |-> history_buffer[l - dropped]]

\* The top line of the roll's last window is the bottom viewport.
LEMMA BottomIs ==
    ASSUME NEW first \in Nat, NEW total \in 1 .. VGA_SCROLLBACK_ROWS
    PROVE  Roll!Bottom(first, first + total - 1) = first + Bottom(total)
  BY Geometry DEF Roll!Bottom, Roll!Max2, Bottom

\* The bottom viewport does not move up when rows are added.
LEMMA BottomGrows ==
    ASSUME NEW s \in 1 .. VGA_SCROLLBACK_ROWS, NEW t \in 1 .. VGA_SCROLLBACK_ROWS, s <= t
    PROVE  Bottom(s) \in Nat /\ Bottom(t) \in Nat /\ Bottom(s) <= Bottom(t)
  BY Geometry DEF Bottom

\* Whether the window follows the output is the same in both.
LEMMA FollowingIs ==
    ASSUME Numbered
    PROVE  Roll!Following <=> FollowBottom
  <1>1. /\ dropped \in Nat /\ total_rows \in 1 .. VGA_SCROLLBACK_ROWS
        /\ viewport_row \in Nat /\ vga_bottom_viewport_row \in Nat
    BY Ranges DEF Numbered, TypeOK
  <1>2. Roll!Bottom(dropped, dropped + total_rows - 1) = dropped + vga_bottom_viewport_row
    BY <1>1, BottomIs DEF vga_bottom_viewport_row
  <1>3. Roll!Following <=> dropped + viewport_row = dropped + vga_bottom_viewport_row
    BY <1>2 DEF Roll!Following
  <1> QED BY <1>1, <1>3 DEF FollowBottom

\* advance_line moves the window as the roll does.
LEMMA AdvanceViewed ==
    ASSUME Numbered, Numbered', NEW buffer, advance_line(buffer, FollowBottom)
    PROVE  Roll!Viewed
  <1> USE Geometry
  <1>1. /\ TypeOK /\ dropped \in Nat /\ dropped' \in Nat
        /\ total_rows \in 1 .. VGA_SCROLLBACK_ROWS
        /\ total_rows' \in 1 .. VGA_SCROLLBACK_ROWS
        /\ viewport_row \in Nat /\ viewport_row <= Bottom(total_rows)
    BY Ranges DEF Numbered, TypeOK, vga_bottom_viewport_row
  <1>2. Roll!Bottom(dropped', dropped' + total_rows' - 1) = dropped' + Bottom(total_rows')
    BY <1>1, BottomIs
  <1>3. CASE FollowBottom
    <2>1. viewport_row' = Bottom(total_rows')
      BY <1>1, <1>3, AdvanceIs DEF sync_viewport
    <2> QED BY <1>2, <1>3, <2>1, FollowingIs DEF Roll!Viewed
  <1>4. CASE ~FollowBottom
    <2>1. total_rows <= total_rows'
      BY <1>1, AdvanceIs, Ranges
    <2>2. /\ Bottom(total_rows) \in Nat /\ Bottom(total_rows') \in Nat
          /\ Bottom(total_rows) <= Bottom(total_rows')
      BY <1>1, <2>1, BottomGrows
    <2>3. dropped' + viewport_row' = Roll!Max2(dropped + viewport_row, dropped')
      <3>1. CASE dropped' = dropped /\ terminal_row + 1 < VGA_SCROLLBACK_ROWS
        <4>1. viewport_row' = viewport_row
          BY <1>1, <1>4, <2>2, <3>1, AdvanceIs DEF sync_viewport
        <4> QED BY <1>1, <3>1, <4>1 DEF Roll!Max2
      <3>2. CASE dropped' = dropped + 1 /\ terminal_row + 1 = VGA_SCROLLBACK_ROWS
        <4>1. viewport_row' = IF viewport_row > 0 THEN viewport_row - 1 ELSE 0
          BY <1>1, <1>4, <2>2, <3>2, AdvanceIs DEF sync_viewport, ViewShifted
        <4> QED BY <1>1, <3>2, <4>1 DEF Roll!Max2
      <3> QED BY <1>1, <3>1, <3>2, AdvanceIs
    <2> QED BY <1>4, <2>3, FollowingIs DEF Roll!Viewed
  <1> QED BY <1>3, <1>4

\* advance_line on a buffer with a given text is the next line of the roll.
LEMMA AdvanceRefines ==
    ASSUME Numbered, Numbered', NEW buffer \in Buffers, UNCHANGED terminal_color,
           advance_line(buffer, FollowBottom),
           NEW text, \A l \in Kept : text[l] = buffer[l - dropped]
    PROVE  Roll!NextLine(text)
  <1> USE Geometry
  <1>1. /\ TypeOK /\ dropped \in Nat /\ dropped' \in Nat
        /\ total_rows \in Nat /\ total_rows <= VGA_SCROLLBACK_ROWS
        /\ terminal_row \in Nat /\ terminal_row < total_rows
    BY Ranges DEF Numbered
  <1>2. /\ (dropped + terminal_row)' = dropped + terminal_row + 1
        /\ (dropped + total_rows - 1)'
             = Roll!Max2(dropped + total_rows - 1, dropped + terminal_row + 1)
        /\ dropped' = Roll!Max2(dropped, Roll!Max2(dropped + total_rows - 1,
                                                   dropped + terminal_row + 1)
                                           - VGA_SCROLLBACK_ROWS + 1)
    BY <1>1, AdvanceIs DEF Roll!Max2
  <1>3. ASSUME NEW l \in Kept'
        PROVE  history_buffer'[l - dropped'] =
                 IF l = dropped + terminal_row + 1 THEN BlankRow ELSE text[l]
    <2>1. l \in Int /\ dropped' <= l /\ l <= dropped' + total_rows' - 1
      BY <1>1, AdvanceIs DEF Kept
    <2>2. CASE /\ terminal_row + 1 < VGA_SCROLLBACK_ROWS
               /\ dropped' = dropped
               /\ total_rows' = IF terminal_row + 2 > total_rows
                                  THEN terminal_row + 2 ELSE total_rows
               /\ history_buffer' = [buffer EXCEPT ![terminal_row + 1] = BlankRow]
      <3>1. l - dropped \in Rows
        BY <1>1, <2>1, <2>2 DEF Rows
      <3>2. CASE l = dropped + terminal_row + 1
        BY <1>1, <2>2, <3>1, <3>2 DEF Buffers
      <3>3. CASE l # dropped + terminal_row + 1
        <4>1. l \in Kept /\ l - dropped # terminal_row + 1
          BY <1>1, <2>1, <2>2, <3>3 DEF Kept
        <4> QED BY <2>2, <3>1, <3>3, <4>1 DEF Buffers
      <3> QED BY <3>2, <3>3
    <2>3. CASE /\ terminal_row + 1 = VGA_SCROLLBACK_ROWS
               /\ total_rows = VGA_SCROLLBACK_ROWS
               /\ dropped' = dropped + 1
               /\ total_rows' = VGA_SCROLLBACK_ROWS
               /\ history_buffer' = [Shifted(buffer) EXCEPT ![terminal_row] = BlankRow]
      <3>1. l - dropped' \in Rows
        BY <1>1, <2>1, <2>3 DEF Rows
      <3>2. Shifted(buffer) \in Buffers
        BY <1>1, ShiftedType
      <3>3. CASE l = dropped + terminal_row + 1
        BY <1>1, <2>3, <3>1, <3>2, <3>3 DEF Buffers
      <3>4. CASE l # dropped + terminal_row + 1
        <4>1. l \in Kept /\ l - dropped' # terminal_row
          BY <1>1, <2>1, <2>3, <3>4 DEF Kept
        <4>2. l - dropped' + 1 \in Rows /\ l - dropped' + 1 = l - dropped
          BY <1>1, <2>1, <2>3, <3>4 DEF Rows
        <4>3. Shifted(buffer)[l - dropped'] = buffer[l - dropped]
          BY <3>1, <4>2 DEF Shifted
        <4> QED BY <2>3, <3>1, <3>2, <3>4, <4>1, <4>3 DEF Buffers
      <3> QED BY <3>3, <3>4
    <2> QED BY <1>1, <2>2, <2>3, AdvanceIs
  <1>4. Paper' = [l \in Kept' |->
                    IF l = dropped + terminal_row + 1 THEN BlankRow ELSE text[l]]
    BY <1>3 DEF Paper
  <1>5. Roll!BlankLine = BlankRow
    BY DEF Roll!BlankLine, Roll!Blank, Roll!Columns, BlankRow, blank_entry, vga_entry, Cols
  <1>6. terminal_column' = 0
    BY <1>1, AdvanceIs
  <1>7. Roll!Viewed
    BY AdvanceViewed
  <1>8. [l \in dropped .. dropped + total_rows - 1 |-> history_buffer[l - dropped]]'
          = [l \in dropped' .. (dropped + total_rows - 1)' |->
               IF l = dropped + terminal_row + 1 THEN Roll!BlankLine ELSE text[l]]
    BY <1>4, <1>5 DEF Paper, Kept
  <1> QED BY <1>2, <1>6, <1>7, <1>8, Zenon DEF Roll!NextLine

\* A table of rows with one character of a row written, and the text of rows.
Written(table, r, x, entry) == [table EXCEPT ![r][x] = entry]
PaperOf(buffer) == [l \in Kept |-> buffer[l - dropped]]

\* A character written in a row is written on the line of the paper.
LEMMA PaperWritten ==
    ASSUME Numbered, NEW r \in 0 .. total_rows - 1, NEW x \in Cols, NEW entry,
           NEW buffer, buffer = Written(history_buffer, r, x, entry)
    PROVE  /\ Written(Paper, dropped + r, x, entry) = PaperOf(buffer)
           /\ \A l \in Kept : PaperOf(buffer)[l] = buffer[l - dropped]
  <1> DEFINE text == Written(Paper, dropped + r, x, entry)
  <1>1. /\ dropped \in Nat /\ total_rows \in Nat /\ total_rows <= VGA_SCROLLBACK_ROWS
        /\ history_buffer \in Buffers
    BY Ranges DEF Numbered
  <1>2. dropped + r \in Kept /\ dropped + r - dropped = r
    BY <1>1 DEF Kept
  <1>3. \A l \in Kept : Paper[l] = history_buffer[l - dropped] /\ l - dropped \in Rows
    BY <1>1, Geometry DEF Paper, Kept, Rows
  <1>4. ASSUME NEW l \in Kept
        PROVE  text[l] = buffer[l - dropped]
    <2>1. CASE l = dropped + r
      <3>1. text[l] = [Paper[l] EXCEPT ![x] = entry]
        BY <1>2, <2>1 DEF Paper, Written
      <3>2. buffer[l - dropped] = [history_buffer[l - dropped] EXCEPT ![x] = entry]
        BY <1>1, <1>2, <1>3, <2>1 DEF Buffers, Written
      <3> QED BY <1>3, <3>1, <3>2
    <2>2. CASE l # dropped + r
      <3>1. text[l] = Paper[l]
        BY <1>2, <2>2 DEF Paper, Written
      <3>2. l - dropped # r /\ l - dropped \in Rows
        BY <1>1, <1>3, <2>2 DEF Kept
      <3>3. buffer[l - dropped] = history_buffer[l - dropped]
        BY <1>1, <3>2 DEF Buffers, Written
      <3> QED BY <1>3, <3>1, <3>3
    <2> QED BY <2>1, <2>2
  <1>5. text = [l \in Kept |-> text[l]]
    BY DEF Paper, Written
  <1> HIDE DEF text
  <1>6. text = PaperOf(buffer)
    BY <1>4, <1>5 DEF PaperOf
  <1>7. \A l \in Kept : PaperOf(buffer)[l] = buffer[l - dropped]
    BY DEF PaperOf
  <1> QED BY <1>6, <1>7 DEF text

\* A newline is the next line of the roll.
LEMMA NewlineRefines ==
    ASSUME Numbered, Numbered', putchar_newline
    PROVE  Roll!Newline
  <1>1. /\ advance_line(history_buffer, FollowBottom) /\ UNCHANGED terminal_color
        /\ history_buffer \in Buffers
    BY Ranges DEF putchar_newline, Refresh, Numbered
  <1>2. PICK buffer, text : buffer = history_buffer /\ text = Paper
    OBVIOUS
  <1>3. \A l \in Kept : text[l] = buffer[l - dropped]
    BY <1>2 DEF Paper
  <1>4. Roll!NextLine(text)
    <2>1. buffer \in Buffers /\ advance_line(buffer, FollowBottom) /\ UNCHANGED terminal_color
      BY <1>1, <1>2
    <2> QED BY <1>3, <2>1, AdvanceRefines
  <1>5. text = [l \in dropped .. dropped + total_rows - 1 |-> history_buffer[l - dropped]]
    BY <1>2 DEF Paper, Kept
  <1> QED BY <1>4, <1>5, Zenon DEF Roll!Newline, Roll!NextLine

\* A character is written on the roll.
LEMMA PrintableRefines ==
    ASSUME Numbered, Numbered', NEW c \in Chars, putchar_printable(c)
    PROVE  Roll!Write(c)
  <1>1. TypeOK /\ UNCHANGED terminal_color
    BY PrintableIs DEF Numbered, Refresh
  <1>0. PICK r \in 0 .. total_rows - 1, x \in Cols, entry \in Entries :
          r = terminal_row /\ x = terminal_column /\ entry = vga_entry(c, terminal_color)
    BY <1>1, Ranges, EntryType DEF TypeOK
  <1>2. PICK buffer, text : /\ buffer = Written(history_buffer, r, x, entry)
                            /\ text = Written(Paper, dropped + r, x, entry)
    OBVIOUS
  <1>3. text = PaperOf(buffer) /\ \A l \in Kept : text[l] = buffer[l - dropped]
    BY <1>2, PaperWritten
  <1>6. text = [[l \in dropped .. dropped + total_rows - 1 |-> history_buffer[l - dropped]]
                  EXCEPT ![dropped + terminal_row][terminal_column] = <<c, terminal_color>>]
    BY <1>0, <1>2 DEF Paper, Kept, vga_entry, Written
  <1>4. CASE terminal_column + 1 = VGA_CONTENT_WIDTH
    <2>1. buffer \in Buffers /\ advance_line(buffer, FollowBottom)
      BY <1>0, <1>1, <1>2, <1>4, PrintableIs DEF Written
    <2>2. Roll!NextLine(text)
      BY <1>1, <1>3, <2>1, AdvanceRefines
    <2> QED BY <1>4, <1>6, <2>2, Zenon DEF Roll!Write, Roll!NextLine
  <1>5. CASE terminal_column + 1 # VGA_CONTENT_WIDTH
    <2>1. /\ history_buffer' = buffer
          /\ terminal_column' = terminal_column + 1
          /\ UNCHANGED <<total_rows, terminal_row, viewport_row, dropped>>
      BY <1>0, <1>1, <1>2, <1>5, PrintableIs DEF Written
    <2>2. Paper' = text
      BY <1>3, <2>1 DEF Paper, Kept, PaperOf
    <2> QED BY <1>1, <1>5, <1>6, <2>1, <2>2 DEF Roll!Write, Paper, Kept
  <1> QED BY <1>4, <1>5

\* A backspace erases the character before the cursor, or there is none.
LEMMA BackspaceRefines ==
    ASSUME Numbered, Numbered', putchar_backspace
    PROVE  Roll!Erase \/ UNCHANGED Roll!vars
  <1>1. /\ TypeOK /\ UNCHANGED <<total_rows, viewport_row, dropped, terminal_color>>
    BY BackspaceIs DEF Numbered, Refresh
  <1>2. CASE terminal_column = 0 /\ terminal_row = 0
    <2>1. UNCHANGED <<history_buffer, terminal_row, terminal_column>>
      BY <1>1, <1>2, BackspaceIs
    <2> QED BY <1>1, <2>1 DEF Roll!vars
  <1>3. CASE ~(terminal_column = 0 /\ terminal_row = 0)
    <2>1. terminal_column > 0 \/ terminal_row > 0
      BY <1>1, <1>3, Ranges
    <2>2. PICK r, x : r = Back[1] /\ x = Back[2]
      OBVIOUS
    <2>3. /\ terminal_row' = r /\ terminal_column' = x
          /\ history_buffer' = [history_buffer EXCEPT ![r][x] = blank_entry]
      BY <1>1, <1>3, <2>2, BackspaceIs
    <2>4. /\ r = IF terminal_column = 0 THEN terminal_row - 1 ELSE terminal_row
          /\ x = IF terminal_column = 0 THEN VGA_CONTENT_WIDTH - 1 ELSE terminal_column - 1
          /\ r \in 0 .. total_rows - 1 /\ x \in Cols
      BY <1>1, <2>1, <2>2, BackType, Ranges DEF Rows
    <2>5. PICK entry, buffer : /\ entry = blank_entry
                               /\ buffer = Written(history_buffer, r, x, entry)
      OBVIOUS
    <2>6. Written(Paper, dropped + r, x, entry) = PaperOf(buffer)
      BY <2>4, <2>5, PaperWritten
    <2>7. Paper' = Written(Paper, dropped + r, x, entry)
      <3>1. history_buffer' = buffer
        BY <2>3, <2>5 DEF Written
      <3> QED BY <1>1, <2>6, <3>1 DEF Paper, Kept, PaperOf
    <2>8. /\ dropped \in Nat /\ terminal_row \in Nat
          /\ (dropped + terminal_row)' = dropped + r /\ terminal_column' = x
          /\ dropped + terminal_row # dropped \/ terminal_column # 0
          /\ IF terminal_column = 0
               THEN dropped + r = dropped + terminal_row - 1 /\ x = VGA_CONTENT_WIDTH - 1
               ELSE dropped + r = dropped + terminal_row /\ x = terminal_column - 1
      BY <1>1, <1>3, <2>3, <2>4, Ranges DEF Numbered
    <2>9. entry = Roll!Blank
      BY <2>5 DEF Roll!Blank, blank_entry, vga_entry
    <2>10. [l \in dropped .. dropped + total_rows - 1 |-> history_buffer[l - dropped]]'
             = [[l \in dropped .. dropped + total_rows - 1 |-> history_buffer[l - dropped]]
                  EXCEPT ![(dropped + terminal_row)'][terminal_column'] = Roll!Blank]
      BY <2>7, <2>8, <2>9, Zenon DEF Paper, Kept, Written
    <2>11. UNCHANGED <<terminal_color, dropped, dropped + total_rows - 1,
                       dropped + viewport_row>>
      BY <1>1
    <2>12. IF terminal_column = 0
             THEN /\ (dropped + terminal_row)' = (dropped + terminal_row) - 1
                  /\ terminal_column' = VGA_CONTENT_WIDTH - 1
             ELSE /\ (dropped + terminal_row)' = dropped + terminal_row
                  /\ terminal_column' = terminal_column - 1
      BY <2>8
    <2> QED BY <2>8, <2>10, <2>11, <2>12, Zenon DEF Roll!Erase
  <1> QED BY <1>2, <1>3

\* The user moves the window within the roll.
LEMMA ScrollRefines ==
    ASSUME Numbered, Numbered',
           vga_scroll_to_bottom \/ (\E delta \in {-1, 1} : vga_scroll_view(delta))
    PROVE  Roll!Scroll
  <1>1. /\ viewport_row' \in 0 .. vga_bottom_viewport_row
        /\ UNCHANGED <<history_buffer, terminal_row, terminal_column, total_rows, dropped,
                       terminal_color>>
        /\ TypeOK /\ dropped \in Nat
    BY ScrollIs DEF Numbered, Refresh
  <1>2. Roll!Bottom(dropped, dropped + total_rows - 1) = dropped + vga_bottom_viewport_row
    BY <1>1, BottomIs DEF vga_bottom_viewport_row, TypeOK
  <1>3. vga_bottom_viewport_row \in Nat
    BY <1>1, Ranges
  <1>4. PICK view : view = viewport_row' /\ view \in 0 .. vga_bottom_viewport_row
    BY <1>1
  <1>5. dropped + view \in dropped .. dropped + vga_bottom_viewport_row
    <2>1. \A a, b \in Nat : \A v \in 0 .. b : a + v \in a .. a + b
      OBVIOUS
    <2> QED BY <1>1, <1>3, <1>4, <2>1
  <1> QED BY <1>1, <1>2, <1>4, <1>5 DEF Roll!Scroll

\* vga_putentryat patches a line in the window, or a row that is not yet a line.
LEMMA PatchRefines ==
    ASSUME Numbered, Numbered', NEW entry \in Entries, NEW x \in Cols, NEW y \in Lines,
           vga_putentryat(entry, x, y)
    PROVE  \/ \E l \in Kept, c \in Chars, color \in Colors : Roll!Patch(l, x, c, color)
           \/ UNCHANGED Roll!vars
  <1>1. /\ TypeOK /\ dropped \in Nat /\ total_rows \in Nat /\ viewport_row \in Nat
        /\ y \in Nat /\ y < VGA_CONTENT_HEIGHT
    BY Ranges, Geometry DEF Numbered, Lines
  <1>2. /\ viewport_row + y \in Rows
        /\ history_buffer' = [history_buffer EXCEPT ![viewport_row + y][x] = entry]
        /\ UNCHANGED <<terminal_color, terminal_row, terminal_column, viewport_row,
                       total_rows, dropped>>
    BY <1>1, PatchIs DEF vga_putentryat, position
  <1>3. CASE viewport_row + y < total_rows
    <2>1. viewport_row + y \in 0 .. total_rows - 1
      BY <1>1, <1>3
    <2>2. PICK l : l = dropped + (viewport_row + y)
      OBVIOUS
    <2>3. PICK buffer : buffer = Written(history_buffer, viewport_row + y, x, entry)
      OBVIOUS
    <2>4. Paper' = Written(Paper, l, x, entry)
      <3>1. Written(Paper, l, x, entry) = PaperOf(buffer)
        BY <2>1, <2>2, <2>3, PaperWritten
      <3>2. history_buffer' = buffer
        BY <1>2, <2>3 DEF Written
      <3> QED BY <1>2, <3>1, <3>2 DEF Paper, Kept, PaperOf
    <2>5. PICK c \in Chars, color \in Colors : entry = <<c, color>>
      BY DEF Entries, vga_entry
    <2>6. /\ l \in Kept
          /\ l \in dropped + viewport_row .. dropped + viewport_row + VGA_CONTENT_HEIGHT - 1
      BY <1>1, <1>3, <2>2, Geometry DEF Kept
    <2>7. Roll!Patch(l, x, c, color)
      BY <1>2, <2>4, <2>5, <2>6 DEF Roll!Patch, Paper, Kept, Written
    <2> QED BY <2>6, <2>7
  <1>4. CASE ~(viewport_row + y < total_rows)
    <2>1. \A l \in Kept : history_buffer'[l - dropped] = history_buffer[l - dropped]
      <3>1. ASSUME NEW l \in Kept PROVE l - dropped # viewport_row + y
        BY <1>1, <1>4 DEF Kept
      <3> QED BY <1>1, <1>2, <3>1, Ranges DEF Buffers
    <2>2. Paper' = Paper
      BY <1>2, <2>1 DEF Paper, Kept
    <2> QED BY <1>2, <2>2 DEF Roll!vars, Paper, Kept
  <1> QED BY <1>3, <1>4

\* A blank line of the roll is a blank row, and so is the first line alone.
LEMMA FreshIs ==
    ASSUME dropped = 0, total_rows = 1, history_buffer = [r \in Rows |-> BlankRow]
    PROVE  [l \in dropped .. dropped + total_rows - 1 |-> history_buffer[l - dropped]]
             = [l \in {0} |-> Roll!BlankLine]
  <1>1. dropped .. dropped + total_rows - 1 = {0}
    OBVIOUS
  <1>2. \A l \in {0} : l - dropped = 0 /\ 0 \in Rows
    BY Geometry DEF Rows
  <1>3. Roll!BlankLine = BlankRow
    BY DEF Roll!BlankLine, Roll!Blank, Roll!Columns, BlankRow, blank_entry, vga_entry, Cols
  <1>4. \A l \in {0} : history_buffer[l - dropped] = Roll!BlankLine
    BY <1>2, <1>3
  <1> QED BY <1>1, <1>4

\* vga_clear starts a fresh roll.
LEMMA ClearRefines ==
    ASSUME vga_clear
    PROVE  Roll!Clear
  <1>1. /\ dropped' = 0 /\ total_rows' = 1 /\ terminal_row' = 0 /\ terminal_column' = 0
        /\ viewport_row' = 0 /\ UNCHANGED terminal_color
    BY DEF vga_clear, Refresh
  <1>2. history_buffer' = [r \in Rows |-> BlankRow']
    <2>1. BlankRow' = BlankRow
      BY <1>1 DEF BlankRow, blank_entry
    <2> QED BY <2>1 DEF vga_clear
  <1>3. (/\ dropped = 0 /\ total_rows = 1
         /\ history_buffer = [r \in Rows |-> BlankRow]
         => [l \in dropped .. dropped + total_rows - 1 |-> history_buffer[l - dropped]]
              = [l \in {0} |-> Roll!BlankLine])'
    BY FreshIs, PTL
  <1>4. [l \in dropped .. dropped + total_rows - 1 |-> history_buffer[l - dropped]]'
          = [l \in {0} |-> Roll!BlankLine]'
    BY <1>1, <1>2, <1>3
  <1>5. /\ (dropped + total_rows - 1)' = 0 /\ (dropped + terminal_row)' = 0
        /\ (dropped + viewport_row)' = 0
    BY <1>1
  <1> QED BY <1>1, <1>4, <1>5 DEF Roll!Clear, Roll!Fresh

\* After vga_initialize the roll is fresh.
LEMMA InitRefines ==
    ASSUME Init
    PROVE  Roll!Init
  <1>1. [l \in dropped .. dropped + total_rows - 1 |-> history_buffer[l - dropped]]
          = [l \in {0} |-> Roll!BlankLine]
    BY FreshIs DEF Init
  <1>2. /\ dropped + total_rows - 1 = 0 /\ dropped + terminal_row = 0
        /\ dropped + viewport_row = 0 /\ dropped = 0 /\ terminal_column = 0
        /\ terminal_color \in Colors
    <2>1. LIGHT_GREY \in Colors /\ terminal_color = LIGHT_GREY
      BY CharsAssumption DEF Init
    <2> QED BY <2>1 DEF Init
  <1> QED BY <1>1, <1>2 DEF Roll!Init, Roll!Fresh

\* Every step of the console is a step of the roll, or leaves it as it is.
LEMMA NextRefines ==
    ASSUME Numbered, Numbered', [Next]_vars
    PROVE  [Roll!Next]_(Roll!vars)
  <1>1. CASE putchar_newline
    BY <1>1, NewlineRefines DEF Roll!Next
  <1>2. ASSUME NEW c \in Chars, putchar_printable(c)
        PROVE  Roll!Next
    BY <1>2, PrintableRefines DEF Roll!Next
  <1>3. CASE putchar_backspace
    BY <1>3, BackspaceRefines DEF Roll!Next
  <1>4. CASE vga_clear
    BY <1>4, ClearRefines DEF Roll!Next
  <1>5. CASE vga_scroll_to_bottom \/ (\E delta \in {-1, 1} : vga_scroll_view(delta))
    BY <1>5, ScrollRefines DEF Roll!Next
  <1>6. ASSUME NEW entry \in Entries, NEW x \in Cols, NEW y \in Lines,
               vga_putentryat(entry, x, y)
        PROVE  Roll!Next \/ UNCHANGED Roll!vars
    <2>1. \/ \E l \in Kept, c \in Chars, color \in Colors : Roll!Patch(l, x, c, color)
          \/ UNCHANGED Roll!vars
      BY <1>6, PatchRefines
    <2>2. x \in Roll!Columns
      BY DEF Roll!Columns, Cols
    <2> QED BY <2>1, <2>2 DEF Roll!Next, Kept
  <1>7. ASSUME NEW color \in Colors, vga_setcolor(color)
        PROVE  Roll!Next
    <2>1. Roll!Ink(color)
      BY <1>7 DEF vga_setcolor, Roll!Ink, position
    <2> QED BY <2>1 DEF Roll!Next
  <1>8. CASE UNCHANGED vars
    BY <1>8 DEF vars, position, Roll!vars
  <1> QED BY <1>1, <1>2, <1>3, <1>4, <1>5, <1>6, <1>7, <1>8 DEF Next

\* The console of vga.c, with its shifting rows and clamped viewport, implements
\* the roll of paper: nothing the user reads moves or changes colour but by an
\* operation that is meant to, for every size of the buffer and of the screen.
THEOREM Refinement == Spec => ImplementsRoll
  <1>1. Init => Roll!Init
    BY InitRefines
  <1>2. Numbered /\ Numbered' /\ [Next]_vars => [Roll!Next]_(Roll!vars)
    BY NextRefines
  <1> QED BY <1>1, <1>2, AlwaysNumbered, PTL DEF Spec, ImplementsRoll, Roll!Spec
=============================================================================
