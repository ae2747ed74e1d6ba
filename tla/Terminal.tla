------------------------------ MODULE Terminal ------------------------------
(***************************************************************************)
(* What vga.h promises to the shell: an endless roll of paper on which a   *)
(* cursor writes, of which the last Capacity lines are kept, and a window  *)
(* of Height lines that follows the output unless the user has moved it    *)
(* up.  Lines are numbered from the last time the roll was cleared and     *)
(* never move.                                                             *)
(***************************************************************************)
EXTENDS Integers

CONSTANTS Width, Height, Capacity, Chars, Colors

Columns == 0 .. Width - 1

VARIABLES
    ink,           \* the colour in which is written and erased
    oldest, last,  \* the lines kept
    paper,         \* their text
    line, column,  \* the cursor
    top            \* the line at the top of the window

vars == <<ink, oldest, last, paper, line, column, top>>

Blank == <<" ", ink>>
BlankLine == [x \in Columns |-> Blank]

Max2(a, b) == IF a > b THEN a ELSE b

\* The top line when the window is at the end of the roll.
Bottom(first, end) == Max2(first, end - Height + 1)

Following == top = Bottom(oldest, last)

\* The window after output: it follows, or stays where it is unless the lines
\* it shows have been thrown away.
Viewed == top' = IF Following THEN Bottom(oldest', last') ELSE Max2(top, oldest')

Fresh ==
    /\ oldest = 0 /\ last = 0
    /\ paper = [l \in {0} |-> BlankLine]
    /\ line = 0 /\ column = 0
    /\ top = 0

Init == ink \in Colors /\ Fresh

Ink(color) ==
    /\ ink' = color
    /\ UNCHANGED <<oldest, last, paper, line, column, top>>

NextLine(text) ==
    LET end == Max2(last, line + 1)
    IN  /\ UNCHANGED ink
        /\ line' = line + 1 /\ column' = 0
        /\ last' = end
        /\ oldest' = Max2(oldest, end - Capacity + 1)
        /\ paper' = [l \in oldest' .. last' |->
                       IF l = line + 1 THEN BlankLine ELSE text[l]]
        /\ Viewed

Newline == NextLine(paper)

Write(c) ==
    LET text == [paper EXCEPT ![line][column] = <<c, ink>>]
    IN  IF column + 1 = Width
          THEN NextLine(text)
          ELSE /\ paper' = text
               /\ column' = column + 1
               /\ UNCHANGED <<ink, oldest, last, line, top>>

\* Takes back the character before the cursor, also across the end of a line.
Erase ==
    /\ line # oldest \/ column # 0
    /\ IF column = 0 THEN line' = line - 1 /\ column' = Width - 1
                     ELSE line' = line /\ column' = column - 1
    /\ paper' = [paper EXCEPT ![line'][column'] = Blank]
    /\ UNCHANGED <<ink, oldest, last, top>>

Scroll ==
    /\ top' \in oldest .. Bottom(oldest, last)
    /\ UNCHANGED <<ink, oldest, last, paper, line, column>>

\* Overwrites one character of a line in the window.
Patch(l, x, c, color) ==
    /\ l \in top .. top + Height - 1
    /\ paper' = [paper EXCEPT ![l][x] = <<c, color>>]
    /\ UNCHANGED <<ink, oldest, last, line, column, top>>

Clear == Fresh' /\ UNCHANGED ink

Next ==
    \/ Newline
    \/ \E c \in Chars : Write(c)
    \/ Erase
    \/ Scroll
    \/ \E l \in oldest .. last, x \in Columns, c \in Chars, color \in Colors :
         Patch(l, x, c, color)
    \/ \E color \in Colors : Ink(color)
    \/ Clear

Spec == Init /\ [][Next]_vars
=============================================================================
