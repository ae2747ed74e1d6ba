------------------------------- MODULE Shell -------------------------------
(***************************************************************************)
(* The shell loop, src/shell.c: the line editor over cmd_buffer, the ring  *)
(* of remembered lines and the walk through it with the arrow keys, and    *)
(* what happens on Enter.  A buffer of characters is modelled as the C     *)
(* string in it, up to the first NUL: after a command has run, cmd_buffer  *)
(* still holds the string that shell_parse_command left there, although    *)
(* the new prompt is empty.                                                *)
(***************************************************************************)
EXTENDS Integers, Sequences, FiniteSets, Characters

CONSTANTS
    CMD_BUFFER_SIZE,
    HISTORY_SIZE,
    Stopping       \* the commands that do not come back: exit, halt, reboot, panic

ASSUME SizeAssumption == {CMD_BUFFER_SIZE, HISTORY_SIZE} \subseteq Nat \ {0}

Texts == UNION {[1 .. n -> Typed] : n \in 0 .. CMD_BUFFER_SIZE - 1}
Slots == 0 .. HISTORY_SIZE - 1

VARIABLES
    cmd_buffer, pos,                        \* the line being edited
    history, history_head, history_count,   \* the ring
    event, history_position, current_line,  \* locals of shell_run
    shown,      \* the text behind the prompt on the screen
    scrolled,   \* the user has scrolled the console up
    executed,   \* the command given to command_runs last
    stopped,    \* shell_run has ended or the machine stands still
    draft       \* history: the line as it was before the walk began

ring == <<history, history_head, history_count>>
edit == <<cmd_buffer, pos, shown>>
walk == <<history_position, current_line, draft>>
vars == <<event, edit, ring, walk, scrolled, executed, stopped>>
-----------------------------------------------------------------------------
\* The length of the leading spaces, and of these with the word after them.
Indent(text) == Cardinality({k \in DOMAIN text : \A j \in 1 .. k : text[j] = Space})

CommandEnd(text) ==
    Cardinality({k \in DOMAIN text :
                   \A j \in 1 .. k : text[j] = Space => j <= Indent(text)})

\* What shell_parse_command (module ShellParser) finds and leaves behind: the
\* first word, and the line cut off after it.
Command(text) == SubSeq(text, Indent(text) + 1, CommandEnd(text))
Remains(text) == SubSeq(text, 1, CommandEnd(text))

history_oldest_index == (history_head + HISTORY_SIZE - history_count) % HISTORY_SIZE

history_get(position) == history[(history_oldest_index + position) % HISTORY_SIZE]

\* Mutant: writes the slot after the one that is due.
WrittenSlotWrong == (history_head + 1) % HISTORY_SIZE

\* The slot history_add writes.
WrittenSlot == history_head

\* An empty line, and the line remembered last, are not added.
history_add(line) ==
    IF \/ line = <<>>
       \/ history_count > 0 /\ history_get(history_count - 1) = line
      THEN UNCHANGED ring
      ELSE /\ history' = [history EXCEPT ![WrittenSlot] = line]
           /\ history_head' = (history_head + 1) % HISTORY_SIZE
           /\ history_count' = IF history_count < HISTORY_SIZE
                                 THEN history_count + 1 ELSE history_count

\* Takes the old text off the screen character by character, then writes the
\* new one.
shell_set_buffer(text) ==
    /\ shown' = SubSeq(shown, 1, Len(shown) - pos) \o text
    /\ cmd_buffer' = text
    /\ pos' = Len(text)
-----------------------------------------------------------------------------
\* shell_init, the first prompt.
Init ==
    /\ cmd_buffer = <<>> /\ pos = 0 /\ shown = <<>>
    /\ history = [s \in Slots |-> <<>>]
    /\ history_head = 0 /\ history_count = 0
    /\ event = "none" /\ history_position = 0 /\ current_line = <<>>
    /\ scrolled = FALSE
    /\ executed = <<>>
    /\ stopped = FALSE
    /\ draft = <<>>

\* The left and right arrow keys; how far the console can be scrolled is up
\* to module Vga.
scroll_view ==
    /\ ~stopped
    /\ event' = "LEFT or RIGHT"
    /\ scrolled' \in BOOLEAN
    /\ UNCHANGED <<edit, ring, walk, executed, stopped>>

\* Every other event first scrolls back to the prompt.
Event(e) ==
    /\ ~stopped
    /\ event' = e
    /\ scrolled' = FALSE

\* The walk is at its start, where the user's own line is.
AtDraft == history_position = history_count

\* Mutant: saves the line on every step of the walk.
SavedAlways == cmd_buffer

\* current_line after the user's own line has been left.
Saved == IF AtDraft THEN cmd_buffer ELSE current_line

key_up ==
    /\ Event("UP")
    /\ IF history_position = 0
         THEN UNCHANGED <<edit, walk>>
         ELSE /\ current_line' = Saved
              /\ draft' = IF AtDraft THEN shown ELSE draft
              /\ history_position' = history_position - 1
              /\ shell_set_buffer(history_get(history_position - 1))
    /\ UNCHANGED <<ring, executed, stopped>>

key_down ==
    /\ Event("DOWN")
    /\ IF history_position >= history_count
         THEN UNCHANGED <<edit, walk>>
         ELSE /\ history_position' = history_position + 1
              /\ shell_set_buffer(IF history_position + 1 = history_count
                                    THEN current_line
                                    ELSE history_get(history_position + 1))
              /\ UNCHANGED <<current_line, draft>>
    /\ UNCHANGED <<ring, executed, stopped>>

\* Mutant: an edited line keeps its place in the walk.
KeepRecall == UNCHANGED walk

\* Editing a remembered line makes it the user's own.
LeaveRecall ==
    /\ current_line' = IF AtDraft THEN current_line ELSE cmd_buffer
    /\ history_position' = history_count
    /\ UNCHANGED draft

key_backspace ==
    /\ Event("backspace")
    /\ IF pos = 0
         THEN UNCHANGED <<edit, walk>>
         ELSE /\ LeaveRecall
              /\ pos' = pos - 1
              /\ cmd_buffer' = SubSeq(cmd_buffer, 1, pos - 1)
              /\ shown' = SubSeq(shown, 1, Len(shown) - 1)
    /\ UNCHANGED <<ring, executed, stopped>>

HasRoom == pos + 1 < CMD_BUFFER_SIZE

\* c is not NUL: the keyboard sends none, and a serial terminal is taken to
\* send none.
key_char(c) ==
    /\ Event("char")
    /\ IF ~HasRoom
         THEN UNCHANGED <<edit, walk>>
         ELSE /\ LeaveRecall
              /\ pos' = pos + 1
              /\ cmd_buffer' = Append(SubSeq(cmd_buffer, 1, pos), c)
              /\ shown' = Append(shown, c)
    /\ UNCHANGED <<ring, executed, stopped>>

\* Mutant: does not end the string where the cursor is.
EnteredUncut == cmd_buffer

\* cmd_buffer[pos] = NUL.
Entered == SubSeq(cmd_buffer, 1, pos)

\* One of the commands, or a message that there is no such command.
command_runs(cmd) ==
    /\ executed' = cmd
    /\ stopped' = (cmd \in Stopping)

\* Remember the line, parse it, execute it, and print the next prompt, unless
\* the command does not come back.
key_enter ==
    /\ Event("enter")
    /\ history_add(Entered)
    /\ command_runs(Command(Entered))
    /\ cmd_buffer' = Remains(Entered)
    /\ pos' = 0
    /\ shown' = <<>>
    /\ history_position' = history_count'
    /\ current_line' = <<>>
    /\ draft' = <<>>

Next ==
    \/ scroll_view
    \/ key_up
    \/ key_down
    \/ key_backspace
    \/ \E c \in Typed : key_char(c)
    \/ key_enter

Spec == Init /\ [][Next]_vars
-----------------------------------------------------------------------------
\* Every variable has its C type: the strings fit their buffers with the NUL,
\* and the cursor is inside the string.
TypeOK ==
    /\ {cmd_buffer, current_line} \subseteq Texts
    /\ pos \in 0 .. Len(cmd_buffer)
    /\ history \in [Slots -> Texts]
    /\ history_head \in Slots
    /\ history_count \in 0 .. HISTORY_SIZE
    /\ history_position \in 0 .. history_count
    /\ {scrolled, stopped} \subseteq BOOLEAN

\* The remembered lines, oldest first.
Remembered == [k \in 1 .. history_count |-> history_get(k - 1)]

\* The last n elements of a sequence.
LastOf(s, n) == SubSeq(s, IF Len(s) > n THEN Len(s) - n + 1 ELSE 1, Len(s))

\* A walk shows the line it has reached, and any edit of that line ends it:
\* the text on the screen is never that of one entry at the place of another,
\* and every string fits its buffer with the NUL.
RecallShowsEntry ==
    /\ TypeOK
    /\ ~AtDraft => shown = history_get(history_position)

\* What Enter executes is the first word of what the screen shows; whatever an
\* earlier command left in cmd_buffer is never executed again, and the shell
\* stops only when it is told to.
ExecutesShown ==
    [][IF event' = "enter"
         THEN executed' = Command(shown) /\ stopped' = (Command(shown) \in Stopping)
         ELSE UNCHANGED <<executed, stopped>>]_vars

\* The ring holds the lines entered last, in order, and only once what was
\* entered several times in a row; nothing but Enter changes it.
RemembersRecent ==
    [][Remembered' =
         IF event' = "enter" /\ shown # <<>> /\ LastOf(Remembered, 1) # <<shown>>
           THEN LastOf(Append(Remembered, shown), HISTORY_SIZE)
           ELSE Remembered]_vars

\* Going up into the history and down again brings back the line that was
\* being typed, if there was one.
DraftRestored ==
    [][event' = "DOWN" /\ ~AtDraft /\ AtDraft' /\ draft # <<>> => shown' = draft]_vars
=============================================================================
