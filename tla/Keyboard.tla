------------------------------ MODULE Keyboard ------------------------------
(***************************************************************************)
(* The PS/2 keyboard driver, src/keyboard.c.  keyboard_process_scancode    *)
(* runs in the interrupt handler, with interrupts disabled, and decodes    *)
(* scancodes into events that queue_event puts into a ring;                *)
(* keyboard_getevent takes them out in the main program and can be         *)
(* interrupted between any two of its accesses to the ring.                *)
(***************************************************************************)
EXTENDS Integers, Sequences

CONSTANTS
    INPUT_BUFFER_SIZE,
    Scancodes            \* the bytes the keyboard may send

KEY_LSHIFT == 42
KEY_RSHIFT == 54
KEY_EXTENDED_PREFIX == 224
KEY_LSHIFT_RELEASE == 170
KEY_RSHIFT_RELEASE == 182
KEY_ARROW_UP == 72
KEY_ARROW_LEFT == 75
KEY_ARROW_RIGHT == 77
KEY_ARROW_DOWN == 80

ASSUME SizeAssumption == INPUT_BUFFER_SIZE \in Nat \ {0, 1}
ASSUME ScancodeAssumption == Scancodes \subseteq 0 .. 255

NoEvent == "none"
Arrows == {"UP", "DOWN", "LEFT", "RIGHT"}
Chars == {"a", "A", "enter", "backspace"}
Events == Arrows \cup Chars

VARIABLES
    shift_pressed, extended_prefix,  \* kbd_state
    input_queue, head, tail,         \* the ring
    pc,                              \* where keyboard_getevent is
    event,                           \* its local
    ret                              \* what it returned last

state == <<shift_pressed, extended_prefix>>
ring == <<input_queue, head, tail>>
getevent == <<pc, event, ret>>
vars == <<state, ring, getevent>>

Slots == 0 .. INPUT_BUFFER_SIZE - 1
-----------------------------------------------------------------------------
\* The two tables of keyboard_map.h, for one key of each kind: a letter, a
\* key that is the same with shift, an unmapped key (the arrow codes without
\* their prefix lie beyond the tables).
Ascii(scancode, shifted) ==
    CASE scancode = 30 -> IF shifted THEN "A" ELSE "a"
      [] scancode = 28 -> "enter"
      [] scancode = 14 -> "backspace"
      [] OTHER -> NoEvent

\* The event of a code that follows the extended prefix.
Extended(scancode) ==
    CASE scancode = KEY_ARROW_UP -> "UP"
      [] scancode = KEY_ARROW_DOWN -> "DOWN"
      [] scancode = KEY_ARROW_LEFT -> "LEFT"
      [] scancode = KEY_ARROW_RIGHT -> "RIGHT"
      [] OTHER -> NoEvent

Released(scancode) == scancode >= 128

NextSlot(slot) == (slot + 1) % INPUT_BUFFER_SIZE

\* Mutant: lets head run into tail.
HasRoomAlways == TRUE

\* There is room as long as advancing head does not meet tail.
HasRoom == NextSlot(head) # tail

queue_event(e) ==
    IF e # NoEvent /\ HasRoom
      THEN /\ input_queue' = [input_queue EXCEPT ![head] = e]
           /\ head' = NextSlot(head)
           /\ UNCHANGED tail
      ELSE UNCHANGED ring
-----------------------------------------------------------------------------
\* The decoder before the queue: each case is one path through
\* keyboard_process_scancode, with the event it queues.
Prefix(scancode) ==
    /\ scancode = KEY_EXTENDED_PREFIX
    /\ extended_prefix' = TRUE
    /\ UNCHANGED <<shift_pressed, ring>>

\* Mutant: the prefix stays set.
PrefixKept == TRUE

\* What the code after a prefix leaves of the prefix.
PrefixUsed == FALSE

AfterPrefix(scancode) ==
    /\ scancode # KEY_EXTENDED_PREFIX /\ extended_prefix
    /\ extended_prefix' = PrefixUsed
    /\ queue_event(IF Released(scancode) THEN NoEvent ELSE Extended(scancode))
    /\ UNCHANGED shift_pressed

Shift(scancode) ==
    /\ ~extended_prefix
    /\ \/ /\ scancode \in {KEY_LSHIFT, KEY_RSHIFT}
          /\ shift_pressed' = TRUE
       \/ /\ scancode \in {KEY_LSHIFT_RELEASE, KEY_RSHIFT_RELEASE}
          /\ shift_pressed' = FALSE
    /\ UNCHANGED <<extended_prefix, ring>>

Key(scancode) ==
    /\ ~extended_prefix
    /\ scancode \notin {KEY_EXTENDED_PREFIX, KEY_LSHIFT, KEY_RSHIFT,
                        KEY_LSHIFT_RELEASE, KEY_RSHIFT_RELEASE}
    /\ queue_event(IF Released(scancode) THEN NoEvent ELSE Ascii(scancode, shift_pressed))
    /\ UNCHANGED state

keyboard_process_scancode(scancode) ==
    \/ Prefix(scancode)
    \/ AfterPrefix(scancode)
    \/ Shift(scancode)
    \/ Key(scancode)
-----------------------------------------------------------------------------
\* keyboard_reset_state; the main program has not called keyboard_getevent.
Init ==
    /\ shift_pressed = FALSE /\ extended_prefix = FALSE
    /\ input_queue = [s \in Slots |-> "a"]
    /\ head = 0 /\ tail = 0
    /\ pc = "wait"
    /\ event = "a"
    /\ ret = "a"

keyboard_handler ==
    /\ \E scancode \in Scancodes : keyboard_process_scancode(scancode)
    /\ UNCHANGED getevent

keyboard_has_input == head # tail

getevent_check ==
    /\ pc = "wait"
    /\ keyboard_has_input
    /\ pc' = "read"
    /\ UNCHANGED <<state, ring, event, ret>>

getevent_read ==
    /\ pc = "read"
    /\ event' = input_queue[tail]
    /\ pc' = "advance"
    /\ UNCHANGED <<state, ring, ret>>

getevent_advance ==
    /\ pc = "advance"
    /\ tail' = NextSlot(tail)
    /\ ret' = event
    /\ pc' = "wait"
    /\ UNCHANGED <<state, input_queue, head, event>>

keyboard_getevent == getevent_check \/ getevent_read \/ getevent_advance

Next == keyboard_handler \/ keyboard_getevent

Spec == Init /\ [][Next]_vars
-----------------------------------------------------------------------------
\* Every variable has its C type; head and tail stay inside the ring.
TypeOK ==
    /\ shift_pressed \in BOOLEAN /\ extended_prefix \in BOOLEAN
    /\ input_queue \in [Slots -> Events]
    /\ head \in Slots /\ tail \in Slots
    /\ pc \in {"wait", "read", "advance"}
    /\ event \in Events /\ ret \in Events

\* The number of events in the ring, and the k-th of them.
Length == (head - tail) % INPUT_BUFFER_SIZE
At(k) == input_queue[(tail + k - 1) % INPUT_BUFFER_SIZE]

\* The reader never sees its slot change under it: whatever the handler does
\* between the check, the read and the advance, the event in hand is the
\* oldest event of the ring; head and tail stay inside it.
ReadStable ==
    /\ TypeOK
    /\ pc # "wait" => keyboard_has_input
    /\ pc = "advance" => event = At(1)

\* The ring, shared without a lock, is the bounded first-in first-out queue:
\* nothing is reordered, duplicated or lost except at the moment it is full.
Queue == INSTANCE EventQueue WITH
    Capacity <- INPUT_BUFFER_SIZE - 1,
    queue <- [k \in 1 .. Length |-> At(k)],
    taken <- ret

ImplementsQueue == Queue!Spec
=============================================================================
