--------------------------- MODULE KeyboardTyping ---------------------------
(***************************************************************************)
(* The driver of module Keyboard with the history of what the keyboard     *)
(* sent, against a definition of what a sequence of scancodes means.       *)
(***************************************************************************)
EXTENDS Keyboard

CONSTANT MaxCodes  \* bound: the scancodes sent

VARIABLE codes

allVars == <<vars, codes>>

TypingInit == Init /\ codes = <<>>

\* The k-th code belongs to the prefix before it.
IsExtended(cs, k) ==
    k > 1 /\ cs[k - 1] = KEY_EXTENDED_PREFIX /\ cs[k] # KEY_EXTENDED_PREFIX

\* The plain codes c before the k-th one, by position.
Sent(cs, k, c) == {j \in 1 .. k - 1 : cs[j] = c /\ ~IsExtended(cs, j)}

ShiftKeys == {<<KEY_LSHIFT, KEY_LSHIFT_RELEASE>>, <<KEY_RSHIFT, KEY_RSHIFT_RELEASE>>}

\* The key with this press and release code is down before the k-th code.
Held(cs, k, key) ==
    \E j \in Sent(cs, k, key[1]) : \A m \in Sent(cs, k, key[2]) : m < j

\* A keyboard reports the release of a shift key only after its press.
Type(scancode) ==
    /\ Len(codes) < MaxCodes
    /\ \A key \in ShiftKeys :
         scancode = key[2] => extended_prefix \/ Held(codes, Len(codes) + 1, key)
    /\ keyboard_process_scancode(scancode)
    /\ codes' = Append(codes, scancode)
    /\ UNCHANGED getevent

Take == keyboard_getevent /\ UNCHANGED codes

TypingNext == (\E scancode \in Scancodes : Type(scancode)) \/ Take

TypingSpec == TypingInit /\ [][TypingNext]_allVars
-----------------------------------------------------------------------------
ShiftCodes == {KEY_LSHIFT, KEY_RSHIFT, KEY_LSHIFT_RELEASE, KEY_RSHIFT_RELEASE}

\* Shift is down if the last shift code sent was a press.
ShiftDown(cs, k) ==
    \E j \in 1 .. k - 1 :
      /\ j \in Sent(cs, k, KEY_LSHIFT) \cup Sent(cs, k, KEY_RSHIFT)
      /\ \A c \in ShiftCodes : \A m \in Sent(cs, k, c) : m <= j

\* The event the k-th code means.
Meaning(cs, k) ==
    IF Released(cs[k]) THEN NoEvent
    ELSE IF IsExtended(cs, k) THEN Extended(cs[k])
    ELSE Ascii(cs[k], ShiftDown(cs, k))

\* The step queues event e if there is one and room for it, else nothing.
Queues(e) ==
    IF e = NoEvent \/ Length = INPUT_BUFFER_SIZE - 1 THEN UNCHANGED ring
    ELSE head' = NextSlot(head) /\ input_queue'[head] = e

\* Whatever came before, each scancode queues exactly the event it means: a
\* prefix acts on the next code and no further, the codes of extended keys
\* are never taken for shift keys or characters, and shift applies from the
\* press of a shift key until the release of any.
DecodesAsTyped ==
    [][codes' # codes => Queues(Meaning(codes', Len(codes')))]_allVars
=============================================================================
