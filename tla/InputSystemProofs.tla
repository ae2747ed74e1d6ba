-------------------------- MODULE InputSystemProofs --------------------------
(***************************************************************************)
(* Proofs about the keyboard driver, for every ring size and every         *)
(* sequence of scancodes: the ring that keyboard_handler and               *)
(* keyboard_getevent share without a lock is a bounded queue, and the      *)
(* event a scancode queues is the one the codes sent so far make it mean.  *)
(* Then about the running kernel as input and time see it, for every       *)
(* number of keys, bytes and ticks as well: the interrupts are             *)
(* acknowledged once each, no key waits in the 8042 for an interrupt that  *)
(* does not come, a sleep lasts as long as asked, and the keyboard ring is *)
(* a queue in the system as it is on its own.  The history of scancodes    *)
(* that comes with KeyboardTyping plays no part in that.                   *)
(***************************************************************************)
EXTENDS InputSystem, KeyboardTyping, SequenceTheorems, TLAPS

-----------------------------------------------------------------------------
(* The arithmetic of the ring.                                             *)

\* A remainder of a number that is at most one ring away.
LEMMA Remainder ==
    ASSUME NEW a \in -INPUT_BUFFER_SIZE .. 2 * INPUT_BUFFER_SIZE - 1
    PROVE  a % INPUT_BUFFER_SIZE =
             IF a < 0 THEN a + INPUT_BUFFER_SIZE
             ELSE IF a < INPUT_BUFFER_SIZE THEN a ELSE a - INPUT_BUFFER_SIZE
  <1> DEFINE N == INPUT_BUFFER_SIZE
  <1>1. N \in Nat \ {0} /\ a \in Int /\ -N <= a /\ a < 2 * N
    BY SizeAssumption
  <1> HIDE DEF N
  <1>2. CASE a < 0
    <2>1. a % N = a + N
      BY <1>1, <1>2
    <2> QED BY <1>2, <2>1 DEF N
  <1>3. CASE 0 <= a /\ a < N
    <2>1. a % N = a
      BY <1>1, <1>3
    <2> QED BY <1>1, <1>3, <2>1 DEF N
  <1>4. CASE N <= a
    <2>1. a % N = a - N
      BY <1>1, <1>4
    <2> QED BY <1>1, <1>4, <2>1 DEF N
  <1> QED BY <1>1, <1>2, <1>3, <1>4

\* The slot after a slot: the next one, or the first after the last.
LEMMA NextSlotIs ==
    ASSUME NEW s \in Slots
    PROVE  /\ NextSlot(s) \in Slots
           /\ NextSlot(s) = IF s + 1 = INPUT_BUFFER_SIZE THEN 0 ELSE s + 1
  <1> DEFINE a == s + 1
  <1>1. a \in -INPUT_BUFFER_SIZE .. 2 * INPUT_BUFFER_SIZE - 1
    BY SizeAssumption DEF Slots
  <1>2. NextSlot(s) = a % INPUT_BUFFER_SIZE
    BY DEF NextSlot
  <1> HIDE DEF a
  <1>3. NextSlot(s) = IF a < 0 THEN a + INPUT_BUFFER_SIZE
                      ELSE IF a < INPUT_BUFFER_SIZE THEN a ELSE a - INPUT_BUFFER_SIZE
    BY <1>1, <1>2, Remainder
  <1> QED BY <1>3, SizeAssumption DEF a, Slots

\* The number of events between two slots of the ring.
Distance(from, to) == IF from <= to THEN to - from ELSE to - from + INPUT_BUFFER_SIZE

\* The slot k places after a slot.
Ahead(s, k) == IF s + k < INPUT_BUFFER_SIZE THEN s + k ELSE s + k - INPUT_BUFFER_SIZE

\* Length counts the slots from tail up to head, and the k-th event stands
\* k - 1 slots after tail.
LEMMA RingIs ==
    TypeOK => /\ Length \in 0 .. INPUT_BUFFER_SIZE - 1
              /\ Length = Distance(tail, head)
              /\ \A k \in 1 .. INPUT_BUFFER_SIZE :
                   /\ Ahead(tail, k - 1) \in Slots
                   /\ At(k) = input_queue[Ahead(tail, k - 1)]
              /\ At(1) = input_queue[tail]
  <1> SUFFICES ASSUME TypeOK
               PROVE  /\ Length \in 0 .. INPUT_BUFFER_SIZE - 1
                      /\ Length = Distance(tail, head)
                      /\ \A k \in 1 .. INPUT_BUFFER_SIZE :
                           /\ Ahead(tail, k - 1) \in Slots
                           /\ At(k) = input_queue[Ahead(tail, k - 1)]
                      /\ At(1) = input_queue[tail]
    OBVIOUS
  <1>1. head - tail \in -INPUT_BUFFER_SIZE .. 2 * INPUT_BUFFER_SIZE - 1
    BY SizeAssumption DEF TypeOK, Slots
  <1>2. Length \in 0 .. INPUT_BUFFER_SIZE - 1 /\ Length = Distance(tail, head)
    <2> DEFINE a == head - tail
    <2>1. Length = a % INPUT_BUFFER_SIZE
      BY DEF Length
    <2> HIDE DEF a
    <2>2. Length = IF a < 0 THEN a + INPUT_BUFFER_SIZE
                   ELSE IF a < INPUT_BUFFER_SIZE THEN a ELSE a - INPUT_BUFFER_SIZE
      BY <1>1, <2>1, Remainder DEF a
    <2> QED BY <2>2, SizeAssumption DEF a, TypeOK, Slots, Distance
  <1>3. ASSUME NEW k \in 1 .. INPUT_BUFFER_SIZE
        PROVE  /\ Ahead(tail, k - 1) \in Slots
               /\ At(k) = input_queue[Ahead(tail, k - 1)]
    <2> DEFINE a == tail + k - 1
    <2>1. a \in -INPUT_BUFFER_SIZE .. 2 * INPUT_BUFFER_SIZE - 1
      BY SizeAssumption DEF TypeOK, Slots
    <2>2. At(k) = input_queue[a % INPUT_BUFFER_SIZE]
      BY DEF At
    <2> HIDE DEF a
    <2>3. a % INPUT_BUFFER_SIZE =
            IF a < 0 THEN a + INPUT_BUFFER_SIZE
            ELSE IF a < INPUT_BUFFER_SIZE THEN a ELSE a - INPUT_BUFFER_SIZE
      BY <2>1, Remainder
    <2>4. a % INPUT_BUFFER_SIZE = Ahead(tail, k - 1) /\ Ahead(tail, k - 1) \in Slots
      BY <2>3, SizeAssumption DEF a, TypeOK, Slots, Ahead
    <2> QED BY <2>2, <2>4
  <1>4. Ahead(tail, 1 - 1) = tail
    BY SizeAssumption DEF Ahead, TypeOK, Slots
  <1>5. At(1) = input_queue[tail]
    BY <1>3, <1>4, SizeAssumption
  <1> QED BY <1>2, <1>3, <1>5

\* The same of the next state.
LEMMA RingIsNext ==
    TypeOK' => /\ Length' \in 0 .. INPUT_BUFFER_SIZE - 1
               /\ Length' = Distance(tail', head')
               /\ \A k \in 1 .. INPUT_BUFFER_SIZE :
                    /\ Ahead(tail', k - 1) \in Slots
                    /\ At(k)' = input_queue'[Ahead(tail', k - 1)]
               /\ At(1)' = input_queue'[tail']
  <1>1. (TypeOK => /\ Length \in 0 .. INPUT_BUFFER_SIZE - 1
                   /\ Length = Distance(tail, head)
                   /\ \A k \in 1 .. INPUT_BUFFER_SIZE :
                        /\ Ahead(tail, k - 1) \in Slots
                        /\ At(k) = input_queue[Ahead(tail, k - 1)]
                   /\ At(1) = input_queue[tail])'
    BY RingIs, PTL
  <1> QED BY <1>1
-----------------------------------------------------------------------------
(* ReadStable is inductive.                                                *)

\* What the decoder makes of a scancode is an event or nothing.
LEMMA DecodedType ==
    ASSUME NEW scancode, NEW shifted
    PROVE  /\ Ascii(scancode, shifted) \in Events \cup {NoEvent}
           /\ Extended(scancode) \in Events \cup {NoEvent}
  BY DEF Ascii, Extended, Events, Chars, Arrows

\* keyboard_process_scancode queues at most one event, and the reader's part
\* of the ring is not its concern.
LEMMA ScancodeQueues ==
    ASSUME TypeOK, NEW scancode, keyboard_process_scancode(scancode)
    PROVE  /\ shift_pressed' \in BOOLEAN /\ extended_prefix' \in BOOLEAN
           /\ \/ UNCHANGED ring
              \/ \E e \in Events : HasRoom /\ queue_event(e)
  <1> DEFINE AtMost(e) == UNCHANGED ring \/ (e \in Events /\ HasRoom /\ queue_event(e))
  <1>1. ASSUME NEW e \in Events \cup {NoEvent}, queue_event(e)
        PROVE  AtMost(e)
    BY <1>1 DEF queue_event
  <1>2. CASE Prefix(scancode)
    BY <1>2 DEF Prefix, TypeOK
  <1>3. CASE AfterPrefix(scancode)
    <2>1. PICK e \in Events \cup {NoEvent} : queue_event(e)
      BY <1>3, DecodedType DEF AfterPrefix
    <2>2. shift_pressed' \in BOOLEAN /\ extended_prefix' \in BOOLEAN
      BY <1>3 DEF AfterPrefix, PrefixUsed, TypeOK
    <2> QED BY <1>1, <2>1, <2>2
  <1>4. CASE Shift(scancode)
    BY <1>4 DEF Shift, TypeOK
  <1>5. CASE Key(scancode)
    <2>1. PICK e \in Events \cup {NoEvent} : queue_event(e)
      BY <1>5, DecodedType DEF Key
    <2>2. shift_pressed' \in BOOLEAN /\ extended_prefix' \in BOOLEAN
      BY <1>5 DEF Key, state, TypeOK
    <2> QED BY <1>1, <2>1, <2>2
  <1> QED BY <1>2, <1>3, <1>4, <1>5 DEF keyboard_process_scancode

\* queue_event writes a slot that is not the reader's and keeps the ring typed.
LEMMA QueueEventStable ==
    ASSUME TypeOK, NEW e \in Events, HasRoom, queue_event(e)
    PROVE  /\ input_queue' = [input_queue EXCEPT ![head] = e]
           /\ input_queue' \in [Slots -> Events]
           /\ head' = NextSlot(head) /\ head' \in Slots /\ tail' = tail
           /\ head' # tail'
  <1>1. /\ input_queue' = [input_queue EXCEPT ![head] = e]
        /\ head' = NextSlot(head) /\ tail' = tail
    BY DEF queue_event, NoEvent, Events, Arrows, Chars
  <1> QED BY <1>1, NextSlotIs DEF TypeOK, HasRoom

\* The handler's part: the event in the reader's hand stays the oldest.
LEMMA HandlerStable ==
    ASSUME ReadStable, NEW scancode, keyboard_process_scancode(scancode),
           UNCHANGED getevent
    PROVE  ReadStable'
  <1> USE DEF ReadStable, getevent
  <1>1. CASE UNCHANGED ring
    <2>1. TypeOK'
      BY <1>1, ScancodeQueues DEF ring, TypeOK
    <2> QED BY <1>1, <2>1 DEF ring, keyboard_has_input, At
  <1>2. ASSUME NEW e \in Events, HasRoom, queue_event(e)
        PROVE  ReadStable'
    <2>1. TypeOK'
      BY <1>2, QueueEventStable, ScancodeQueues DEF TypeOK
    <2>2. pc' # "wait" => keyboard_has_input'
      BY <1>2, QueueEventStable DEF keyboard_has_input
    <2>3. ASSUME pc' = "advance" PROVE event' = At(1)'
      <3>1. head # tail /\ event = input_queue[tail]
        BY <2>3, RingIs DEF keyboard_has_input
      <3>2. input_queue'[tail] = event
        BY <1>2, <3>1, QueueEventStable DEF TypeOK
      <3>3. At(1)' = input_queue'[tail']
        BY <2>1, RingIsNext
      <3> QED BY <1>2, <3>2, <3>3, QueueEventStable
    <2> QED BY <2>1, <2>2, <2>3
  <1> QED BY <1>1, <1>2, ScancodeQueues

\* The reader's part: it takes the oldest event, and only if there is one.
LEMMA ReaderStable ==
    ASSUME ReadStable, keyboard_getevent
    PROVE  ReadStable'
  <1> USE DEF ReadStable
  <1>1. CASE getevent_check
    BY <1>1 DEF getevent_check, state, ring, TypeOK, keyboard_has_input, At
  <1>2. CASE getevent_read
    <2>1. event' = At(1) /\ event' \in Events
      BY <1>2, RingIs DEF getevent_read, TypeOK
    <2> QED BY <1>2, <2>1 DEF getevent_read, state, ring, TypeOK, keyboard_has_input, At
  <1>3. CASE getevent_advance
    BY <1>3, NextSlotIs DEF getevent_advance, state, TypeOK
  <1> QED BY <1>1, <1>2, <1>3 DEF keyboard_getevent

\* ReadStable, which holds the types, is inductive.
LEMMA Inductive ==
    ASSUME ReadStable, [Next]_vars
    PROVE  ReadStable'
  <1>1. CASE keyboard_handler
    BY <1>1, HandlerStable DEF keyboard_handler
  <1>2. CASE keyboard_getevent
    BY <1>2, ReaderStable
  <1>3. CASE UNCHANGED vars
    BY <1>3 DEF vars, state, ring, getevent, ReadStable, TypeOK, keyboard_has_input, At
  <1> QED BY <1>1, <1>2, <1>3 DEF Next

\* The driver starts with an empty ring and no reader.
LEMMA Initially == Init => ReadStable
  <1> SUFFICES ASSUME Init PROVE ReadStable
    OBVIOUS
  <1>1. "a" \in Events /\ 0 \in Slots
    BY SizeAssumption DEF Events, Chars, Slots
  <1>2. input_queue \in [Slots -> Events]
    BY <1>1 DEF Init
  <1> QED BY <1>1, <1>2 DEF Init, ReadStable, TypeOK

\* Whatever the interrupt handler does between the reader's steps, the reader
\* of keyboard_getevent has the oldest event in hand; no index leaves the ring.
THEOREM Stable == Spec => []ReadStable
  <1>1. Init => ReadStable
    BY Initially
  <1>2. ReadStable /\ [Next]_vars => ReadStable'
    BY Inductive
  <1> QED BY <1>1, <1>2, PTL DEF Spec
-----------------------------------------------------------------------------
(* The ring implements the queue.                                          *)

\* The events of the ring, oldest first: what the refinement shows as queue.
Contents == [k \in 1 .. Length |-> At(k)]

\* The ring's contents are a sequence of events.
LEMMA ContentsType ==
    TypeOK => /\ Contents \in Seq(Events)
              /\ Len(Contents) = Length
              /\ \A k \in 1 .. Length : Contents[k] = At(k)
  <1> SUFFICES ASSUME TypeOK
               PROVE  /\ Contents \in Seq(Events)
                      /\ Len(Contents) = Length
                      /\ \A k \in 1 .. Length : Contents[k] = At(k)
    OBVIOUS
  <1>1. Length \in Nat /\ \A k \in 1 .. Length : At(k) \in Events
    BY RingIs, SizeAssumption DEF TypeOK
  <1> QED BY <1>1 DEF Contents

\* The same of the next state.
LEMMA ContentsTypeNext ==
    TypeOK' => /\ Contents' \in Seq(Events)
               /\ Len(Contents') = Length'
               /\ \A k \in 1 .. Length' : Contents'[k] = At(k)'
  <1>1. (TypeOK => /\ Contents \in Seq(Events)
                   /\ Len(Contents) = Length
                   /\ \A k \in 1 .. Length : Contents[k] = At(k))'
    BY ContentsType, PTL
  <1> QED BY <1>1

\* queue_event with room appends to the contents.
LEMMA PutRefines ==
    ASSUME TypeOK, TypeOK', NEW e \in Events, HasRoom, queue_event(e)
    PROVE  Length < INPUT_BUFFER_SIZE - 1 /\ Contents' = Append(Contents, e)
  <1> USE SizeAssumption
  <1>1. /\ input_queue' = [input_queue EXCEPT ![head] = e]
        /\ head' = NextSlot(head) /\ tail' = tail /\ head' # tail
    BY QueueEventStable
  <1>2. /\ head \in Slots /\ tail \in Slots
        /\ head' = IF head + 1 = INPUT_BUFFER_SIZE THEN 0 ELSE head + 1
    BY <1>1, NextSlotIs DEF TypeOK
  <1>3. Length' = Length + 1 /\ Length \in Nat /\ Length < INPUT_BUFFER_SIZE - 1
    BY <1>1, <1>2, RingIs, RingIsNext DEF Distance, Slots
  <1>4. ASSUME NEW k \in 1 .. Length
        PROVE  At(k)' = At(k)
    <2>1. k \in 1 .. INPUT_BUFFER_SIZE
      BY <1>3, <1>4
    <2>2. Ahead(tail, k - 1) # head
      BY <1>2, <1>3, <2>1, RingIs DEF Ahead, Distance, Slots
    <2>3. At(k) = input_queue[Ahead(tail, k - 1)] /\ Ahead(tail, k - 1) \in Slots
      BY <2>1, RingIs
    <2>4. At(k)' = input_queue'[Ahead(tail, k - 1)]
      BY <1>1, <2>1, RingIsNext
    <2> QED BY <1>1, <2>2, <2>3, <2>4 DEF TypeOK
  <1>5. PICK n \in Nat : n = Length
    BY <1>3
  <1>6. At(n + 1)' = e
    <2>1. n + 1 \in 1 .. INPUT_BUFFER_SIZE /\ n + 1 - 1 = n
      BY <1>3, <1>5
    <2>2. Ahead(tail, n) = head
      BY <1>2, <1>3, <1>5, RingIs DEF Ahead, Distance, Slots
    <2>3. At(n + 1)' = input_queue'[Ahead(tail, n)]
      BY <1>1, <2>1, RingIsNext
    <2> QED BY <1>1, <1>2, <2>2, <2>3 DEF TypeOK
  <1>7. /\ Contents \in Seq(Events) /\ Len(Contents) = n
        /\ \A k \in 1 .. n : Contents[k] = At(k)
    BY <1>5, ContentsType
  <1>8. /\ Contents' \in Seq(Events) /\ Len(Contents') = n + 1
        /\ \A k \in 1 .. n + 1 : Contents'[k] = IF k <= n THEN Contents[k] ELSE e
    <2>1. /\ Contents' \in Seq(Events) /\ Len(Contents') = n + 1
          /\ \A k \in 1 .. n + 1 : Contents'[k] = At(k)'
      BY <1>3, <1>5, ContentsTypeNext
    <2>2. \A k \in 1 .. n + 1 : At(k)' = IF k <= n THEN Contents[k] ELSE e
      BY <1>4, <1>5, <1>6, <1>7
    <2> QED BY <2>1, <2>2
  <1>9. /\ Append(Contents, e) \in Seq(Events) /\ Len(Append(Contents, e)) = n + 1
        /\ \A k \in 1 .. n + 1 : Append(Contents, e)[k] = IF k <= n THEN Contents[k] ELSE e
    BY <1>7
  <1>10. Contents' = Append(Contents, e)
    BY <1>8, <1>9, SeqEqual
  <1> QED BY <1>3, <1>10

\* The reader's last step takes the first of the contents.
LEMMA GetRefines ==
    ASSUME ReadStable, TypeOK', getevent_advance
    PROVE  /\ Contents # <<>>
           /\ ret' = Head(Contents)
           /\ Contents' = Tail(Contents)
  <1> USE SizeAssumption
  <1>1. /\ TypeOK /\ head # tail /\ event = At(1)
        /\ tail' = NextSlot(tail) /\ head' = head
        /\ input_queue' = input_queue /\ ret' = event
    BY DEF ReadStable, getevent_advance, keyboard_has_input
  <1>2. /\ head \in Slots /\ tail \in Slots
        /\ tail' = IF tail + 1 = INPUT_BUFFER_SIZE THEN 0 ELSE tail + 1
    BY <1>1, NextSlotIs DEF TypeOK
  <1>3. Length' = Length - 1 /\ Length \in Nat \ {0} /\ Length < INPUT_BUFFER_SIZE
    BY <1>1, <1>2, RingIs, RingIsNext DEF Distance, Slots
  <1>4. PICK n \in Nat : n + 1 = Length
    BY <1>3
  <1>5. ASSUME NEW k \in 1 .. n
        PROVE  At(k)' = At(k + 1)
    <2>1. k \in 1 .. INPUT_BUFFER_SIZE /\ k + 1 \in 1 .. INPUT_BUFFER_SIZE
      BY <1>3, <1>4
    <2>2. Ahead(tail', k - 1) = Ahead(tail, k + 1 - 1)
      BY <1>2, <1>3, <1>4, <2>1 DEF Ahead, Slots
    <2>3. At(k + 1) = input_queue[Ahead(tail, k + 1 - 1)]
      BY <1>1, <2>1, RingIs
    <2>4. At(k)' = input_queue'[Ahead(tail', k - 1)]
      BY <2>1, RingIsNext
    <2> QED BY <1>1, <2>2, <2>3, <2>4
  <1>6. /\ Contents \in Seq(Events) /\ Len(Contents) = n + 1
        /\ \A k \in 1 .. n + 1 : Contents[k] = At(k)
    BY <1>1, <1>4, ContentsType
  <1>7. /\ Contents' \in Seq(Events) /\ Len(Contents') = n
        /\ \A k \in 1 .. n : Contents'[k] = Contents[k + 1]
    <2>1. /\ Contents' \in Seq(Events) /\ Len(Contents') = n
          /\ \A k \in 1 .. n : Contents'[k] = At(k)'
      BY <1>3, <1>4, ContentsTypeNext
    <2>2. \A k \in 1 .. n : At(k)' = Contents[k + 1]
      BY <1>5, <1>6
    <2> QED BY <2>1, <2>2
  <1>8. Contents # <<>> /\ Head(Contents) = Contents[1]
    BY <1>6
  <1>9. /\ Tail(Contents) \in Seq(Events) /\ Len(Tail(Contents)) = n
        /\ \A k \in 1 .. n : Tail(Contents)[k] = Contents[k + 1]
    BY <1>6, <1>8, HeadTailProperties
  <1>10. Contents' = Tail(Contents)
    BY <1>7, <1>9, SeqEqual
  <1> QED BY <1>1, <1>6, <1>8, <1>10

\* A step that leaves the ring and the reader's result alone leaves the queue
\* alone.
LEMMA RestRefines ==
    ASSUME UNCHANGED <<ring, ret>>
    PROVE  UNCHANGED Queue!vars
  BY DEF ring, Queue!vars, Length, At

\* The handler puts at most one event, at the end.
LEMMA HandlerRefines ==
    ASSUME ReadStable, ReadStable',
           NEW scancode, keyboard_process_scancode(scancode), UNCHANGED getevent
    PROVE  [Queue!Next]_(Queue!vars)
  <1>1. TypeOK /\ TypeOK'
    BY DEF ReadStable
  <1>2. CASE UNCHANGED ring
    BY <1>2, RestRefines DEF getevent
  <1>3. ASSUME NEW e \in Events, HasRoom, queue_event(e)
        PROVE  [Queue!Next]_(Queue!vars)
    <2>1. Length < INPUT_BUFFER_SIZE - 1 /\ Contents' = Append(Contents, e)
      BY <1>1, <1>3, PutRefines
    <2>2. Len(Contents) = Length
      BY <1>1, ContentsType
    <2>3. Queue!Put(e)
      BY <2>1, <2>2 DEF Queue!Put, Contents, getevent
    <2> QED BY <2>3 DEF Queue!Next
  <1> QED BY <1>1, <1>2, <1>3, ScancodeQueues

\* The reader takes the first event, in its last step.
LEMMA ReaderRefines ==
    ASSUME ReadStable, ReadStable', keyboard_getevent
    PROVE  [Queue!Next]_(Queue!vars)
  <1>1. CASE getevent_advance
    <2>1. Queue!Get
      BY <1>1, GetRefines DEF Queue!Get, Contents, ReadStable
    <2> QED BY <2>1 DEF Queue!Next
  <1>2. CASE getevent_check \/ getevent_read
    BY <1>2, RestRefines DEF getevent_check, getevent_read
  <1> QED BY <1>1, <1>2 DEF keyboard_getevent

\* Every step of the driver is a step of the queue or leaves it alone.
LEMMA NextRefines ==
    ASSUME ReadStable, ReadStable', [Next]_vars
    PROVE  [Queue!Next]_(Queue!vars)
  <1>1. CASE keyboard_handler
    BY <1>1, HandlerRefines DEF keyboard_handler
  <1>2. CASE keyboard_getevent
    BY <1>2, ReaderRefines
  <1>3. CASE UNCHANGED vars
    BY <1>3, RestRefines DEF vars, getevent
  <1> QED BY <1>1, <1>2, <1>3 DEF Next

\* The empty ring is the empty queue.
LEMMA InitRefines == Init => Queue!Init
  <1> SUFFICES ASSUME Init PROVE Queue!Init
    OBVIOUS
  <1>1. TypeOK /\ ret \in Events
    BY Initially DEF ReadStable, TypeOK
  <1>2. Length = 0
    BY <1>1, RingIs DEF Distance, Init
  <1>3. Contents = <<>>
    BY <1>2 DEF Contents
  <1> QED BY <1>1, <1>3 DEF Queue!Init, Contents

\* keyboard.c implements the bounded first-in first-out queue without a lock:
\* nothing is reordered, duplicated or lost except when the ring is full.
THEOREM Refinement == Spec => ImplementsQueue
  <1>1. Init => Queue!Init
    BY InitRefines
  <1>2. ReadStable /\ ReadStable' /\ [Next]_vars => [Queue!Next]_(Queue!vars)
    BY NextRefines
  <1> QED BY <1>1, <1>2, Stable, PTL DEF Spec, ImplementsQueue, Queue!Spec

-----------------------------------------------------------------------------
(* What the decoder makes of the codes sent so far.                        *)

\* The last code sent is the extended prefix.
Prefixed(cs) == Len(cs) > 0 /\ cs[Len(cs)] = KEY_EXTENDED_PREFIX

\* The two flags of the decoder are functions of the codes sent.
DecodeInv ==
    /\ ReadStable
    /\ codes \in Seq(Nat)
    /\ extended_prefix <=> Prefixed(codes)
    /\ shift_pressed <=> ShiftDown(codes, Len(codes) + 1)

\* The k-th code is c, after the n codes of cs.
Follows(cs, n, c, ds, k) ==
    /\ cs \in Seq(Nat) /\ n \in Nat /\ n = Len(cs)
    /\ c \in Nat /\ ds = Append(cs, c) /\ k \in Nat /\ k = n + 1

\* One more code does not change what the codes before it were.
LEMMA Earlier ==
    ASSUME NEW cs, NEW n, NEW c, NEW ds, NEW k, Follows(cs, n, c, ds, k)
    PROVE  /\ \A j \in 1 .. n : ds[j] = cs[j] /\ (IsExtended(ds, j) <=> IsExtended(cs, j))
           /\ ds[k] = c /\ Len(ds) = k /\ ds \in Seq(Nat)
           /\ IsExtended(ds, k) <=> Prefixed(cs) /\ c # KEY_EXTENDED_PREFIX
  <1>1. /\ \A j \in 1 .. n : ds[j] = cs[j]
        /\ ds[k] = c /\ Len(ds) = k /\ ds \in Seq(Nat)
        /\ n \in Nat /\ n = Len(cs) /\ k = n + 1
    BY DEF Follows
  <1>2. ASSUME NEW j \in 1 .. n PROVE IsExtended(ds, j) <=> IsExtended(cs, j)
    <2>1. ds[j] = cs[j]
      BY <1>1
    <2>2. CASE j > 1
      <3>1. PICK i \in 1 .. n : i = j - 1
        BY <1>1, <2>2
      <3>2. ds[i] = cs[i]
        BY <1>1
      <3> QED BY <2>1, <3>1, <3>2 DEF IsExtended
    <2>3. CASE ~(j > 1)
      BY <2>3 DEF IsExtended
    <2> QED BY <2>2, <2>3
  <1>3. IsExtended(ds, k) <=> Prefixed(cs) /\ c # KEY_EXTENDED_PREFIX
    <2>1. k - 1 = n /\ (k > 1 <=> n > 0)
      BY <1>1
    <2>2. n > 0 => ds[n] = cs[n]
      BY <1>1
    <2> QED BY <1>1, <2>1, <2>2 DEF IsExtended, Prefixed
  <1> QED BY <1>1, <1>2, <1>3

\* The plain codes d that were sent before.
LEMMA SentBefore ==
    ASSUME NEW cs, NEW n, NEW c, NEW ds, NEW k, Follows(cs, n, c, ds, k), NEW d
    PROVE  /\ Sent(ds, k, d) = Sent(cs, k, d) /\ Sent(cs, k, d) \subseteq 1 .. n
           /\ Sent(ds, k + 1, d) =
                IF c = d /\ ~IsExtended(ds, k) THEN Sent(cs, k, d) \cup {k} ELSE Sent(cs, k, d)
  <1>1. /\ \A j \in 1 .. n : ds[j] = cs[j] /\ (IsExtended(ds, j) <=> IsExtended(cs, j))
        /\ ds[k] = c /\ n \in Nat /\ k = n + 1
    <2>1. n \in Nat /\ k = n + 1
      BY DEF Follows
    <2>2. /\ \A j \in 1 .. n : ds[j] = cs[j] /\ (IsExtended(ds, j) <=> IsExtended(cs, j))
          /\ ds[k] = c
      BY Earlier, Zenon
    <2> QED BY <2>1, <2>2, Zenon
  <1>2. 1 .. k - 1 = 1 .. n /\ 1 .. (k + 1) - 1 = (1 .. n) \cup {k}
    BY <1>1
  <1>3. Sent(cs, k, d) = {j \in 1 .. n : cs[j] = d /\ ~IsExtended(cs, j)}
    BY <1>2 DEF Sent
  <1>4. Sent(ds, k, d) = {j \in 1 .. n : ds[j] = d /\ ~IsExtended(ds, j)}
    BY <1>2 DEF Sent
  <1>5. Sent(ds, k + 1, d) = {j \in (1 .. n) \cup {k} : ds[j] = d /\ ~IsExtended(ds, j)}
    BY <1>2 DEF Sent
  <1>6. Sent(ds, k, d) = Sent(cs, k, d)
    BY <1>1, <1>3, <1>4
  <1>7. Sent(cs, k, d) \subseteq 1 .. n /\ k \notin 1 .. n
    BY <1>1, <1>3
  <1>8. Sent(ds, k + 1, d) =
          IF c = d /\ ~IsExtended(ds, k) THEN Sent(cs, k, d) \cup {k} ELSE Sent(cs, k, d)
    <2>1. CASE c = d /\ ~IsExtended(ds, k)
      BY <1>1, <1>3, <1>5, <1>7, <2>1
    <2>2. CASE ~(c = d /\ ~IsExtended(ds, k))
      BY <1>1, <1>3, <1>5, <1>7, <2>2
    <2> QED BY <2>1, <2>2
  <1> QED BY <1>6, <1>7, <1>8

\* What one more code does to the shift state.
LEMMA ShiftChanges ==
    ASSUME NEW cs, NEW n \in Nat, NEW c, NEW ds, NEW k \in Nat, Follows(cs, n, c, ds, k)
    PROVE  /\ ShiftDown(ds, k) <=> ShiftDown(cs, k)
           /\ ShiftDown(ds, k + 1) <=>
                IF IsExtended(ds, k) THEN ShiftDown(cs, k)
                ELSE c \in {KEY_LSHIFT, KEY_RSHIFT}
                       \/ (c \notin ShiftCodes /\ ShiftDown(cs, k))
  <1> DEFINE Down(S) ==
        \E j \in S[KEY_LSHIFT] \cup S[KEY_RSHIFT] :
          \A d \in ShiftCodes : \A m \in S[d] : m <= j
  <1> k = n + 1
    BY DEF Follows
  <1>1. PICK S : S = [d \in ShiftCodes |-> Sent(cs, k, d)]
    OBVIOUS
  <1>2. PICK T : T = [d \in ShiftCodes |-> Sent(ds, k + 1, d)]
    OBVIOUS
  <1>3. \A d \in ShiftCodes :
          /\ Sent(ds, k, d) = S[d] /\ Sent(cs, k, d) = S[d] /\ S[d] \subseteq 1 .. n
          /\ Sent(ds, k + 1, d) = T[d]
          /\ T[d] = IF c = d /\ ~IsExtended(ds, k) THEN S[d] \cup {k} ELSE S[d]
    <2> SUFFICES ASSUME NEW d \in ShiftCodes
        PROVE  /\ Sent(ds, k, d) = S[d] /\ Sent(cs, k, d) = S[d] /\ S[d] \subseteq 1 .. n
               /\ Sent(ds, k + 1, d) = T[d]
               /\ T[d] = IF c = d /\ ~IsExtended(ds, k) THEN S[d] \cup {k} ELSE S[d]
      OBVIOUS
    <2>1. /\ Sent(ds, k, d) = Sent(cs, k, d) /\ Sent(cs, k, d) \subseteq 1 .. n
          /\ Sent(ds, k + 1, d) =
               IF c = d /\ ~IsExtended(ds, k) THEN Sent(cs, k, d) \cup {k} ELSE Sent(cs, k, d)
      BY SentBefore
    <2>2. S[d] = Sent(cs, k, d) /\ T[d] = Sent(ds, k + 1, d)
      BY <1>1, <1>2
    <2> QED BY <2>1, <2>2
  <1>4. KEY_LSHIFT \in ShiftCodes /\ KEY_RSHIFT \in ShiftCodes
    BY DEF ShiftCodes
  <1>5. ShiftDown(cs, k) <=> Down(S)
    <2>1. 1 .. k - 1 = 1 .. n
      OBVIOUS
    <2> QED BY <1>3, <1>4, <2>1 DEF ShiftDown
  <1>6. ShiftDown(ds, k) <=> Down(S)
    <2>1. 1 .. k - 1 = 1 .. n
      OBVIOUS
    <2> QED BY <1>3, <1>4, <2>1 DEF ShiftDown
  <1>7. ShiftDown(ds, k + 1) <=> Down(T)
    <2>1. 1 .. (k + 1) - 1 = (1 .. n) \cup {k}
      OBVIOUS
    <2>2. \A d \in ShiftCodes : T[d] \subseteq (1 .. n) \cup {k}
      BY <1>3
    <2>3. \A d \in ShiftCodes : Sent(ds, k + 1, d) = T[d]
      BY <1>3
    <2>4. ShiftDown(ds, k + 1) <=>
            \E j \in (1 .. n) \cup {k} :
              /\ j \in Sent(ds, k + 1, KEY_LSHIFT) \cup Sent(ds, k + 1, KEY_RSHIFT)
              /\ \A d \in ShiftCodes : \A m \in Sent(ds, k + 1, d) : m <= j
      BY <2>1 DEF ShiftDown
    <2> QED BY <1>4, <2>2, <2>3, <2>4
  <1>8. CASE IsExtended(ds, k) \/ c \notin ShiftCodes
    <2>1. \A d \in ShiftCodes : T[d] = S[d]
      BY <1>3, <1>8
    <2>2. Down(T) <=> Down(S)
      BY <1>4, <2>1
    <2>3. c \notin {KEY_LSHIFT, KEY_RSHIFT} \/ IsExtended(ds, k)
      BY <1>4, <1>8
    <2> HIDE DEF Down
    <2> QED BY <1>5, <1>6, <1>7, <1>8, <2>2, <2>3
  <1>9. CASE ~IsExtended(ds, k) /\ c \in {KEY_LSHIFT, KEY_RSHIFT}
    <2>1. c \in ShiftCodes /\ k \in T[c] /\ \A d \in ShiftCodes : T[d] \subseteq 1 .. k
      <3>1. c \in ShiftCodes
        BY <1>4, <1>9
      <3>2. k \in T[c]
        BY <1>3, <1>9, <3>1
      <3>3. ASSUME NEW d \in ShiftCodes PROVE T[d] \subseteq 1 .. k
        <4>1. T[d] \subseteq S[d] \cup {k} /\ S[d] \subseteq 1 .. n
          BY <1>3
        <4>2. 1 .. n \subseteq 1 .. k /\ k \in 1 .. k
          OBVIOUS
        <4> QED BY <4>1, <4>2
      <3> QED BY <3>1, <3>2, <3>3
    <2>2. \A d \in ShiftCodes : \A m \in T[d] : m <= k
      BY <2>1
    <2>3. Down(T)
      BY <1>9, <2>1, <2>2
    <2> HIDE DEF Down
    <2> QED BY <1>5, <1>6, <1>7, <1>9, <2>3
  <1>10. CASE ~IsExtended(ds, k) /\ c \in {KEY_LSHIFT_RELEASE, KEY_RSHIFT_RELEASE}
    <2>1. c \in ShiftCodes /\ c # KEY_LSHIFT /\ c # KEY_RSHIFT
      BY <1>10 DEF ShiftCodes, KEY_LSHIFT, KEY_RSHIFT, KEY_LSHIFT_RELEASE, KEY_RSHIFT_RELEASE
    <2>2. /\ k \in T[c] /\ T[KEY_LSHIFT] \subseteq 1 .. n /\ T[KEY_RSHIFT] \subseteq 1 .. n
      BY <1>3, <1>4, <1>10, <2>1
    <2>3. ASSUME NEW j \in T[KEY_LSHIFT] \cup T[KEY_RSHIFT] PROVE ~(k <= j)
      BY <2>2
    <2>4. ~Down(T)
      BY <2>1, <2>2, <2>3
    <2> HIDE DEF Down
    <2> QED BY <1>5, <1>6, <1>7, <1>10, <2>1, <2>4
  <1> QED BY <1>8, <1>9, <1>10 DEF ShiftCodes

\* queue_event drops an event when the ring is full, and only then.
LEMMA RoomIs == TypeOK => (HasRoom <=> Length # INPUT_BUFFER_SIZE - 1)
  <1> SUFFICES ASSUME TypeOK PROVE HasRoom <=> Length # INPUT_BUFFER_SIZE - 1
    OBVIOUS
  <1>1. head \in Slots /\ tail \in Slots
    BY DEF TypeOK
  <1>2. NextSlot(head) = IF head + 1 = INPUT_BUFFER_SIZE THEN 0 ELSE head + 1
    BY <1>1, NextSlotIs
  <1>3. Length = Distance(tail, head)
    BY RingIs
  <1> QED BY <1>1, <1>2, <1>3, SizeAssumption DEF HasRoom, Distance, Slots

LEMMA QueuesIt ==
    ASSUME TypeOK, NEW e, queue_event(e)
    PROVE  Queues(e)
  <1>1. HasRoom <=> Length # INPUT_BUFFER_SIZE - 1
    BY RoomIs
  <1>2. CASE e # NoEvent /\ HasRoom
    <2>1. input_queue' = [input_queue EXCEPT ![head] = e] /\ head' = NextSlot(head)
      BY <1>2 DEF queue_event
    <2>2. input_queue'[head] = e
      BY <2>1 DEF TypeOK
    <2> QED BY <1>1, <1>2, <2>1, <2>2 DEF Queues
  <1>3. CASE ~(e # NoEvent /\ HasRoom)
    BY <1>1, <1>3 DEF Queues, queue_event
  <1> QED BY <1>2, <1>3

\* One scancode: both flags follow the codes, and what the code means is queued.
LEMMA Decodes ==
    ASSUME DecodeInv, NEW scancode \in Scancodes, Type(scancode)
    PROVE  DecodeInv' /\ Queues(Meaning(codes', Len(codes')))
  <1>1. /\ ReadStable /\ TypeOK /\ codes \in Seq(Nat) /\ scancode \in Nat
        /\ keyboard_process_scancode(scancode) /\ UNCHANGED getevent
        /\ codes' = Append(codes, scancode)
    BY ScancodeAssumption DEF DecodeInv, ReadStable, Type
  <1>2. ReadStable'
    BY <1>1, HandlerStable
  <1>3. PICK n \in Nat, k \in Nat, cs \in Seq(Nat), ds \in Seq(Nat) :
          cs = codes /\ ds = codes' /\ n = Len(cs) /\ k = n + 1
    <2>1. codes' \in Seq(Nat)
      BY <1>1, AppendProperties
    <2>2. Len(codes) \in Nat /\ Len(codes) + 1 \in Nat
      BY <1>1, LenProperties
    <2> QED BY <1>1, <2>1, <2>2, Zenon
  <1>4. Follows(cs, n, scancode, ds, k)
    BY <1>1, <1>3 DEF Follows
  <1>5. /\ ds[k] = scancode /\ Len(ds) = k /\ ds \in Seq(Nat)
        /\ IsExtended(ds, k) <=> Prefixed(cs) /\ scancode # KEY_EXTENDED_PREFIX
    BY <1>4, Earlier
  <1>6. /\ ShiftDown(ds, k) <=> ShiftDown(cs, k)
        /\ ShiftDown(ds, k + 1) <=>
             IF IsExtended(ds, k) THEN ShiftDown(cs, k)
             ELSE scancode \in {KEY_LSHIFT, KEY_RSHIFT}
                    \/ (scancode \notin ShiftCodes /\ ShiftDown(cs, k))
    BY <1>4, ShiftChanges
  <1>7. (extended_prefix <=> Prefixed(cs)) /\ (shift_pressed <=> ShiftDown(cs, k))
    BY <1>3 DEF DecodeInv
  <1>8. Prefixed(ds) <=> scancode = KEY_EXTENDED_PREFIX
    BY <1>3, <1>5 DEF Prefixed
  <1>9. /\ extended_prefix' <=> Prefixed(ds)
        /\ shift_pressed' <=> ShiftDown(ds, k + 1)
        /\ Queues(Meaning(ds, k))
    <2> USE DEF KEY_EXTENDED_PREFIX, KEY_LSHIFT, KEY_RSHIFT, KEY_LSHIFT_RELEASE,
                KEY_RSHIFT_RELEASE
    <2>1. CASE Prefix(scancode)
      <3>1. /\ scancode = 224 /\ extended_prefix' /\ shift_pressed' = shift_pressed
            /\ UNCHANGED ring
        BY <2>1 DEF Prefix
      <3>2. Meaning(ds, k) = NoEvent
        BY <1>5, <3>1 DEF Meaning, Released
      <3>3. ~IsExtended(ds, k) /\ scancode \notin ShiftCodes
        BY <1>5, <3>1 DEF ShiftCodes
      <3>4. scancode \notin {KEY_LSHIFT, KEY_RSHIFT}
        BY <3>1
      <3> QED BY <1>6, <1>7, <1>8, <3>1, <3>2, <3>3, <3>4 DEF Queues
    <2>2. CASE AfterPrefix(scancode)
      <3>1. /\ scancode # KEY_EXTENDED_PREFIX /\ extended_prefix /\ ~extended_prefix'
            /\ shift_pressed' = shift_pressed
            /\ queue_event(IF Released(scancode) THEN NoEvent ELSE Extended(scancode))
        BY <2>2 DEF AfterPrefix, PrefixUsed
      <3>2. IsExtended(ds, k)
        BY <1>5, <1>7, <3>1
      <3>3. Meaning(ds, k) = IF Released(scancode) THEN NoEvent ELSE Extended(scancode)
        BY <1>5, <3>2 DEF Meaning
      <3>4. Queues(Meaning(ds, k))
        BY <1>1, <3>1, <3>3, QueuesIt
      <3> QED BY <1>6, <1>7, <1>8, <3>1, <3>2, <3>4
    <2>3. CASE Shift(scancode)
      <3>1. /\ ~extended_prefix /\ ~extended_prefix' /\ UNCHANGED ring
            /\ scancode \in ShiftCodes /\ scancode # KEY_EXTENDED_PREFIX
            /\ shift_pressed' <=> scancode \in {KEY_LSHIFT, KEY_RSHIFT}
        BY <2>3 DEF Shift, ShiftCodes
      <3>2. ~IsExtended(ds, k)
        BY <1>5, <1>7, <3>1
      <3>3. Meaning(ds, k) = NoEvent
        <4>1. CASE Released(scancode)
          BY <1>5, <4>1 DEF Meaning
        <4>2. CASE ~Released(scancode)
          <5>1. scancode = 42 \/ scancode = 54
            BY <3>1, <4>2 DEF ShiftCodes, Released
          <5>2. \A b : Ascii(scancode, b) = NoEvent
            BY <5>1 DEF Ascii
          <5> QED BY <1>5, <3>2, <4>2, <5>2 DEF Meaning
        <4> QED BY <4>1, <4>2
      <3> QED BY <1>6, <1>8, <3>1, <3>2, <3>3 DEF Queues
    <2>4. CASE Key(scancode)
      <3>1. /\ ~extended_prefix /\ scancode # KEY_EXTENDED_PREFIX /\ scancode \notin ShiftCodes
            /\ scancode \notin {KEY_LSHIFT, KEY_RSHIFT}
            /\ extended_prefix' = extended_prefix /\ shift_pressed' = shift_pressed
            /\ queue_event(IF Released(scancode) THEN NoEvent
                           ELSE Ascii(scancode, shift_pressed))
        BY <2>4 DEF Key, ShiftCodes, state
      <3>2. ~IsExtended(ds, k)
        BY <1>5, <1>7, <3>1
      <3>3. Ascii(scancode, shift_pressed) = Ascii(scancode, ShiftDown(ds, k))
        BY <1>6, <1>7 DEF Ascii
      <3>4. Meaning(ds, k) = IF Released(scancode) THEN NoEvent
                             ELSE Ascii(scancode, shift_pressed)
        BY <1>5, <3>2, <3>3 DEF Meaning
      <3>5. Queues(Meaning(ds, k))
        BY <1>1, <3>1, <3>4, QueuesIt
      <3> QED BY <1>6, <1>7, <1>8, <3>1, <3>2, <3>5
    <2> QED BY <1>1, <2>1, <2>2, <2>3, <2>4 DEF keyboard_process_scancode
  <1> QED BY <1>2, <1>3, <1>5, <1>9 DEF DecodeInv

LEMMA DecodeStep ==
    ASSUME DecodeInv, [TypingNext]_allVars
    PROVE  DecodeInv' /\ (codes' # codes => Queues(Meaning(codes', Len(codes'))))
  <1>1. ASSUME NEW scancode \in Scancodes, Type(scancode)
        PROVE  DecodeInv' /\ Queues(Meaning(codes', Len(codes')))
    BY <1>1, Decodes
  <1>2. CASE Take
    <2>1. keyboard_getevent /\ codes' = codes /\ ReadStable
      BY <1>2 DEF Take, DecodeInv
    <2>2. ReadStable'
      BY <2>1, ReaderStable
    <2>3. extended_prefix' = extended_prefix /\ shift_pressed' = shift_pressed
      BY <2>1 DEF keyboard_getevent, getevent_check, getevent_read, getevent_advance, state
    <2> QED BY <2>1, <2>2, <2>3 DEF DecodeInv
  <1>3. CASE UNCHANGED allVars
    <2>1. UNCHANGED vars /\ codes' = codes
      BY <1>3 DEF allVars
    <2>2. ReadStable'
      BY <2>1, Inductive DEF DecodeInv
    <2>3. extended_prefix' = extended_prefix /\ shift_pressed' = shift_pressed
      BY <2>1 DEF vars, state
    <2> QED BY <2>1, <2>2, <2>3 DEF DecodeInv
  <1> QED BY <1>1, <1>2, <1>3 DEF TypingNext

\* keyboard_process_scancode queues for each scancode exactly the event that the
\* codes sent so far make it mean, for every ring size and every sequence of
\* bytes, however many.
THEOREM Decoding == TypingSpec => DecodesAsTyped
  <1>1. TypingInit => DecodeInv
    <2> SUFFICES ASSUME TypingInit PROVE DecodeInv
      OBVIOUS
    <2>1. Init /\ codes = <<>> /\ ~extended_prefix /\ ~shift_pressed
      BY DEF TypingInit, Init
    <2>2. codes \in Seq(Nat) /\ Len(codes) = 0 /\ 1 .. (0 + 1) - 1 = {}
      BY <2>1
    <2>3. ~Prefixed(codes) /\ ~ShiftDown(codes, Len(codes) + 1)
      BY <2>2 DEF Prefixed, ShiftDown
    <2> QED BY <2>1, <2>2, <2>3, Initially DEF DecodeInv
  <1>2. DecodeInv /\ [TypingNext]_allVars => DecodeInv'
    BY DecodeStep
  <1>3. DecodeInv /\ [TypingNext]_allVars
          => [codes' # codes => Queues(Meaning(codes', Len(codes')))]_allVars
    BY DecodeStep
  <1> QED BY <1>1, <1>2, <1>3, PTL DEF TypingSpec, DecodesAsTyped
-----------------------------------------------------------------------------
(* The keyboard driver inside the system.                                  *)

\* What a step of the system is to the driver: a scancode in the handler, a
\* step of the reader, or nothing.
LEMMA DriverStep ==
    ASSUME [SysNext]_sysVars
    PROVE  \/ UNCHANGED vars
           \/ /\ keyboard_process_scancode(Head(kbc)) /\ UNCHANGED getevent
              /\ dispatch_keyboard
           \/ keyboard_getevent /\ read_keyboard
  <1>1. CASE TimerFires \/ KeyArrives \/ ByteArrives \/ ControllerTakes
    BY <1>1 DEF TimerFires, KeyArrives, ByteArrives, ControllerTakes
  <1>2. CASE (\E irq \in {0, 1} : Interrupt(irq)) \/ Spurious
    BY <1>2 DEF Interrupt, Spurious, Enter
  <1>3. CASE HandlerStep
    BY <1>3 DEF HandlerStep, dispatch_timer, dispatch_keyboard, dispatch_spurious,
                pic_send_eoi
  <1>4. CASE MainStep
    BY <1>4 DEF MainStep, reboot_status, reboot_drain, reboot_command, poll_serial,
                poll_keyboard, cpu_hlt, read_keyboard, read_serial, read_escape,
                read_final, next_event, sleep_check
  <1>5. CASE (\E d \in Delays : system_sleep_ms(d)) \/ system_reboot \/ system_halt
    BY <1>5 DEF system_sleep_ms, system_reboot, system_halt
  <1>6. CASE UNCHANGED sysVars
    BY <1>6 DEF sysVars
  <1> QED BY <1>1, <1>2, <1>3, <1>4, <1>5, <1>6 DEF SysNext

\* A step that leaves the driver alone leaves its invariant alone.
LEMMA IdleStable ==
    ASSUME ReadStable, UNCHANGED vars
    PROVE  ReadStable'
  BY DEF vars, state, ring, getevent, ReadStable, TypeOK, keyboard_has_input, At

\* The driver's invariant is kept by every step of the system.
LEMMA DriverStable ==
    ASSUME ReadStable, [SysNext]_sysVars
    PROVE  ReadStable'
  BY DriverStep, IdleStable, HandlerStable, ReaderStable

\* In the running kernel, too, keyboard_getevent has the oldest event in hand.
THEOREM SystemStable == SysSpec => []ReadStable
  <1>1. SysInit => ReadStable
    BY Initially DEF SysInit
  <1>2. ReadStable /\ [SysNext]_sysVars => ReadStable'
    BY DriverStable
  <1> QED BY <1>1, <1>2, PTL DEF SysSpec

\* The ring is a queue also where its two ends are the keyboard interrupt and
\* the main program of the running kernel.
THEOREM SystemQueue == SysSpec => ImplementsQueue
  <1>1. SysInit => Queue!Init
    BY InitRefines DEF SysInit
  <1>2. ReadStable /\ ReadStable' /\ [SysNext]_sysVars => [Queue!Next]_(Queue!vars)
    <2> SUFFICES ASSUME ReadStable, ReadStable', [SysNext]_sysVars
                 PROVE  [Queue!Next]_(Queue!vars)
      OBVIOUS
    <2>1. UNCHANGED vars => [Queue!Next]_(Queue!vars)
      BY RestRefines DEF vars, getevent
    <2> QED BY <2>1, DriverStep, HandlerRefines, ReaderRefines
  <1> QED BY <1>1, <1>2, SystemStable, PTL DEF SysSpec, ImplementsQueue, Queue!Spec
-----------------------------------------------------------------------------
(* The invariant of the system.                                            *)

Sleeping == {"sleep", "sleep_hlt", "sleep_halted"}

\* The deadline of a sleep is the one asked for, as far as a word can hold it.
DeadlineKept ==
    main \in Sleeping =>
      /\ start \in Nat /\ delay \in Nat
      /\ deadline = (start + delay) % Word

\* The inductive invariant: who is in service, which byte has its interrupt,
\* and what a sleep waits for.
SysInv == ReadStable /\ ServiceBalanced /\ KeyboardArmed /\ DeadlineKept

\* Where the main program may be.
Places == {"poll_serial", "poll_keyboard", "hlt", "halted", "keyboard", "serial",
           "esc", "csi", "got", "sleep", "sleep_hlt", "sleep_halted"}
           \cup Rebooting \cup Ended

\* What the steps of the main program leave alone, and where they lead.
LEMMA GotoKeeps ==
    ASSUME SysInv, NEW m, Goto(m)
    PROVE  /\ main' = m /\ handler = Idle /\ isr = {}
           /\ UNCHANGED <<irr, isr, handler, kbc, timer_ticks>>
           /\ handler' = Idle /\ isr' = {}
           /\ KeyboardArmed'
  BY DEF Goto, pic, Running, SysInv, ServiceBalanced, KeyboardArmed

\* Devices: a request is added, or a byte arrives.
LEMMA DevicesKeep ==
    ASSUME SysInv, TypeOK', TimerFires \/ KeyArrives \/ ByteArrives \/ ControllerTakes
    PROVE  ServiceBalanced' /\ KeyboardArmed' /\ DeadlineKept'
  <1> USE DEF SysInv, ServiceBalanced, SysTypeOK, KeyboardArmed, DeadlineKept, Running,
              Sleeping, calls, sleep, reboot, devices, pic
  <1>1. CASE TimerFires
    BY <1>1 DEF TimerFires
  <1>2. CASE KeyArrives
    BY <1>2 DEF KeyArrives
  <1>3. CASE ByteArrives
    BY <1>3 DEF ByteArrives
  <1>4. CASE ControllerTakes
    BY <1>4 DEF ControllerTakes
  <1> QED BY <1>1, <1>2, <1>3, <1>4

\* An interrupt is taken only when nothing is in service.
LEMMA InterruptsKeep ==
    ASSUME SysInv, TypeOK', (\E irq \in {0, 1} : Interrupt(irq)) \/ Spurious
    PROVE  ServiceBalanced' /\ KeyboardArmed' /\ DeadlineKept'
  <1> USE DEF SysInv, ServiceBalanced, SysTypeOK, KeyboardArmed, DeadlineKept, Running,
              Sleeping, calls, sleep, reboot, devices, pic, Enter
  <1>1. /\ handler = Idle /\ isr = {}
        /\ main' = Woken
        /\ UNCHANGED <<kbc, timer_ticks, deadline, start, delay, busy, temp>>
    BY DEF Interrupt, Spurious
  <1>2. /\ main' \in Sleeping => main \in Sleeping
        /\ main = main' \/ main' \in {"poll_serial", "sleep"}
    BY <1>1 DEF Woken
  <1>3. ASSUME NEW irq \in {0, 1}, Interrupt(irq)
        PROVE  ServiceBalanced' /\ KeyboardArmed' /\ DeadlineKept'
    <2>1. /\ handler' = [irq |-> irq, at |-> "dispatch"]
          /\ irr' = irr \ {irq} /\ isr' = {irq}
      BY <1>1, <1>3 DEF Interrupt
    <2>2. handler' # Idle /\ handler'.irq = irq
      BY <2>1 DEF Idle
    <2>3. KeyboardArmed'
      BY <1>1, <2>1 DEF Idle
    <2> QED BY <1>1, <1>2, <2>1, <2>2, <2>3
  <1>4. CASE Spurious
    <2>1. handler' = [irq |-> 7, at |-> "dispatch"] /\ irr' = irr /\ isr' = {}
      BY <1>1, <1>4 DEF Spurious
    <2>2. KeyboardArmed'
      BY <1>1, <2>1 DEF Idle
    <2> QED BY <1>1, <1>2, <2>1, <2>2 DEF Idle
  <1> QED BY <1>3, <1>4

\* The least element of a set of one.
LEMMA MinOfOne ==
    ASSUME NEW n \in Int
    PROVE  Min({n}) = n
  <1> DEFINE P(x) == x \in {n} /\ \A y \in {n} : x <= y
  <1>1. P(n)
    OBVIOUS
  <1>2. Min({n}) = CHOOSE x : P(x)
    BY DEF Min
  <1> QED BY <1>1, <1>2

\* A handler runs to its acknowledgement, which ends its own service.
LEMMA HandlersKeep ==
    ASSUME SysInv, TypeOK', HandlerStep
    PROVE  ServiceBalanced' /\ KeyboardArmed' /\ DeadlineKept'
  <1> USE WordAssumption DEF SysInv, ServiceBalanced, SysTypeOK, KeyboardArmed,
              DeadlineKept, Running, Sleeping, calls, sleep, reboot, devices, pic, Idle
  <1>1. CASE dispatch_timer
    BY <1>1 DEF dispatch_timer, Dispatched, Tick
  <1>2. CASE dispatch_keyboard
    BY <1>2 DEF dispatch_keyboard, Dispatched, inb_data
  <1>3. CASE dispatch_spurious
    BY <1>3 DEF dispatch_spurious, Dispatched
  <1>4. CASE pic_send_eoi
    <2>1. isr' = {}
      <3>1. handler # Idle /\ isr \subseteq {handler.irq}
        BY <1>4 DEF pic_send_eoi
      <3>2. handler.irq \in Int
        BY <3>1
      <3>3. isr # {} => isr = {handler.irq} /\ Min(isr) = handler.irq
        <4>1. isr # {} => isr = {handler.irq}
          BY <3>1
        <4>2. Min({handler.irq}) = handler.irq
          BY <3>2, MinOfOne
        <4> QED BY <4>1, <4>2
      <3> QED BY <1>4, <3>3 DEF pic_send_eoi, Acknowledged
    <2> QED BY <1>4, <2>1 DEF pic_send_eoi
  <1> QED BY <1>1, <1>2, <1>3, <1>4 DEF HandlerStep

\* A step of the main program to m keeps the invariant if what it does to a
\* sleep does.
LEMMA MainKeeps ==
    ASSUME SysInv, TypeOK', NEW m \in Places, Goto(m),
           deadline' \in 0 .. Word - 1, DeadlineKept',
           busy' \in BOOLEAN, temp' \subseteq {"output", "input"}
    PROVE  ServiceBalanced' /\ KeyboardArmed' /\ DeadlineKept'
  <1>1. /\ main' = m /\ UNCHANGED <<irr, handler, timer_ticks>>
        /\ handler' = Idle /\ isr' = {} /\ KeyboardArmed'
    BY GotoKeeps
  <1>2. SysTypeOK'
    BY <1>1 DEF SysTypeOK, SysInv, ServiceBalanced, Places
  <1> QED BY <1>1, <1>2 DEF ServiceBalanced, Running

\* The types the steps below need of the state before them.
LEMMA CallTypes ==
    ASSUME SysInv
    PROVE  /\ deadline \in 0 .. Word - 1 /\ timer_ticks \in Nat
           /\ busy \in BOOLEAN /\ temp \subseteq {"output", "input"}
  BY WordAssumption DEF SysInv, ServiceBalanced, SysTypeOK

\* input_getevent and the callers that return at once.
LEMMA InputKeeps ==
    ASSUME SysInv, TypeOK',
           \/ poll_serial \/ poll_keyboard \/ read_keyboard \/ read_serial
           \/ read_escape \/ read_final \/ next_event \/ system_halt
    PROVE  ServiceBalanced' /\ KeyboardArmed' /\ DeadlineKept'
  <1> DEFINE Awake == Places \ Sleeping
  <1>1. /\ \E m \in Awake : Goto(m)
        /\ UNCHANGED <<deadline, busy, temp>>
    BY DEF poll_serial, poll_keyboard, read_keyboard, read_serial, read_escape,
           read_final, next_event, system_halt, Returns, calls, sleep, reboot,
           Places, Sleeping, Rebooting, Ended
  <1>2. PICK m \in Awake : Goto(m)
    BY <1>1
  <1>3. DeadlineKept'
    BY <1>2 DEF Goto, DeadlineKept
  <1> QED BY <1>1, <1>2, <1>3, MainKeeps, CallTypes

\* system_sleep_ms and the halts of both loops.
LEMMA SleepKeeps ==
    ASSUME SysInv, TypeOK',
           cpu_hlt \/ sleep_check \/ (\E d \in Delays : system_sleep_ms(d))
    PROVE  ServiceBalanced' /\ KeyboardArmed' /\ DeadlineKept'
  <1>1. CASE cpu_hlt
    <2>1. PICK m \in {"halted", "sleep_halted"} :
            Goto(m) /\ UNCHANGED calls /\ (m = "sleep_halted" => main = "sleep_hlt")
      BY <1>1 DEF cpu_hlt
    <2>2. DeadlineKept'
      BY <2>1 DEF Goto, DeadlineKept, SysInv, Sleeping, calls, sleep
    <2>3. UNCHANGED <<deadline, busy, temp>> /\ m \in Places
      BY <2>1 DEF calls, sleep, reboot, Places
    <2> QED BY <2>1, <2>2, <2>3, MainKeeps, CallTypes
  <1>2. CASE sleep_check
    <2>1. PICK m \in {"sleep_hlt", "poll_serial"} :
            /\ Goto(m) /\ UNCHANGED reboot
            /\ \/ m = "sleep_hlt" /\ UNCHANGED sleep
               \/ m = "poll_serial" /\ deadline' = 0
      BY <1>2 DEF sleep_check
    <2>2. DeadlineKept'
      BY <1>2, <2>1 DEF sleep_check, Goto, DeadlineKept, SysInv, Sleeping, sleep
    <2>3. deadline' \in 0 .. Word - 1 /\ UNCHANGED <<busy, temp>> /\ m \in Places
      BY <2>1, CallTypes, WordAssumption DEF sleep, reboot, Places
    <2> QED BY <2>1, <2>2, <2>3, MainKeeps, CallTypes
  <1>3. ASSUME NEW d \in Delays, system_sleep_ms(d)
        PROVE  ServiceBalanced' /\ KeyboardArmed' /\ DeadlineKept'
    <2>1. timer_ticks + d \in Nat /\ d \in Nat /\ timer_ticks \in Nat
      BY CallTypes, DelayAssumption
    <2>2. (timer_ticks + d) % Word \in 0 .. Word - 1
      BY <2>1, WordAssumption
    <2>3. /\ Goto("sleep") /\ deadline' = (timer_ticks + d) % Word
          /\ start' = timer_ticks /\ delay' = d /\ UNCHANGED <<busy, temp>>
      BY <1>3 DEF system_sleep_ms, reboot
    <2>4. DeadlineKept'
      BY <2>1, <2>3 DEF DeadlineKept
    <2>5. "sleep" \in Places
      BY DEF Places
    <2> QED BY <2>2, <2>3, <2>4, <2>5, MainKeeps, CallTypes
  <1> QED BY <1>1, <1>2, <1>3

\* system_reboot, its loop and its command.
LEMMA RebootKeeps ==
    ASSUME SysInv, TypeOK',
           system_reboot \/ reboot_status \/ reboot_drain \/ reboot_command
    PROVE  ServiceBalanced' /\ KeyboardArmed' /\ DeadlineKept'
  <1>1. CASE system_reboot \/ reboot_status \/ reboot_command
    <2>1. PICK m \in {"reboot_status", "reboot_drain", "hung", "reset"} : Goto(m)
      BY <1>1 DEF system_reboot, reboot_status, reboot_command
    <2>2. DeadlineKept'
      BY <2>1 DEF Goto, DeadlineKept, Sleeping
    <2>3. m \in Places
      BY DEF Places, Rebooting, Ended
    <2>4. UNCHANGED deadline /\ busy' \in BOOLEAN /\ temp' \subseteq {"output", "input"}
      BY <1>1, CallTypes DEF system_reboot, reboot_status, reboot_command, calls, sleep,
                             reboot
    <2> QED BY <2>1, <2>2, <2>3, <2>4, MainKeeps, CallTypes
  <1>2. CASE reboot_drain
    BY <1>2 DEF reboot_drain, drain, inb_data, KeyboardArmed, Idle, SysInv, SysTypeOK,
                ServiceBalanced, Running, DeadlineKept, Sleeping, calls, sleep, reboot,
                Rebooting
  <1> QED BY <1>1, <1>2

\* The invariant is inductive.
LEMMA SysInductive ==
    ASSUME SysInv, [SysNext]_sysVars
    PROVE  SysInv'
  <1>1. ReadStable' /\ TypeOK'
    BY DriverStable DEF SysInv, ReadStable
  <1>2. CASE UNCHANGED sysVars
    <2>1. UNCHANGED <<main, irr, isr, handler, kbc, timer_ticks, deadline, start, delay,
                      busy, temp>>
      BY <1>2 DEF sysVars, pic, devices, calls, sleep, reboot
    <2> QED BY <1>1, <2>1 DEF SysInv, ServiceBalanced, SysTypeOK, KeyboardArmed,
                              DeadlineKept, Running
  <1>3. SysNext => ServiceBalanced' /\ KeyboardArmed' /\ DeadlineKept'
    BY <1>1, DevicesKeep, InterruptsKeep, HandlersKeep, InputKeeps, SleepKeeps, RebootKeeps
       DEF SysNext, MainStep
  <1> QED BY <1>1, <1>2, <1>3 DEF SysInv

\* The invariant holds of every state of the running kernel.
LEMMA AlwaysSysInv == SysSpec => []SysInv
  <1>1. SysInit => SysInv
    <2> SUFFICES ASSUME SysInit PROVE SysInv
      OBVIOUS
    <2>1. ReadStable /\ TypeOK
      BY Initially DEF SysInit, ReadStable
    <2>2. 0 \in 0 .. MaxTicks /\ 0 \in 0 .. Word - 1
      BY WordAssumption
    <2> QED BY <2>1, <2>2
            DEF SysInit, SysInv, ServiceBalanced, SysTypeOK, KeyboardArmed, DeadlineKept,
                Running, Idle, Sleeping
  <1>2. SysInv /\ [SysNext]_sysVars => SysInv'
    BY SysInductive
  <1> QED BY <1>1, <1>2, PTL DEF SysSpec
-----------------------------------------------------------------------------
\* Each interrupt is acknowledged exactly once (trap_dispatch, pic_send_eoi),
\* spurious ones acknowledge nobody else's, and every variable has its type.
THEOREM Service == SysSpec => []ServiceBalanced
  <1>1. SysInv => ServiceBalanced
    BY DEF SysInv
  <1> QED BY <1>1, AlwaysSysInv, PTL

\* No scancode is left in the 8042 without an interrupt on its way.
THEOREM Armed == SysSpec => []KeyboardArmed
  <1>1. SysInv => KeyboardArmed
    BY DEF SysInv
  <1> QED BY <1>1, AlwaysSysInv, PTL

\* system_sleep_ms lasts as long as asked whenever its deadline fits a word.
THEOREM Sleeps == SysSpec => SleepsLongEnough
  <1> DEFINE Enough == main = "sleep" /\ main' = "poll_serial" /\ start + delay < Word
                         => timer_ticks >= start + delay
  <1>1. SysInv /\ [SysNext]_sysVars => [Enough]_sysVars
    <2> SUFFICES ASSUME SysInv, SysNext, main = "sleep", main' = "poll_serial",
                        start + delay < Word
                 PROVE  timer_ticks >= start + delay
      OBVIOUS
    <2>1. /\ start \in Nat /\ delay \in Nat /\ deadline = (start + delay) % Word
          /\ timer_ticks \in Nat /\ Word \in Nat
      BY WordAssumption DEF SysInv, DeadlineKept, Sleeping, ServiceBalanced, SysTypeOK
    <2>2. deadline = start + delay
      BY <2>1
    <2>3. sleep_check
      BY DEF SysNext, MainStep, HandlerStep, TimerFires, KeyArrives, ByteArrives,
             ControllerTakes, Interrupt, Spurious, Enter, Woken, dispatch_timer,
             dispatch_keyboard, dispatch_spurious, pic_send_eoi, reboot_status,
             reboot_drain, reboot_command, poll_serial, poll_keyboard, cpu_hlt,
             read_keyboard, read_serial, read_escape, read_final, next_event,
             system_sleep_ms, system_reboot, system_halt
    <2>4. ~NotYet
      BY <2>3 DEF sleep_check, Goto
    <2> QED BY <2>1, <2>2, <2>4 DEF NotYet
  <1> QED BY <1>1, AlwaysSysInv, PTL DEF SysSpec, SleepsLongEnough
=============================================================================
