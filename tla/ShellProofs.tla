---------------------------- MODULE ShellProofs ----------------------------
(***************************************************************************)
(* Proofs about the shell loop, for every size of the line and of the      *)
(* history: what the user sees behind the prompt is what is executed and   *)
(* remembered, whichever way the line came about.  And about the line that *)
(* is executed: it is cut into the words typed, the command of the first   *)
(* one is run on the others, and the numbers among them are read and       *)
(* printed exactly.                                                        *)
(***************************************************************************)
EXTENDS Shell, CommandLine, SequenceTheorems, FiniteSetTheorems, WellFoundedInduction, TLAPS

-----------------------------------------------------------------------------
(* Strings.                                                                *)

LEMMA Sizes == CMD_BUFFER_SIZE \in Nat \ {0} /\ HISTORY_SIZE \in Nat \ {0}
  BY SizeAssumption

\* A text is a string that fits the buffer with its NUL.
LEMMA TextIs ==
    ASSUME NEW s \in Texts
    PROVE  s \in Seq(Typed) /\ Len(s) \in Nat /\ Len(s) < CMD_BUFFER_SIZE
  <1>1. PICK n \in 0 .. CMD_BUFFER_SIZE - 1 : s \in [1 .. n -> Typed]
    BY DEF Texts, Typed
  <1>2. n \in Nat /\ s \in Seq(Typed)
    BY <1>1, Sizes, SeqDef
  <1>3. Len(s) = n
    BY <1>1, <1>2, LenProperties
  <1> QED BY <1>2, <1>3, Sizes

LEMMA TextOf ==
    ASSUME NEW s \in Seq(Typed), Len(s) < CMD_BUFFER_SIZE
    PROVE  s \in Texts
  <1>1. Len(s) \in 0 .. CMD_BUFFER_SIZE - 1 /\ s \in [1 .. Len(s) -> Typed]
    BY LenProperties, Sizes
  <1> QED BY <1>1 DEF Texts, Typed

\* The empty text.
LEMMA EmptyText == <<>> \in Texts /\ Len(<<>>) = 0
  <1>1. <<>> \in Seq(Typed) /\ Len(<<>>) = 0
    BY EmptySeq
  <1>2. Len(<<>>) < CMD_BUFFER_SIZE
    BY <1>1, Sizes
  <1> QED BY <1>1, <1>2, TextOf

\* Ending a string at n.
LEMMA CutText ==
    ASSUME NEW s \in Texts, NEW n \in 0 .. Len(s)
    PROVE  /\ Len(s) \in Nat /\ Len(s) < CMD_BUFFER_SIZE /\ s \in Seq(Typed)
           /\ SubSeq(s, 1, n) \in Texts /\ Len(SubSeq(s, 1, n)) = n
           /\ n = 0 => SubSeq(s, 1, n) = <<>>
           /\ n = Len(s) => SubSeq(s, 1, n) = s
  <1>1. s \in Seq(Typed) /\ Len(s) \in Nat /\ Len(s) < CMD_BUFFER_SIZE
    BY TextIs, LenProperties
  <1>2. \A i \in 1 .. n : s[i] \in Typed
    BY <1>1, ElementOfSeq
  <1>3. SubSeq(s, 1, n) \in Seq(Typed) /\ Len(SubSeq(s, 1, n)) = n
    <2>1. n \in Int /\ 1 \in Int
      BY <1>1
    <2>2. /\ SubSeq(s, 1, n) \in Seq(Typed)
          /\ Len(SubSeq(s, 1, n)) = IF 1 <= n THEN n - 1 + 1 ELSE 0
      BY <1>2, <2>1, SubSeqProperties
    <2> QED BY <1>1, <2>2
  <1>4. SubSeq(s, 1, n) \in Texts
    <2>1. Len(SubSeq(s, 1, n)) < CMD_BUFFER_SIZE
      BY <1>1, <1>3, Sizes
    <2> QED BY <1>3, <2>1, TextOf
  <1>5. n = 0 => SubSeq(s, 1, n) = <<>>
    BY SubSeqEmpty
  <1>6. n = Len(s) => SubSeq(s, 1, n) = s
    BY <1>1, SubSeqFull
  <1> QED BY <1>1, <1>3, <1>4, <1>5, <1>6

\* What shell_parse_command leaves in the buffer is a text.
LEMMA RemainsText ==
    ASSUME NEW s \in Texts
    PROVE  Remains(s) \in Texts
  <1> DEFINE K == {k \in DOMAIN s : \A j \in 1 .. k : s[j] = Space => j <= Indent(s)}
  <1>1. Len(s) \in Nat /\ DOMAIN s = 1 .. Len(s)
    BY TextIs, LenProperties
  <1>2. IsFiniteSet(1 .. Len(s)) /\ Cardinality(1 .. Len(s)) = Len(s)
    <2>1. IsFiniteSet(1 .. Len(s))
            /\ Cardinality(1 .. Len(s)) = IF 1 > Len(s) THEN 0 ELSE Len(s) - 1 + 1
      BY <1>1, FS_Interval
    <2> QED BY <1>1, <2>1
  <1>3. K \in SUBSET (1 .. Len(s))
    BY <1>1
  <1> HIDE DEF K
  <1>4. Cardinality(K) \in Nat /\ Cardinality(K) <= Len(s)
    BY <1>2, <1>3, FS_Subset, FS_CardinalityType
  <1>5. Cardinality(K) \in 0 .. Len(s)
    BY <1>1, <1>4
  <1>6. CommandEnd(s) = Cardinality(K)
    BY DEF CommandEnd, K
  <1> QED BY <1>5, <1>6, CutText DEF Remains

-----------------------------------------------------------------------------
(* The ring.                                                               *)

\* A remainder of a number that is at most one ring away.
LEMMA Remainder ==
    ASSUME NEW a \in 0 .. 2 * HISTORY_SIZE - 1
    PROVE  a % HISTORY_SIZE = IF a < HISTORY_SIZE THEN a ELSE a - HISTORY_SIZE
  <1> DEFINE N == HISTORY_SIZE
  <1>1. N \in Nat \ {0} /\ a \in Int /\ 0 <= a /\ a < 2 * N
    BY Sizes
  <1> HIDE DEF N
  <1>2. CASE a < N
    <2>1. a % N = a
      BY <1>1, <1>2
    <2> QED BY <1>2, <2>1 DEF N
  <1>3. CASE N <= a
    <2>1. a % N = a - N
      BY <1>1, <1>3
    <2> QED BY <1>1, <1>3, <2>1 DEF N
  <1> QED BY <1>1, <1>2, <1>3

\* The slot k places after a slot, for k up to the size of the ring.
Ahead(s, k) == IF s + k < HISTORY_SIZE THEN s + k ELSE s + k - HISTORY_SIZE

\* The oldest line: where the next one goes once the ring is full.
Oldest == IF history_count <= history_head
            THEN history_head - history_count
            ELSE history_head - history_count + HISTORY_SIZE

\* The type of the ring.
RingOK ==
    /\ history \in [Slots -> Texts]
    /\ history_head \in Slots
    /\ history_count \in 0 .. HISTORY_SIZE

\* A line is found at its distance from the oldest one, and the slot that is
\* written next lies behind the newest.
LEMMA RingIs ==
    RingOK => /\ Oldest \in Slots
              /\ \A p \in Slots : /\ Ahead(Oldest, p) \in Slots
                                  /\ history_get(p) = history[Ahead(Oldest, p)]
  <1> SUFFICES ASSUME RingOK
               PROVE  /\ Oldest \in Slots
                      /\ \A p \in Slots : /\ Ahead(Oldest, p) \in Slots
                                          /\ history_get(p) = history[Ahead(Oldest, p)]
    OBVIOUS
  <1>1. Oldest \in Slots /\ history_oldest_index = Oldest
    <2> DEFINE a == history_head + HISTORY_SIZE - history_count
    <2>1. a \in 0 .. 2 * HISTORY_SIZE - 1
      BY Sizes DEF RingOK, Slots
    <2>2. history_oldest_index = a % HISTORY_SIZE
      BY DEF history_oldest_index
    <2> HIDE DEF a
    <2>3. a % HISTORY_SIZE = IF a < HISTORY_SIZE THEN a ELSE a - HISTORY_SIZE
      BY <2>1, Remainder
    <2> QED BY <2>2, <2>3, Sizes DEF a, RingOK, Slots, Oldest
  <1>2. ASSUME NEW p \in Slots
        PROVE  Ahead(Oldest, p) \in Slots /\ history_get(p) = history[Ahead(Oldest, p)]
    <2> DEFINE a == Oldest + p
    <2>1. a \in 0 .. 2 * HISTORY_SIZE - 1
      BY <1>1, Sizes DEF Slots
    <2>2. history_get(p) = history[a % HISTORY_SIZE]
      BY <1>1 DEF history_get
    <2> HIDE DEF a
    <2>3. a % HISTORY_SIZE = IF a < HISTORY_SIZE THEN a ELSE a - HISTORY_SIZE
      BY <2>1, Remainder
    <2>4. a % HISTORY_SIZE = Ahead(Oldest, p) /\ Ahead(Oldest, p) \in Slots
      BY <1>1, <2>3, Sizes DEF a, Slots, Ahead
    <2> QED BY <2>2, <2>4
  <1> QED BY <1>1, <1>2

\* The same of the next state.
LEMMA RingIsNext ==
    RingOK' => /\ Oldest' \in Slots
               /\ \A p \in Slots : /\ Ahead(Oldest', p) \in Slots
                                   /\ history_get(p)' = history'[Ahead(Oldest', p)]
  <1>1. (RingOK => /\ Oldest \in Slots
                   /\ \A p \in Slots : /\ Ahead(Oldest, p) \in Slots
                                       /\ history_get(p) = history[Ahead(Oldest, p)])'
    BY RingIs, PTL
  <1> QED BY <1>1 DEF Ahead

\* The ring with a line put behind the others, the oldest of which makes room
\* if it must.
Added(entry) ==
    /\ history_count' = IF history_count < HISTORY_SIZE
                          THEN history_count + 1 ELSE HISTORY_SIZE
    /\ \A p \in Slots :
         /\ p < history_count' - 1 =>
              history_get(p)' = IF history_count < HISTORY_SIZE
                                  THEN history_get(p) ELSE history_get(p + 1)
         /\ p = history_count' - 1 => history_get(p)' = entry

\* history_add leaves the ring alone or adds the line to it.
LEMMA AddIs ==
    ASSUME RingOK, NEW entry \in Texts, history_add(entry)
    PROVE  /\ RingOK'
           /\ IF \/ entry = <<>>
                 \/ history_count > 0 /\ history_get(history_count - 1) = entry
                THEN UNCHANGED ring ELSE Added(entry)
  <1> DEFINE keeps == \/ entry = <<>>
                      \/ history_count > 0 /\ history_get(history_count - 1) = entry
  <1> USE Sizes
  <1>1. CASE keeps
    <2>1. UNCHANGED ring
      BY <1>1 DEF history_add
    <2> QED BY <1>1, <2>1 DEF RingOK, ring
  <1>2. CASE ~keeps
    <2>1. /\ history' = [history EXCEPT ![history_head] = entry]
          /\ history_head' = (history_head + 1) % HISTORY_SIZE
          /\ history_count' = IF history_count < HISTORY_SIZE
                                THEN history_count + 1 ELSE history_count
      BY <1>2 DEF history_add, WrittenSlot
    <2> HIDE DEF keeps
    <2>2. /\ history \in [Slots -> Texts] /\ history_head \in Nat
          /\ history_head < HISTORY_SIZE /\ history_head \in Slots
          /\ history_count \in Nat /\ history_count <= HISTORY_SIZE
      BY DEF RingOK, Slots
    <2>3. history_head' = Ahead(history_head, 1) /\ history_head' \in Slots
      <3> DEFINE a == history_head + 1
      <3>1. a \in 0 .. 2 * HISTORY_SIZE - 1
        BY <2>2
      <3>2. history_head' = a % HISTORY_SIZE
        BY <2>1
      <3> HIDE DEF a
      <3>3. a % HISTORY_SIZE = IF a < HISTORY_SIZE THEN a ELSE a - HISTORY_SIZE
        BY <3>1, Remainder
      <3> QED BY <2>2, <3>2, <3>3 DEF a, Ahead, Slots
    <2>4. RingOK'
      <3>1. history' \in [Slots -> Texts]
        BY <2>1, <2>2
      <3>2. history_count' \in 0 .. HISTORY_SIZE
        BY <2>1, <2>2
      <3> QED BY <2>3, <3>1, <3>2 DEF RingOK
    <2>5. \A p \in Slots : /\ Ahead(Oldest, p) \in Slots
                           /\ history_get(p) = history[Ahead(Oldest, p)]
      BY RingIs
    <2>6. \A p \in Slots : /\ Ahead(Oldest', p) \in Slots
                           /\ history_get(p)' = history'[Ahead(Oldest', p)]
      BY <2>4, RingIsNext
    <2>7. CASE history_count < HISTORY_SIZE
      <3>1. history_count' = history_count + 1
        BY <2>1, <2>7
      <3>2. Oldest' = Oldest
        BY <2>2, <2>3, <2>7, <3>1 DEF Oldest, Ahead
      <3>3. ASSUME NEW p \in Slots, p < history_count
            PROVE  history_get(p)' = history_get(p)
        <4>1. Ahead(Oldest, p) # history_head
          BY <2>2, <2>7, <3>3 DEF Oldest, Ahead, Slots
        <4> QED BY <2>1, <2>2, <2>5, <2>6, <3>2, <4>1
      <3>4. ASSUME NEW p \in Slots, p = history_count
            PROVE  history_get(p)' = entry
        <4>1. Ahead(Oldest, p) = history_head
          BY <2>2, <2>7, <3>4 DEF Oldest, Ahead, Slots
        <4> QED BY <2>1, <2>2, <2>6, <3>2, <4>1
      <3>5. \A p \in Slots : /\ p < history_count' - 1 => p < history_count
                             /\ p = history_count' - 1 => p = history_count
        BY <2>2, <3>1 DEF Slots
      <3>6. Added(entry)
        BY <2>7, <3>1, <3>3, <3>4, <3>5 DEF Added
      <3> QED BY <1>2, <2>4, <3>6 DEF keeps
    <2>8. CASE history_count = HISTORY_SIZE
      <3>1. history_count' = HISTORY_SIZE
        BY <2>1, <2>8
      <3>2. Oldest = history_head /\ Oldest' = Ahead(history_head, 1)
        BY <2>2, <2>3, <2>8, <3>1 DEF Oldest, Ahead
      <3>3. ASSUME NEW p \in Slots, p < HISTORY_SIZE - 1
            PROVE  history_get(p)' = history_get(p + 1)
        <4>1. /\ Ahead(Oldest', p) # history_head
              /\ Ahead(Oldest', p) = Ahead(Oldest, p + 1) /\ p + 1 \in Slots
          BY <2>2, <3>2, <3>3 DEF Ahead, Slots
        <4> QED BY <2>1, <2>2, <2>5, <2>6, <4>1
      <3>4. ASSUME NEW p \in Slots, p = HISTORY_SIZE - 1
            PROVE  history_get(p)' = entry
        <4>1. Ahead(Oldest', p) = history_head
          BY <2>2, <3>2, <3>4 DEF Ahead, Slots
        <4> QED BY <2>1, <2>2, <2>6, <4>1
      <3>5. Added(entry)
        BY <2>2, <2>8, <3>1, <3>3, <3>4 DEF Added
      <3> QED BY <1>2, <2>4, <3>5 DEF keeps
    <2> QED BY <2>2, <2>7, <2>8
  <1> QED BY <1>1, <1>2
-----------------------------------------------------------------------------
(* RecallShowsEntry, with what it rests on.                                *)

\* The screen shows the string in the buffer or, behind a new prompt, nothing.
ShowsBuffer ==
    /\ pos \in {0, Len(cmd_buffer)}
    /\ shown = SubSeq(cmd_buffer, 1, pos)

\* During a walk the line that was left is the one saved, unless it was empty.
SavesDraft == ~AtDraft /\ draft # <<>> => current_line = draft

ShellInv == RecallShowsEntry /\ ShowsBuffer /\ SavesDraft

\* What is on the screen, without the strings.
LEMMA ShownIs ==
    ASSUME TypeOK, ShowsBuffer
    PROVE  /\ shown \in Texts /\ Len(shown) = pos /\ pos \in Nat
           /\ cmd_buffer \in Texts /\ current_line \in Texts
           /\ pos = 0 => shown = <<>>
           /\ pos # 0 => shown = cmd_buffer /\ pos = Len(cmd_buffer)
           /\ Entered = shown
           /\ RingOK
  <1>1. cmd_buffer \in Texts /\ current_line \in Texts /\ pos \in 0 .. Len(cmd_buffer)
    BY DEF TypeOK
  <1>2. /\ SubSeq(cmd_buffer, 1, pos) \in Texts /\ Len(SubSeq(cmd_buffer, 1, pos)) = pos
        /\ pos = 0 => SubSeq(cmd_buffer, 1, pos) = <<>>
        /\ pos = Len(cmd_buffer) => SubSeq(cmd_buffer, 1, pos) = cmd_buffer
        /\ Len(cmd_buffer) \in Nat
    BY <1>1, CutText
  <1>3. RingOK
    BY DEF TypeOK, RingOK
  <1> QED BY <1>1, <1>2, <1>3 DEF ShowsBuffer, Entered

\* shell_set_buffer replaces what is shown.
LEMMA SetBufferIs ==
    ASSUME TypeOK, ShowsBuffer, NEW text \in Texts, shell_set_buffer(text)
    PROVE  /\ shown' = text /\ cmd_buffer' = text /\ pos' = Len(text)
           /\ ShowsBuffer' /\ pos' \in 0 .. Len(cmd_buffer')
  <1>1. shown' = SubSeq(shown, 1, Len(shown) - pos) \o text
        /\ cmd_buffer' = text /\ pos' = Len(text)
    BY DEF shell_set_buffer
  <1>2. Len(shown) - pos = 0 /\ shown \in Texts
    BY ShownIs
  <1>3. SubSeq(shown, 1, 0) = <<>>
    BY SubSeqEmpty
  <1>4. text \in Seq(Typed) /\ Len(text) \in Nat
    BY TextIs
  <1>5. shown' = text
    BY <1>1, <1>2, <1>3, <1>4, ConcatEmptySeq
  <1>6. SubSeq(text, 1, Len(text)) = text
    BY <1>4, SubSeqFull
  <1> QED BY <1>1, <1>4, <1>5, <1>6 DEF ShowsBuffer

\* A line of the ring is a text.
LEMMA LineType ==
    ASSUME RingOK, NEW p \in Slots
    PROVE  history_get(p) \in Texts
  BY RingIs DEF RingOK

\* A step that leaves the ring alone leaves its lines alone.
LEMMA SameLines ==
    ASSUME UNCHANGED ring, NEW p
    PROVE  history_get(p)' = history_get(p)
  BY DEF ring, history_get, history_oldest_index

\* The type invariant, when the ring is left alone.
LEMMA TypeFrom ==
    ASSUME TypeOK, UNCHANGED <<ring, stopped>>, cmd_buffer' \in Texts, current_line' \in Texts,
           pos' \in 0 .. Len(cmd_buffer'), history_position' \in 0 .. history_count,
           scrolled' \in BOOLEAN
    PROVE  TypeOK'
  BY DEF TypeOK, ring

\* Moving up shows the line before, and saves the user's own.
LEMMA UpKeeps ==
    ASSUME ShellInv, key_up
    PROVE  ShellInv'
  <1>1. /\ TypeOK /\ ShowsBuffer /\ UNCHANGED <<ring, stopped>> /\ scrolled' = FALSE
    BY DEF ShellInv, RecallShowsEntry, key_up, Event
  <1>2. CASE history_position = 0
    <2>1. UNCHANGED <<edit, walk>>
      BY <1>2 DEF key_up
    <2>2. TypeOK'
      BY <1>1, <2>1 DEF TypeOK, ring, edit, walk
    <2> QED BY <1>1, <2>1, <2>2, SameLines
            DEF ShellInv, RecallShowsEntry, ShowsBuffer, SavesDraft, AtDraft, edit, walk, ring
  <1>3. CASE history_position # 0
    <2>1. PICK p : p = history_position - 1
      OBVIOUS
    <2>2. /\ current_line' = Saved
          /\ draft' = IF AtDraft THEN shown ELSE draft
          /\ history_position' = p
          /\ shell_set_buffer(history_get(p))
      BY <1>3, <2>1 DEF key_up
    <2>3. /\ history_position \in Nat /\ history_count \in Nat /\ p \in Slots
          /\ history_position <= history_count /\ p \in 0 .. history_count /\ p # history_count
      BY <1>1, <1>3, <2>1, Sizes DEF TypeOK, Slots
    <2>4. history_get(p) \in Texts
      BY <1>1, <2>3, ShownIs, LineType
    <2>5. /\ shown' = history_get(p) /\ cmd_buffer' = history_get(p)
          /\ ShowsBuffer' /\ pos' \in 0 .. Len(cmd_buffer')
      BY <1>1, <2>2, <2>4, SetBufferIs
    <2>6. current_line' \in Texts
      BY <1>1, <2>2, ShownIs DEF Saved
    <2>7. TypeOK'
      BY <1>1, <2>2, <2>3, <2>4, <2>5, <2>6, TypeFrom
    <2>8. SavesDraft'
      <3>1. draft' # <<>> => current_line' = draft'
        BY <1>1, <2>2, ShownIs DEF Saved, SavesDraft, ShellInv
      <3> QED BY <3>1 DEF SavesDraft
    <2>9. shown' = history_get(history_position)'
      <3>1. history_get(p)' = history_get(p)
        BY <1>1, SameLines
      <3> QED BY <2>2, <2>5, <3>1 DEF history_get
    <2> QED BY <2>5, <2>7, <2>8, <2>9 DEF ShellInv, RecallShowsEntry
  <1> QED BY <1>2, <1>3

\* Moving down shows the line behind, or the user's own again.
LEMMA DownKeeps ==
    ASSUME ShellInv, key_down
    PROVE  ShellInv'
  <1>1. /\ TypeOK /\ ShowsBuffer /\ UNCHANGED <<ring, stopped>> /\ scrolled' = FALSE
    BY DEF ShellInv, RecallShowsEntry, key_down, Event
  <1>2. CASE history_position >= history_count
    <2>1. UNCHANGED <<edit, walk>>
      BY <1>2 DEF key_down
    <2>2. TypeOK'
      BY <1>1, <2>1 DEF TypeOK, ring, edit, walk
    <2> QED BY <1>1, <2>1, <2>2, SameLines
            DEF ShellInv, RecallShowsEntry, ShowsBuffer, SavesDraft, AtDraft, edit, walk, ring
  <1>3. CASE ~(history_position >= history_count)
    <2>1. PICK p : p = history_position + 1
      OBVIOUS
    <2>2. PICK text : text = IF p = history_count THEN current_line ELSE history_get(p)
      OBVIOUS
    <2>3. /\ history_position' = p
          /\ shell_set_buffer(text)
          /\ UNCHANGED <<current_line, draft>>
      BY <1>3, <2>1, <2>2 DEF key_down
    <2>4. /\ history_position \in Nat /\ history_count \in Nat
          /\ history_position < history_count /\ p \in 0 .. history_count
          /\ p # history_count => p \in Slots
      BY <1>1, <1>3, <2>1, Sizes DEF TypeOK, Slots
    <2>5. text \in Texts
      BY <1>1, <2>2, <2>4, ShownIs, LineType
    <2>6. /\ shown' = text /\ cmd_buffer' = text
          /\ ShowsBuffer' /\ pos' \in 0 .. Len(cmd_buffer')
      BY <1>1, <2>3, <2>5, SetBufferIs
    <2>7. TypeOK'
      BY <1>1, <2>3, <2>4, <2>5, <2>6, ShownIs, TypeFrom
    <2>8. ~AtDraft
      BY <2>4 DEF AtDraft
    <2>9. SavesDraft'
      BY <2>3, <2>8 DEF SavesDraft, ShellInv
    <2>10. ~AtDraft' => shown' = history_get(history_position)'
      <3>1. history_get(p)' = history_get(p)
        BY <1>1, SameLines
      <3>2. history_get(history_position)' = history_get(p)'
        BY <2>3 DEF history_get
      <3>3. ~AtDraft' => p # history_count
        BY <1>1, <2>3 DEF AtDraft, ring
      <3> QED BY <2>2, <2>6, <3>1, <3>2, <3>3
    <2> QED BY <2>6, <2>7, <2>9, <2>10 DEF ShellInv, RecallShowsEntry
  <1> QED BY <1>2, <1>3

\* Editing a line makes it the user's own, whatever the walk was at.
LEMMA LeaveIs ==
    ASSUME TypeOK, ShowsBuffer, LeaveRecall, UNCHANGED ring
    PROVE  /\ current_line' \in Texts /\ history_position' \in 0 .. history_count
           /\ AtDraft'
  <1>1. history_position' = history_count /\ history_count \in 0 .. HISTORY_SIZE
    BY DEF LeaveRecall, TypeOK
  <1>2. current_line' \in Texts
    BY ShownIs DEF LeaveRecall
  <1> QED BY <1>1, <1>2, Sizes DEF AtDraft, ring

\* A backspace takes the last character off the buffer and off the screen.
LEMMA BackspaceKeeps ==
    ASSUME ShellInv, key_backspace
    PROVE  ShellInv'
  <1>1. /\ TypeOK /\ ShowsBuffer /\ UNCHANGED <<ring, stopped>> /\ scrolled' = FALSE
    BY DEF ShellInv, RecallShowsEntry, key_backspace, Event
  <1>2. CASE pos = 0
    <2>1. UNCHANGED <<edit, walk>>
      BY <1>2 DEF key_backspace
    <2>2. TypeOK'
      BY <1>1, <2>1 DEF TypeOK, ring, edit, walk
    <2> QED BY <1>1, <2>1, <2>2, SameLines
            DEF ShellInv, RecallShowsEntry, ShowsBuffer, SavesDraft, AtDraft, edit, walk, ring
  <1>3. CASE pos # 0
    <2>1. /\ LeaveRecall
          /\ pos' = pos - 1
          /\ cmd_buffer' = SubSeq(cmd_buffer, 1, pos - 1)
          /\ shown' = SubSeq(shown, 1, Len(shown) - 1)
      BY <1>3 DEF key_backspace
    <2>2. /\ shown = cmd_buffer /\ pos = Len(cmd_buffer) /\ pos \in Nat
          /\ cmd_buffer \in Texts
      BY <1>1, <1>3, ShownIs
    <2>3. PICK n \in 0 .. Len(cmd_buffer) : n = pos - 1
      BY <1>3, <2>2
    <2>4. SubSeq(cmd_buffer, 1, n) \in Texts /\ Len(SubSeq(cmd_buffer, 1, n)) = n
      BY <2>2, <2>3, CutText
    <2>5. PICK text : text = SubSeq(cmd_buffer, 1, n)
      OBVIOUS
    <2>6. /\ cmd_buffer' = text /\ shown' = text /\ pos' = n
          /\ text \in Texts /\ Len(text) = n
      BY <2>1, <2>2, <2>3, <2>4, <2>5
    <2>7. text \in Seq(Typed) /\ n \in Nat /\ SubSeq(text, 1, n) = text
      BY <2>6, TextIs, SubSeqFull
    <2>8. ShowsBuffer' /\ pos' \in 0 .. Len(cmd_buffer')
      BY <2>6, <2>7 DEF ShowsBuffer
    <2>9. /\ current_line' \in Texts /\ history_position' \in 0 .. history_count
          /\ AtDraft'
      BY <1>1, <2>1, LeaveIs
    <2>10. TypeOK'
      BY <1>1, <2>6, <2>8, <2>9, TypeFrom
    <2> QED BY <2>8, <2>9, <2>10 DEF ShellInv, RecallShowsEntry, SavesDraft
  <1> QED BY <1>2, <1>3

\* A character is added to both, whatever the buffer holds behind the cursor.
LEMMA CharKeeps ==
    ASSUME ShellInv, NEW c \in Typed, key_char(c)
    PROVE  ShellInv'
  <1>1. /\ TypeOK /\ ShowsBuffer /\ UNCHANGED <<ring, stopped>> /\ scrolled' = FALSE
    BY DEF ShellInv, RecallShowsEntry, key_char, Event
  <1>2. CASE ~HasRoom
    <2>1. UNCHANGED <<edit, walk>>
      BY <1>2 DEF key_char
    <2>2. TypeOK'
      BY <1>1, <2>1 DEF TypeOK, ring, edit, walk
    <2> QED BY <1>1, <2>1, <2>2, SameLines
            DEF ShellInv, RecallShowsEntry, ShowsBuffer, SavesDraft, AtDraft, edit, walk, ring
  <1>3. CASE HasRoom
    <2>1. /\ LeaveRecall
          /\ pos' = pos + 1
          /\ cmd_buffer' = Append(SubSeq(cmd_buffer, 1, pos), c)
          /\ shown' = Append(shown, c)
      BY <1>3 DEF key_char
    <2>2. shown \in Texts /\ Len(shown) = pos /\ pos \in Nat
      BY <1>1, ShownIs
    <2>3. shown = SubSeq(cmd_buffer, 1, pos)
      BY <1>1 DEF ShowsBuffer
    <2>4. shown \in Seq(Typed)
      BY <2>2, TextIs
    <2>5. PICK text : text = Append(shown, c)
      OBVIOUS
    <2>6. text \in Seq(Typed) /\ Len(text) = pos + 1
      BY <2>2, <2>4, <2>5, AppendProperties
    <2>7. text \in Texts
      BY <1>3, <2>6, TextOf DEF HasRoom
    <2>8. cmd_buffer' = text /\ shown' = text /\ pos' = Len(text)
      BY <2>1, <2>3, <2>5, <2>6
    <2>9. SubSeq(text, 1, Len(text)) = text
      BY <2>6, SubSeqFull
    <2>10. ShowsBuffer' /\ pos' \in 0 .. Len(cmd_buffer')
      BY <2>2, <2>6, <2>8, <2>9 DEF ShowsBuffer
    <2>11. /\ current_line' \in Texts /\ history_position' \in 0 .. history_count
           /\ AtDraft'
      BY <1>1, <2>1, LeaveIs
    <2>12. TypeOK'
      BY <1>1, <2>7, <2>8, <2>10, <2>11, TypeFrom
    <2> QED BY <2>10, <2>11, <2>12 DEF ShellInv, RecallShowsEntry, SavesDraft
  <1> QED BY <1>2, <1>3

\* Enter ends any walk, and what the parser leaves in the buffer is not shown.
LEMMA EnterKeeps ==
    ASSUME ShellInv, key_enter
    PROVE  ShellInv'
  <1>1. TypeOK /\ ShowsBuffer /\ scrolled' = FALSE
    BY DEF ShellInv, RecallShowsEntry, key_enter, Event
  <1>2. shown \in Texts /\ Entered = shown /\ RingOK
    BY <1>1, ShownIs
  <1>3. /\ history_add(shown)
        /\ cmd_buffer' = Remains(shown) /\ pos' = 0 /\ shown' = <<>>
        /\ history_position' = history_count' /\ current_line' = <<>>
        /\ stopped' = (Command(shown) \in Stopping)
    BY <1>2 DEF key_enter, command_runs
  <1>4. RingOK'
    BY <1>2, <1>3, AddIs
  <1>5. cmd_buffer' \in Texts /\ Len(cmd_buffer') \in Nat
    BY <1>2, <1>3, RemainsText, TextIs
  <1>6. stopped' \in BOOLEAN
    <2>1. PICK stops : stops = (Command(shown) \in Stopping)
      OBVIOUS
    <2>2. stops \in BOOLEAN
      BY <2>1
    <2> QED BY <1>3, <2>1, <2>2
  <1>7. TypeOK'
    <2>1. current_line' \in Texts
      BY <1>3, EmptyText
    <2>2. pos' \in 0 .. Len(cmd_buffer')
      BY <1>3, <1>5
    <2>3. history_position' \in 0 .. history_count'
      BY <1>3, <1>4, Sizes DEF RingOK
    <2> QED BY <1>1, <1>4, <1>5, <1>6, <2>1, <2>2, <2>3 DEF TypeOK, RingOK
  <1>8. ShowsBuffer'
    BY <1>3, SubSeqEmpty DEF ShowsBuffer
  <1>9. AtDraft'
    BY <1>3 DEF AtDraft
  <1> QED BY <1>7, <1>8, <1>9 DEF ShellInv, RecallShowsEntry, SavesDraft

\* Nothing else touches a line.
LEMMA ScrollKeeps ==
    ASSUME ShellInv, scroll_view \/ UNCHANGED vars
    PROVE  ShellInv'
  <1>1. UNCHANGED <<edit, ring, walk, stopped>> /\ TypeOK
    BY DEF scroll_view, vars, ShellInv, RecallShowsEntry
  <1>2. scrolled' \in BOOLEAN
    BY <1>1 DEF scroll_view, vars, TypeOK
  <1>3. TypeOK'
    BY <1>1, <1>2 DEF TypeOK, edit, ring, walk
  <1> QED BY <1>1, <1>3, SameLines
          DEF ShellInv, RecallShowsEntry, ShowsBuffer, SavesDraft, AtDraft, edit, walk, ring

\* The invariant holds at the first prompt.
LEMMA Initially == Init => ShellInv
  <1> SUFFICES ASSUME Init PROVE ShellInv
    OBVIOUS
  <1>1. history \in [Slots -> Texts]
    BY EmptyText DEF Init
  <1>2. cmd_buffer \in Texts /\ current_line \in Texts /\ Len(cmd_buffer) = 0
    BY EmptyText DEF Init
  <1>3. TypeOK
    BY <1>1, <1>2, Sizes DEF Init, TypeOK, Slots
  <1>4. ShowsBuffer
    BY SubSeqEmpty DEF Init, ShowsBuffer
  <1> QED BY <1>3, <1>4 DEF Init, ShellInv, RecallShowsEntry, SavesDraft, AtDraft

\* Every event of the loop keeps it.
LEMMA Inductive == ShellInv /\ [Next]_vars => ShellInv'
  BY UpKeeps, DownKeeps, BackspaceKeeps, CharKeeps, EnterKeeps, ScrollKeeps DEF Next, Typed

\* The invariant behind the properties of the shell.
LEMMA Invariant == Spec => []ShellInv
  BY Initially, Inductive, PTL DEF Spec

\* A walk through the history shows the line it has reached, whatever was
\* edited, entered or forgotten before, and every string fits its buffer.
THEOREM Recall == Spec => []RecallShowsEntry
  <1>1. ShellInv => RecallShowsEntry
    BY DEF ShellInv
  <1> QED BY <1>1, Invariant, PTL
-----------------------------------------------------------------------------
(* What a step does.                                                       *)

\* What Enter executes is what the screen shows, not what is left in the buffer.
THEOREM Execution == Spec => ExecutesShown
  <1> DEFINE Step == IF event' = "enter"
                       THEN executed' = Command(shown)
                              /\ stopped' = (Command(shown) \in Stopping)
                       ELSE UNCHANGED <<executed, stopped>>
  <1>1. ShellInv /\ [Next]_vars => [Step]_vars
    <2> SUFFICES ASSUME ShellInv, Next PROVE Step
      OBVIOUS
    <2>1. Entered = shown
      BY ShownIs DEF ShellInv, RecallShowsEntry
    <2>2. CASE key_enter
      BY <2>1, <2>2 DEF key_enter, Event, command_runs
    <2>3. CASE key_up \/ key_down \/ key_backspace \/ scroll_view
      BY <2>3 DEF key_up, key_down, key_backspace, scroll_view, Event
    <2>4. CASE \E c \in Typed : key_char(c)
      BY <2>4 DEF key_char, Event
    <2> QED BY <2>2, <2>3, <2>4 DEF Next
  <1> QED BY <1>1, Invariant, PTL DEF Spec, ExecutesShown

\* Going up into the history and down again brings back the line being typed.
THEOREM Draft == Spec => DraftRestored
  <1> DEFINE Step == event' = "DOWN" /\ ~AtDraft /\ AtDraft' /\ draft # <<>> => shown' = draft
  <1>1. ShellInv /\ [Next]_vars => [Step]_vars
    <2> SUFFICES ASSUME ShellInv, Next, event' = "DOWN", ~AtDraft, AtDraft', draft # <<>>
                 PROVE  shown' = draft
      OBVIOUS
    <2>1. key_down
      BY DEF Next, key_up, key_char, key_backspace, key_enter, scroll_view, Event
    <2>2. TypeOK /\ ShowsBuffer /\ current_line = draft /\ UNCHANGED ring
      BY <2>1 DEF ShellInv, RecallShowsEntry, SavesDraft, key_down
    <2>3. ~(history_position >= history_count)
      BY <2>2 DEF AtDraft, TypeOK
    <2>4. /\ history_position' = history_position + 1
          /\ shell_set_buffer(IF history_position + 1 = history_count
                                THEN current_line
                                ELSE history_get(history_position + 1))
      BY <2>1, <2>3 DEF key_down
    <2>5. history_position + 1 = history_count
      BY <2>2, <2>4 DEF AtDraft, ring
    <2>6. shell_set_buffer(current_line)
      BY <2>4, <2>5 DEF shell_set_buffer
    <2>7. PICK text : text = current_line
      OBVIOUS
    <2>8. text \in Texts /\ shell_set_buffer(text)
      BY <2>2, <2>6, <2>7, ShownIs DEF shell_set_buffer
    <2> QED BY <2>2, <2>7, <2>8, SetBufferIs
  <1> QED BY <1>1, Invariant, PTL DEF Spec, DraftRestored

\* The remembered lines as a sequence.
LEMMA RememberedIs ==
    RingOK => /\ Remembered \in Seq(Texts) /\ Len(Remembered) = history_count
              /\ history_count \in 0 .. HISTORY_SIZE
              /\ \A k \in 1 .. history_count : Remembered[k] = history_get(k - 1)
  <1> SUFFICES ASSUME RingOK
               PROVE  /\ Remembered \in Seq(Texts) /\ Len(Remembered) = history_count
                      /\ history_count \in 0 .. HISTORY_SIZE
                      /\ \A k \in 1 .. history_count : Remembered[k] = history_get(k - 1)
    OBVIOUS
  <1>1. history_count \in Nat /\ history_count \in 0 .. HISTORY_SIZE
    BY Sizes DEF RingOK
  <1>2. \A k \in 1 .. history_count : k - 1 \in Slots
    BY <1>1, Sizes DEF Slots
  <1>3. \A k \in 1 .. history_count : history_get(k - 1) \in Texts
    BY <1>2, LineType
  <1>4. Remembered \in [1 .. history_count -> Texts]
    BY <1>3 DEF Remembered
  <1>5. Remembered \in Seq(Texts)
    BY <1>1, <1>4, SeqDef
  <1>6. Len(Remembered) = history_count
    BY <1>1, <1>4, <1>5, LenProperties
  <1> QED BY <1>1, <1>5, <1>6 DEF Remembered

\* The same of the next state.
LEMMA RememberedIsNext ==
    RingOK' => /\ Remembered' \in Seq(Texts) /\ Len(Remembered') = history_count'
               /\ history_count' \in 0 .. HISTORY_SIZE
               /\ \A k \in 1 .. history_count' : Remembered'[k] = history_get(k - 1)'
  <1>1. (RingOK => /\ Remembered \in Seq(Texts) /\ Len(Remembered) = history_count
                   /\ history_count \in 0 .. HISTORY_SIZE
                   /\ \A k \in 1 .. history_count : Remembered[k] = history_get(k - 1))'
    BY RememberedIs, PTL
  <1> QED BY <1>1

\* The last element of a sequence.
LEMMA LastOne ==
    ASSUME NEW S, NEW s \in Seq(S)
    PROVE  LastOf(s, 1) = IF Len(s) = 0 THEN <<>> ELSE << s[Len(s)] >>
  <1>1. Len(s) \in Nat
    BY LenProperties
  <1>2. CASE Len(s) = 0
    <2>1. LastOf(s, 1) = SubSeq(s, 1, 0)
      BY <1>2 DEF LastOf
    <2> QED BY <1>2, <2>1, SubSeqEmpty
  <1>3. CASE Len(s) # 0
    <2>1. PICK n \in 1 .. Len(s) : n = Len(s)
      BY <1>1, <1>3
    <2>2. LastOf(s, 1) = SubSeq(s, n, n)
      <3>1. (IF Len(s) > 1 THEN Len(s) - 1 + 1 ELSE 1) = n
        BY <1>1, <1>3, <2>1
      <3> QED BY <2>1, <3>1, Zenon DEF LastOf
    <2>3. s[n] \in S
      BY <2>1, ElementOfSeq
    <2>4. /\ SubSeq(s, n, n) \in Seq(S) /\ Len(SubSeq(s, n, n)) = 1
          /\ SubSeq(s, n, n)[1] = s[n]
      <3>1. n \in Int /\ \A i \in n .. n : s[i] \in S
        BY <1>1, <2>1, <2>3
      <3>2. /\ SubSeq(s, n, n) \in Seq(S)
            /\ Len(SubSeq(s, n, n)) = IF n <= n THEN n - n + 1 ELSE 0
            /\ \A i \in 1 .. n - n + 1 : SubSeq(s, n, n)[i] = s[n + i - 1]
        BY <3>1, SubSeqProperties
      <3> QED BY <3>1, <3>2
    <2>5. << s[n] >> \in Seq(S) /\ Len(<< s[n] >>) = 1 /\ << s[n] >>[1] = s[n]
      BY <2>3
    <2>6. SubSeq(s, n, n) = << s[n] >>
      <3>1. PICK t : t = << s[n] >>
        OBVIOUS
      <3>2. t \in Seq(S) /\ Len(t) = Len(SubSeq(s, n, n))
            /\ \A i \in 1 .. Len(t) : t[i] = SubSeq(s, n, n)[i]
        BY <2>4, <2>5, <3>1
      <3> QED BY <2>4, <3>1, <3>2, SeqEqual
    <2> QED BY <1>3, <2>1, <2>2, <2>6
  <1> QED BY <1>2, <1>3

\* The last n elements of a sequence that may be one too long.
LEMMA LastMany ==
    ASSUME NEW S, NEW s \in Seq(S), NEW n \in Nat \ {0}, Len(s) <= n + 1
    PROVE  /\ LastOf(s, n) \in Seq(S)
           /\ Len(s) <= n => LastOf(s, n) = s
           /\ Len(s) = n + 1 => /\ Len(LastOf(s, n)) = n
                                /\ \A i \in 1 .. n : LastOf(s, n)[i] = s[i + 1]
  <1>1. Len(s) \in Nat
    BY LenProperties
  <1>2. CASE Len(s) <= n
    <2>1. LastOf(s, n) = SubSeq(s, 1, Len(s))
      <3>1. (IF Len(s) > n THEN Len(s) - n + 1 ELSE 1) = 1
        BY <1>1, <1>2
      <3> QED BY <3>1, Zenon DEF LastOf
    <2>2. LastOf(s, n) = s
      BY <2>1, SubSeqFull
    <2> QED BY <1>1, <1>2, <2>2
  <1>3. CASE Len(s) = n + 1
    <2>1. LastOf(s, n) = SubSeq(s, 2, n + 1)
      BY <1>1, <1>3 DEF LastOf
    <2>2. \A i \in 2 .. n + 1 : s[i] \in S
      <3>1. \A i \in 2 .. n + 1 : i \in 1 .. Len(s)
        BY <1>3
      <3> QED BY <3>1, ElementOfSeq
    <2>3. PICK m \in Int : m = n + 1
      OBVIOUS
    <2>4. /\ SubSeq(s, 2, m) \in Seq(S)
          /\ Len(SubSeq(s, 2, m)) = IF 2 <= m THEN m - 2 + 1 ELSE 0
          /\ \A i \in 1 .. m - 2 + 1 : SubSeq(s, 2, m)[i] = s[2 + i - 1]
      BY <2>2, <2>3, SubSeqProperties
    <2>5. Len(LastOf(s, n)) = n
      BY <2>1, <2>3, <2>4
    <2>6. ASSUME NEW i \in 1 .. n PROVE LastOf(s, n)[i] = s[i + 1]
      <3>1. i \in 1 .. m - 2 + 1 /\ 2 + i - 1 = i + 1
        BY <2>3
      <3> QED BY <2>1, <2>3, <2>4, <3>1
    <2> QED BY <1>3, <2>1, <2>3, <2>4, <2>5, <2>6
  <1> QED BY <1>1, <1>2, <1>3

\* Enter remembers the line that is shown, in its place.
LEMMA EnterRemembers ==
    ASSUME ShellInv, key_enter
    PROVE  Remembered' = IF shown # <<>> /\ LastOf(Remembered, 1) # << shown >>
                           THEN LastOf(Append(Remembered, shown), HISTORY_SIZE)
                           ELSE Remembered
  <1>1. shown \in Texts /\ Entered = shown /\ RingOK
    BY ShownIs DEF ShellInv, RecallShowsEntry
  <1>2. PICK entry \in Texts : entry = shown
    BY <1>1
  <1>3. history_add(entry)
    BY <1>1, <1>2 DEF key_enter, history_add
  <1>4. /\ RingOK'
        /\ IF \/ entry = <<>>
              \/ history_count > 0 /\ history_get(history_count - 1) = entry
             THEN UNCHANGED ring ELSE Added(entry)
    BY <1>1, <1>3, AddIs
  <1>5. /\ Remembered \in Seq(Texts) /\ Len(Remembered) = history_count
        /\ history_count \in 0 .. HISTORY_SIZE
        /\ \A k \in 1 .. history_count : Remembered[k] = history_get(k - 1)
    BY <1>1, RememberedIs
  <1>6. /\ Remembered' \in Seq(Texts) /\ Len(Remembered') = history_count'
        /\ history_count' \in 0 .. HISTORY_SIZE
        /\ \A k \in 1 .. history_count' : Remembered'[k] = history_get(k - 1)'
    BY <1>4, RememberedIsNext
  <1>7. history_count \in Nat /\ HISTORY_SIZE \in Nat \ {0} /\ history_count <= HISTORY_SIZE
    BY <1>5, Sizes
  <1>8. LastOf(Remembered, 1) = << entry >>
          <=> history_count > 0 /\ history_get(history_count - 1) = entry
    <2>1. LastOf(Remembered, 1) = IF history_count = 0 THEN <<>>
                                  ELSE << Remembered[history_count] >>
      BY <1>5, LastOne
    <2>2. CASE history_count = 0
      <3>1. <<>> # << entry >>
        OBVIOUS
      <3> QED BY <1>7, <2>1, <2>2, <3>1
    <2>3. CASE history_count # 0
      <3>1. Remembered[history_count] = history_get(history_count - 1) /\ history_count > 0
        BY <1>5, <1>7, <2>3
      <3> QED BY <2>1, <2>3, <3>1
    <2> QED BY <2>2, <2>3
  <1>9. CASE entry = <<>> \/ LastOf(Remembered, 1) = << entry >>
    <2>1. UNCHANGED ring
      BY <1>4, <1>8, <1>9
    <2>2. Remembered' = Remembered
      BY <2>1 DEF Remembered, ring, history_get, history_oldest_index
    <2> QED BY <1>2, <1>9, <2>2
  <1>10. CASE ~(entry = <<>> \/ LastOf(Remembered, 1) = << entry >>)
    <2>1. Added(entry)
      BY <1>4, <1>8, <1>10
    <2>2. PICK longer : longer = Append(Remembered, entry)
      OBVIOUS
    <2>3. /\ longer \in Seq(Texts) /\ Len(longer) = history_count + 1
          /\ \A i \in 1 .. history_count : longer[i] = Remembered[i]
          /\ longer[history_count + 1] = entry
      BY <1>5, <2>2, AppendProperties
    <2>4. /\ LastOf(longer, HISTORY_SIZE) \in Seq(Texts)
          /\ Len(longer) <= HISTORY_SIZE => LastOf(longer, HISTORY_SIZE) = longer
          /\ Len(longer) = HISTORY_SIZE + 1 =>
               /\ Len(LastOf(longer, HISTORY_SIZE)) = HISTORY_SIZE
               /\ \A i \in 1 .. HISTORY_SIZE : LastOf(longer, HISTORY_SIZE)[i] = longer[i + 1]
      <3>1. Len(longer) <= HISTORY_SIZE + 1
        BY <1>7, <2>3
      <3> QED BY <1>7, <2>3, <3>1, LastMany
    <2>5. PICK kept : kept = LastOf(longer, HISTORY_SIZE)
      OBVIOUS
    <2>6. kept \in Seq(Texts) /\ Len(kept) = Len(Remembered')
      BY <1>6, <1>7, <2>1, <2>3, <2>4, <2>5 DEF Added
    <2>7. ASSUME NEW k \in 1 .. Len(Remembered')
          PROVE  Remembered'[k] = kept[k]
      <3>1. /\ k \in 1 .. history_count' /\ k - 1 \in Slots /\ k \in Nat
            /\ Remembered'[k] = history_get(k - 1)'
        BY <1>6, <1>7 DEF Slots
      <3>2. PICK p \in Slots : p = k - 1
        BY <3>1
      <3>3. /\ p < history_count' - 1 =>
                 history_get(p)' = IF history_count < HISTORY_SIZE
                                     THEN history_get(p) ELSE history_get(p + 1)
            /\ p = history_count' - 1 => history_get(p)' = entry
            /\ history_count' = IF history_count < HISTORY_SIZE
                                  THEN history_count + 1 ELSE HISTORY_SIZE
        BY <2>1 DEF Added
      <3>4. history_get(k - 1)' = history_get(p)'
        BY <3>2 DEF history_get, history_oldest_index
      <3>5. CASE history_count < HISTORY_SIZE
        <4>1. kept = longer
          BY <1>7, <2>3, <2>4, <2>5, <3>5
        <4>2. CASE k = history_count + 1
          BY <1>7, <2>3, <3>1, <3>2, <3>3, <3>4, <3>5, <4>1, <4>2
        <4>3. CASE k # history_count + 1
          <5>1. k \in 1 .. history_count /\ p < history_count' - 1
            BY <1>7, <3>1, <3>2, <3>3, <3>5, <4>3
          <5>2. longer[k] = history_get(p)
            BY <1>5, <2>3, <3>2, <5>1
          <5> QED BY <3>1, <3>3, <3>4, <3>5, <4>1, <5>1, <5>2
        <4> QED BY <4>2, <4>3
      <3>6. CASE history_count = HISTORY_SIZE
        <4>1. kept[k] = longer[k + 1]
          BY <1>7, <2>3, <2>4, <2>5, <3>1, <3>3, <3>6
        <4>2. CASE k = HISTORY_SIZE
          BY <1>7, <2>3, <3>1, <3>2, <3>3, <3>4, <3>6, <4>1, <4>2
        <4>3. CASE k # HISTORY_SIZE
          <5>1. k + 1 \in 1 .. history_count /\ p < history_count' - 1 /\ p + 1 = (k + 1) - 1
            BY <1>7, <3>1, <3>2, <3>3, <3>6, <4>3
          <5>2. longer[k + 1] = history_get(p + 1)
            BY <1>5, <2>3, <5>1
          <5> QED BY <1>7, <3>1, <3>3, <3>4, <3>6, <4>1, <5>1, <5>2
        <4> QED BY <4>2, <4>3
      <3> QED BY <1>7, <3>5, <3>6
    <2>8. Remembered' = kept
      BY <1>6, <2>6, <2>7, SeqEqual
    <2> QED BY <1>2, <1>10, <2>2, <2>5, <2>8
  <1> QED BY <1>2, <1>9, <1>10

\* The ring is the list of the lines entered last, for every size of it.
THEOREM Memory == Spec => RemembersRecent
  <1> DEFINE Step == Remembered' =
                       IF event' = "enter" /\ shown # <<>> /\ LastOf(Remembered, 1) # << shown >>
                         THEN LastOf(Append(Remembered, shown), HISTORY_SIZE)
                         ELSE Remembered
  <1>1. ShellInv /\ [Next]_vars => [Step]_vars
    <2> SUFFICES ASSUME ShellInv, Next PROVE Step
      OBVIOUS
    <2>1. CASE key_enter
      <3>1. event' = "enter"
        BY <2>1 DEF key_enter, Event
      <3> QED BY <2>1, <3>1, EnterRemembers
    <2>2. CASE ~key_enter
      <3>1. event' # "enter" /\ UNCHANGED ring
        BY <2>2 DEF Next, key_up, key_down, key_char, key_backspace, scroll_view, Event
      <3>2. Remembered' = Remembered
        BY <3>1 DEF Remembered, ring, history_get, history_oldest_index
      <3> QED BY <3>1, <3>2
    <2> QED BY <2>1, <2>2
  <1> QED BY <1>1, Invariant, PTL DEF Spec, RemembersRecent

-----------------------------------------------------------------------------
(* The command line, modules ShellParser and CommandLine.                  *)

LEMMA Chars == NUL # Space /\ NUL \notin Typed /\ MAX_ARGS \in Nat
  BY ParserAssumption DEF NUL, Space, Typed

\* A set of numbers that is not empty has a least element.
LEMMA Least ==
    ASSUME NEW S, S \subseteq Nat, S # {}
    PROVE  Min(S) \in S /\ \A y \in S : Min(S) <= y
  <1>1. PICK x \in S : \A y \in S : ~(<<y, x>> \in OpToRel(<, Nat))
    BY WFMin, NatLessThanWellFounded
  <1>2. ASSUME NEW y \in S PROVE x <= y
    <2>1. x \in Nat /\ y \in Nat
      OBVIOUS
    <2>2. ~(<<y, x>> \in OpToRel(<, Nat))
      BY <1>1
    <2>3. ~(y < x)
      BY <2>1, <2>2 DEF OpToRel
    <2> QED BY <2>1, <2>3
  <1>3. \E z \in S : \A y \in S : z <= y
    BY <1>2
  <1> QED BY <1>3 DEF Min

\* The first index from p to n that is in the set I of those that end a loop.
First(x, I, p, n) ==
    /\ x \in Nat /\ p <= x /\ x <= n /\ x \in I
    /\ \A r \in p .. n : r < x => r \notin I

LEMMA FirstIs ==
    ASSUME NEW n \in Nat, NEW p \in 1 .. n, NEW I, I \subseteq p .. n, n \in I
    PROVE  First(IF I # {} THEN Min(I) ELSE 0, I, p, n)
  <1>1. I \subseteq Nat /\ I # {} /\ p \in Nat
    OBVIOUS
  <1>2. Min(I) \in I /\ \A y \in I : Min(I) <= y
    BY <1>1, Least
  <1>3. PICK x \in p .. n : x = Min(I)
    BY <1>2
  <1>4. \A r \in p .. n : r < x => r \notin I
    BY <1>2, <1>3
  <1> QED BY <1>1, <1>2, <1>3, <1>4 DEF First

\* A line in memory: the characters, of which the last is NUL.
InMemory(b, n) == b \in Seq(Typed \cup {NUL}) /\ n = Len(b) /\ n \in Nat \ {0} /\ b[n] = NUL

\* Where the three loops over the line end.
LEMMA SkipIs ==
    ASSUME NEW n, InMemory(buffer, n), NEW p \in 1 .. n
    PROVE  /\ First(SkipSpaces(p), {i \in p .. n : buffer[i] # Space}, p, n)
           /\ First(SkipWord(p), {i \in p .. n : buffer[i] \in {NUL, Space}}, p, n)
           /\ First(SkipWhile(p, Typed), {i \in p .. n : buffer[i] \notin Typed}, p, n)
  <1> DEFINE A == {i \in p .. n : buffer[i] # Space}
             B == {i \in p .. n : buffer[i] \in {NUL, Space}}
             C == {i \in p .. n : buffer[i] \notin Typed}
  <1>1. n \in Nat /\ n = Len(buffer) /\ n \in p .. n /\ buffer[n] = NUL
    BY DEF InMemory
  <1>2. n \in A /\ n \in B /\ n \in C
    BY <1>1, Chars
  <1>3. A \subseteq p .. n /\ B \subseteq p .. n /\ C \subseteq p .. n
    OBVIOUS
  <1>4. SkipSpaces(p) = IF A # {} THEN Min(A) ELSE 0
    <2>1. {i \in p .. n : buffer[i] \notin {Space}} = A
      OBVIOUS
    <2> QED BY <1>1, <2>1, Chars DEF SkipSpaces, SkipWhile, SelectInSubSeq
  <1>5. SkipWord(p) = IF B # {} THEN Min(B) ELSE 0
    BY <1>1, Chars DEF SkipWord, SelectInSubSeq
  <1>6. SkipWhile(p, Typed) = IF C # {} THEN Min(C) ELSE 0
    BY <1>1 DEF SkipWhile, SelectInSubSeq
  <1> HIDE DEF A, B, C
  <1>7. First(SkipSpaces(p), A, p, n)
    BY <1>1, <1>2, <1>3, <1>4, FirstIs
  <1>8. First(SkipWord(p), B, p, n)
    BY <1>1, <1>2, <1>3, <1>5, FirstIs
  <1>9. First(SkipWhile(p, Typed), C, p, n)
    BY <1>1, <1>2, <1>3, <1>6, FirstIs
  <1> QED BY <1>7, <1>8, <1>9 DEF A, B, C

\* The words of a line start where Starts says, and before place p.
StartsOf(l) == {p \in 1 .. Len(l) : l[p] # Space /\ (p = 1 \/ l[p - 1] = Space)}
Before(l, p) == {q \in StartsOf(l) : q < p}

\* The word that starts at p ends before e.
Ends(l, p, e) ==
    /\ p \in Nat /\ e \in Nat /\ 1 <= p /\ p < e /\ e <= Len(l) + 1
    /\ \A r \in p .. e - 1 : l[r] # Space
    /\ e = Len(l) + 1 \/ l[e] = Space

\* It has been cut out of the line: in memory b it is a string of its own.
IsCut(l, b, p, e) ==
    Ends(l, p, e) /\ b[e] = NUL /\ \A r \in p .. e - 1 : b[r] = l[r]

\* p points to word number k, which has been cut out before place i.
Placed(l, b, i, k, p) ==
    /\ p \in StartsOf(l) /\ Cardinality(Before(l, p)) = k
    /\ \E e \in 1 .. i : IsCut(l, b, p, e)

LEMMA StartsFinite ==
    ASSUME NEW l \in Seq(Typed), NEW p
    PROVE  /\ IsFiniteSet(StartsOf(l)) /\ IsFiniteSet(Before(l, p))
           /\ Cardinality(StartsOf(l)) \in Nat /\ Cardinality(Before(l, p)) \in Nat
           /\ Cardinality(Before(l, p)) <= Cardinality(StartsOf(l))
  <1>1. IsFiniteSet(1 .. Len(l))
    BY FS_Interval
  <1>2. StartsOf(l) \subseteq 1 .. Len(l) /\ Before(l, p) \subseteq StartsOf(l)
    BY DEF StartsOf, Before
  <1>3. IsFiniteSet(StartsOf(l))
    BY <1>1, <1>2, FS_Subset
  <1> QED BY <1>2, <1>3, FS_Subset, FS_CardinalityType

\* A word more, and no two words have the same number.
LEMMA BeforeMore ==
    ASSUME NEW l \in Seq(Typed), NEW p \in StartsOf(l), NEW q \in Nat, p < q
    PROVE  Cardinality(Before(l, p)) < Cardinality(Before(l, q))
  <1>1. Before(l, p) \subseteq Before(l, q) /\ p \in Before(l, q) /\ p \notin Before(l, p)
    BY DEF Before, StartsOf
  <1>2. IsFiniteSet(Before(l, q)) /\ Before(l, p) # Before(l, q)
    BY <1>1, StartsFinite
  <1>3. Cardinality(Before(l, p)) <= Cardinality(Before(l, q))
        /\ Cardinality(Before(l, p)) # Cardinality(Before(l, q))
    BY <1>1, <1>2, FS_Subset
  <1>4. Cardinality(Before(l, p)) \in Nat /\ Cardinality(Before(l, q)) \in Nat
    BY StartsFinite
  <1> QED BY <1>3, <1>4

LEMMA NumberUnique ==
    ASSUME NEW l \in Seq(Typed), NEW p \in StartsOf(l), NEW q \in StartsOf(l),
           Cardinality(Before(l, p)) = Cardinality(Before(l, q))
    PROVE  p = q
  <1>1. p \in Nat /\ q \in Nat
    BY DEF StartsOf
  <1>2. Cardinality(Before(l, p)) \in Nat /\ Cardinality(Before(l, q)) \in Nat
    BY StartsFinite
  <1>3. ~(p < q) /\ ~(q < p)
    BY <1>1, <1>2, BeforeMore
  <1> QED BY <1>1, <1>3

\* A word ends at one place only.
LEMMA EndUnique ==
    ASSUME NEW l \in Seq(Typed), NEW p, NEW e, NEW f, Ends(l, p, e), Ends(l, p, f)
    PROVE  e = f
  <1>1. ASSUME NEW x \in Nat, NEW y \in Nat, Ends(l, p, x), Ends(l, p, y), x < y PROVE FALSE
    <2>1. Len(l) \in Nat /\ p \in Nat
      BY DEF Ends
    <2>2. x \in p .. y - 1 /\ x # Len(l) + 1
      BY <1>1, <2>1 DEF Ends
    <2> QED BY <1>1, <2>2 DEF Ends
  <1>2. e \in Nat /\ f \in Nat
    BY DEF Ends
  <1> QED BY <1>1, <1>2

\* The word at p, as the typed line has it.
LEMMA WordIs ==
    ASSUME line \in Seq(Typed), NEW p, NEW e, Ends(line, p, e)
    PROVE  WordAt(p) = SubSeq(line, p, e - 1)
  <1> DEFINE Q(q) == /\ \A r \in p .. q : line[r] # Space
                     /\ q = Len(line) \/ line[q + 1] = Space
  <1>1. p \in Nat /\ e \in Nat /\ Len(line) \in Nat /\ p < e /\ e <= Len(line) + 1 /\ 1 <= p
    BY DEF Ends
  <1>2. PICK d \in p .. Len(line) : d = e - 1 /\ e = d + 1
    BY <1>1
  <1>3. Q(d)
    BY <1>1, <1>2 DEF Ends
  <1>4. ASSUME NEW q \in p .. Len(line), Q(q) PROVE q = d
    <2>1. q + 1 \in Nat /\ (q + 1) - 1 = q /\ p < q + 1 /\ q + 1 <= Len(line) + 1
      BY <1>1
    <2>2. Ends(line, p, q + 1)
      BY <1>1, <1>4, <2>1 DEF Ends
    <2>3. q + 1 = e
      BY <2>2, EndUnique
    <2> QED BY <1>1, <1>2, <2>3
  <1>5. WordAt(p) = SubSeq(line, p, CHOOSE q \in p .. Len(line) : Q(q))
    BY Chars DEF WordAt
  <1>6. (CHOOSE q \in p .. Len(line) : Q(q)) = d
    <2> HIDE DEF Q
    <2> QED BY <1>3, <1>4
  <1> QED BY <1>2, <1>5, <1>6

\* Word number k in Words.
LEMMA WordsIs ==
    ASSUME line \in Seq(Typed)
    PROVE  /\ DOMAIN Words = 1 .. Cardinality(StartsOf(line))
           /\ Words \in Seq(Range(Words)) /\ Len(Words) = Cardinality(StartsOf(line))
           /\ \A p \in StartsOf(line), k \in Nat :
                Cardinality(Before(line, p)) = k
                  => k + 1 \in 1 .. Cardinality(StartsOf(line)) /\ Words[k + 1] = WordAt(p)
  <1>1. Starts = StartsOf(line)
    BY Chars DEF Starts, StartsOf
  <1> DEFINE Rank(p) == Cardinality({q \in Starts : q < p})
  <1>2. Words = [k \in 1 .. Cardinality(StartsOf(line)) |->
                        WordAt(CHOOSE p \in Starts : Rank(p) = k - 1)]
    BY <1>1 DEF Words
  <1>7. \A p : Rank(p) = Cardinality(Before(line, p))
    BY <1>1 DEF Before
  <1> HIDE DEF Rank
  <1>3. PICK n \in Nat : n = Cardinality(StartsOf(line))
    BY StartsFinite
  <1>4. DOMAIN Words = 1 .. n
    BY <1>2, <1>3
  <1>5. ASSUME NEW p \in StartsOf(line), NEW k \in Nat, Cardinality(Before(line, p)) = k
        PROVE  k + 1 \in 1 .. n /\ Words[k + 1] = WordAt(p)
    <2>1. Len(line) + 1 \in Nat /\ p < Len(line) + 1
      BY DEF StartsOf
    <2>2. k < Cardinality(Before(line, Len(line) + 1))
      BY <1>5, <2>1, BeforeMore
    <2>3. Cardinality(Before(line, Len(line) + 1)) <= n /\ Cardinality(Before(line, Len(line) + 1)) \in Nat
      BY <1>3, StartsFinite
    <2>4. k + 1 \in 1 .. n /\ (k + 1) - 1 = k
      BY <2>2, <2>3
    <2>5. (CHOOSE q \in Starts : Rank(q) = (k + 1) - 1) = p
      <3>1. p \in Starts /\ Rank(p) = (k + 1) - 1
        BY <1>1, <1>7, <1>5, <2>4
      <3>2. \A q \in Starts : Rank(q) = (k + 1) - 1 => q = p
        BY <1>1, <1>7, <1>5, <2>4, NumberUnique
      <3> QED BY <3>1, <3>2
    <2> QED BY <1>2, <1>3, <2>4, <2>5
  <1>6. Words \in Seq(Range(Words)) /\ Len(Words) = n
    <2>1. \A i \in 1 .. n : Words[i] \in Range(Words)
      BY <1>4 DEF Range
    <2>2. Words = [i \in 1 .. n |-> Words[i]]
      BY <1>2, <1>3
    <2>3. Words \in [1 .. n -> Range(Words)]
      BY <2>1, <2>2
    <2>4. Words \in Seq(Range(Words))
      BY <2>3, SeqDef
    <2> QED BY <1>4, <2>4, LenProperties
  <1> QED BY <1>3, <1>4, <1>5, <1>6

\* What the parser has found when input is at i: nothing in a line without
\* words; otherwise c and the elements of a point to the words that start
\* before i, in order, each a string of its own.
Found(l, b, i, c, a) ==
    \/ /\ StartsOf(l) = {} /\ c = Len(b) /\ i = Len(b) /\ a = <<>>
       /\ \A r \in 1 .. Len(l) : b[r] = l[r] /\ l[r] = Space
    \/ /\ i \in Nat /\ 1 < i /\ (i <= Len(l) => l[i - 1] = Space)
       /\ Placed(l, b, i, 0, c)
       /\ \A k \in 1 .. Len(a) : Placed(l, b, i, k, a[k])
       /\ Cardinality(Before(l, i)) = Len(a) + 1
       /\ \A r \in 1 .. c - 1 : b[r] = l[r] /\ l[r] = Space

\* It has found all there are, or all there is room for.
Complete(l, a) ==
    \/ StartsOf(l) = {} /\ a = <<>>
    \/ Cardinality(StartsOf(l)) = Len(a) + 1
    \/ Len(a) = MAX_ARGS /\ Cardinality(StartsOf(l)) > Len(a)

Scanning(l, b, i, a) ==
    /\ l \in Seq(Typed) /\ InMemory(b, Len(l) + 1) /\ i \in 1 .. Len(l) + 1
    /\ \A r \in i .. Len(l) : b[r] = l[r]
    /\ a \in Seq(Nat) /\ Len(a) <= MAX_ARGS

ParseInv ==
    /\ Scanning(line, buffer, input, args)
    /\ pc \in {"cmd", "args", "done", "executed"}
    /\ pc = "cmd" => input = 1 /\ args = <<>>
    /\ pc # "cmd" => Found(line, buffer, input, cmd, args)
    /\ pc \in {"done", "executed"} => Complete(line, args)

\* One word more: place s is behind the spaces from i on, e behind the word.
Cuts(l, b, i, s, e, nb, ni) ==
    /\ s \in StartsOf(l) /\ Before(l, s) = Before(l, i) /\ i <= s
    /\ \A r \in i .. s - 1 : l[r] = Space
    /\ IsCut(l, nb, s, e) /\ e <= ni
    /\ InMemory(nb, Len(l) + 1) /\ ni \in 1 .. Len(l) + 1 /\ 1 < ni
    /\ \A r \in ni .. Len(l) : nb[r] = l[r]
    /\ \A r \in 1 .. Len(l) + 1 : r # e => nb[r] = b[r]
    /\ ni <= Len(l) => l[ni - 1] = Space
    /\ Cardinality(Before(l, ni)) = Cardinality(Before(l, i)) + 1

LEMMA OneWord ==
    ASSUME NEW i, NEW a, Scanning(line, buffer, i, a), i = 1 \/ line[i - 1] = Space,
           NEW s, s = SkipSpaces(i), buffer[s] # NUL, NEW e, e = SkipWord(s)
    PROVE  Cuts(line, buffer, i, s, e, Terminated(e), Past(e))
  <1>1. PICK n \in Nat : n = Len(line)
    BY DEF Scanning
  <1>2. /\ line \in Seq(Typed) /\ InMemory(buffer, n + 1) /\ i \in 1 .. n + 1
        /\ \A r \in i .. n : buffer[r] = line[r]
    BY <1>1 DEF Scanning
  <1>3. /\ buffer \in Seq(Typed \cup {NUL}) /\ Len(buffer) = n + 1 /\ buffer[n + 1] = NUL
        /\ DOMAIN buffer = 1 .. n + 1 /\ \A r \in 1 .. n : line[r] \in Typed /\ line[r] # NUL
    BY <1>1, <1>2, Chars DEF InMemory
  <1>4. /\ s \in Nat /\ i <= s /\ s <= n + 1 /\ s \in 1 .. n + 1 /\ buffer[s] # Space
        /\ \A r \in i .. n + 1 : r < s => buffer[r] = Space
    <2>1. First(s, {j \in i .. n + 1 : buffer[j] # Space}, i, n + 1)
      BY <1>2, SkipIs
    <2> QED BY <1>2, <2>1 DEF First
  <1>5. s \in 1 .. n /\ line[s] = buffer[s] /\ line[s] # Space
    <2>1. s # n + 1
      BY <1>3
    <2> QED BY <1>2, <1>4, <2>1
  <1>6. \A r \in i .. s - 1 : line[r] = Space
    BY <1>2, <1>4, <1>5
  <1>7. s \in StartsOf(line)
    <2>1. CASE s = i
      BY <1>1, <1>5, <2>1 DEF StartsOf
    <2>2. CASE i < s
      <3>1. s - 1 \in i .. s - 1
        BY <1>2, <1>4, <2>2
      <3> QED BY <1>1, <1>5, <1>6, <3>1 DEF StartsOf
    <2> QED BY <1>2, <1>4, <2>1, <2>2
  <1>8. Before(line, s) = Before(line, i)
    <2>1. ASSUME NEW q \in StartsOf(line) PROVE q < s <=> q < i
      <3>1. q \in Nat /\ line[q] # Space
        BY DEF StartsOf
      <3>2. ~(q \in i .. s - 1)
        BY <1>6, <3>1
      <3> QED BY <1>2, <1>4, <3>1, <3>2
    <2> QED BY <2>1 DEF Before
  <1>9. /\ e \in Nat /\ s <= e /\ e <= n + 1 /\ e \in 1 .. n + 1 /\ buffer[e] \in {NUL, Space}
        /\ \A r \in s .. n + 1 : r < e => buffer[r] \notin {NUL, Space}
    <2>1. First(e, {j \in s .. n + 1 : buffer[j] \in {NUL, Space}}, s, n + 1)
      BY <1>2, <1>4, SkipIs
    <2> QED BY <1>4, <2>1 DEF First
  <1>10. s < e
    <2>1. s # e
      BY <1>4, <1>9
    <2> QED BY <1>4, <1>9, <2>1
  <1>11. \A r \in s .. e - 1 : line[r] # Space /\ buffer[r] = line[r]
    <2> TAKE r \in s .. e - 1
    <2>1. r \in s .. n + 1 /\ r < e /\ r \in i .. n
      BY <1>2, <1>4, <1>9
    <2> QED BY <1>2, <1>9, <2>1
  <1>12. Ends(line, s, e) /\ (e <= n => line[e] = Space /\ buffer[e] = Space)
    <2>1. e <= n => line[e] = Space /\ buffer[e] = Space
      <3>1. e <= n => e \in i .. n /\ e \in 1 .. n
        BY <1>2, <1>4, <1>9
      <3> QED BY <1>2, <1>3, <1>9, <3>1
    <2>2. e = n + 1 \/ e <= n
      BY <1>9
    <2> QED BY <1>1, <1>4, <1>9, <1>10, <1>11, <2>1, <2>2 DEF Ends
  <1>13. PICK nb : nb = Terminated(e)
    OBVIOUS
  <1>14. /\ nb \in Seq(Typed \cup {NUL}) /\ Len(nb) = n + 1
         /\ nb[e] = NUL /\ \A r \in 1 .. n + 1 : r # e => nb[r] = buffer[r]
    BY <1>3, <1>9, <1>13, Chars DEF Terminated
  <1>15. InMemory(nb, n + 1)
    <2>1. nb[n + 1] = NUL
      BY <1>3, <1>9, <1>14
    <2> QED BY <1>14, <2>1 DEF InMemory
  <1>16. PICK ni \in Nat : /\ ni = Past(e) /\ e <= ni /\ ni \in 1 .. n + 1 /\ 1 < ni
                           /\ (ni = e /\ e = n + 1) \/ (ni = e + 1 /\ e <= n)
    <2>1. buffer[e] = NUL <=> e = n + 1
      BY <1>3, <1>9, <1>12, Chars
    <2>2. CASE e = n + 1
      BY <1>5, <1>9, <1>10, <2>1, <2>2, Chars DEF Past
    <2>3. CASE e <= n
      <3>1. Past(e) = e + 1
        BY <1>9, <2>1, <2>3, Chars DEF Past
      <3> QED BY <1>9, <2>3, <3>1
    <2> QED BY <1>9, <2>2, <2>3
  <1>17. IsCut(line, nb, s, e)
    <2>1. \A r \in s .. e - 1 : r \in 1 .. n + 1 /\ r # e
      BY <1>4, <1>9
    <2>2. \A r \in s .. e - 1 : nb[r] = line[r]
      BY <1>11, <1>14, <2>1
    <2> QED BY <1>12, <1>14, <2>2 DEF IsCut
  <1>18. \A r \in ni .. n : nb[r] = line[r]
    <2> TAKE r \in ni .. n
    <2>1. r \in 1 .. n + 1 /\ r # e /\ r \in i .. n
      BY <1>2, <1>4, <1>9, <1>16
    <2> QED BY <1>2, <1>14, <2>1
  <1>19. ni <= n => line[ni - 1] = Space
    <2>1. ni <= n => ni - 1 = e /\ e <= n
      BY <1>9, <1>16
    <2> QED BY <1>12, <2>1
  <1>20. Before(line, ni) = Before(line, i) \cup {s} /\ s \notin Before(line, i)
    <2>1. ASSUME NEW q \in StartsOf(line) PROVE q < ni <=> q < s \/ q = s
      <3>1. q \in 1 .. n /\ line[q] # Space /\ (q = 1 \/ line[q - 1] = Space)
        BY <1>1 DEF StartsOf
      <3>2. q # e
        BY <1>12, <3>1
      <3>3. ~(s < q /\ q < e)
        <4>1. s < q /\ q < e => q - 1 \in s .. e - 1 /\ q # 1
          BY <1>4, <1>9, <3>1
        <4> QED BY <1>11, <3>1, <4>1
      <3> QED BY <1>4, <1>9, <1>10, <1>16, <3>1, <3>2, <3>3
    <2>2. Before(line, ni) = Before(line, s) \cup {s}
      BY <1>7, <2>1 DEF Before
    <2>3. s \notin Before(line, s)
      BY <1>4 DEF Before
    <2> QED BY <1>8, <2>2, <2>3
  <1>21. Cardinality(Before(line, ni)) = Cardinality(Before(line, i)) + 1
    <2>1. IsFiniteSet(Before(line, i))
      BY <1>2, StartsFinite
    <2> QED BY <1>20, <2>1, FS_AddElement
  <1> QED BY <1>1, <1>4, <1>6, <1>7, <1>8, <1>13, <1>14, <1>15, <1>16, <1>17, <1>18, <1>19, <1>21 DEF Cuts

\* No word starts from i on when only spaces follow.
LEMMA NoWord ==
    ASSUME NEW i, NEW a, Scanning(line, buffer, i, a),
           NEW s, s = SkipSpaces(i), buffer[s] = NUL
    PROVE  /\ s = Len(line) + 1 /\ \A r \in i .. Len(line) : line[r] = Space
           /\ Before(line, i) = StartsOf(line) /\ SkipWord(s) = s
  <1>1. PICK n \in Nat : n = Len(line)
    BY DEF Scanning
  <1>2. /\ line \in Seq(Typed) /\ InMemory(buffer, n + 1) /\ i \in 1 .. n + 1
        /\ \A r \in i .. n : buffer[r] = line[r]
    BY <1>1 DEF Scanning
  <1>3. \A r \in 1 .. n : line[r] \in Typed /\ line[r] # NUL
    BY <1>1, <1>2, Chars
  <1>4. /\ s \in Nat /\ i <= s /\ s <= n + 1 /\ s \in 1 .. n + 1
        /\ \A r \in i .. n + 1 : r < s => buffer[r] = Space
    <2>1. First(s, {j \in i .. n + 1 : buffer[j] # Space}, i, n + 1)
      BY <1>2, SkipIs
    <2> QED BY <1>2, <2>1 DEF First
  <1>5. s = n + 1
    <2>1. ~(s <= n)
      <3>1. s <= n => s \in i .. n /\ s \in 1 .. n
        BY <1>2, <1>4
      <3> QED BY <1>2, <1>3, <3>1
    <2> QED BY <1>4, <2>1
  <1>6. \A r \in i .. n : line[r] = Space
    BY <1>2, <1>4, <1>5
  <1>7. Before(line, i) = StartsOf(line)
    <2>1. ASSUME NEW q \in StartsOf(line) PROVE q < i
      <3>1. q \in 1 .. n /\ line[q] # Space
        BY <1>1 DEF StartsOf
      <3> QED BY <1>2, <1>6, <3>1
    <2> QED BY <2>1 DEF Before
  <1>8. SkipWord(s) = s
    <2>1. First(SkipWord(s), {j \in s .. n + 1 : buffer[j] \in {NUL, Space}}, s, n + 1)
      BY <1>2, <1>4, SkipIs
    <2> QED BY <1>4, <1>5, <2>1 DEF First
  <1> QED BY <1>1, <1>5, <1>6, <1>7, <1>8

\* A word that has been cut out stays what it is.
LEMMA PlacedKept ==
    ASSUME NEW l \in Seq(Typed), NEW b, NEW nb, NEW i \in Nat, NEW ni \in Nat, NEW e \in Nat,
           NEW k, NEW p, Placed(l, b, i, k, p), i <= e, i <= ni, i <= Len(l) + 1, nb[e] = NUL,
           \A r \in 1 .. Len(l) + 1 : r # e => nb[r] = b[r]
    PROVE  Placed(l, nb, ni, k, p)
  <1>1. PICK d \in 1 .. i : IsCut(l, b, p, d)
    BY DEF Placed
  <1>2. Ends(l, p, d) /\ b[d] = NUL /\ p \in Nat /\ 1 <= p /\ p < d /\ Len(l) \in Nat
    BY <1>1 DEF IsCut, Ends
  <1>3. nb[d] = NUL /\ d \in 1 .. ni
    BY <1>1, <1>2
  <1>4. ASSUME NEW r \in p .. d - 1 PROVE nb[r] = l[r]
    <2>1. r \in 1 .. Len(l) + 1 /\ r # e
      BY <1>2
    <2>2. b[r] = l[r]
      BY <1>1, <1>4 DEF IsCut
    <2> QED BY <2>1, <2>2
  <1>5. IsCut(l, nb, p, d)
    BY <1>2, <1>3, <1>4 DEF IsCut
  <1> QED BY <1>3, <1>5 DEF Placed

LEMMA ParseInit ==
    ASSUME LineInit
    PROVE  ParseInv
  <1>1. line \in Seq(Typed)
    <2>1. PICK n \in 0 .. MaxLength : line \in [1 .. n -> Typed]
      BY DEF LineInit, ParserInit, BoundedSeq, SeqOf
    <2>2. n \in Nat
      BY ParserAssumption
    <2> QED BY <2>1, <2>2, SeqDef
  <1>2. line \in Seq(Typed) /\ buffer = Append(line, NUL) /\ pc = "cmd" /\ input = 1 /\ args = <<>>
    BY <1>1, Chars DEF LineInit, ParserInit, Typed
  <1>3. PICK n \in Nat : n = Len(line) /\ line \in Seq(Typed)
    BY <1>2
  <1>4. line \in Seq(Typed \cup {NUL})
    BY <1>3
  <1>5. /\ buffer \in Seq(Typed \cup {NUL}) /\ Len(buffer) = n + 1 /\ buffer[n + 1] = NUL
        /\ \A r \in 1 .. n : buffer[r] = line[r]
    BY <1>2, <1>3, <1>4
  <1>6. args \in Seq(Nat) /\ Len(args) = 0 /\ 0 <= MAX_ARGS
    BY <1>2, Chars
  <1>7. Scanning(line, buffer, input, args)
    BY <1>2, <1>3, <1>5, <1>6 DEF Scanning, InMemory
  <1> QED BY <1>2, <1>7 DEF ParseInv

\* The command.
LEMMA ParseCmd ==
    ASSUME ParseInv, parse_cmd
    PROVE  ParseInv'
  <1>1. /\ Scanning(line, buffer, 1, <<>>) /\ input = 1 /\ args = <<>> /\ pc' = "args"
        /\ line' = line /\ args' = args
    BY DEF ParseInv, parse_cmd
  <1>2. PICK s : s = SkipSpaces(1)
    OBVIOUS
  <1>3. PICK e : e = SkipWord(s)
    OBVIOUS
  <1>4. cmd' = s /\ buffer' = Terminated(e) /\ input' = Past(e)
    BY <1>1, <1>2, <1>3 DEF parse_cmd
  <1>5. line \in Seq(Typed) /\ Len(line) \in Nat
    BY <1>1 DEF Scanning
  <1>6. CASE buffer[s] = NUL
    <2>1. /\ s = Len(line) + 1 /\ \A r \in 1 .. Len(line) : line[r] = Space
          /\ Before(line, 1) = StartsOf(line) /\ e = s
      BY <1>1, <1>2, <1>3, <1>6, NoWord
    <2>2. Before(line, 1) = {}
      BY <1>5 DEF Before, StartsOf
    <2>3. InMemory(buffer, Len(line) + 1) /\ \A r \in 1 .. Len(line) : buffer[r] = line[r]
      BY <1>1 DEF Scanning
    <2>4. buffer' = buffer
      <3>1. buffer' = [buffer EXCEPT ![s] = NUL]
        BY <1>4, <2>1, Chars DEF Terminated
      <3> QED BY <1>6, <2>3, <3>1 DEF InMemory
    <2>5. input' = s
      BY <1>4, <1>6, <2>1, Chars DEF Past
    <2>6. Len(buffer) = s
      BY <2>1, <2>3 DEF InMemory
    <2>7. Found(line', buffer', input', cmd', args')
      BY <1>1, <1>4, <2>1, <2>2, <2>3, <2>4, <2>5, <2>6 DEF Found
    <2>8. Scanning(line', buffer', input', args')
      <3>1. input' \in 1 .. Len(line) + 1 /\ \A r \in input' .. Len(line) : buffer[r] = line[r]
        BY <1>5, <2>1, <2>5
      <3> QED BY <1>1, <2>4, <3>1 DEF Scanning
    <2> QED BY <1>1, <2>7, <2>8 DEF ParseInv
  <1>7. CASE buffer[s] # NUL
    <2>1. Cuts(line, buffer, 1, s, e, buffer', input')
      BY <1>1, <1>2, <1>3, <1>4, <1>7, OneWord
    <2>2. Scanning(line', buffer', input', args')
      BY <1>1, <2>1 DEF Scanning, Cuts
    <2>3. Before(line, 1) = {} /\ Cardinality({}) = 0
      <3>1. Before(line, 1) = {}
        BY <1>5 DEF Before, StartsOf
      <3> QED BY <3>1, FS_EmptySet
    <2>4. Placed(line, buffer', input', 0, s)
      <3>1. e \in 1 .. input'
        BY <1>5, <2>1 DEF Cuts, IsCut, Ends
      <3> QED BY <2>1, <2>3, <3>1 DEF Placed, Cuts
    <2>5. \A r \in 1 .. s - 1 : buffer'[r] = line[r] /\ line[r] = Space
      <3> TAKE r \in 1 .. s - 1
      <3>1. s \in 1 .. Len(line) /\ s < e /\ e \in Nat
        BY <2>1 DEF Cuts, StartsOf, IsCut, Ends
      <3>2. r \in 1 .. Len(line) /\ r \in 1 .. Len(line) + 1 /\ r # e
        BY <1>5, <3>1
      <3>3. line[r] = Space
        BY <2>1 DEF Cuts
      <3>4. buffer'[r] = buffer[r]
        BY <2>1, <3>2 DEF Cuts
      <3>5. buffer[r] = line[r]
        BY <1>1, <3>2 DEF Scanning
      <3> QED BY <3>3, <3>4, <3>5
    <2>6. Cardinality(Before(line, input')) = Len(args') + 1
      BY <1>1, <2>1, <2>3 DEF Cuts
    <2>7. Found(line', buffer', input', cmd', args')
      <3>1. /\ input' \in Nat /\ 1 < input' /\ (input' <= Len(line) => line[input' - 1] = Space)
            /\ 1 .. Len(args') = {}
        BY <1>1, <1>5, <2>1 DEF Cuts
      <3> QED BY <1>1, <1>4, <2>4, <2>5, <2>6, <3>1 DEF Found
    <2> QED BY <1>1, <2>2, <2>7 DEF ParseInv
  <1> QED BY <1>6, <1>7

\* One more argument.
LEMMA ParseArg ==
    ASSUME ParseInv, parse_arg
    PROVE  ParseInv'
  <1>1. /\ Scanning(line, buffer, input, args) /\ Found(line, buffer, input, cmd, args)
        /\ pc = "args" /\ pc' = pc /\ line' = line /\ cmd' = cmd
        /\ buffer[input] # NUL /\ Len(args) < MAX_ARGS
    BY Chars DEF ParseInv, parse_arg, HasSlot
  <1>2. PICK s : s = SkipSpaces(input)
    OBVIOUS
  <1>3. PICK e : e = SkipWord(s)
    OBVIOUS
  <1>4. args' = Append(args, s) /\ buffer' = Terminated(e) /\ input' = Past(e) /\ buffer[s] # NUL
    BY <1>2, <1>3, Chars DEF parse_arg
  <1>5. /\ line \in Seq(Typed) /\ Len(line) \in Nat /\ args \in Seq(Nat)
        /\ Len(args) \in Nat /\ input \in 1 .. Len(line) + 1 /\ input \in Nat
    BY <1>1 DEF Scanning
  <1>6. input # Len(line) + 1 /\ input <= Len(line) /\ input # Len(buffer)
    <2>1. InMemory(buffer, Len(line) + 1)
      BY <1>1 DEF Scanning
    <2>2. input # Len(line) + 1 /\ Len(buffer) = Len(line) + 1
      BY <1>1, <2>1 DEF InMemory
    <2> QED BY <1>5, <2>2
  <1>7. /\ 1 < input /\ line[input - 1] = Space /\ Placed(line, buffer, input, 0, cmd)
        /\ \A k \in 1 .. Len(args) : Placed(line, buffer, input, k, args[k])
        /\ Cardinality(Before(line, input)) = Len(args) + 1
        /\ \A r \in 1 .. cmd - 1 : buffer[r] = line[r] /\ line[r] = Space
    BY <1>1, <1>6 DEF Found
  <1>8. Cuts(line, buffer, input, s, e, buffer', input')
    BY <1>1, <1>2, <1>3, <1>4, <1>7, OneWord
  <1>9. /\ s \in StartsOf(line) /\ s \in Nat /\ e \in Nat /\ input' \in Nat /\ input <= s /\ s < e /\ e <= input'
        /\ buffer'[e] = NUL /\ \A r \in 1 .. Len(line) + 1 : r # e => buffer'[r] = buffer[r]
    BY <1>8 DEF Cuts, IsCut, Ends
  <1>10. input <= e /\ input <= input' /\ input <= Len(line) + 1
    BY <1>5, <1>9
  <1>11. ASSUME NEW k, NEW p, Placed(line, buffer, input, k, p) PROVE Placed(line, buffer', input', k, p)
    BY <1>5, <1>9, <1>10, <1>11, PlacedKept
  <1>12. Placed(line, buffer', input', Len(args) + 1, s)
    <2>1. e \in 1 .. input'
      BY <1>5, <1>9
    <2> QED BY <1>7, <1>8, <2>1 DEF Placed, Cuts
  <1>13. args' \in Seq(Nat) /\ Len(args') = Len(args) + 1
    BY <1>4, <1>5, <1>9
  <1>14. ASSUME NEW k \in 1 .. Len(args') PROVE Placed(line, buffer', input', k, args'[k])
    <2>1. CASE k = Len(args) + 1
      <3>1. args'[k] = s
        BY <1>4, <1>5, <2>1
      <3> QED BY <1>12, <2>1, <3>1
    <2>2. CASE k \in 1 .. Len(args)
      <3>1. args'[k] = args[k]
        BY <1>4, <1>5, <2>2
      <3> QED BY <1>7, <1>11, <2>2, <3>1
    <2> QED BY <1>5, <1>13, <2>1, <2>2
  <1>15. \A r \in 1 .. cmd - 1 : buffer'[r] = line[r] /\ line[r] = Space
    <2> TAKE r \in 1 .. cmd - 1
    <2>1. PICK d \in 1 .. input : IsCut(line, buffer, cmd, d)
      BY <1>7 DEF Placed
    <2>2. cmd \in Nat /\ cmd < d
      BY <2>1 DEF IsCut, Ends
    <2>3. r \in 1 .. Len(line) + 1 /\ r # e
      BY <1>5, <1>10, <2>1, <2>2, <1>9
    <2> QED BY <1>7, <1>9, <2>3
  <1>16. Cardinality(Before(line, input')) = Len(args') + 1
    BY <1>7, <1>8, <1>13 DEF Cuts
  <1>17. /\ input' \in 1 .. Len(line) + 1 /\ 1 < input' /\ InMemory(buffer', Len(line) + 1)
         /\ \A r \in input' .. Len(line) : buffer'[r] = line[r]
         /\ input' <= Len(line) => line[input' - 1] = Space
    BY <1>8 DEF Cuts
  <1>18. Len(args') <= MAX_ARGS
    BY <1>1, <1>5, <1>13, Chars
  <1>19. Scanning(line', buffer', input', args')
    BY <1>1, <1>5, <1>13, <1>17, <1>18 DEF Scanning
  <1>20. Found(line', buffer', input', cmd', args')
    <2>1. Placed(line, buffer', input', 0, cmd)
      BY <1>7, <1>11
    <2> QED BY <1>1, <1>9, <1>14, <1>15, <1>16, <1>17, <2>1 DEF Found
  <1> QED BY <1>1, <1>19, <1>20 DEF ParseInv

\* The end of the loop.
LEMMA ParseEnd ==
    ASSUME ParseInv, parse_end
    PROVE  ParseInv'
  <1>1. /\ Scanning(line, buffer, input, args) /\ Found(line, buffer, input, cmd, args)
        /\ pc' = "done" /\ UNCHANGED <<line, buffer, input, cmd, args>>
    BY DEF ParseInv, parse_end
  <1>2. /\ line \in Seq(Typed) /\ Len(line) \in Nat /\ args \in Seq(Nat)
        /\ Len(args) \in Nat /\ input \in 1 .. Len(line) + 1 /\ InMemory(buffer, Len(line) + 1)
        /\ \A r \in input .. Len(line) : buffer[r] = line[r]
        /\ Len(args) <= MAX_ARGS
    BY <1>1 DEF Scanning
  <1>3. CASE StartsOf(line) = {} /\ args = <<>>
    BY <1>1, <1>3 DEF ParseInv, Complete
  <1>4. CASE Cardinality(Before(line, input)) = Len(args) + 1
    <2>1. CASE Len(args) = MAX_ARGS
      <3>1. Len(args) + 1 <= Cardinality(StartsOf(line)) /\ Cardinality(StartsOf(line)) \in Nat
        BY <1>2, <1>4, StartsFinite
      <3>2. Cardinality(StartsOf(line)) > Len(args)
        BY <1>2, <3>1
      <3> QED BY <1>1, <2>1, <3>2 DEF ParseInv, Complete
    <2>2. CASE buffer[SkipSpaces(input)] = NUL
      <3>1. Before(line, input) = StartsOf(line)
        BY <1>1, <2>2, NoWord
      <3> QED BY <1>1, <1>4, <3>1 DEF ParseInv, Complete
    <2>3. CASE buffer[input] = NUL
      <3>1. First(SkipSpaces(input), {j \in input .. Len(line) + 1 : buffer[j] # Space}, input, Len(line) + 1)
        BY <1>2, SkipIs
      <3>2. SkipSpaces(input) = input
        <4>1. input \in {j \in input .. Len(line) + 1 : buffer[j] # Space}
          BY <1>2, <2>3, Chars
        <4>2. ~(input < SkipSpaces(input))
          BY <1>2, <3>1, <4>1 DEF First
        <4> QED BY <1>2, <3>1, <4>2 DEF First
      <3> QED BY <2>2, <2>3, <3>2
    <2>4. Len(args) = MAX_ARGS \/ buffer[SkipSpaces(input)] = NUL \/ buffer[input] = NUL
      <3>1. ~(Len(args) < MAX_ARGS) => Len(args) = MAX_ARGS
        BY <1>2, Chars
      <3> QED BY <3>1, Chars DEF parse_end, HasSlot
    <2> QED BY <2>1, <2>2, <2>3, <2>4
  <1> QED BY <1>1, <1>3, <1>4 DEF Found

LEMMA ParseStep ==
    ASSUME ParseInv, [LineNext]_lineVars
    PROVE  ParseInv'
  <1>1. CASE parse_cmd
    BY <1>1, ParseCmd
  <1>2. CASE parse_arg
    BY <1>2, ParseArg
  <1>3. CASE parse_end
    BY <1>3, ParseEnd
  <1>4. CASE execute_command
    BY <1>4 DEF ParseInv, execute_command
  <1>5. CASE UNCHANGED lineVars
    BY <1>5 DEF ParseInv, lineVars, parserVars
  <1> QED BY <1>1, <1>2, <1>3, <1>4, <1>5 DEF LineNext, shell_parse_command

\* The string at a place from which a word has been cut out, or nothing.
LEMMA StringIs ==
    ASSUME NEW n \in Nat, InMemory(buffer, n + 1), NEW l \in Seq(Typed), Len(l) = n,
           NEW p \in Nat, NEW e \in Nat, 1 <= p, p <= e, e <= n + 1, buffer[e] = NUL,
           \A r \in p .. e - 1 : buffer[r] = l[r]
    PROVE  StringAt(p) = SubSeq(l, p, e - 1)
  <1>1. p \in 1 .. n + 1 /\ buffer \in Seq(Typed \cup {NUL}) /\ Len(buffer) = n + 1
    BY DEF InMemory
  <1>2. First(SkipWhile(p, Typed), {i \in p .. n + 1 : buffer[i] \notin Typed}, p, n + 1)
    BY <1>1, SkipIs
  <1>3. PICK x \in Nat : x = SkipWhile(p, Typed) /\ p <= x /\ x <= n + 1 /\ buffer[x] \notin Typed
                         /\ \A r \in p .. n + 1 : r < x => buffer[r] \in Typed
    BY <1>2 DEF First
  <1>4. x = e
    <2>1. ~(e < x)
      BY <1>3, Chars
    <2>2. ~(x < e)
      <3>1. x < e => x \in p .. e - 1 /\ x \in 1 .. n
        BY <1>3
      <3> QED BY <1>3, <3>1
    <2> QED BY <1>3, <2>1, <2>2
  <1>5. StringAt(p) = SubSeq(buffer, p, e - 1)
    BY <1>3, <1>4, Chars DEF StringAt, Typed
  <1>6. SubSeq(buffer, p, e - 1) = SubSeq(l, p, e - 1)
    <2>1. \A i \in 1 .. (e - 1) - p + 1 : i + p - 1 \in p .. e - 1
      OBVIOUS
    <2>2. \A i \in 1 .. (e - 1) - p + 1 : buffer[i + p - 1] = l[i + p - 1]
      BY <2>1
    <2>3. /\ SubSeq(buffer, p, e - 1) = [i \in 1 .. (e - 1) - p + 1 |-> buffer[i + p - 1]]
          /\ SubSeq(l, p, e - 1) = [i \in 1 .. (e - 1) - p + 1 |-> l[i + p - 1]]
      OBVIOUS
    <2> QED BY <2>2, <2>3
  <1> QED BY <1>5, <1>6

\* A word found is a word typed.
LEMMA PlacedWord ==
    ASSUME Scanning(line, buffer, input, args), NEW k \in Nat, NEW p,
           Placed(line, buffer, input, k, p)
    PROVE  /\ StringAt(p) = WordAt(p) /\ StringAt(p) \in Seq(Typed) \ {<<>>}
           /\ k + 1 \in 1 .. Cardinality(StartsOf(line)) /\ Words[k + 1] = StringAt(p)
  <1>1. line \in Seq(Typed) /\ Len(line) \in Nat /\ InMemory(buffer, Len(line) + 1)
    BY DEF Scanning
  <1>2. PICK e : IsCut(line, buffer, p, e)
    BY DEF Placed
  <1>3. /\ Ends(line, p, e) /\ p \in Nat /\ e \in Nat /\ 1 <= p /\ p <= e /\ e <= Len(line) + 1
        /\ buffer[e] = NUL /\ \A r \in p .. e - 1 : buffer[r] = line[r]
    BY <1>2 DEF IsCut, Ends
  <1>4. StringAt(p) = SubSeq(line, p, e - 1)
    BY <1>1, <1>3, StringIs
  <1>5. WordAt(p) = SubSeq(line, p, e - 1)
    BY <1>1, <1>3, WordIs
  <1>6. k + 1 \in 1 .. Cardinality(StartsOf(line)) /\ Words[k + 1] = WordAt(p)
    BY <1>1, WordsIs DEF Placed
  <1>7. SubSeq(line, p, e - 1) \in Seq(Typed) \ {<<>>}
    <2>1. /\ e - 1 \in Nat /\ e - 1 <= Len(line) /\ p <= e - 1 /\ (e - 1) - p + 1 \in Nat
          /\ (e - 1) - p + 1 # 0
      BY <1>1, <1>2, <1>3 DEF IsCut, Ends
    <2>2. SubSeq(line, p, e - 1) \in Seq(Typed) /\ Len(SubSeq(line, p, e - 1)) = (e - 1) - p + 1
      BY <1>1, <1>3, <2>1
    <2> QED BY <2>1, <2>2
  <1> QED BY <1>4, <1>5, <1>6, <1>7

\* What the parser has found when it is done.
Answer ==
    /\ StringAt(cmd) = IF Words = <<>> THEN <<>> ELSE Words[1]
    /\ Words # <<>> => StringAt(cmd) \in Seq(Typed) \ {<<>>}
    /\ \A k \in 1 .. Len(args) : /\ k + 1 \in 1 .. Len(Words)
                                 /\ StringAt(args[k]) = Words[k + 1]
                                 /\ StringAt(args[k]) \in Seq(Typed) \ {<<>>}
    /\ \/ Words = <<>> /\ args = <<>>
       \/ Len(Words) = Len(args) + 1
       \/ Len(args) = MAX_ARGS /\ Len(Words) > Len(args)
    /\ args \in Seq(Nat) /\ Len(args) \in Nat /\ Len(args) <= MAX_ARGS
    /\ Words \in Seq(Range(Words)) /\ Len(Words) \in Nat

LEMMA Answers ==
    ASSUME ParseInv, pc \in {"done", "executed"}
    PROVE  Answer
  <1>1. /\ Scanning(line, buffer, input, args) /\ Found(line, buffer, input, cmd, args)
        /\ Complete(line, args)
    BY DEF ParseInv
  <1>2. /\ line \in Seq(Typed) /\ Len(line) \in Nat /\ args \in Seq(Nat) /\ Len(args) \in Nat
        /\ InMemory(buffer, Len(line) + 1) /\ Len(args) <= MAX_ARGS
    BY <1>1 DEF Scanning
  <1>3. PICK m \in Nat : m = Cardinality(StartsOf(line))
    BY <1>2, StartsFinite
  <1>4. Words \in Seq(Range(Words)) /\ Len(Words) = m /\ DOMAIN Words = 1 .. m
    BY <1>2, <1>3, WordsIs
  <1>5. ASSUME StartsOf(line) = {} PROVE Words = <<>>
    <2>1. m = 0
      BY <1>3, <1>5, FS_EmptySet
    <2> QED BY <1>4, <2>1
  <1>6. CASE StartsOf(line) = {} /\ cmd = Len(buffer) /\ args = <<>>
    <2>1. Words = <<>>
      BY <1>5, <1>6
    <2>2. Len(buffer) = Len(line) + 1 /\ buffer[Len(line) + 1] = NUL
      BY <1>2 DEF InMemory
    <2>3. StringAt(cmd) = SubSeq(line, Len(line) + 1, (Len(line) + 1) - 1)
      <3>1. PICK x \in Nat : x = Len(line) + 1 /\ 1 <= x /\ x <= x /\ x <= Len(line) + 1
        BY <1>2
      <3>2. \A r \in x .. x - 1 : buffer[r] = line[r]
        BY <3>1
      <3> QED BY <1>2, <1>6, <2>2, <3>1, <3>2, StringIs
    <2>4. StringAt(cmd) = <<>>
      BY <1>2, <2>3
    <2>5. 1 .. Len(args) = {}
      BY <1>6
    <2> QED BY <1>2, <1>4, <1>6, <2>1, <2>4, <2>5 DEF Answer
  <1>7. CASE /\ Placed(line, buffer, input, 0, cmd)
             /\ \A k \in 1 .. Len(args) : Placed(line, buffer, input, k, args[k])
    <2>1. 1 \in 1 .. m /\ Words[1] = StringAt(cmd) /\ StringAt(cmd) \in Seq(Typed) \ {<<>>}
      <3>1. /\ 0 + 1 \in 1 .. m /\ Words[0 + 1] = StringAt(cmd)
            /\ StringAt(cmd) \in Seq(Typed) \ {<<>>}
        BY <1>1, <1>3, <1>7, PlacedWord
      <3> QED BY <3>1
    <2>2. Words # <<>>
      BY <1>4, <2>1
    <2>3. \A k \in 1 .. Len(args) : /\ k + 1 \in 1 .. m /\ StringAt(args[k]) = Words[k + 1]
                                    /\ StringAt(args[k]) \in Seq(Typed) \ {<<>>}
      <3> TAKE k \in 1 .. Len(args)
      <3>1. k \in Nat
        OBVIOUS
      <3> QED BY <1>1, <1>3, <1>7, <3>1, PlacedWord
    <2>4. Len(Words) = Len(args) + 1 \/ (Len(args) = MAX_ARGS /\ Len(Words) > Len(args))
      BY <1>1, <1>3, <1>4, <1>5, <2>2 DEF Complete
    <2> QED BY <1>2, <1>4, <2>1, <2>2, <2>3, <2>4 DEF Answer
  <1> QED BY <1>1, <1>6, <1>7 DEF Found

LEMMA AnswerWords ==
    ASSUME Answer
    PROVE  [k \in 1 .. Len(args) |-> StringAt(args[k])]
              = SubSeq(Words, 2, IF Len(Words) > MAX_ARGS THEN MAX_ARGS + 1 ELSE Len(Words))
  <1>1. PICK n \in Nat : n = Len(args)
    BY DEF Answer
  <1>2. PICK m \in Nat : m = Len(Words) /\ Words \in Seq(Range(Words))
    BY DEF Answer
  <1>3. PICK h \in Nat : /\ h = IF Len(Words) > MAX_ARGS THEN MAX_ARGS + 1 ELSE Len(Words)
                         /\ (IF 2 <= h THEN h - 1 ELSE 0) = n /\ (h - 2) + 1 = h - 1
    <2>1. CASE Words = <<>> /\ args = <<>>
      BY <1>1, <1>2, <2>1, Chars
    <2>2. CASE m = n + 1
      <3>1. n <= MAX_ARGS /\ MAX_ARGS \in Nat
        BY <1>1, Chars DEF Answer
      <3> QED BY <1>2, <2>2, <3>1
    <2>3. CASE n = MAX_ARGS /\ m > n
      BY <1>2, <2>3
    <2> QED BY <1>1, <1>2, <2>1, <2>2, <2>3 DEF Answer
  <1>4. SubSeq(Words, 2, h) = [i \in 1 .. n |-> Words[i + 1]]
    <2>1. SubSeq(Words, 2, h) = [i \in 1 .. (h - 2) + 1 |-> Words[i + 2 - 1]]
      BY <1>2
    <2>2. 1 .. (h - 2) + 1 = 1 .. n
      BY <1>3
    <2>3. \A i \in 1 .. n : i + 2 - 1 = i + 1
      OBVIOUS
    <2> QED BY <2>1, <2>2, <2>3
  <1>5. \A k \in 1 .. n : StringAt(args[k]) = Words[k + 1]
    BY <1>1 DEF Answer
  <1> QED BY <1>1, <1>3, <1>4, <1>5

LEMMA ParsedIs ==
    ASSUME ParseInv
    PROVE  ParsesWords
  <1>1. /\ Len(buffer) = Len(line) + 1 /\ buffer[Len(buffer)] = NUL /\ input \in 1 .. Len(buffer)
        /\ Len(args) <= MAX_ARGS
    BY Chars DEF ParseInv, Scanning, InMemory
  <1>2. ASSUME pc \in {"done", "executed"} PROVE Answer
    BY <1>2, Answers
  <1>3. Answer => StringAt(cmd) = IF Words = <<>> THEN <<>> ELSE Words[1]
    BY DEF Answer
  <1> QED BY <1>1, <1>2, <1>3, AnswerWords DEF ParsesWords

\* For every line the shell can hand over and every size of the array, the
\* parser stays inside line and array, and the strings it leaves in the line
\* that it has cut up are the words as they were typed.
THEOREM Parsing ==
    LineSpec => []ParsesWords
  <1>1. LineInit => ParseInv
    BY ParseInit
  <1>2. ParseInv /\ [LineNext]_lineVars => ParseInv'
    BY ParseStep
  <1>3. ParseInv => ParsesWords
    BY ParsedIs
  <1> QED BY <1>1, <1>2, <1>3, PTL DEF LineSpec

\* The numbers from 1 to m, counted.
LEMMA Counted ==
    ASSUME NEW m \in Nat
    PROVE  Cardinality(1 .. m) = m
  BY FS_Interval

\* Indent and CommandEnd of a line whose first word starts at p and ends
\* before e.
LEMMA FirstWord ==
    ASSUME NEW l \in Seq(Typed), NEW p, NEW e, Ends(l, p, e), \A r \in 1 .. p - 1 : l[r] = Space
    PROVE  Indent(l) = p - 1 /\ CommandEnd(l) = e - 1
  <1>1. /\ p \in Nat /\ e \in Nat /\ Len(l) \in Nat /\ 1 <= p /\ p < e /\ e <= Len(l) + 1 /\ DOMAIN l = 1 .. Len(l)
        /\ \A r \in p .. e - 1 : l[r] # Space
    BY DEF Ends
  <1>2. PICK x \in Nat : x = p - 1 /\ p = x + 1
    BY <1>1
  <1>3. PICK y \in Nat : y = e - 1 /\ e = y + 1
    BY <1>1
  <1>4. {k \in DOMAIN l : \A j \in 1 .. k : l[j] = Space} = 1 .. x
    <2>1. ASSUME NEW k \in DOMAIN l, \A j \in 1 .. k : l[j] = Space PROVE k \in 1 .. x
      <3>1. l[p] # Space
        BY <1>1
      <3>2. ~(p \in 1 .. k)
        BY <2>1, <3>1
      <3> QED BY <1>1, <1>2, <3>2
    <2>2. ASSUME NEW k \in 1 .. x PROVE k \in DOMAIN l /\ \A j \in 1 .. k : l[j] = Space
      <3>1. k \in 1 .. Len(l) /\ \A j \in 1 .. k : j \in 1 .. p - 1
        BY <1>1, <1>2
      <3> QED BY <1>1, <3>1
    <2> QED BY <2>1, <2>2
  <1>5. Indent(l) = x
    BY <1>4, Counted DEF Indent
  <1>6. {k \in DOMAIN l : \A j \in 1 .. k : l[j] = Space => j <= x} = 1 .. y
    <2>1. ASSUME NEW k \in DOMAIN l, \A j \in 1 .. k : l[j] = Space => j <= x PROVE k \in 1 .. y
      <3>1. k \in Nat /\ 1 <= k /\ k <= Len(l)
        BY <1>1
      <3>2. ~(e <= k)
        <4>1. e <= k => e \in 1 .. k /\ e # Len(l) + 1
          BY <1>1, <3>1
        <4>2. e # Len(l) + 1 => l[e] = Space
          BY DEF Ends
        <4>3. e <= k => e <= x
          BY <2>1, <4>1, <4>2
        <4> QED BY <1>1, <1>2, <4>3
      <3> QED BY <1>3, <3>1, <3>2
    <2>2. ASSUME NEW k \in 1 .. y PROVE k \in DOMAIN l /\ \A j \in 1 .. k : l[j] = Space => j <= x
      <3>1. k \in DOMAIN l
        BY <1>1, <1>3
      <3>2. ASSUME NEW j \in 1 .. k, l[j] = Space PROVE j <= x
        <4>1. ~(j \in p .. e - 1)
          BY <1>1, <3>2
        <4> QED BY <1>1, <1>2, <1>3, <4>1
      <3> QED BY <3>1, <3>2
    <2> QED BY <2>1, <2>2
  <1>7. CommandEnd(l) = y
    BY <1>5, <1>6, Counted DEF CommandEnd
  <1> QED BY <1>2, <1>3, <1>5, <1>7

LEMMA NoFirstWord ==
    ASSUME NEW l \in Seq(Typed), \A r \in 1 .. Len(l) : l[r] = Space
    PROVE  Indent(l) = Len(l) /\ CommandEnd(l) = Len(l)
  <1>1. PICK n \in Nat : n = Len(l) /\ DOMAIN l = 1 .. n
    OBVIOUS
  <1>2. {k \in DOMAIN l : \A j \in 1 .. k : l[j] = Space} = 1 .. n
    BY <1>1
  <1>3. Indent(l) = n
    BY <1>2, Counted DEF Indent
  <1>4. {k \in DOMAIN l : \A j \in 1 .. k : l[j] = Space => j <= n} = 1 .. n
    BY <1>1
  <1>5. CommandEnd(l) = n
    BY <1>3, <1>4, Counted DEF CommandEnd
  <1> QED BY <1>1, <1>3, <1>5

\* When the parser is done, its command and what is left of the line are what
\* the loop of shell_run goes on with.
AsShellSays ==
    pc \in {"done", "executed"} =>
      StringAt(cmd) = Command(line) /\ StringAt(1) = Remains(line)

LEMMA ParsedAsShell ==
    ASSUME ParseInv
    PROVE  AsShellSays
  <1> SUFFICES ASSUME pc \in {"done", "executed"}
               PROVE  StringAt(cmd) = Command(line) /\ StringAt(1) = Remains(line)
    BY DEF AsShellSays
  <1>1. Scanning(line, buffer, input, args) /\ Found(line, buffer, input, cmd, args)
    BY DEF ParseInv
  <1>2. /\ line \in Seq(Typed) /\ InMemory(buffer, Len(line) + 1) /\ Len(line) \in Nat
        /\ Len(buffer) = Len(line) + 1 /\ buffer[Len(line) + 1] = NUL
    BY <1>1 DEF Scanning, InMemory
  <1>3. CASE cmd = Len(buffer) /\ \A r \in 1 .. Len(line) : buffer[r] = line[r] /\ line[r] = Space
    <2>1. Indent(line) = Len(line) /\ CommandEnd(line) = Len(line)
      BY <1>2, <1>3, NoFirstWord
    <2>2. PICK x \in Nat : x = Len(line) + 1 /\ x - 1 = Len(line) /\ 1 <= x
      BY <1>2
    <2>3. \A r \in x .. x - 1 : buffer[r] = line[r]
      BY <2>2
    <2>4. \A r \in 1 .. x - 1 : buffer[r] = line[r]
      BY <1>3, <2>2
    <2>5. StringAt(x) = SubSeq(line, x, x - 1)
      BY <1>2, <2>2, <2>3, StringIs
    <2>6. StringAt(1) = SubSeq(line, 1, x - 1)
      BY <1>2, <2>2, <2>4, StringIs
    <2>7. cmd = x
      BY <1>2, <1>3, <2>2
    <2> QED BY <2>1, <2>2, <2>5, <2>6, <2>7 DEF Command, Remains
  <1>4. CASE /\ Placed(line, buffer, input, 0, cmd)
             /\ \A r \in 1 .. cmd - 1 : buffer[r] = line[r] /\ line[r] = Space
    <2>1. PICK e : IsCut(line, buffer, cmd, e)
      BY <1>4 DEF Placed
    <2>2. /\ Ends(line, cmd, e) /\ cmd \in Nat /\ e \in Nat /\ 1 <= cmd /\ cmd < e /\ e <= Len(line) + 1
          /\ buffer[e] = NUL /\ \A r \in cmd .. e - 1 : buffer[r] = line[r]
      BY <2>1 DEF IsCut, Ends
    <2>3. Indent(line) = cmd - 1 /\ CommandEnd(line) = e - 1
      BY <1>2, <1>4, <2>2, FirstWord
    <2>4. StringAt(cmd) = SubSeq(line, cmd, e - 1)
      BY <1>2, <2>2, StringIs
    <2>5. \A r \in 1 .. e - 1 : buffer[r] = line[r]
      <3> TAKE r \in 1 .. e - 1
      <3>1. r \in 1 .. cmd - 1 \/ r \in cmd .. e - 1
        BY <2>2
      <3> QED BY <1>4, <2>2, <3>1
    <2>6. StringAt(1) = SubSeq(line, 1, e - 1)
      <3>1. 1 \in Nat /\ 1 <= 1 /\ 1 <= e
        BY <2>2
      <3> QED BY <1>2, <2>2, <2>5, <3>1, StringIs
    <2>7. (cmd - 1) + 1 = cmd
      BY <2>2
    <2> QED BY <2>3, <2>4, <2>6, <2>7 DEF Command, Remains
  <1> QED BY <1>1, <1>3, <1>4 DEF Found

\* The loop above takes the command to be Command of the line and keeps
\* Remains of it in cmd_buffer: that is what the parser computes and leaves
\* behind, so that the theorems on the loop are about the parser too.
THEOREM ParserMeetsLoop ==
    LineSpec => []AsShellSays
  <1>1. LineInit => ParseInv
    BY ParseInit
  <1>2. ParseInv /\ [LineNext]_lineVars => ParseInv'
    BY ParseStep
  <1>3. ParseInv => AsShellSays
    BY ParsedAsShell
  <1> QED BY <1>1, <1>2, <1>3, PTL DEF LineSpec
-----------------------------------------------------------------------------
(* What the line does.                                                     *)

\* Induction, with a set in the place of the predicate.
LEMMA Reaches ==
    ASSUME NEW S, 0 \in S, \A n \in Nat : n \in S => n + 1 \in S
    PROVE  \A n \in Nat : n \in S
  <1> DEFINE Rest == {n \in Nat : n \notin S}
  <1> SUFFICES ASSUME Rest # {} PROVE FALSE
    OBVIOUS
  <1>1. PICK x \in Rest : \A y \in Rest : x <= y
    <2>1. Rest \subseteq Nat
      OBVIOUS
    <2> HIDE DEF Rest
    <2> QED BY <2>1, Least
  <1>2. x \in Nat /\ x # 0 /\ x \notin S
    OBVIOUS
  <1>3. PICK y \in Nat : x = y + 1
    BY <1>2
  <1>4. y \in S
    BY <1>1, <1>3
  <1> QED BY <1>2, <1>3, <1>4

\* kstrcmp tells strings without NUL apart.
LEMMA CompareIs ==
    ASSUME NEW a \in Seq(Typed), NEW b \in Seq(Typed)
    PROVE  kstrcmp(a, b) <=> a = b
  <1> DEFINE Goes(i) == CharAt(a, i) # NUL /\ CharAt(a, i) = CharAt(b, i)
             Stops(i) == ~Goes(i) /\ \A j \in 1 .. i - 1 : Goes(j)
             x == CHOOSE i \in 1 .. Len(a) + 1 : Stops(i)
  <1>1. PICK m \in Nat, n \in Nat : m = Len(a) /\ n = Len(b)
    OBVIOUS
  <1>2. /\ \A i \in 1 .. m : CharAt(a, i) = a[i] /\ a[i] # NUL
        /\ \A i \in 1 .. n : CharAt(b, i) = b[i] /\ b[i] # NUL
        /\ \A i \in Nat : (m < i => CharAt(a, i) = NUL) /\ (n < i => CharAt(b, i) = NUL)
    BY <1>1, Chars DEF CharAt
  <1>3. \E i \in 1 .. m + 1 : Stops(i)
    <2> DEFINE I == {i \in 1 .. m + 1 : ~Goes(i)}
    <2>1. m + 1 \in I /\ I \subseteq Nat
      BY <1>2
    <2>2. Min(I) \in I /\ \A y \in I : Min(I) <= y
      <3> HIDE DEF I
      <3> QED BY <2>1, Least
    <2>3. PICK i \in 1 .. m + 1 : i = Min(I) /\ ~Goes(i) /\ \A y \in I : i <= y
      BY <2>2
    <2>4. ASSUME NEW j \in 1 .. i - 1 PROVE Goes(j)
      <3>1. j \in 1 .. m + 1 /\ ~(i <= j)
        OBVIOUS
      <3>2. j \notin I
        BY <2>3, <3>1
      <3> QED BY <3>1, <3>2
    <2> QED BY <2>3, <2>4
  <1>4. x \in 1 .. m + 1 /\ Stops(x)
    <2> HIDE DEF Stops
    <2> QED BY <1>1, <1>3
  <1>5. kstrcmp(a, b) <=> CharAt(a, x) = CharAt(b, x)
    BY Chars DEF kstrcmp
  <1>6. ASSUME a = b PROVE CharAt(a, x) = CharAt(b, x)
    BY <1>6
  <1> HIDE DEF x
  <1>7. ASSUME CharAt(a, x) = CharAt(b, x) PROVE a = b
    <2>1. CharAt(a, x) = NUL /\ CharAt(b, x) = NUL
      BY <1>4, <1>7
    <2>2. x = m + 1
      BY <1>2, <1>4, <2>1
    <2>3. n <= m
      BY <1>2, <2>1, <2>2
    <2>4. \A j \in 1 .. m : a[j] = CharAt(b, j) /\ CharAt(b, j) # NUL
      BY <1>2, <1>4, <2>2
    <2>5. m <= n
      BY <1>2, <2>4
    <2>6. m = n /\ \A j \in 1 .. m : a[j] = b[j]
      BY <1>2, <2>3, <2>4, <2>5
    <2>7. a = [j \in 1 .. m |-> a[j]] /\ b = [j \in 1 .. n |-> b[j]]
      BY <1>1
    <2> QED BY <2>6, <2>7
  <1> QED BY <1>5, <1>6, <1>7

LEMMA LookupIs ==
    ASSUME NEW pairs, NEW S, Table(pairs, S), NEW w \in Seq(Typed),
           NEW k, k = Lookup(pairs, w)
    PROVE  \/ k = 0 /\ ~Has(pairs, w)
           \/ /\ k \in 1 .. Len(pairs) /\ pairs[k][2] \in S /\ k # 0
              /\ Has(pairs, w) /\ For(pairs, w) = pairs[k][2]
  <1> DEFINE I == {i \in 1 .. Len(pairs) : pairs[i][1] = w}
  <1>1. /\ Len(pairs) \in Nat /\ DOMAIN pairs = 1 .. Len(pairs)
        /\ \A i \in 1 .. Len(pairs) : pairs[i] \in Seq(Typed) \X S
    BY DEF Table
  <1>2. \A i \in 1 .. Len(pairs) : pairs[i][1] \in Seq(Typed) /\ pairs[i][2] \in S
    BY <1>1
  <1>3. {i \in 1 .. Len(pairs) : kstrcmp(w, pairs[i][1])} = I
    <2>1. \A i \in 1 .. Len(pairs) : kstrcmp(w, pairs[i][1]) <=> w = pairs[i][1]
      BY <1>2, CompareIs
    <2> QED BY <2>1
  <1>4. k = IF I # {} THEN Min(I) ELSE 0
    BY <1>3 DEF Lookup, SelectInSeq
  <1>5. Has(pairs, w) <=> I # {}
    BY <1>1 DEF Has
  <1>6. CASE I = {}
    BY <1>4, <1>5, <1>6
  <1>7. CASE I # {}
    <2>1. I \subseteq Nat
      OBVIOUS
    <2>2. k \in I
      <3> HIDE DEF I
      <3> QED BY <1>4, <1>7, <2>1, Least
    <2>3. k \in 1 .. Len(pairs) /\ pairs[k][1] = w /\ pairs[k][2] \in S
      BY <1>2, <2>2
    <2>4. pairs[k] \in Range(pairs)
      BY <1>1, <2>3 DEF Range
    <2>5. ASSUME NEW pair \in Range(pairs), pair[1] = w PROVE pair = pairs[k]
      <3>1. PICK j \in 1 .. Len(pairs) : pair = pairs[j]
        BY <1>1 DEF Range
      <3>2. j = k
        BY <2>3, <2>5, <3>1 DEF Table
      <3> QED BY <3>1, <3>2
    <2>6. (CHOOSE pair \in Range(pairs) : pair[1] = w) = pairs[k]
      BY <2>3, <2>4, <2>5
    <2>7. For(pairs, w) = pairs[k][2]
      BY <2>6 DEF For
    <2>8. k # 0 /\ Has(pairs, w)
      BY <1>5, <1>7, <2>3
    <2> QED BY <2>3, <2>7, <2>8
  <1> QED BY <1>6, <1>7

\* The texts with a space between two of them.
Spaced(w, n) ==
    [k \in 1 .. 2 * n - (IF n = 0 THEN 0 ELSE 1) |->
       IF k % 2 = 1 THEN w[(k + 1) \div 2] ELSE <<Space>>]

\* The recursion of Joined, up to n.
Joins(f, w, n) ==
    f = [k \in 0 .. n |-> IF k = 0 THEN <<>> ELSE
                          IF k = 1 THEN <<w[1]>> ELSE f[k - 1] \o << <<Space>>, w[k] >>]

LEMMA JoinExists ==
    ASSUME NEW w
    PROVE  \A n \in Nat : \E f : Joins(f, w, n)
  <1> DEFINE S == {n \in Nat : \E f : Joins(f, w, n)}
  <1>1. 0 \in S
    <2>1. Joins([k \in 0 .. 0 |-> <<>>], w, 0)
      BY DEF Joins
    <2> QED BY <2>1
  <1>2. ASSUME NEW n \in Nat, n \in S PROVE n + 1 \in S
    <2>1. PICK f : Joins(f, w, n)
      BY <1>2
    <2> DEFINE last == IF n = 0 THEN <<w[1]>> ELSE f[n] \o << <<Space>>, w[n + 1] >>
               g == [k \in 0 .. n + 1 |-> IF k <= n THEN f[k] ELSE last]
    <2>2. \A k \in 0 .. n : g[k] = f[k] /\ k \in 0 .. n + 1
      OBVIOUS
    <2>3. g[n + 1] = last
      OBVIOUS
    <2>4. ASSUME NEW k \in 0 .. n + 1
          PROVE  g[k] = IF k = 0 THEN <<>> ELSE
                        IF k = 1 THEN <<w[1]>> ELSE g[k - 1] \o << <<Space>>, w[k] >>
      <3>1. CASE k <= n
        <4>1. k \in 0 .. n /\ (k # 0 => k - 1 \in 0 .. n)
          BY <3>1
        <4>2. f[k] = IF k = 0 THEN <<>> ELSE
                     IF k = 1 THEN <<w[1]>> ELSE f[k - 1] \o << <<Space>>, w[k] >>
          BY <2>1, <4>1 DEF Joins
        <4> HIDE DEF g
        <4> QED BY <2>2, <4>1, <4>2
      <3>2. CASE k = n + 1
        <4>1. k # 0 /\ (k = 1 <=> n = 0) /\ k - 1 = n /\ n \in 0 .. n
          BY <3>2
        <4>2. g[k - 1] = f[n] /\ g[k] = last
          BY <2>2, <2>3, <3>2, <4>1
        <4> HIDE DEF g
        <4> QED BY <3>2, <4>1, <4>2
      <3> QED BY <3>1, <3>2
    <2>5. Joins(g, w, n + 1)
      <3>1. g = [k \in 0 .. n + 1 |-> g[k]]
        OBVIOUS
      <3> HIDE DEF g
      <3>2. \A k \in 0 .. n + 1 : g[k] = IF k = 0 THEN <<>> ELSE
                        IF k = 1 THEN <<w[1]>> ELSE g[k - 1] \o << <<Space>>, w[k] >>
        BY <2>4
      <3> QED BY <3>1, <3>2 DEF Joins
    <2> QED BY <2>5
  <1> HIDE DEF S
  <1>3. \A n \in Nat : n \in S
    BY <1>1, <1>2, Reaches
  <1> QED BY <1>3 DEF S

\* A sequence a of length m with the two elements of b behind it.
Longer(g, a, b, m, U) ==
    /\ a \in Seq(U) /\ b \in Seq(U) /\ Len(a) = m /\ Len(b) = 2
    /\ g = [i \in 1 .. m + 2 |-> g[i]]
    /\ \A i \in 1 .. m : g[i] = a[i]
    /\ g[m + 1] = b[1] /\ g[m + 2] = b[2]

LEMMA TwoMore ==
    ASSUME NEW U, NEW a, NEW b, NEW m \in Nat, NEW g, Longer(g, a, b, m, U)
    PROVE  a \o b = g
  <1>1. /\ a \in Seq(U) /\ b \in Seq(U) /\ Len(a) = m /\ Len(b) = 2
        /\ \A i \in 1 .. m : g[i] = a[i]
        /\ g[m + 1] = b[1] /\ g[m + 2] = b[2]
    BY DEF Longer
  <1>0. g = [i \in 1 .. m + 2 |-> g[i]]
    BY DEF Longer
  <1>2. /\ a \o b \in Seq(U) /\ Len(a \o b) = m + 2
        /\ \A i \in 1 .. m + 2 : (a \o b)[i] = IF i <= m THEN a[i] ELSE b[i - m]
    <2>1. /\ a \o b \in Seq(U) /\ Len(a \o b) = Len(a) + Len(b)
          /\ \A i \in 1 .. Len(a) + Len(b) : (a \o b)[i] = IF i <= Len(a) THEN a[i] ELSE b[i - Len(a)]
      BY <1>1, ConcatProperties, Zenon
    <2>2. Len(a) + Len(b) = m + 2
      BY <1>1
    <2> QED BY <1>1, <2>1, <2>2, Zenon
  <1>3. PICK c \in Seq(U) : c = a \o b /\ Len(c) = m + 2
    BY <1>2
  <1>4. c = [i \in 1 .. m + 2 |-> c[i]]
    <2>1. c \in [1 .. Len(c) -> U]
      BY LenProperties
    <2> QED BY <1>3, <2>1
  <1>5. /\ \A i \in 1 .. m : i \in 1 .. m + 2 /\ i <= m
        /\ m + 1 \in 1 .. m + 2 /\ ~(m + 1 <= m) /\ (m + 1) - m = 1
        /\ m + 2 \in 1 .. m + 2 /\ ~(m + 2 <= m) /\ (m + 2) - m = 2
    OBVIOUS
  <1>6. (\A i \in 1 .. m : c[i] = a[i]) /\ c[m + 1] = b[1] /\ c[m + 2] = b[2]
    BY <1>2, <1>3, <1>5
  <1>7. \A i \in 1 .. m + 2 : i \in 1 .. m \/ i = m + 1 \/ i = m + 2
    OBVIOUS
  <1>8. \A i \in 1 .. m + 2 : c[i] = g[i]
    BY <1>1, <1>6, <1>7
  <1> QED BY <1>3, <1>4, <1>8, <1>0

LEMMA JoinedIs ==
    ASSUME NEW w \in Seq(Seq(Typed))
    PROVE  Joined(w) = Spaced(w, Len(w))
  <1> DEFINE f == CHOOSE g : Joins(g, w, Len(w))
  <1>1. PICK n \in Nat : n = Len(w)
    OBVIOUS
  <1>2. Joins(f, w, n)
    <2>1. \E g : Joins(g, w, Len(w))
      BY <1>1, JoinExists
    <2> QED BY <1>1, <2>1
  <1>3. Joined(w) = f[n]
    BY <1>1, Chars DEF Joined, Joins
  <1> HIDE DEF f
  <1>4. /\ f[0] = <<>> /\ (1 <= n => f[1] = <<w[1]>>)
        /\ \A k \in 2 .. n : f[k] = f[k - 1] \o << <<Space>>, w[k] >>
    <2>1. /\ 0 \in 0 .. n /\ (1 <= n => 1 \in 0 .. n) /\ 1 # 0
          /\ \A k \in 2 .. n : k \in 0 .. n /\ k # 0 /\ k # 1
      OBVIOUS
    <2>2. \A k \in 0 .. n : f[k] = IF k = 0 THEN <<>> ELSE
                                  IF k = 1 THEN <<w[1]>> ELSE f[k - 1] \o << <<Space>>, w[k] >>
      BY <1>2 DEF Joins
    <2>3. f[0] = <<>>
      BY <2>1, <2>2
    <2>4. ASSUME 1 <= n PROVE f[1] = <<w[1]>>
      BY <2>1, <2>2, <2>4, Zenon
    <2>5. ASSUME NEW k \in 2 .. n PROVE f[k] = f[k - 1] \o << <<Space>>, w[k] >>
      BY <2>1, <2>2, Zenon
    <2> QED BY <2>3, <2>4, <2>5
  <1> DEFINE S == {k \in Nat : k <= n => f[k] = Spaced(w, k)}
  <1>5. 0 \in S
    <2>1. f[0] = <<>>
      BY <1>4
    <2>2. Spaced(w, 0) = <<>>
      BY DEF Spaced
    <2> QED BY <2>1, <2>2
  <1>6. ASSUME NEW k \in Nat, k \in S PROVE k + 1 \in S
    <2> SUFFICES ASSUME k + 1 <= n PROVE f[k + 1] = Spaced(w, k + 1)
      OBVIOUS
    <2>1. CASE k = 0
      <3>1. f[1] = <<w[1]>>
        <4>1. 1 <= n
          BY <2>1
        <4> QED BY <1>4, <4>1
      <3>2. Spaced(w, 1) = [i \in 1 .. 1 |-> IF i % 2 = 1 THEN w[(i + 1) \div 2] ELSE <<Space>>]
        BY DEF Spaced
      <3>3. \A i \in 1 .. 1 : i = 1 /\ i % 2 = 1 /\ (i + 1) \div 2 = 1
        OBVIOUS
      <3>4. Spaced(w, 1) = [i \in 1 .. 1 |-> w[1]]
        BY <3>2, <3>3
      <3>5. <<w[1]>> = [i \in 1 .. 1 |-> w[1]]
        OBVIOUS
      <3>6. k + 1 = 1
        BY <2>1
      <3> QED BY <3>1, <3>4, <3>5, <3>6
    <2>2. CASE k # 0
      <3> DEFINE U == Seq(Typed) \cup {<<Space>>}
                 F(i) == IF i % 2 = 1 THEN w[(i + 1) \div 2] ELSE <<Space>>
                 a == [i \in 1 .. 2 * k - 1 |-> F(i)]
                 b == << <<Space>>, w[k + 1] >>
      <3>1. f[k + 1] = a \o b
        <4>1. k + 1 \in 2 .. n /\ (k + 1) - 1 = k /\ k <= n
          BY <2>2
        <4>2. f[k] = a
          BY <1>6, <2>2, <4>1 DEF Spaced
        <4>3. f[k + 1] = f[(k + 1) - 1] \o << <<Space>>, w[k + 1] >>
          BY <1>4, <4>1
        <4> QED BY <4>1, <4>2, <4>3
      <3>2. \A i \in 1 .. 2 * k - 1 : i % 2 = 1 => (i + 1) \div 2 \in 1 .. n
        OBVIOUS
      <3>3. a \in Seq(U) /\ Len(a) = 2 * k - 1 /\ 2 * k - 1 \in Nat
        <4>1. \A i \in 1 .. 2 * k - 1 : F(i) \in U
          BY <1>1, <3>2
        <4>2. 2 * k - 1 \in Nat
          BY <2>2
        <4> HIDE DEF F
        <4> QED BY <4>1, <4>2
      <3>4. w[k + 1] \in U /\ <<Space>> \in U
        BY <1>1
      <3>5. b \in Seq(U) /\ Len(b) = 2 /\ b[1] = <<Space>> /\ b[2] = w[k + 1]
        BY <3>4
      <3>6. /\ (2 * k) % 2 = 0 /\ (2 * k + 1) % 2 = 1 /\ (2 * k + 1 + 1) \div 2 = k + 1
            /\ 2 * (k + 1) - 1 = 2 * k + 1 /\ (2 * k - 1) + 2 = 2 * k + 1
        OBVIOUS
      <3>7. F(2 * k) = b[1] /\ F(2 * k + 1) = b[2]
        BY <3>5, <3>6
      <3>8. Spaced(w, k + 1) = [i \in 1 .. 2 * k + 1 |-> F(i)]
        BY <3>6 DEF Spaced
      <3>9. \A i \in 1 .. 2 * k - 1 : a[i] = F(i)
        OBVIOUS
      <3> HIDE DEF F, a, b, U
      <3>13. PICK m \in Nat : m = 2 * k - 1 /\ m + 1 = 2 * k /\ m + 2 = 2 * k + 1
        BY <3>3
      <3>10. PICK g : g = Spaced(w, k + 1)
        OBVIOUS
      <3>11. g = [i \in 1 .. m + 2 |-> F(i)]
        BY <3>8, <3>10, <3>13
      <3>12. \A i \in 1 .. m + 2 : g[i] = F(i)
        BY <3>11
      <3>14. g = [i \in 1 .. m + 2 |-> g[i]]
        BY <3>11
      <3>15. /\ \A i \in 1 .. m : i \in 1 .. m + 2 /\ g[i] = a[i]
             /\ g[m + 1] = b[1] /\ g[m + 2] = b[2]
        <4>1. m + 1 \in 1 .. m + 2 /\ m + 2 \in 1 .. m + 2 /\ \A i \in 1 .. m : i \in 1 .. m + 2
          OBVIOUS
        <4> QED BY <3>7, <3>9, <3>12, <3>13, <4>1
      <3>16. Len(a) = m
        BY <3>3, <3>13
      <3>17. \A i \in 1 .. m : g[i] = a[i]
        BY <3>15
      <3>18. a \in Seq(U) /\ b \in Seq(U) /\ Len(b) = 2 /\ g[m + 1] = b[1] /\ g[m + 2] = b[2]
        BY <3>3, <3>5, <3>15
      <3>19. Longer(g, a, b, m, U)
        BY <3>14, <3>16, <3>17, <3>18 DEF Longer
      <3>20. a \o b = g
        BY <3>19, TwoMore
      <3>21. (k + 1) \in Nat /\ f[k + 1] = a \o b /\ g = Spaced(w, k + 1)
        BY <3>1, <3>10
      <3> QED BY <3>20, <3>21, Zenon
    <2> QED BY <2>1, <2>2
  <1>7. \A k \in Nat : k \in S
    <2> HIDE DEF S
    <2> QED BY <1>5, <1>6, Reaches
  <1> QED BY <1>1, <1>3, <1>7

\* The operands of the line are the strings that the parser has kept.
LEMMA OperandsAre ==
    ASSUME Answer
    PROVE  /\ Operands = [k \in 1 .. Len(args) |-> StringAt(args[k])]
           /\ Operands \in Seq(Seq(Typed)) /\ Len(Operands) = Len(args)
           /\ Len(args) \in Nat
           /\ \A k \in 1 .. Len(args) : Operands[k] = Arg(k)
  <1>1. PICK m \in Nat : m = Len(Words)
    BY DEF Answer
  <1>2. PICK n \in Nat : n = Len(args)
    BY DEF Answer
  <1>3. (IF m > MAX_ARGS + 1 THEN MAX_ARGS + 1 ELSE m) = (IF m > MAX_ARGS THEN MAX_ARGS + 1 ELSE m)
    BY Chars
  <1>4. Operands = [k \in 1 .. n |-> StringAt(args[k])]
    BY <1>1, <1>2, <1>3, AnswerWords DEF Operands
  <1>5. \A k \in 1 .. n : StringAt(args[k]) \in Seq(Typed)
    BY <1>2 DEF Answer
  <1>6. Operands \in Seq(Seq(Typed)) /\ Len(Operands) = n
    BY <1>4, <1>5
  <1>7. \A k \in 1 .. n : Operands[k] = Arg(k)
    BY <1>4 DEF Arg
  <1> QED BY <1>2, <1>4, <1>6, <1>7

\* What echo and rainbow print of their operands.
LEMMA SpacedIs ==
    ASSUME Answer
    PROVE  ArgsSpaced = Joined(Operands)
  <1>1. PICK n \in Nat : n = Len(args) /\ n = Len(Operands)
    BY OperandsAre
  <1>2. \A k \in 1 .. n : Operands[k] = Arg(k)
    BY <1>1, OperandsAre
  <1>3. Joined(Operands) = Spaced(Operands, n)
    BY <1>1, OperandsAre, JoinedIs
  <1>4. ArgsSpaced = [k \in 1 .. 2 * n - (IF n = 0 THEN 0 ELSE 1) |->
                        IF k % 2 = 1 THEN Arg((k + 1) \div 2) ELSE <<Space>>]
    BY <1>1, Chars DEF ArgsSpaced, argc
  <1>5. \A k \in 1 .. 2 * n - (IF n = 0 THEN 0 ELSE 1) : k % 2 = 1 => (k + 1) \div 2 \in 1 .. n
    OBVIOUS
  <1>6. \A k \in 1 .. 2 * n - (IF n = 0 THEN 0 ELSE 1) :
           k % 2 = 1 => Arg((k + 1) \div 2) = Operands[(k + 1) \div 2]
    BY <1>2, <1>5
  <1>7. Spaced(Operands, n) = ArgsSpaced
    BY <1>4, <1>6 DEF Spaced
  <1> QED BY <1>3, <1>7

LEMMA EchoIs ==
    ASSUME Answer, cmd_echo
    PROVE  out' = Joined(Operands) /\ effect' = NoEffect
  BY SpacedIs DEF cmd_echo, Prints

\* What rainbow does, with operands and without.
LEMMA RainbowIs ==
    ASSUME Answer, cmd_rainbow
    PROVE  /\ out' = IF Operands = <<>> THEN <<Text("Rainbow text demo!")>>
                                        ELSE Joined(Operands)
           /\ effect' = <<"vga_setcolor", VGA_COLOR_LIGHT_GREY>>
  <1>1. argc = 0 <=> Operands = <<>>
    <2>1. \A s \in Seq(Seq(Typed)) : Len(s) = 0 <=> s = <<>>
      BY EmptySeq
    <2> QED BY <2>1, OperandsAre DEF argc
  <1> QED BY <1>1, SpacedIs DEF cmd_rainbow, kprint_rainbow, Prints

\* What color does.
LEMMA ColorIs ==
    ASSUME Answer, cmd_color
    PROVE  effect' = IF Operands # <<>> /\ Has(colors, Operands[1])
                       THEN <<"vga_setcolor", For(colors, Operands[1])>> ELSE NoEffect
  <1>1. PICK n \in Nat : n = Len(args) /\ n = Len(Operands) /\ Operands \in Seq(Seq(Typed))
    BY OperandsAre
  <1>2. CASE n = 0
    <2>1. Operands = <<>>
      <3>1. \A s \in Seq(Seq(Typed)) : Len(s) = 0 => s = <<>>
        BY EmptySeq
      <3> QED BY <1>1, <1>2, <3>1
    <2>2. effect' = NoEffect
      BY <1>1, <1>2 DEF cmd_color, Prints, argc
    <2> QED BY <2>1, <2>2
  <1>3. CASE n # 0
    <2>1. PICK w \in Seq(Typed) : w = Arg(1) /\ w = Operands[1]
      <3>1. 1 \in 1 .. n
        BY <1>3
      <3> QED BY <1>1, <3>1, OperandsAre
    <2>2. PICK k : k = Lookup(colors, w)
      OBVIOUS
    <2>3. \/ k = 0 /\ ~Has(colors, w)
          \/ k # 0 /\ Has(colors, w) /\ For(colors, w) = colors[k][2]
      BY <2>2, LookupIs, TablesAssumption
    <2>4. effect' = IF k = 0 THEN NoEffect ELSE <<"vga_setcolor", colors[k][2]>>
      BY <1>1, <1>3, <2>1, <2>2 DEF cmd_color, Prints, argc
    <2>5. Operands # <<>>
      BY <1>1, <1>3
    <2> QED BY <2>1, <2>3, <2>4, <2>5
  <1> QED BY <1>2, <1>3

\* The call that sleep and allocdemo make, if they make one.
LEMMA NumberCalls ==
    /\ cmd_sleep => effect'[1] \in {"system_sleep_ms", "none"}
    /\ cmd_allocdemo => effect'[1] \in {"kmalloc", "none"}
  <1>1. \A x, y : <<x, y>>[1] = x
    OBVIOUS
  <1>2. ASSUME cmd_sleep PROVE effect'[1] \in {"system_sleep_ms", "none"}
    <2>1. PICK v : effect' = <<"system_sleep_ms", v>> \/ effect' = NoEffect
      BY <1>2 DEF cmd_sleep, Prints
    <2> QED BY <1>1, <2>1 DEF NoEffect
  <1>3. ASSUME cmd_allocdemo PROVE effect'[1] \in {"kmalloc", "none"}
    <2>1. PICK v : effect' = <<"kmalloc", v>> \/ effect' = NoEffect
      BY <1>3 DEF cmd_allocdemo, Prints
    <2> QED BY <1>1, <2>1 DEF NoEffect
  <1> QED BY <1>2, <1>3

\* The names that Named can give, and the command that runs.
Kinds == {"nothing", "exit", "unknown", "echo", "color", "rainbow", "sleep", "allocdemo"}

Runs(name) ==
    /\ name = "nothing" => out' = <<>> /\ effect' = NoEffect
    /\ name = "exit" => out' = <<>> /\ effect' = <<"exit", 0>>
    /\ name = "unknown" => /\ out' = <<Text("Unknown command"), Words[1]>>
                           /\ effect' = NoEffect
    /\ name = "echo" => cmd_echo
    /\ name = "color" => cmd_color
    /\ name = "rainbow" => cmd_rainbow
    /\ name = "sleep" => cmd_sleep
    /\ name = "allocdemo" => cmd_allocdemo

LEMMA RunsNamed ==
    ASSUME Answer, execute_command
    PROVE  Named \in Kinds /\ Runs(Named)
  <1>1. PICK name : name = StringAt(cmd)
    OBVIOUS
  <1>2. CASE Words = <<>>
    <2>1. name = <<>>
      BY <1>1, <1>2 DEF Answer
    <2>2. out' = <<>> /\ effect' = NoEffect
      BY <1>1, <2>1 DEF execute_command, Prints
    <2>3. Named = "nothing"
      BY <1>2 DEF Named
    <2> QED BY <2>2, <2>3 DEF Runs, Kinds
  <1>3. CASE Words # <<>>
    <2>1. name \in Seq(Typed) /\ name # <<>> /\ name = Words[1]
      BY <1>1, <1>3 DEF Answer
    <2>2. CASE name = Exit
      <3>1. kstrcmp(name, Exit)
        BY <2>1, <2>2, CompareIs, TablesAssumption
      <3>2. out' = <<>> /\ effect' = <<"exit", 0>>
        BY <1>1, <2>1, <3>1 DEF execute_command, Prints
      <3>3. Named = "exit"
        BY <1>3, <2>1, <2>2 DEF Named
      <3> QED BY <3>2, <3>3 DEF Runs, Kinds
    <2>3. CASE name # Exit
      <3>1. ~kstrcmp(name, Exit)
        BY <2>1, <2>3, CompareIs, TablesAssumption
      <3>2. PICK k : k = Lookup(commands, name)
        OBVIOUS
      <3>3. IF k # 0 THEN Run(commands[k][2])
                     ELSE Prints(<<Text("Unknown command"), name>>, NoEffect)
        BY <1>1, <2>1, <3>1, <3>2 DEF execute_command
      <3>4. CASE k = 0 /\ ~Has(commands, name)
        <4>1. Named = "unknown"
          BY <1>3, <2>1, <2>3, <3>4 DEF Named
        <4>2. out' = <<Text("Unknown command"), Words[1]>> /\ effect' = NoEffect
          BY <2>1, <3>3, <3>4 DEF Prints
        <4> QED BY <4>1, <4>2 DEF Runs, Kinds
      <3>5. CASE /\ k # 0 /\ commands[k][2] \in {"echo", "color", "rainbow", "sleep", "allocdemo"}
                 /\ Has(commands, name) /\ For(commands, name) = commands[k][2]
        <4>1. Named = commands[k][2]
          BY <1>3, <2>1, <2>3, <3>5 DEF Named
        <4>2. Run(Named)
          BY <3>3, <3>5, <4>1
        <4>3. Runs(Named)
          BY <3>5, <4>1, <4>2 DEF Run, Runs
        <4> QED BY <3>5, <4>1, <4>3 DEF Kinds
      <3>6. \/ k = 0 /\ ~Has(commands, name)
            \/ /\ k # 0 /\ commands[k][2] \in {"echo", "color", "rainbow", "sleep", "allocdemo"}
               /\ Has(commands, name) /\ For(commands, name) = commands[k][2]
        BY <2>1, <3>2, LookupIs, TablesAssumption
      <3> QED BY <3>4, <3>5, <3>6
    <2> QED BY <2>2, <2>3
  <1> QED BY <1>2, <1>3

LEMMA Executes ==
    ASSUME Answer, execute_command
    PROVE  DoesAsTyped'
  <1>1. line' = line
    BY DEF execute_command
  <1>2. Words' = Words
    BY <1>1 DEF Words, WordAt, Starts
  <1>3. Named' = Named /\ Operands' = Operands
    BY <1>2 DEF Named, Operands
  <1>4. Named \in Kinds /\ Runs(Named)
    BY RunsNamed
  <1>5. Named = "echo" => out' = Joined(Operands) /\ effect' = NoEffect
    BY <1>4, EchoIs DEF Runs
  <1>6. Named = "rainbow" =>
          /\ out' = IF Operands = <<>> THEN <<Text("Rainbow text demo!")>>
                                       ELSE Joined(Operands)
          /\ effect' = <<"vga_setcolor", VGA_COLOR_LIGHT_GREY>>
    BY <1>4, RainbowIs DEF Runs
  <1>7. Named = "color" =>
          effect' = IF Operands # <<>> /\ Has(colors, Operands[1])
                      THEN <<"vga_setcolor", For(colors, Operands[1])>> ELSE NoEffect
    BY <1>4, ColorIs DEF Runs
  <1>8. /\ Named = "sleep" => effect'[1] \in {"system_sleep_ms", "none"}
        /\ Named = "allocdemo" => effect'[1] \in {"kmalloc", "none"}
    BY <1>4, NumberCalls DEF Runs
  <1>9. /\ Named = "nothing" => out' = <<>> /\ effect' = NoEffect
        /\ Named = "exit" => out' = <<>> /\ effect' = <<"exit", 0>>
        /\ Named = "unknown" => /\ out' = <<Text("Unknown command"), Words[1]>>
                                     /\ effect' = NoEffect
    BY <1>4 DEF Runs
  <1> QED BY <1>2, <1>3, <1>4, <1>5, <1>6, <1>7, <1>8, <1>9 DEF DoesAsTyped, Kinds

\* For every line and every table of commands and colours, the command that
\* execute_command runs is the one whose whole name is the first word typed:
\* echo and rainbow print the words behind it, color takes the colour named,
\* rainbow leaves light grey, and an unknown name is reported as it was typed.
THEOREM Executing ==
    LineSpec => []DoesAsTyped
  <1> DEFINE Inv == ParseInv /\ DoesAsTyped
  <1>1. LineInit => Inv
    BY ParseInit DEF LineInit, ParserInit, DoesAsTyped
  <1>2. Inv /\ [LineNext]_lineVars => Inv'
    <2> SUFFICES ASSUME Inv, [LineNext]_lineVars PROVE Inv'
      OBVIOUS
    <2>1. ParseInv'
      BY ParseStep
    <2>2. CASE shell_parse_command
      <3>1. pc' # "executed"
        BY <2>2 DEF shell_parse_command, parse_cmd, parse_arg, parse_end
      <3> QED BY <2>1, <3>1 DEF DoesAsTyped
    <2>3. CASE execute_command
      <3>1. pc = "done"
        BY <2>3 DEF execute_command
      <3>2. Answer
        BY <3>1, Answers
      <3> QED BY <2>1, <2>3, <3>2, Executes
    <2>4. CASE UNCHANGED lineVars
      <3>1. UNCHANGED <<line, pc, out, effect>>
        BY <2>4 DEF lineVars, parserVars
      <3>2. Words' = Words
        BY <3>1 DEF Words, WordAt, Starts
      <3>3. Named' = Named /\ Operands' = Operands
        BY <3>2 DEF Named, Operands
      <3> QED BY <2>1, <3>1, <3>2, <3>3 DEF DoesAsTyped
    <2> QED BY <2>2, <2>3, <2>4 DEF LineNext
  <1> QED BY <1>1, <1>2, PTL DEF LineSpec

-----------------------------------------------------------------------------
(* Numbers.                                                                *)

\* The width of a number: 31 decimal digits hold every one, as 64 bits do, and
\* the numbers that sleep and allocdemo take without an operand are of it.
Tens(ten) == ten[0] = 1 /\ \A k \in 1 .. 31 : ten[k] = 10 * ten[k - 1]
Wide ==
    /\ Word \in Nat /\ 100 < Word
    /\ \E ten \in [0 .. 31 -> Nat] : Tens(ten) /\ Word <= ten[31]

\* A recursion over 0 .. N with values in V, whose step is the function H.
IsStep(H, V, N) == H \in [(1 .. N) \X V -> V]
Recurs(f, H, V, b, n) ==
    /\ f \in [0 .. n -> V] /\ f[0] = b
    /\ \A k \in 1 .. n : f[k] = H[<<k, f[k - 1]>>]

LEMMA Recursion ==
    ASSUME NEW V, NEW b, b \in V, NEW N, N \in Nat, NEW H, IsStep(H, V, N)
    PROVE  \E f : Recurs(f, H, V, b, N)
  <1> USE DEF IsStep, Recurs
  <1> DEFINE Is(f, n) == Recurs(f, H, V, b, n)
             S == {n \in Nat : n <= N => \E f : Is(f, n)}
  <1>1. 0 \in S
    <2>1. Is([k \in 0 .. 0 |-> b], 0)
      OBVIOUS
    <2> QED BY <2>1
  <1>2. ASSUME NEW n \in Nat, n \in S PROVE n + 1 \in S
    <2> SUFFICES ASSUME n + 1 <= N PROVE \E f : Is(f, n + 1)
      OBVIOUS
    <2>1. PICK f : Is(f, n)
      BY <1>2
    <2> DEFINE g == [k \in 0 .. n + 1 |-> IF k <= n THEN f[k] ELSE H[<<n + 1, f[n]>>]]
    <2>2. /\ \A k \in 0 .. n : g[k] = f[k] /\ f[k] \in V
          /\ g[n + 1] = H[<<n + 1, f[n]>>] /\ H[<<n + 1, f[n]>>] \in V
      <3>1. \A k \in 0 .. n : f[k] \in V /\ k \in 0 .. n + 1 /\ k <= n
        BY <2>1
      <3>2. n \in 0 .. n /\ n + 1 \in 1 .. N /\ n + 1 \in 0 .. n + 1 /\ ~(n + 1 <= n)
        OBVIOUS
      <3> QED BY <3>1, <3>2
    <2>3. g \in [0 .. n + 1 -> V]
      <3>1. \A k \in 0 .. n + 1 : k \in 0 .. n \/ k = n + 1
        OBVIOUS
      <3>2. \A k \in 0 .. n + 1 : g[k] \in V
        <4> HIDE DEF g
        <4> QED BY <2>2, <3>1
      <3>3. g = [k \in 0 .. n + 1 |-> g[k]]
        OBVIOUS
      <3> HIDE DEF g
      <3> QED BY <3>2, <3>3
    <2>4. ASSUME NEW k \in 1 .. n + 1 PROVE g[k] = H[<<k, g[k - 1]>>]
      <3>1. CASE k = n + 1
        <4>1. k - 1 = n /\ n \in 0 .. n
          BY <3>1
        <4> HIDE DEF g
        <4> QED BY <2>2, <3>1, <4>1
      <3>2. CASE k # n + 1
        <4>1. k \in 1 .. n /\ k \in 0 .. n /\ k - 1 \in 0 .. n
          BY <3>2
        <4>2. f[k] = H[<<k, f[k - 1]>>]
          BY <2>1, <4>1
        <4> HIDE DEF g
        <4> QED BY <2>2, <4>1, <4>2
      <3> QED BY <3>1, <3>2
    <2>5. g[0] = b
      BY <2>1, <2>2
    <2>6. Is(g, n + 1)
      <3> HIDE DEF g
      <3> QED BY <2>3, <2>4, <2>5
    <2> QED BY <2>6
  <1>3. \A n \in Nat : n \in S
    <2> HIDE DEF S
    <2> QED BY <1>1, <1>2, Reaches
  <1>4. \E f : Is(f, N)
    BY <1>3
  <1> QED BY <1>4

\* The digits are the characters of 0 to 9.
LEMMA DigitIs ==
    ASSUME NEW d \in 0 .. 9
    PROVE  /\ Digit(digits[d + 1]) = d
           /\ digits[d + 1] = "0" <=> d = 0
  <1>1. Len(digits) = 16
    BY DEF digits
  <1>2. /\ digits[1] = "0" /\ digits[2] = "1" /\ digits[3] = "2" /\ digits[4] = "3"
        /\ digits[5] = "4" /\ digits[6] = "5" /\ digits[7] = "6" /\ digits[8] = "7"
        /\ digits[9] = "8" /\ digits[10] = "9" /\ digits[11] = "A" /\ digits[12] = "B"
        /\ digits[13] = "C" /\ digits[14] = "D" /\ digits[15] = "E" /\ digits[16] = "F"
    BY DEF digits
  <1>3. \A i \in 1 .. 16 : digits[i] = digits[d + 1] => i = d + 1
    BY <1>2
  <1>4. {i \in 1 .. 16 : digits[i] = digits[d + 1]} = {d + 1}
    BY <1>3
  <1>5. Min({d + 1}) = d + 1
    <2>1. {d + 1} \subseteq Nat /\ {d + 1} # {}
      OBVIOUS
    <2>2. Min({d + 1}) \in {d + 1}
      BY <2>1, Least
    <2> QED BY <2>2
  <1>6. Digit(digits[d + 1]) = (d + 1) - 1
    BY <1>1, <1>4, <1>5 DEF Digit, SelectInSeq
  <1>7. digits[d + 1] = "0" <=> d = 0
    BY <1>2
  <1> QED BY <1>6, <1>7

\* The recursion of Value.
Reads(f, w, n) ==
    f = [k \in 0 .. n |-> IF k = 0 THEN 0 ELSE 10 * f[k - 1] + Digit(w[k])]

\* A numeral of n digits, and what its beginnings stand for.
Numeral(w, n) == n \in Nat /\ n = Len(w) /\ \A i \in 1 .. n : Digit(w[i]) \in Nat
Adds(f, w, n) ==
    /\ f \in [0 .. n -> Nat] /\ Value(w) = f[n] /\ f[0] = 0
    /\ \A k \in 1 .. n : f[k] = 10 * f[k - 1] + Digit(w[k])

LEMMA ValueIs ==
    ASSUME NEW w, NEW n, Numeral(w, n)
    PROVE  \E f : Adds(f, w, n)
  <1> USE DEF Numeral, Adds
  <1> DEFINE f == CHOOSE g : Reads(g, w, n)
  <1>1. \E g : Reads(g, w, n)
    <2> DEFINE H == [p \in (1 .. n) \X Nat |-> 10 * p[2] + Digit(w[p[1]])]
    <2>1. ASSUME NEW k \in 1 .. n, NEW x \in Nat
          PROVE  H[<<k, x>>] = 10 * x + Digit(w[k]) /\ 10 * x + Digit(w[k]) \in Nat
      <3>1. <<k, x>> \in (1 .. n) \X Nat
        OBVIOUS
      <3> QED BY <3>1
    <2>2. H \in [(1 .. n) \X Nat -> Nat]
      <3>1. ASSUME NEW p \in (1 .. n) \X Nat PROVE 10 * p[2] + Digit(w[p[1]]) \in Nat
        OBVIOUS
      <3> QED BY <3>1
    <2> HIDE DEF H
    <2>3. PICK g \in [0 .. n -> Nat] : g[0] = 0 /\ \A k \in 1 .. n : g[k] = H[<<k, g[k - 1]>>]
      <3>1. 0 \in Nat
        OBVIOUS
      <3>2. IsStep(H, Nat, n)
        BY <2>2 DEF IsStep
      <3>3. \E g : Recurs(g, H, Nat, 0, n)
        BY <3>1, <3>2, Recursion
      <3> QED BY <3>3 DEF Recurs
    <2>4. ASSUME NEW k \in 1 .. n PROVE g[k] = 10 * g[k - 1] + Digit(w[k])
      <3>1. g[k - 1] \in Nat
        OBVIOUS
      <3> QED BY <2>1, <2>3, <3>1
    <2>5. \A k \in 0 .. n : k # 0 => k \in 1 .. n
      OBVIOUS
    <2>6. \A k \in 0 .. n : g[k] = IF k = 0 THEN 0 ELSE 10 * g[k - 1] + Digit(w[k])
      BY <2>3, <2>4, <2>5
    <2>7. g = [k \in 0 .. n |-> g[k]]
      OBVIOUS
    <2>8. Reads(g, w, n)
      BY <2>6, <2>7 DEF Reads
    <2> QED BY <2>8
  <1>2. Reads(f, w, n)
    BY <1>1
  <1>3. Value(w) = f[n]
    BY DEF Value, Reads
  <1> HIDE DEF f
  <1>4. f[0] = 0 /\ \A k \in 1 .. n : f[k] = 10 * f[k - 1] + Digit(w[k])
    <2>1. \A k \in 0 .. n : f[k] = IF k = 0 THEN 0 ELSE 10 * f[k - 1] + Digit(w[k])
      BY <1>2 DEF Reads
    <2>2. 0 \in 0 .. n /\ \A k \in 1 .. n : k \in 0 .. n /\ k # 0
      OBVIOUS
    <2> QED BY <2>1, <2>2
  <1>5. f \in [0 .. n -> Nat]
    <2> DEFINE S == {k \in Nat : k <= n => f[k] \in Nat}
    <2>1. 0 \in S
      BY <1>4
    <2>2. ASSUME NEW k \in Nat, k \in S PROVE k + 1 \in S
      <3> SUFFICES ASSUME k + 1 <= n PROVE f[k + 1] \in Nat
        OBVIOUS
      <3>1. f[k] \in Nat /\ k + 1 \in 1 .. n /\ (k + 1) - 1 = k
        BY <2>2
      <3>2. f[k + 1] = 10 * f[k] + Digit(w[k + 1])
        BY <1>4, <3>1
      <3> QED BY <3>1, <3>2
    <2>3. \A k \in Nat : k \in S
      <3> HIDE DEF S
      <3> QED BY <2>1, <2>2, Reaches
    <2>4. f = [k \in 0 .. n |-> f[k]]
      BY <1>2 DEF Reads
    <2> QED BY <2>3, <2>4
  <1> QED BY <1>3, <1>4, <1>5

\* The recursion of ku64_parse, which wraps at every digit.
Scans(f, w, n) ==
    f = [k \in 0 .. n |-> IF k = 0 THEN 0 ELSE (f[k - 1] * 10 + Digit(w[k])) % Word]

LEMMA WrapOnce ==
    ASSUME Wide, NEW x \in Nat, NEW d \in Nat
    PROVE  ((x % Word) * 10 + d) % Word = (10 * x + d) % Word
  <1>1. PICK W \in Nat : W = Word /\ W > 0
    BY DEF Wide
  <1>2. PICK q \in Nat, r \in 0 .. W - 1 : x = q * W + r /\ x % W = r
    <2>1. x \div W \in Nat /\ x % W \in 0 .. W - 1 /\ x = (x \div W) * W + (x % W)
      BY <1>1
    <2> QED BY <2>1
  <1>3. PICK t \in Nat, s \in 0 .. W - 1 : r * 10 + d = t * W + s /\ (r * 10 + d) % W = s
    <2>1. PICK y \in Nat : y = r * 10 + d
      OBVIOUS
    <2>2. y \div W \in Nat /\ y % W \in 0 .. W - 1 /\ y = (y \div W) * W + (y % W)
      BY <1>1, <2>1
    <2> QED BY <2>1, <2>2
  <1>4. PICK z \in Nat : z = 10 * x + d
    OBVIOUS
  <1>5. z = (10 * q + t) * W + s
    <2>1. (10 * q + t) * W = 10 * (q * W) + t * W
      BY <1>1
    <2> QED BY <1>2, <1>3, <1>4, <2>1
  <1>6. z % W = s
    <2>1. PICK u \in Nat : u = 10 * q + t
      OBVIOUS
    <2>2. z = u * W + s
      BY <1>5, <2>1
    <2>3. \A a \in Nat, b \in 0 .. W - 1 : (a * W + b) % W = b
      BY <1>1
    <2> QED BY <2>2, <2>3
  <1> QED BY <1>1, <1>2, <1>3, <1>4, <1>6

\* The number that is parsed is the one typed, modulo 2^64.
LEMMA ParseIs ==
    ASSUME Wide, NEW w, NEW n \in Nat, Numeral(w, n)
    PROVE  ku64_parse(w).value = Value(w) % Word /\ Value(w) \in Nat
  <1>0. PICK v : Adds(v, w, n)
    BY ValueIs
  <1>1. /\ n \in Nat /\ n = Len(w) /\ \A i \in 1 .. n : Digit(w[i]) \in Nat
        /\ v \in [0 .. n -> Nat] /\ Value(w) = v[n] /\ v[0] = 0
        /\ \A k \in 1 .. n : v[k] = 10 * v[k - 1] + Digit(w[k])
    BY <1>0 DEF Adds, Numeral
  <1> DEFINE f == CHOOSE g : Scans(g, w, n)
             g == [k \in 0 .. n |-> v[k] % Word]
  <1>2. ASSUME NEW k \in 1 .. n PROVE v[k] % Word = ((v[k - 1] % Word) * 10 + Digit(w[k])) % Word
    <2>0. k - 1 \in 0 .. n
      OBVIOUS
    <2>1. v[k - 1] \in Nat /\ Digit(w[k]) \in Nat /\ v[k] = 10 * v[k - 1] + Digit(w[k])
      BY <1>1, <2>0
    <2> QED BY <2>1, WrapOnce
  <1>3. 0 % Word = 0
    BY DEF Wide
  <1>4. Scans(g, w, n)
    <2>1. \A k \in 0 .. n : k # 0 => k \in 1 .. n /\ k - 1 \in 0 .. n
      OBVIOUS
    <2>2. \A k \in 0 .. n : g[k] = v[k] % Word
      OBVIOUS
    <2>3. g = [k \in 0 .. n |-> g[k]]
      OBVIOUS
    <2> HIDE DEF g
    <2>4. ASSUME NEW k \in 0 .. n, k # 0 PROVE g[k] = (g[k - 1] * 10 + Digit(w[k])) % Word
      BY <1>2, <2>1, <2>2, <2>4
    <2>5. g[0] = 0
      BY <1>1, <1>3, <2>2
    <2>6. \A k \in 0 .. n : g[k] = IF k = 0 THEN 0 ELSE (g[k - 1] * 10 + Digit(w[k])) % Word
      BY <2>4, <2>5
    <2> QED BY <2>3, <2>6 DEF Scans
  <1>5. Scans(f, w, n)
    BY <1>4
  <1>6. ku64_parse(w).value = f[n]
    BY <1>1 DEF ku64_parse, Scans
  <1> HIDE DEF f, g
  <1>7. f[0] = 0 /\ \A k \in 1 .. n : f[k] = (f[k - 1] * 10 + Digit(w[k])) % Word
    <2>1. \A k \in 0 .. n : f[k] = IF k = 0 THEN 0 ELSE (f[k - 1] * 10 + Digit(w[k])) % Word
      BY <1>5 DEF Scans
    <2>2. 0 \in 0 .. n /\ \A k \in 1 .. n : k \in 0 .. n /\ k # 0
      OBVIOUS
    <2> QED BY <2>1, <2>2
  <1> DEFINE S == {k \in Nat : k <= n => f[k] = v[k] % Word}
  <1>8. 0 \in S
    BY <1>1, <1>3, <1>7
  <1>9. ASSUME NEW k \in Nat, k \in S PROVE k + 1 \in S
    <2> SUFFICES ASSUME k + 1 <= n PROVE f[k + 1] = v[k + 1] % Word
      OBVIOUS
    <2>1. f[k] = v[k] % Word /\ k + 1 \in 1 .. n /\ (k + 1) - 1 = k
      BY <1>9
    <2>2. f[k + 1] = (f[k] * 10 + Digit(w[k + 1])) % Word
      BY <1>7, <2>1
    <2>3. v[k + 1] % Word = ((v[k] % Word) * 10 + Digit(w[k + 1])) % Word
      BY <1>2, <2>1
    <2> QED BY <2>1, <2>2, <2>3
  <1>10. \A k \in Nat : k \in S
    <2> HIDE DEF S
    <2> QED BY <1>8, <1>9, Reaches
  <1>11. f[n] = v[n] % Word /\ v[n] \in Nat
    BY <1>1, <1>10
  <1> QED BY <1>1, <1>6, <1>11

\* The recursion of tmp: powers of ten, up to the first beyond v.
Powers(f, v) ==
    f = [i \in 0 .. 32 |-> IF i = 0 THEN 1 ELSE
                           IF f[i - 1] > v THEN f[i - 1] ELSE 10 * f[i - 1]]

LEMMA PowersExist ==
    ASSUME NEW v \in Nat
    PROVE  \E f : Powers(f, v)
  <1> DEFINE H == [p \in (1 .. 32) \X Nat |-> IF p[2] > v THEN p[2] ELSE 10 * p[2]]
  <1>1. ASSUME NEW k \in 1 .. 32, NEW x \in Nat
        PROVE  H[<<k, x>>] = IF x > v THEN x ELSE 10 * x
    <2>1. <<k, x>> \in (1 .. 32) \X Nat
      OBVIOUS
    <2> QED BY <2>1
  <1>2. IsStep(H, Nat, 32)
    <2>1. ASSUME NEW p \in (1 .. 32) \X Nat PROVE (IF p[2] > v THEN p[2] ELSE 10 * p[2]) \in Nat
      OBVIOUS
    <2> QED BY <2>1 DEF IsStep
  <1> HIDE DEF H
  <1>3. PICK g : Recurs(g, H, Nat, 1, 32)
    <2>1. 1 \in Nat /\ 32 \in Nat
      OBVIOUS
    <2> QED BY <1>2, <2>1, Recursion
  <1>4. ASSUME NEW k \in 1 .. 32 PROVE g[k] = IF g[k - 1] > v THEN g[k - 1] ELSE 10 * g[k - 1]
    <2>1. k - 1 \in 0 .. 32
      OBVIOUS
    <2>2. g[k - 1] \in Nat /\ g[k] = H[<<k, g[k - 1]>>]
      BY <1>3, <2>1 DEF Recurs
    <2> QED BY <1>1, <2>2
  <1>5. \A k \in 0 .. 32 : k # 0 => k \in 1 .. 32
    OBVIOUS
  <1>6. g[0] = 1 /\ g = [k \in 0 .. 32 |-> g[k]]
    BY <1>3 DEF Recurs
  <1>7. \A k \in 0 .. 32 : g[k] = IF k = 0 THEN 1 ELSE
                                  IF g[k - 1] > v THEN g[k - 1] ELSE 10 * g[k - 1]
    BY <1>4, <1>5, <1>6
  <1>8. Powers(g, v)
    BY <1>6, <1>7 DEF Powers
  <1> QED BY <1>8

\* n digits of v: p holds the powers of ten, and only the last exceeds v.
Decimals(p, n, v) ==
    /\ n \in 1 .. 31 /\ p[0] = 1 /\ p[n] > v /\ p[n - 1] <= v
    /\ \A i \in 0 .. n : p[i] \in Nat \ {0}
    /\ \A i \in 1 .. n : p[i] = 10 * p[i - 1]

Placing(p, n, v) == [i \in 1 .. n |-> digits[((v \div p[i - 1]) % 10) + 1]]

LEMMA TmpIs ==
    ASSUME NEW v \in Nat, v # 0, Wide, v < Word
    PROVE  \E p, n : Decimals(p, n, v) /\ tmp(v, 10) = Placing(p, n, v)
  <1> DEFINE p == CHOOSE f : Powers(f, v)
             Ended(n) == (n = 32 \/ p[n] > v) /\ \A m \in 0 .. n - 1 : p[m] <= v
             x == CHOOSE n \in 0 .. 32 : Ended(n)
  <1>1. tmp(v, 10) = Placing(p, x, v)
    BY DEF tmp, Placing, Powers
  <1>2. Powers(p, v)
    BY PowersExist
  <1> HIDE DEF p
  <1>3. p[0] = 1 /\ \A k \in 1 .. 32 : p[k] = IF p[k - 1] > v THEN p[k - 1] ELSE 10 * p[k - 1]
    <2>1. \A k \in 0 .. 32 : p[k] = IF k = 0 THEN 1 ELSE
                                    IF p[k - 1] > v THEN p[k - 1] ELSE 10 * p[k - 1]
      BY <1>2 DEF Powers
    <2>2. 0 \in 0 .. 32 /\ \A k \in 1 .. 32 : k \in 0 .. 32 /\ k # 0
      OBVIOUS
    <2> QED BY <2>1, <2>2
  <1>4. \A k \in 0 .. 32 : p[k] \in Nat \ {0}
    <2> DEFINE S == {k \in Nat : k <= 32 => p[k] \in Nat \ {0}}
    <2>1. 0 \in S
      BY <1>3
    <2>2. ASSUME NEW k \in Nat, k \in S PROVE k + 1 \in S
      <3> SUFFICES ASSUME k + 1 <= 32 PROVE p[k + 1] \in Nat \ {0}
        OBVIOUS
      <3>1. p[k] \in Nat \ {0} /\ k + 1 \in 1 .. 32 /\ (k + 1) - 1 = k
        BY <2>2
      <3>2. p[k + 1] = IF p[k] > v THEN p[k] ELSE 10 * p[k]
        BY <1>3, <3>1
      <3> QED BY <3>1, <3>2
    <2>3. \A k \in Nat : k \in S
      <3> HIDE DEF S
      <3> QED BY <2>1, <2>2, Reaches
    <2> QED BY <2>3
  <1>5. p[31] > v
    <2>1. PICK ten \in [0 .. 31 -> Nat] : Tens(ten) /\ Word <= ten[31]
      BY DEF Wide
    <2> DEFINE S == {k \in Nat : k <= 31 => p[k] > v \/ p[k] = ten[k]}
    <2>2. 0 \in S
      BY <1>3, <2>1 DEF Tens
    <2>3. ASSUME NEW k \in Nat, k \in S PROVE k + 1 \in S
      <3> SUFFICES ASSUME k + 1 <= 31 PROVE p[k + 1] > v \/ p[k + 1] = ten[k + 1]
        OBVIOUS
      <3>1. /\ k + 1 \in 1 .. 31 /\ k + 1 \in 1 .. 32 /\ (k + 1) - 1 = k
            /\ p[k] > v \/ p[k] = ten[k]
        BY <2>3
      <3>2. p[k + 1] = IF p[k] > v THEN p[k] ELSE 10 * p[k]
        BY <1>3, <3>1
      <3>3. ten[k + 1] = 10 * ten[k]
        BY <2>1, <3>1 DEF Tens
      <3> QED BY <3>1, <3>2, <3>3
    <2>4. \A k \in Nat : k \in S
      <3> HIDE DEF S
      <3> QED BY <2>2, <2>3, Reaches
    <2>5. p[31] > v \/ p[31] = ten[31]
      BY <2>4
    <2>6. ten[31] \in Nat /\ Word \in Nat
      BY <2>1 DEF Wide
    <2> QED BY <2>1, <2>5, <2>6
  <1>6. \E n \in 0 .. 32 : Ended(n)
    <2> DEFINE I == {n \in 0 .. 32 : p[n] > v}
    <2>1. I # {} /\ I \subseteq Nat
      BY <1>5
    <2>2. Min(I) \in I /\ \A y \in I : Min(I) <= y
      <3> HIDE DEF I
      <3> QED BY <2>1, Least
    <2>3. PICK n \in 0 .. 32 : p[n] > v /\ \A y \in I : n <= y
      BY <2>2
    <2>4. ASSUME NEW m \in 0 .. n - 1 PROVE p[m] <= v
      <3>1. m \in 0 .. 32 /\ ~(n <= m)
        OBVIOUS
      <3>2. ~(p[m] > v) /\ p[m] \in Nat
        BY <1>4, <2>3, <3>1
      <3> QED BY <3>2
    <2> QED BY <2>3, <2>4
  <1>7. x \in 0 .. 32 /\ Ended(x)
    <2> HIDE DEF Ended
    <2> QED BY <1>6
  <1> HIDE DEF x
  <1>8. x \in 1 .. 31
    <2>1. x # 0
      BY <1>3, <1>7
    <2>2. ~(31 <= x - 1)
      <3>1. 31 <= x - 1 => p[31] <= v
        BY <1>7
      <3>2. p[31] \in Nat
        BY <1>4
      <3> QED BY <1>5, <3>1, <3>2
    <2> QED BY <1>7, <2>1, <2>2
  <1>9. Decimals(p, x, v)
    <2>1. x - 1 \in 0 .. x - 1 /\ x # 32
      BY <1>8
    <2>2. p[x] > v /\ p[x - 1] <= v
      BY <1>7, <2>1
    <2>3. ASSUME NEW i \in 1 .. x PROVE p[i] = 10 * p[i - 1]
      <3>1. i \in 1 .. 32 /\ i - 1 \in 0 .. x - 1 /\ i - 1 \in 0 .. 32
        BY <1>8
      <3>2. p[i - 1] <= v /\ p[i - 1] \in Nat
        BY <1>4, <1>7, <3>1
      <3>3. ~(p[i - 1] > v)
        BY <3>2
      <3> QED BY <1>3, <3>1, <3>3
    <2>4. \A i \in 0 .. x : p[i] \in Nat \ {0}
      BY <1>4, <1>8
    <2> QED BY <1>3, <1>8, <2>2, <2>3, <2>4 DEF Decimals
  <1> QED BY <1>1, <1>9

\* A sequence of n elements, given one by one.
Listed(s, n) == n \in Nat /\ s = [i \in 1 .. n |-> s[i]]

LEMMA Whole ==
    ASSUME NEW s, NEW n, Listed(s, n)
    PROVE  Len(s) = n /\ DOMAIN s = 1 .. n /\ (n # 0 => s # <<>>) /\ SubSeq(s, 1, n) = s
  <1> DEFINE R == {s[i] : i \in 1 .. n}
  <1>1. n \in Nat /\ s \in [1 .. n -> R]
    BY DEF Listed
  <1> HIDE DEF R
  <1>2. s \in Seq(R) /\ DOMAIN s = 1 .. n
    BY <1>1, SeqDef
  <1>3. Len(s) = n
    BY <1>1, <1>2, LenProperties
  <1>4. SubSeq(s, 1, n) = [i \in 1 .. n |-> s[i]]
    BY <1>1, <1>2, <1>3
  <1>5. n # 0 => s # <<>>
    BY <1>1, <1>2, <1>3
  <1> QED BY <1>1, <1>2, <1>3, <1>4, <1>5

\* What is printed for the number v.
LEMMA DecIs ==
    ASSUME NEW v \in Nat, Wide, v < Word
    PROVE  Canonical(ku64_to_dec(32, v)) /\ Value(ku64_to_dec(32, v)) = v
  <1>1. PICK t : t = ku64_to_dec(32, v)
    OBVIOUS
  <1>2. CASE v = 0
    <2>1. t = <<"0">>
      <3>1. SubSeq(<<"0">>, 1, 1) = <<"0">> /\ Len(<<"0">>) = 1
        <4>1. PICK z : z = <<"0">>
          OBVIOUS
        <4>2. Listed(z, 1)
          BY <4>1 DEF Listed
        <4> QED BY <4>1, <4>2, Whole
      <3> QED BY <1>1, <1>2, <3>1 DEF ku64_to_dec, convert_u64
    <2>2. Digit("0") = 0
      <3>1. 0 \in 0 .. 9 /\ 0 + 1 = 1
        OBVIOUS
      <3>2. digits[1] = "0"
        BY DEF digits
      <3> QED BY <3>1, <3>2, DigitIs
    <2>3. Len(t) = 1 /\ t[1] = "0" /\ DOMAIN t = 1 .. 1 /\ t # <<>>
      BY <2>1
    <2>4. PICK f : Adds(f, t, 1)
      <3>1. Numeral(t, 1)
        BY <2>2, <2>3 DEF Numeral
      <3> QED BY <3>1, ValueIs
    <2>5. Value(t) = 0
      <3>1. Value(t) = f[1] /\ f[0] = 0 /\ f[1] = 10 * f[1 - 1] + Digit(t[1])
        BY <2>4 DEF Adds
      <3> QED BY <2>2, <2>3, <3>1
    <2>6. Canonical(t)
      BY <2>2, <2>3 DEF Canonical, Decimal
    <2> QED BY <1>1, <1>2, <2>5, <2>6
  <1>3. CASE v # 0
    <2>1. PICK p, n : Decimals(p, n, v) /\ tmp(v, 10) = Placing(p, n, v)
      BY <1>3, TmpIs
    <2>2. /\ n \in 1 .. 31 /\ n \in Nat /\ p[0] = 1 /\ p[n] > v /\ p[n - 1] <= v
          /\ \A i \in 0 .. n : p[i] \in Nat \ {0}
          /\ \A i \in 1 .. n : p[i] = 10 * p[i - 1]
      BY <2>1 DEF Decimals
    <2> DEFINE D(k) == (v \div p[n - k]) % 10
    <2>3. ASSUME NEW k \in 1 .. n PROVE n - k \in 0 .. n /\ p[n - k] \in Nat \ {0} /\ D(k) \in 0 .. 9
      <3>1. n - k \in 0 .. n /\ p[n - k] \in Nat \ {0}
        BY <2>2
      <3>2. v \div p[n - k] \in Nat
        BY <3>1
      <3> QED BY <3>1, <3>2
    <2>4. /\ Len(t) = n /\ DOMAIN t = 1 .. n
          /\ \A k \in 1 .. n : t[k] = digits[D(k) + 1]
      <3>1. PICK s : s = Placing(p, n, v) /\ Len(s) = n
        <4>1. PICK s : s = Placing(p, n, v)
          OBVIOUS
        <4>2. Listed(s, n)
          BY <2>2, <4>1 DEF Listed, Placing
        <4> QED BY <4>1, <4>2, Whole
      <3>2. PICK r : r = [i \in 1 .. n |-> s[(n - i) + 1]]
        OBVIOUS
      <3>3. Len(r) = n /\ DOMAIN r = 1 .. n /\ SubSeq(r, 1, n) = r
        <4>1. Listed(r, n)
          BY <2>2, <3>2 DEF Listed
        <4> QED BY <4>1, Whole
      <3>4. Reverse(s) = r
        BY <2>2, <3>1, <3>2 DEF Reverse
      <3>5. n < 32
        BY <2>2
      <3>6. t = r
        BY <1>1, <1>3, <2>1, <3>1, <3>3, <3>4, <3>5 DEF ku64_to_dec, convert_u64
      <3>7. ASSUME NEW k \in 1 .. n PROVE t[k] = digits[D(k) + 1]
        <4>1. (n - k) + 1 \in 1 .. n /\ ((n - k) + 1) - 1 = n - k
          BY <2>2
        <4>2. s[(n - k) + 1] = digits[D(k) + 1]
          BY <3>1, <4>1 DEF Placing
        <4> QED BY <3>2, <3>6, <4>2
      <3>8. Len(t) = n /\ DOMAIN t = 1 .. n
        BY <3>3, <3>6
      <3> QED BY <3>7, <3>8
    <2>5. \A k \in 1 .. n : Digit(t[k]) = D(k) /\ D(k) \in 0 .. 9 /\ (t[k] = "0" <=> D(k) = 0)
      BY <2>3, <2>4, DigitIs
    <2>6. D(1) # 0
      <3>1. PICK q \in Nat \ {0} : q = p[n - 1] /\ q <= v /\ v < 10 * q
        <4>1. n - 1 \in 0 .. n /\ n \in 1 .. n /\ v < p[n]
          BY <2>2
        <4> QED BY <2>2, <4>1
      <3>2. v \div q \in 1 .. 9
        BY <3>1
      <3> QED BY <3>1, <3>2
    <2> HIDE DEF D
    <2>7. PICK f : Adds(f, t, n)
      <3>1. Numeral(t, n)
        <4>1. n \in Nat /\ n = Len(t)
          BY <2>2, <2>4
        <4>2. \A i \in 1 .. n : Digit(t[i]) \in 0 .. 9
          BY <2>5
        <4>3. \A i \in 1 .. n : Digit(t[i]) \in Nat
          BY <4>2
        <4> QED BY <4>1, <4>3 DEF Numeral
      <3> QED BY <3>1, ValueIs
    <2>8. /\ f \in [0 .. n -> Nat] /\ Value(t) = f[n] /\ f[0] = 0
          /\ \A k \in 1 .. n : f[k] = 10 * f[k - 1] + Digit(t[k])
      BY <2>7 DEF Adds
    <2> DEFINE S == {k \in Nat : k <= n => f[k] = v \div p[n - k]}
    <2>9. 0 \in S
      <3>1. p[n] \in Nat \ {0} /\ v < p[n] /\ n - 0 = n
        BY <2>2
      <3>2. v \div p[n] = 0
        BY <3>1
      <3> QED BY <2>8, <3>1, <3>2
    <2>10. ASSUME NEW k \in Nat, k \in S PROVE k + 1 \in S
      <3> SUFFICES ASSUME k + 1 <= n PROVE f[k + 1] = v \div p[n - (k + 1)]
        OBVIOUS
      <3>1. /\ k + 1 \in 1 .. n /\ (k + 1) - 1 = k /\ k <= n
            /\ n - k \in 1 .. n /\ (n - k) - 1 = n - (k + 1) /\ n - (k + 1) \in 0 .. n
        BY <2>2
      <3>2. PICK q \in Nat \ {0} : q = p[n - (k + 1)] /\ p[n - k] = 10 * q
        BY <2>2, <3>1
      <3>3. f[k] = v \div (10 * q)
        BY <2>10, <3>1, <3>2
      <3>4. f[k + 1] = 10 * f[k] + ((v \div q) % 10)
        <4>1. f[k + 1] = 10 * f[k] + D(k + 1)
          BY <2>5, <2>8, <3>1
        <4> QED BY <3>2, <4>1 DEF D
      <3>5. (v \div q) \div 10 = v \div (10 * q)
        BY <3>2
      <3>6. PICK y \in Nat : y = v \div q
        BY <3>2
      <3>7. y = 10 * (y \div 10) + (y % 10)
        BY <3>6
      <3> QED BY <3>2, <3>3, <3>4, <3>5, <3>6, <3>7
    <2>11. \A k \in Nat : k \in S
      <3> HIDE DEF S
      <3> QED BY <2>9, <2>10, Reaches
    <2>12. f[n] = v
      <3>1. f[n] = v \div p[n - n]
        BY <2>2, <2>11
      <3> QED BY <2>2, <3>1
    <2>13. Canonical(t)
      <3>1. 1 \in 1 .. n /\ t # <<>>
        BY <2>2, <2>4
      <3>2. t[1] # "0"
        BY <2>5, <2>6, <3>1
      <3>3. \A k \in 1 .. n : Decimal(t[k])
        BY <2>5 DEF Decimal
      <3> QED BY <2>4, <3>1, <3>2, <3>3 DEF Canonical
    <2> QED BY <1>1, <2>8, <2>12, <2>13
  <1> QED BY <1>2, <1>3

\* The number of sleep and allocdemo, the default without an operand.
Taken(default, n) ==
    IF Operands # <<>> /\ \E k \in DOMAIN Operands[1] : ~Decimal(Operands[1][k])
      THEN ~n.ok
      ELSE /\ n.ok /\ n.value \in Nat /\ n.value < Word
           /\ Operands # <<>> => n.value = Value(Operands[1]) % Word

LEMMA NumberIs ==
    ASSUME Wide, Answer, NEW default \in Nat, default < Word
    PROVE  Taken(default, Number(default))
  <1>1. PICK m \in Nat : m = Len(args) /\ m = Len(Operands) /\ Operands \in Seq(Seq(Typed))
    BY OperandsAre
  <1>2. CASE m = 0
    <2>1. Operands = <<>>
      <3>1. \A s \in Seq(Seq(Typed)) : Len(s) = 0 => s = <<>>
        BY EmptySeq
      <3> QED BY <1>1, <1>2, <3>1
    <2>2. Number(default) = [ok |-> TRUE, value |-> default]
      BY <1>1, <1>2 DEF Number, argc
    <2> QED BY <2>1, <2>2 DEF Taken
  <1>3. CASE m # 0
    <2>1. PICK w \in Seq(Typed) : w = Arg(1) /\ w = Operands[1] /\ w # <<>>
      <3>1. 1 \in 1 .. m
        BY <1>3
      <3>2. Operands[1] = Arg(1)
        BY <1>1, <3>1, OperandsAre
      <3>3. Arg(1) \in Seq(Typed) \ {<<>>}
        BY <1>1, <3>1 DEF Answer, Arg
      <3> QED BY <3>2, <3>3
    <2>2. Operands # <<>>
      BY <1>1, <1>3
    <2>3. Number(default) = ku64_parse(w)
      BY <1>1, <1>3, <2>1 DEF Number, argc
    <2>4. ku64_parse(w).ok <=> \A i \in DOMAIN w : Decimal(w[i])
      BY <2>1 DEF ku64_parse
    <2>5. CASE \E k \in DOMAIN w : ~Decimal(w[k])
      BY <2>1, <2>2, <2>3, <2>4, <2>5 DEF Taken
    <2>6. CASE \A k \in DOMAIN w : Decimal(w[k])
      <3>1. PICK n \in Nat : n = Len(w) /\ DOMAIN w = 1 .. n
        BY <2>1
      <3>2. \A i \in 1 .. n : Digit(w[i]) \in 0 .. 9
        BY <2>6, <3>1 DEF Decimal
      <3>3. \A i \in 1 .. n : Digit(w[i]) \in Nat
        BY <3>2
      <3>4. Numeral(w, n)
        BY <3>1, <3>3 DEF Numeral
      <3>5. ku64_parse(w).value = Value(w) % Word /\ Value(w) \in Nat
        BY <3>4, ParseIs
      <3>6. Value(w) % Word \in Nat /\ Value(w) % Word < Word
        <4>1. \A x \in Nat, y \in Nat : 100 < y => x % y \in Nat /\ x % y < y
          OBVIOUS
        <4>2. Word \in Nat /\ 100 < Word
          BY DEF Wide
        <4> QED BY <3>5, <4>1, <4>2
      <3> QED BY <2>1, <2>2, <2>3, <2>4, <2>6, <3>5, <3>6 DEF Taken
    <2> QED BY <2>5, <2>6
  <1> QED BY <1>2, <1>3

\* What NumbersExact says of sleep and allocdemo, of the next state.
Exact ==
    IF Operands # <<>> /\ \E k \in DOMAIN Operands[1] : ~Decimal(Operands[1][k])
      THEN out' = <<Text("Usage")>> /\ effect' = NoEffect
      ELSE /\ Operands # <<>> => effect'[2] = Value(Operands[1]) % Word
           /\ out' # <<Text("Allocation failed")>> =>
                Canonical(out'[1]) /\ Value(out'[1]) = effect'[2]

LEMMA SecondIs == \A x, y : <<x, y>>[2] = y /\ <<x>>[1] = x
  OBVIOUS

LEMMA SleepExact ==
    ASSUME Wide, Answer, cmd_sleep
    PROVE  Exact
  <1>1. PICK n : n = Number(100) /\ Taken(100, n)
    <2>1. 100 \in Nat /\ 100 < Word
      BY DEF Wide
    <2> QED BY <2>1, NumberIs
  <1>2. CASE ~n.ok
    <2>1. out' = <<Text("Usage")>> /\ effect' = NoEffect
      BY <1>1, <1>2 DEF cmd_sleep, Prints
    <2> QED BY <1>1, <1>2, <2>1 DEF Taken, Exact
  <1>3. CASE n.ok
    <2>1. out' = <<ku64_to_dec(32, n.value)>> /\ effect' = <<"system_sleep_ms", n.value>>
      BY <1>1, <1>3 DEF cmd_sleep, Prints, kprint_u64
    <2>2. out'[1] = ku64_to_dec(32, n.value) /\ effect'[2] = n.value
      BY <2>1, SecondIs
    <2>3. n.value \in Nat /\ n.value < Word
      BY <1>1, <1>3 DEF Taken
    <2>4. Canonical(out'[1]) /\ Value(out'[1]) = effect'[2]
      BY <2>2, <2>3, DecIs
    <2> QED BY <1>1, <1>3, <2>2, <2>4 DEF Taken, Exact
  <1> QED BY <1>2, <1>3

LEMMA AllocExact ==
    ASSUME Wide, Answer, cmd_allocdemo
    PROVE  Exact
  <1>1. PICK n : n = Number(64) /\ Taken(64, n)
    <2>1. 64 \in Nat /\ 64 < Word
      BY DEF Wide
    <2> QED BY <2>1, NumberIs
  <1>2. CASE ~n.ok /\ out' = <<Text("Usage")>> /\ effect' = NoEffect
    BY <1>1, <1>2 DEF Taken, Exact
  <1>3. CASE n.ok /\ out' = <<Text("Allocation failed")>> /\ effect' = <<"kmalloc", n.value>>
    <2>1. effect'[2] = n.value
      BY <1>3, SecondIs
    <2> QED BY <1>1, <1>3, <2>1 DEF Taken, Exact
  <1>4. CASE n.ok /\ out' = <<ku64_to_dec(32, n.value)>> /\ effect' = <<"kmalloc", n.value>>
    <2>1. out'[1] = ku64_to_dec(32, n.value) /\ effect'[2] = n.value
      BY <1>4, SecondIs
    <2>2. n.value \in Nat /\ n.value < Word
      BY <1>1, <1>4 DEF Taken
    <2>3. Canonical(out'[1]) /\ Value(out'[1]) = effect'[2]
      BY <2>1, <2>2, DecIs
    <2> QED BY <1>1, <1>4, <2>1, <2>3 DEF Taken, Exact
  <1> QED BY <1>1, <1>2, <1>3, <1>4 DEF cmd_allocdemo, Prints, kprint_u64

\* For every line and every number in it, sleep and allocdemo use the number
\* typed modulo 2^64 or refuse the operand, and what they print is the decimal
\* numeral, without leading zeros, of the number they use.
THEOREM Numbers ==
    ASSUME Wide
    PROVE  LineSpec => []NumbersExact
  <1> DEFINE Inv == ParseInv /\ NumbersExact
  <1>1. LineInit => Inv
    BY ParseInit DEF LineInit, ParserInit, NumbersExact
  <1>2. Inv /\ [LineNext]_lineVars => Inv'
    <2> SUFFICES ASSUME Inv, [LineNext]_lineVars PROVE Inv'
      OBVIOUS
    <2>1. ParseInv'
      BY ParseStep
    <2>2. CASE shell_parse_command
      <3>1. pc' # "executed"
        BY <2>2 DEF shell_parse_command, parse_cmd, parse_arg, parse_end
      <3> QED BY <2>1, <3>1 DEF NumbersExact
    <2>3. ASSUME line' = line PROVE Named' = Named /\ Operands' = Operands
      <3>1. Words' = Words
        BY <2>3 DEF Words, WordAt, Starts
      <3> QED BY <3>1 DEF Named, Operands
    <2>4. CASE execute_command
      <3>1. pc = "done" /\ line' = line
        BY <2>4 DEF execute_command
      <3>2. Answer
        BY <3>1, Answers
      <3>3. Named' = Named /\ Operands' = Operands
        BY <2>3, <3>1
      <3>4. Runs(Named)
        BY <2>4, <3>2, RunsNamed
      <3>5. Named \in {"sleep", "allocdemo"} => Exact
        BY <3>2, <3>4, SleepExact, AllocExact DEF Runs
      <3>6. NumbersExact'
        BY <3>3, <3>5 DEF NumbersExact, Exact
      <3> QED BY <2>1, <3>6
    <2>5. CASE UNCHANGED lineVars
      <3>1. UNCHANGED <<line, pc, out, effect>>
        BY <2>5 DEF lineVars, parserVars
      <3>2. Named' = Named /\ Operands' = Operands
        BY <2>3, <3>1
      <3> QED BY <2>1, <3>1, <3>2 DEF NumbersExact
    <2> QED BY <2>2, <2>4, <2>5 DEF LineNext
  <1> QED BY <1>1, <1>2, PTL DEF LineSpec
=============================================================================
