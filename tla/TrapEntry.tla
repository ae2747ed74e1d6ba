----------------------------- MODULE TrapEntry -----------------------------
(***************************************************************************)
(* The way into a trap and back, src/trap_asm.asm with the frame of        *)
(* src/trap.h and the cases of trap_dispatch in src/trap.c: the processor  *)
(* and the stub of the vector build a frame on the stack, isr_common saves *)
(* the registers, calls trap_dispatch and undoes it all.  The stack is a   *)
(* sequence of words, its top at the end; two words are 16 bytes.  Module  *)
(* Machine says when a trap is taken.                                      *)
(***************************************************************************)
EXTENDS Integers, Sequences, SequencesExt

CONSTANTS
    Vectors,  \* the vectors that may be raised, of 0 .. 47
    Depths    \* the words on the stack of the interrupted program

ASSUME TrapAssumption == Vectors \subseteq 0 .. 47 /\ Depths \subseteq Nat

\* PUSH_REGS, in its order; the frame lists them the other way round.
Pushed == <<"rax", "rbx", "rcx", "rdx", "rsi", "rdi", "rbp", "r8", "r9", "r10",
            "r11", "r12", "r13", "r14", "r15">>
Registers == Range(Pushed)

\* trap_frame_t, from the lowest address on.
Fields == Reverse(Pushed) \o <<"vector", "error_code", "rip", "cs", "rflags">>

\* The registers a C function may change.
CallerSaved == {"rax", "rcx", "rdx", "rsi", "rdi", "r8", "r9", "r10", "r11"}

\* The vectors for which the processor pushes an error code.
PushesError == {8, 10, 11, 12, 13, 14, 17, 21, 29, 30}

\* Mutant: no stub of its own for the page fault.
ISR_ERR_short == {8, 10, 11, 12, 13, 17, 21, 30}

\* The vectors whose stub is made with ISR_ERR.
ISR_ERR == {8, 10, 11, 12, 13, 14, 17, 21, 30}

VARIABLES
    pc,
    vector,   \* the one raised
    depth,    \* history: the words on the stack before the trap
    reg,      \* register -> what it holds
    stack,
    rdi,      \* the stack top that was passed to trap_dispatch, 0 before
    printed   \* what dump_frame has printed, by label

vars == <<pc, vector, depth, reg, stack, rdi, printed>>

\* What the interrupted program had in a register, and on its stack.
Mine(r) == <<"mine", r>>
Before == [k \in 1 .. depth |-> Mine("word")]
Junk == <<"junk", "">>
Word(name) == <<"word", name>>
Number(n) == <<"number", n>>
-----------------------------------------------------------------------------
Init ==
    /\ pc = "running"
    /\ vector = 0
    /\ depth \in Depths
    /\ reg = [r \in Registers |-> Mine(r)]
    /\ stack = Before
    /\ rdi = 0
    /\ printed = <<>>

\* The last n words of the stack removed.
Popped(n) == SubSeq(stack, 1, Len(stack) - n)

\* The stack, filled up to 16 bytes.
Aligned(s) == IF Len(s) % 2 = 0 THEN s ELSE Append(s, Junk)

\* The processor aligns the stack and pushes ss, rsp, rflags, cs and rip.
cpu_trap(v) ==
    /\ pc = "running"
    /\ vector' = v
    /\ stack' = Aligned(stack)
                  \o << Word("ss"), Word("rsp"), Word("rflags"), Word("cs"), Word("rip") >>
                  \o (IF v \in PushesError THEN << Word("error_code") >> ELSE <<>>)
    /\ pc' = "stub"
    /\ UNCHANGED <<depth, reg, rdi, printed>>

isr_stub ==
    /\ pc = "stub"
    /\ stack' = stack \o (IF vector \in ISR_ERR THEN <<>> ELSE << Number(0) >>)
                      \o << Number(vector) >>
    /\ pc' = "push"
    /\ UNCHANGED <<vector, depth, reg, rdi, printed>>

PUSH_REGS ==
    /\ pc = "push"
    /\ stack' = stack \o [k \in DOMAIN Pushed |-> reg[Pushed[k]]]
    /\ pc' = "call"
    /\ UNCHANGED <<vector, depth, reg, rdi, printed>>

\* and rsp, -16.
and_rsp(s) == Aligned(s)

\* mov rdi, rsp; mov rbx, rsp; and rsp, -16; call.
call_trap_dispatch ==
    /\ pc = "call"
    /\ rdi' = Len(stack)
    /\ reg' = [reg EXCEPT !["rdi"] = Number(Len(stack)), !["rbx"] = Number(Len(stack))]
    /\ stack' = Append(and_rsp(stack), Word("return"))
    /\ pc' = "dispatch"
    /\ UNCHANGED <<vector, depth, printed>>

\* frame->field, for the frame at rdi.
Field(name) == stack[rdi + 1 - SelectInSeq(Fields, LAMBDA f : f = name)]

\* A frame with the fault address of a page fault.
WithAddress(frame) ==
    [f \in DOMAIN frame \cup {"cr2"} |-> IF f = "cr2" THEN Word("cr2") ELSE frame[f]]

\* dump_frame: each value under its label, cr2 for a page fault.
dump_frame ==
    LET frame == [f \in Range(Fields) |-> Field(f)]
    IN  IF Field("vector") = Number(14) THEN WithAddress(frame) ELSE frame

\* trap_dispatch branches on the frame's vector: exceptions are printed and
\* stop the machine, the timer, the keyboard and the spurious interrupt return,
\* everything else is a panic.
trap_dispatch ==
    /\ pc = "dispatch"
    /\ pc' = IF Field("vector") \in {Number(v) : v \in {32, 33, 39}}
               THEN "restore" ELSE "stopped"
    /\ printed' = IF Field("vector") \in {Number(v) : v \in 0 .. 31}
                    THEN dump_frame ELSE <<>>
    /\ reg' = [r \in Registers |-> IF r \in CallerSaved THEN Junk ELSE reg[r]]
    /\ stack' = IF pc' = "restore" THEN Popped(1) ELSE stack
    /\ UNCHANGED <<vector, depth, rdi>>

\* mov rsp, rbx.
restore_rsp ==
    /\ pc = "restore"
    /\ stack' = SubSeq(stack, 1, reg["rbx"][2])
    /\ pc' = "pop"
    /\ UNCHANGED <<vector, depth, reg, rdi, printed>>

\* Mutant: pops in the order of the pushes.
PopOrderPushed == Pushed

\* The order of POP_REGS.
PopOrder == Reverse(Pushed)

POP_REGS ==
    /\ pc = "pop"
    /\ reg' = [r \in Registers |->
                 stack[Len(stack) + 1 - SelectInSeq(PopOrder, LAMBDA p : p = r)]]
    /\ stack' = Popped(Len(Pushed))
    /\ pc' = "iretq"
    /\ UNCHANGED <<vector, depth, rdi, printed>>

\* add rsp, 16; iretq takes back rip, cs, rflags, rsp and ss, if that is what
\* it finds; any other words send the processor astray.
iretq ==
    /\ pc = "iretq"
    /\ LET found == SubSeq(stack, Len(stack) - 6, Len(stack) - 2)
       IN  IF found = << Word("ss"), Word("rsp"), Word("rflags"), Word("cs"), Word("rip") >>
             THEN pc' = "returned" /\ stack' = Before
             ELSE pc' = "astray" /\ UNCHANGED stack
    /\ UNCHANGED <<vector, depth, reg, rdi, printed>>

isr_common ==
    \/ isr_stub \/ PUSH_REGS \/ call_trap_dispatch \/ trap_dispatch
    \/ restore_rsp \/ POP_REGS \/ iretq
-----------------------------------------------------------------------------
\* What was interrupted, as trap_frame_t names it.
Interrupted ==
    [f \in Registers \cup {"vector", "error_code", "rip", "cs", "rflags"} |->
       CASE f \in Registers -> Mine(f)
         [] f = "vector" -> Number(vector)
         [] f = "error_code" /\ vector \notin PushesError -> Number(0)
         [] OTHER -> Word(f)]

\* What trap_dispatch reads through trap_frame_t is what was interrupted: the
\* vector, the error code of the processor or 0, the instruction pointer, code
\* segment and flags, and each register under its own name.  An exception that
\* stops the machine has printed just that, and the fault address of a page
\* fault and of nothing else.  The call finds a stack aligned to 16 bytes, as
\* the calling convention has it, whatever the interrupted program was doing.
FrameGenuine ==
    /\ pc = "dispatch" => /\ \A f \in DOMAIN Interrupted : Field(f) = Interrupted[f]
                          /\ Len(stack) % 2 = 1
    /\ pc = "stopped" =>
         printed = IF vector = 14 THEN WithAddress(Interrupted)
                   ELSE IF vector < 32 THEN Interrupted ELSE <<>>

\* An interrupt that returns is invisible to the program it interrupted:
\* every register and the stack are as before, and it does return.
Transparent ==
    /\ pc # "astray"
    /\ pc = "returned" => /\ reg = [r \in Registers |-> Mine(r)]
                          /\ stack = Before
=============================================================================
