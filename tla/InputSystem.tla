----------------------------- MODULE InputSystem -----------------------------
(***************************************************************************)
(* The running kernel as input and time see it: the main program in        *)
(* input_getevent (src/input.c) or system_sleep_ms (src/system.c), halting *)
(* the CPU while there is nothing to do; the interrupt controller and      *)
(* trap_dispatch (src/trap.c) with the timer and keyboard handlers; the    *)
(* keyboard ring of module Keyboard between them; the serial port, which   *)
(* is polled.  Handlers run with interrupts disabled, so the main program  *)
(* stands still and no second interrupt is taken until the handler ends.   *)
(***************************************************************************)
EXTENDS Keyboard, FiniteSetsExt

CONSTANTS
    MaxKeys,   \* bound: the scancodes the keyboard sends
    Scripts,   \* what a terminal may send over the serial line
    Delays,    \* the arguments of the sleep command
    MaxTicks,  \* bound: timer_ticks is followed up to here
    Word       \* 2^64 in the code: the width of the tick arithmetic

ASSUME WordAssumption == MaxTicks \in Nat /\ Word \in Nat /\ Word > MaxTicks
ASSUME DelayAssumption == Delays \subseteq Nat

VARIABLES
    main,                      \* where the main program is
    out,                       \* the event input_getevent returned last
    irr, isr,                  \* the controller: requests, interrupts in service
    handler,                   \* the interrupt being handled and its progress
    kbc, typed,                \* scancodes waiting in the 8042, and sent in all
    line, uart,                \* bytes not yet sent, and received and unread
    timer_ticks, deadline,
    start, delay,              \* history: when and how long a sleep should last
    busy, temp                 \* the input buffer of the 8042, and the status read

devices == <<kbc, typed, line, uart>>
pic == <<irr, isr, handler>>
sleep == <<deadline, start, delay>>
reboot == <<busy, temp>>
calls == <<sleep, reboot>>
sysVars == <<vars, main, out, pic, devices, timer_ticks, calls>>

Idle == [irq |-> -1, at |-> "none"]
Running == handler = Idle

\* Where system_reboot and system_halt are, behind cpu_cli.
Rebooting == {"reboot_status", "reboot_drain", "reboot_command"}
Ended == {"reset", "hung", "stopped"}
InterruptsOn == main \notin Rebooting \cup Ended
-----------------------------------------------------------------------------
(* The devices.                                                            *)

\* Mutant: the timer is masked, too.
UnmaskedKeyboardOnly == {1, 2}

\* The lines pic_remap leaves open, mask 0xF8.
Unmasked == {0, 1, 2}

\* The period of the timer is longer than its handler runs.
TimerFires ==
    /\ handler.irq # 0
    /\ irr' = irr \cup {0}
    /\ UNCHANGED <<vars, main, out, isr, handler, devices, timer_ticks, calls>>

\* The 8042 requests an interrupt when a byte reaches its empty output buffer.
KeyArrives ==
    /\ typed < MaxKeys
    /\ typed' = typed + 1
    /\ \E scancode \in Scancodes : kbc' = Append(kbc, scancode)
    /\ irr' = IF kbc = <<>> THEN irr \cup {1} ELSE irr
    /\ UNCHANGED <<vars, main, out, isr, handler, line, uart, timer_ticks, calls>>

\* The serial port requests no interrupts (IER = 0).
ByteArrives ==
    /\ line # <<>>
    /\ uart' = Append(uart, Head(line))
    /\ line' = Tail(line)
    /\ UNCHANGED <<vars, main, out, pic, kbc, typed, timer_ticks, calls>>

\* The controller works off what was last written to it once there is room for
\* an answer in its output buffer.
ControllerTakes ==
    /\ busy /\ kbc = <<>>
    /\ busy' = FALSE
    /\ UNCHANGED <<vars, main, out, pic, devices, timer_ticks, sleep, temp>>
-----------------------------------------------------------------------------
(* Interrupts.                                                             *)

\* hlt ends with the interrupt: the main program resumes behind it, at the
\* top of its loop.
Woken == CASE main = "halted" -> "poll_serial"
           [] main = "sleep_halted" -> "sleep"
           [] OTHER -> main

Enter(irq) ==
    /\ Running /\ InterruptsOn
    /\ handler' = [irq |-> irq, at |-> "dispatch"]
    /\ main' = Woken
    /\ UNCHANGED <<vars, out, devices, timer_ticks, calls>>

\* The controller delivers the open request of highest priority, if no
\* interrupt of that or a higher priority is in service.
Interrupt(irq) ==
    /\ irq \in irr \cap Unmasked
    /\ \A other \in (irr \cap Unmasked) \cup isr : irq <= other
    /\ irq \notin isr
    /\ irr' = irr \ {irq}
    /\ isr' = isr \cup {irq}
    /\ Enter(irq)

\* A request that vanishes before it is acknowledged appears as interrupt 7
\* and is not put in service.
Spurious ==
    /\ UNCHANGED <<irr, isr>>
    /\ Enter(7)

\* Mutant: the tick is lost.
NoTick == timer_ticks

\* timer_ticks++, followed up to MaxTicks.
Tick == IF timer_ticks < MaxTicks THEN timer_ticks + 1 ELSE timer_ticks

Dispatched == handler' = [handler EXCEPT !.at = "eoi"]

\* trap_dispatch, vector 32.
dispatch_timer ==
    /\ handler = [irq |-> 0, at |-> "dispatch"]
    /\ timer_ticks' = Tick
    /\ Dispatched
    /\ UNCHANGED <<vars, main, out, irr, isr, devices, calls>>

\* Mutant: the handler leaves the byte where it is.
inb_nothing == UNCHANGED <<kbc, irr>>

\* inb(KEYBOARD_DATA_PORT) takes the byte and lets the next one in.
inb_data ==
    /\ kbc' = Tail(kbc)
    /\ irr' = IF Tail(kbc) = <<>> THEN irr ELSE irr \cup {1}

\* Vector 33, keyboard_handler.
dispatch_keyboard ==
    /\ handler = [irq |-> 1, at |-> "dispatch"]
    /\ keyboard_process_scancode(Head(kbc))
    /\ inb_data
    /\ Dispatched
    /\ UNCHANGED <<getevent, main, out, isr, typed, line, uart, timer_ticks, calls>>

\* Vector 39.
dispatch_spurious ==
    /\ handler = [irq |-> 7, at |-> "dispatch"]
    /\ Dispatched
    /\ UNCHANGED <<vars, main, out, irr, isr, devices, timer_ticks, calls>>

\* Mutant: the keyboard interrupt is not acknowledged.
AcknowledgedTimerOnly == isr \ {0}

\* pic_send_eoi takes the interrupt of highest priority out of service, if
\* there is one; iretq follows.
Acknowledged == IF isr = {} THEN {} ELSE isr \ {Min(isr)}

pic_send_eoi ==
    /\ handler.at = "eoi"
    /\ isr' = Acknowledged
    /\ handler' = Idle
    /\ UNCHANGED <<vars, main, out, irr, devices, timer_ticks, calls>>
-----------------------------------------------------------------------------
(* input_getevent.                                                         *)

\* The main program goes on to m; the part of the machine it leaves alone.
Goto(m) == Running /\ main' = m /\ UNCHANGED <<pic, kbc, typed, line, timer_ticks>>

serial_has_input == uart # <<>>

poll_serial ==
    /\ main = "poll_serial"
    /\ Goto(IF serial_has_input THEN "serial" ELSE "poll_keyboard")
    /\ UNCHANGED <<vars, out, uart, calls>>

poll_keyboard ==
    /\ main = "poll_keyboard"
    /\ Goto(IF keyboard_has_input THEN "keyboard" ELSE "hlt")
    /\ UNCHANGED <<vars, out, uart, calls>>

\* Between the check and the halt an interrupt may come and go.
cpu_hlt ==
    \/ /\ main = "hlt" /\ Goto("halted")
       /\ UNCHANGED <<vars, out, uart, calls>>
    \/ /\ main = "sleep_hlt" /\ Goto("sleep_halted")
       /\ UNCHANGED <<vars, out, uart, calls>>

\* keyboard_getevent, in the steps of module Keyboard.
read_keyboard ==
    /\ main = "keyboard"
    /\ keyboard_getevent
    /\ Goto(IF pc = "advance" THEN "got" ELSE "keyboard")
    /\ out' = IF pc = "advance" THEN event ELSE out
    /\ UNCHANGED <<uart, calls>>

\* serial_read_char: spins until there is a byte.
ReadByte ==
    /\ serial_has_input
    /\ uart' = Tail(uart)

input_event_char(c) == IF c = "cr" THEN "enter" ELSE c

Returns(e) ==
    /\ out' = e
    /\ Goto("got")

read_serial ==
    /\ main = "serial"
    /\ ReadByte
    /\ IF Head(uart) = "esc"
         THEN Goto("esc") /\ UNCHANGED out
         ELSE Returns(input_event_char(Head(uart)))
    /\ UNCHANGED <<vars, calls>>

\* After ESC: nothing there yet, or a byte that is not '[' (which is lost).
read_escape ==
    /\ main = "esc"
    /\ IF ~serial_has_input
         THEN Returns("esc") /\ UNCHANGED uart
         ELSE /\ ReadByte
              /\ IF Head(uart) = "["
                   THEN Goto("csi") /\ UNCHANGED out
                   ELSE Returns("esc")
    /\ UNCHANGED <<vars, calls>>

\* The final byte of the sequence, for which the code waits.
Arrow(c) ==
    CASE c = "A" -> "UP"
      [] c = "B" -> "DOWN"
      [] c = "C" -> "RIGHT"
      [] c = "D" -> "LEFT"
      [] OTHER -> "esc"

read_final ==
    /\ main = "csi"
    /\ ReadByte
    /\ Returns(Arrow(Head(uart)))
    /\ UNCHANGED <<vars, calls>>
-----------------------------------------------------------------------------
(* The caller: asks for the next event, or sleeps.                         *)

next_event ==
    /\ main = "got"
    /\ Goto("poll_serial")
    /\ UNCHANGED <<vars, out, uart, calls>>

\* The deadline is computed modulo 2^64.  Bound: a sleep ends within MaxTicks
\* or its deadline overflows.
system_sleep_ms(d) ==
    /\ main = "got"
    /\ timer_ticks + d <= MaxTicks \/ timer_ticks + d >= Word
    /\ deadline' = (timer_ticks + d) % Word
    /\ start' = timer_ticks
    /\ delay' = d
    /\ Goto("sleep")
    /\ UNCHANGED <<vars, out, uart, reboot>>

\* Mutant: one tick short.
NotYetEarly == timer_ticks + 1 < deadline

\* Whether the loop of system_sleep_ms goes on.
NotYet == timer_ticks < deadline

\* The deadline, a local variable, is forgotten when the loop ends.
sleep_check ==
    /\ main = "sleep"
    /\ IF NotYet
         THEN Goto("sleep_hlt") /\ UNCHANGED sleep
         ELSE Goto("poll_serial") /\ deadline' = 0 /\ start' = 0 /\ delay' = 0
    /\ UNCHANGED <<vars, out, uart, reboot>>

\* cmd_reboot, up to the loop.  The firmware may have left the controller busy:
\* nobody looked before.
system_reboot ==
    /\ main = "got"
    /\ busy' \in BOOLEAN
    /\ Goto("reboot_status")
    /\ UNCHANGED <<vars, out, uart, sleep, temp>>

\* inb(0x64): which of the controller's buffers are full.
reboot_status ==
    /\ main = "reboot_status"
    /\ temp' = {b \in {"output", "input"} : IF b = "output" THEN kbc # <<>> ELSE busy}
    /\ Goto("reboot_drain")
    /\ UNCHANGED <<vars, out, uart, sleep, busy>>

\* Mutant: waits without reading the output buffer.
drain_nothing == UNCHANGED <<kbc, irr>>

\* "if (temp & 0x01) inb(0x60)"
drain == IF "output" \in temp THEN inb_data ELSE UNCHANGED <<kbc, irr>>

reboot_drain ==
    /\ Running /\ main = "reboot_drain"
    /\ drain
    /\ main' = IF "input" \in temp THEN "reboot_status" ELSE "reboot_command"
    /\ UNCHANGED <<vars, out, isr, handler, typed, line, uart, timer_ticks, calls>>

\* outb(0x64, 0xFE): a busy controller would lose the command.
reboot_command ==
    /\ main = "reboot_command"
    /\ Goto(IF busy THEN "hung" ELSE "reset")
    /\ UNCHANGED <<vars, out, uart, calls>>

system_halt ==
    /\ main = "got"
    /\ Goto("stopped")
    /\ UNCHANGED <<vars, out, uart, calls>>

MainStep ==
    \/ reboot_status \/ reboot_drain \/ reboot_command
    \/ poll_serial \/ poll_keyboard \/ cpu_hlt
    \/ read_keyboard \/ read_serial \/ read_escape \/ read_final
    \/ next_event \/ sleep_check

HandlerStep == dispatch_timer \/ dispatch_keyboard \/ dispatch_spurious \/ pic_send_eoi

SysInit ==
    /\ Init
    /\ main = "poll_serial"
    /\ out = "a"
    /\ irr = {} /\ isr = {} /\ handler = Idle
    /\ kbc = <<>> /\ typed = 0
    /\ line \in Scripts /\ uart = <<>>
    /\ timer_ticks = 0
    /\ deadline = 0 /\ start = 0 /\ delay = 0
    /\ busy = FALSE /\ temp = {}

SysNext ==
    \/ TimerFires \/ KeyArrives \/ ByteArrives \/ ControllerTakes
    \/ \E irq \in {0, 1} : Interrupt(irq)
    \/ Spurious
    \/ HandlerStep
    \/ MainStep
    \/ \E d \in Delays : system_sleep_ms(d)
    \/ system_reboot \/ system_halt

SysSpec == SysInit /\ [][SysNext]_sysVars

\* The timer never stops, a terminal completes what it began to send, handlers
\* run to their end, a request that can be delivered again and again is
\* delivered, the 8042 works off what it was sent, and interrupts leave the main
\* program time to run.
Fairness ==
    /\ WF_sysVars(TimerFires)
    /\ WF_sysVars(ByteArrives)
    /\ WF_sysVars(HandlerStep)
    /\ SF_sysVars(ControllerTakes)
    /\ \A irq \in {0, 1} : SF_sysVars(Interrupt(irq))
    /\ SF_sysVars(MainStep)

FairSpec == SysSpec /\ Fairness
-----------------------------------------------------------------------------
\* Every variable has its type; the ring's indices stay inside it.
SysTypeOK ==
    /\ TypeOK
    /\ main \in {"poll_serial", "poll_keyboard", "hlt", "halted", "keyboard", "serial",
                 "esc", "csi", "got", "sleep", "sleep_hlt", "sleep_halted"}
                 \cup Rebooting \cup Ended
    /\ irr \subseteq {0, 1} /\ isr \subseteq {0, 1}
    /\ handler = Idle \/ handler \in [irq : {0, 1, 7}, at : {"dispatch", "eoi"}]
    /\ timer_ticks \in 0 .. MaxTicks
    /\ deadline \in 0 .. Word - 1
    /\ busy \in BOOLEAN /\ temp \subseteq {"output", "input"}

\* Each interrupt is acknowledged once: while the main program runs nothing
\* is in service, and while a handler runs only its own interrupt, so that
\* the acknowledgement of a spurious interrupt never hits another one.
ServiceBalanced ==
    /\ SysTypeOK
    /\ Running => isr = {}
    /\ ~Running => isr \subseteq {handler.irq}

\* A byte is in the 8042 only if its interrupt is requested or about to read
\* it: the keyboard never waits for a handler that does not come.
KeyboardArmed ==
    kbc # <<>> => 1 \in irr \/ handler = [irq |-> 1, at |-> "dispatch"]

\* system_sleep_ms returns no earlier than asked, unless its deadline does not
\* fit into a word: then the code wraps it and the sleep is short.
SleepsLongEnough ==
    [][main = "sleep" /\ main' = "poll_serial" /\ start + delay < Word
         => timer_ticks >= start + delay]_sysVars

\* Every key reaches the caller, unless the machine is stopped: its scancodes
\* are read, and an event that is queued is returned, also the one that comes
\* between the check of the queue and the halt.
KeysDelivered ==
    /\ kbc # <<>> ~> kbc = <<>> \/ main \in Ended
    /\ keyboard_has_input ~> ~keyboard_has_input \/ ~InterruptsOn

\* Every byte on the serial line is read, although it wakes nobody.
BytesDelivered == uart # <<>> ~> uart = <<>> \/ ~InterruptsOn

\* system_sleep_ms returns.
SleepEnds == main = "sleep" ~> main = "poll_serial"

\* system_reboot resets the machine: its loop, which has no limit, ends although
\* keys go on arriving, and the command reaches a controller that takes it.
Reboots == main \in Rebooting ~> main = "reset"
=============================================================================
