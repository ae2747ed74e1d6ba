--------------------------------- MODULE Rtc ---------------------------------
(***************************************************************************)
(* Reading the CMOS clock, src/rtc.c, while the clock runs on.  The six    *)
(* registers are abstracted to the two ends of a carry, seconds (read      *)
(* first) and hours; the clock of the model has the seconds 58 and 59, so  *)
(* that every second tick carries.  Registers are read one at a time and   *)
(* hold their old values until an update ends.                             *)
(***************************************************************************)
EXTENDS Integers

CONSTANTS
    Origins,    \* the hours at which the clock may start
    Modes,      \* the <<binary, hours24>> settings of status register B
    MaxUpdates  \* bound: clock updates that are followed

ASSUME ClockAssumption ==
    /\ Origins \subseteq 0 .. 23
    /\ Modes \subseteq BOOLEAN \X BOOLEAN
    /\ MaxUpdates \in Nat

VARIABLES
    mode, origin,    \* register B, and the hour of the start
    ticks, updating, \* external: the clock and its update-in-progress flag
    pc,
    first, second,   \* the samples
    result,          \* *time
    called           \* history: ticks when the call began

vars == <<mode, origin, ticks, updating, pc, first, second, result, called>>

binary == mode[1]
hours24 == mode[2]
-----------------------------------------------------------------------------
(* The clock.                                                              *)

TimeAt(t) == [second |-> 58 + (t % 2), hour |-> (origin + (t \div 2)) % 24]

Bcd(n) == ((n \div 10) * 16) + (n % 10)
Encode(n) == IF binary THEN n ELSE Bcd(n)

SecondRegister == Encode(TimeAt(ticks).second)

\* In 12-hour mode noon and midnight read 12, and bit 7 means p.m.
HourRegister ==
    LET h == TimeAt(ticks).hour
    IN  IF hours24 THEN Encode(h)
        ELSE Encode(IF h % 12 = 0 THEN 12 ELSE h % 12) + (IF h >= 12 THEN 128 ELSE 0)

UpdateBegins ==
    /\ ~updating /\ ticks < MaxUpdates
    /\ updating' = TRUE
    /\ UNCHANGED <<mode, origin, ticks, pc, first, second, result, called>>

UpdateEnds ==
    /\ updating
    /\ updating' = FALSE
    /\ ticks' = ticks + 1
    /\ UNCHANGED <<mode, origin, pc, first, second, result, called>>
-----------------------------------------------------------------------------
(* rtc_read_time.                                                          *)

bcd_to_bin(value) == (value % 16) + ((value \div 16) * 10)

Decoded(value) == IF binary THEN value ELSE bcd_to_bin(value)

\* The conversion at the end: the p.m. bit is kept out of the BCD decoding.
Hour(value) ==
    LET h == Decoded(value % 128)
    IN  IF ~hours24 /\ value >= 128 THEN (h + 12) % 24 ELSE h

Converted(sample) == [second |-> Decoded(sample.second), hour |-> Hour(sample.hour)]

\* Mutant: compares the seconds only.
SecondsAgree == first.second = second.second

SamplesAgree == first = second

Zero == [second |-> 0, hour |-> 0]

Init ==
    /\ mode \in Modes
    /\ origin \in Origins
    /\ ticks = 0 /\ updating = FALSE
    /\ pc = "wait1"
    /\ first = Zero /\ second = Zero /\ result = Zero
    /\ called = 0

Reader(from, to) == pc = from /\ pc' = to /\ UNCHANGED <<mode, origin, ticks, updating, called>>

\* while (rtc_updating()): waits, without changing anything, for the flag.
rtc_ready == ~updating

wait1 == Reader("wait1", "second1") /\ rtc_ready /\ UNCHANGED <<first, second, result>>

sample_first ==
    \/ /\ Reader("second1", "hour1")
       /\ first' = [first EXCEPT !.second = SecondRegister]
       /\ UNCHANGED <<second, result>>
    \/ /\ Reader("hour1", "wait2")
       /\ first' = [first EXCEPT !.hour = HourRegister]
       /\ UNCHANGED <<second, result>>

wait2 == Reader("wait2", "second2") /\ rtc_ready /\ UNCHANGED <<first, second, result>>

sample_second ==
    \/ /\ Reader("second2", "hour2")
       /\ second' = [second EXCEPT !.second = SecondRegister]
       /\ UNCHANGED <<first, result>>
    \/ /\ Reader("hour2", "compare")
       /\ second' = [second EXCEPT !.hour = HourRegister]
       /\ UNCHANGED <<first, result>>

\* The do-while condition; the loop samples second again and keeps first.
differ ==
    /\ Reader("compare", "wait2")
    /\ ~SamplesAgree
    /\ UNCHANGED <<first, second, result>>

agree ==
    /\ Reader("compare", "done")
    /\ SamplesAgree
    /\ result' = Converted(second)
    /\ UNCHANGED <<first, second>>

\* cmd_time reads the clock again some time later.
again ==
    /\ pc = "done"
    /\ pc' = "wait1"
    /\ called' = ticks
    /\ UNCHANGED <<mode, origin, ticks, updating, first, second, result>>

ReaderStep == wait1 \/ sample_first \/ wait2 \/ sample_second \/ differ \/ agree

Next == UpdateBegins \/ UpdateEnds \/ ReaderStep \/ again

Spec == Init /\ [][Next]_vars

\* The code runs on, and an update that has begun ends.
FairSpec == Spec /\ WF_vars(ReaderStep) /\ WF_vars(UpdateEnds)
-----------------------------------------------------------------------------
\* Every variable has its type; the samples are register bytes.
TypeOK ==
    /\ ticks \in 0 .. MaxUpdates /\ called \in 0 .. ticks
    /\ \A s \in {first, second} : s.second \in 0 .. 255 /\ s.hour \in 0 .. 255
    /\ result.second \in 0 .. 59 /\ result.hour \in 0 .. 23

\* In 12-hour mode the code takes 12 p.m. for 0 o'clock and 12 a.m. for 12.
TwelveOClock == ~hours24 /\ Decoded(second.hour % 128) = 12

\* The time returned is the time of a moment during the call: never half of
\* one moment and half of the next, in whichever mode the clock runs; but for
\* the hours called twelve in 12-hour mode.
ReturnsGenuine ==
    /\ TypeOK
    /\ pc = "done" /\ ~TwelveOClock => result \in {TimeAt(t) : t \in called .. ticks}

\* A call returns.
Returns == pc = "wait1" ~> pc = "done"
=============================================================================
