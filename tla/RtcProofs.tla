----------------------------- MODULE RtcProofs -----------------------------
(***************************************************************************)
(* Proofs about rtc_read_time, for every mode and origin of the clock and  *)
(* however many updates happen while it reads.                             *)
(***************************************************************************)
EXTENDS Rtc, TLAPS

-----------------------------------------------------------------------------
(* The registers.                                                          *)

\* A number of two digits survives the way through BCD.
LEMMA BcdIs ==
    ASSUME NEW n \in Nat, n < 60
    PROVE  Bcd(n) \in Nat /\ Bcd(n) < 96 /\ bcd_to_bin(Bcd(n)) = n
  <1>1. PICK q \in Nat, r \in Nat : n = 10 * q + r /\ r < 10 /\ n \div 10 = q /\ n % 10 = r
    <2>1. /\ n \div 10 \in Nat /\ n % 10 \in Nat /\ n % 10 < 10
          /\ n = 10 * (n \div 10) + (n % 10)
      OBVIOUS
    <2> QED BY <2>1
  <1>2. q < 6
    BY <1>1
  <1>3. PICK v : v = q * 16 + r
    OBVIOUS
  <1>4. v % 16 = r /\ v \div 16 = q /\ v \in Nat /\ v < 96
    BY <1>1, <1>2, <1>3
  <1>5. Bcd(n) = v
    BY <1>1, <1>3 DEF Bcd
  <1>6. bcd_to_bin(v) = n
    BY <1>1, <1>4 DEF bcd_to_bin
  <1> QED BY <1>4, <1>5, <1>6

\* Every encoded number is decoded to itself.
LEMMA CodeIs ==
    ASSUME NEW n \in Nat, n < 60
    PROVE  Encode(n) \in Nat /\ Encode(n) < 96 /\ Decoded(Encode(n)) = n
  <1>1. CASE binary
    BY <1>1 DEF Encode, Decoded
  <1>2. CASE ~binary
    BY <1>2, BcdIs DEF Encode, Decoded
  <1> QED BY <1>1, <1>2

\* The registers when the clock has ticked t times.
SecondAt(t) == Encode(TimeAt(t).second)
HourAt(t) ==
    LET h == TimeAt(t).hour
    IN  IF hours24 THEN Encode(h)
        ELSE Encode(IF h % 12 = 0 THEN 12 ELSE h % 12) + (IF h >= 12 THEN 128 ELSE 0)

\* The half minute and the hour of a tick.
LEMMA TimeIs ==
    ASSUME NEW t \in Nat, origin \in 0 .. 23
    PROVE  /\ t % 2 \in {0, 1} /\ t \div 2 \in Nat /\ t = 2 * (t \div 2) + (t % 2)
           /\ TimeAt(t).second = 58 + (t % 2)
           /\ TimeAt(t).hour = (origin + (t \div 2)) % 24
           /\ TimeAt(t).hour \in Nat /\ TimeAt(t).hour < 24
           /\ TimeAt(t) = [second |-> 58 + (t % 2), hour |-> (origin + (t \div 2)) % 24]
  <1>1. t % 2 \in {0, 1} /\ t \div 2 \in Nat /\ t = 2 * (t \div 2) + (t % 2)
    OBVIOUS
  <1>2. /\ TimeAt(t).second = 58 + (t % 2)
        /\ TimeAt(t).hour = (origin + (t \div 2)) % 24
        /\ TimeAt(t) = [second |-> 58 + (t % 2), hour |-> (origin + (t \div 2)) % 24]
    BY DEF TimeAt
  <1>3. (origin + (t \div 2)) % 24 \in Nat /\ (origin + (t \div 2)) % 24 < 24
    <2>1. PICK a \in Nat : a = origin + (t \div 2)
      BY <1>1
    <2>2. a % 24 \in Nat /\ a % 24 < 24
      OBVIOUS
    <2> QED BY <2>1, <2>2
  <1> QED BY <1>1, <1>2, <1>3

\* The seconds come back from their register.
LEMMA SecondIs ==
    ASSUME NEW t \in Nat, origin \in 0 .. 23
    PROVE  /\ SecondAt(t) \in Nat /\ SecondAt(t) < 96
           /\ Decoded(SecondAt(t)) = 58 + (t % 2)
  <1>1. PICK n \in Nat : n = 58 + (t % 2) /\ n < 60 /\ TimeAt(t).second = n
    BY TimeIs
  <1> QED BY <1>1, CodeIs DEF SecondAt

\* The hour comes back from its register, but for the hours called twelve.
LEMMA HourIs ==
    ASSUME NEW t \in Nat, origin \in 0 .. 23
    PROVE  /\ HourAt(t) \in Nat /\ HourAt(t) < 256
           /\ Hour(HourAt(t)) \in Nat /\ Hour(HourAt(t)) < 24
           /\ \/ Hour(HourAt(t)) = TimeAt(t).hour
              \/ ~hours24 /\ Decoded(HourAt(t) % 128) = 12
  <1>1. PICK h \in Nat : h = TimeAt(t).hour /\ h < 24
    BY TimeIs
  <1>2. CASE hours24
    <2>1. PICK v : v = Encode(h)
      OBVIOUS
    <2>2. v \in Nat /\ v < 96 /\ Decoded(v) = h
      BY <1>1, <2>1, CodeIs
    <2>3. HourAt(t) = v
      BY <1>1, <1>2, <2>1 DEF HourAt
    <2>4. v % 128 = v
      BY <2>2
    <2>5. Hour(v) = h
      BY <1>2, <2>2, <2>4 DEF Hour
    <2> QED BY <1>1, <2>2, <2>3, <2>5
  <1>3. CASE ~hours24
    <2>1. PICK n \in Nat : n = (IF h % 12 = 0 THEN 12 ELSE h % 12) /\ 1 <= n /\ n <= 12
      BY <1>1
    <2>2. PICK v : v = Encode(n)
      OBVIOUS
    <2>3. v \in Nat /\ v < 96 /\ Decoded(v) = n
      BY <2>1, <2>2, CodeIs
    <2>4. HourAt(t) = v + (IF h >= 12 THEN 128 ELSE 0)
      BY <1>1, <1>3, <2>1, <2>2 DEF HourAt
    <2>5. CASE h < 12
      <3>1. HourAt(t) = v /\ v % 128 = v /\ ~(v >= 128)
        BY <1>1, <2>3, <2>4, <2>5
      <3>2. Hour(v) = n
        BY <2>3, <3>1 DEF Hour
      <3>3. n = h \/ n = 12
        BY <1>1, <2>1, <2>5
      <3> QED BY <1>1, <1>3, <2>1, <2>3, <3>1, <3>2, <3>3
    <2>6. CASE h >= 12
      <3>1. PICK w : w = v + 128
        OBVIOUS
      <3>2. HourAt(t) = w /\ w % 128 = v /\ w >= 128 /\ w \in Nat /\ w < 256
        BY <1>1, <2>3, <2>4, <2>6, <3>1
      <3>3. Hour(w) = (n + 12) % 24
        BY <1>3, <2>3, <3>2 DEF Hour
      <3>4. (n + 12) % 24 = (IF n = 12 THEN 0 ELSE n + 12)
        BY <2>1
      <3>5. n = h - 12 \/ n = 12
        BY <1>1, <2>1, <2>6
      <3> QED BY <1>1, <1>3, <2>1, <2>3, <3>2, <3>3, <3>4, <3>5
    <2> QED BY <1>1, <2>5, <2>6
  <1> QED BY <1>2, <1>3

-----------------------------------------------------------------------------
(* The inductive invariant: each byte of the samples is the register at a  *)
(* moment of the call, and the moments follow each other as the reads do.  *)

\* The bytes of first, read at t1 and t2, and of second, read at t3 and t4.
Took1(t1) == t1 \in Nat /\ called <= t1 /\ t1 <= ticks /\ first.second = SecondAt(t1)
Took2(t1, t2) ==
    Took1(t1) /\ t2 \in Nat /\ t1 <= t2 /\ t2 <= ticks /\ first.hour = HourAt(t2)
Took3(t1, t2, t3) ==
    Took2(t1, t2) /\ t3 \in Nat /\ t2 <= t3 /\ t3 <= ticks /\ second.second = SecondAt(t3)
Took4(t1, t2, t3, t4) ==
    Took3(t1, t2, t3) /\ t4 \in Nat /\ t3 <= t4 /\ t4 <= ticks /\ second.hour = HourAt(t4)

Sample == [second : Nat, hour : Nat]
Bytes(s) == s \in Sample /\ s.second < 256 /\ s.hour < 256

\* An update that has begun is one of those followed.
Followed == updating => ticks < MaxUpdates

ClockTypes ==
    /\ mode \in Modes /\ origin \in 0 .. 23
    /\ ticks \in Nat /\ ticks <= MaxUpdates
    /\ Followed
    /\ called \in Nat /\ called <= ticks
    /\ Bytes(first) /\ Bytes(second)
    /\ result \in Sample /\ result.second < 60 /\ result.hour < 24

Reading ==
    /\ pc = "hour1" => \E t1 : Took1(t1)
    /\ pc \in {"wait2", "second2"} => \E t1, t2 : Took2(t1, t2)
    /\ pc = "hour2" => \E t1, t2, t3 : Took3(t1, t2, t3)
    /\ pc = "compare" => \E t1, t2, t3, t4 : Took4(t1, t2, t3, t4)
    /\ pc = "done" =>
         TwelveOClock \/ \E t \in Nat : called <= t /\ t <= ticks /\ result = TimeAt(t)

RtcInv == ClockTypes /\ Reading

LEMMA InvInit == Init => RtcInv
  <1> SUFFICES ASSUME Init PROVE RtcInv
    OBVIOUS
  <1>1. Zero \in Sample /\ Zero.second = 0 /\ Zero.hour = 0
    BY DEF Zero, Sample
  <1>2. ClockTypes
    <2>1. mode \in Modes /\ origin \in 0 .. 23 /\ MaxUpdates \in Nat
      BY ClockAssumption DEF Init
    <2>2. Bytes(Zero)
      BY <1>1 DEF Bytes
    <2>3. /\ ticks = 0 /\ updating = FALSE /\ called = 0
          /\ first = Zero /\ second = Zero /\ result = Zero
      BY DEF Init
    <2>4. Followed
      BY <2>3, Zenon DEF Followed
    <2> QED BY <1>1, <2>1, <2>2, <2>3, <2>4 DEF ClockTypes
  <1>3. Reading
    BY DEF Init, Reading
  <1> QED BY <1>2, <1>3 DEF RtcInv

\* The registers of a moment depend on the mode and the origin alone.
LEMMA SameClock ==
    ASSUME UNCHANGED <<mode, origin>>, NEW t
    PROVE  SecondAt(t)' = SecondAt(t) /\ HourAt(t)' = HourAt(t) /\ TimeAt(t)' = TimeAt(t)
  <1>1. mode' = mode /\ origin' = origin
    OBVIOUS
  <1> QED BY <1>1, Zenon DEF SecondAt, HourAt, TimeAt, Encode, binary, hours24

\* Bytes taken stay taken while the clock runs on.
LEMMA TakenKept ==
    ASSUME ticks \in Nat, ticks' \in Nat, ticks <= ticks',
           UNCHANGED <<mode, origin, called>>,
           NEW t1, NEW t2, NEW t3, NEW t4
    PROVE  /\ Took1(t1) /\ first'.second = first.second => Took1(t1)'
           /\ Took2(t1, t2) /\ first' = first => Took2(t1, t2)'
           /\ Took3(t1, t2, t3) /\ first' = first /\ second'.second = second.second
                => Took3(t1, t2, t3)'
           /\ Took4(t1, t2, t3, t4) /\ first' = first /\ second' = second
                => Took4(t1, t2, t3, t4)'
  <1>1. \A t : SecondAt(t)' = SecondAt(t) /\ HourAt(t)' = HourAt(t)
    BY SameClock
  <1>2. Took1(t1) /\ first'.second = first.second => Took1(t1)'
    BY <1>1 DEF Took1
  <1>3. Took2(t1, t2) /\ first' = first => Took2(t1, t2)'
    BY <1>1, <1>2 DEF Took2
  <1>4. Took3(t1, t2, t3) /\ first' = first /\ second'.second = second.second
          => Took3(t1, t2, t3)'
    BY <1>1, <1>3 DEF Took3
  <1>5. Took4(t1, t2, t3, t4) /\ first' = first /\ second' = second
          => Took4(t1, t2, t3, t4)'
    BY <1>1, <1>4 DEF Took4
  <1> QED BY <1>2, <1>3, <1>4, <1>5

\* What the loop ends with is the time of a moment of the call: the one with
\* the hour of the first sample and the seconds of the second.
LEMMA Agreed ==
    ASSUME origin \in 0 .. 23, called \in Nat, ticks \in Nat, Bytes(first), Bytes(second),
           NEW t1, NEW t2, NEW t3, NEW t4, Took4(t1, t2, t3, t4), first = second
    PROVE  /\ Converted(second) \in Sample
           /\ Converted(second).second < 60 /\ Converted(second).hour < 24
           /\ \/ TwelveOClock
              \/ \E t \in Nat : called <= t /\ t <= ticks /\ Converted(second) = TimeAt(t)
  <1>1. /\ t1 \in Nat /\ t2 \in Nat /\ t3 \in Nat /\ t4 \in Nat
        /\ called <= t1 /\ t1 <= t2 /\ t2 <= t3 /\ t3 <= ticks
        /\ second.second = SecondAt(t1) /\ second.second = SecondAt(t3)
        /\ second.hour = HourAt(t2)
    BY DEF Took1, Took2, Took3, Took4
  <1>2. PICK s \in Nat, h \in Nat : s = Decoded(second.second) /\ h = Hour(second.hour)
                 /\ s = 58 + (t1 % 2) /\ s = 58 + (t3 % 2) /\ h < 24 /\ s < 60
                 /\ t1 % 2 \in Nat /\ t3 % 2 \in Nat
    <2>1. Decoded(second.second) = 58 + (t1 % 2) /\ Decoded(second.second) = 58 + (t3 % 2)
      BY <1>1, SecondIs
    <2>2. Hour(second.hour) \in Nat /\ Hour(second.hour) < 24
      BY <1>1, HourIs
    <2>3. t1 % 2 \in {0, 1} /\ t3 % 2 \in {0, 1}
      BY <1>1
    <2> QED BY <2>1, <2>2, <2>3
  <1>3. Converted(second) = [second |-> s, hour |-> h]
    BY <1>2 DEF Converted
  <1>4. ASSUME ~TwelveOClock
        PROVE  \E t \in Nat : called <= t /\ t <= ticks /\ Converted(second) = TimeAt(t)
    <2>1. h = TimeAt(t2).hour
      BY <1>1, <1>2, <1>4, HourIs DEF TwelveOClock
    <2>2. PICK q1 \in Nat, r1 \in Nat :
            r1 < 2 /\ t1 = 2 * q1 + r1 /\ t1 % 2 = r1 /\ t1 \div 2 = q1
      BY <1>1
    <2>3. PICK q2 \in Nat, r2 \in Nat :
            r2 < 2 /\ t2 = 2 * q2 + r2 /\ t2 % 2 = r2 /\ t2 \div 2 = q2
      BY <1>1
    <2>4. PICK q3 \in Nat, r3 \in Nat :
            r3 < 2 /\ t3 = 2 * q3 + r3 /\ t3 % 2 = r3 /\ t3 \div 2 = q3
      BY <1>1
    <2>5. r1 = r3
      BY <1>2, <2>2, <2>4
    <2>6. PICK t \in Nat : t = 2 * q2 + r3
      OBVIOUS
    <2>7. called <= t /\ t <= ticks
      BY <1>1, <2>2, <2>3, <2>4, <2>5, <2>6
    <2>8. t % 2 = t3 % 2 /\ t \div 2 = t2 \div 2
      BY <2>3, <2>4, <2>6
    <2>9. TimeAt(t) = [second |-> s, hour |-> h]
      BY <1>2, <2>1, <2>8, Zenon DEF TimeAt
    <2> QED BY <1>3, <2>7, <2>9
  <1>5. /\ Converted(second) \in Sample
        /\ Converted(second).second < 60 /\ Converted(second).hour < 24
    BY <1>2, <1>3 DEF Sample
  <1> QED BY <1>4, <1>5

LEMMA InvNext == RtcInv /\ [Next]_vars => RtcInv'
  <1> SUFFICES ASSUME RtcInv, [Next]_vars PROVE RtcInv'
    OBVIOUS
  <1>types. ClockTypes
    BY DEF RtcInv
  <1>kept. ASSUME UNCHANGED <<mode, origin, pc, first, second, result, called>>,
               ticks' \in Nat, ticks <= ticks'
        PROVE  Reading'
    <2>1. /\ \A t1 : Took1(t1) => Took1(t1)'
          /\ \A t1, t2 : Took2(t1, t2) => Took2(t1, t2)'
          /\ \A t1, t2, t3 : Took3(t1, t2, t3) => Took3(t1, t2, t3)'
          /\ \A t1, t2, t3, t4 : Took4(t1, t2, t3, t4) => Took4(t1, t2, t3, t4)'
      BY <1>types, <1>kept, TakenKept DEF ClockTypes
    <2>2. TwelveOClock' = TwelveOClock /\ \A t : TimeAt(t)' = TimeAt(t)
      <3>1. \A t : TimeAt(t)' = TimeAt(t)
        BY <1>kept, SameClock
      <3>2. mode' = mode /\ second' = second
        BY <1>kept
      <3>3. TwelveOClock' = TwelveOClock
        BY <3>2, Zenon DEF TwelveOClock, Decoded, hours24, binary
      <3> QED BY <3>1, <3>3
    <2>3. pc' = pc /\ called' = called /\ result' = result
      BY <1>kept
    <2>4. /\ pc = "hour1" => \E t1 : Took1(t1)
          /\ pc \in {"wait2", "second2"} => \E t1, t2 : Took2(t1, t2)
          /\ pc = "hour2" => \E t1, t2, t3 : Took3(t1, t2, t3)
          /\ pc = "compare" => \E t1, t2, t3, t4 : Took4(t1, t2, t3, t4)
      BY DEF RtcInv, Reading
    <2>5. pc = "done" =>
            TwelveOClock \/ \E t \in Nat : called <= t /\ t <= ticks /\ result = TimeAt(t)
      BY DEF RtcInv, Reading
    <2>6. pc' = "done" =>
            TwelveOClock' \/ \E t \in Nat : called' <= t /\ t <= ticks' /\ result' = TimeAt(t)'
      BY <1>types, <1>kept, <2>2, <2>3, <2>5 DEF ClockTypes
    <2>7. /\ pc' = "hour1" => \E t1 : Took1(t1)'
          /\ pc' \in {"wait2", "second2"} => \E t1, t2 : Took2(t1, t2)'
          /\ pc' = "hour2" => \E t1, t2, t3 : Took3(t1, t2, t3)'
          /\ pc' = "compare" => \E t1, t2, t3, t4 : Took4(t1, t2, t3, t4)'
      BY <2>1, <2>3, <2>4
    <2> QED BY <2>6, <2>7 DEF Reading
  <1>1. CASE UpdateBegins
    <2>1. ClockTypes'
      BY <1>types, <1>1 DEF ClockTypes, UpdateBegins, Followed
    <2>2. Reading'
      BY <1>types, <1>1, <1>kept DEF ClockTypes, UpdateBegins
    <2> QED BY <2>1, <2>2 DEF RtcInv
  <1>2. CASE UpdateEnds
    <2>1. ClockTypes'
      <3>1. ticks < MaxUpdates /\ MaxUpdates \in Nat
        BY <1>types, <1>2, ClockAssumption, Zenon DEF ClockTypes, UpdateEnds, Followed
      <3>2. Followed'
        BY <1>2, Zenon DEF UpdateEnds, Followed
      <3> QED BY <1>types, <1>2, <3>1, <3>2 DEF ClockTypes, UpdateEnds
    <2>2. Reading'
      BY <1>types, <1>2, <1>kept DEF ClockTypes, UpdateEnds
    <2> QED BY <2>1, <2>2 DEF RtcInv
  <1>reads. ASSUME NEW from, NEW to, Reader(from, to)
        PROVE  /\ pc = from /\ pc' = to /\ UNCHANGED <<mode, origin, called>>
               /\ ticks' = ticks /\ updating' = updating /\ ticks \in Nat /\ ticks' \in Nat
               /\ ticks <= ticks' /\ Followed'
    BY <1>types, <1>reads DEF Reader, ClockTypes, Followed
  <1>3. CASE wait1
    <2>1. pc' = "second1" /\ UNCHANGED <<mode, origin, ticks, called>> /\ Followed'
      BY <1>3, <1>reads DEF wait1
    <2>2. UNCHANGED <<first, second, result>>
      BY <1>3 DEF wait1
    <2>3. ClockTypes'
      BY <1>types, <2>1, <2>2 DEF ClockTypes
    <2>4. Reading'
      BY <2>1 DEF Reading
    <2> QED BY <2>3, <2>4 DEF RtcInv
  <1>clock. SecondRegister = SecondAt(ticks) /\ HourRegister = HourAt(ticks)
    BY Zenon DEF SecondRegister, HourRegister, SecondAt, HourAt
  <1>now. PICK now \in Nat : now = ticks /\ called <= now
    BY <1>types DEF ClockTypes
  <1>bytes. /\ SecondRegister = SecondAt(now) /\ SecondAt(now) \in Nat /\ SecondAt(now) < 256
        /\ HourRegister = HourAt(now) /\ HourAt(now) \in Nat /\ HourAt(now) < 256
    <2>1. SecondAt(now) \in Nat /\ SecondAt(now) < 96
      BY <1>types, SecondIs DEF ClockTypes
    <2>2. HourAt(now) \in Nat /\ HourAt(now) < 256
      BY <1>types, HourIs DEF ClockTypes
    <2> QED BY <1>clock, <1>now, <2>1, <2>2
  <1>4. CASE Reader("second1", "hour1") /\ first' = [first EXCEPT !.second = SecondRegister]
              /\ UNCHANGED <<second, result>>
    <2>1. pc' = "hour1" /\ UNCHANGED <<mode, origin, ticks, called>> /\ Followed'
      BY <1>4, <1>reads
    <2>2. Bytes(first)' /\ first'.second = SecondAt(now)
      BY <1>types, <1>4, <1>bytes DEF ClockTypes, Bytes, Sample
    <2>3. ClockTypes'
      BY <1>types, <1>4, <2>1, <2>2 DEF ClockTypes
    <2>4. SecondAt(now)' = SecondAt(now)
      BY <2>1, SameClock
    <2>5. Took1(now)'
      BY <1>now, <2>1, <2>2, <2>4 DEF Took1
    <2>6. Reading'
      BY <2>1, <2>5 DEF Reading
    <2> QED BY <2>3, <2>6 DEF RtcInv
  <1>5. CASE Reader("hour1", "wait2") /\ first' = [first EXCEPT !.hour = HourRegister]
              /\ UNCHANGED <<second, result>>
    <2>1. /\ pc = "hour1" /\ pc' = "wait2"
          /\ UNCHANGED <<mode, origin, ticks, called>> /\ Followed'
      BY <1>5, <1>reads
    <2>2. Bytes(first)' /\ first'.hour = HourAt(now) /\ first'.second = first.second
      BY <1>types, <1>5, <1>bytes DEF ClockTypes, Bytes, Sample
    <2>3. ClockTypes'
      BY <1>types, <1>5, <2>1, <2>2 DEF ClockTypes
    <2>4. HourAt(now)' = HourAt(now)
      BY <2>1, SameClock
    <2>5. PICK t1 : Took1(t1)
      BY <2>1 DEF RtcInv, Reading
    <2>6. Took1(t1)'
      BY <1>now, <2>1, <2>2, <2>5, TakenKept
    <2>7. Took2(t1, now)'
      BY <1>now, <2>1, <2>2, <2>4, <2>5, <2>6 DEF Took1, Took2
    <2>8. Reading'
      BY <2>1, <2>7 DEF Reading
    <2> QED BY <2>3, <2>8 DEF RtcInv
  <1>6. CASE wait2
    <2>1. /\ pc = "wait2" /\ pc' = "second2"
          /\ UNCHANGED <<mode, origin, ticks, called>> /\ Followed'
      BY <1>6, <1>reads DEF wait2
    <2>2. UNCHANGED <<first, second, result>>
      BY <1>6 DEF wait2
    <2>3. ClockTypes'
      BY <1>types, <2>1, <2>2 DEF ClockTypes
    <2>4. PICK t1, t2 : Took2(t1, t2)
      BY <2>1 DEF RtcInv, Reading
    <2>5. Took2(t1, t2)'
      BY <1>now, <2>1, <2>2, <2>4, TakenKept
    <2>6. Reading'
      BY <2>1, <2>5 DEF Reading
    <2> QED BY <2>3, <2>6 DEF RtcInv
  <1>7. CASE Reader("second2", "hour2") /\ second' = [second EXCEPT !.second = SecondRegister]
              /\ UNCHANGED <<first, result>>
    <2>1. /\ pc = "second2" /\ pc' = "hour2"
          /\ UNCHANGED <<mode, origin, ticks, called>> /\ Followed'
      BY <1>7, <1>reads
    <2>2. Bytes(second)' /\ second'.second = SecondAt(now)
      BY <1>types, <1>7, <1>bytes DEF ClockTypes, Bytes, Sample
    <2>3. ClockTypes'
      BY <1>types, <1>7, <2>1, <2>2 DEF ClockTypes
    <2>4. SecondAt(now)' = SecondAt(now)
      BY <2>1, SameClock
    <2>5. PICK t1, t2 : Took2(t1, t2)
      BY <2>1 DEF RtcInv, Reading
    <2>6. Took2(t1, t2)'
      BY <1>now, <1>7, <2>1, <2>5, TakenKept
    <2>7. Took3(t1, t2, now)'
      BY <1>now, <2>1, <2>2, <2>4, <2>5, <2>6 DEF Took2, Took3
    <2>8. Reading'
      BY <2>1, <2>7 DEF Reading
    <2> QED BY <2>3, <2>8 DEF RtcInv
  <1>8. CASE Reader("hour2", "compare") /\ second' = [second EXCEPT !.hour = HourRegister]
              /\ UNCHANGED <<first, result>>
    <2>1. /\ pc = "hour2" /\ pc' = "compare"
          /\ UNCHANGED <<mode, origin, ticks, called>> /\ Followed'
      BY <1>8, <1>reads
    <2>2. Bytes(second)' /\ second'.hour = HourAt(now) /\ second'.second = second.second
      BY <1>types, <1>8, <1>bytes DEF ClockTypes, Bytes, Sample
    <2>3. ClockTypes'
      BY <1>types, <1>8, <2>1, <2>2 DEF ClockTypes
    <2>4. HourAt(now)' = HourAt(now)
      BY <2>1, SameClock
    <2>5. PICK t1, t2, t3 : Took3(t1, t2, t3)
      BY <2>1 DEF RtcInv, Reading
    <2>6. Took3(t1, t2, t3)'
      BY <1>now, <1>8, <2>1, <2>2, <2>5, TakenKept
    <2>7. Took4(t1, t2, t3, now)'
      BY <1>now, <2>1, <2>2, <2>4, <2>5, <2>6 DEF Took3, Took4
    <2>8. Reading'
      BY <2>1, <2>7 DEF Reading
    <2> QED BY <2>3, <2>8 DEF RtcInv
  <1>9. CASE differ
    <2>1. /\ pc = "compare" /\ pc' = "wait2" /\ UNCHANGED <<mode, origin, ticks, called>>
          /\ Followed'
      BY <1>9, <1>reads DEF differ
    <2>2. UNCHANGED <<first, second, result>>
      BY <1>9 DEF differ
    <2>3. ClockTypes'
      BY <1>types, <2>1, <2>2 DEF ClockTypes
    <2>4. PICK t1, t2, t3, t4 : Took4(t1, t2, t3, t4)
      BY <2>1 DEF RtcInv, Reading
    <2>5. Took2(t1, t2)
      BY <2>4 DEF Took4, Took3
    <2>6. Took2(t1, t2)'
      BY <1>now, <2>1, <2>2, <2>5, TakenKept
    <2>7. Reading'
      BY <2>1, <2>6 DEF Reading
    <2> QED BY <2>3, <2>7 DEF RtcInv
  <1>10. CASE agree
    <2>1. /\ pc = "compare" /\ pc' = "done" /\ UNCHANGED <<mode, origin, ticks, called>>
          /\ Followed'
      BY <1>10, <1>reads DEF agree
    <2>2. UNCHANGED <<first, second>> /\ first = second /\ result' = Converted(second)
      BY <1>10 DEF agree, SamplesAgree
    <2>3. PICK t1, t2, t3, t4 : Took4(t1, t2, t3, t4)
      BY <2>1 DEF RtcInv, Reading
    <2>4. /\ result' \in Sample /\ result'.second < 60 /\ result'.hour < 24
          /\ \/ TwelveOClock
             \/ \E t \in Nat : called <= t /\ t <= ticks /\ result' = TimeAt(t)
      BY <1>types, <2>2, <2>3, Agreed DEF ClockTypes
    <2>5. ClockTypes'
      BY <1>types, <2>1, <2>2, <2>4 DEF ClockTypes
    <2>6. TwelveOClock' = TwelveOClock
      <3>1. mode' = mode /\ second' = second
        BY <2>1, <2>2
      <3> QED BY <3>1, Zenon DEF TwelveOClock, Decoded, hours24, binary
    <2>7. \A t : TimeAt(t)' = TimeAt(t)
      BY <2>1, SameClock
    <2>8. \/ TwelveOClock'
          \/ \E t \in Nat : called' <= t /\ t <= ticks' /\ result' = TimeAt(t)'
      BY <2>1, <2>4, <2>6, <2>7
    <2>9. Reading'
      BY <2>1, <2>8 DEF Reading
    <2> QED BY <2>5, <2>9 DEF RtcInv
  <1>11. CASE again
    <2>1. pc' = "wait1" /\ Followed'
      BY <1>types, <1>11 DEF again, ClockTypes, Followed
    <2>2. ClockTypes'
      BY <1>types, <1>11, <2>1 DEF ClockTypes, again
    <2>3. Reading'
      BY <2>1 DEF Reading
    <2> QED BY <2>2, <2>3 DEF RtcInv
  <1>12. CASE UNCHANGED vars
    <2>1. ClockTypes'
      BY <1>types, <1>12 DEF ClockTypes, vars, Followed
    <2>2. Reading'
      BY <1>types, <1>12, <1>kept DEF ClockTypes, vars
    <2> QED BY <2>1, <2>2 DEF RtcInv
  <1> QED
    BY <1>1, <1>2, <1>3, <1>4, <1>5, <1>6, <1>7, <1>8, <1>9, <1>10, <1>11, <1>12
       DEF Next, ReaderStep, sample_first, sample_second

\* The invariant is what ReturnsGenuine says, and more.
LEMMA InvGenuine == RtcInv => ReturnsGenuine
  <1> SUFFICES ASSUME RtcInv PROVE ReturnsGenuine
    OBVIOUS
  <1>1. TypeOK
    <2>1. ticks \in 0 .. MaxUpdates /\ called \in 0 .. ticks
      BY ClockAssumption DEF RtcInv, ClockTypes
    <2>2. \A s \in {first, second} : s.second \in 0 .. 255 /\ s.hour \in 0 .. 255
      BY DEF RtcInv, ClockTypes, Bytes, Sample
    <2>3. result.second \in 0 .. 59 /\ result.hour \in 0 .. 23
      BY DEF RtcInv, ClockTypes, Sample
    <2> QED BY <2>1, <2>2, <2>3 DEF TypeOK
  <1>2. ASSUME pc = "done", ~TwelveOClock
        PROVE  result \in {TimeAt(t) : t \in called .. ticks}
    <2>1. PICK t \in Nat : called <= t /\ t <= ticks /\ result = TimeAt(t)
      BY <1>2 DEF RtcInv, Reading
    <2>2. t \in called .. ticks
      BY <2>1 DEF RtcInv, ClockTypes
    <2> QED BY <2>1, <2>2
  <1> QED BY <1>1, <1>2 DEF ReturnsGenuine

\* The time a call returns is the time of a moment during the call, in every
\* mode, from every origin and however many updates come in between; but for
\* the hours called twelve in 12-hour mode.
THEOREM Genuine == Spec => []ReturnsGenuine
  <1>1. Spec => []RtcInv
    BY InvInit, InvNext, PTL DEF Spec
  <1> QED BY <1>1, InvGenuine, PTL
=============================================================================
