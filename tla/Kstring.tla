------------------------------ MODULE Kstring ------------------------------
(***************************************************************************)
(* The string functions of src/kstring.c that the shell and kprint use, on *)
(* C strings: sequences of characters without the terminating NUL, which   *)
(* the functions see as the character behind the last one.                 *)
(***************************************************************************)
EXTENDS Integers, Sequences, SequencesExt

CONSTANT Word   \* 2^64: the width of u64

NUL == "nul"
digits == <<"0", "1", "2", "3", "4", "5", "6", "7", "8", "9",
            "A", "B", "C", "D", "E", "F">>

\* str[i], for i from 1 on.
CharAt(str, i) == IF i <= Len(str) THEN str[i] ELSE NUL

\* Mutant: ends with the first string and does not look at the other's end.
kstrcmp_prefix(lhs, rhs) == \A i \in DOMAIN lhs : lhs[i] = CharAt(rhs, i)

\* kstrcmp(lhs, rhs) == 0: the characters at which the loop ends are the same.
kstrcmp(lhs, rhs) ==
    LET goes_on(i) == CharAt(lhs, i) # NUL /\ CharAt(lhs, i) = CharAt(rhs, i)
        stop == CHOOSE i \in 1 .. Len(lhs) + 1 :
                  ~goes_on(i) /\ \A j \in 1 .. i - 1 : goes_on(j)
    IN  CharAt(lhs, stop) = CharAt(rhs, stop)

Digit(c) == SelectInSeq(digits, LAMBDA d : d = c) - 1
Decimal(c) == Digit(c) \in 0 .. 9

\* ku64_parse: whether it succeeds, and the number, modulo 2^64.
ku64_parse(str) ==
    LET out[k \in 0 .. Len(str)] ==
          IF k = 0 THEN 0 ELSE (out[k - 1] * 10 + Digit(str[k])) % Word
    IN  [ok |-> str # <<>> /\ \A i \in DOMAIN str : Decimal(str[i]), value |-> out[Len(str)]]

\* The loop that fills tmp, lowest digit first: 32 digits at most.
tmp(value, base) ==
    LET power[i \in 0 .. 32] == IF i = 0 THEN 1 ELSE
                                IF power[i - 1] > value THEN power[i - 1]
                                ELSE base * power[i - 1]
        pos == CHOOSE n \in 0 .. 32 :
                 (n = 32 \/ power[n] > value) /\ \A m \in 0 .. n - 1 : power[m] <= value
    IN  [i \in 1 .. pos |-> digits[((value \div power[i - 1]) % base) + 1]]

\* Mutant: digits in the order in which they are computed.
convert_u64_unreversed(size, value, base) ==
    IF value = 0 THEN <<"0">> ELSE tmp(value, base)

\* convert_u64: the digits copied back to front, as many as leave room for NUL.
convert_u64(size, value, base) ==
    LET text == IF value = 0 THEN <<"0">> ELSE Reverse(tmp(value, base))
    IN  SubSeq(text, 1, IF Len(text) < size THEN Len(text) ELSE size - 1)

ku64_to_dec(size, value) == convert_u64(size, value, 10)
=============================================================================
