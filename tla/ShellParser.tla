----------------------------- MODULE ShellParser -----------------------------
(***************************************************************************)
(* shell_parse_command of src/shell.c: splits a line into a command and at *)
(* most MAX_ARGS arguments by writing NULs into the line itself and        *)
(* handing out pointers into it.  One step per inner loop.                 *)
(***************************************************************************)
EXTENDS Kstring, Characters

CONSTANTS
    MAX_ARGS,
    MaxLength   \* bound: the length of the line

\* No character that is typed is the end of a string.
ASSUME ParserAssumption == {MAX_ARGS, MaxLength} \subseteq Nat /\ NUL \notin Letters

VARIABLES
    line,    \* history: the line as it was typed
    buffer,  \* the same memory, with its terminating NUL, being cut up
    pc,
    input,   \* the scanning pointer, an index of buffer
    cmd,     \* pointers to the words found
    args

parserVars == <<line, buffer, pc, input, cmd, args>>
-----------------------------------------------------------------------------
\* The first index from p on at which the loop "while (*input is in S)" ends.
SkipWhile(p, S) == SelectInSubSeq(buffer, p, Len(buffer), LAMBDA c : c \notin S)

\* Mutant: skips one space only.
SkipOneSpace(p) == IF buffer[p] = Space THEN p + 1 ELSE p

SkipSpaces(p) == SkipWhile(p, {Space})

SkipWord(p) == SelectInSubSeq(buffer, p, Len(buffer), LAMBDA c : c \in {NUL, Space})

\* "if (*input != NUL) *input++ = NUL": ends the word in the line itself.
Terminated(p) == [buffer EXCEPT ![p] = NUL]
Past(p) == IF buffer[p] = NUL THEN p ELSE p + 1

ParserInit ==
    /\ line \in BoundedSeq(Typed, MaxLength)
    /\ buffer = Append(line, NUL)
    /\ pc = "cmd"
    /\ input = 1
    /\ cmd = 0
    /\ args = <<>>

parse_cmd ==
    /\ pc = "cmd"
    /\ cmd' = SkipSpaces(input)
    /\ LET end == SkipWord(SkipSpaces(input))
       IN  /\ buffer' = Terminated(end)
           /\ input' = Past(end)
    /\ pc' = "args"
    /\ UNCHANGED <<line, args>>

\* Room for one more argument.
HasSlot == Len(args) < MAX_ARGS

parse_arg ==
    /\ pc = "args"
    /\ buffer[input] # NUL /\ HasSlot
    /\ buffer[SkipSpaces(input)] # NUL
    /\ args' = Append(args, SkipSpaces(input))
    /\ LET end == SkipWord(SkipSpaces(input))
       IN  /\ buffer' = Terminated(end)
           /\ input' = Past(end)
    /\ UNCHANGED <<line, pc, cmd>>

parse_end ==
    /\ pc = "args"
    /\ \/ buffer[input] = NUL
       \/ ~HasSlot
       \/ buffer[SkipSpaces(input)] = NUL
    /\ pc' = "done"
    /\ UNCHANGED <<line, buffer, input, cmd, args>>

shell_parse_command == parse_cmd \/ parse_arg \/ parse_end
-----------------------------------------------------------------------------
\* The C string that starts at p.
StringAt(p) == SubSeq(buffer, p, SkipWhile(p, Typed) - 1)

\* Where the words of the typed line start, and the word that starts at p.
Starts == {p \in 1 .. Len(line) : line[p] # Space /\ (p = 1 \/ line[p - 1] = Space)}
WordAt(p) ==
    SubSeq(line, p, CHOOSE q \in p .. Len(line) :
                      /\ \A r \in p .. q : line[r] # Space
                      /\ q = Len(line) \/ line[q + 1] = Space)

\* The maximal words of the typed line: the k-th has k - 1 before it.
Words ==
    [k \in 1 .. Cardinality(Starts) |->
       WordAt(CHOOSE p \in Starts : Cardinality({q \in Starts : q < p}) = k - 1)]

\* The scanning pointer never leaves the line and args never overflows; after
\* all the cutting the command is the first word of the line as typed (the
\* empty string if there is none) and the arguments are the next ones, each a
\* string of its own, up to MAX_ARGS.
ParsesWords ==
    /\ input \in 1 .. Len(buffer) /\ buffer[Len(buffer)] = NUL
    /\ Len(args) <= MAX_ARGS
    /\ pc \in {"done", "executed"} =>
         /\ StringAt(cmd) = IF Words = <<>> THEN <<>> ELSE Words[1]
         /\ [k \in 1 .. Len(args) |-> StringAt(args[k])]
              = SubSeq(Words, 2, IF Len(Words) > MAX_ARGS THEN MAX_ARGS + 1 ELSE Len(Words))
=============================================================================
