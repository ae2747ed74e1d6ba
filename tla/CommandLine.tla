---------------------------- MODULE CommandLine ----------------------------
(***************************************************************************)
(* A line from the parser to the command: execute_command of src/shell.c   *)
(* looks the first word up in the table, and the commands with arguments   *)
(* read the strings that the parser has cut out of the line (module        *)
(* ShellParser) with the functions of module Kstring.  What is printed is  *)
(* a sequence of strings; a fixed text is one string.                      *)
(***************************************************************************)
EXTENDS ShellParser

CONSTANTS
    Exit,       \* the word exit
    commands,   \* the table: pairs of a name and the function of that name
    colors      \* the names cmd_color knows and their colours, in its order

\* A table of names, no name twice, and what they stand for in S.
Table(pairs, S) ==
    /\ pairs \in Seq(Seq(Typed) \X S)
    /\ \A j, k \in 1 .. Len(pairs) : pairs[j][1] = pairs[k][1] => j = k

ASSUME TablesAssumption ==
    /\ Exit \in Seq(Typed)
    /\ Table(commands, {"echo", "color", "rainbow", "sleep", "allocdemo"})
    /\ Table(colors, Nat)

VARIABLES
    out,        \* what has been printed
    effect      \* the call the command made: its name and argument

lineVars == <<parserVars, out, effect>>

NoEffect == <<"none", 0>>

argc == Len(args)
Arg(i) == StringAt(args[i])

LineInit == ParserInit /\ out = <<>> /\ effect = NoEffect

\* A fixed text.
Text(name) == <<name>>

kprint_u64(value) == << ku64_to_dec(32, value) >>

Prints(strings, call) == out' = strings /\ effect' = call

\* The arguments with a space between two of them.
ArgsSpaced ==
    [k \in 1 .. 2 * argc - (IF argc = 0 THEN 0 ELSE 1) |->
       IF k % 2 = 1 THEN Arg((k + 1) \div 2) ELSE <<Space>>]

cmd_echo == Prints(ArgsSpaced, NoEffect)

\* kprint_rainbow gives every character a colour of its own, which is left out
\* here, and sets the console to light grey at the end.
VGA_COLOR_LIGHT_GREY == 7
kprint_rainbow(strings) == Prints(strings, <<"vga_setcolor", VGA_COLOR_LIGHT_GREY>>)

cmd_rainbow ==
    kprint_rainbow(IF argc = 0 THEN <<Text("Rainbow text demo!")>> ELSE ArgsSpaced)

\* The first pair of a sequence that has this name, 0 if there is none.
Lookup(pairs, name) == SelectInSeq(pairs, LAMBDA pair : kstrcmp(name, pair[1]))

cmd_color ==
    IF argc = 0 THEN Prints(<<Text("Usage")>>, NoEffect)
    ELSE LET k == Lookup(colors, Arg(1))
         IN  IF k = 0
               THEN Prints(<<Text("Unknown color")>>, NoEffect)
               ELSE Prints(<<Text("Color changed!")>>, <<"vga_setcolor", colors[k][2]>>)

\* The number of sleep and allocdemo: the default without an argument.
Number(default) ==
    IF argc = 0 THEN [ok |-> TRUE, value |-> default] ELSE ku64_parse(Arg(1))

cmd_sleep ==
    LET n == Number(100)
    IN  IF n.ok THEN Prints(kprint_u64(n.value), <<"system_sleep_ms", n.value>>)
                ELSE Prints(<<Text("Usage")>>, NoEffect)

\* kmalloc of 0 bytes fails; of another size it may (module Heap).
cmd_allocdemo ==
    LET n == Number(64)
    IN  \/ ~n.ok /\ Prints(<<Text("Usage")>>, NoEffect)
        \/ n.ok /\ Prints(<<Text("Allocation failed")>>, <<"kmalloc", n.value>>)
        \/ n.ok /\ n.value # 0 /\ Prints(kprint_u64(n.value), <<"kmalloc", n.value>>)

Run(fn) ==
    CASE fn = "echo" -> cmd_echo
      [] fn = "color" -> cmd_color
      [] fn = "rainbow" -> cmd_rainbow
      [] fn = "sleep" -> cmd_sleep
      [] fn = "allocdemo" -> cmd_allocdemo

execute_command ==
    /\ pc = "done"
    /\ LET name == StringAt(cmd)
       IN  CASE name = <<>> -> Prints(<<>>, NoEffect)
             [] name # <<>> /\ kstrcmp(name, Exit) -> Prints(<<>>, <<"exit", 0>>)
             [] OTHER ->
                  IF Lookup(commands, name) # 0
                    THEN Run(commands[Lookup(commands, name)][2])
                    ELSE Prints(<<Text("Unknown command"), name>>, NoEffect)
    /\ pc' = "executed"
    /\ UNCHANGED <<line, buffer, input, cmd, args>>

LineNext ==
    \/ shell_parse_command /\ UNCHANGED <<out, effect>>
    \/ execute_command

LineSpec == LineInit /\ [][LineNext]_lineVars
-----------------------------------------------------------------------------
\* What a sequence of pairs has for a word, letter by letter.
Has(pairs, word) == \E k \in DOMAIN pairs : pairs[k][1] = word
For(pairs, word) == (CHOOSE pair \in Range(pairs) : pair[1] = word)[2]

\* The command that the first word of the typed line names.
Named ==
    IF Words = <<>> THEN "nothing"
    ELSE IF Words[1] = Exit THEN "exit"
    ELSE IF Has(commands, Words[1]) THEN For(commands, Words[1]) ELSE "unknown"

\* The words behind it, as many as are kept.
Operands ==
    SubSeq(Words, 2, IF Len(Words) > MAX_ARGS + 1 THEN MAX_ARGS + 1 ELSE Len(Words))

\* One word after the other, with a space between two of them.
Joined(words) ==
    LET text[k \in 0 .. Len(words)] ==
          IF k = 0 THEN <<>> ELSE
          IF k = 1 THEN <<words[1]>> ELSE text[k - 1] \o << <<Space>>, words[k] >>
    IN  text[Len(words)]

\* The line does what was typed: the command run is the one whose whole name is
\* the first word, although words are found in a line that is being cut up and
\* names are compared character by character; echo and rainbow print the other
\* words, color takes the colour named, rainbow leaves the screen light grey
\* whatever color had set, and an unknown name is reported as typed.
DoesAsTyped ==
    pc = "executed" =>
      CASE Named = "nothing" -> out = <<>> /\ effect = NoEffect
        [] Named = "exit" -> out = <<>> /\ effect = <<"exit", 0>>
        [] Named = "echo" -> out = Joined(Operands) /\ effect = NoEffect
        [] Named = "rainbow" ->
             /\ out = IF Operands = <<>> THEN <<Text("Rainbow text demo!")>>
                                         ELSE Joined(Operands)
             /\ effect = <<"vga_setcolor", VGA_COLOR_LIGHT_GREY>>
        [] Named = "unknown" ->
             out = <<Text("Unknown command"), Words[1]>> /\ effect = NoEffect
        [] Named = "color" ->
             effect = IF Operands # <<>> /\ Has(colors, Operands[1])
                        THEN <<"vga_setcolor", For(colors, Operands[1])>> ELSE NoEffect
        [] Named = "sleep" -> effect[1] \in {"system_sleep_ms", "none"}
        [] Named = "allocdemo" -> effect[1] \in {"kmalloc", "none"}

\* The value of a decimal numeral, and the shape of one that is printed.
Value(numeral) ==
    LET value[k \in 0 .. Len(numeral)] ==
          IF k = 0 THEN 0 ELSE 10 * value[k - 1] + Digit(numeral[k])
    IN  value[Len(numeral)]
Canonical(numeral) ==
    /\ numeral # <<>>
    /\ \A k \in DOMAIN numeral : Decimal(numeral[k])
    /\ numeral[1] = "0" => Len(numeral) = 1

\* sleep and allocdemo use the number that was typed, modulo 2^64, or refuse an
\* operand with any other character; the number they print is the one they
\* use, without leading zeros.
NumbersExact ==
    pc = "executed" /\ Named \in {"sleep", "allocdemo"} =>
      IF Operands # <<>> /\ \E k \in DOMAIN Operands[1] : ~Decimal(Operands[1][k])
        THEN out = <<Text("Usage")>> /\ effect = NoEffect
        ELSE /\ Operands # <<>> => effect[2] = Value(Operands[1]) % Word
             /\ out # <<Text("Allocation failed")>> =>
                  Canonical(out[1]) /\ Value(out[1]) = effect[2]
=============================================================================
