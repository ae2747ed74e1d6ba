---------------------------- MODULE EventQueue ----------------------------
(***************************************************************************)
(* What the keyboard queue promises: a first-in first-out queue of at most *)
(* Capacity events.  An event that finds the queue full is dropped; events *)
(* that are taken leave in the order in which they were accepted.          *)
(***************************************************************************)
EXTENDS Naturals, Sequences

CONSTANTS Capacity, Events

VARIABLES
    queue,  \* the events accepted and not yet taken
    taken   \* the event taken last

vars == <<queue, taken>>

Init ==
    /\ queue = <<>>
    /\ taken \in Events

Put(e) ==
    /\ Len(queue) < Capacity
    /\ queue' = Append(queue, e)
    /\ UNCHANGED taken

Drop ==
    /\ Len(queue) = Capacity
    /\ UNCHANGED vars

Get ==
    /\ queue # <<>>
    /\ taken' = Head(queue)
    /\ queue' = Tail(queue)

Next == (\E e \in Events : Put(e)) \/ Drop \/ Get

Spec == Init /\ [][Next]_vars
=============================================================================
