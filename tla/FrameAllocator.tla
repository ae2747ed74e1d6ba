--------------------------- MODULE FrameAllocator ---------------------------
(***************************************************************************)
(* What pmm.h promises to its callers, without bitmap, counter or scan:    *)
(* a pool of physical frames from which runs of consecutive frames are     *)
(* taken, always the lowest run that fits, and to which they are returned. *)
(* A reply is an address, and 0 means that the request was refused; frame  *)
(* 0 is never in the pool, so the two cannot be confused.                  *)
(***************************************************************************)
EXTENDS Naturals

CONSTANTS PageSize, FrameLimit, Counts

Frames == 0 .. FrameLimit - 1

VARIABLES
    booted,  \* the pool has been filled
    free,    \* frames that can be handed out
    held,    \* frames handed out and not returned
    reply    \* the address the last request returned

vars == <<booted, free, held, reply>>

\* n consecutive frames from s on.
Run(s, n) == {f \in Frames : s <= f /\ f < s + n}

Fits(s, n) == s + n <= FrameLimit /\ Run(s, n) \subseteq free

Init ==
    /\ booted = FALSE
    /\ free = {}
    /\ held = {}
    /\ reply = 0

Boot ==
    /\ ~booted
    /\ booted' = TRUE
    /\ free' \in SUBSET (Frames \ {0})
    /\ UNCHANGED <<held, reply>>

Alloc(n) ==
    /\ booted
    /\ n > 0
    /\ \E s \in Frames :
        /\ Fits(s, n)
        /\ \A t \in Frames : t < s => ~Fits(t, n)
        /\ free' = free \ Run(s, n)
        /\ held' = held \cup Run(s, n)
        /\ reply' = s * PageSize
    /\ UNCHANGED booted

Refuse(n) ==
    /\ booted
    /\ n = 0 \/ \A s \in Frames : ~Fits(s, n)
    /\ reply' = 0
    /\ UNCHANGED <<booted, free, held>>

\* Frames are returned from s on, up to the first one that is not held.
Free(s, n) ==
    LET back == {f \in Run(s, n) : \A g \in s .. f : g \in held}
    IN  /\ booted
        /\ free' = free \cup back
        /\ held' = held \ back
        /\ UNCHANGED <<booted, reply>>

Next ==
    \/ Boot
    \/ \E n \in Counts : Alloc(n) \/ Refuse(n)
    \/ \E s \in Frames, n \in Counts : Free(s, n)

Spec == Init /\ [][Next]_vars
=============================================================================
