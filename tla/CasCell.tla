------------------------------ MODULE CasCell ------------------------------
(***************************************************************************)
(* What a CasStore promises for one key: a cell that put_if_match swaps    *)
(* only from the value the caller named, that put_if_absent fills only     *)
(* when it is empty, and that delete empties.  A version is the hash of    *)
(* the contents, so comparing versions is comparing values.                *)
(*                                                                         *)
(* An operation takes effect at one instant, or is refused.  A refusal     *)
(* promises nothing about the cell: the caller re-reads and decides again. *)
(***************************************************************************)
CONSTANTS Threads, Values, None

VARIABLES cell,   \* the object at the key, None when there is none
          asked   \* asked[t]: the operation t has in flight, None if it has none

vars == <<cell, asked>>

\* put_if_match names a base version; put_if_absent is the base None.
Swaps == [kind : {"match"}, base : Values \cup {None}, new : Values]
Deletes == [kind : {"delete"}]

Init == /\ cell \in Values \cup {None}
        /\ asked = [t \in Threads |-> None]

Ask(t) == /\ asked[t] = None
          /\ asked'[t] \in Swaps \cup Deletes
          /\ asked' = [asked EXCEPT ![t] = asked'[t]]
          /\ UNCHANGED cell

Ends(t) == asked' = [asked EXCEPT ![t] = None]

\* The swap happens while the cell holds what the caller compared with.
Swap(t) == /\ asked[t] \in Swaps
           /\ cell = asked[t].base
           /\ cell' = asked[t].new
           /\ Ends(t)

Empty(t) == /\ asked[t] \in Deletes
            /\ cell' = None
            /\ Ends(t)

\* Callers are refused, or die; what they asked for takes no effect later.
Drop == /\ asked' \in [Threads -> Swaps \cup Deletes \cup {None}]
        /\ \A t \in Threads : asked'[t] \in {asked[t], None}
        /\ UNCHANGED cell

Next == \/ \E t \in Threads : Ask(t) \/ Swap(t) \/ Empty(t)
        \/ Drop

Spec == Init /\ [][Next]_vars
=============================================================================
