--------------------------------- MODULE Slot ---------------------------------
(***************************************************************************)
(* What the media promise of one chain position: it is taken at most once, *)
(* for ever, by the object of somebody who tried, and whoever is told it   *)
(* took it did.  This is the position as module Chain uses it.             *)
(***************************************************************************)
CONSTANTS
  Objects,   \* what may be put at the position
  Nothing    \* no object

VARIABLES
  owner,     \* the object that holds the position
  told       \* the objects whose putter was told that they hold it

Init == owner = Nothing /\ told = {}

Take(o) == owner = Nothing /\ owner' = o /\ UNCHANGED told

Tell(o) == owner = o /\ told' = told \cup {o} /\ UNCHANGED owner

\* The last PUT may both take the position and be told of.
TakeAndTell(o) == owner = Nothing /\ owner' = o /\ told' = told \cup {o}

Next == \E o \in Objects : Take(o) \/ Tell(o) \/ TakeAndTell(o)

Spec == Init /\ [][Next]_<<owner, told>>
=============================================================================
