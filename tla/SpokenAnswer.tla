---------------------------- MODULE SpokenAnswer ----------------------------
(***************************************************************************)
(* What the voice mode promises its listener: answers are heard one after  *)
(* the other, the sentences of each in their order.                        *)
(***************************************************************************)
EXTENDS Naturals

VARIABLES
    answer,     \* the answer last heard
    upto,       \* the last of its sentences that was heard to the end
    off         \* the voice was switched off or cut off: nothing is promised any more

SpokenInit == answer = 0 /\ upto = 0 /\ ~off

\* A sentence of the same answer: the one just heard again, or a later one
Continue ==
    /\ answer' = answer
    /\ upto' \in Nat /\ upto' >= upto
    /\ off' = off

\* A later answer
Begin ==
    /\ answer' \in Nat /\ answer' > answer
    /\ upto' \in Nat \ {0}
    /\ off' = off

SwitchOff == off'

SpokenSpec == SpokenInit /\ [][Continue \/ Begin \/ SwitchOff]_<<answer, upto, off>>
=============================================================================
