----------------------------- MODULE Leadership -----------------------------
(***************************************************************************)
(* What the writer fence promises: leadership of a shard passes through    *)
(* numbered terms, and the pointer that readers follow is only ever moved  *)
(* on behalf of the term that is current at that moment.                   *)
(***************************************************************************)
EXTENDS Naturals

VARIABLES
    term,    \* the newest term that was claimed
    shown    \* the term on whose behalf the pointer was moved last

Init == term = 0 /\ shown = 0

Claim == term' = term + 1 /\ UNCHANGED shown

Publish == term # 0 /\ shown' = term /\ UNCHANGED term

Next == Claim \/ Publish

Spec == Init /\ [][Next]_<<term, shown>>

=============================================================================
