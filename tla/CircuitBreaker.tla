---------------------------- MODULE CircuitBreaker ----------------------------
(***************************************************************************)
(* What a circuit breaker is to the administrator who reads its two        *)
(* columns: it opens at the failure that makes a run of Threshold, and at  *)
(* no other, and a run ends only with an answer of the source.             *)
(***************************************************************************)
EXTENDS Naturals

CONSTANT Threshold

VARIABLES
  misses,  \* failures since the source last answered, counted up to Threshold
  open,
  heard    \* the source has answered somebody who has yet to write it down

Init == misses = 0 /\ open = FALSE /\ heard = FALSE

Miss ==
  /\ misses < Threshold
  /\ misses' = misses + 1
  /\ open' = (misses + 1 = Threshold)
  /\ heard' \in BOOLEAN

Answer ==
  /\ heard
  /\ misses' = 0 /\ open' = FALSE
  /\ heard' \in BOOLEAN

\* The source answers, or whoever heard it gives up.
Listen == heard' \in BOOLEAN /\ UNCHANGED <<misses, open>>

Next == Miss \/ Answer \/ Listen

Spec == Init /\ [][Next]_<<misses, open, heard>>
=============================================================================
