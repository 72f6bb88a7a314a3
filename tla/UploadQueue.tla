------------------------------ MODULE UploadQueue ------------------------------
(***************************************************************************)
(* What a door of the platform and the pipeline behind it agree on: an     *)
(* upload its sender is told of is pending from then on, settling it is    *)
(* the only way to take it off, and versions are made of what is pending.  *)
(***************************************************************************)
CONSTANT Uploads

VARIABLES
  told,     \* uploads somebody was told are queued
  pending,  \* uploads stored, and with a message ready or at a worker
  settled,  \* uploads of which a message has been acknowledged
  made      \* uploads some version was made of

Init == told = {} /\ pending = {} /\ settled = {} /\ made = {}

\* Again, too, for one that is pending or settled.
Accept(u) ==
  /\ told' = told \union {u}
  /\ pending' = pending \union {u}
  /\ UNCHANGED <<settled, made>>

Make(u) ==
  /\ u \in pending
  /\ made' = made \union {u}
  /\ UNCHANGED <<told, pending, settled>>

\* It may be pending a second time, and a version may come of it in the same step.
Settle(u) ==
  /\ u \in pending
  /\ pending' \in {pending, pending \ {u}}
  /\ settled' = settled \union {u}
  /\ made' \in {made, made \union {u}}
  /\ UNCHANGED told

Next == \E u \in Uploads : Accept(u) \/ Make(u) \/ Settle(u)

Spec == Init /\ [][Next]_<<told, pending, settled, made>>
=============================================================================
