------------------------------ MODULE Delivery ------------------------------
(***************************************************************************)
(* What the shared messaging client promises the services: at-least-once   *)
(* delivery.  A copy of a message the broker accepted stays accepted, its  *)
(* callback may run any number of times, and the copy is settled (acked or *)
(* dropped) only after a run of its callback has ended.  Messaging         *)
(* implements this specification.                                          *)
(***************************************************************************)
CONSTANT Copy        (* a message and the attempt of publish that wrote it  *)

VARIABLES
  accepted,          (* copies routed to the queue                          *)
  handled,           (* copies whose callback has returned or raised        *)
  settled            (* copies acked, or nacked without requeue             *)

Init == accepted = {} /\ handled = {} /\ settled = {}

Accept ==
  /\ \E c \in Copy : accepted' = accepted \cup {c}
  /\ UNCHANGED <<handled, settled>>

Handle ==
  /\ \E c \in accepted : handled' = handled \cup {c}
  /\ UNCHANGED <<accepted, settled>>

Settle ==
  /\ \E c \in handled \cap accepted : settled' = settled \cup {c}
  /\ UNCHANGED <<accepted, handled>>

Next == Accept \/ Handle \/ Settle

Spec == Init /\ [][Next]_<<accepted, handled, settled>>
=============================================================================
