---------------------------- MODULE TaskDelivery ----------------------------
(***************************************************************************)
(* What the background-task queue promises to the code that publishes to   *)
(* it, with partitions, workers, rebalances and crashes hidden: a          *)
(* published task is settled (handled, recognised as not processable, left *)
(* after an error, or given up) before it is acknowledged, it may be       *)
(* settled again after a redelivery, and every published task is settled   *)
(* in the end.  TaskDispatch implements this module.                       *)
(***************************************************************************)

CONSTANT Tasks      \* identities of published tasks

VARIABLES
  published,        \* tasks accepted by the broker
  settled,          \* tasks some worker has finished with, one way or another
  acked             \* tasks below the committed offset of their partition

vars == <<published, settled, acked>>

TypeOK ==
  /\ published \subseteq Tasks
  /\ settled \subseteq published
  /\ acked \subseteq settled

Init ==
  /\ published = {}
  /\ settled = {}
  /\ acked = {}

Publish(t) ==
  /\ t \notin published
  /\ published' = published \cup {t}
  /\ UNCHANGED <<settled, acked>>

Settle(t) ==
  /\ t \in published
  /\ settled' = settled \cup {t}
  /\ UNCHANGED <<published, acked>>

(***************************************************************************)
(* The acknowledged set may shrink: a consumer that lost and regained a    *)
(* partition commits an offset below the one committed meanwhile.  It only *)
(* ever holds settled tasks.                                               *)
(***************************************************************************)
Acknowledge ==
  /\ acked' \in SUBSET settled
  /\ UNCHANGED <<published, settled>>

Next ==
  \/ \E t \in Tasks : Publish(t) \/ Settle(t)
  \/ Acknowledge

SafetySpec == Init /\ [][Next]_vars

Spec == SafetySpec /\ \A t \in Tasks : WF_vars(Settle(t))
=============================================================================
