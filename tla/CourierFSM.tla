------------------------------ MODULE CourierFSM ------------------------------
(***************************************************************************)
(* The status graph of a courier order                                     *)
(* (internal/courier/lifecycle/lifecycle.go).                              *)
(***************************************************************************)

Canceled == {"canceled_by_sender", "canceled_by_courier", "canceled_no_show"}

Status ==
  {"searching", "accepted", "waiting_free", "in_progress", "completed",
   "closed"} \cup Canceled

\* The edges that leave one status.
Row(from, targets) == {from} \X targets

Edges ==
  Row("searching", {"accepted", "canceled_by_sender"})
  \cup Row("accepted",
           {"waiting_free", "in_progress", "completed"} \cup Canceled)
  \cup Row("waiting_free", {"in_progress"} \cup Canceled)
  \cup Row("in_progress",
           {"completed", "canceled_by_courier", "canceled_by_sender"})
  \cup Row("completed", {"closed"})

\* Slip: the lookup of an unknown status is not taken for a refusal.
CanTransition_UnknownTarget(current, next) ==
  current = next \/ <<current, next>> \in Edges \/ next \notin Status

CanTransition(current, next) == current = next \/ <<current, next>> \in Edges
=============================================================================
