------------------------------- MODULE TaxiFSM -------------------------------
(***************************************************************************)
(* The status graph of a taxi order (internal/taxi/fsm/fsm.go).  Every     *)
(* handler that changes a status asks CanTransition first; the graph has   *)
(* no state of its own, so this module declares no variable.               *)
(***************************************************************************)

Status ==
  {"created", "searching", "accepted", "arrived", "picked_up", "completed",
   "paid", "closed", "not_found", "canceled", "assigned", "driver_at_pickup",
   "waiting_free", "waiting_paid", "in_progress", "at_last_point",
   "canceled_by_passenger", "canceled_by_driver", "no_show"}

CanceledByEither == {"canceled_by_passenger", "canceled_by_driver"}

\* The edges that leave one status.
Row(from, targets) == {from} \X targets

\* The transitions table, one row per status that has successors.
Edges ==
  Row("created", {"searching"})
  \cup Row("searching", {"accepted", "not_found", "canceled"})
  \cup Row("accepted",
           {"arrived", "assigned", "driver_at_pickup", "waiting_free",
            "waiting_paid", "in_progress", "canceled"} \cup CanceledByEither)
  \cup Row("assigned",
           {"driver_at_pickup", "arrived", "waiting_free", "waiting_paid"}
             \cup CanceledByEither)
  \cup Row("driver_at_pickup",
           {"waiting_free", "waiting_paid"} \cup CanceledByEither)
  \cup Row("waiting_free",
           {"waiting_paid", "in_progress", "picked_up", "no_show"}
             \cup CanceledByEither)
  \cup Row("waiting_paid",
           {"in_progress", "picked_up", "no_show"} \cup CanceledByEither)
  \cup Row("arrived", {"picked_up", "canceled"} \cup CanceledByEither)
  \cup Row("picked_up",
           {"completed", "in_progress", "canceled"} \cup CanceledByEither)
  \cup Row("in_progress",
           {"at_last_point", "completed", "canceled"} \cup CanceledByEither)
  \cup Row("at_last_point", {"completed", "canceled_by_driver"})
  \cup Row("completed", {"paid", "closed"})
  \cup {"paid", "not_found", "canceled", "no_show"} \X {"closed"}
  \cup CanceledByEither \X {"closed"}

\* A status may always be "changed" to itself.
CanTransition(from, to) == from = to \/ <<from, to>> \in Edges

\* What the drivers' "current order" lookup counts as an order under way.
DriverActive ==
  {"accepted", "assigned", "driver_at_pickup", "arrived", "waiting_free",
   "waiting_paid", "in_progress", "picked_up", "at_last_point"}

\* The ride is over: nothing but bookkeeping (paid, closed) may follow.
Ended ==
  {"completed", "paid", "closed", "not_found", "canceled", "no_show"}
    \cup CanceledByEither
=============================================================================
