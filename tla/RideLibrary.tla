----------------------------- MODULE RideLibrary ------------------------------
(***************************************************************************)
(* The ride as internal/taxi/lifecycle keeps it in memory: an Order and    *)
(* the calls of a Service, made one after the other with the time as an    *)
(* argument.  No handler of the server uses it; its tests do.              *)
(*                                                                         *)
(* Time is in half minutes.  Places and speeds are abstracted to whether a *)
(* call's telemetry passes; amounts are minutes times a rate and left out. *)
(***************************************************************************)
EXTENDS Integers

CONSTANTS
  LastPoint,        \* the index of the final waypoint; 0 is the pickup
  FreeWindow,       \* Config.FreeWaitingWindow
  Policy,           \* Config.ButtonPolicies: [cooldown, presses, ttl] of some actions
  Horizon           \* bounds the time

Buttons == {"arrive", "start", "finish", "pause", "resume", "no_show", "cancel"}

ASSUME RideAssumption ==
  /\ LastPoint \in Nat \ {0} /\ FreeWindow \in Nat /\ Horizon \in Nat
  /\ DOMAIN Policy \subseteq Buttons
  /\ \A a \in DOMAIN Policy : Policy[a] \in [cooldown : Nat, presses : Nat, ttl : Nat]

VARIABLES
  now,
  phase,      \* Order.Status
  next,       \* nextWaypoint
  reached,    \* waypoints with ReachedAt
  session,    \* Waiting[activeWaitIdx]
  sessions,   \* len(Waiting)
  minutes,    \* Fare.FreeWaitingMinutes, PaidWaitingMinutes, PauseWaitingMinutes
  stamp,      \* ArrivedAt, StartedAt, FinishedAt, PaymentConfirmed
  button      \* buttonState

tripVars == <<now, phase, next, reached, session, sessions, minutes, stamp, button>>

Graph == INSTANCE TaxiFSM

Never == -1
NoSession == [kind |-> "none", since |-> 0]
Point == 0 .. LastPoint

RideTypeOK ==
  /\ now \in 0 .. Horizon /\ phase \in Graph!Status
  /\ next \in 0 .. LastPoint + 1 /\ reached \subseteq Point
  /\ session \in [kind : {"none", "free", "paid", "pause"}, since : 0 .. Horizon]
  /\ sessions \in Nat /\ minutes \in [free : Nat, paid : Nat, pause : Nat]
  /\ stamp \in [{"arrived", "started", "finished", "confirmed"} -> Never .. Horizon]
  /\ button \in [DOMAIN Policy -> [count : Nat, last : Never .. Horizon, until : Int]]

\* NewOrder.
RideInit ==
  /\ now = 0 /\ phase = "assigned" /\ next = 0 /\ reached = {}
  /\ session = NoSession /\ sessions = 0
  /\ minutes = [free |-> 0, paid |-> 0, pause |-> 0]
  /\ stamp = [s \in {"arrived", "started", "finished", "confirmed"} |-> Never]
  /\ button = [a \in DOMAIN Policy |-> [count |-> 0, last |-> Never, until |-> Never]]
-----------------------------------------------------------------------------
(* Buttons.                                                                *)

\* The window of a button starts anew with the first press after its end.
Windowed(a) ==
  IF Policy[a].ttl > 0 /\ (button[a].until = Never \/ now > button[a].until)
    THEN [button[a] EXCEPT !.count = 0, !.until = now + Policy[a].ttl] ELSE button[a]

ensureActionAllowed(a) ==
  a \in DOMAIN Policy =>
    /\ Policy[a].presses > 0 => Windowed(a).count < Policy[a].presses
    /\ button[a].last # Never => now - button[a].last >= Policy[a].cooldown

\* A press that is allowed counts, whatever comes of it.
Counted(a) ==
  IF a \notin DOMAIN Policy THEN button
  ELSE IF ensureActionAllowed(a)
    THEN [button EXCEPT ![a] = [Windowed(a) EXCEPT !.count = @ + 1, !.last = now]]
  ELSE [button EXCEPT ![a] = Windowed(a)]

Presses(a) == ensureActionAllowed(a) /\ button' = Counted(a)
-----------------------------------------------------------------------------
(* Waypoints and waiting.                                                  *)

Attains(i) ==
  /\ reached' = reached \cup {i}
  /\ next' = IF next <= i THEN i + 1 ELSE next

\* Rounded up to whole minutes.
MinutesOf(time) == IF time < 0 THEN 0 ELSE (time + 1) \div 2

\* What closing the session adds to the fare.
Billed(at) ==
  IF session.kind = "none" THEN minutes
  ELSE [minutes EXCEPT ![session.kind] = @ + MinutesOf(at - session.since)]

closeActiveWaiting(at) == minutes' = Billed(at) /\ session' = NoSession

Moves(to) == Graph!CanTransition(phase, to) /\ phase' = to
-----------------------------------------------------------------------------
(* The calls.  One that is refused, or that finds its work done, changes   *)
(* nothing but its button.                                                 *)

MarkDriverAtPickup ==
  /\ phase \in {"assigned", "driver_at_pickup"} /\ Presses("arrive")
  /\ Graph!CanTransition(phase, "driver_at_pickup")
  /\ Graph!CanTransition("driver_at_pickup", "waiting_free")
  /\ phase' = "waiting_free" /\ Attains(0)
  /\ session' = [kind |-> "free", since |-> now] /\ sessions' = sessions + 1
  /\ stamp' = [stamp EXCEPT !["arrived"] = now]
  /\ UNCHANGED <<now, minutes>>

\* Slip: paid waiting from when it is asked about.
SwitchAt_Now == now
SwitchAt == session.since + FreeWindow

\* The free window has passed: paid waiting since then.
AdvanceWaiting ==
  /\ phase = "waiting_free" /\ session.kind = "free" /\ now >= session.since + FreeWindow
  /\ minutes' = Billed(session.since + FreeWindow)
  /\ session' = [kind |-> "paid", since |-> SwitchAt] /\ sessions' = sessions + 1
  /\ Moves("waiting_paid")
  /\ UNCHANGED <<now, next, reached, stamp, button>>

StartTrip ==
  /\ phase \in {"waiting_free", "waiting_paid", "driver_at_pickup", "arrived", "picked_up"}
  /\ Presses("start") /\ Attains(0)
  /\ closeActiveWaiting(now) /\ Moves("in_progress")
  /\ stamp' = [stamp EXCEPT !["started"] = now]
  /\ UNCHANGED <<now, sessions>>

\* An intermediate stop; the final point is not reached so.
ReachWaypoint ==
  /\ phase = "in_progress" /\ next < LastPoint /\ Attains(next)
  /\ UNCHANGED <<now, phase, session, sessions, minutes, stamp, button>>

StartPause ==
  /\ phase = "in_progress" /\ session.kind # "pause" /\ Presses("pause")
  /\ session' = [kind |-> "pause", since |-> now] /\ sessions' = sessions + 1
  /\ UNCHANGED <<now, phase, next, reached, minutes, stamp>>

EndPause ==
  /\ phase = "in_progress" /\ session.kind = "pause" /\ Presses("resume")
  /\ closeActiveWaiting(now)
  /\ UNCHANGED <<now, phase, next, reached, sessions, stamp>>

\* At the final point, stops passed over or not.
FinishTrip ==
  /\ phase = "in_progress" /\ Presses("finish") /\ next <= LastPoint
  /\ closeActiveWaiting(now) /\ Attains(LastPoint) /\ Moves("at_last_point")
  /\ stamp' = [stamp EXCEPT !["finished"] = now]
  /\ UNCHANGED <<now, sessions>>

ConfirmCashPayment ==
  /\ phase = "at_last_point" /\ closeActiveWaiting(now) /\ Moves("completed")
  /\ stamp' = [stamp EXCEPT !["confirmed"] = now]
  /\ UNCHANGED <<now, next, reached, sessions, button>>

\* The waiting is closed before the graph is asked.
CancelBy(canceled) ==
  /\ phase \notin {"completed", "closed", canceled} /\ Presses("cancel")
  /\ closeActiveWaiting(now)
  /\ phase' = IF Graph!CanTransition(phase, canceled) THEN canceled ELSE phase
  /\ UNCHANGED <<now, next, reached, sessions, stamp>>

CancelByPassenger == CancelBy("canceled_by_passenger")
CancelByDriver == CancelBy("canceled_by_driver")

MarkNoShow ==
  /\ phase \in {"waiting_free", "waiting_paid"} /\ Presses("no_show")
  /\ closeActiveWaiting(now) /\ Moves("no_show")
  /\ UNCHANGED <<now, next, reached, sessions, stamp>>

\* Too soon, too often, too far away, or (pause, resume) nothing to do.
Pressed(a) ==
  /\ phase \in
       CASE a = "arrive" -> {"assigned"} [] a = "cancel" -> Graph!Status \ {"completed", "closed"}
         [] a \in {"start", "no_show"} -> {"waiting_free", "waiting_paid"}
         [] OTHER -> {"in_progress"}
  /\ a \in {"pause", "resume", "cancel"} /\ ensureActionAllowed(a) =>
       (a = "pause" /\ session.kind = "pause") \/ (a = "resume" /\ session.kind # "pause")
  /\ button' = Counted(a)
  /\ UNCHANGED <<now, phase, next, reached, session, sessions, minutes, stamp>>

Passes ==
  /\ now < Horizon /\ now' = now + 1
  /\ UNCHANGED <<phase, next, reached, session, sessions, minutes, stamp, button>>

RideNext ==
  \/ MarkDriverAtPickup \/ AdvanceWaiting \/ StartTrip \/ ReachWaypoint
  \/ StartPause \/ EndPause \/ FinishTrip \/ ConfirmCashPayment
  \/ CancelByPassenger \/ CancelByDriver \/ MarkNoShow
  \/ (\E a \in DOMAIN Policy : Pressed(a)) \/ Passes

RideSpec == RideInit /\ [][RideNext]_tripVars
-----------------------------------------------------------------------------
\* The time that a session in progress has taken.
SoFar == IF session.kind = "none" THEN 0 ELSE now - session.since

\* No waiting is lost and none is counted twice: from the arrival on, what has
\* been billed covers the time at the pickup up to the start, and exceeds all
\* time since the arrival only by the rounding of each session; free waiting
\* is the window once there is paid waiting.  A session is open just while the
\* ride is in its phase.
WaitingAddsUp ==
  LET billed == 2 * (minutes.free + minutes.paid + minutes.pause)
      pickup == 2 * (minutes.free + minutes.paid)
  IN /\ session.kind = "free" <=> phase = "waiting_free"
     /\ session.kind = "paid" <=> phase = "waiting_paid"
     /\ session.kind = "pause" => phase = "in_progress"
     /\ stamp["arrived"] = Never => billed = 0
     /\ stamp["arrived"] # Never => billed + SoFar <= now - stamp["arrived"] + sessions
     /\ phase \in {"waiting_free", "waiting_paid"} =>
          pickup + SoFar >= now - stamp["arrived"]
     /\ stamp["started"] # Never => pickup >= stamp["started"] - stamp["arrived"]
     /\ minutes.paid > 0 => minutes.free = MinutesOf(FreeWindow)

\* The trip ends only at the final point, after a start at the pickup.
EndsAtLastPoint ==
  /\ phase \in {"in_progress", "at_last_point", "completed"} =>
       0 \in reached /\ stamp["started"] # Never
  /\ phase \in {"at_last_point", "completed"} =>
       LastPoint \in reached /\ stamp["finished"] >= stamp["started"]
  /\ \A i \in Point : i > next => i \notin reached

RideAddsUp == WaitingAddsUp /\ EndsAtLastPoint
=============================================================================
