------------------------------- MODULE LiveHub --------------------------------
(***************************************************************************)
(* One peer's live connections to one of six hubs, and the place where the *)
(* hub keeps it findable: taxi/ws, courier/ws and their geo packages, cmd/ *)
(* websocket.go (chat) and cmd/location_ws.go.                             *)
(*                                                                         *)
(* A connection has a reader; thread 0 is whoever writes to the peer.  A   *)
(* thread has left to do what its script says: one step is one critical    *)
(* section, one command of Redis or one statement of the database.         *)
(***************************************************************************)
EXTENDS Naturals, FiniteSets, Sequences

CONSTANTS
  MaxLink,    \* bounds the connections ever made
  Region      \* cities that a connection may name

ASSUME LiveAssumption == MaxLink \in Nat /\ Region # {}

VARIABLES
  hub,        \* which; never changes
  newest,     \* connections made so far
  open,       \* those that have not been closed
  current,    \* conns[id], ws.clients[id], lm.clients[id]; 0 if absent
  lastStatus, \* lastStatus[id]
  region,     \* the city that each connection named
  place,      \* the sets of Redis that hold the peer, by city
  isOnline,   \* users.is_online
  thread,     \* what each has left to do
  evicted,    \* history: connections taken out by another's end
  told,       \* history: connections whose latest report was carried out, and
              \* none has come from another city since
  stray,      \* history: cities that held the peer when it reported from another
  mixed       \* history: a report overlapped another thread's work, was cut
              \* short, or was undone by another connection's end

liveVars ==
  <<hub, newest, open, current, lastStatus, region, place, isOnline, thread,
    evicted, told, stray, mixed>>

Hubs == {"driver", "passenger", "courier", "sender", "chat", "location"}
Positioned == {"driver", "courier"}
Status == {"free", "busy"}

Resting == [todo |-> <<>>, on |-> 0, from |-> "none", to |-> "none"]
Links == 1 .. newest
Working(t) == thread[t].todo # <<>>

LiveTypeOK ==
  /\ hub \in Hubs /\ newest \in 0 .. MaxLink
  /\ open \subseteq Links /\ current \in 0 .. newest
  /\ lastStatus \in Status \cup {"none"}
  /\ region \in [1 .. MaxLink -> Region]
  /\ place \in [Region -> SUBSET Status] /\ isOnline \in BOOLEAN
  /\ \A t \in 0 .. MaxLink :
       /\ thread[t].on \in 0 .. newest
       /\ thread[t].from \in Status \cup {"none"} /\ thread[t].to \in Status \cup {"none"}
  /\ evicted \subseteq Links /\ told \subseteq Links
  /\ stray \subseteq Region /\ mixed \in BOOLEAN

LiveInit ==
  /\ hub \in Hubs /\ newest = 0 /\ open = {} /\ current = 0
  /\ lastStatus = "none"
  /\ \E c \in Region : region = [n \in 1 .. MaxLink |-> c]
  /\ place = [c \in Region |-> {}] /\ isOnline = FALSE
  /\ thread = [t \in 0 .. MaxLink |-> Resting]
  /\ evicted = {} /\ told = {} /\ stray = {} /\ mixed = FALSE
-----------------------------------------------------------------------------
(* The map of connections.                                                 *)

\* What is left of it when connection n ends: the taxi's hubs take out what
\* they find, the others only n.
DriverCloses(n) == 0
PassengerCloses(n) == 0
\* Slip: as the taxi's hubs do.
CourierCloses_Any(n) == 0
CourierCloses(n) == IF current = n THEN 0 ELSE current
SenderCloses(n) == IF current = n THEN 0 ELSE current
ChatUnregisters(n) == IF current = n THEN 0 ELSE current
LocationUnregisters(n) == IF current = n THEN 0 ELSE current

AfterEnd(n) ==
  CASE hub = "driver" -> DriverCloses(n) [] hub = "passenger" -> PassengerCloses(n)
    [] hub = "courier" -> CourierCloses(n) [] hub = "sender" -> SenderCloses(n)
    [] hub = "chat" -> ChatUnregisters(n) [] hub = "location" -> LocationUnregisters(n)

\* A new connection closes the one the map holds and takes its place.
Connect(again, c) ==
  /\ newest < MaxLink /\ newest' = newest + 1
  /\ open' = (open \ {current}) \cup {newest'} /\ current' = newest'
  /\ lastStatus' = again /\ region' = [region EXCEPT ![newest'] = c]
  /\ thread' = [thread EXCEPT ![newest'].on = newest']
  /\ UNCHANGED <<hub, place, isOnline, evicted, told, stray, mixed>>

FreeIfNone == IF lastStatus = "none" THEN "free" ELSE lastStatus

\* Drivers and couriers name a city, any, with each connection.
DriverServe == hub = "driver" /\ \E c \in Region : Connect(FreeIfNone, c)
CourierServe == hub = "courier" /\ \E c \in Region : Connect(FreeIfNone, c)

ConnectsTo(h) == hub = h /\ newest < MaxLink /\ Connect(lastStatus, region[newest + 1])

PassengerServe == ConnectsTo("passenger")
SenderServe == ConnectsTo("sender")
\* The first frame names the user; only then is the connection registered.
ChatServe == ConnectsTo("chat")
LocationServe == ConnectsTo("location")
-----------------------------------------------------------------------------
(* Threads.                                                                *)

Reads(n) == n \in Links /\ thread[n].on = n /\ ~ Working(n)
Next1(t, s) == Working(t) /\ Head(thread[t].todo) = s
Todo(t, script) == thread' = [thread EXCEPT ![t].todo = script]
Rest(t) == Todo(t, Tail(thread[t].todo))
LastOf(t) == Len(thread[t].todo) = 1

\* Another thread is at work on the same peer.
Crossing(t) == \E o \in 0 .. newest \ {t} : Working(o)

\* What a reader does at its end; a close frame is answered by closeConn, which
\* then runs again.
DriverEnd == <<"unlist">>
PassengerEnd == <<"unlist">>
CourierEnd == <<"unlist">>
SenderEnd == <<"unlist">>
ChatEnd == <<"unlist">>
LocationEnd == <<"unlist", "offline">>

Ending ==
  CASE hub = "driver" -> DriverEnd [] hub = "passenger" -> PassengerEnd
    [] hub = "courier" -> CourierEnd [] hub = "sender" -> SenderEnd
    [] hub = "chat" -> ChatEnd [] hub = "location" -> LocationEnd

\* A read fails: the peer went, fell silent or sent a close frame, or the
\* connection was closed here.  The location client itself is closed by
\* the manager, and only while it is registered.
ReadFails(n) ==
  /\ Reads(n)
  /\ \/ Todo(n, Ending)
     \/ hub \notin {"chat", "location"} /\ Todo(n, <<"unlist">> \o Ending)
  /\ open' = IF hub \in {"chat", "location"} THEN open ELSE open \ {n}
  /\ UNCHANGED <<hub, newest, current, lastStatus, region, place, isOnline,
                 evicted, told, stray, mixed>>

\* Going offline follows, in the courier's hub, if it was n that was taken out.
GoOfflineCourier(n) ==
  IF hub = "courier" /\ current = n THEN <<"zfree", "zbusy">> ELSE <<>>

Unlist(t) ==
  /\ Next1(t, "unlist")
  /\ LET n == thread[t].on
         gone == hub = "driver" \/ (hub = "courier" /\ current = n)
     IN /\ current' = AfterEnd(n)
        /\ open' = open \ {n}
        /\ evicted' = evicted \cup ({current} \ {0, n, current'})
        /\ lastStatus' = IF gone THEN "none" ELSE lastStatus
        /\ thread' = [thread EXCEPT
             ![t].todo = GoOfflineCourier(n) \o Tail(@),
             ![t].on = IF Len(thread[t].todo) = 1 /\ GoOfflineCourier(n) = <<>>
                         THEN 0 ELSE @]
  /\ UNCHANGED <<hub, newest, region, place, isOnline, told, stray, mixed>>

\* GoOffline of the courier's locator: one set after the other.
ZRem(t) ==
  \E s \in Status :
    /\ Next1(t, IF s = "free" THEN "zfree" ELSE "zbusy")
    /\ place' = [place EXCEPT ![region[thread[t].on]] = @ \ {s}]
    /\ thread' = [thread EXCEPT ![t].todo = Tail(@), ![t].on = IF LastOf(t) THEN 0 ELSE @]
    /\ UNCHANGED <<hub, newest, open, current, lastStatus, region, isOnline,
                 evicted, told, stray, mixed>>

\* GoOffline of the location service clears the user, whoever is connected.
ClearLocation(t) ==
  /\ Next1(t, "offline")
  /\ isOnline' = FALSE /\ told' = told \ {thread[t].on}
  /\ mixed' = (mixed \/ current \notin {0, thread[t].on})
  /\ thread' = [thread EXCEPT ![t].todo = Tail(@), ![t].on = 0]
  /\ UNCHANGED <<hub, newest, open, current, lastStatus, region, place,
                 evicted, stray>>

\* A statement or command fails; a report goes on to set the position.
Gives(t) ==
  /\ Working(t) /\ ~ Next1(t, "unlist") /\ ~ Next1(t, "write")
  /\ mixed' = TRUE
  /\ thread' = [thread EXCEPT
       ![t].todo = IF Head(@) \in {"pos", "add", "rem"} THEN <<"update">> ELSE <<>>,
       ![t].on = IF Head(thread[t].todo) \in {"zfree", "zbusy"} THEN 0 ELSE @]
  /\ UNCHANGED <<hub, newest, open, current, lastStatus, region, place,
                 isOnline, evicted, told, stray>>
-----------------------------------------------------------------------------
(* Positions.                                                              *)

Moving == <<"pos", "add", "rem", "update">>

\* A driver or courier reports where it is, and whether it is free.
Report(n, s) ==
  /\ hub \in Positioned /\ Reads(n)
  /\ lastStatus' = s
  /\ thread' = [thread EXCEPT
       ![n].todo = IF FreeIfNone = s THEN <<"update">> ELSE Moving,
       ![n].from = FreeIfNone, ![n].to = s]
  /\ told' = {m \in told \ {n} : region[m] = region[n]}
  /\ stray' = stray \cup {c \in Region \ {region[n]} : place[c] # {}}
  /\ mixed' = (mixed \/ Crossing(n))
  /\ UNCHANGED <<hub, newest, open, current, region, place, isOnline, evicted>>

\* Others begin meanwhile.
Crossed(t) == mixed' = (mixed \/ Crossing(t))

\* MoveDriver, MoveCourier.
GeoPos(t) ==
  /\ Next1(t, "pos") /\ Crossed(t)
  /\ IF thread[t].from \in place[region[t]] THEN Rest(t) ELSE Todo(t, <<"update">>)
  /\ UNCHANGED <<hub, newest, open, current, lastStatus, region, place,
                 isOnline, evicted, told, stray>>

GeoAdd(t) ==
  /\ Next1(t, "add") /\ Rest(t) /\ Crossed(t)
  /\ place' = [place EXCEPT ![region[t]] = @ \cup {thread[t].to}]
  /\ UNCHANGED <<hub, newest, open, current, lastStatus, region, isOnline,
                 evicted, told, stray>>

ZRemFrom(t) ==
  /\ Next1(t, "rem") /\ Rest(t) /\ Crossed(t)
  /\ place' = [place EXCEPT ![region[t]] = @ \ {thread[t].from}]
  /\ UNCHANGED <<hub, newest, open, current, lastStatus, region, isOnline,
                 evicted, told, stray>>

\* SafeUpdateDriver, SafeUpdateCourier.
SafeUpdate(t) ==
  /\ Next1(t, "update") /\ Rest(t) /\ Crossed(t)
  /\ place' = [place EXCEPT ![region[t]] = @ \cup {thread[t].to}]
  /\ told' = told \cup {t}
  /\ UNCHANGED <<hub, newest, open, current, lastStatus, region, isOnline,
                 evicted, stray>>

\* update_location and go_offline of the location hub.
UpdateLocation(n) ==
  /\ hub = "location" /\ Reads(n)
  /\ \/ isOnline' = TRUE /\ told' = told \cup {n}
     \/ isOnline' = FALSE /\ told' = told \ {n}
  /\ mixed' = (mixed \/ current # n)
  /\ UNCHANGED <<hub, newest, open, current, lastStatus, region, place,
                 thread, evicted, stray>>
-----------------------------------------------------------------------------
(* Writing to the peer.                                                    *)

\* safeWrite takes the connection under the lock, and writes without it.
SafeWrite ==
  /\ hub \notin {"chat", "location"} /\ ~ Working(0) /\ current # 0
  /\ thread' = [thread EXCEPT ![0] = [Resting EXCEPT !.todo = <<"write">>, !.on = current]]
  /\ UNCHANGED <<hub, newest, open, current, lastStatus, region, place,
                 isOnline, evicted, told, stray, mixed>>

Written ==
  /\ Next1(0, "write")
  /\ \/ /\ thread[0].on \in open /\ UNCHANGED open
        /\ thread' = [thread EXCEPT ![0] = Resting]
     \/ open' = open \ {thread[0].on} /\ Todo(0, <<"unlist">>)
  /\ UNCHANGED <<hub, newest, current, lastStatus, region, place, isOnline,
                 evicted, told, stray, mixed>>

Dropped ==
  /\ current # 0 /\ open' = open \ {current} /\ current' = 0
  /\ UNCHANGED <<hub, newest, lastStatus, region, place, isOnline, thread,
                 evicted, told, stray, mixed>>

\* The chat's manager writes itself, and takes out whom it cannot reach.  A
\* ping that fails ends as a read does.
RunChat == hub = "chat" /\ Dropped
PingFails(n) ==
  /\ hub \in {"chat", "location"} /\ n \in open
  /\ current' = AfterEnd(n) /\ open' = IF current = n THEN open \ {n} ELSE open
  /\ UNCHANGED <<hub, newest, lastStatus, region, place, isOnline, thread,
                 evicted, told, stray, mixed>>

\* A client of the location hub whose pump fails is closed, but registered.
WritePump(n) ==
  /\ hub = "location" /\ n \in open /\ open' = open \ {n}
  /\ UNCHANGED <<hub, newest, current, lastStatus, region, place, isOnline,
                 thread, evicted, told, stray, mixed>>

\* The server stops: what is in Redis and in the database stays.
Stop ==
  /\ open' = {} /\ current' = 0 /\ lastStatus' = "none"
  /\ thread' = [t \in 0 .. MaxLink |-> Resting]
  /\ mixed' = (mixed \/ \E t \in 0 .. newest : Working(t))
  /\ UNCHANGED <<hub, newest, region, place, isOnline, evicted, told, stray>>

\* enqueue: a client whose queue is full is taken out.  To one that is closed
\* the two cases of its select are both ready, and one of them, sending on a
\* closed channel, ends the process.
Enqueue ==
  hub = "location" /\ (Dropped \/ (current \notin open \cup {0} /\ Stop))

LiveNext ==
  \/ DriverServe \/ PassengerServe \/ CourierServe \/ SenderServe \/ ChatServe
  \/ LocationServe
  \/ \E n \in Links :
       \/ ReadFails(n) \/ (\E s \in Status : Report(n, s))
       \/ UpdateLocation(n) \/ PingFails(n) \/ WritePump(n)
  \/ \E t \in 0 .. newest :
       \/ Unlist(t) \/ ZRem(t) \/ ClearLocation(t) \/ Gives(t)
       \/ GeoPos(t) \/ GeoAdd(t) \/ ZRemFrom(t) \/ SafeUpdate(t)
  \/ SafeWrite \/ Written \/ RunChat \/ Enqueue \/ Stop

LiveSpec == LiveInit /\ [][LiveNext]_liveVars
-----------------------------------------------------------------------------
\* A connection that is open is the one the hub writes to, whatever became of
\* earlier ones; only in the taxi's hubs may another's end have taken it out.
OneLiveConnection ==
  \A n \in open :
    current = n \/ (hub \in {"driver", "passenger"} /\ n \in evicted)

Quiet0 == \A t \in 0 .. newest : ~ Working(t)

\* Where the peer is found follows what it reported last: who is busy is not
\* in the set of the free, in any city but one that held the peer when it
\* reported from another (the hub then knows only the other); who is connected
\* and reported is in the set of that status of the connection's city; a user
\* in the location hub is online; unless work on the peer overlapped, failed or
\* came from an older connection.
PlaceFollowsStatus ==
  Quiet0 /\ ~ mixed =>
    /\ hub \in Positioned /\ lastStatus = "busy" =>
         \A c \in Region \ stray : "free" \notin place[c]
    /\ hub \in Positioned /\ current \in open \cap told =>
         lastStatus \in place[region[current]]
    /\ hub = "location" /\ current \in open \cap told => isOnline

\* Both: writes reach the peer, and offers reach who is free.
LiveHubServes == OneLiveConnection /\ PlaceFollowsStatus
=============================================================================
