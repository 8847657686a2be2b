----------------------------- MODULE LiveHubProofs ------------------------------
(***************************************************************************)
(* Theorems about LiveHub for any number of connections.  The inductive    *)
(* invariant follows the one report that may be under way while nothing    *)
(* has overlapped it: what it still has to do decides in which sets of     *)
(* Redis, of its own city and of others, the peer may be found meanwhile.  *)
(***************************************************************************)
EXTENDS LiveHub, TLAPS

\* What is left of a report.
P4 == <<"pos", "add", "rem", "update">>
P3 == <<"add", "rem", "update">>
P2 == <<"rem", "update">>
P1 == <<"update">>
Moves == {P4, P3, P2, P1}

\* All else that a thread does.
Ends == {"unlist", "zfree", "zbusy", "offline", "write"}

Threads == 0 .. MaxLink
IsMoving(t) == thread[t].todo \in Moves
Removes(t) == \E i \in DOMAIN thread[t].todo : thread[t].todo[i] \in {"zfree", "zbusy"}

\* A thread that does not move.
Ender == [todo : Seq(Ends), on : 0 .. newest,
          from : Status \cup {"none"}, to : Status \cup {"none"}]

ThreadType ==
  thread \in [Threads -> [todo : Moves \cup Seq(Ends), on : 0 .. newest,
                          from : Status \cup {"none"}, to : Status \cup {"none"}]]

ThreadOK ==
  /\ ThreadType
  /\ \A t \in Threads : Working(t) => t <= newest
  /\ \A t \in Threads : IsMoving(t) =>
       t # 0 /\ thread[t].to \in Status /\ thread[t].from \in Status /\ hub \in Positioned

NoneMoves == \A t \in Threads : ~ IsMoving(t)
NoneRemoves == \A t \in Threads : ~ Removes(t)

\* The one report under way: if it says busy, the set of the free is still to
\* be left in the city it comes from; no other city but the strays holds the
\* peer, and who reported before it did so from the same city.
Reporting(t) ==
  /\ \A s \in Threads : IsMoving(s) => s = t
  /\ thread[t].to = "free" => lastStatus # "busy"
  /\ thread[t].to = "busy" /\ region[t] \notin stray /\ "free" \in place[region[t]] =>
       thread[t].from = "free" /\ thread[t].todo # P1
  /\ \A c \in Region \ (stray \cup {region[t]}) : place[c] = {}
  /\ current \in open \cap (told \cup {t}) => lastStatus = thread[t].to
  /\ \A m \in told : region[m] = region[t]

ReportOK == ~ mixed => \A t \in Threads : IsMoving(t) => Reporting(t)

BusyNotFree ==
  ~ mixed /\ hub \in Positioned /\ NoneMoves /\ lastStatus = "busy" =>
    \A c \in Region \ stray : "free" \notin place[c]

ReportedIsFound ==
  ~ mixed /\ hub \in Positioned /\ NoneMoves /\ NoneRemoves =>
    (current \in open \cap told => lastStatus \in place[region[current]])

\* Who goes offline has not been heard of since.
RemovedIsUntold ==
  ~ mixed /\ hub \in Positioned => \A t \in Threads : Removes(t) => current \notin told

OnlineIsFound ==
  ~ mixed /\ hub = "location" => (current \in open \cap told => isOnline)

PlaceOK ==
  ReportOK /\ BusyNotFree /\ ReportedIsFound /\ RemovedIsUntold /\ OnlineIsFound

IndInv == LiveTypeOK /\ ThreadOK /\ OneLiveConnection /\ PlaceOK
-----------------------------------------------------------------------------
(* Scripts.                                                                *)

LEMMA MovesHeads ==
  /\ P4 # <<>> /\ P3 # <<>> /\ P2 # <<>> /\ P1 # <<>>
  /\ Head(P4) = "pos" /\ Head(P3) = "add" /\ Head(P2) = "rem" /\ Head(P1) = "update"
<1>1. P4 # <<>> /\ Head(P4) = "pos"
  BY DEF P4
<1>2. P3 # <<>> /\ Head(P3) = "add"
  BY DEF P3
<1>3. P2 # <<>> /\ Head(P2) = "rem"
  BY DEF P2
<1>4. P1 # <<>> /\ Head(P1) = "update"
  BY DEF P1
<1> QED BY <1>1, <1>2, <1>3, <1>4

LEMMA MovesTails ==
  Tail(P4) = P3 /\ Tail(P3) = P2 /\ Tail(P2) = P1 /\ Tail(P1) = <<>>
<1>1. Tail(P4) = P3
  BY DEF P4, P3
<1>2. Tail(P3) = P2
  BY DEF P3, P2
<1>3. Tail(P2) = P1
  BY DEF P2, P1
<1>4. Tail(P1) = <<>>
  BY DEF P1
<1> QED BY <1>1, <1>2, <1>3, <1>4

LEMMA MovesElements ==
  ASSUME NEW s \in Moves
  PROVE  \A i \in DOMAIN s : s[i] \notin Ends
<1>1. CASE s = P4
  BY <1>1 DEF P4, Ends
<1>2. CASE s = P3
  BY <1>2 DEF P3, Ends
<1>3. CASE s = P2
  BY <1>3 DEF P2, Ends
<1>4. CASE s = P1
  BY <1>4 DEF P1, Ends
<1> QED BY <1>1, <1>2, <1>3, <1>4 DEF Moves

LEMMA MovesAreNotEnds == \A s \in Moves : s \notin Seq(Ends)
<1> SUFFICES ASSUME NEW s \in Moves, s \in Seq(Ends) PROVE FALSE
  OBVIOUS
<1>1. s # <<>>
  BY MovesHeads DEF Moves
<1>2. Len(s) > 0 /\ s[1] \in Ends /\ 1 \in DOMAIN s
  BY <1>1
<1> QED BY <1>2, MovesElements

LEMMA EndsHeads ==
  ASSUME NEW s \in Seq(Ends), s # <<>>
  PROVE  /\ Head(s) \in Ends /\ Tail(s) \in Seq(Ends)
         /\ 1 \in DOMAIN s /\ s[1] = Head(s)
         /\ \A i \in DOMAIN Tail(s) : i + 1 \in DOMAIN s /\ Tail(s)[i] = s[i + 1]
OBVIOUS

LEMMA SeqConcat ==
  ASSUME NEW S, NEW a \in Seq(S), NEW b \in Seq(S)
  PROVE  a \o b \in Seq(S)
OBVIOUS

\* The kind of a thread's work is known from its next statement.
LEMMA NextKind ==
  ASSUME ThreadOK, NEW t \in Threads, Working(t)
  PROVE  /\ t \in 0 .. newest
         /\ Head(thread[t].todo) \in Ends => thread[t].todo \in Seq(Ends) /\ ~ IsMoving(t)
         /\ Head(thread[t].todo) \notin Ends => IsMoving(t)
         /\ Head(thread[t].todo) \in {"zfree", "zbusy"} => Removes(t)
         /\ Head(thread[t].todo) = "pos" => thread[t].todo = P4
         /\ Head(thread[t].todo) = "add" => thread[t].todo = P3
         /\ Head(thread[t].todo) = "rem" => thread[t].todo = P2
         /\ Head(thread[t].todo) = "update" => thread[t].todo = P1
<1> DEFINE s == thread[t].todo
<1>1. t \in 0 .. newest /\ s \in Moves \cup Seq(Ends) /\ s # <<>>
  BY DEF ThreadOK, ThreadType, Threads, Working
<1>2. CASE s \in Moves
  <2>1. Head(s) \in {"pos", "add", "rem", "update"}
    BY <1>2, MovesHeads DEF Moves
  <2> QED BY <1>1, <1>2, <2>1, MovesHeads DEF Ends, IsMoving, Moves
<1>3. CASE s \in Seq(Ends)
  <2>1. Head(s) \in Ends /\ 1 \in DOMAIN s /\ s[1] = Head(s)
    BY <1>1, <1>3, EndsHeads
  <2>2. ~ IsMoving(t)
    BY <1>3, MovesAreNotEnds DEF IsMoving
  <2> QED BY <1>1, <1>3, <2>1, <2>2 DEF Ends, Removes
<1> QED BY <1>1, <1>2, <1>3

LEMMA MovingWorks ==
  ASSUME ThreadOK, NEW t \in Threads, IsMoving(t) \/ Removes(t)
  PROVE  Working(t) /\ t \in 0 .. newest /\ ~ (IsMoving(t) /\ Removes(t))
<1>1. CASE IsMoving(t)
  BY <1>1, MovesHeads, MovesElements
     DEF IsMoving, Moves, Working, ThreadOK, Threads, Removes, Ends
<1>2. CASE Removes(t)
  <2>1. thread[t].todo # <<>>
    BY <1>2 DEF Removes
  <2>2. ~ IsMoving(t)
    BY <1>2, MovesElements DEF IsMoving, Removes, Ends
  <2> QED BY <2>1, <2>2 DEF Working, ThreadOK, Threads
<1> QED BY <1>1, <1>2

LEMMA LinksAreThreads == LiveTypeOK => 0 .. newest \subseteq Threads /\ 0 \in Threads
BY LiveAssumption DEF LiveTypeOK, Threads

LEMMA InitServes == LiveInit => IndInv
<1> SUFFICES ASSUME LiveInit PROVE IndInv
  OBVIOUS
<1>1. LiveTypeOK
  <2>1. newest \in 0 .. MaxLink /\ current \in 0 .. newest
    BY LiveAssumption DEF LiveInit
  <2>2. \A t \in 0 .. MaxLink : thread[t] = Resting
    BY DEF LiveInit
  <2>3. Resting.on \in 0 .. newest /\ Resting.from = "none" /\ Resting.to = "none"
    BY DEF LiveInit, Resting
  <2> QED BY <2>1, <2>2, <2>3 DEF LiveInit, LiveTypeOK
<1>2. \A t \in Threads : thread[t] = Resting
  BY DEF LiveInit, Threads
<1>3. <<>> \in Seq(Ends) /\ <<>> \notin Moves
  <2>1. <<>> \in Seq(Ends)
    OBVIOUS
  <2> QED BY <2>1, MovesAreNotEnds
<1>4. ThreadType
  BY <1>3 DEF LiveInit, ThreadType, Threads, Resting
<1>5. \A t \in Threads : ~ Working(t) /\ ~ IsMoving(t)
  BY <1>2, <1>3 DEF Working, IsMoving, Resting
<1>6. ThreadOK
  BY <1>4, <1>5 DEF ThreadOK
<1>7. OneLiveConnection
  BY DEF LiveInit, OneLiveConnection
<1>8. PlaceOK
  BY <1>5 DEF LiveInit, PlaceOK, ReportOK, BusyNotFree, ReportedIsFound,
     RemovedIsUntold, OnlineIsFound
<1> QED BY <1>1, <1>6, <1>7, <1>8 DEF IndInv
-----------------------------------------------------------------------------
(* Steps that report nothing and move nobody.                              *)

\* What is so in the next state when neither the report under way nor the
\* place was touched; connections may have ended.
Calm ==
  /\ hub' = hub /\ newest' = newest /\ place' = place /\ told' = told
  /\ region' = region /\ stray' = stray /\ isOnline' = isOnline
  /\ open' \subseteq open /\ current' \in {current, 0}
  /\ lastStatus' = lastStatus \/ (lastStatus' = "none" /\ current' = 0)
  /\ mixed' = mixed
  /\ evicted \subseteq evicted' /\ evicted' \subseteq Links
  /\ \A n \in open' : n = current => current' = current \/ n \in evicted'
  /\ hub \notin {"driver", "passenger"} =>
       \A n \in open' : n = current => current' = current

\* Nobody begins or ends to move.
Steady ==
  /\ ThreadOK'
  /\ \A t \in Threads : IsMoving(t)' <=> IsMoving(t)
  /\ \A t \in Threads : IsMoving(t) => thread'[t] = thread[t]
  /\ \A t \in Threads : Removes(t)' => Removes(t) \/ current' = 0

LEMMA CalmKeeps ==
  ASSUME IndInv, Calm, Steady
  PROVE  IndInv'
<1>0. 0 \notin open /\ 0 \notin told /\ open \subseteq Links /\ told \subseteq Links
  BY DEF IndInv, LiveTypeOK, Links
<1>1. LiveTypeOK'
  <2>1. newest' \in 0 .. MaxLink /\ Links' = Links
    BY DEF IndInv, Calm, LiveTypeOK, Links
  <2>2. current' \in 0 .. newest' /\ lastStatus' \in Status \cup {"none"}
    BY DEF IndInv, Calm, LiveTypeOK
  <2>3. \A t \in 0 .. MaxLink :
          /\ thread'[t].on \in 0 .. newest'
          /\ thread'[t].from \in Status \cup {"none"} /\ thread'[t].to \in Status \cup {"none"}
    BY DEF Steady, ThreadOK, ThreadType, Threads
  <2> QED BY <2>1, <2>2, <2>3 DEF IndInv, Calm, LiveTypeOK
<1>2. OneLiveConnection'
  BY <1>0 DEF IndInv, Calm, OneLiveConnection
<1>3. NoneMoves' <=> NoneMoves
  BY DEF Steady, NoneMoves
<1>4. ReportOK'
  <2> SUFFICES ASSUME ~ mixed', NEW t \in Threads, IsMoving(t)'
               PROVE  Reporting(t)'
    BY DEF ReportOK
  <2>1. ~ mixed /\ IsMoving(t) /\ thread'[t] = thread[t]
    BY DEF Calm, Steady
  <2>2. Reporting(t)
    BY <2>1 DEF IndInv, PlaceOK, ReportOK
  <2> QED BY <1>0, <2>1, <2>2 DEF Calm, Steady, Reporting
<1>5. BusyNotFree'
  BY <1>3 DEF IndInv, PlaceOK, BusyNotFree, Calm
<1>6. RemovedIsUntold'
  BY <1>0 DEF IndInv, PlaceOK, RemovedIsUntold, Calm, Steady
<1>7. ReportedIsFound'
  <2> SUFFICES ASSUME ~ mixed', hub' \in Positioned, NoneMoves', NoneRemoves',
                      current' \in open' \cap told'
               PROVE  lastStatus' \in place'[region'[current']]
    BY DEF ReportedIsFound
  <2>1. current' = current /\ current \in open \cap told /\ lastStatus' = lastStatus
    BY <1>0 DEF Calm
  <2>2. NoneRemoves
    BY <2>1 DEF IndInv, PlaceOK, RemovedIsUntold, Calm, NoneRemoves
  <2> QED BY <1>3, <2>1, <2>2 DEF IndInv, PlaceOK, ReportedIsFound, Calm
<1>8. OnlineIsFound'
  BY <1>0 DEF IndInv, PlaceOK, OnlineIsFound, Calm
<1> QED BY <1>1, <1>2, <1>4, <1>5, <1>6, <1>7, <1>8 DEF IndInv, PlaceOK, Steady

\* Steps that leave the threads alone.
LEMMA ThreadsRest ==
  ASSUME IndInv, UNCHANGED <<thread, newest, hub>>
  PROVE  Steady
<1>1. \A t \in Threads : (IsMoving(t)' <=> IsMoving(t)) /\ (Working(t)' <=> Working(t))
                         /\ (Removes(t)' <=> Removes(t))
  BY DEF IsMoving, Working, Removes
<1> QED BY <1>1 DEF IndInv, ThreadOK, ThreadType, Steady

\* A thread that is not moving, and does not begin to.
LEMMA OneThreadSteps ==
  ASSUME IndInv, UNCHANGED <<newest, hub>>, NEW t \in 0 .. newest, ~ IsMoving(t),
         NEW new \in Ender, thread' = [thread EXCEPT ![t] = new],
         (\E i \in DOMAIN new.todo : new.todo[i] \in {"zfree", "zbusy"}) =>
            Removes(t) \/ current' = 0
  PROVE  Steady
<1> new.todo \in Seq(Ends)
  BY DEF Ender
<1>0. t \in Threads /\ thread'[t] = new /\ \A s \in Threads \ {t} : thread'[s] = thread[s]
  BY LinksAreThreads DEF IndInv, ThreadOK, ThreadType
<1>1. ThreadType'
  BY DEF IndInv, ThreadOK, ThreadType, Ender
<1>2. ~ IsMoving(t)'
  BY <1>0, MovesAreNotEnds DEF IsMoving
<1>3. \A s \in Threads \ {t} :
        /\ IsMoving(s)' <=> IsMoving(s)
        /\ Working(s)' <=> Working(s)
        /\ Removes(s)' <=> Removes(s)
  BY <1>0 DEF IsMoving, Working, Removes
<1>4. t <= newest'
  BY DEF IndInv, LiveTypeOK
<1>5. ThreadOK'
  BY <1>0, <1>1, <1>2, <1>3, <1>4 DEF IndInv, ThreadOK
<1>6. Removes(t)' => Removes(t) \/ current' = 0
  BY <1>0 DEF Removes
<1> QED BY <1>0, <1>2, <1>3, <1>5, <1>6 DEF Steady

LEMMA ReadFailsStep ==
  ASSUME IndInv, NEW n \in Links, ReadFails(n)
  PROVE  IndInv'
<1> DEFINE new(script) == [thread[n] EXCEPT !.todo = script]
<1>0. n \in 0 .. newest /\ n \in Threads /\ thread[n].todo = <<>> /\ ~ IsMoving(n)
  BY LinksAreThreads, MovesHeads
     DEF ReadFails, Reads, Working, IsMoving, Moves, Links, IndInv
<1>1. PICK script : /\ script \in {Ending, <<"unlist">> \o Ending}
                    /\ thread' = [thread EXCEPT ![n].todo = script]
  BY DEF ReadFails, Todo
<1>2. Ending = <<"unlist">> \/ Ending = <<"unlist", "offline">>
  BY DEF Ending, DriverEnd, PassengerEnd, CourierEnd, SenderEnd, ChatEnd, LocationEnd,
     IndInv, LiveTypeOK, Hubs
<1>3. /\ <<"unlist">> \in Seq({"unlist", "offline"})
      /\ <<"unlist", "offline">> \in Seq({"unlist", "offline"})
  OBVIOUS
<1>4. /\ script \in Seq(Ends)
      /\ \A i \in DOMAIN script : script[i] \in {"unlist", "offline"}
  <2>1. script \in Seq({"unlist", "offline"})
    BY <1>1, <1>2, <1>3, SeqConcat
  <2>2. \A i \in DOMAIN script : script[i] \in {"unlist", "offline"}
    BY <2>1
  <2>3. {"unlist", "offline"} \subseteq Ends
    BY DEF Ends
  <2> QED BY <2>1, <2>2, <2>3
<1>5. /\ thread' = [thread EXCEPT ![n] = new(script)] /\ new(script).todo = script
      /\ new(script) \in Ender
  BY <1>0, <1>1, <1>4 DEF IndInv, ThreadOK, ThreadType, Ender
<1> HIDE DEF new
<1>6. Steady
  BY <1>0, <1>4, <1>5, OneThreadSteps DEF ReadFails
<1>7. Calm
  BY DEF ReadFails, Calm, IndInv, LiveTypeOK
<1> QED BY <1>6, <1>7, CalmKeeps

LEMMA UnlistStep ==
  ASSUME IndInv, NEW t \in 0 .. newest, Unlist(t)
  PROVE  IndInv'
<1> DEFINE n == thread[t].on
           going == GoOfflineCourier(n)
           new == [thread[t] EXCEPT
                     !.todo = going \o Tail(@),
                     !.on = IF Len(thread[t].todo) = 1 /\ going = <<>> THEN 0 ELSE @]
<1>0. /\ t \in Threads /\ thread[t].todo \in Seq(Ends) /\ ~ IsMoving(t)
      /\ thread[t].todo # <<>>
  BY LinksAreThreads, NextKind DEF Unlist, Next1, IndInv, Ends, Working
<1>1. n \in 0 .. newest
  BY <1>0 DEF IndInv, ThreadOK, ThreadType
<1>2. current' = AfterEnd(n) /\ current' \in {0, current}
  BY DEF Unlist, AfterEnd, DriverCloses, PassengerCloses, CourierCloses, SenderCloses,
     ChatUnregisters, LocationUnregisters, IndInv, LiveTypeOK, Hubs
<1>3. hub \notin {"driver", "passenger"} => current' = IF current = n THEN 0 ELSE current
  BY DEF Unlist, AfterEnd, CourierCloses, SenderCloses,
     ChatUnregisters, LocationUnregisters, IndInv, LiveTypeOK, Hubs
<1>4. hub = "driver" => current' = 0
  BY DEF Unlist, AfterEnd, DriverCloses
<1>5. going \in Seq(Ends) /\ (going = <<>> \/ current' = 0)
  <2>1. <<"zfree", "zbusy">> \in Seq(Ends) /\ <<>> \in Seq(Ends)
    BY DEF Ends
  <2>2. hub = "courier" /\ current = n => current' = 0
    BY <1>3
  <2> QED BY <2>1, <2>2 DEF GoOfflineCourier
<1>6. Tail(thread[t].todo) \in Seq(Ends) /\ going \o Tail(thread[t].todo) \in Seq(Ends)
  BY <1>0, <1>5
<1>7. /\ thread' = [thread EXCEPT ![t] = new]
      /\ new \in Ender /\ new.todo = going \o Tail(thread[t].todo)
  <2>1. thread[t] \in Ender
    BY <1>0 DEF IndInv, ThreadOK, ThreadType, Ender
  <2>2. thread' = [thread EXCEPT ![t] = new]
    BY DEF Unlist
  <2>3. 0 \in 0 .. newest
    BY DEF IndInv, LiveTypeOK
  <2> DEFINE script == going \o Tail(thread[t].todo)
             first == [thread[t] EXCEPT !.todo = script]
             on == IF Len(thread[t].todo) = 1 /\ going = <<>> THEN 0 ELSE first.on
  <2> HIDE DEF going
  <2>4. script \in Seq(Ends)
    BY <1>6
  <2> HIDE DEF script
  <2>5. first \in Ender /\ first.todo = script
    BY <2>1, <2>4 DEF Ender
  <2> HIDE DEF first
  <2>6. on \in 0 .. newest
    BY <2>3, <2>5 DEF Ender
  <2> HIDE DEF on
  <2>7. [first EXCEPT !.on = on] \in Ender /\ [first EXCEPT !.on = on].todo = script
    BY <2>5, <2>6 DEF Ender
  <2>8. new = [first EXCEPT !.on = on]
    BY DEF first, script, on
  <2> QED BY <2>2, <2>7, <2>8 DEF script
<1>8. (\E i \in DOMAIN new.todo : new.todo[i] \in {"zfree", "zbusy"}) =>
        Removes(t) \/ current' = 0
  <2>1. CASE going = <<>>
    <3>1. new.todo = Tail(thread[t].todo)
      BY <1>6, <1>7, <2>1
    <3> HIDE DEF new
    <3> QED BY <1>0, <3>1, EndsHeads DEF Removes
  <2> QED BY <1>5, <2>1
<1> HIDE DEF new, going
<1>9. Steady
  BY <1>0, <1>6, <1>7, <1>8, OneThreadSteps DEF Unlist
<1>10. Calm
  <2>1. /\ hub' = hub /\ newest' = newest /\ place' = place /\ told' = told
        /\ region' = region /\ stray' = stray /\ isOnline' = isOnline
        /\ mixed' = mixed /\ open' = open \ {n}
        /\ evicted' = evicted \cup ({current} \ {0, n, current'})
    BY DEF Unlist
  <2>2. lastStatus' = lastStatus \/ (lastStatus' = "none" /\ current' = 0)
    BY <1>3, <1>4 DEF Unlist
  <2>3. evicted' \subseteq Links
    <3>1. newest \in Nat /\ current \in 0 .. newest /\ evicted \subseteq 1 .. newest
      BY LiveAssumption DEF IndInv, LiveTypeOK, Links
    <3>2. ASSUME NEW m \in evicted' PROVE m \in 1 .. newest
      <4>1. m \in evicted \/ (m = current /\ m # 0)
        BY <2>1
      <4>2. CASE m \in evicted
        BY <3>1, <4>2
      <4>3. CASE m = current /\ m # 0
        BY <3>1, <4>3
      <4> QED BY <4>1, <4>2, <4>3
    <3> QED BY <3>2 DEF Links
  <2>4. 0 \notin open
    BY DEF IndInv, LiveTypeOK, Links
  <2>5. \A m \in open' : m = current => current' = current \/ m \in evicted'
    BY <1>2, <2>1, <2>4
  <2>6. hub \notin {"driver", "passenger"} =>
          \A m \in open' : m = current => current' = current
    BY <1>3, <2>1
  <2> QED BY <1>2, <2>1, <2>2, <2>3, <2>5, <2>6 DEF Calm
<1> QED BY <1>9, <1>10, CalmKeeps

\* Writes, pings and the connections that they find dead.
LEMMA DroppedStep ==
  ASSUME IndInv, Dropped \/ (\E n \in Links : PingFails(n) \/ WritePump(n))
  PROVE  IndInv'
<1>1. Steady
  BY ThreadsRest DEF Dropped, PingFails, WritePump
<1>3. ASSUME NEW n \in Links, PingFails(n)
      PROVE  Calm
  <2>1. /\ hub \in {"chat", "location"} /\ n \in open
        /\ current' = IF current = n THEN 0 ELSE current
        /\ open' = IF current = n THEN open \ {n} ELSE open
    BY <1>3 DEF PingFails, AfterEnd, ChatUnregisters, LocationUnregisters
  <2> QED BY <1>3, <2>1 DEF PingFails, Calm, IndInv, LiveTypeOK
<1>4. ASSUME NEW n \in Links, WritePump(n)
      PROVE  Calm
  BY <1>4 DEF WritePump, Calm, IndInv, LiveTypeOK
<1>5. Calm
  <2>1. CASE Dropped
    BY <2>1 DEF Dropped, Calm, IndInv, LiveTypeOK, Links
  <2> QED BY <1>3, <1>4, <2>1
<1> QED BY <1>1, <1>5, CalmKeeps

LEMMA SafeWriteStep ==
  ASSUME IndInv, SafeWrite
  PROVE  IndInv'
<1> DEFINE new == [Resting EXCEPT !.todo = <<"write">>, !.on = current]
<1>0. 0 \in 0 .. newest /\ ~ IsMoving(0)
  BY MovesHeads DEF IndInv, LiveTypeOK, SafeWrite, Working, IsMoving, Moves
<1>1. /\ <<"write">> \in Seq(Ends)
      /\ \A i \in DOMAIN <<"write">> : <<"write">>[i] = "write"
  BY DEF Ends
<1>2. thread' = [thread EXCEPT ![0] = new] /\ new \in Ender /\ new.todo = <<"write">>
  <2>1. Resting \in Ender
    <3>1. <<>> \in Seq(Ends) /\ 0 \in 0 .. newest
      BY <1>0
    <3> QED BY <3>1 DEF Resting, Ender
  <2> DEFINE first == [Resting EXCEPT !.todo = <<"write">>]
  <2>2. first \in Ender /\ first.todo = <<"write">>
    BY <1>1, <2>1 DEF Ender
  <2>3. current \in 0 .. newest
    BY DEF IndInv, LiveTypeOK
  <2>4. new = [first EXCEPT !.on = current]
    OBVIOUS
  <2> HIDE DEF first
  <2>5. [first EXCEPT !.on = current] \in Ender
        /\ [first EXCEPT !.on = current].todo = <<"write">>
    BY <2>2, <2>3 DEF Ender
  <2> QED BY <2>4, <2>5 DEF SafeWrite
<1> HIDE DEF new
<1>3. Steady
  BY <1>0, <1>1, <1>2, OneThreadSteps DEF SafeWrite
<1>4. Calm
  BY DEF SafeWrite, Calm, IndInv, LiveTypeOK
<1> QED BY <1>3, <1>4, CalmKeeps

LEMMA WrittenStep ==
  ASSUME IndInv, Written
  PROVE  IndInv'
<1> DEFINE unlisting == [thread[0] EXCEPT !.todo = <<"unlist">>]
<1>0. 0 \in 0 .. newest /\ 0 \in Threads /\ ~ IsMoving(0)
  BY LinksAreThreads, NextKind
     DEF Written, Next1, Ends, IndInv, LiveTypeOK
<1>1. Calm
  BY DEF Written, Calm, IndInv, LiveTypeOK
<1>2. CASE thread' = [thread EXCEPT ![0] = Resting]
  <2>1. Resting \in Ender /\ Resting.todo = <<>>
    <3>1. <<>> \in Seq(Ends)
      OBVIOUS
    <3> QED BY <1>0, <3>1 DEF Resting, Ender
  <2>3. ~ \E i \in DOMAIN Resting.todo : Resting.todo[i] \in {"zfree", "zbusy"}
    BY <2>1
  <2>2. Steady
    BY <1>0, <1>2, <2>3, <2>1, OneThreadSteps DEF Written
  <2> QED BY <1>1, <2>2, CalmKeeps
<1>3. CASE Todo(0, <<"unlist">>)
  <2>1. /\ <<"unlist">> \in Seq(Ends)
        /\ \A i \in DOMAIN <<"unlist">> : <<"unlist">>[i] = "unlist"
    BY DEF Ends
  <2>2. /\ thread' = [thread EXCEPT ![0] = unlisting]
        /\ unlisting \in Ender /\ unlisting.todo = <<"unlist">>
    BY <1>0, <1>3, <2>1 DEF Todo, IndInv, ThreadOK, ThreadType, Ender
  <2> HIDE DEF unlisting
  <2>3. Steady
    BY <1>0, <2>1, <2>2, OneThreadSteps DEF Written
  <2> QED BY <1>1, <2>3, CalmKeeps
<1> QED BY <1>2, <1>3 DEF Written
-----------------------------------------------------------------------------
(* Removals.                                                               *)

\* One thread that does not move takes a step; places may be left.
LEMMA LeavingStep ==
  ASSUME IndInv, Steady,
         UNCHANGED <<hub, newest, open, current, lastStatus, region, stray, evicted>>,
         place' \in [Region -> SUBSET Status],
         \A c \in Region : place'[c] \subseteq place[c],
         told' \subseteq told, isOnline' \in BOOLEAN,
         mixed => mixed', mixed' \in BOOLEAN,
         ~ mixed' => (current \notin told' \/ isOnline' = isOnline),
         ~ mixed' => (hub \in Positioned => current \notin told')
  PROVE  IndInv'
<1>0. mixed \in BOOLEAN /\ "location" \notin Positioned
  BY DEF IndInv, LiveTypeOK, Positioned
<1>1. LiveTypeOK'
  <2>1. \A t \in 0 .. MaxLink :
          /\ thread'[t].on \in 0 .. newest'
          /\ thread'[t].from \in Status \cup {"none"} /\ thread'[t].to \in Status \cup {"none"}
    BY DEF Steady, ThreadOK, ThreadType, Threads
  <2> QED BY <2>1 DEF IndInv, LiveTypeOK, Links
<1>2. OneLiveConnection'
  BY DEF IndInv, OneLiveConnection
<1>3. ReportOK'
  <2> SUFFICES ASSUME ~ mixed', NEW t \in Threads, IsMoving(t)'
               PROVE  Reporting(t)'
    BY DEF ReportOK
  <2>1. ~ mixed /\ IsMoving(t) /\ thread'[t] = thread[t]
    BY DEF Steady
  <2>2. Reporting(t)
    BY <2>1 DEF IndInv, PlaceOK, ReportOK
  <2>3. region[t] \in Region
    BY <2>1 DEF IndInv, ThreadOK, Threads, LiveTypeOK
  <2> QED BY <2>1, <2>2, <2>3 DEF Steady, Reporting, LiveTypeOK, IndInv
<1>4. BusyNotFree'
  <2>1. NoneMoves' => NoneMoves
    BY DEF NoneMoves, Steady
  <2> QED BY <2>1 DEF IndInv, PlaceOK, BusyNotFree
<1>5. ReportedIsFound' /\ RemovedIsUntold'
  BY DEF ReportedIsFound, RemovedIsUntold
<1>6. OnlineIsFound'
  BY DEF IndInv, PlaceOK, OnlineIsFound
<1> QED BY <1>1, <1>2, <1>3, <1>4, <1>5, <1>6 DEF IndInv, PlaceOK, Steady

\* The step of a thread that is not moving to the rest of its script.
LEMMA ScriptGoesOn ==
  ASSUME IndInv, UNCHANGED <<newest, hub, current>>, NEW t \in 0 .. newest,
         thread[t].todo \in Seq(Ends), thread[t].todo # <<>>, NEW on \in 0 .. newest,
         thread' = [thread EXCEPT ![t] =
                      [[thread[t] EXCEPT !.todo = Tail(thread[t].todo)] EXCEPT !.on = on]]
  PROVE  Steady
<1> DEFINE first == [thread[t] EXCEPT !.todo = Tail(thread[t].todo)]
           new == [first EXCEPT !.on = on]
<1>0. t \in Threads /\ ~ IsMoving(t) /\ thread[t] \in Ender
  BY LinksAreThreads, MovesAreNotEnds DEF IndInv, ThreadOK, ThreadType, Ender, IsMoving
<1>1. /\ Tail(thread[t].todo) \in Seq(Ends)
      /\ \A i \in DOMAIN Tail(thread[t].todo) :
           i + 1 \in DOMAIN thread[t].todo /\ Tail(thread[t].todo)[i] = thread[t].todo[i + 1]
  BY EndsHeads
<1>2. first \in Ender /\ first.todo = Tail(thread[t].todo)
  BY <1>0, <1>1 DEF Ender
<1>3. new \in Ender /\ new.todo = Tail(thread[t].todo)
  <2> HIDE DEF first
  <2> QED BY <1>2 DEF Ender
<1>4. thread' = [thread EXCEPT ![t] = new]
  OBVIOUS
<1> HIDE DEF new
<1>5. (\E i \in DOMAIN new.todo : new.todo[i] \in {"zfree", "zbusy"}) => Removes(t)
  BY <1>1, <1>3 DEF Removes
<1> QED BY <1>0, <1>3, <1>4, <1>5, OneThreadSteps

LEMMA ZRemStep ==
  ASSUME IndInv, NEW t \in 0 .. newest, ZRem(t)
  PROVE  IndInv'
<1>1. PICK s \in Status :
        /\ Next1(t, IF s = "free" THEN "zfree" ELSE "zbusy")
        /\ place' = [place EXCEPT ![region[thread[t].on]] = @ \ {s}]
        /\ thread' = [thread EXCEPT ![t].todo = Tail(@), ![t].on = IF LastOf(t) THEN 0 ELSE @]
        /\ UNCHANGED <<hub, newest, open, current, lastStatus, region, isOnline,
                       evicted, told, stray, mixed>>
  BY DEF ZRem
<1>2. /\ t \in Threads /\ thread[t].todo \in Seq(Ends) /\ Removes(t)
      /\ thread[t].todo # <<>>
  BY <1>1, LinksAreThreads, NextKind DEF Next1, IndInv, Ends, Working
<1>3. Steady
  <2> DEFINE on == IF LastOf(t) THEN 0 ELSE thread[t].on
  <2>1. on \in 0 .. newest
    BY <1>2 DEF IndInv, ThreadOK, ThreadType, LiveTypeOK
  <2>2. thread' = [thread EXCEPT ![t] =
                     [[thread[t] EXCEPT !.todo = Tail(thread[t].todo)] EXCEPT !.on = on]]
    BY <1>1, <1>2 DEF IndInv, ThreadOK, ThreadType
  <2> HIDE DEF on
  <2> QED BY <1>1, <1>2, <2>1, <2>2, ScriptGoesOn
<1>4. ~ mixed' => (hub \in Positioned => current \notin told')
  BY <1>1, <1>2 DEF IndInv, PlaceOK, RemovedIsUntold
<1>5. /\ place' \in [Region -> SUBSET Status]
      /\ \A c \in Region : place'[c] \subseteq place[c]
  BY <1>1 DEF IndInv, LiveTypeOK
<1>6. mixed \in BOOLEAN /\ isOnline \in BOOLEAN
  BY DEF IndInv, LiveTypeOK
<1> QED BY <1>1, <1>3, <1>4, <1>5, <1>6, LeavingStep

LEMMA ClearLocationStep ==
  ASSUME IndInv, NEW t \in 0 .. newest, ClearLocation(t)
  PROVE  IndInv'
<1>1. /\ t \in Threads /\ thread[t].todo \in Seq(Ends) /\ thread[t].todo # <<>>
  BY LinksAreThreads, NextKind DEF ClearLocation, Next1, IndInv, Ends, Working
<1>2. Steady
  <2>1. 0 \in 0 .. newest
    BY DEF IndInv, LiveTypeOK
  <2>2. thread' = [thread EXCEPT ![t] =
                     [[thread[t] EXCEPT !.todo = Tail(thread[t].todo)] EXCEPT !.on = 0]]
    BY <1>1 DEF ClearLocation, IndInv, ThreadOK, ThreadType
  <2> QED BY <1>1, <2>1, <2>2, ScriptGoesOn DEF ClearLocation
<1>3. mixed \in BOOLEAN /\ mixed' \in BOOLEAN /\ (mixed => mixed')
  BY DEF ClearLocation, IndInv, LiveTypeOK
<1>4. ~ mixed' => current \notin told'
  <2>1. 0 \notin told
    BY DEF IndInv, LiveTypeOK, Links
  <2> QED BY <2>1 DEF ClearLocation
<1>5. /\ place' = place /\ place \in [Region -> SUBSET Status] /\ told' \subseteq told
      /\ isOnline' \in BOOLEAN /\ region' = region /\ stray' = stray
  BY DEF ClearLocation, IndInv, LiveTypeOK
<1> QED BY <1>2, <1>3, <1>4, <1>5, LeavingStep DEF ClearLocation
-----------------------------------------------------------------------------
(* Reports.                                                                *)

Mover == [todo : Moves \cup Seq(Ends), on : 0 .. newest,
          from : Status \cup {"none"}, to : Status \cup {"none"}]

\* A thread takes a step; the others do not.
LEMMA OneThreadMoves ==
  ASSUME IndInv, UNCHANGED <<hub, newest>>, NEW t \in 0 .. newest, NEW new \in Mover,
         thread' = [thread EXCEPT ![t] = new],
         new.todo \in Moves =>
           t # 0 /\ new.to \in Status /\ new.from \in Status /\ hub \in Positioned
  PROVE  /\ ThreadOK' /\ t \in Threads /\ thread'[t] = new
         /\ \A s \in Threads \ {t} : /\ thread'[s] = thread[s]
                                     /\ IsMoving(s)' <=> IsMoving(s)
                                     /\ Removes(s)' <=> Removes(s)
<1>0. t \in Threads /\ thread'[t] = new /\ \A s \in Threads \ {t} : thread'[s] = thread[s]
  BY LinksAreThreads DEF IndInv, ThreadOK, ThreadType
<1>1. ThreadType'
  BY DEF IndInv, ThreadOK, ThreadType, Mover
<1>2. \A s \in Threads \ {t} :
        /\ IsMoving(s)' <=> IsMoving(s)
        /\ Working(s)' <=> Working(s)
        /\ Removes(s)' <=> Removes(s)
  BY <1>0 DEF IsMoving, Working, Removes
<1>3. t <= newest'
  BY DEF IndInv, LiveTypeOK
<1>4. IsMoving(t)' <=> new.todo \in Moves
  BY <1>0 DEF IsMoving
<1>5. ThreadOK'
  BY <1>0, <1>1, <1>2, <1>3, <1>4 DEF IndInv, ThreadOK
<1> QED BY <1>0, <1>2, <1>5

\* Where nothing overlapped, nobody else is at work.
LEMMA AloneIfUnmixed ==
  ASSUME IndInv, NEW t \in Threads, ~ Crossing(t), NEW s \in Threads \ {t}
  PROVE  ~ Working(s) /\ ~ IsMoving(s) /\ ~ Removes(s)
<1>1. ~ Working(s)
  BY DEF Crossing, IndInv, ThreadOK, Threads, LiveTypeOK
<1> QED BY <1>1, MovingWorks DEF IndInv

LEMMA TypeKept ==
  ASSUME IndInv, ThreadOK', UNCHANGED <<hub, newest, open, current, region, evicted>>,
         lastStatus' \in Status \cup {"none"}, place' \in [Region -> SUBSET Status],
         told' \subseteq Links, stray' \subseteq Region,
         isOnline' \in BOOLEAN, mixed' \in BOOLEAN
  PROVE  LiveTypeOK' /\ OneLiveConnection'
<1>1. \A t \in 0 .. MaxLink :
        /\ thread'[t].on \in 0 .. newest'
        /\ thread'[t].from \in Status \cup {"none"} /\ thread'[t].to \in Status \cup {"none"}
  BY DEF ThreadOK, ThreadType, Threads
<1>2. LiveTypeOK'
  BY <1>1 DEF IndInv, LiveTypeOK, Links
<1>3. OneLiveConnection'
  BY DEF IndInv, OneLiveConnection
<1> QED BY <1>2, <1>3

LEMMA GivesStep ==
  ASSUME IndInv, NEW t \in 0 .. newest, Gives(t)
  PROVE  IndInv'
<1> DEFINE script == IF Head(thread[t].todo) \in {"pos", "add", "rem"} THEN P1 ELSE <<>>
           first == [thread[t] EXCEPT !.todo = script]
           on == IF Head(thread[t].todo) \in {"zfree", "zbusy"} THEN 0 ELSE thread[t].on
           new == [first EXCEPT !.on = on]
<1>0. t \in Threads /\ thread[t] \in Mover /\ 0 \in 0 .. newest
  BY LinksAreThreads DEF IndInv, ThreadOK, ThreadType, Mover, LiveTypeOK
<1>1. thread' = [thread EXCEPT ![t] = new]
  BY <1>0 DEF Gives, P1, IndInv, ThreadOK, ThreadType
<1>2. script \in Moves \cup Seq(Ends)
  <2>1. <<>> \in Seq(Ends)
    OBVIOUS
  <2> QED BY <2>1 DEF Moves
<1>3. script \in Moves => IsMoving(t)
  <2>1. <<>> \notin Moves
    BY MovesHeads DEF Moves
  <2> QED BY <1>0, <2>1, NextKind DEF Gives, Ends, IndInv
<1>4. on \in 0 .. newest
  BY <1>0 DEF Mover
<1> HIDE DEF script, on
<1>5. first \in Mover /\ first.todo = script
      /\ first.to = thread[t].to /\ first.from = thread[t].from
  BY <1>0, <1>2 DEF Mover
<1> HIDE DEF first
<1>6. new \in Mover /\ new.todo = script
      /\ new.to = thread[t].to /\ new.from = thread[t].from
  BY <1>4, <1>5 DEF Mover
<1> HIDE DEF new
<1>7. script \in Moves =>
        t # 0 /\ new.to \in Status /\ new.from \in Status /\ hub \in Positioned
  BY <1>0, <1>3, <1>6 DEF IndInv, ThreadOK
<1>8. ThreadOK'
  BY <1>1, <1>6, <1>7, OneThreadMoves DEF Gives
<1>9. LiveTypeOK' /\ OneLiveConnection'
  BY <1>8, TypeKept DEF Gives, IndInv, LiveTypeOK
<1>10. PlaceOK'
  BY DEF Gives, PlaceOK, ReportOK, BusyNotFree, ReportedIsFound, RemovedIsUntold,
     OnlineIsFound
<1> QED BY <1>8, <1>9, <1>10 DEF IndInv

\* A report is the only one under way, and nobody goes offline meanwhile.
LEMMA ReportingKeeps ==
  ASSUME IndInv, ThreadOK', NEW t \in Threads, IsMoving(t)',
         UNCHANGED <<hub, newest, open, current, region, isOnline, evicted>>,
         lastStatus' \in Status \cup {"none"}, place' \in [Region -> SUBSET Status],
         told' \subseteq Links, stray' \subseteq Region, mixed' \in BOOLEAN,
         ~ mixed' => \A s \in Threads \ {t} : ~ IsMoving(s)' /\ ~ Removes(s)',
         ~ mixed' => Reporting(t)'
  PROVE  IndInv'
<1>1. LiveTypeOK' /\ OneLiveConnection'
  BY TypeKept DEF IndInv, LiveTypeOK
<1>2. ReportOK'
  BY DEF ReportOK
<1>3. BusyNotFree' /\ ReportedIsFound'
  BY DEF BusyNotFree, ReportedIsFound, NoneMoves
<1>4. ~ Removes(t)'
  BY MovesElements DEF IsMoving, Removes, Ends
<1>5. RemovedIsUntold'
  BY <1>4 DEF RemovedIsUntold
<1>6. hub' \in Positioned
  BY DEF ThreadOK
<1>7. OnlineIsFound'
  BY <1>6 DEF OnlineIsFound, Positioned
<1> QED BY <1>1, <1>2, <1>3, <1>5, <1>7 DEF IndInv, PlaceOK

LEMMA CrossedOK ==
  ASSUME IndInv, NEW t \in Threads, Crossed(t)
  PROVE  /\ mixed' \in BOOLEAN
         /\ ~ mixed' => ~ mixed /\ ~ Crossing(t)
BY DEF IndInv, LiveTypeOK, Crossed, Crossing

\* The steps of a report but its last.
LEMMA ReportGoesOn ==
  ASSUME IndInv, NEW t \in 0 .. newest, IsMoving(t), Crossed(t), NEW script \in Moves,
         thread' = [thread EXCEPT ![t].todo = script],
         UNCHANGED <<hub, newest, open, current, lastStatus, region, isOnline,
                     evicted, told, stray>>,
         NEW here \in SUBSET Status, place' = [place EXCEPT ![region[t]] = here],
         ~ mixed' => (thread[t].to = "busy" /\ region[t] \notin stray /\ "free" \in here =>
                        thread[t].from = "free" /\ script # P1)
  PROVE  IndInv'
<1> DEFINE new == [thread[t] EXCEPT !.todo = script]
<1>0. t \in Threads /\ thread[t] \in Mover
  BY LinksAreThreads DEF IndInv, ThreadOK, ThreadType, Mover
<1>1. thread' = [thread EXCEPT ![t] = new] /\ new \in Mover /\ new.todo = script
      /\ new.to = thread[t].to /\ new.from = thread[t].from
  BY <1>0 DEF Mover
<1> HIDE DEF new
<1>2. t # 0 /\ thread[t].to \in Status /\ thread[t].from \in Status /\ hub \in Positioned
  BY <1>0 DEF IndInv, ThreadOK
<1>3. /\ ThreadOK' /\ thread'[t] = new
      /\ \A s \in Threads \ {t} : /\ IsMoving(s)' <=> IsMoving(s)
                                  /\ Removes(s)' <=> Removes(s)
  BY <1>1, <1>2, OneThreadMoves
<1>4. IsMoving(t)'
  BY <1>1, <1>3 DEF IsMoving
<1>5. /\ mixed' \in BOOLEAN
      /\ ~ mixed' => ~ mixed /\ \A s \in Threads \ {t} : ~ IsMoving(s) /\ ~ Removes(s)
  BY <1>0, CrossedOK, AloneIfUnmixed
<1>6. ~ mixed => Reporting(t)
  BY <1>0 DEF IndInv, PlaceOK, ReportOK
<1>7. /\ lastStatus' \in Status \cup {"none"} /\ told' \subseteq Links
      /\ stray' \subseteq Region /\ place' \in [Region -> SUBSET Status]
      /\ place'[region[t]] = here
      /\ \A c \in Region \ {region[t]} : place'[c] = place[c]
  BY <1>0, <1>2 DEF IndInv, LiveTypeOK, Threads
<1>8. ~ mixed' => Reporting(t)'
  <2> SUFFICES ASSUME ~ mixed' PROVE Reporting(t)'
    OBVIOUS
  <2>1. Reporting(t)
    BY <1>5, <1>6
  <2>2. \A s \in Threads : IsMoving(s)' => s = t
    BY <1>3, <1>5
  <2>3. \A c \in Region \ (stray \cup {region[t]}) : place'[c] = {}
    BY <1>7, <2>1 DEF Reporting
  <2> QED BY <1>1, <1>3, <1>7, <2>1, <2>2, <2>3 DEF Reporting
<1> QED BY <1>0, <1>3, <1>4, <1>5, <1>7, <1>8, ReportingKeeps

LEMMA GeoSteps ==
  ASSUME IndInv, NEW t \in 0 .. newest, GeoPos(t) \/ GeoAdd(t) \/ ZRemFrom(t)
  PROVE  IndInv'
<1>0. t \in Threads /\ Crossed(t) /\ Working(t)
  BY LinksAreThreads DEF GeoPos, GeoAdd, ZRemFrom, Next1, IndInv
<1>1. ~ mixed' => ~ mixed
  BY <1>0, CrossedOK
<1> DEFINE here == place[region[t]]
<1>2. ASSUME IsMoving(t)
      PROVE  /\ here \subseteq Status /\ place = [place EXCEPT ![region[t]] = here]
             /\ thread[t].from \in Status /\ thread[t].to \in Status
  BY <1>0, <1>2 DEF IndInv, LiveTypeOK, ThreadOK, Threads
<1>3. ASSUME IsMoving(t), ~ mixed
      PROVE  thread[t].to = "busy" /\ region[t] \notin stray /\ "free" \in here =>
               thread[t].from = "free" /\ thread[t].todo # P1
  BY <1>0, <1>3 DEF IndInv, PlaceOK, ReportOK, Reporting
<1>4. P1 \in Moves /\ P2 \in Moves /\ P3 \in Moves
  BY DEF Moves
<1>5. P3 # P1 /\ P2 # P1
  BY MovesHeads
<1>6. CASE GeoPos(t)
  <2>1. thread[t].todo = P4 /\ IsMoving(t)
    BY <1>0, <1>6, NextKind DEF GeoPos, Next1, IndInv, Ends
  <2>2. CASE thread[t].from \in here
    <3>1. thread' = [thread EXCEPT ![t].todo = P3]
      BY <1>6, <2>1, <2>2, MovesTails DEF GeoPos, Rest, Todo
    <3> QED BY <1>0, <1>1, <1>2, <1>3, <1>4, <1>5, <1>6, <2>1, <3>1, ReportGoesOn DEF GeoPos
  <2>3. CASE thread[t].from \notin here
    <3>1. thread' = [thread EXCEPT ![t].todo = P1]
      BY <1>6, <2>3 DEF GeoPos, Todo, P1
    <3>2. ~ mixed' =>
            ~ (thread[t].to = "busy" /\ region[t] \notin stray /\ "free" \in here)
      BY <1>1, <1>3, <2>1, <2>3
    <3>3. place' = [place EXCEPT ![region[t]] = here] /\ here \in SUBSET Status
      BY <1>2, <1>6, <2>1 DEF GeoPos
    <3> HIDE DEF here
    <3> QED BY <1>0, <1>4, <1>6, <2>1, <3>1, <3>2, <3>3, ReportGoesOn DEF GeoPos
  <2> QED BY <2>2, <2>3
<1>7. CASE GeoAdd(t)
  <2>1. thread[t].todo = P3 /\ IsMoving(t)
    BY <1>0, <1>7, NextKind DEF GeoAdd, Next1, IndInv, Ends
  <2>2. thread' = [thread EXCEPT ![t].todo = P2]
    BY <1>7, <2>1, MovesTails DEF GeoAdd, Rest, Todo
  <2>3. /\ place' = [place EXCEPT ![region[t]] = here \cup {thread[t].to}]
        /\ here \cup {thread[t].to} \in SUBSET Status
    BY <1>2, <1>7, <2>1 DEF GeoAdd
  <2> QED BY <1>0, <1>1, <1>2, <1>3, <1>4, <1>5, <1>7, <2>1, <2>2, <2>3, ReportGoesOn
          DEF GeoAdd
<1>8. CASE ZRemFrom(t)
  <2>1. thread[t].todo = P2 /\ IsMoving(t)
    BY <1>0, <1>8, NextKind DEF ZRemFrom, Next1, IndInv, Ends
  <2>2. thread' = [thread EXCEPT ![t].todo = P1]
    BY <1>8, <2>1, MovesTails DEF ZRemFrom, Rest, Todo
  <2>3. /\ place' = [place EXCEPT ![region[t]] = here \ {thread[t].from}]
        /\ here \ {thread[t].from} \in SUBSET Status
    BY <1>2, <1>8, <2>1 DEF ZRemFrom
  <2> QED BY <1>0, <1>1, <1>2, <1>3, <1>4, <1>8, <2>1, <2>2, <2>3, ReportGoesOn
          DEF ZRemFrom
<1> QED BY <1>6, <1>7, <1>8

LEMMA SafeUpdateStep ==
  ASSUME IndInv, NEW t \in 0 .. newest, SafeUpdate(t)
  PROVE  IndInv'
<1> DEFINE new == [thread[t] EXCEPT !.todo = <<>>]
<1>0. /\ t \in Threads /\ Crossed(t) /\ Working(t) /\ thread[t] \in Mover
      /\ thread[t].todo = P1 /\ IsMoving(t)
  BY LinksAreThreads, NextKind
     DEF SafeUpdate, Next1, IndInv, Ends, ThreadOK, ThreadType, Mover
<1>1. /\ t # 0 /\ t \in Links /\ hub \in Positioned /\ thread[t].to \in Status
  BY <1>0 DEF IndInv, ThreadOK, Links, LiveTypeOK
<1>2. <<>> \in Seq(Ends) /\ <<>> \notin Moves
  <2>1. <<>> \in Seq(Ends)
    OBVIOUS
  <2> QED BY <2>1, MovesAreNotEnds
<1>3. thread' = [thread EXCEPT ![t] = new] /\ new \in Mover /\ new.todo = <<>>
  BY <1>0, <1>2, MovesTails DEF SafeUpdate, Rest, Todo, Mover
<1> HIDE DEF new
<1>4. /\ ThreadOK' /\ thread'[t] = new
      /\ \A s \in Threads \ {t} : /\ IsMoving(s)' <=> IsMoving(s)
                                  /\ Removes(s)' <=> Removes(s)
  BY <1>2, <1>3, OneThreadMoves DEF SafeUpdate
<1>5. ~ IsMoving(t)' /\ ~ Removes(t)'
  BY <1>2, <1>3, <1>4 DEF IsMoving, Removes
<1>6. /\ told' = told \cup {t} /\ region' = region /\ stray' = stray
      /\ region[t] \in Region /\ place' \in [Region -> SUBSET Status]
      /\ place'[region[t]] = place[region[t]] \cup {thread[t].to}
      /\ \A c \in Region \ {region[t]} : place'[c] = place[c]
  BY <1>0, <1>1 DEF SafeUpdate, IndInv, LiveTypeOK, Threads
<1>7. LiveTypeOK' /\ OneLiveConnection'
  <2>1. mixed' \in BOOLEAN
    BY <1>0, CrossedOK
  <2>2. told' \subseteq Links /\ stray' \subseteq Region
    BY <1>1, <1>6 DEF IndInv, LiveTypeOK
  <2>3. lastStatus' \in Status \cup {"none"}
    BY DEF SafeUpdate, IndInv, LiveTypeOK
  <2>4. isOnline' \in BOOLEAN
    BY DEF SafeUpdate, IndInv, LiveTypeOK
  <2> QED BY <1>4, <1>6, <2>1, <2>2, <2>3, <2>4, TypeKept DEF SafeUpdate
<1>8. PlaceOK'
  <2>1. CASE mixed'
    BY <2>1 DEF PlaceOK, ReportOK, BusyNotFree, ReportedIsFound, RemovedIsUntold,
       OnlineIsFound
  <2>2. CASE ~ mixed'
    <3>1. ~ mixed /\ \A s \in Threads \ {t} : ~ IsMoving(s) /\ ~ Removes(s)
      BY <1>0, <2>2, CrossedOK, AloneIfUnmixed
    <3>2. \A s \in Threads : ~ IsMoving(s)' /\ ~ Removes(s)'
      BY <1>4, <1>5, <3>1
    <3>3. Reporting(t)
      BY <1>0, <3>1 DEF IndInv, PlaceOK, ReportOK
    <3>4. BusyNotFree'
      <4> SUFFICES ASSUME lastStatus' = "busy", NEW c \in Region \ stray
                   PROVE  "free" \notin place'[c]
        BY <1>6 DEF BusyNotFree
      <4>1. thread[t].to = "busy"
        BY <1>1, <3>3 DEF SafeUpdate, Reporting, Status
      <4>2. CASE c = region[t]
        BY <1>0, <1>6, <3>3, <4>1, <4>2 DEF Reporting
      <4>3. CASE c # region[t]
        BY <1>6, <3>3, <4>3 DEF Reporting
      <4> QED BY <4>2, <4>3
    <3>5. ReportedIsFound'
      <4> SUFFICES ASSUME current \in open \cap (told \cup {t})
                   PROVE  lastStatus \in place'[region[current]]
        BY <1>6 DEF SafeUpdate, ReportedIsFound
      <4>1. lastStatus = thread[t].to /\ region[current] = region[t]
        BY <3>3 DEF Reporting
      <4> QED BY <1>6, <4>1
    <3>6. ReportOK' /\ RemovedIsUntold'
      BY <3>2 DEF ReportOK, RemovedIsUntold
    <3>7. hub' # "location"
      BY <1>1 DEF SafeUpdate, Positioned
    <3> QED BY <3>4, <3>5, <3>6, <3>7 DEF PlaceOK, OnlineIsFound
  <2> QED BY <2>1, <2>2
<1> QED BY <1>4, <1>7, <1>8 DEF IndInv

LEMMA ReportStep ==
  ASSUME IndInv, NEW n \in Links, NEW s \in Status, Report(n, s)
  PROVE  IndInv'
<1> DEFINE script == IF FreeIfNone = s THEN P1 ELSE P4
           first == [thread[n] EXCEPT !.todo = script]
           second == [first EXCEPT !.from = FreeIfNone]
           new == [second EXCEPT !.to = s]
<1>0. /\ n \in 0 .. newest /\ n # 0 /\ n \in Threads /\ thread[n] \in Mover
      /\ ~ Working(n) /\ hub \in Positioned
  BY LinksAreThreads
     DEF Report, Reads, Links, IndInv, ThreadOK, ThreadType, Mover, LiveTypeOK
<1>1. thread' = [thread EXCEPT ![n] = new]
  BY <1>0 DEF Report, Moving, P1, P4, IndInv, ThreadOK, ThreadType
<1>2. script \in Moves /\ script \in Moves \cup Seq(Ends)
  BY DEF Moves
<1>3. FreeIfNone \in Status
  BY DEF FreeIfNone, IndInv, LiveTypeOK, Status
<1>4. script = P1 => FreeIfNone = s
  BY MovesHeads
<1> HIDE DEF script
<1>5. first \in Mover /\ first.todo = script
  BY <1>0, <1>2 DEF Mover
<1> HIDE DEF first
<1>6. second \in Mover /\ second.todo = script /\ second.from = FreeIfNone
  BY <1>3, <1>5 DEF Mover
<1> HIDE DEF second
<1>7. new \in Mover /\ new.todo = script /\ new.from = FreeIfNone /\ new.to = s
  BY <1>6 DEF Mover
<1> HIDE DEF new
<1>8. /\ ThreadOK' /\ thread'[n] = new
      /\ \A o \in Threads \ {n} : /\ IsMoving(o)' <=> IsMoving(o)
                                  /\ Removes(o)' <=> Removes(o)
  BY <1>0, <1>1, <1>3, <1>7, OneThreadMoves DEF Report
<1>9. IsMoving(n)'
  BY <1>2, <1>7, <1>8 DEF IsMoving
<1>10. /\ mixed' \in BOOLEAN
       /\ ~ mixed' => ~ mixed /\ \A o \in Threads \ {n} : ~ IsMoving(o) /\ ~ Removes(o)
  BY <1>0, CrossedOK, AloneIfUnmixed DEF Report, Crossed
<1>11. /\ lastStatus' = s /\ told' \subseteq Links /\ stray' \subseteq Region
       /\ place' = place /\ place \in [Region -> SUBSET Status]
       /\ region' = region /\ region[n] \in Region /\ isOnline' = isOnline
  BY <1>0 DEF Report, IndInv, LiveTypeOK, Threads
<1>12. ~ mixed' => NoneMoves
  BY <1>0, <1>10, MovingWorks DEF NoneMoves, IndInv
<1>13. ~ mixed' /\ new.to = "busy" /\ region[n] \notin stray' /\ "free" \in place[region[n]] =>
          new.from = "free" /\ new.todo # P1
  <2> SUFFICES ASSUME ~ mixed', s = "busy", region[n] \notin stray, "free" \in place[region[n]]
               PROVE  FreeIfNone = "free" /\ script # P1
    BY <1>7 DEF Report
  <2>1. lastStatus # "busy"
    BY <1>0, <1>10, <1>11, <1>12 DEF IndInv, PlaceOK, BusyNotFree
  <2>2. FreeIfNone = "free"
    BY <1>3, <2>1 DEF FreeIfNone, Status
  <2> QED BY <1>4, <2>2
<1>14. ~ mixed' => Reporting(n)'
  <2> SUFFICES ASSUME ~ mixed' PROVE Reporting(n)'
    OBVIOUS
  <2>1. \A o \in Threads : IsMoving(o)' => o = n
    BY <1>8, <1>10
  <2>2. \A c \in Region \ (stray' \cup {region[n]}) : place[c] = {}
    BY DEF Report
  <2>3. \A m \in told' : region[m] = region[n]
    BY DEF Report
  <2> QED BY <1>7, <1>8, <1>11, <1>13, <2>1, <2>2, <2>3 DEF Report, Reporting
<1> QED BY <1>0, <1>8, <1>9, <1>10, <1>11, <1>14, ReportingKeeps DEF Report

LEMMA UpdateLocationStep ==
  ASSUME IndInv, NEW n \in Links, UpdateLocation(n)
  PROVE  IndInv'
<1>1. hub = "location" /\ hub' = hub /\ hub \notin Positioned
  BY DEF UpdateLocation, Positioned
<1>2. Steady
  BY ThreadsRest DEF UpdateLocation
<1>3. LiveTypeOK' /\ OneLiveConnection'
  BY <1>2, TypeKept DEF UpdateLocation, IndInv, LiveTypeOK, Steady
<1>4. NoneMoves'
  BY <1>1, <1>2 DEF IndInv, ThreadOK, NoneMoves, Steady
<1>5. ~ mixed' => current = n
  BY DEF UpdateLocation
<1>6. OnlineIsFound'
  BY <1>5 DEF UpdateLocation, OnlineIsFound
<1>7. PlaceOK'
  BY <1>1, <1>4, <1>6
     DEF PlaceOK, ReportOK, BusyNotFree, ReportedIsFound, RemovedIsUntold, NoneMoves
<1> QED BY <1>2, <1>3, <1>7 DEF IndInv, Steady
-----------------------------------------------------------------------------
(* Connections made, and all of them ended.                                *)

LEMMA ConnectStep ==
  ASSUME IndInv, NEW again, NEW c \in Region, Connect(again, c),
         again = lastStatus \/ (again = "free" /\ lastStatus = "none")
  PROVE  IndInv'
<1> DEFINE n == newest + 1
           new == [thread[n] EXCEPT !.on = n]
<1>0. /\ newest \in Nat /\ MaxLink \in Nat /\ newest < MaxLink
      /\ newest' = n /\ current' = n /\ open' = (open \ {current}) \cup {n}
      /\ lastStatus' = again
      /\ hub' = hub /\ place' = place /\ evicted' = evicted /\ told' = told
      /\ isOnline' = isOnline /\ stray' = stray /\ mixed' = mixed
      /\ region' = [region EXCEPT ![n] = c]
  BY LiveAssumption DEF Connect, IndInv, LiveTypeOK
<1>1. Links \subseteq Links' /\ n \in Links' /\ n \notin Links /\ n \in Threads
  BY <1>0 DEF Links, Threads
<1>2. n \notin open /\ n \notin told /\ n \notin evicted
  BY <1>1 DEF IndInv, LiveTypeOK
<1>3. 0 .. newest \subseteq 0 .. n /\ n \in 0 .. n
  BY <1>0
<1>4. thread' = [thread EXCEPT ![n] = new]
  BY <1>0, <1>1 DEF Connect, IndInv, ThreadOK, ThreadType
<1>5. /\ thread'[n] = new /\ \A t \in Threads \ {n} : thread'[t] = thread[t]
  BY <1>1, <1>4 DEF IndInv, ThreadOK, ThreadType
<1>6. thread[n] \in Mover
  BY <1>1 DEF IndInv, ThreadOK, ThreadType, Mover
<1>7. new \in Mover' /\ new.todo = thread[n].todo
      /\ new.from = thread[n].from /\ new.to = thread[n].to
  <2>1. new \in [todo : Moves \cup Seq(Ends), on : 0 .. n,
                 from : Status \cup {"none"}, to : Status \cup {"none"}]
    BY <1>0, <1>3, <1>6 DEF Mover
  <2>2. new.todo = thread[n].todo /\ new.from = thread[n].from /\ new.to = thread[n].to
    BY <1>6 DEF Mover
  <2> QED BY <1>0, <2>1, <2>2 DEF Mover
<1> HIDE DEF new
<1>8. \A t \in Threads :
        /\ thread'[t].todo = thread[t].todo
        /\ thread'[t].from = thread[t].from /\ thread'[t].to = thread[t].to
        /\ thread'[t] \in Mover'
  <2> TAKE t \in Threads
  <2>1. thread[t] \in Mover
    BY DEF IndInv, ThreadOK, ThreadType, Mover
  <2>2. thread[t] \in Mover'
    BY <1>0, <1>3, <2>1 DEF Mover
  <2> QED BY <1>5, <1>7, <2>1, <2>2
<1>9. \A t \in Threads : /\ IsMoving(t)' <=> IsMoving(t)
                         /\ Removes(t)' <=> Removes(t)
                         /\ Working(t)' <=> Working(t)
  BY <1>8 DEF IsMoving, Removes, Working
<1>10. ThreadOK'
  <2>1. ThreadType'
    BY <1>4, <1>8 DEF IndInv, ThreadOK, ThreadType, Mover
  <2>2. \A t \in Threads : Working(t)' => t <= newest'
    BY <1>0, <1>9 DEF IndInv, ThreadOK, Threads
  <2> QED BY <1>0, <1>8, <1>9, <2>1, <2>2 DEF IndInv, ThreadOK
<1>11. LiveTypeOK'
  <2>1. \A t \in 0 .. MaxLink :
          /\ thread'[t].on \in 0 .. newest'
          /\ thread'[t].from \in Status \cup {"none"} /\ thread'[t].to \in Status \cup {"none"}
    BY <1>10 DEF ThreadOK, ThreadType, Threads
  <2>2. newest' \in 0 .. MaxLink /\ current' \in 0 .. newest'
    BY <1>0, <1>3
  <2>3. lastStatus' \in Status \cup {"none"}
    BY <1>0 DEF IndInv, LiveTypeOK, Status
  <2>4. open' \subseteq Links' /\ told' \subseteq Links' /\ evicted' \subseteq Links'
    BY <1>0, <1>1 DEF IndInv, LiveTypeOK
  <2>5. region' \in [1 .. MaxLink -> Region]
    BY <1>0 DEF IndInv, LiveTypeOK
  <2> QED BY <1>0, <2>1, <2>2, <2>3, <2>4, <2>5 DEF IndInv, LiveTypeOK
<1>12. OneLiveConnection'
  BY <1>0 DEF IndInv, OneLiveConnection
<1>13. /\ \A t \in Threads : IsMoving(t) => t # n /\ t \in Links
       /\ \A m \in Links : region'[m] = region[m]
  <2>1. \A t \in Threads : IsMoving(t) => t <= newest /\ t # 0
    BY MovingWorks DEF IndInv, ThreadOK
  <2>2. \A m \in Links : m \in 1 .. MaxLink /\ m # n
    BY <1>0 DEF Links
  <2> QED BY <1>0, <2>1, <2>2 DEF Threads, IndInv, LiveTypeOK, Links
<1>14. ReportOK'
  <2> SUFFICES ASSUME ~ mixed, NEW t \in Threads, IsMoving(t)
               PROVE  Reporting(t)'
    BY <1>0, <1>9 DEF ReportOK
  <2>1. Reporting(t)
    BY DEF IndInv, PlaceOK, ReportOK
  <2>2. current' \notin told' \cup {t}
    BY <1>0, <1>2, <1>13
  <2>3. region'[t] = region[t] /\ \A m \in told : region'[m] = region[m]
    BY <1>13 DEF IndInv, LiveTypeOK
  <2> HIDE DEF n
  <2> QED BY <1>0, <1>8, <1>9, <2>1, <2>2, <2>3 DEF Reporting
<1>15. NoneMoves' <=> NoneMoves
  BY <1>9 DEF NoneMoves
<1>16. BusyNotFree'
  BY <1>0, <1>15 DEF IndInv, PlaceOK, BusyNotFree
<1>17. ReportedIsFound' /\ RemovedIsUntold' /\ OnlineIsFound'
  BY <1>0, <1>2 DEF ReportedIsFound, RemovedIsUntold, OnlineIsFound
<1> QED BY <1>10, <1>11, <1>12, <1>14, <1>16, <1>17 DEF IndInv, PlaceOK

LEMMA ServeStep ==
  ASSUME IndInv,
         \/ DriverServe \/ PassengerServe \/ CourierServe \/ SenderServe
         \/ ChatServe \/ LocationServe
  PROVE  IndInv'
<1>1. newest < MaxLink => region[newest + 1] \in Region
  BY LiveAssumption DEF IndInv, LiveTypeOK
<1>2. PICK again \in {FreeIfNone, lastStatus}, c \in Region : Connect(again, c)
  BY <1>1 DEF DriverServe, PassengerServe, CourierServe, SenderServe, ChatServe,
     LocationServe, ConnectsTo
<1> QED BY <1>2, ConnectStep DEF FreeIfNone

LEMMA StopStep ==
  ASSUME IndInv, Stop
  PROVE  IndInv'
<1>0. <<>> \in Seq(Ends) /\ <<>> \notin Moves
  <2>1. <<>> \in Seq(Ends)
    OBVIOUS
  <2> QED BY <2>1, MovesAreNotEnds
<1>1. \A t \in Threads : thread'[t] = Resting
  BY DEF Stop, Threads
<1>2. 0 \in 0 .. newest' /\ newest' = newest
  BY DEF Stop, IndInv, LiveTypeOK
<1>3. ThreadType'
  BY <1>0, <1>2 DEF Stop, ThreadType, Threads, Resting
<1>4. \A t \in Threads : ~ Working(t)' /\ ~ IsMoving(t)' /\ ~ Removes(t)'
  BY <1>0, <1>1 DEF Working, IsMoving, Removes, Resting
<1>5. ThreadOK'
  BY <1>3, <1>4 DEF ThreadOK
<1>6. LiveTypeOK'
  <2>1. \A t \in 0 .. MaxLink :
          /\ thread'[t].on \in 0 .. newest'
          /\ thread'[t].from \in Status \cup {"none"} /\ thread'[t].to \in Status \cup {"none"}
    BY <1>5 DEF ThreadOK, ThreadType, Threads
  <2>2. mixed' \in BOOLEAN
    BY DEF Stop, IndInv, LiveTypeOK
  <2> QED BY <1>2, <2>1, <2>2 DEF Stop, IndInv, LiveTypeOK, Links
<1>7. OneLiveConnection'
  BY DEF Stop, OneLiveConnection
<1>8. PlaceOK'
  BY <1>4 DEF Stop, PlaceOK, ReportOK, BusyNotFree, ReportedIsFound, RemovedIsUntold,
     OnlineIsFound
<1> QED BY <1>5, <1>6, <1>7, <1>8 DEF IndInv
-----------------------------------------------------------------------------
LEMMA Stutter ==
  ASSUME IndInv, UNCHANGED liveVars
  PROVE  IndInv'
<1>1. Steady
  BY ThreadsRest DEF liveVars
<1>2. Calm
  BY DEF liveVars, Calm, IndInv, LiveTypeOK
<1> QED BY <1>1, <1>2, CalmKeeps

LEMMA NextServes == IndInv /\ [LiveNext]_liveVars => IndInv'
<1> SUFFICES ASSUME IndInv, [LiveNext]_liveVars PROVE IndInv'
  OBVIOUS
<1>1. CASE \/ DriverServe \/ PassengerServe \/ CourierServe \/ SenderServe
           \/ ChatServe \/ LocationServe
  BY <1>1, ServeStep
<1>2. ASSUME NEW n \in Links, ReadFails(n)
      PROVE  IndInv'
  BY <1>2, ReadFailsStep
<1>3. ASSUME NEW n \in Links, NEW s \in Status, Report(n, s)
      PROVE  IndInv'
  BY <1>3, ReportStep
<1>4. ASSUME NEW n \in Links, UpdateLocation(n)
      PROVE  IndInv'
  BY <1>4, UpdateLocationStep
<1>5. ASSUME NEW n \in Links, PingFails(n) \/ WritePump(n)
      PROVE  IndInv'
  BY <1>5, DroppedStep
<1>6. ASSUME NEW t \in 0 .. newest, Unlist(t) \/ ZRem(t) \/ ClearLocation(t) \/ Gives(t)
      PROVE  IndInv'
  BY <1>6, UnlistStep, ZRemStep, ClearLocationStep, GivesStep
<1>7. ASSUME NEW t \in 0 .. newest,
             GeoPos(t) \/ GeoAdd(t) \/ ZRemFrom(t) \/ SafeUpdate(t)
      PROVE  IndInv'
  BY <1>7, GeoSteps, SafeUpdateStep
<1>8. CASE SafeWrite \/ Written
  BY <1>8, SafeWriteStep, WrittenStep
<1>9. CASE RunChat \/ Enqueue \/ Stop
  BY <1>9, DroppedStep, StopStep DEF RunChat, Enqueue
<1>10. CASE UNCHANGED liveVars
  BY <1>10, Stutter
<1> QED BY <1>1, <1>2, <1>3, <1>4, <1>5, <1>6, <1>7, <1>8, <1>9, <1>10 DEF LiveNext

THEOREM LiveInvariance == LiveSpec => []IndInv
<1>1. LiveInit => IndInv
  BY InitServes
<1>2. IndInv /\ [LiveNext]_liveVars => IndInv'
  BY NextServes
<1> QED BY <1>1, <1>2, PTL DEF LiveSpec

\* The variables of the live connections keep their types.
THEOREM LiveTypeCorrect == LiveSpec => []LiveTypeOK
<1>1. IndInv => LiveTypeOK
  BY DEF IndInv
<1> QED BY <1>1, LiveInvariance, PTL

\* However many connections a peer makes and loses, from whatever cities, the
\* open one is the one written to, and the peer is found where it last reported
\* to be; among the free of a city it left it may stay.
THEOREM LiveHubIsRight == LiveSpec => []LiveHubServes
<1>1. IndInv => PlaceFollowsStatus
  <2> SUFFICES ASSUME IndInv, Quiet0, ~ mixed
               PROVE  /\ hub \in Positioned /\ lastStatus = "busy" =>
                           \A c \in Region \ stray : "free" \notin place[c]
                      /\ hub \in Positioned /\ current \in open \cap told =>
                           lastStatus \in place[region[current]]
                      /\ hub = "location" /\ current \in open \cap told => isOnline
    BY DEF PlaceFollowsStatus
  <2>1. NoneMoves /\ NoneRemoves
    BY MovingWorks DEF Quiet0, NoneMoves, NoneRemoves, IndInv
  <2> QED BY <2>1 DEF IndInv, PlaceOK, BusyNotFree, ReportedIsFound, OnlineIsFound
<1>2. IndInv => LiveHubServes
  BY <1>1 DEF IndInv, LiveHubServes
<1> QED BY <1>2, LiveInvariance, PTL
=============================================================================
