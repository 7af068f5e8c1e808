------------------------ MODULE RealtimeChannelProofs ------------------------
(* Proofs about a channel of the client SDK (RealtimeChannel).               *)
EXTENDS RealtimeChannel, FiniteSetTheorems, SequenceTheorems, WellFoundedInduction, TLAPS

Answers == {"connected", "joined", "subscribed", "error"}
SessionRows == [level : {"new", "authenticated", "joined"}, served : Nat]
TimerOK(t) == t.armed \subseteq Timers /\ t.handle \in Timers \cup {0}

-----------------------------------------------------------------------------
(* The connection and what is said over it                                   *)

\* A channel with a socket that lives has no timer and no other socket; one
\* without waits for its timer, has given up, or is not wanted.
AllGone == \A s \in Sockets : ready[s] = "gone"
Connected ==
  /\ ready[ws] \in {"connecting", "open"} /\ \A s \in Sockets \ {ws} : ready[s] = "gone"
  /\ subscribed /\ state \in {"connecting", "connected", "reconnecting"} /\ retry.armed = {}
Waiting == /\ AllGone /\ subscribed /\ state = "reconnecting"
           /\ retry.armed = {retry.handle}
GivenUp == AllGone /\ subscribed /\ state = "closed" /\ retry.armed = {}
Unwanted == /\ \A s \in Sockets : ready[s] \in {"gone", "closing"}
            /\ ~subscribed /\ state \in {"disconnected", "closed"} /\ retry.armed = {}
OneWay == IF ws = NoSocket THEN Waiting \/ GivenUp \/ Unwanted ELSE Connected

\* The server answers one request at a time until it has joined the channel;
\* then the registrations it serves are those acknowledged and under way.
OneAnswer(a) == Len(down[ws]) = 1 /\ down[ws][1] = a
OnlyErrors == \A i \in 1 .. Len(down[ws]) : down[ws][i] = "error"
Registering ==
  /\ session[ws].level = "joined" /\ expected = Registrations
  /\ session[ws].served <= Registrations
  /\ \E k \in 0 .. Len(down[ws]) :
       /\ \A i \in 1 .. Len(down[ws]) : down[ws][i] = IF i <= k THEN "subscribed" ELSE "error"
       /\ acked + k = session[ws].served
Conversation ==
  /\ ready[ws] = "connecting" => down[ws] = <<>> /\ session[ws] = Stranger
  /\ state = "connected" => session[ws].level # "new"
  /\ \/ OnlyErrors
     \/ OneAnswer("connected") /\ session[ws] = [level |-> "authenticated", served |-> 0]
     \/ OneAnswer("joined") /\ session[ws] = [level |-> "joined", served |-> 0]
     \/ Registering

ChannelInv == TypeOK /\ (~overlapped => OneWay /\ (ws # NoSocket => Conversation))
-----------------------------------------------------------------------------
(* Types                                                                    *)

LEMMA TypesByName ==
  TypeOK <=>
    /\ ws \in Sockets \cup {NoSocket}
    /\ ready \in [Sockets -> {"gone", "connecting", "open", "closing"}]
    /\ down \in [Sockets -> Seq(Answers)] /\ session \in [Sockets -> SessionRows]
    /\ subscribed \in BOOLEAN /\ joined \in BOOLEAN /\ overlapped \in BOOLEAN
    /\ state \in {"disconnected", "connecting", "connected", "reconnecting", "closed"}
    /\ attempts \in 0 .. MaxReconnects /\ expected \in Nat /\ acked \in Nat
    /\ promise \in {"none", "pending", "resolved", "rejected"}
    /\ TimerOK(retry) /\ TimerOK(limit)
<1>1. Answers = {"connected", "joined", "subscribed", "error"}  BY DEF Answers
<1> QED  BY <1>1 DEF TypeOK, SessionRows, TimerOK

LEMMA TimersAreNumbers == Timers \subseteq Nat \ {0}
<1>1. Cardinality(Sockets) \in Nat
  BY SocketsAssumption, FS_CardinalityType DEF SocketsAssumption
<1> QED  BY <1>1 DEF Timers

\* The first name of a timer that is free.
LEMMA FirstFree ==
  ASSUME NEW A \in SUBSET Timers, A # Timers
  PROVE  \E n \in Timers : n \notin A /\ \A l \in 1 .. n - 1 : l \in A
<1> DEFINE free == Timers \ A
           Rel == OpToRel(<, Nat)
<1>1. free \subseteq Nat /\ free # {}  BY TimersAreNumbers
<1>2. PICK n \in free : \A m \in free : <<m, n>> \notin Rel
  BY <1>1, NatLessThanWellFounded, WFMin
<1>3. \A m \in free : <<m, n>> \in Rel <=> m < n  BY <1>1 DEF OpToRel
<1> HIDE DEF Rel
<1>4. \A m \in free : ~(m < n)  BY <1>2, <1>3, Zenon
<1>5. Cardinality(Sockets) \in Nat
  BY SocketsAssumption, FS_CardinalityType DEF SocketsAssumption
<1>6. ASSUME NEW l \in 1 .. n - 1  PROVE l \in A
  <2>1. l \in Timers /\ l < n  BY <1>5 DEF Timers
  <2> QED  BY <2>1, <1>4
<1> QED  BY <1>6

LEMMA TimersFit ==
  ASSUME NEW t, TimerOK(t)
  PROVE  /\ TimerOK(Cleared(t)) /\ \A n \in Timers : TimerOK(Fired(t, n)) /\ TimerOK(Cleared(Fired(t, n)))
         /\ t.armed # Timers => TimerOK(WithTimer(t)) /\ WithTimer(t).armed = t.armed \cup {WithTimer(t).handle}
<1>1. TimerOK(Cleared(t)) /\ \A n \in Timers : TimerOK(Fired(t, n)) /\ TimerOK(Cleared(Fired(t, n)))
  BY DEF TimerOK, Cleared, Fired
<1>2. ASSUME t.armed # Timers
      PROVE  TimerOK(WithTimer(t)) /\ WithTimer(t).armed = t.armed \cup {WithTimer(t).handle}
  <2> DEFINE First(n) == n \notin t.armed /\ \A l \in 1 .. n - 1 : l \in t.armed
  <2>1. \E n \in Timers : First(n)  BY <1>2, FirstFree DEF TimerOK
  <2>2. PICK n : n = CHOOSE k \in Timers : First(k)  OBVIOUS
  <2>3. n \in Timers  BY <2>1, <2>2
  <2>4. WithTimer(t) = [armed |-> t.armed \cup {n}, handle |-> n]  BY <2>2 DEF WithTimer
  <2> QED  BY <2>3, <2>4 DEF TimerOK
<1> QED  BY <1>1, <1>2

\* What Send leaves under way, and what the server has granted.
LEMMA Sent ==
  ASSUME NEW ask \in {"connect", "join", "subscribe"}, NEW n \in Nat,
         NEW pending \in [Sockets -> Seq(Answers)], ws \in Sockets,
         session \in [Sockets -> SessionRows], Send(ask, n, pending)
  PROVE  /\ down' \in [Sockets -> Seq(Answers)] /\ session' \in [Sockets -> SessionRows]
         /\ \A s \in Sockets \ {ws} : down'[s] = pending[s] /\ session'[s] = session[s]
         /\ \E bad \in 0 .. n :
              /\ ~ Granted(ask) => bad = n
              /\ IF bad = n THEN session' = session ELSE session' = Served(ask, n - bad)
              /\ pending[ws] = <<>> =>
                   /\ Len(down'[ws]) = n
                   /\ \A i \in 1 .. n :
                        down'[ws][i] = IF i <= n - bad THEN Answer(ask) ELSE "error"
<1>1. PICK bad \in 0 .. n :
        /\ IF Granted(ask) THEN bad + errors <= MaxErrors ELSE bad = n
        /\ down' = [pending EXCEPT ![ws] = @ \o [k \in 1 .. n - bad |-> Answer(ask)]
                                             \o [k \in 1 .. bad |-> "error"]]
        /\ session' = IF bad = n THEN session ELSE Served(ask, n - bad)
  BY DEF Send
<1> DEFINE yes == [k \in 1 .. n - bad |-> Answer(ask)]
           no == [k \in 1 .. bad |-> "error"]
           q == pending[ws]
<1>2. Answer(ask) \in Answers /\ "error" \in Answers /\ n - bad \in Nat /\ bad \in Nat
  BY DEF Answer, Answers
<1>3. yes \in Seq(Answers) /\ Len(yes) = n - bad  BY <1>2
<1>4. no \in Seq(Answers) /\ Len(no) = bad  BY <1>2
<1>5. q \in Seq(Answers)  OBVIOUS
<1>6. \A i \in 1 .. n - bad : yes[i] = Answer(ask)  OBVIOUS
<1>7. \A i \in 1 .. bad : no[i] = "error"  OBVIOUS
<1>8. down' = [pending EXCEPT ![ws] = q \o yes \o no]  BY <1>1
<1> HIDE DEF yes, no
<1>9. q \o yes \o no \in Seq(Answers)  BY <1>3, <1>4, <1>5
<1>10. /\ down' \in [Sockets -> Seq(Answers)] /\ down'[ws] = q \o yes \o no
       /\ \A s \in Sockets \ {ws} : down'[s] = pending[s]
  BY <1>8, <1>9
<1>11. /\ session' \in [Sockets -> SessionRows]
       /\ \A s \in Sockets \ {ws} : session'[s] = session[s]
  <2>1. CASE bad = n  BY <2>1, <1>1
  <2>2. CASE bad # n
    <3>1. session[ws] \in SessionRows  OBVIOUS
    <3>2. \A l \in {"authenticated", "joined"} : [session[ws] EXCEPT !.level = l] \in SessionRows
      BY <3>1 DEF SessionRows
    <3>3. \A v \in Nat : [session[ws] EXCEPT !.served = v] \in SessionRows
      BY <3>1 DEF SessionRows
    <3>5. session[ws].served + (n - bad) \in Nat  BY <3>1, <1>2 DEF SessionRows
    <3>4. session' = Served(ask, n - bad)  BY <2>2, <1>1
    <3> QED  BY <3>2, <3>3, <3>4, <3>5 DEF Served
  <2> QED  BY <2>1, <2>2
<1>12. ASSUME q = <<>>
       PROVE  /\ Len(down'[ws]) = n
              /\ \A i \in 1 .. n :
                   down'[ws][i] = IF i <= n - bad THEN Answer(ask) ELSE "error"
  <2>1. down'[ws] = yes \o no  BY <1>10, <1>12, <1>3, <1>4
  <2>2. Len(yes \o no) = n  BY <1>2, <1>3, <1>4
  <2>3. \A i \in 1 .. n - bad : (yes \o no)[i] = Answer(ask)  BY <1>2, <1>3, <1>4, <1>6
  <2>4. ASSUME NEW i \in 1 .. n, ~(i <= n - bad)  PROVE (yes \o no)[i] = "error"
    <3>1. i - (n - bad) \in 1 .. bad  BY <2>4, <1>2
    <3>0. i \in 1 .. Len(yes) + Len(no) /\ ~(i <= Len(yes))  BY <2>4, <1>2, <1>3, <1>4
    <3>2. (yes \o no)[i] = no[i - Len(yes)]  BY <3>0, <1>3, <1>4, ConcatProperties
    <3> QED  BY <3>1, <3>2, <1>3, <1>7
  <2>5. \A i \in 1 .. n : i <= n - bad => i \in 1 .. n - bad  BY <1>2
  <2> QED  BY <2>1, <2>2, <2>3, <2>4, <2>5
<1> QED  BY <1>1, <1>10, <1>11, <1>12


LEMMA Connects ==
  ASSUME TypeOK, Connect
  PROVE  /\ ws' \in Sockets /\ ready[ws'] = "gone"
         /\ ready' \in [Sockets -> {"gone", "connecting", "open", "closing"}]
         /\ ready'[ws'] = "connecting" /\ \A s \in Sockets \ {ws'} : ready'[s] = ready[s]
         /\ down' \in [Sockets -> Seq(Answers)] /\ down'[ws'] = <<>>
         /\ session' \in [Sockets -> SessionRows] /\ session'[ws'] = Stranger
<1> USE TypesByName
<1>1. PICK s : s = CHOOSE free \in Sockets : ready[free] = "gone"  OBVIOUS
<1>2. s \in Sockets /\ ready[s] = "gone"  BY <1>1 DEF Connect
<1>3. /\ ws' = s /\ ready' = [ready EXCEPT ![s] = "connecting"]
      /\ down' = [down EXCEPT ![s] = <<>>] /\ session' = [session EXCEPT ![s] = Stranger]
  BY <1>1 DEF Connect
<1>4. <<>> \in Seq(Answers) /\ Stranger \in SessionRows  BY DEF Stranger, SessionRows
<1>5. down' \in [Sockets -> Seq(Answers)] /\ down'[s] = <<>>  BY <1>2, <1>3, <1>4
<1>6. session' \in [Sockets -> SessionRows] /\ session'[s] = Stranger  BY <1>2, <1>3, <1>4
<1> QED  BY <1>2, <1>3, <1>5, <1>6

\* Receive takes the first answer.
LEMMA Taken ==
  ASSUME TypeOK, NEW s \in Sockets, down[s] # <<>>
  PROVE  /\ [down EXCEPT ![s] = Tail(@)] \in [Sockets -> Seq(Answers)]
         /\ Head(down[s]) = down[s][1] /\ Len(down[s]) \in Nat \ {0}
         /\ Len([down EXCEPT ![s] = Tail(@)][s]) = Len(down[s]) - 1
         /\ \A i \in 1 .. Len(down[s]) - 1 : [down EXCEPT ![s] = Tail(@)][s][i] = down[s][i + 1]
         /\ \A q \in Sockets \ {s} : [down EXCEPT ![s] = Tail(@)][q] = down[q]
<1>1. down \in [Sockets -> Seq(Answers)]  BY TypesByName
<1>2. down[s] \in Seq(Answers) /\ down[s] # <<>>  BY <1>1
<1>3. /\ Tail(down[s]) \in Seq(Answers) /\ Head(down[s]) = down[s][1] /\ Len(down[s]) \in Nat \ {0}
      /\ Len(Tail(down[s])) = Len(down[s]) - 1
      /\ \A i \in 1 .. Len(down[s]) - 1 : Tail(down[s])[i] = down[s][i + 1]
  BY <1>2
<1> QED  BY <1>1, <1>3

LEMMA SettleFits ==
  ASSUME TypeOK, NEW o \in {"resolved", "rejected"}, Settle(o) \/ UNCHANGED <<limit, promise>>
  PROVE  TimerOK(limit)' /\ promise' \in {"none", "pending", "resolved", "rejected"}
<1>1. TimerOK(limit) /\ promise \in {"none", "pending", "resolved", "rejected"}  BY TypesByName
<1>2. CASE Settle(o)
  <2>1. TimerOK(Cleared(limit))  BY <1>1, TimersFit
  <2> QED  BY <2>1, <1>1, <1>2 DEF Settle, TimerOK
<1>3. CASE UNCHANGED <<limit, promise>>  BY <1>1, <1>3 DEF TimerOK
<1> QED  BY <1>2, <1>3

LEMMA ClosedFits ==
  ASSUME TypeOK, NEW s \in Sockets, Closed(s)  PROVE TypeOK'
<1> USE TypesByName
<1>1. ready' \in [Sockets -> {"gone", "connecting", "open", "closing"}] /\ ws' = NoSocket
  BY DEF Closed
<1>2. <<>> \in Seq(Answers) /\ Stranger \in SessionRows  BY DEF Stranger, SessionRows
<1>3. down' \in [Sockets -> Seq(Answers)]  BY <1>2 DEF Closed
<1>4. session' \in [Sockets -> SessionRows]  BY <1>2 DEF Closed
<1>5. /\ state' \in {"disconnected", "connecting", "connected", "reconnecting", "closed"}
      /\ attempts' \in 0 .. MaxReconnects /\ TimerOK(retry)'
  <2>1. CASE UNCHANGED <<attempts, retry>> /\ state' \in {"disconnected", "closed"}
    BY <2>1 DEF TimerOK
  <2>2. CASE ~Exhausted /\ state' = "reconnecting" /\ attempts' = attempts + 1 /\ Armed(retry)
    <3>1. attempts + 1 \in 0 .. MaxReconnects  BY <2>2, CountsAssumption DEF Exhausted, CountsAssumption
    <3>2. TimerOK(WithTimer(retry))  BY <2>2, TimersFit DEF Armed
    <3> QED  BY <2>2, <3>1, <3>2 DEF Armed, TimerOK
  <2> QED  BY <2>1, <2>2 DEF Closed, ScheduleReconnect
<1>6. UNCHANGED <<subscribed, joined, expected, acked, promise, limit, overlapped>>
  BY DEF Closed, ack
<1>7. TimerOK(limit)'  BY <1>6 DEF TimerOK
<1> QED  BY <1>1, <1>3, <1>4, <1>5, <1>6, <1>7 DEF TypeOK, Answers, SessionRows, TimerOK

LEMMA ReceiveFits ==
  ASSUME TypeOK, NEW s \in Sockets, Receive(s)  PROVE TypeOK'
<1> USE TypesByName
<1> DEFINE rest == [down EXCEPT ![s] = Tail(@)]
<1>1. rest \in [Sockets -> Seq(Answers)]  BY Taken DEF Receive
<1>2. UNCHANGED <<ws, ready, subscribed, attempts, retry, overlapped>>  BY DEF Receive, link
<1>3. \/ OnConnected(rest) \/ OnJoined(rest) \/ OnSubscribed(rest) \/ OnError(rest)
  BY DEF Receive
<1> HIDE DEF rest
<1>4. ASSUME NEW ask \in {"connect", "join", "subscribe"}, NEW n \in Nat, ws # NoSocket, Send(ask, n, rest)
      PROVE  down' \in [Sockets -> Seq(Answers)] /\ session' \in [Sockets -> SessionRows]
  BY <1>1, <1>4, Sent
<1>5. ASSUME SendNothing(rest)
      PROVE  down' \in [Sockets -> Seq(Answers)] /\ session' \in [Sockets -> SessionRows]
  BY <1>1, <1>5 DEF SendNothing
<1>6. CountsAssumption  BY CountsAssumption
<1>7. /\ down' \in [Sockets -> Seq(Answers)] /\ session' \in [Sockets -> SessionRows]
      /\ state' \in {"disconnected", "connecting", "connected", "reconnecting", "closed"}
      /\ joined' \in BOOLEAN /\ expected' \in Nat /\ acked' \in Nat
      /\ TimerOK(limit)' /\ promise' \in {"none", "pending", "resolved", "rejected"}
  <2>1. CASE OnConnected(rest)
    <3>1. UNCHANGED <<joined, expected, acked, promise, limit>>  BY <2>1 DEF OnConnected, ack
    <3>2. \/ SendNothing(rest) /\ UNCHANGED state
          \/ state' = "connected" /\ SendNothing(rest)
          \/ state' = "connected" /\ ws # NoSocket /\ Send("join", 1, rest)
      BY <2>1 DEF OnConnected
    <3>3. down' \in [Sockets -> Seq(Answers)] /\ session' \in [Sockets -> SessionRows]
      BY <3>2, <1>4, <1>5
    <3> QED  BY <3>1, <3>2, <3>3, SettleFits
  <2>2. CASE OnJoined(rest)
    <3>1. UNCHANGED state /\ joined' = TRUE /\ expected' = Registrations /\ acked' = 0
      BY <2>2 DEF OnJoined
    <3>2. \/ SendNothing(rest)
          \/ ws # NoSocket /\ Send("subscribe", Registrations, rest)
      BY <2>2 DEF OnJoined
    <3>3. down' \in [Sockets -> Seq(Answers)] /\ session' \in [Sockets -> SessionRows]
      BY <3>2, <1>4, <1>5, <1>6 DEF CountsAssumption
    <3>4. Settle("resolved") \/ UNCHANGED <<limit, promise>>
      BY <2>2 DEF OnJoined, ResolveIfReady
    <3> QED  BY <3>1, <3>3, <3>4, <1>6, SettleFits DEF CountsAssumption
  <2>3. CASE OnSubscribed(rest)
    <3>1. UNCHANGED <<state, joined, expected>> /\ acked' = acked + 1 /\ SendNothing(rest)
      BY <2>3 DEF OnSubscribed
    <3>2. Settle("resolved") \/ UNCHANGED <<limit, promise>>
      BY <2>3 DEF OnSubscribed, ResolveIfReady
    <3> QED  BY <3>1, <3>2, <1>5, SettleFits
  <2>4. CASE OnError(rest)
    <3>1. UNCHANGED <<state, joined, expected, acked>> /\ SendNothing(rest)
      BY <2>4 DEF OnError, ack
    <3>2. Settle("rejected") \/ UNCHANGED <<limit, promise>>  BY <2>4 DEF OnError
    <3> QED  BY <3>1, <3>2, <1>5, SettleFits
  <2> QED  BY <1>3, <2>1, <2>2, <2>3, <2>4
<1>8. TimerOK(retry)'  BY <1>2 DEF TimerOK
<1> QED  BY <1>2, <1>7, <1>8 DEF TypeOK, Answers, SessionRows, TimerOK

LEMMA TypeStep == TypeOK /\ [Next]_vars => TypeOK'
<1> USE TypesByName
<1> SUFFICES ASSUME TypeOK, [Next]_vars  PROVE TypeOK'
  OBVIOUS
<1>1. CASE Subscribe
  <2>1. /\ overlapped' \in BOOLEAN /\ subscribed' = TRUE /\ state' = "connecting" /\ promise' = "pending"
        /\ UNCHANGED <<attempts, joined, expected, acked, retry, limit>> /\ Connect
    BY <1>1 DEF Subscribe, ack, timers
  <2>2. TimerOK(retry)' /\ TimerOK(limit)'  BY <2>1 DEF TimerOK
  <2> QED  BY <2>1, <2>2, Connects DEF TypeOK, Answers, SessionRows, TimerOK
<1>2. CASE Unsubscribe
  <2>1. /\ subscribed' = FALSE /\ joined' = FALSE /\ state' = "closed" /\ ws' = NoSocket
        /\ retry' = Cleared(retry) /\ limit' = Cleared(limit)
        /\ ready' \in [Sockets -> {"gone", "connecting", "open", "closing"}]
        /\ UNCHANGED <<down, session, attempts, expected, acked, promise, overlapped>>
    BY <1>2 DEF Unsubscribe, server
  <2>2. TimerOK(Cleared(retry)) /\ TimerOK(Cleared(limit))  BY TimersFit
  <2>3. TimerOK(retry)' /\ TimerOK(limit)'  BY <2>1, <2>2 DEF TimerOK
  <2> QED  BY <2>1, <2>3 DEF TypeOK, Answers, SessionRows, TimerOK
<1>3. ASSUME NEW s \in Sockets, Opened(s)  PROVE TypeOK'
  <2>1. /\ ready' \in [Sockets -> {"gone", "connecting", "open", "closing"}]
        /\ state' = "connecting" /\ attempts' = 0
        /\ UNCHANGED <<ws, subscribed, joined, expected, acked, promise, retry, overlapped>>
    BY <1>3 DEF Opened, ack
  <2>2. \/ SendNothing(down)
        \/ ws # NoSocket /\ Send("connect", 1, down)
    BY <1>3 DEF Opened
  <2>3. down' \in [Sockets -> Seq(Answers)] /\ session' \in [Sockets -> SessionRows]
    <3>1. CASE SendNothing(down)  BY <3>1 DEF SendNothing
    <3>2. CASE ws # NoSocket /\ Send("connect", 1, down)  BY <3>2, Sent
    <3> QED  BY <2>2, <3>1, <3>2
  <2>4. TimerOK(limit)' /\ TimerOK(retry)'
    <3>1. \/ UNCHANGED limit
          \/ limit.armed # Timers /\ limit' = WithTimer(limit)
      BY <1>3 DEF Opened, ArmLimit, Armed
    <3>2. limit.armed # Timers => TimerOK(WithTimer(limit))  BY TimersFit
    <3> QED  BY <2>1, <3>1, <3>2 DEF TimerOK
  <2>5. 0 \in 0 .. MaxReconnects  BY CountsAssumption DEF CountsAssumption
  <2> QED  BY <2>1, <2>3, <2>4, <2>5 DEF TypeOK, Answers, SessionRows, TimerOK
<1>4. ASSUME NEW s \in Sockets, CloseEvent(s) \/ Drop(s)  PROVE TypeOK'
  BY <1>4, ClosedFits DEF CloseEvent, Drop
<1>5. ASSUME NEW n \in Timers, RetryFires(n)  PROVE TypeOK'
  <2>1. /\ UNCHANGED <<subscribed, state, attempts, joined, expected, acked, promise, limit, overlapped>>
        /\ retry' = Fired(retry, n) /\ Connect
    BY <1>5 DEF RetryFires, ack
  <2>2. TimerOK(Fired(retry, n))  BY TimersFit
  <2>3. TimerOK(retry)' /\ TimerOK(limit)'  BY <2>1, <2>2 DEF TimerOK
  <2> QED  BY <2>1, <2>3, Connects DEF TypeOK, Answers, SessionRows, TimerOK
<1>6. ASSUME NEW n \in Timers, LimitFires(n)  PROVE TypeOK'
  <2>1. /\ UNCHANGED <<ws, ready, down, session, subscribed, state, attempts, joined, expected, acked,
                       retry, overlapped>>
        /\ limit' = Cleared(Fired(limit, n)) /\ promise' \in {promise, "rejected"}
    BY <1>6 DEF LimitFires, link, server, ack
  <2>2. TimerOK(Cleared(Fired(limit, n)))  BY TimersFit
  <2>3. TimerOK(retry)' /\ TimerOK(limit)'  BY <2>1, <2>2 DEF TimerOK
  <2> QED  BY <2>1, <2>3 DEF TypeOK, Answers, SessionRows, TimerOK
<1>7. CASE UNCHANGED vars
  BY <1>7 DEF vars, link, server, ack, timers, TypeOK
<1> QED  BY <1>1, <1>2, <1>3, <1>4, <1>5, <1>6, <1>7, ReceiveFits DEF Next

LEMMA TypeInit == Init => TypeOK
<1> SUFFICES ASSUME Init  PROVE TypeOK
  OBVIOUS
<1>1. TimerOK(NoTimer) /\ Stranger \in SessionRows /\ 0 \in 0 .. MaxReconnects
  BY CountsAssumption DEF TimerOK, NoTimer, Stranger, SessionRows, CountsAssumption
<1>2. down \in [Sockets -> Seq(Answers)] /\ session \in [Sockets -> SessionRows]
  BY <1>1 DEF Init
<1> QED  BY <1>1, <1>2, TypesByName DEF Init

\* The fields of the channel, its sockets and timers and what is under way have
\* the values the class gives them, whatever overlaps.
THEOREM ChannelTypesCorrect == Spec => []TypeOK
<1> QED  BY TypeInit, TypeStep, PTL DEF Spec

-----------------------------------------------------------------------------
(* One connection                                                           *)

\* A socket that opens, that answers or that is lost is this.ws; one that is
\* closing belongs to an unwanted channel.
LEMMA WhoseSocket ==
  ASSUME TypeOK, OneWay, NEW s \in Sockets
  PROVE  /\ ready[s] \in {"connecting", "open"} => ws = s /\ ws # NoSocket /\ Connected
         /\ ready[s] = "closing" => ws = NoSocket /\ Unwanted
BY DEF OneWay, Connected, Waiting, GivenUp, Unwanted, AllGone

\* A connection made when there is no other socket and no timer.
LEMMA ConnectsAlone ==
  ASSUME TypeOK, AllGone, Connect, retry'.armed = {}, subscribed', state' \in {"connecting", "reconnecting"}
  PROVE  OneWay' /\ (ws # NoSocket)' /\ Conversation'
<1>1. /\ ws' \in Sockets /\ ready'[ws'] = "connecting" /\ \A s \in Sockets \ {ws'} : ready'[s] = "gone"
      /\ down'[ws'] = <<>> /\ session'[ws'] = Stranger
  BY Connects DEF AllGone
<1>2. ws' # NoSocket  BY <1>1, SocketsAssumption DEF SocketsAssumption
<1>3. Connected'  BY <1>1 DEF Connected
<1>4. \A i \in 1 .. Len(down'[ws']) : down'[ws'][i] = "error"  BY <1>1
<1>5. Conversation'  BY <1>1, <1>4 DEF Conversation, OnlyErrors
<1> QED  BY <1>2, <1>3, <1>5 DEF OneWay

LEMMA LostLeavesOneWay ==
  ASSUME TypeOK, OneWay, NEW s \in Sockets, CloseEvent(s) \/ Drop(s)
  PROVE  OneWay' /\ ws' = NoSocket
<1>1. Closed(s)  BY DEF CloseEvent, Drop
<1>2. /\ ws' = NoSocket /\ ready' = [ready EXCEPT ![s] = "gone"] /\ UNCHANGED subscribed
      /\ ready \in [Sockets -> {"gone", "connecting", "open", "closing"}]
  BY <1>1, TypesByName DEF Closed
<1>3. CASE ready[s] = "closing"
  <2>1. Unwanted  BY <1>3, WhoseSocket
  <2>2. state' = "disconnected" /\ UNCHANGED retry  BY <1>1, <2>1 DEF Closed, Unwanted, Wanted
  <2>3. \A q \in Sockets : ready'[q] \in {"gone", "closing"}  BY <1>2, <2>1 DEF Unwanted
  <2> QED  BY <1>2, <2>1, <2>2, <2>3 DEF OneWay, Unwanted
<1>4. CASE ready[s] \in {"connecting", "open"}
  <2>1. ws = s /\ Connected  BY <1>4, WhoseSocket
  <2>2. \A q \in Sockets : ready'[q] = "gone"  BY <1>2, <2>1 DEF Connected
  <2>3. subscribed' /\ ScheduleReconnect  BY <1>1, <1>2, <2>1 DEF Closed, Wanted, Connected
  <2>4. CASE Exhausted
    <3>1. state' = "closed" /\ UNCHANGED retry  BY <2>3, <2>4 DEF ScheduleReconnect
    <3>2. GivenUp'  BY <2>1, <2>2, <2>3, <3>1 DEF GivenUp, AllGone, Connected
    <3> QED  BY <1>2, <3>2 DEF OneWay
  <2>5. CASE ~Exhausted
    <3>1. state' = "reconnecting" /\ retry.armed # Timers /\ retry' = WithTimer(retry)
      BY <2>3, <2>5 DEF ScheduleReconnect, Armed
    <3>2. retry'.armed = retry.armed \cup {retry'.handle}  BY <3>1, TypesByName, TimersFit
    <3>3. retry'.armed = {retry'.handle}  BY <3>2, <2>1 DEF Connected
    <3>4. Waiting'  BY <2>2, <2>3, <3>1, <3>3 DEF Waiting, AllGone
    <3> QED  BY <1>2, <3>4 DEF OneWay
  <2> QED  BY <2>4, <2>5
<1> QED  BY <1>3, <1>4 DEF CloseEvent, Drop, Live

LEMMA UnsubscribeLeavesOneWay ==
  ASSUME TypeOK, OneWay, Unsubscribe  PROVE OneWay' /\ ws' = NoSocket
<1>1. /\ subscribed /\ subscribed' = FALSE /\ state' = "closed" /\ ws' = NoSocket
      /\ retry' = Cleared(retry)
      /\ ready' = IF ws = NoSocket THEN ready ELSE [ready EXCEPT ![ws] = "closing"]
      /\ ready \in [Sockets -> {"gone", "connecting", "open", "closing"}] /\ ws \in Sockets \cup {NoSocket}
  BY TypesByName DEF Unsubscribe
<1>2. retry'.armed = {}
  BY <1>1 DEF OneWay, Connected, Waiting, GivenUp, Unwanted, Cleared
<1>3. \A s \in Sockets : ready'[s] \in {"gone", "closing"}
  BY <1>1 DEF OneWay, Connected, Waiting, GivenUp, Unwanted, AllGone
<1> QED  BY <1>1, <1>2, <1>3 DEF OneWay, Unwanted

-----------------------------------------------------------------------------
(* What is said over it                                                     *)

LEMMA OpenedAsks ==
  ASSUME TypeOK, OneWay, ws # NoSocket => Conversation, NEW s \in Sockets, Opened(s)
  PROVE  OneWay' /\ ws' # NoSocket /\ Conversation'
<1>1. ws = s /\ ws # NoSocket /\ Connected  BY WhoseSocket DEF Opened
<1>2. /\ ready' = [ready EXCEPT ![ws] = "open"] /\ state' = "connecting"
      /\ UNCHANGED <<ws, subscribed, retry>> /\ Send("connect", 1, down)
  BY <1>1 DEF Opened
<1>3. /\ ready \in [Sockets -> {"gone", "connecting", "open", "closing"}]
      /\ down \in [Sockets -> Seq(Answers)] /\ session \in [Sockets -> SessionRows]
      /\ ws \in Sockets
  BY <1>1, TypesByName
<1>4. ready'[ws] = "open" /\ \A q \in Sockets \ {ws} : ready'[q] = "gone"
  BY <1>1, <1>2, <1>3 DEF Connected
<1>5. Connected'  BY <1>1, <1>2, <1>4 DEF Connected
<1>6. down[ws] = <<>> /\ session[ws] = Stranger  BY <1>1 DEF Conversation, Opened
<1>a. "connect" \in {"connect", "join", "subscribe"} /\ 1 \in Nat  OBVIOUS
<1>b. Send("connect", 1, down)  BY <1>2
<1>7. PICK bad \in 0 .. 1 :
        /\ ~ Granted("connect") => bad = 1
        /\ IF bad = 1 THEN session' = session ELSE session' = Served("connect", 1 - bad)
        /\ down[ws] = <<>> =>
             /\ Len(down'[ws]) = 1
             /\ \A i \in 1 .. 1 : down'[ws][i] = IF i <= 1 - bad THEN Answer("connect") ELSE "error"
  BY <1>a, <1>b, <1>3, Sent
<1>8. CASE bad = 1
  <2>1. Len(down'[ws']) = 1 /\ down'[ws'][1] = "error"  BY <1>2, <1>6, <1>7, <1>8
  <2>2. OnlyErrors'  BY <2>1 DEF OnlyErrors
  <2> QED  BY <1>1, <1>2, <1>4, <1>5, <2>2 DEF OneWay, Conversation
<1>9. CASE bad = 0
  <2>1. Len(down'[ws']) = 1 /\ down'[ws'][1] = "connected"
    BY <1>2, <1>6, <1>7, <1>9 DEF Answer
  <2>2. session'[ws'] = [level |-> "authenticated", served |-> 0]
    BY <1>1, <1>2, <1>3, <1>6, <1>7, <1>9 DEF Served, Stranger
  <2> QED  BY <1>1, <1>2, <1>4, <1>5, <2>1, <2>2 DEF OneWay, Conversation, OneAnswer
<1> QED  BY <1>7, <1>8, <1>9


Joined == [level |-> "joined", served |-> Registrations]

\* An answer on the one connection: what is under way stays as the server has
\* granted it, and a subscribe() that resolves is served.
LEMMA ReceiveKeepsConversation ==
  ASSUME TypeOK, OneWay, ws # NoSocket => Conversation, NEW s \in Sockets, Receive(s)
  PROVE  /\ OneWay' /\ ws' = ws /\ ws # NoSocket /\ Conversation'
         /\ promise = "pending" /\ promise' = "resolved" => session[ws] = Joined
<1> DEFINE rest == [down EXCEPT ![s] = Tail(@)]
<1>1. ws = s /\ ws # NoSocket /\ Connected /\ ready[ws] = "open" /\ Conversation
  BY WhoseSocket DEF Receive
<1>2. /\ rest \in [Sockets -> Seq(Answers)] /\ Len(down[ws]) \in Nat \ {0}
      /\ Head(down[ws]) = down[ws][1] /\ Len(rest[ws]) = Len(down[ws]) - 1
      /\ \A i \in 1 .. Len(down[ws]) - 1 : rest[ws][i] = down[ws][i + 1]
  BY <1>1, Taken DEF Receive
<1>3. /\ down \in [Sockets -> Seq(Answers)] /\ session \in [Sockets -> SessionRows]
      /\ ws \in Sockets /\ acked \in Nat /\ Registrations \in Nat
  BY <1>1, TypesByName, CountsAssumption DEF CountsAssumption
<1>4. UNCHANGED <<ws, ready, subscribed, retry>>  BY DEF Receive, link
<1>5. \/ down[ws][1] = "connected" /\ OnConnected(rest)
      \/ down[ws][1] = "joined" /\ OnJoined(rest)
      \/ down[ws][1] = "subscribed" /\ OnSubscribed(rest)
      \/ down[ws][1] = "error" /\ OnError(rest)
  BY <1>1, <1>2 DEF Receive
<1> HIDE DEF rest
<1>6. session[ws] \in SessionRows  BY <1>3
<1>7. state # "closed" /\ ~Throws  BY <1>1 DEF Connected, Throws
<1>8. state' \in {state, "connected"}
  BY <1>5 DEF OnConnected, OnJoined, OnSubscribed, OnError
<1>9. Connected' /\ OneWay'  BY <1>1, <1>4, <1>8 DEF Connected, OneWay
<1>10. rest[ws] \in Seq(Answers) /\ (Len(down[ws]) = 1 => rest[ws] = <<>>)
  <2>1. rest[ws] \in Seq(Answers)  BY <1>2, <1>3
  <2> QED  BY <2>1, <1>2
<1>11. CASE down[ws][1] = "error" /\ OnError(rest)
  <2>1. \A i \in 1 .. Len(down[ws]) : down[ws][i] = "error"
    <3>1. 1 \in 1 .. Len(down[ws])  BY <1>2
    <3>2. CASE OnlyErrors  BY <3>2 DEF OnlyErrors
    <3>3. CASE Registering
      <4>1. PICK k \in 0 .. Len(down[ws]) :
              \A i \in 1 .. Len(down[ws]) : down[ws][i] = IF i <= k THEN "subscribed" ELSE "error"
        BY <3>3 DEF Registering
      <4>2. ~(1 <= k)  BY <3>1, <4>1, <1>11
      <4> QED  BY <4>1, <4>2, <1>2
    <3> QED  BY <3>2, <3>3, <1>1, <1>11 DEF Conversation, OneAnswer
  <2>2. /\ down' = rest /\ UNCHANGED <<session, state>>
        /\ promise' \in {promise, "rejected"}
    BY <1>11 DEF OnError, SendNothing, Settle
  <2>3. OnlyErrors'
    <3>1. \A i \in 1 .. Len(rest[ws]) : i \in 1 .. Len(down[ws]) - 1 /\ i + 1 \in 1 .. Len(down[ws])  BY <1>2
    <3>2. \A i \in 1 .. Len(rest[ws]) : rest[ws][i] = "error"  BY <3>1, <2>1, <1>2
    <3> QED  BY <3>2, <2>2, <1>4 DEF OnlyErrors
  <2>4. Conversation'  BY <1>1, <1>4, <2>2, <2>3 DEF Conversation
  <2> QED  BY <1>1, <1>4, <1>9, <2>2, <2>4
<1>12. CASE down[ws][1] = "connected" /\ OnConnected(rest)
  <2>1. OneAnswer("connected") /\ session[ws] = [level |-> "authenticated", served |-> 0]
    <3>1. 1 \in 1 .. Len(down[ws])  BY <1>2
    <3>2. ~OnlyErrors /\ ~OneAnswer("joined") /\ ~Registering
      BY <3>1, <1>12 DEF OnlyErrors, OneAnswer, Registering
    <3> QED  BY <3>2, <1>1 DEF Conversation
  <2>2. rest[ws] = <<>>  BY <2>1, <1>10 DEF OneAnswer
  <2>3. Send("join", 1, rest) /\ state' = "connected" /\ UNCHANGED promise
    BY <1>1, <1>7, <1>12 DEF OnConnected
  <2>4. "join" \in {"connect", "join", "subscribe"} /\ 1 \in Nat  OBVIOUS
  <2>a. Send("join", 1, rest)  BY <2>3
  <2>b. rest \in [Sockets -> Seq(Answers)]  BY <1>2
  <2>5. PICK bad \in 0 .. 1 :
          /\ ~ Granted("join") => bad = 1
          /\ IF bad = 1 THEN session' = session ELSE session' = Served("join", 1 - bad)
          /\ rest[ws] = <<>> =>
               /\ Len(down'[ws]) = 1
               /\ \A i \in 1 .. 1 : down'[ws][i] = IF i <= 1 - bad THEN Answer("join") ELSE "error"
    BY <2>4, <2>a, <2>b, <1>3, Sent
  <2>6. CASE bad = 1
    <3>1. Len(down'[ws']) = 1 /\ down'[ws'][1] = "error"  BY <1>4, <2>2, <2>5, <2>6
    <3>2. OnlyErrors'  BY <3>1 DEF OnlyErrors
    <3> QED  BY <1>1, <1>4, <1>9, <2>1, <2>3, <2>5, <2>6, <3>2 DEF Conversation
  <2>7. CASE bad = 0
    <3>1. Len(down'[ws']) = 1 /\ down'[ws'][1] = "joined"
      BY <1>4, <2>2, <2>5, <2>7 DEF Answer
    <3>2. session'[ws'] = [level |-> "joined", served |-> 0]
      BY <1>3, <1>4, <2>1, <2>5, <2>7 DEF Served
    <3> QED  BY <1>1, <1>4, <1>9, <2>3, <3>1, <3>2 DEF Conversation, OneAnswer
  <2> QED  BY <2>5, <2>6, <2>7
<1>13. CASE down[ws][1] = "joined" /\ OnJoined(rest)
  <2>1. OneAnswer("joined") /\ session[ws] = [level |-> "joined", served |-> 0]
    <3>1. 1 \in 1 .. Len(down[ws])  BY <1>2
    <3>2. ~OnlyErrors /\ ~OneAnswer("connected") /\ ~Registering
      BY <3>1, <1>13 DEF OnlyErrors, OneAnswer, Registering
    <3> QED  BY <3>2, <1>1 DEF Conversation
  <2>2. rest[ws] = <<>>  BY <2>1, <1>10 DEF OneAnswer
  <2>3. /\ Send("subscribe", Registrations, rest) /\ UNCHANGED state
        /\ expected' = Registrations /\ acked' = 0
        /\ ResolveIfReady(TRUE, 0, Registrations)
    BY <1>1, <1>7, <1>13 DEF OnJoined
  <2>4. "subscribe" \in {"connect", "join", "subscribe"}  OBVIOUS
  <2>5. PICK bad \in 0 .. Registrations :
          /\ ~ Granted("subscribe") => bad = Registrations
          /\ IF bad = Registrations THEN session' = session
             ELSE session' = Served("subscribe", Registrations - bad)
          /\ rest[ws] = <<>> =>
               /\ Len(down'[ws]) = Registrations
               /\ \A i \in 1 .. Registrations :
                    down'[ws][i] = IF i <= Registrations - bad THEN Answer("subscribe") ELSE "error"
    BY <2>3, <2>4, <1>2, <1>3, Sent
  <2>6. session'[ws] = [level |-> "joined", served |-> Registrations - bad]
    <3>1. CASE bad = Registrations  BY <3>1, <2>1, <2>5
    <3>2. CASE bad # Registrations
      <4>1. session' = [session EXCEPT ![ws].served = @ + (Registrations - bad)]
        BY <3>2, <2>5 DEF Served
      <4> QED  BY <4>1, <2>1, <1>3
    <3> QED  BY <3>1, <3>2
  <2>7. \A i \in 1 .. Registrations :
          down'[ws][i] = IF i <= Registrations - bad THEN "subscribed" ELSE "error"
    BY <2>2, <2>5 DEF Answer
  <2>8. Registering'
    <3>1. Registrations - bad \in 0 .. Len(down'[ws'])  BY <1>3, <1>4, <2>2, <2>5
    <3>2. session'[ws'].served = Registrations - bad /\ session'[ws'].level = "joined"
      BY <1>4, <2>6
    <3>3. acked' + (Registrations - bad) = session'[ws'].served  BY <2>3, <3>2, <1>3
    <3>4. Len(down'[ws']) = Registrations  BY <1>4, <2>2, <2>5
    <3>5. \A i \in 1 .. Len(down'[ws']) :
            down'[ws'][i] = IF i <= Registrations - bad THEN "subscribed" ELSE "error"
      BY <1>4, <2>7, <3>4
    <3>6. expected' = Registrations /\ session'[ws'].served <= Registrations
      BY <1>3, <2>3, <3>2
    <3> QED  BY <3>1, <3>2, <3>3, <3>5, <3>6 DEF Registering
  <2>9. Conversation'
    BY <1>1, <1>4, <2>3, <2>6, <2>8 DEF Conversation
  <2>10. ASSUME promise = "pending", promise' = "resolved"  PROVE session[ws] = Joined
    <3>1. Ready(TRUE, 0, Registrations)  BY <2>3, <2>10 DEF ResolveIfReady
    <3>2. Registrations = 0  BY <3>1, <1>3 DEF Ready
    <3> QED  BY <3>2, <2>1 DEF Joined
  <2> QED  BY <1>1, <1>4, <1>9, <2>9, <2>10
<1>14. CASE down[ws][1] = "subscribed" /\ OnSubscribed(rest)
  <2>0. 1 \in 1 .. Len(down[ws])  BY <1>2
  <2>1. Registering
    BY <2>0, <1>1, <1>14 DEF Conversation, OnlyErrors, OneAnswer
  <2>2. PICK k \in 0 .. Len(down[ws]) :
          /\ \A i \in 1 .. Len(down[ws]) : down[ws][i] = IF i <= k THEN "subscribed" ELSE "error"
          /\ acked + k = session[ws].served
    BY <2>1 DEF Registering
  <2>3. k >= 1  BY <2>0, <2>2, <1>14
  <2>4. /\ down' = rest /\ acked' = acked + 1 /\ UNCHANGED <<session, state, expected>>
        /\ ResolveIfReady(joined, acked + 1, expected)
    BY <1>14 DEF OnSubscribed, SendNothing
  <2>5. Registering'
    <3>1. k - 1 \in 0 .. Len(down'[ws'])  BY <1>2, <1>4, <2>3, <2>4
    <3>2. ASSUME NEW i \in 1 .. Len(rest[ws])
          PROVE  rest[ws][i] = IF i <= k - 1 THEN "subscribed" ELSE "error"
      <4>1. i \in 1 .. Len(down[ws]) - 1 /\ i + 1 \in 1 .. Len(down[ws])  BY <1>2
      <4>2. i + 1 <= k <=> i <= k - 1  BY <2>2
      <4> QED  BY <4>1, <4>2, <2>2, <1>2
    <3>3. acked' + (k - 1) = session'[ws'].served  BY <1>3, <1>4, <2>2, <2>3, <2>4
    <3> QED  BY <1>4, <2>1, <2>4, <3>1, <3>2, <3>3 DEF Registering
  <2>6. Conversation'  BY <1>1, <1>4, <2>4, <2>5 DEF Conversation
  <2>7. ASSUME promise = "pending", promise' = "resolved"  PROVE session[ws] = Joined
    <3>1. Ready(joined, acked + 1, expected)  BY <2>4, <2>7 DEF ResolveIfReady
    <3>2. session[ws].served <= Registrations /\ acked + 1 >= Registrations
      BY <3>1, <2>1 DEF Ready, Registering
    <3>3. session[ws].served \in Nat /\ session[ws].level = "joined"
      BY <1>6, <2>1 DEF SessionRows, Registering
    <3>4. session[ws].served = Registrations  BY <1>3, <2>2, <2>3, <3>2, <3>3
    <3> QED  BY <3>3, <3>4, <1>6 DEF SessionRows, Joined
  <2> QED  BY <1>1, <1>4, <1>9, <2>6, <2>7
<1> QED  BY <1>5, <1>11, <1>12, <1>13, <1>14

-----------------------------------------------------------------------------
(* The theorems                                                             *)

LEMMA ChannelInvStep == ChannelInv /\ [Next]_vars => ChannelInv'
<1> SUFFICES ASSUME ChannelInv, [Next]_vars  PROVE ChannelInv'
  OBVIOUS
<1>1. TypeOK /\ TypeOK'  BY TypeStep DEF ChannelInv
<1> DEFINE Good == OneWay /\ (ws # NoSocket => Conversation)
<1> SUFFICES ASSUME ~overlapped'  PROVE Good'
  BY <1>1 DEF ChannelInv
<1>2. CASE Subscribe
  <2>1. /\ AllGone /\ retry.armed = {} /\ UNCHANGED retry /\ Connect
        /\ subscribed' = TRUE /\ state' = "connecting"
    BY <1>2 DEF Subscribe, timers, AllGone
  <2> QED  BY <1>1, <2>1, ConnectsAlone
<1>3. ASSUME UNCHANGED overlapped  PROVE Good
  BY <1>3 DEF ChannelInv
<1>4. CASE Unsubscribe
  <2>1. Good  BY <1>3, <1>4 DEF Unsubscribe
  <2> QED  BY <1>1, <1>4, <2>1, UnsubscribeLeavesOneWay
<1>5. ASSUME NEW s \in Sockets, Opened(s)  PROVE Good'
  <2>1. Good  BY <1>3, <1>5 DEF Opened
  <2> QED  BY <1>1, <1>5, <2>1, OpenedAsks
<1>6. ASSUME NEW s \in Sockets, CloseEvent(s) \/ Drop(s)  PROVE Good'
  <2>1. Good  BY <1>3, <1>6 DEF CloseEvent, Drop, Closed
  <2> QED  BY <1>1, <1>6, <2>1, LostLeavesOneWay
<1>7. ASSUME NEW s \in Sockets, Receive(s)  PROVE Good'
  <2>1. Good  BY <1>3, <1>7 DEF Receive
  <2> QED  BY <1>1, <1>7, <2>1, ReceiveKeepsConversation
<1>8. ASSUME NEW n \in Timers, RetryFires(n)  PROVE Good'
  <2>1. Good  BY <1>3, <1>8 DEF RetryFires
  <2>2. n \in retry.armed /\ retry' = Fired(retry, n) /\ Connect /\ UNCHANGED <<subscribed, state>>
    BY <1>8 DEF RetryFires
  <2>3. Waiting  BY <2>1, <2>2 DEF OneWay, Connected, GivenUp, Unwanted
  <2>4. retry'.armed = {}  BY <2>2, <2>3 DEF Waiting, Fired
  <2> QED  BY <1>1, <2>2, <2>3, <2>4, ConnectsAlone DEF Waiting
<1>9. CASE \/ \E n \in Timers : LimitFires(n)
           \/ UNCHANGED vars
  <2>1. UNCHANGED <<ws, ready, down, session, subscribed, state, acked, expected, retry, overlapped>>
    BY <1>9 DEF LimitFires, vars, link, server, ack, timers
  <2>2. Good  BY <1>3, <2>1
  <2> QED  BY <2>1, <2>2 DEF OneWay, Connected, Waiting, GivenUp, Unwanted, AllGone, Conversation,
                            OnlyErrors, OneAnswer, Registering
<1> QED  BY <1>2, <1>4, <1>5, <1>6, <1>7, <1>8, <1>9 DEF Next

LEMMA ChannelInvariant == Spec => []ChannelInv
<1>1. Init => ChannelInv
  <2> SUFFICES ASSUME Init  PROVE ChannelInv
    OBVIOUS
  <2>1. TypeOK  BY TypeInit
  <2>2. OneWay /\ ws = NoSocket  BY DEF Init, NoTimer, OneWay, Unwanted
  <2> QED  BY <2>1, <2>2 DEF ChannelInv
<1> QED  BY <1>1, ChannelInvStep, PTL DEF Spec

\* Unless a subscribe() ran into what an older one left behind, the channel has
\* one socket or one timer that will make one, for any number of sockets, losses
\* and reconnects; an unwanted channel has neither.
THEOREM OneConnectionOnly == Spec => []OneConnection
<1>1. ASSUME ChannelInv  PROVE OneConnection
  <2> SUFFICES ASSUME ~overlapped  PROVE OneConnection
    BY DEF OneConnection
  <2>0. OneWay /\ (ws # NoSocket => Conversation) /\ ws \in Sockets \cup {NoSocket}
    BY <1>1, TypesByName DEF ChannelInv
  <2>1. \A x : Cardinality({x}) = 1 /\ Cardinality({}) = 0  BY FS_Singleton, FS_EmptySet
  <2>2. CASE ws # NoSocket
    <3>1. Connected  BY <2>0, <2>2 DEF OneWay
    <3>2. Live = {ws} /\ retry.armed = {}  BY <2>0, <2>2, <3>1 DEF Connected, Live
    <3>3. Cardinality(Live) = 1 /\ Cardinality(retry.armed) = 0  BY <2>1, <3>2
    <3> QED  BY <2>0, <2>2, <3>1, <3>2, <3>3 DEF OneConnection, Connected, Conversation
  <2>3. CASE ws = NoSocket
    <3>1. Waiting \/ GivenUp \/ Unwanted  BY <2>0, <2>3 DEF OneWay
    <3>2. Live = {}  BY <3>1 DEF Waiting, GivenUp, Unwanted, AllGone, Live
    <3>3. Cardinality(Live) = 0  BY <2>1, <3>2
    <3>4. Cardinality(retry.armed) = IF subscribed /\ state # "closed" THEN 1 ELSE 0
      <4>1. CASE Waiting  BY <2>1, <4>1 DEF Waiting
      <4>2. CASE GivenUp \/ Unwanted  BY <2>1, <4>2 DEF GivenUp, Unwanted
      <4> QED  BY <3>1, <4>1, <4>2
    <3>5. state # "connected"  BY <3>1 DEF Waiting, GivenUp, Unwanted
    <3> QED  BY <3>2, <3>3, <3>4, <3>5 DEF OneConnection
  <2> QED  BY <2>2, <2>3
<1> QED  BY <1>1, ChannelInvariant, PTL

\* subscribe() resolves on answers of the connection it has: the server has
\* joined it and serves every registration, whatever was lost on the way.
THEOREM ResolvedMeansServed == Spec => ResolvedIsServed
<1> DEFINE Served1 == promise = "pending" /\ promise' = "resolved" /\ ~overlapped
                       => ws # NoSocket /\ session[ws] = [level |-> "joined", served |-> Registrations]
<1>1. ASSUME ChannelInv, [Next]_vars  PROVE [Served1]_vars
  <2> SUFFICES ASSUME promise = "pending", promise' = "resolved", ~overlapped, Next
               PROVE  ws # NoSocket /\ session[ws] = Joined
    BY <1>1 DEF Joined
  <2>1. TypeOK /\ OneWay /\ (ws # NoSocket => Conversation)  BY <1>1 DEF ChannelInv
  <2>2. PICK s \in Sockets : Receive(s)
    BY DEF Next, Subscribe, Unsubscribe, Opened, CloseEvent, Drop, Closed, RetryFires, LimitFires
  <2> QED  BY <2>1, <2>2, ReceiveKeepsConversation
<1> QED  BY <1>1, ChannelInvariant, PTL DEF Spec, ResolvedIsServed

=============================================================================
