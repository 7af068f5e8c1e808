---------------------------- MODULE RealtimeChannel ----------------------------
(***************************************************************************)
(* A channel of the client SDK (class BrisaBaseRealtimeChannel in          *)
(* src/src/sdk/brisaBaseClient.ts): subscribe(), unsubscribe(), the        *)
(* handlers of its WebSockets, the reconnect timer and the timer that      *)
(* rejects a subscribe().  Every handler belongs to the channel and works  *)
(* on this.ws, whichever socket it was installed on.  A step is one call   *)
(* or one event of the event loop; the server answers in the order it is   *)
(* asked and its answers are under way until the client takes them.        *)
(***************************************************************************)
EXTENDS Naturals, Sequences, FiniteSets

CONSTANTS
  Sockets,        \* bound: WebSockets of the channel at a time
  NoSocket,       \* this.ws is null
  Registrations,  \* postgres_changes callbacks registered with on()
  MaxReconnects,  \* maxReconnectAttempts (10 in the code)
  MaxSubscribes,  \* bound: calls of subscribe()
  MaxDrops,       \* bound: connections the network or the server ends
  MaxErrors       \* bound: requests the server refuses

ASSUME SocketsAssumption == NoSocket \notin Sockets /\ IsFiniteSet(Sockets)
ASSUME CountsAssumption ==
  /\ Registrations \in Nat /\ MaxReconnects \in Nat /\ MaxSubscribes \in Nat
  /\ MaxDrops \in Nat /\ MaxErrors \in Nat

VARIABLES
  ws,          \* this.ws
  ready,       \* readyState of each socket; "gone" after its close event
  down,        \* answers under way to the client on each socket
  session,     \* what the server knows of each socket
  subscribed,  \* this.subscribed
  state,       \* this.connectionState
  attempts,    \* this.reconnectAttempts
  joined,      \* this.joined
  expected,    \* this.expectedSubscriptions
  acked,       \* this.acknowledgedSubscriptions
  promise,     \* the last subscribe(): none, pending, resolved or rejected
  retry,       \* [armed, handle]: reconnect timers, and this.reconnectTimer
  limit,       \* [armed, handle]: timers of onopen, and this.subscribeTimer
  overlapped,  \* history: a subscribe() found a socket or a timer of an older one
  subscribes, drops, errors

link == <<ws, ready>>
server == <<down, session>>
ack == <<joined, expected, acked>>
timers == <<retry, limit>>
budgets == <<subscribes, drops, errors>>
vars == <<link, server, subscribed, state, attempts, ack, promise, timers,
          overlapped, budgets>>

Timers == 1 .. Cardinality(Sockets)
NoTimer == [armed |-> {}, handle |-> 0]
Stranger == [level |-> "new", served |-> 0]

TypeOK ==
  /\ ws \in Sockets \cup {NoSocket}
  /\ ready \in [Sockets -> {"gone", "connecting", "open", "closing"}]
  /\ down \in [Sockets -> Seq({"connected", "joined", "subscribed", "error"})]
  /\ session \in [Sockets -> [level : {"new", "authenticated", "joined"}, served : Nat]]
  /\ subscribed \in BOOLEAN /\ joined \in BOOLEAN /\ overlapped \in BOOLEAN
  /\ state \in {"disconnected", "connecting", "connected", "reconnecting", "closed"}
  /\ attempts \in 0 .. MaxReconnects
  /\ expected \in Nat /\ acked \in Nat
  /\ promise \in {"none", "pending", "resolved", "rejected"}
  /\ \A t \in {retry, limit} : t.armed \subseteq Timers /\ t.handle \in Timers \cup {0}

Init ==
  /\ ws = NoSocket /\ ready = [s \in Sockets |-> "gone"]
  /\ down = [s \in Sockets |-> <<>>] /\ session = [s \in Sockets |-> Stranger]
  /\ subscribed = FALSE /\ state = "disconnected" /\ attempts = 0
  /\ joined = FALSE /\ expected = 0 /\ acked = 0
  /\ promise = "none" /\ retry = NoTimer /\ limit = NoTimer /\ overlapped = FALSE
  /\ subscribes = 0 /\ drops = 0 /\ errors = 0

Live == {s \in Sockets : ready[s] \in {"connecting", "open"}}

-----------------------------------------------------------------------------
(* What the calls and handlers are built from.                             *)

\* setTimeout(): the channel remembers the newest timer; the name of one that
\* has fired or was cleared is free again and as good as none.
WithTimer(t) ==
  LET n == CHOOSE k \in Timers : k \notin t.armed /\ \A l \in 1 .. k - 1 : l \in t.armed
  IN  [armed |-> t.armed \cup {n}, handle |-> n]
Armed(t) == t.armed # Timers /\ t' = WithTimer(t)
\* clearTimeout()
Cleared(t) == [armed |-> t.armed \ {t.handle}, handle |-> 0]
Fired(t, n) == [armed |-> t.armed \ {n}, handle |-> IF n = t.handle THEN 0 ELSE t.handle]

\* this.ws = new WebSocket(...)
Connect ==
  LET s == CHOOSE free \in Sockets : ready[free] = "gone" IN
    /\ \E free \in Sockets : ready[free] = "gone"
    /\ ws' = s /\ ready' = [ready EXCEPT ![s] = "connecting"]
    /\ down' = [down EXCEPT ![s] = <<>>]
    /\ session' = [session EXCEPT ![s] = Stranger]

\* this.ws.send() of n equal requests: the server grants them or answers errors.
Granted(ask) == ask = "connect" \/ session[ws].level # "new"
Answer(ask) == CASE ask = "connect" -> "connected" [] ask = "join" -> "joined"
                 [] OTHER -> "subscribed"
Served(ask, n) ==
  CASE ask = "connect" -> [session EXCEPT ![ws].level = "authenticated"]
    [] ask = "join" -> [session EXCEPT ![ws].level = "joined"]
    [] OTHER -> [session EXCEPT ![ws].served = @ + n]
Send(ask, n, pending) ==
  \E bad \in 0 .. n :
    /\ IF Granted(ask) THEN bad + errors <= MaxErrors ELSE bad = n
    /\ errors' = IF Granted(ask) THEN errors + bad ELSE errors
    /\ down' = [pending EXCEPT ![ws] = @ \o [k \in 1 .. n - bad |-> Answer(ask)]
                                         \o [k \in 1 .. bad |-> "error"]]
    /\ session' = IF bad = n THEN session ELSE Served(ask, n - bad)
SendNothing(pending) == down' = pending /\ UNCHANGED <<session, errors>>

\* send() throws while this.ws is still connecting.
Throws == ws # NoSocket /\ ready[ws] = "connecting"

\* resolveSubscribeIfReady(), with the counts the handler has just set.  The
\* mutant resolves as soon as the channel is joined.
ReadyOnJoin(j, a, e) == j
Ready(j, a, e) == j /\ a >= e
Settle(outcome) ==
  /\ limit' = Cleared(limit)
  /\ promise' = IF promise = "pending" THEN outcome ELSE promise
ResolveIfReady(j, a, e) ==
  IF Ready(j, a, e) THEN Settle("resolved") ELSE UNCHANGED <<limit, promise>>

-----------------------------------------------------------------------------
(* The calls.                                                              *)

Subscribe ==
  /\ subscribes < MaxSubscribes /\ ~(state = "connected" /\ subscribed)
  /\ subscribes' = subscribes + 1
  /\ overlapped' = (overlapped \/ retry.armed # {} \/ \E s \in Sockets : ready[s] # "gone")
  /\ subscribed' = TRUE /\ state' = "connecting" /\ promise' = "pending"
  /\ Connect
  /\ UNCHANGED <<attempts, ack, timers, drops, errors>>

Unsubscribe ==
  /\ subscribed /\ subscribed' = FALSE /\ joined' = FALSE
  /\ retry' = Cleared(retry) /\ limit' = Cleared(limit)
  /\ ready' = IF ws = NoSocket THEN ready ELSE [ready EXCEPT ![ws] = "closing"]
  /\ ws' = NoSocket /\ state' = "closed"
  /\ UNCHANGED <<server, attempts, expected, acked, promise, overlapped, budgets>>

-----------------------------------------------------------------------------
(* The handlers of a socket.                                               *)

\* The 10 s of subscribe() begin; the mutant does not count them.
ArmNothing == UNCHANGED limit
ArmLimit == Armed(limit)

\* onopen: a connection has been made; authenticate over this.ws.
Opened(s) ==
  /\ ready[s] = "connecting"
  /\ ready' = [ready EXCEPT ![s] = "open"]
  /\ state' = "connecting" /\ attempts' = 0
  /\ IF ws # s /\ Throws
     THEN SendNothing(down) /\ UNCHANGED limit
     ELSE /\ IF ws = NoSocket THEN SendNothing(down) ELSE Send("connect", 1, down)
          /\ ArmLimit
  /\ UNCHANGED <<ws, subscribed, ack, promise, retry, overlapped, subscribes, drops>>

\* scheduleReconnect()
Exhausted == attempts >= MaxReconnects
ScheduleReconnect ==
  IF Exhausted
  THEN state' = "closed" /\ UNCHANGED <<attempts, retry>>
  ELSE state' = "reconnecting" /\ attempts' = attempts + 1 /\ Armed(retry)

\* onclose, after onerror when the connection failed.  The mutants give a
\* channel up that was joined before, or reconnect an unwanted one.
WantedOnce == subscribed /\ ~joined
AlwaysWanted == TRUE
Wanted == subscribed
Closed(s) ==
  /\ ready' = [ready EXCEPT ![s] = "gone"]
  /\ ws' = NoSocket
  /\ down' = [down EXCEPT ![s] = <<>>] /\ session' = [session EXCEPT ![s] = Stranger]
  /\ IF Wanted THEN ScheduleReconnect
     ELSE state' = "disconnected" /\ UNCHANGED <<attempts, retry>>
  /\ UNCHANGED <<subscribed, ack, promise, limit, overlapped, subscribes, errors>>

CloseEvent(s) == ready[s] = "closing" /\ Closed(s) /\ UNCHANGED drops
Drop(s) ==
  /\ s \in Live /\ drops < MaxDrops
  /\ Closed(s) /\ drops' = drops + 1

\* connected, the acknowledgement with a connectionId: join over this.ws.
OnConnected(rest) ==
  /\ IF ws = NoSocket \/ state = "closed"
     THEN SendNothing(rest) /\ UNCHANGED state
     ELSE /\ state' = "connected"
          /\ IF Throws THEN SendNothing(rest) ELSE Send("join", 1, rest)
  /\ UNCHANGED <<ack, promise, limit>>

\* joined: register every postgres_changes callback over this.ws.
OnJoined(rest) ==
  /\ joined' = TRUE /\ expected' = Registrations /\ acked' = 0
  /\ IF Throws /\ Registrations > 0
     THEN SendNothing(rest) /\ UNCHANGED <<promise, limit>>
     ELSE /\ IF ws = NoSocket THEN SendNothing(rest)
             ELSE Send("subscribe", Registrations, rest)
          /\ ResolveIfReady(TRUE, 0, Registrations)
  /\ UNCHANGED state

OnSubscribed(rest) ==
  /\ acked' = acked + 1
  /\ ResolveIfReady(joined, acked + 1, expected)
  /\ SendNothing(rest) /\ UNCHANGED <<state, joined, expected>>

OnError(rest) ==
  /\ IF joined THEN UNCHANGED <<promise, limit>> ELSE Settle("rejected")
  /\ SendNothing(rest) /\ UNCHANGED <<state, ack>>

\* handleServerMessage(): a socket that is closing delivers nothing any more.
Receive(s) ==
  /\ ready[s] = "open" /\ down[s] # <<>>
  /\ LET rest == [down EXCEPT ![s] = Tail(@)]
         type == Head(down[s])
     IN \/ type = "connected" /\ OnConnected(rest)
        \/ type = "joined" /\ OnJoined(rest)
        \/ type = "subscribed" /\ OnSubscribed(rest)
        \/ type = "error" /\ OnError(rest)
  /\ UNCHANGED <<link, subscribed, attempts, retry, overlapped, subscribes, drops>>

-----------------------------------------------------------------------------
(* The timers.                                                             *)

RetryFires(n) ==
  /\ n \in retry.armed
  /\ retry' = Fired(retry, n)
  /\ Connect
  /\ UNCHANGED <<subscribed, state, attempts, ack, promise, limit, overlapped, budgets>>

\* failSubscribe(): the request timed out.
LimitFires(n) ==
  /\ n \in limit.armed
  /\ limit' = Cleared(Fired(limit, n))
  /\ promise' = IF promise = "pending" THEN "rejected" ELSE promise
  /\ UNCHANGED <<link, server, subscribed, state, attempts, ack, retry, overlapped, budgets>>

Next ==
  \/ Subscribe \/ Unsubscribe
  \/ \E s \in Sockets : Opened(s) \/ CloseEvent(s) \/ Drop(s) \/ Receive(s)
  \/ \E n \in Timers : RetryFires(n) \/ LimitFires(n)

Spec == Init /\ [][Next]_vars

\* A connection opens or fails, a closing socket closes, answers arrive and
\* timers fire; nothing is assumed of the application.
Fairness ==
  /\ \A s \in Sockets : WF_vars(Opened(s)) /\ WF_vars(CloseEvent(s)) /\ WF_vars(Receive(s))
  /\ \A n \in Timers : WF_vars(RetryFires(n)) /\ WF_vars(LimitFires(n))

FairSpec == Spec /\ Fairness
-----------------------------------------------------------------------------
(* Properties                                                              *)

\* The channel's handlers share this.ws and the reconnect timer.  Unless a
\* subscribe() ran into what an older one left behind, the channel has at most
\* one socket that lives or one timer that will make one, the socket is
\* this.ws, an unwanted channel has neither, a wanted one that has not given
\* up has either, and "connected" means that the server knows this.ws.
OneConnection ==
  ~overlapped =>
    /\ Live \subseteq {ws}
    /\ Cardinality(Live) + Cardinality(retry.armed)
         = IF subscribed /\ state # "closed" THEN 1 ELSE 0
    /\ state = "connected" => ws # NoSocket /\ session[ws].level # "new"

\* subscribe() resolves on answers of the connection it has: the server has
\* joined this.ws to the channel and serves every registration on it, whatever
\* connections were lost on the way.
ResolvedIsServed ==
  [][promise = "pending" /\ promise' = "resolved" /\ ~overlapped
     => ws # NoSocket /\ session[ws] = [level |-> "joined", served |-> Registrations]]_vars

\* subscribe() ends, lost answers and refusals included: it resolves, it
\* rejects, unsubscribe() is called or the reconnect limit is reached (in the
\* last two cases nobody ever settles the promise).
SubscribeSettles ==
  promise = "pending" ~>
    promise # "pending" \/ ~subscribed \/ state = "closed" \/ overlapped

\* "rejoin/resubscribe": a channel that is wanted gets back to a joined and
\* fully served connection after every loss, unless the server refuses it or
\* the reconnect limit is reached.
Rejoins ==
  subscribed ~> \/ ws # NoSocket /\ session[ws] = [level |-> "joined", served |-> Registrations]
                \/ ~subscribed \/ state = "closed" \/ errors > 0 \/ overlapped
=============================================================================
