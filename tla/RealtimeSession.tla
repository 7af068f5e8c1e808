--------------------------- MODULE RealtimeSession ---------------------------
(***************************************************************************)
(* The WebSocket sessions of one server instance                           *)
(* (src/server/realtime): websocketServer.ts with the tables it keeps in   *)
(* step by hand: connectionManager, channelManager, presenceManager,       *)
(* subscriptionManager and the channel and subscription sets of each       *)
(* connection object.  A handler waits for the rate limiter in Redis, or   *)
(* for the credential check, and resumes on a connection object that may   *)
(* have been removed in the meantime.  A step is the code from one await   *)
(* to the next, deliveries and the removal of slow clients included.       *)
(***************************************************************************)
EXTENDS Naturals, Sequences, FiniteSets

CONSTANTS
  Conns,       \* connection ids; a client that comes back gets another one
  Names,       \* channel names as clients spell them
  Rooms,       \* channel keys
  Key,         \* the key of a name: lower case, trimmed
  Scopes,      \* project and environment pairs
  NoScope,     \* of a connection that is not authenticated
  MaxChannels, \* MAX_CHANNELS_PER_CONNECTION (20)
  MaxSubs,     \* maxSubscriptionsPerConnection (20)
  MaxWaiting,  \* bound: handlers of the instance that await an answer
  NoMessage

ASSUME NamesAssumption == Key \in [Names -> Rooms]
ASSUME ScopesAssumption == NoScope \notin Scopes /\ Scopes # {}
ASSUME LimitsAssumption ==
  MaxChannels \in Nat \ {0} /\ MaxSubs \in Nat /\ MaxWaiting \in Nat \ {0}

VARIABLES
  socket,    \* the socket of each connection
  live,      \* the connections in connectionManager
  scope,     \* connection.projectId and environmentId
  channels,  \* connection.channels: the names it joined
  subs,      \* connection.subscriptions
  members,   \* channelManager: the connections of each channel
  present,   \* presenceManager: the connections tracked in each channel
  served,    \* subscriptionManager
  inbox,     \* messages that await INCR, in order
  slow,      \* the message that was first in its window and awaits EXPIRE
  auth,      \* credentials that are being checked
  casting,   \* broadcasts that await their own limit
  late,      \* history: handled a join, subscribe or track after its removal
  rescoped   \* history: had a scope and got another one

tables == <<live, channels, subs, members, present, served>>
waiting == <<inbox, slow, auth, casting>>
vars == <<socket, live, scope, channels, subs, members, present, served,
          inbox, slow, auth, casting, late, rescoped>>

Kinds == {"join", "leave", "subscribe", "unsubscribe", "broadcast", "track", "untrack"}
Messages == [kind : Kinds, name : Names] \cup [kind : {"connect"}, scope : Scopes]
Slots == 1 .. MaxSubs
Free == [scope |-> NoScope]
Subscriptions == {Free} \cup [scope : Scopes, name : Names]

TypeOK ==
  /\ socket \in [Conns -> {"new", "open", "closing", "closed"}]
  /\ live \subseteq Conns
  /\ scope \in [Conns -> Scopes \cup {NoScope}]
  /\ channels \in [Conns -> SUBSET Names]
  /\ subs \in [Conns -> [Slots -> Subscriptions]]
  /\ members \in [Scopes \X Rooms -> SUBSET Conns]
  /\ present \in [Scopes \X Rooms -> SUBSET Conns]
  /\ served \subseteq Conns \X Slots
  /\ inbox \in [Conns -> Seq(Messages)]
  /\ slow \in [Conns -> Messages \cup {NoMessage}]
  /\ auth \in [Conns -> SUBSET Scopes]
  /\ casting \in [Conns -> SUBSET Names]
  /\ late \subseteq Conns /\ rescoped \subseteq Conns
  /\ \A c \in Conns : Cardinality(channels[c]) <= MaxChannels

Init ==
  /\ socket = [c \in Conns |-> "new"] /\ live = {}
  /\ scope = [c \in Conns |-> NoScope]
  /\ channels = [c \in Conns |-> {}]
  /\ subs = [c \in Conns |-> [k \in Slots |-> Free]]
  /\ members = [k \in Scopes \X Rooms |-> {}]
  /\ present = [k \in Scopes \X Rooms |-> {}]
  /\ served = {}
  /\ inbox = [c \in Conns |-> <<>>] /\ slow = [c \in Conns |-> NoMessage]
  /\ auth = [c \in Conns |-> {}] /\ casting = [c \in Conns |-> {}]
  /\ late = {} /\ rescoped = {}

-----------------------------------------------------------------------------
(* Deliveries and removals.                                                *)

\* Who hears presence_leave when d is removed.
Mates(d, mem, pres) == UNION {mem[k] : k \in {r \in DOMAIN pres : d \in pres[r]}} \ {d}

\* The tables after the removal of D; the mutants forget one of them.
StripNothing(table, D) == table
Strip(table, D) == [k \in DOMAIN table |-> table[k] \ D]
ServedWithout(sv, D) == {x \in sv : x[1] \notin D}
StripPresence(table, D) == Strip(table, D)

\* A message goes out to the members in hearers while `gone` is removed.  A
\* client whose buffer is full is closed and removed on the spot, its
\* presence_leave goes to its channels and may find another full buffer.
Deliver(sock, mem, pres, sv, hearers, gone) ==
  \E full \in SUBSET (live \ gone) :
    LET away == gone \cup full IN
    /\ full # {} => full \cap hearers # {}
    /\ \A d \in full \ hearers : \E e \in full \ {d} : d \in Mates(e, mem, pres)
    /\ live' = live \ away
    /\ members' = Strip(mem, away)
    /\ present' = StripPresence(pres, away)
    /\ served' = ServedWithout(sv, away)
    /\ socket' = [c \in Conns |-> IF c \in full THEN "closing" ELSE sock[c]]

Quietly == UNCHANGED <<socket, live>>

\* handleConnection(): credentials in the upgrade request are checked at once.
Accept(c) ==
  /\ socket[c] = "new"
  /\ socket' = [socket EXCEPT ![c] = "open"]
  /\ live' = live \cup {c}
  /\ \/ UNCHANGED auth
     \/ \E s \in Scopes : auth' = [auth EXCEPT ![c] = {s}]
  /\ UNCHANGED <<scope, channels, subs, members, present, served, inbox, slow,
                 casting, late, rescoped>>

\* forceClose(): the heartbeat found the connection silent for a minute.
HeartbeatTimeout(c) ==
  /\ c \in live
  /\ Deliver([socket EXCEPT ![c] = IF @ = "open" THEN "closing" ELSE @],
             members, present, served, Mates(c, members, present), {c})
  /\ UNCHANGED <<scope, channels, subs, waiting, late, rescoped>>

\* The socket's close event; a second removal returns early.
SocketClosed(c) ==
  /\ socket[c] \in {"open", "closing"}
  /\ LET sock == [socket EXCEPT ![c] = "closed"] IN
     IF c \in live
     THEN Deliver(sock, members, present, served, Mates(c, members, present), {c})
     ELSE socket' = sock /\ UNCHANGED <<live, members, present, served>>
  /\ UNCHANGED <<scope, channels, subs, waiting, late, rescoped>>

\* A change event, or a message of the server itself, goes out.
Publish(s) ==
  /\ \/ Deliver(socket, members, present, served,
                {c \in live : \E k \in Slots : <<c, k>> \in served /\ subs[c][k].scope = s}, {})
     \/ \E r \in Rooms :
          Deliver(socket, members, present, served, members[<<s, r>>] \cap live, {})
  /\ UNCHANGED <<scope, channels, subs, waiting, late, rescoped>>

-----------------------------------------------------------------------------
(* Messages.                                                               *)

Waiting ==
  Cardinality({x \in Conns \X (1 .. MaxWaiting) : x[2] <= Len(inbox[x[1]])})
  + Cardinality({c \in Conns : slow[c] # NoMessage})
  + Cardinality({x \in Conns \X Scopes : x[2] \in auth[x[1]]})
  + Cardinality({x \in Conns \X Names : x[2] \in casting[x[1]]})

\* handleMessage() up to its first await; ws still delivers what the client
\* sent before it saw the close frame.
Receive(c) ==
  /\ socket[c] \in {"open", "closing"} /\ Waiting < MaxWaiting
  /\ IF scope[c] = NoScope
     THEN /\ \E s \in Scopes : auth' = [auth EXCEPT ![c] = @ \cup {s}]
          /\ UNCHANGED inbox
     ELSE /\ \E m \in Messages : inbox' = [inbox EXCEPT ![c] = Append(@, m)]
          /\ UNCHANGED auth
  /\ UNCHANGED <<socket, scope, tables, slow, casting, late, rescoped>>

\* authenticate(): the check of projectId came before the await.
Authenticated(c) ==
  /\ \E s \in auth[c] :
       /\ auth' = [auth EXCEPT ![c] = @ \ {s}]
       /\ \/ UNCHANGED <<scope, rescoped>>
          \/ /\ scope' = [scope EXCEPT ![c] = s]
             /\ rescoped' = IF scope[c] \in {NoScope, s} THEN rescoped
                            ELSE rescoped \cup {c}
  /\ UNCHANGED <<socket, tables, inbox, slow, casting, late>>

\* The first INCR of a window is followed by EXPIRE, and overtaken meanwhile.
FirstInWindow(c) ==
  /\ inbox[c] # <<>> /\ slow[c] = NoMessage
  /\ slow' = [slow EXCEPT ![c] = Head(inbox[c])]
  /\ inbox' = [inbox EXCEPT ![c] = Tail(@)]
  /\ UNCHANGED <<socket, scope, tables, auth, casting, late, rescoped>>

\* join(), also from subscribe(): at the limit it only reports an error.
Joins(c, n) == n \in channels[c] \/ Cardinality(channels[c]) < MaxChannels
Joined(c, n) == IF Joins(c, n) THEN [channels EXCEPT ![c] = @ \cup {n}] ELSE channels
Place(c, n) == <<scope[c], Key[n]>>
WithMember(c, n) ==
  IF Joins(c, n) THEN [members EXCEPT ![Place(c, n)] = @ \cup {c}] ELSE members

\* The mutant leaves the member in the channel.
MembersAfterNothing(c, n) == members
MembersAfterLeave(c, n) == [members EXCEPT ![Place(c, n)] = @ \ {c}]
\* The mutant leaves the presence behind.
PresentAfterNothing(c, n) == present
PresentWithout(c, n) == [present EXCEPT ![Place(c, n)] = @ \ {c}]
Hearers(c, n, mem) == (mem[Place(c, n)] \cap live) \ {c}

Join(c, n) ==
  /\ channels' = Joined(c, n) /\ members' = WithMember(c, n)
  /\ Quietly /\ UNCHANGED <<subs, present, served, casting>>

Leave(c, n) ==
  /\ IF n \in channels[c]
     THEN /\ channels' = [channels EXCEPT ![c] = @ \ {n}]
          /\ Deliver(socket, MembersAfterLeave(c, n), PresentWithout(c, n), served,
                     IF c \in present[Place(c, n)] THEN Hearers(c, n, members) ELSE {}, {})
     ELSE Quietly /\ UNCHANGED <<channels, members, present, served>>
  /\ UNCHANGED <<subs, casting>>

Subscribe(c, n) ==
  /\ Quietly
  /\ \/ \E k \in Slots :
          /\ subs[c][k] = Free /\ \A j \in 1 .. k - 1 : subs[c][j] # Free
          /\ channels' = Joined(c, n) /\ members' = WithMember(c, n)
          /\ subs' = [subs EXCEPT ![c][k] = [scope |-> scope[c], name |-> n]]
          /\ served' = served \cup {<<c, k>>}
     \/ /\ \A k \in Slots : subs[c][k] # Free
        /\ UNCHANGED <<channels, members, subs, served>>
  /\ UNCHANGED <<present, casting>>

Named(c, n) == {k \in Slots : subs[c][k] # Free /\ subs[c][k].name = n}
\* The mutant forgets subscriptionManager.
StillServed(c, n) == served
ServedAfter(c, n) == served \ {<<c, k>> : k \in Named(c, n)}

Unsubscribe(c, n) ==
  /\ subs' = [subs EXCEPT ![c] = [k \in Slots |-> IF k \in Named(c, n) THEN Free ELSE @[k]]]
  /\ served' = ServedAfter(c, n)
  /\ Quietly /\ UNCHANGED <<channels, members, present, casting>>

\* broadcast() up to its await.
StartBroadcast(c, n) ==
  /\ casting' = IF n \in channels[c] THEN [casting EXCEPT ![c] = @ \cup {n}] ELSE casting
  /\ Quietly /\ UNCHANGED <<channels, subs, members, present, served>>

Track(c, n) ==
  /\ IF n \in channels[c]
     THEN Deliver(socket, members, [present EXCEPT ![Place(c, n)] = @ \cup {c}], served,
                  Hearers(c, n, members), {})
     ELSE Quietly /\ UNCHANGED <<members, present, served>>
  /\ UNCHANGED <<channels, subs, casting>>

Untrack(c, n) ==
  /\ IF n \in channels[c]
     THEN Deliver(socket, members, PresentWithout(c, n), served,
                  IF c \in present[Place(c, n)] THEN Hearers(c, n, members) ELSE {}, {})
     ELSE Quietly /\ UNCHANGED <<members, present, served>>
  /\ UNCHANGED <<channels, subs, casting>>

Handle(c, m) ==
  \/ m.kind = "connect" /\ UNCHANGED <<socket, tables, casting>>
  \/ m.kind = "join" /\ Join(c, m.name)
  \/ m.kind = "leave" /\ Leave(c, m.name)
  \/ m.kind = "subscribe" /\ Subscribe(c, m.name)
  \/ m.kind = "unsubscribe" /\ Unsubscribe(c, m.name)
  \/ m.kind = "broadcast" /\ StartBroadcast(c, m.name)
  \/ m.kind = "track" /\ Track(c, m.name)
  \/ m.kind = "untrack" /\ Untrack(c, m.name)

\* The rate limiter has answered; past the limit the message is refused.
Dispatch(c, m) ==
  /\ \/ UNCHANGED <<socket, tables, casting, late>>
     \/ /\ Handle(c, m)
        /\ late' = IF c \notin live /\ m.kind \in {"join", "subscribe", "track"}
                   THEN late \cup {c} ELSE late
  /\ UNCHANGED <<scope, auth, rescoped>>

HandleNext(c) ==
  /\ inbox[c] # <<>>
  /\ inbox' = [inbox EXCEPT ![c] = Tail(@)]
  /\ UNCHANGED slow
  /\ Dispatch(c, Head(inbox[c]))
HandleSlow(c) ==
  /\ slow[c] # NoMessage
  /\ slow' = [slow EXCEPT ![c] = NoMessage]
  /\ UNCHANGED inbox
  /\ Dispatch(c, slow[c])

\* broadcast() after its await, or the refusal of the broadcast limit.
Cast(c, n) ==
  /\ n \in casting[c]
  /\ casting' = [casting EXCEPT ![c] = @ \ {n}]
  /\ Deliver(socket, members, present, served, Hearers(c, n, members), {})
  /\ UNCHANGED <<scope, channels, subs, inbox, slow, auth, late, rescoped>>
RefuseCast(c, n) ==
  /\ n \in casting[c]
  /\ casting' = [casting EXCEPT ![c] = @ \ {n}]
  /\ UNCHANGED <<socket, scope, tables, inbox, slow, auth, late, rescoped>>

Next ==
  \/ \E c \in Conns :
       \/ Accept(c) \/ HeartbeatTimeout(c) \/ SocketClosed(c)
       \/ Receive(c) \/ Authenticated(c) \/ FirstInWindow(c)
       \/ HandleNext(c) \/ HandleSlow(c)
       \/ \E n \in Names : Cast(c, n) \/ RefuseCast(c, n)
  \/ \E s \in Scopes : Publish(s)

Spec == Init /\ [][Next]_vars
-----------------------------------------------------------------------------
(* Properties                                                              *)

Removed == {c \in Conns : socket[c] # "new"} \ live
Mine(c) == {k \in Slots : subs[c][k] # Free}
OwnRooms(c) == {<<scope[c], Key[n]>> : n \in channels[c]}
SpelledOnce == {r \in Rooms : \E n \in Names : {x \in Names : Key[x] = r} = {n}}

\* The channel table and the connections' own sets say the same of every live
\* connection with one scope: it is a member of the channels it has joined,
\* and of no other.  (Not of names that differ in case only: leaving one of
\* them leaves the channel they share.)
RoomsMirrorConnections ==
  \A c \in live \ rescoped, k \in DOMAIN members : k[2] \in SpelledOnce =>
    (c \in members[k] <=> k \in OwnRooms(c))

\* Whatever the spelling, nobody is a member of a channel it has not joined.
MembersHaveJoined ==
  \A c \in live \ rescoped : {k \in DOMAIN members : c \in members[k]} \subseteq OwnRooms(c)

\* A live connection is shown as present only where it is a member, so its
\* presence_leave reaches those who saw it come.  (Again not of names that
\* differ in case: who left one may still track itself under the other.)
PresentAreMembers ==
  \A c \in live \ rescoped, k \in DOMAIN present :
    k[2] \in SpelledOnce /\ c \in present[k] => c \in members[k]

\* subscriptionManager serves exactly the subscriptions a live connection has.
SubscriptionsAgree ==
  \A c \in live : {k \in Slots : <<c, k>> \in served} = Mine(c)

\* A removed connection leaves no trace in any table, whichever of the ways to
\* remove it was taken, unless one of its messages was handled afterwards.
RemovedLeavesNoTrace ==
  \A c \in Removed \ late :
    /\ \A k \in DOMAIN members : c \notin members[k] /\ c \notin present[k]
    /\ \A k \in Slots : <<c, k>> \notin served

=============================================================================
