------------------------- MODULE RealtimeSessionProofs -------------------------
(* Proofs about the WebSocket sessions of one instance (RealtimeSession).   *)
EXTENDS RealtimeSession, FiniteSetTheorems, TLAPS

Places == Scopes \X Rooms
RoomTables == [Places -> SUBSET Conns]
ServedTables == SUBSET (Conns \X Slots)
ChannelSets == [Conns -> SUBSET Names]
SubSets == [Conns -> [Slots -> Subscriptions]]

-----------------------------------------------------------------------------
(* The tables                                                               *)

\* One connection in the channel and the presence table, beside its own set.
RoomsFit(c, mem, pres, chs) ==
  \A k \in Places :
    /\ c \in mem[k] => \E n \in chs : k = Place(c, n)
    /\ k[2] \in SpelledOnce /\ (\E n \in chs : k = Place(c, n)) => c \in mem[k]
    /\ k[2] \in SpelledOnce /\ c \in pres[k] => c \in mem[k]
SubsFit(c, sv, sub) == \A k \in Slots : <<c, k>> \in sv <=> sub[k] # Free
NoTrace(c, mem, pres, sv) ==
  /\ \A k \in Places : c \notin mem[k] /\ c \notin pres[k]
  /\ \A k \in Slots : <<c, k>> \notin sv
Nothing(chs, sub) == chs = {} /\ \A k \in Slots : sub[k] = Free

\* The relations between the tables and the connection objects: of live
\* connections, of removed ones, and of those that have no scope yet.
TableTypes(mem, pres, sv, chs, sbs) ==
  /\ mem \in RoomTables /\ pres \in RoomTables /\ sv \in ServedTables
  /\ chs \in ChannelSets /\ sbs \in SubSets
  /\ \A c \in Conns : IsFiniteSet(chs[c]) /\ Cardinality(chs[c]) <= MaxChannels
RoomsOK(mem, pres, chs) == \A c \in live \ rescoped : RoomsFit(c, mem, pres, chs[c])
SubsOK(sv, sbs) == \A c \in live : SubsFit(c, sv, sbs[c])
RemovedOK(mem, pres, sv, lt) == \A c \in Removed \ lt : NoTrace(c, mem, pres, sv)
ScopelessOK(mem, pres, sv, chs, sbs) ==
  \A c \in Conns : scope[c] = NoScope => Nothing(chs[c], sbs[c]) /\ NoTrace(c, mem, pres, sv)
Prepared(mem, pres, sv, chs, sbs, lt) ==
  /\ TableTypes(mem, pres, sv, chs, sbs)
  /\ RoomsOK(mem, pres, chs) /\ SubsOK(sv, sbs) /\ RemovedOK(mem, pres, sv, lt)
  /\ ScopelessOK(mem, pres, sv, chs, sbs)
Tables == Prepared(members, present, served, channels, subs, late)

\* The connections and the handlers that wait.
Sessions ==
  /\ socket \in [Conns -> {"new", "open", "closing", "closed"}]
  /\ live \subseteq Conns /\ scope \in [Conns -> Scopes \cup {NoScope}]
  /\ inbox \in [Conns -> Seq(Messages)]
  /\ slow \in [Conns -> Messages \cup {NoMessage}]
  /\ auth \in [Conns -> SUBSET Scopes] /\ casting \in [Conns -> SUBSET Names]
  /\ late \subseteq Conns /\ rescoped \subseteq Conns
\* Without a scope no message is taken; a new socket has nothing at all.
Fresh ==
  \A c \in Conns :
    /\ scope[c] = NoScope => inbox[c] = <<>> /\ slow[c] = NoMessage /\ casting[c] = {}
    /\ socket[c] = "new" => c \notin live /\ scope[c] = NoScope /\ auth[c] = {}
SessionInv == Sessions /\ Fresh /\ Tables

\* What a delivery does, whoever hears it: some connections are removed.
Swept(sock, mem, pres, sv, away, gone) ==
  /\ gone \subseteq away /\ away \subseteq gone \cup live
  /\ live' = live \ away
  /\ members' = Strip(mem, away) /\ present' = Strip(pres, away)
  /\ served' = ServedWithout(sv, away)
  /\ socket' = [c \in Conns |-> IF c \in away \ gone THEN "closing" ELSE sock[c]]

LEMMA DeliverSweeps ==
  ASSUME NEW sock, NEW mem, NEW pres, NEW sv, NEW hearers, NEW gone,
         Deliver(sock, mem, pres, sv, hearers, gone)
  PROVE  \E away : Swept(sock, mem, pres, sv, away, gone)
<1>1. PICK full \in SUBSET (live \ gone) :
        /\ live' = live \ (gone \cup full)
        /\ members' = Strip(mem, gone \cup full)
        /\ present' = StripPresence(pres, gone \cup full)
        /\ served' = ServedWithout(sv, gone \cup full)
        /\ socket' = [c \in Conns |-> IF c \in full THEN "closing" ELSE sock[c]]
  BY DEF Deliver
<1>2. (gone \cup full) \ gone = full  OBVIOUS
<1> QED  BY <1>1, <1>2 DEF Swept, StripPresence

\* What is not removed keeps its entries, what is removed loses them.
LEMMA SweepEntries ==
  ASSUME NEW mem \in RoomTables, NEW away
  PROVE  /\ Strip(mem, away) \in RoomTables
         /\ \A k \in Places : \A c : c \in Strip(mem, away)[k] <=> c \in mem[k] /\ c \notin away
BY DEF Strip, RoomTables

\* Removals keep the tables in step.
LEMMA SweepStep ==
  ASSUME NEW sock, NEW mem, NEW pres, NEW sv, NEW away, NEW gone,
         Prepared(mem, pres, sv, channels', subs', late'), live \subseteq Conns,
         Swept(sock, mem, pres, sv, away, gone), scope' = scope, rescoped' = rescoped,
         \A c \in Conns : sock[c] # "new" => socket[c] # "new" \/ c \in away
  PROVE  Tables'
<1>t. TableTypes(mem, pres, sv, channels', subs')  BY DEF Prepared
<1>1. /\ members' \in RoomTables /\ present' \in RoomTables
      /\ \A k \in Places : \A c : /\ c \in members'[k] <=> c \in mem[k] /\ c \notin away
                                  /\ c \in present'[k] <=> c \in pres[k] /\ c \notin away
  BY <1>t, SweepEntries DEF Swept, TableTypes
<1>2. /\ served' \in ServedTables
      /\ \A k \in Slots, c \in Conns : <<c, k>> \in served' <=> <<c, k>> \in sv /\ c \notin away
  BY <1>t DEF Swept, TableTypes, ServedWithout, ServedTables
<1>3. live' = live \ away  BY DEF Swept
<1>4. TableTypes(members, present, served, channels, subs)'  BY <1>t, <1>1, <1>2 DEF TableTypes
<1>5. RoomsOK(members, present, channels)'
  BY <1>1, <1>3 DEF Prepared, RoomsOK, RoomsFit, Place
<1>6. SubsOK(served, subs)'  BY <1>2, <1>3 DEF Prepared, SubsOK, SubsFit
<1>7. RemovedOK(members, present, served, late)'
  <2> SUFFICES ASSUME NEW c \in Conns, socket'[c] # "new", c \notin live', c \notin late'
               PROVE  NoTrace(c, members', present', served')
    BY DEF RemovedOK, Removed
  <2>1. CASE c \in away  BY <2>1, <1>1, <1>2 DEF NoTrace
  <2>2. CASE c \notin away
    <3>1. socket[c] # "new" /\ c \notin live  BY <2>2, <1>3 DEF Swept
    <3>2. NoTrace(c, mem, pres, sv)  BY <3>1 DEF Prepared, RemovedOK, Removed
    <3> QED  BY <2>2, <3>2, <1>1, <1>2 DEF NoTrace
  <2> QED  BY <2>1, <2>2
<1>8. ScopelessOK(members, present, served, channels, subs)'
  BY <1>1, <1>2 DEF Prepared, ScopelessOK, NoTrace
<1> QED  BY <1>4, <1>5, <1>6, <1>7, <1>8 DEF Tables, Prepared

\* A step that removes nobody.
LEMMA QuietSweep ==
  ASSUME Quietly, live \subseteq Conns, socket \in [Conns -> {"new", "open", "closing", "closed"}],
         members' \in RoomTables, present' \in RoomTables, served' \in ServedTables
  PROVE  Swept(socket, members', present', served', {}, {})
<1>1. Strip(members', {}) = members' /\ Strip(present', {}) = present'
  BY DEF Strip, RoomTables
<1>2. ServedWithout(served', {}) = served'  BY DEF ServedWithout
<1>3. socket' = [c \in Conns |-> IF c \in {} \ {} THEN "closing" ELSE socket[c]]  BY DEF Quietly
<1> QED  BY <1>1, <1>2, <1>3 DEF Swept, Quietly

-----------------------------------------------------------------------------
(* What the handlers do to the tables before a delivery                     *)

LEMMA AddEntry ==
  ASSUME NEW mem \in RoomTables, NEW p \in Places, NEW c \in Conns
  PROVE  /\ [mem EXCEPT ![p] = @ \cup {c}] \in RoomTables
         /\ \A k \in Places : \A d : d \in [mem EXCEPT ![p] = @ \cup {c}][k]
                                       <=> d \in mem[k] \/ (d = c /\ k = p)
BY DEF RoomTables

LEMMA DropEntry ==
  ASSUME NEW mem \in RoomTables, NEW p \in Places, NEW c \in Conns
  PROVE  /\ [mem EXCEPT ![p] = @ \ {c}] \in RoomTables
         /\ \A k \in Places : \A d : d \in [mem EXCEPT ![p] = @ \ {c}][k]
                                       <=> d \in mem[k] /\ ~(d = c /\ k = p)
BY DEF RoomTables

LEMMA PlaceIsOne ==
  ASSUME NEW c \in Conns, scope[c] \in Scopes, NEW n \in Names
  PROVE  Place(c, n) \in Places /\ Place(c, n)[2] = Key[n]
BY NamesAssumption DEF Place, Places

\* A name that is spelled in one way only has its channel for itself.
LEMMA OneSpelling ==
  ASSUME NEW n \in Names, NEW x \in Names, Key[n] = Key[x], Key[n] \in SpelledOnce
  PROVE  n = x
BY DEF SpelledOnce

\* join(): the connection and the channel get the name, up to the limit.
LEMMA JoinPrepares ==
  ASSUME Tables, live \subseteq Conns, NEW c \in Conns, scope[c] \in Scopes,
         NEW n \in Names, NEW lt, late \subseteq lt, c \in live \/ c \in lt
  PROVE  Prepared(WithMember(c, n), present, served, Joined(c, n), subs, lt)
<1>t. TableTypes(members, present, served, channels, subs)  BY DEF Tables, Prepared
<1>o. RemovedOK(members, present, served, lt)  BY DEF Tables, Prepared, RemovedOK
<1>1. CASE ~Joins(c, n)
  <2>1. WithMember(c, n) = members /\ Joined(c, n) = channels  BY <1>1 DEF WithMember, Joined
  <2> QED  BY <2>1, <1>o DEF Tables, Prepared
<1>2. CASE Joins(c, n)
  <2> DEFINE mem == [members EXCEPT ![Place(c, n)] = @ \cup {c}]
             chs == [channels EXCEPT ![c] = @ \cup {n}]
  <2>1. WithMember(c, n) = mem /\ Joined(c, n) = chs  BY <1>2 DEF WithMember, Joined
  <2>2. /\ mem \in RoomTables
        /\ \A k \in Places : \A d : d \in mem[k] <=> d \in members[k] \/ (d = c /\ k = Place(c, n))
    BY <1>t, PlaceIsOne, AddEntry DEF TableTypes
  <2>3. /\ chs \in ChannelSets
        /\ chs[c] = channels[c] \cup {n} /\ \A d \in Conns \ {c} : chs[d] = channels[d]
    BY <1>t DEF TableTypes, ChannelSets
  <2> HIDE DEF mem, chs
  <2>4. IsFiniteSet(chs[c]) /\ Cardinality(chs[c]) <= MaxChannels
    <3>1. IsFiniteSet(channels[c]) /\ Cardinality(channels[c]) <= MaxChannels  BY <1>t DEF TableTypes
    <3>2. /\ IsFiniteSet(channels[c] \cup {n})
          /\ \/ Cardinality(channels[c] \cup {n}) = Cardinality(channels[c])
             \/ n \notin channels[c] /\ Cardinality(channels[c] \cup {n}) = Cardinality(channels[c]) + 1
      BY <3>1, FS_AddElement
    <3>3. n \notin channels[c] => Cardinality(channels[c]) < MaxChannels  BY <1>2 DEF Joins
    <3>4. Cardinality(channels[c]) \in Nat  BY <3>1, FS_CardinalityType
    <3> QED  BY <3>1, <3>2, <3>3, <3>4, <2>3, LimitsAssumption
  <2>5. TableTypes(mem, present, served, chs, subs)  BY <1>t, <2>2, <2>3, <2>4 DEF TableTypes
  <2>6. RoomsOK(mem, present, chs)
    <3> SUFFICES ASSUME NEW d \in live \ rescoped, NEW k \in Places
                 PROVE  /\ d \in mem[k] => \E x \in chs[d] : k = Place(d, x)
                        /\ k[2] \in SpelledOnce /\ (\E x \in chs[d] : k = Place(d, x)) => d \in mem[k]
                        /\ k[2] \in SpelledOnce /\ d \in present[k] => d \in mem[k]
      BY DEF RoomsOK, RoomsFit
    <3>1. /\ d \in members[k] => \E x \in channels[d] : k = Place(d, x)
          /\ k[2] \in SpelledOnce /\ (\E x \in channels[d] : k = Place(d, x)) => d \in members[k]
          /\ k[2] \in SpelledOnce /\ d \in present[k] => d \in members[k]
      BY DEF Tables, Prepared, RoomsOK, RoomsFit
    <3>2. CASE d = c  BY <3>1, <3>2, <2>2, <2>3
    <3>3. CASE d # c  BY <3>1, <3>3, <2>2, <2>3
    <3> QED  BY <3>2, <3>3
  <2>7. SubsOK(served, subs)  BY DEF Tables, Prepared
  <2>8. RemovedOK(mem, present, served, lt)
    BY <1>o, <2>2 DEF RemovedOK, NoTrace, Removed
  <2>9. ScopelessOK(mem, present, served, chs, subs)
    <3> SUFFICES ASSUME NEW d \in Conns, scope[d] = NoScope
                 PROVE  Nothing(chs[d], subs[d]) /\ NoTrace(d, mem, present, served)
      BY DEF ScopelessOK
    <3>1. d # c  BY ScopesAssumption
    <3>2. Nothing(channels[d], subs[d]) /\ NoTrace(d, members, present, served)
      BY DEF Tables, Prepared, ScopelessOK
    <3> QED  BY <3>1, <3>2, <2>2, <2>3 DEF NoTrace
  <2> QED  BY <2>1, <2>5, <2>6, <2>7, <2>8, <2>9 DEF Prepared
<1> QED  BY <1>1, <1>2

\* leave() of a channel: the name goes, with membership and presence.
LEMMA LeavePrepares ==
  ASSUME Tables, live \subseteq Conns, NEW c \in Conns, scope[c] \in Scopes,
         NEW n \in channels[c]
  PROVE  Prepared(MembersAfterLeave(c, n), PresentWithout(c, n), served,
                  [channels EXCEPT ![c] = @ \ {n}], subs, late)
<1>t. TableTypes(members, present, served, channels, subs)  BY DEF Tables, Prepared
<1>n. n \in Names  BY <1>t DEF TableTypes, ChannelSets
<1> DEFINE mem == MembersAfterLeave(c, n)
           pres == PresentWithout(c, n)
           chs == [channels EXCEPT ![c] = @ \ {n}]
<1>1. /\ mem \in RoomTables
      /\ \A k \in Places : \A d : d \in mem[k] <=> d \in members[k] /\ ~(d = c /\ k = Place(c, n))
  BY <1>t, <1>n, PlaceIsOne, DropEntry DEF TableTypes, MembersAfterLeave
<1>2. /\ pres \in RoomTables
      /\ \A k \in Places : \A d : d \in pres[k] <=> d \in present[k] /\ ~(d = c /\ k = Place(c, n))
  BY <1>t, <1>n, PlaceIsOne, DropEntry DEF TableTypes, PresentWithout
<1>3. /\ chs \in ChannelSets
      /\ chs[c] = channels[c] \ {n} /\ \A d \in Conns \ {c} : chs[d] = channels[d]
  BY <1>t DEF TableTypes, ChannelSets
<1> HIDE DEF mem, pres, chs
<1>4. IsFiniteSet(chs[c]) /\ Cardinality(chs[c]) <= MaxChannels
  <2>1. IsFiniteSet(channels[c]) /\ Cardinality(channels[c]) <= MaxChannels  BY <1>t DEF TableTypes
  <2>2. /\ IsFiniteSet(channels[c] \ {n})
        /\ Cardinality(channels[c] \ {n}) = Cardinality(channels[c]) - 1
    BY <2>1, FS_RemoveElement
  <2>3. Cardinality(channels[c]) \in Nat  BY <2>1, FS_CardinalityType
  <2> QED  BY <2>1, <2>2, <2>3, <1>3, LimitsAssumption
<1>5. TableTypes(mem, pres, served, chs, subs)  BY <1>t, <1>1, <1>2, <1>3, <1>4 DEF TableTypes
<1>6. RoomsOK(mem, pres, chs)
  <2> SUFFICES ASSUME NEW d \in live \ rescoped, NEW k \in Places
               PROVE  /\ d \in mem[k] => \E x \in chs[d] : k = Place(d, x)
                      /\ k[2] \in SpelledOnce /\ (\E x \in chs[d] : k = Place(d, x)) => d \in mem[k]
                      /\ k[2] \in SpelledOnce /\ d \in pres[k] => d \in mem[k]
    BY DEF RoomsOK, RoomsFit
  <2>1. /\ d \in members[k] => \E x \in channels[d] : k = Place(d, x)
        /\ k[2] \in SpelledOnce /\ (\E x \in channels[d] : k = Place(d, x)) => d \in members[k]
        /\ k[2] \in SpelledOnce /\ d \in present[k] => d \in members[k]
    BY DEF Tables, Prepared, RoomsOK, RoomsFit
  <2>2. CASE d = c
    <3>1. ASSUME NEW x \in chs[c], k = Place(c, x), k[2] \in SpelledOnce  PROVE k # Place(c, n)
      <4>1. x \in Names /\ x # n /\ x \in channels[c]  BY <1>t, <1>3 DEF TableTypes, ChannelSets
      <4>2. k[2] = Key[x]  BY <3>1, <4>1, PlaceIsOne
      <4>3. k = Place(c, n) => Key[n] = Key[x]  BY <4>2, <1>n, PlaceIsOne
      <4> QED  BY <4>1, <4>2, <4>3, <3>1, <1>n, OneSpelling
    <3> QED  BY <2>1, <2>2, <3>1, <1>1, <1>2, <1>3
  <2>3. CASE d # c  BY <2>1, <2>3, <1>1, <1>2, <1>3
  <2> QED  BY <2>2, <2>3
<1>7. SubsOK(served, subs)  BY DEF Tables, Prepared
<1>8. RemovedOK(mem, pres, served, late)
  BY <1>1, <1>2 DEF Tables, Prepared, RemovedOK, NoTrace
<1>9. ScopelessOK(mem, pres, served, chs, subs)
  <2> SUFFICES ASSUME NEW d \in Conns, scope[d] = NoScope
               PROVE  Nothing(chs[d], subs[d]) /\ NoTrace(d, mem, pres, served)
    BY DEF ScopelessOK
  <2>1. d # c  BY ScopesAssumption
  <2>2. Nothing(channels[d], subs[d]) /\ NoTrace(d, members, present, served)
    BY DEF Tables, Prepared, ScopelessOK
  <2> QED  BY <2>1, <2>2, <1>1, <1>2, <1>3 DEF NoTrace
<1> QED  BY <1>5, <1>6, <1>7, <1>8, <1>9 DEF Prepared, mem, pres, chs

\* track() in a channel that was joined.
LEMMA TrackPrepares ==
  ASSUME Tables, live \subseteq Conns, NEW c \in Conns, scope[c] \in Scopes,
         NEW n \in channels[c], NEW lt, late \subseteq lt, c \in live \/ c \in lt
  PROVE  Prepared(members, [present EXCEPT ![Place(c, n)] = @ \cup {c}], served, channels, subs, lt)
<1>t. TableTypes(members, present, served, channels, subs)  BY DEF Tables, Prepared
<1>n. n \in Names  BY <1>t DEF TableTypes, ChannelSets
<1> DEFINE pres == [present EXCEPT ![Place(c, n)] = @ \cup {c}]
<1>1. /\ pres \in RoomTables
      /\ \A k \in Places : \A d : d \in pres[k] <=> d \in present[k] \/ (d = c /\ k = Place(c, n))
  BY <1>t, <1>n, PlaceIsOne, AddEntry DEF TableTypes
<1> HIDE DEF pres
<1>2. TableTypes(members, pres, served, channels, subs)  BY <1>t, <1>1 DEF TableTypes
<1>3. RoomsOK(members, pres, channels)
  BY <1>1 DEF Tables, Prepared, RoomsOK, RoomsFit
<1>4. RemovedOK(members, pres, served, lt)
  BY <1>1 DEF Tables, Prepared, RemovedOK, NoTrace, Removed
<1>5. ScopelessOK(members, pres, served, channels, subs)
  BY <1>1, ScopesAssumption DEF Tables, Prepared, ScopelessOK, NoTrace
<1> QED  BY <1>2, <1>3, <1>4, <1>5 DEF Tables, Prepared, pres

\* untrack(), and the presence part of a removal.
LEMMA UntrackPrepares ==
  ASSUME Tables, NEW c \in Conns, scope[c] \in Scopes, NEW n \in Names
  PROVE  Prepared(members, PresentWithout(c, n), served, channels, subs, late)
<1>t. TableTypes(members, present, served, channels, subs)  BY DEF Tables, Prepared
<1> DEFINE pres == PresentWithout(c, n)
<1>1. /\ pres \in RoomTables
      /\ \A k \in Places : \A d : d \in pres[k] => d \in present[k]
  BY <1>t, PlaceIsOne, DropEntry DEF TableTypes, PresentWithout
<1> HIDE DEF pres
<1>2. TableTypes(members, pres, served, channels, subs)  BY <1>t, <1>1 DEF TableTypes
<1>3. RoomsOK(members, pres, channels)
  BY <1>1 DEF Tables, Prepared, RoomsOK, RoomsFit
<1>4. RemovedOK(members, pres, served, late)
  BY <1>1 DEF Tables, Prepared, RemovedOK, NoTrace
<1>5. ScopelessOK(members, pres, served, channels, subs)
  BY <1>1 DEF Tables, Prepared, ScopelessOK, NoTrace
<1> QED  BY <1>2, <1>3, <1>4, <1>5 DEF Tables, Prepared, pres

\* subscribe() after its join: the slot and the server's table are filled.
LEMMA SubscribePrepares ==
  ASSUME NEW mem, NEW chs, NEW lt, Prepared(mem, present, served, chs, subs, lt),
         NEW c \in Conns, scope[c] \in Scopes, NEW n \in Names, NEW k \in Slots,
         live \subseteq Conns, c \in live \/ c \in lt
  PROVE  Prepared(mem, present, served \cup {<<c, k>>}, chs,
                  [subs EXCEPT ![c][k] = [scope |-> scope[c], name |-> n]], lt)
<1> DEFINE sub == [scope |-> scope[c], name |-> n]
           sbs == [subs EXCEPT ![c][k] = sub]
           sv == served \cup {<<c, k>>}
<1>t. TableTypes(mem, present, served, chs, subs)  BY DEF Prepared
<1>1. sub \in Subscriptions  BY DEF Subscriptions
<1>2. sub # Free
  <2>1. sub.scope = scope[c] /\ Free.scope = NoScope  BY DEF Free
  <2> QED  BY <2>1, ScopesAssumption
<1> HIDE DEF sub
<1>3. /\ sbs \in SubSets /\ sv \in ServedTables
      /\ \A d \in Conns, i \in Slots :
           sbs[d][i] = IF d = c /\ i = k THEN sub ELSE subs[d][i]
  BY <1>t, <1>1 DEF TableTypes, SubSets, ServedTables
<1>4. \A d, i : <<d, i>> \in sv <=> <<d, i>> \in served \/ (d = c /\ i = k)  OBVIOUS
<1> HIDE DEF sbs, sv
<1>5. TableTypes(mem, present, sv, chs, sbs)  BY <1>t, <1>3 DEF TableTypes
<1>6. SubsOK(sv, sbs)
  BY <1>2, <1>3, <1>4 DEF Prepared, SubsOK, SubsFit
<1>7. RemovedOK(mem, present, sv, lt)
  BY <1>4 DEF Prepared, RemovedOK, NoTrace, Removed
<1>8. ScopelessOK(mem, present, sv, chs, sbs)
  BY <1>3, <1>4, ScopesAssumption DEF Prepared, ScopelessOK, NoTrace, Nothing
<1> QED  BY <1>5, <1>6, <1>7, <1>8 DEF Prepared, sbs, sv, sub

\* unsubscribe(): the slots of the name are free in both tables.
LEMMA UnsubscribePrepares ==
  ASSUME Tables, live \subseteq Conns, NEW c \in Conns, scope[c] \in Scopes, NEW n \in Names
  PROVE  Prepared(members, present, ServedAfter(c, n), channels,
                  [subs EXCEPT ![c] = [k \in Slots |-> IF k \in Named(c, n) THEN Free ELSE @[k]]], late)
<1> DEFINE sbs == [subs EXCEPT ![c] = [k \in Slots |-> IF k \in Named(c, n) THEN Free ELSE @[k]]]
           sv == ServedAfter(c, n)
<1>t. TableTypes(members, present, served, channels, subs)  BY DEF Tables, Prepared
<1>1. /\ sbs \in SubSets
      /\ \A d \in Conns, i \in Slots :
           sbs[d][i] = IF d = c /\ i \in Named(c, n) THEN Free ELSE subs[d][i]
  BY <1>t DEF TableTypes, SubSets, Subscriptions
<1>2. /\ sv \in ServedTables
      /\ \A d, i : <<d, i>> \in sv <=> <<d, i>> \in served /\ ~(d = c /\ i \in Named(c, n))
  BY <1>t DEF TableTypes, ServedTables, ServedAfter
<1> HIDE DEF sbs, sv
<1>3. TableTypes(members, present, sv, channels, sbs)  BY <1>t, <1>1, <1>2 DEF TableTypes
<1>4. SubsOK(sv, sbs)
  BY <1>1, <1>2 DEF Tables, Prepared, SubsOK, SubsFit
<1>5. RemovedOK(members, present, sv, late)
  BY <1>2 DEF Tables, Prepared, RemovedOK, NoTrace
<1>6. ScopelessOK(members, present, sv, channels, sbs)
  BY <1>1, <1>2 DEF Tables, Prepared, ScopelessOK, NoTrace, Nothing
<1> QED  BY <1>3, <1>4, <1>5, <1>6 DEF Tables, Prepared, sbs, sv

-----------------------------------------------------------------------------
(* Steps                                                                    *)

SocketTypes == [Conns -> {"new", "open", "closing", "closed"}]
SocketsKept ==
  /\ socket' \in SocketTypes /\ live' \subseteq live
  /\ \A d \in Conns : socket'[d] = "new" => socket[d] = "new"

LEMMA DeliverKeeps ==
  ASSUME NEW sock \in SocketTypes, NEW mem, NEW pres, NEW sv, NEW hearers, NEW gone,
         Prepared(mem, pres, sv, channels', subs', late'), Sessions,
         Deliver(sock, mem, pres, sv, hearers, gone), scope' = scope, rescoped' = rescoped,
         \A d \in Conns : sock[d] = "new" => socket[d] = "new",
         \A d \in Conns : sock[d] # "new" => socket[d] # "new" \/ d \in gone
  PROVE  Tables' /\ SocketsKept
<1>1. PICK away : Swept(sock, mem, pres, sv, away, gone)  BY DeliverSweeps
<1>2. \A d \in Conns : sock[d] # "new" => socket[d] # "new" \/ d \in away  BY <1>1 DEF Swept
<1>3. live \subseteq Conns  BY DEF Sessions
<1>4. Tables'  BY <1>1, <1>2, <1>3, SweepStep
<1>5. SocketsKept  BY <1>1 DEF Swept, SocketsKept, SocketTypes
<1> QED  BY <1>4, <1>5

LEMMA QuietKeeps ==
  ASSUME Quietly, Sessions, Prepared(members', present', served', channels', subs', late'),
         scope' = scope, rescoped' = rescoped
  PROVE  Tables' /\ SocketsKept
<1>1. members' \in RoomTables /\ present' \in RoomTables /\ served' \in ServedTables
  BY DEF Prepared, TableTypes
<1>2. live \subseteq Conns /\ socket \in SocketTypes  BY DEF Sessions, SocketTypes
<1>3. Swept(socket, members', present', served', {}, {})
  BY <1>1, <1>2, QuietSweep DEF SocketTypes
<1>4. PICK mem, pres, sv : mem = members' /\ pres = present' /\ sv = served'  OBVIOUS
<1>5. Tables'  BY <1>2, <1>3, <1>4, SweepStep
<1>6. SocketsKept  BY <1>2 DEF Quietly, SocketsKept
<1> QED  BY <1>5, <1>6

\* What a message's handler does keeps the tables in step.
LEMMA HandleKeeps ==
  ASSUME SessionInv, NEW c \in Conns, scope[c] \in Scopes, NEW m \in Messages, Handle(c, m),
         scope' = scope, rescoped' = rescoped,
         late' = IF c \notin live /\ m.kind \in {"join", "subscribe", "track"}
                 THEN late \cup {c} ELSE late
  PROVE  /\ Tables' /\ SocketsKept
         /\ casting' \in [Conns -> SUBSET Names]
         /\ \A d \in Conns \ {c} : casting'[d] = casting[d]
<1>b. Sessions /\ Tables /\ live \subseteq Conns /\ socket \in SocketTypes
  BY DEF SessionInv, Sessions, SocketTypes
<1>k. casting \in [Conns -> SUBSET Names]  BY <1>b DEF Sessions
<1>m. m.kind \in Kinds => m.name \in Names  BY DEF Messages, Kinds
<1>l. late \subseteq late'  OBVIOUS
<1>c. channels[c] \subseteq Names  BY <1>b DEF Tables, Prepared, TableTypes, ChannelSets
<1>s. \A d \in Conns : socket[d] # "new" => socket[d] # "new" \/ d \in {}  OBVIOUS
<1>1. CASE m.kind = "connect" /\ UNCHANGED <<socket, tables, casting>>
  <2>1. late' = late  BY <1>1
  <2>2. Prepared(members', present', served', channels', subs', late')
    BY <1>1, <2>1, <1>b DEF tables, Tables
  <2> QED  BY <2>2, <1>1, <1>b, <1>k, QuietKeeps DEF Quietly, tables
<1>2. CASE m.kind = "join" /\ Join(c, m.name)
  <2>0. m.name \in Names  BY <1>2, <1>m DEF Kinds
  <2>1. c \in live \/ c \in late'  BY <1>2
  <2>2. Prepared(WithMember(c, m.name), present, served, Joined(c, m.name), subs, late')
    BY <2>0, <2>1, <1>b, <1>l, JoinPrepares
  <2>3. Prepared(members', present', served', channels', subs', late')  BY <2>2, <1>2 DEF Join
  <2>4. Quietly /\ casting' = casting  BY <1>2 DEF Join
  <2> QED  BY <2>3, <2>4, <1>b, <1>k, QuietKeeps
<1>3. CASE m.kind = "leave" /\ Leave(c, m.name)
  <2>1. late' = late /\ subs' = subs /\ casting' = casting  BY <1>3 DEF Leave
  <2>2. CASE m.name \in channels[c]
    <3>1. Prepared(MembersAfterLeave(c, m.name), PresentWithout(c, m.name), served,
                   [channels EXCEPT ![c] = @ \ {m.name}], subs, late)
      BY <2>2, <1>b, LeavePrepares
    <3>2. PICK hearers : /\ channels' = [channels EXCEPT ![c] = @ \ {m.name}]
                         /\ Deliver(socket, MembersAfterLeave(c, m.name),
                                    PresentWithout(c, m.name), served, hearers, {})
      BY <2>2, <1>3 DEF Leave
    <3>3. Prepared(MembersAfterLeave(c, m.name), PresentWithout(c, m.name), served,
                   channels', subs', late')
      BY <3>1, <3>2, <2>1
    <3>4. Tables' /\ SocketsKept  BY <3>2, <3>3, <1>b, <1>s, DeliverKeeps
    <3> QED  BY <3>4, <2>1, <1>k
  <2>3. CASE m.name \notin channels[c]
    <3>1. Quietly /\ UNCHANGED <<channels, members, present, served>>  BY <2>3, <1>3 DEF Leave
    <3>2. Prepared(members', present', served', channels', subs', late')
      BY <3>1, <2>1, <1>b DEF Tables
    <3> QED  BY <3>1, <3>2, <2>1, <1>b, <1>k, QuietKeeps
  <2> QED  BY <2>2, <2>3
<1>4. CASE m.kind = "subscribe" /\ Subscribe(c, m.name)
  <2>0. m.name \in Names  BY <1>4, <1>m DEF Kinds
  <2>1. c \in live \/ c \in late'  BY <1>4
  <2>2. Quietly /\ casting' = casting /\ present' = present  BY <1>4 DEF Subscribe
  <2>3. CASE \E k \in Slots :
               /\ channels' = Joined(c, m.name) /\ members' = WithMember(c, m.name)
               /\ subs' = [subs EXCEPT ![c][k] = [scope |-> scope[c], name |-> m.name]]
               /\ served' = served \cup {<<c, k>>}
    <3>1. PICK k \in Slots :
               /\ channels' = Joined(c, m.name) /\ members' = WithMember(c, m.name)
               /\ subs' = [subs EXCEPT ![c][k] = [scope |-> scope[c], name |-> m.name]]
               /\ served' = served \cup {<<c, k>>}
      BY <2>3
    <3>2. Prepared(WithMember(c, m.name), present, served, Joined(c, m.name), subs, late')
      BY <2>0, <2>1, <1>b, <1>l, JoinPrepares
    <3>3. Prepared(WithMember(c, m.name), present, served \cup {<<c, k>>}, Joined(c, m.name),
                   [subs EXCEPT ![c][k] = [scope |-> scope[c], name |-> m.name]], late')
      BY <3>2, <2>0, <2>1, <1>b, SubscribePrepares
    <3>4. Prepared(members', present', served', channels', subs', late')
      BY <3>1, <3>3, <2>2
    <3> QED  BY <3>4, <2>2, <1>b, <1>k, QuietKeeps
  <2>4. CASE UNCHANGED <<channels, members, subs, served>>
    <3>1. RemovedOK(members, present, served, late')
      BY <1>b, <1>l DEF Tables, Prepared, RemovedOK
    <3>2. Prepared(members', present', served', channels', subs', late')
      BY <3>1, <2>2, <2>4, <1>b DEF Tables, Prepared
    <3> QED  BY <3>2, <2>2, <1>b, <1>k, QuietKeeps
  <2> QED  BY <2>3, <2>4, <1>4 DEF Subscribe
<1>5. CASE m.kind = "unsubscribe" /\ Unsubscribe(c, m.name)
  <2>0. m.name \in Names  BY <1>5, <1>m DEF Kinds
  <2>1. late' = late  BY <1>5
  <2>2. Prepared(members, present, ServedAfter(c, m.name), channels,
          [subs EXCEPT ![c] = [k \in Slots |-> IF k \in Named(c, m.name) THEN Free ELSE @[k]]], late)
    BY <2>0, <1>b, UnsubscribePrepares
  <2>3. Prepared(members', present', served', channels', subs', late')
    BY <2>1, <2>2, <1>5 DEF Unsubscribe
  <2>4. Quietly /\ casting' = casting  BY <1>5 DEF Unsubscribe
  <2> QED  BY <2>3, <2>4, <1>b, <1>k, QuietKeeps
<1>6. CASE m.kind = "broadcast" /\ StartBroadcast(c, m.name)
  <2>0. m.name \in Names  BY <1>6, <1>m DEF Kinds
  <2>1. late' = late /\ Quietly /\ UNCHANGED <<channels, subs, members, present, served>>
    BY <1>6 DEF StartBroadcast
  <2>2. Prepared(members', present', served', channels', subs', late')
    BY <2>1, <1>b DEF Tables
  <2>3. casting' = casting \/ casting' = [casting EXCEPT ![c] = @ \cup {m.name}]
    BY <1>6 DEF StartBroadcast
  <2>4. /\ casting' \in [Conns -> SUBSET Names]
        /\ \A d \in Conns \ {c} : casting'[d] = casting[d]
    BY <2>0, <2>3, <1>k
  <2> QED  BY <2>1, <2>2, <2>4, <1>b, QuietKeeps
<1>7. CASE m.kind = "track" /\ Track(c, m.name)
  <2>1. c \in live \/ c \in late'  BY <1>7
  <2>2. UNCHANGED <<channels, subs, casting>>  BY <1>7 DEF Track
  <2>3. CASE m.name \in channels[c]
    <3>1. Prepared(members, [present EXCEPT ![Place(c, m.name)] = @ \cup {c}], served,
                   channels', subs', late')
      BY <2>1, <2>2, <2>3, <1>b, <1>l, TrackPrepares
    <3>2. PICK hearers :
            Deliver(socket, members, [present EXCEPT ![Place(c, m.name)] = @ \cup {c}], served,
                    hearers, {})
      BY <2>3, <1>7 DEF Track
    <3>3. Tables' /\ SocketsKept  BY <3>1, <3>2, <1>b, <1>s, DeliverKeeps
    <3> QED  BY <3>3, <2>2, <1>k
  <2>4. CASE m.name \notin channels[c]
    <3>1. Quietly /\ UNCHANGED <<members, present, served>>  BY <2>4, <1>7 DEF Track
    <3>2. RemovedOK(members, present, served, late')
      BY <1>b, <1>l DEF Tables, Prepared, RemovedOK
    <3>3. Prepared(members', present', served', channels', subs', late')
      BY <3>1, <3>2, <2>2, <1>b DEF Tables, Prepared
    <3> QED  BY <3>1, <3>3, <2>2, <1>b, <1>k, QuietKeeps
  <2> QED  BY <2>3, <2>4
<1>8. CASE m.kind = "untrack" /\ Untrack(c, m.name)
  <2>1. late' = late /\ UNCHANGED <<channels, subs, casting>>  BY <1>8 DEF Untrack
  <2>2. CASE m.name \in channels[c]
    <3>1. Prepared(members, PresentWithout(c, m.name), served, channels', subs', late')
      BY <2>1, <2>2, <1>b, <1>c, UntrackPrepares
    <3>2. PICK hearers : Deliver(socket, members, PresentWithout(c, m.name), served, hearers, {})
      BY <2>2, <1>8 DEF Untrack
    <3>3. Tables' /\ SocketsKept  BY <3>1, <3>2, <1>b, <1>s, DeliverKeeps
    <3> QED  BY <3>3, <2>1, <1>k
  <2>3. CASE m.name \notin channels[c]
    <3>1. Quietly /\ UNCHANGED <<members, present, served>>  BY <2>3, <1>8 DEF Untrack
    <3>2. Prepared(members', present', served', channels', subs', late')
      BY <3>1, <2>1, <1>b DEF Tables
    <3> QED  BY <3>1, <3>2, <2>1, <1>b, <1>k, QuietKeeps
  <2> QED  BY <2>2, <2>3
<1> QED  BY <1>1, <1>2, <1>3, <1>4, <1>5, <1>6, <1>7, <1>8 DEF Handle

LEMMA SessionInit == Init => SessionInv
<1> SUFFICES ASSUME Init  PROVE SessionInv
  OBVIOUS
<1>1. Sessions /\ Fresh  BY DEF Init, Sessions, Fresh
<1>2. TableTypes(members, present, served, channels, subs)
  <2>1. IsFiniteSet({}) /\ Cardinality({}) = 0  BY FS_EmptySet
  <2>2. Free \in Subscriptions  BY DEF Subscriptions
  <2>3. \A c \in Conns : IsFiniteSet(channels[c]) /\ Cardinality(channels[c]) <= MaxChannels
    BY <2>1, LimitsAssumption DEF Init
  <2> QED
    BY <2>2, <2>3 DEF Init, TableTypes, RoomTables, Places, ServedTables, ChannelSets, SubSets
<1>3. \A c \in Conns : Nothing(channels[c], subs[c]) /\ NoTrace(c, members, present, served)
  BY DEF Init, Nothing, NoTrace, Places
<1>4. live = {}  BY DEF Init
<1>5. RoomsOK(members, present, channels) /\ SubsOK(served, subs)  BY <1>4 DEF RoomsOK, SubsOK
<1>6. RemovedOK(members, present, served, late)  BY <1>3 DEF RemovedOK, Removed
<1>7. ScopelessOK(members, present, served, channels, subs)  BY <1>3 DEF ScopelessOK
<1> QED  BY <1>1, <1>2, <1>5, <1>6, <1>7 DEF SessionInv, Tables, Prepared

\* A new connection finds nothing under its id.
LEMMA AcceptKeeps == ASSUME SessionInv, NEW c \in Conns, Accept(c)  PROVE Tables'
<1>b. Sessions /\ Fresh /\ Tables  BY DEF SessionInv
<1>1. scope[c] = NoScope  BY <1>b DEF Fresh, Accept
<1>2. Nothing(channels[c], subs[c]) /\ NoTrace(c, members, present, served)
  BY <1>b, <1>1 DEF Tables, Prepared, ScopelessOK
<1>3. /\ live' = live \cup {c}
      /\ UNCHANGED <<scope, channels, subs, members, present, served, late, rescoped>>
  BY DEF Accept
<1>4. RoomsOK(members, present, channels)'
  BY <1>2, <1>3, <1>b DEF Tables, Prepared, RoomsOK, RoomsFit, Nothing, NoTrace, Place
<1>5. SubsOK(served, subs)'
  BY <1>2, <1>3, <1>b DEF Tables, Prepared, SubsOK, SubsFit, Nothing, NoTrace
<1>6. RemovedOK(members, present, served, late)'
  <2>1. Removed' \subseteq Removed  BY <1>3, <1>b DEF Accept, Removed, Sessions
  <2> QED  BY <2>1, <1>3, <1>b DEF Tables, Prepared, RemovedOK, NoTrace
<1>7. ScopelessOK(members, present, served, channels, subs)'
  BY <1>3, <1>b DEF Tables, Prepared, ScopelessOK, NoTrace, Nothing
<1>8. TableTypes(members, present, served, channels, subs)'
  BY <1>3, <1>b DEF Tables, Prepared, TableTypes
<1> QED  BY <1>4, <1>5, <1>6, <1>7, <1>8 DEF Tables, Prepared

\* A scope is set where nothing was joined yet, or the connection is marked.
LEMMA AuthenticatedKeeps == ASSUME SessionInv, NEW c \in Conns, Authenticated(c)  PROVE Tables'
<1>b. Sessions /\ Fresh /\ Tables  BY DEF SessionInv
<1>3. UNCHANGED <<socket, live, channels, subs, members, present, served, late>>
  BY DEF Authenticated, tables
<1>s. PICK s \in Scopes :
        \/ scope' = scope /\ rescoped' = rescoped
        \/ /\ scope' = [scope EXCEPT ![c] = s]
           /\ rescoped' = IF scope[c] \in {NoScope, s} THEN rescoped ELSE rescoped \cup {c}
  BY <1>b DEF Authenticated, Sessions
<1>1. /\ \A d \in Conns : d # c => scope'[d] = scope[d]
      /\ rescoped \subseteq rescoped'
      /\ scope'[c] = scope[c] \/ scope[c] = NoScope \/ c \in rescoped'
      /\ \A d \in Conns : scope'[d] = NoScope => scope[d] = NoScope
  BY <1>s, <1>b, ScopesAssumption DEF Sessions
<1>4. RoomsOK(members, present, channels)'
  <2> SUFFICES ASSUME NEW d \in live, d \notin rescoped'
               PROVE  RoomsFit(d, members, present, channels[d])'
    BY <1>3 DEF RoomsOK
  <2>0. d \in Conns /\ d \notin rescoped  BY <1>1, <1>b DEF Sessions
  <2>1. CASE scope'[d] = scope[d]
    <3>1. RoomsFit(d, members, present, channels[d])
      BY <2>0, <1>b DEF Tables, Prepared, RoomsOK
    <3> QED  BY <3>1, <2>1, <1>3 DEF RoomsFit, Place
  <2>2. CASE scope'[d] # scope[d]
    <3>1. scope[d] = NoScope  BY <2>2, <2>0, <1>1
    <3>2. Nothing(channels[d], subs[d]) /\ NoTrace(d, members, present, served)
      BY <3>1, <2>0, <1>b DEF Tables, Prepared, ScopelessOK
    <3> QED  BY <3>2, <1>3 DEF RoomsFit, Nothing, NoTrace
  <2> QED  BY <2>1, <2>2
<1>5. SubsOK(served, subs)'
  BY <1>3, <1>b DEF Tables, Prepared, SubsOK, SubsFit
<1>6. RemovedOK(members, present, served, late)'
  BY <1>3, <1>b DEF Tables, Prepared, RemovedOK, NoTrace, Removed
<1>7. ScopelessOK(members, present, served, channels, subs)'
  BY <1>1, <1>3, <1>b DEF Tables, Prepared, ScopelessOK, NoTrace, Nothing
<1>8. TableTypes(members, present, served, channels, subs)'
  BY <1>3, <1>b DEF Tables, Prepared, TableTypes
<1> QED  BY <1>4, <1>5, <1>6, <1>7, <1>8 DEF Tables, Prepared

\* Nothing happens to the tables.
LEMMA TablesSame ==
  ASSUME Tables, UNCHANGED <<socket, scope, tables, late, rescoped>>
  PROVE  Tables'
<1>1. UNCHANGED <<socket, scope, live, channels, subs, members, present, served, late, rescoped>>
  BY DEF tables
<1>2. TableTypes(members, present, served, channels, subs)'
  BY <1>1 DEF Tables, Prepared, TableTypes
<1>3. RoomsOK(members, present, channels)'
  BY <1>1 DEF Tables, Prepared, RoomsOK, RoomsFit, Place
<1>4. SubsOK(served, subs)'  BY <1>1 DEF Tables, Prepared, SubsOK, SubsFit
<1>5. RemovedOK(members, present, served, late)'
  BY <1>1 DEF Tables, Prepared, RemovedOK, NoTrace, Removed
<1>6. ScopelessOK(members, present, served, channels, subs)'
  BY <1>1 DEF Tables, Prepared, ScopelessOK, NoTrace, Nothing
<1> QED  BY <1>2, <1>3, <1>4, <1>5, <1>6 DEF Tables, Prepared

\* The answer of the rate limiter to a message of a connection with a scope.
LEMMA DispatchKeeps ==
  ASSUME SessionInv, NEW c \in Conns, scope[c] \in Scopes, NEW m \in Messages, Dispatch(c, m)
  PROVE  /\ Tables' /\ SocketsKept /\ UNCHANGED <<scope, auth, rescoped>>
         /\ late' \subseteq Conns /\ casting' \in [Conns -> SUBSET Names]
         /\ \A d \in Conns \ {c} : casting'[d] = casting[d]
<1>b. Sessions /\ Tables  BY DEF SessionInv
<1>u. UNCHANGED <<scope, auth, rescoped>>  BY DEF Dispatch
<1>1. CASE UNCHANGED <<socket, tables, casting, late>>
  <2>1. Tables'  BY <1>1, <1>u, <1>b, TablesSame
  <2>2. SocketsKept /\ late' \subseteq Conns /\ casting' \in [Conns -> SUBSET Names]
    BY <1>1, <1>b DEF SocketsKept, Sessions, SocketTypes, tables
  <2> QED  BY <2>1, <2>2, <1>1, <1>u
<1>2. CASE /\ Handle(c, m)
           /\ late' = IF c \notin live /\ m.kind \in {"join", "subscribe", "track"}
                      THEN late \cup {c} ELSE late
  <2>1. late' \subseteq Conns  BY <1>2, <1>b DEF Sessions
  <2> QED  BY <2>1, <1>2, <1>u, HandleKeeps
<1> QED  BY <1>1, <1>2 DEF Dispatch

LEMMA SessionStep == ASSUME SessionInv, [Next]_vars  PROVE SessionInv'
<1>b. Sessions /\ Fresh /\ Tables  BY DEF SessionInv
<1>s. /\ socket \in SocketTypes /\ live \subseteq Conns /\ scope \in [Conns -> Scopes \cup {NoScope}]
      /\ inbox \in [Conns -> Seq(Messages)] /\ slow \in [Conns -> Messages \cup {NoMessage}]
      /\ auth \in [Conns -> SUBSET Scopes] /\ casting \in [Conns -> SUBSET Names]
  BY <1>b DEF Sessions, SocketTypes
<1>m. \A c \in Conns : (inbox[c] # <<>> \/ slow[c] # NoMessage) => scope[c] \in Scopes
  BY <1>b, <1>s DEF Fresh
\* A step of deliveries or of nobody: the waiting handlers stay as they are.
<1>d. ASSUME SocketsKept, UNCHANGED <<scope, inbox, slow, auth, casting, late, rescoped>>
      PROVE  Sessions' /\ Fresh'
  <2>1. Sessions'  BY <1>d, <1>b DEF Sessions, SocketsKept, SocketTypes
  <2>2. Fresh'  BY <1>d, <1>b DEF Fresh, SocketsKept
  <2> QED  BY <2>1, <2>2
<1>p. Prepared(members, present, served, channels, subs, late)  BY <1>b DEF Tables
<1>0. CASE UNCHANGED vars
  <2>1. Tables'  BY <1>0, <1>b, TablesSame DEF vars, tables
  <2>2. Sessions' /\ Fresh'  BY <1>0, <1>b DEF vars, Sessions, Fresh
  <2> QED  BY <2>1, <2>2 DEF SessionInv
<1>1. ASSUME NEW c \in Conns, Accept(c)  PROVE SessionInv'
  <2>1. Tables'  BY <1>1, AcceptKeeps
  <2>2. /\ socket' = [socket EXCEPT ![c] = "open"] /\ live' = live \cup {c}
        /\ UNCHANGED <<scope, inbox, slow, casting, late, rescoped>>
        /\ auth' = auth \/ \E s \in Scopes : auth' = [auth EXCEPT ![c] = {s}]
    BY <1>1 DEF Accept
  <2>3. Sessions'  BY <2>2, <1>b DEF Sessions
  <2>4. Fresh'  BY <2>2, <1>b, <1>s DEF Fresh, SocketTypes
  <2> QED  BY <2>1, <2>3, <2>4 DEF SessionInv
<1>2. ASSUME NEW c \in Conns, HeartbeatTimeout(c)  PROVE SessionInv'
  <2> DEFINE sock == [socket EXCEPT ![c] = IF @ = "open" THEN "closing" ELSE @]
  <2>1. PICK hearers : Deliver(sock, members, present, served, hearers, {c})
    BY <1>2 DEF HeartbeatTimeout
  <2>2. UNCHANGED <<scope, channels, subs, inbox, slow, auth, casting, late, rescoped>> /\ c \in live
    BY <1>2 DEF HeartbeatTimeout, waiting
  <2>3. /\ sock \in SocketTypes
        /\ \A d \in Conns : sock[d] = "new" <=> socket[d] = "new"
    BY <1>s DEF SocketTypes
  <2> HIDE DEF sock
  <2>4. Prepared(members, present, served, channels', subs', late')  BY <2>2, <1>p
  <2>5. Tables' /\ SocketsKept  BY <2>1, <2>2, <2>3, <2>4, <1>b, DeliverKeeps
  <2> QED  BY <2>2, <2>5, <1>d DEF SessionInv
<1>3. ASSUME NEW c \in Conns, SocketClosed(c)  PROVE SessionInv'
  <2> DEFINE sock == [socket EXCEPT ![c] = "closed"]
  <2>1. /\ socket[c] # "new"
        /\ UNCHANGED <<scope, channels, subs, inbox, slow, auth, casting, late, rescoped>>
    BY <1>3 DEF SocketClosed, waiting
  <2>2. /\ sock \in SocketTypes
        /\ \A d \in Conns : sock[d] = "new" <=> socket[d] = "new"
    BY <2>1, <1>s DEF SocketTypes
  <2>3. CASE c \in live
    <3>1. PICK hearers : Deliver(sock, members, present, served, hearers, {c})
      BY <2>3, <1>3 DEF SocketClosed
    <3> HIDE DEF sock
    <3>2. Prepared(members, present, served, channels', subs', late')  BY <2>1, <1>p
    <3>3. Tables' /\ SocketsKept  BY <3>1, <3>2, <2>1, <2>2, <1>b, DeliverKeeps
    <3> QED  BY <2>1, <3>3, <1>d DEF SessionInv
  <2>4. CASE c \notin live
    <3>1. socket' = sock /\ UNCHANGED <<live, members, present, served>>
      BY <2>4, <1>3 DEF SocketClosed
    <3>2. SocketsKept  BY <3>1, <2>2 DEF SocketsKept
    <3>3. \A d \in Conns : socket'[d] = "new" <=> socket[d] = "new"  BY <3>1, <2>2
    <3> HIDE DEF sock
    <3>4. TableTypes(members, present, served, channels, subs)'
      BY <3>1, <2>1, <1>p DEF Prepared, TableTypes
    <3>5. RoomsOK(members, present, channels)'
      BY <3>1, <2>1, <1>p DEF Prepared, RoomsOK, RoomsFit, Place
    <3>6. SubsOK(served, subs)'  BY <3>1, <2>1, <1>p DEF Prepared, SubsOK, SubsFit
    <3>7. RemovedOK(members, present, served, late)'
      BY <3>1, <3>3, <2>1, <1>p DEF Prepared, RemovedOK, NoTrace, Removed
    <3>8. ScopelessOK(members, present, served, channels, subs)'
      BY <3>1, <2>1, <1>p DEF Prepared, ScopelessOK, NoTrace, Nothing
    <3>9. Tables'  BY <3>4, <3>5, <3>6, <3>7, <3>8 DEF Tables, Prepared
    <3> QED  BY <3>2, <3>9, <2>1, <1>d DEF SessionInv
  <2> QED  BY <2>3, <2>4
<1>4. ASSUME NEW s \in Scopes, Publish(s)  PROVE SessionInv'
  <2>1. PICK hearers : Deliver(socket, members, present, served, hearers, {})
    BY <1>4 DEF Publish
  <2>2. UNCHANGED <<scope, channels, subs, inbox, slow, auth, casting, late, rescoped>>
    BY <1>4 DEF Publish, waiting
  <2>3. Prepared(members, present, served, channels', subs', late')  BY <2>2, <1>p
  <2>4. Tables' /\ SocketsKept  BY <2>1, <2>2, <2>3, <1>b, <1>s, DeliverKeeps
  <2> QED  BY <2>2, <2>4, <1>d DEF SessionInv
<1>5. ASSUME NEW c \in Conns, Receive(c)  PROVE SessionInv'
  <2>1. UNCHANGED <<socket, scope, tables, slow, casting, late, rescoped>> /\ socket[c] # "new"
    BY <1>5 DEF Receive
  <2>2. Tables'  BY <2>1, <1>b, TablesSame
  <2>3. /\ auth' = auth \/ \E s \in Scopes : auth' = [auth EXCEPT ![c] = @ \cup {s}]
        /\ \/ inbox' = inbox
           \/ scope[c] # NoScope /\ \E m \in Messages : inbox' = [inbox EXCEPT ![c] = Append(@, m)]
    BY <1>5 DEF Receive
  <2>4. auth' \in [Conns -> SUBSET Scopes] /\ inbox' \in [Conns -> Seq(Messages)]
    <3>1. \A m \in Messages : Append(inbox[c], m) \in Seq(Messages)  BY <1>s
    <3>2. auth' \in [Conns -> SUBSET Scopes]
      <4>1. CASE auth' = auth  BY <4>1, <1>s
      <4>2. ASSUME NEW s \in Scopes, auth' = [auth EXCEPT ![c] = @ \cup {s}]
            PROVE  auth' \in [Conns -> SUBSET Scopes]
        <5>1. auth[c] \cup {s} \in SUBSET Scopes  BY <1>s
        <5> QED  BY <5>1, <4>2, <1>s
      <4> QED  BY <4>1, <4>2, <2>3
    <3>3. inbox' \in [Conns -> Seq(Messages)]
      <4>1. CASE inbox' = inbox  BY <4>1, <1>s
      <4>2. ASSUME NEW m \in Messages, inbox' = [inbox EXCEPT ![c] = Append(@, m)]
            PROVE  inbox' \in [Conns -> Seq(Messages)]
        <5>1. PICK q \in Seq(Messages) : q = Append(inbox[c], m)  BY <3>1
        <5> QED  BY <5>1, <4>2, <1>s
      <4> QED  BY <4>1, <4>2, <2>3
    <3> QED  BY <3>2, <3>3
  <2>5. Sessions'  BY <2>1, <2>4, <1>b DEF Sessions, tables
  <2>6. Fresh'  BY <2>1, <2>3, <1>b, <1>s DEF Fresh, tables
  <2> QED  BY <2>2, <2>5, <2>6 DEF SessionInv
<1>6. ASSUME NEW c \in Conns, Authenticated(c)  PROVE SessionInv'
  <2>1. Tables'  BY <1>6, AuthenticatedKeeps
  <2>2. PICK s \in Scopes :
          /\ s \in auth[c] /\ auth' = [auth EXCEPT ![c] = @ \ {s}]
          /\ scope' = scope \/ scope' = [scope EXCEPT ![c] = s]
          /\ rescoped' = rescoped \/ rescoped' = rescoped \cup {c}
    BY <1>6, <1>s DEF Authenticated
  <2>3. UNCHANGED <<socket, live, inbox, slow, casting, late>>  BY <1>6 DEF Authenticated, tables
  <2>4. Sessions'  BY <2>2, <2>3, <1>b DEF Sessions
  <2>5. Fresh'
    <3>1. \A d \in Conns : scope'[d] = NoScope => scope[d] = NoScope
      BY <2>2, <1>s, ScopesAssumption
    <3>2. socket[c] # "new"  BY <2>2, <1>b DEF Fresh
    <3>3. \A d \in Conns : d # c => scope'[d] = scope[d] /\ auth'[d] = auth[d]  BY <2>2, <1>s
    <3> QED  BY <3>1, <3>2, <3>3, <2>3, <1>b DEF Fresh
  <2> QED  BY <2>1, <2>4, <2>5 DEF SessionInv
<1>7. ASSUME NEW c \in Conns, FirstInWindow(c)  PROVE SessionInv'
  <2>1. /\ UNCHANGED <<socket, scope, tables, auth, casting, late, rescoped>>
        /\ inbox[c] # <<>> /\ slow' = [slow EXCEPT ![c] = Head(inbox[c])]
        /\ inbox' = [inbox EXCEPT ![c] = Tail(@)]
    BY <1>7 DEF FirstInWindow
  <2>2. Tables'  BY <2>1, <1>b, TablesSame
  <2>3. Head(inbox[c]) \in Messages /\ Tail(inbox[c]) \in Seq(Messages)  BY <2>1, <1>s
  <2>4. Sessions'  BY <2>1, <2>3, <1>b DEF Sessions, tables
  <2>5. Fresh'  BY <2>1, <1>m, <1>b, <1>s, ScopesAssumption DEF Fresh, tables
  <2> QED  BY <2>2, <2>4, <2>5 DEF SessionInv
<1>8. ASSUME NEW c \in Conns, HandleNext(c) \/ HandleSlow(c)  PROVE SessionInv'
  <2>1. \E m \in Messages : Dispatch(c, m)
    <3>1. inbox[c] # <<>> => Head(inbox[c]) \in Messages  BY <1>s
    <3> QED  BY <3>1, <1>8, <1>s DEF HandleNext, HandleSlow
  <2>2. scope[c] \in Scopes  BY <1>8, <1>m DEF HandleNext, HandleSlow
  <2>3. /\ Tables' /\ SocketsKept /\ UNCHANGED <<scope, auth, rescoped>>
        /\ late' \subseteq Conns /\ casting' \in [Conns -> SUBSET Names]
        /\ \A d \in Conns \ {c} : casting'[d] = casting[d]
    BY <2>1, <2>2, DispatchKeeps
  <2>4. /\ inbox' \in [Conns -> Seq(Messages)] /\ slow' \in [Conns -> Messages \cup {NoMessage}]
        /\ \A d \in Conns \ {c} : inbox'[d] = inbox[d] /\ slow'[d] = slow[d]
    <3>1. inbox[c] # <<>> => Tail(inbox[c]) \in Seq(Messages)  BY <1>s
    <3> QED  BY <3>1, <1>8, <1>s DEF HandleNext, HandleSlow
  <2>5. Sessions'  BY <2>3, <2>4, <1>b DEF Sessions, SocketsKept, SocketTypes
  <2>6. Fresh'  BY <2>2, <2>3, <2>4, <1>b, ScopesAssumption DEF Fresh, SocketsKept
  <2> QED  BY <2>3, <2>5, <2>6 DEF SessionInv
<1>9. ASSUME NEW c \in Conns, NEW n \in Names, Cast(c, n)  PROVE SessionInv'
  <2>1. PICK hearers : Deliver(socket, members, present, served, hearers, {})
    BY <1>9 DEF Cast
  <2>2. /\ UNCHANGED <<scope, channels, subs, inbox, slow, auth, late, rescoped>>
        /\ casting' = [casting EXCEPT ![c] = @ \ {n}]
    BY <1>9 DEF Cast
  <2>3. Prepared(members, present, served, channels', subs', late')  BY <2>2, <1>p
  <2>4. Tables' /\ SocketsKept  BY <2>1, <2>2, <2>3, <1>b, <1>s, DeliverKeeps
  <2>5. Sessions'  BY <2>2, <2>4, <1>b DEF Sessions, SocketsKept, SocketTypes
  <2>6. Fresh'  BY <2>2, <2>4, <1>b, <1>s DEF Fresh, SocketsKept
  <2> QED  BY <2>4, <2>5, <2>6 DEF SessionInv
<1>10. ASSUME NEW c \in Conns, NEW n \in Names, RefuseCast(c, n)  PROVE SessionInv'
  <2>1. /\ UNCHANGED <<socket, scope, tables, inbox, slow, auth, late, rescoped>>
        /\ casting' = [casting EXCEPT ![c] = @ \ {n}]
    BY <1>10 DEF RefuseCast
  <2>2. Tables'  BY <2>1, <1>b, TablesSame
  <2>3. Sessions'  BY <2>1, <1>b DEF Sessions, tables
  <2>4. Fresh'  BY <2>1, <1>b, <1>s DEF Fresh, tables
  <2> QED  BY <2>2, <2>3, <2>4 DEF SessionInv
<1> QED
  BY <1>0, <1>1, <1>2, <1>3, <1>4, <1>5, <1>6, <1>7, <1>8, <1>9, <1>10 DEF Next

-----------------------------------------------------------------------------
(* Theorems                                                                 *)

LEMMA SessionInvHolds == Spec => []SessionInv
BY SessionInit, SessionStep, PTL DEF Spec

\* The tables and the waiting handlers have the values the code gives them;
\* MAX_CHANNELS_PER_CONNECTION holds, also for handlers that wait together.
THEOREM RealtimeTypesCorrect == Spec => []TypeOK
<1>1. SessionInv => TypeOK
  BY DEF SessionInv, Sessions, Tables, Prepared, TableTypes, RoomTables, Places, ServedTables,
         ChannelSets, SubSets, TypeOK
<1> QED  BY <1>1, SessionInvHolds, PTL

\* The channel table and the channel sets of the connection objects, which
\* join(), leave() and every removal update side by side, agree.
THEOREM RoomsAreMirrored == Spec => []RoomsMirrorConnections
<1>1. ASSUME SessionInv  PROVE RoomsMirrorConnections
  <2> SUFFICES ASSUME NEW c \in live \ rescoped, NEW k \in DOMAIN members, k[2] \in SpelledOnce
               PROVE  c \in members[k] <=> k \in OwnRooms(c)
    BY DEF RoomsMirrorConnections
  <2>1. DOMAIN members = Places
    BY <1>1 DEF SessionInv, Tables, Prepared, TableTypes, RoomTables
  <2>2. RoomsFit(c, members, present, channels[c])
    BY <1>1 DEF SessionInv, Tables, Prepared, RoomsOK
  <2> QED  BY <2>1, <2>2 DEF RoomsFit, OwnRooms, Place
<1> QED  BY <1>1, SessionInvHolds, PTL

\* However names are spelled, a member of a channel has joined it.
THEOREM MembersJoined == Spec => []MembersHaveJoined
<1>1. ASSUME SessionInv  PROVE MembersHaveJoined
  <2> SUFFICES ASSUME NEW c \in live \ rescoped, NEW k \in DOMAIN members, c \in members[k]
               PROVE  k \in OwnRooms(c)
    BY DEF MembersHaveJoined
  <2>1. DOMAIN members = Places
    BY <1>1 DEF SessionInv, Tables, Prepared, TableTypes, RoomTables
  <2>2. RoomsFit(c, members, present, channels[c])
    BY <1>1 DEF SessionInv, Tables, Prepared, RoomsOK
  <2> QED  BY <2>1, <2>2 DEF RoomsFit, OwnRooms, Place
<1> QED  BY <1>1, SessionInvHolds, PTL

\* Who is shown as present is a member, so its leaving is announced to those
\* who saw it come.
THEOREM PresentStayMembers == Spec => []PresentAreMembers
<1>1. ASSUME SessionInv  PROVE PresentAreMembers
  <2> SUFFICES ASSUME NEW c \in live \ rescoped, NEW k \in DOMAIN present,
                      k[2] \in SpelledOnce, c \in present[k]
               PROVE  c \in members[k]
    BY DEF PresentAreMembers
  <2>1. DOMAIN present = Places
    BY <1>1 DEF SessionInv, Tables, Prepared, TableTypes, RoomTables
  <2>2. RoomsFit(c, members, present, channels[c])
    BY <1>1 DEF SessionInv, Tables, Prepared, RoomsOK
  <2> QED  BY <2>1, <2>2 DEF RoomsFit
<1> QED  BY <1>1, SessionInvHolds, PTL

\* subscriptionManager serves what the connection object holds, no less and no more.
THEOREM SubscriptionsStayAgreed == Spec => []SubscriptionsAgree
<1>1. SessionInv => SubscriptionsAgree
  BY DEF SessionInv, Tables, Prepared, SubsOK, SubsFit, SubscriptionsAgree, Mine
<1> QED  BY <1>1, SessionInvHolds, PTL

\* Close, heartbeat and the eviction of slow clients, in any order and nested,
\* leave nothing of a connection behind but what it registers afterwards.
THEOREM NoTraceIsLeft == Spec => []RemovedLeavesNoTrace
<1>1. ASSUME SessionInv  PROVE RemovedLeavesNoTrace
  <2>1. DOMAIN members = Places
    BY <1>1 DEF SessionInv, Tables, Prepared, TableTypes, RoomTables
  <2>2. \A c \in Removed \ late : NoTrace(c, members, present, served)
    BY <1>1 DEF SessionInv, Tables, Prepared, RemovedOK
  <2> QED  BY <2>1, <2>2 DEF RemovedLeavesNoTrace, NoTrace
<1> QED  BY <1>1, SessionInvHolds, PTL

================================================================================
