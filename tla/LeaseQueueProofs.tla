--------------------------- MODULE LeaseQueueProofs ---------------------------
(* What the lease discipline of LeaseQueue is good for, for any number of   *)
(* items and any finite set of holders.                                     *)
EXTENDS LeaseQueue, FiniteSetTheorems, TLAPS

LeaseInv == LeaseTypeOK /\ TicketsBounded

\* Sets of holders can be counted.
LEMMA TicketsFinite ==
  ASSUME IsFiniteSet(Holders), LeaseTypeOK, NEW i \in Items
  PROVE  IsFiniteSet(tickets[i]) /\ Cardinality(tickets[i]) \in Nat
<1>1. tickets[i] \subseteq Holders  BY DEF LeaseTypeOK
<1> QED  BY <1>1, FS_Subset, FS_CardinalityType

\* Every step keeps the types.
LEMMA LeaseTypeStep ==
  ASSUME LeaseTypeOK, [LeaseNext]_leaseVars  PROVE LeaseTypeOK'
<1> USE DEF LeaseTypeOK, Places
<1>1. CASE \E i \in Items : Offer(i) \/ Retry(i)  BY <1>1 DEF Offer, Retry
<1>2. CASE \E h \in Holders, S \in SUBSET Items : Claim(h, S)
  <2> PICK h \in Holders, S \in SUBSET Items : Claim(h, S)  BY <1>2
  <2>1. tickets' \in [Items -> SUBSET Holders]  BY DEF Claim
  <2> QED  BY <2>1 DEF Claim
<1>3. CASE \E h \in Holders, i \in Items, outcome \in {"done", "waiting", "dead"} :
             Report(h, i, outcome)
  <2> PICK h \in Holders, i \in Items, outcome \in {"done", "waiting", "dead"} :
             Report(h, i, outcome)  BY <1>3
  <2>1. tickets' \in [Items -> SUBSET Holders]  BY DEF Report
  <2> QED  BY <2>1 DEF Report
<1>4. CASE \E H \in SUBSET Holders, S \in SUBSET Items : Release(H, S)
  BY <1>4 DEF Release
<1>5. CASE \E S \in SUBSET Items : Lapse(S)  BY <1>5 DEF Lapse
<1>6. CASE Remove  BY <1>6 DEF Remove
<1>7. CASE UNCHANGED leaseVars  BY <1>7 DEF leaseVars
<1> QED  BY <1>1, <1>2, <1>3, <1>4, <1>5, <1>6, <1>7 DEF LeaseNext

\* Every step keeps the number of tickets within the lapses.
LEMMA TicketsStep ==
  ASSUME IsFiniteSet(Holders), LeaseInv, [LeaseNext]_leaseVars
  PROVE  TicketsBounded'
<1> USE DEF LeaseInv
<1>t. LeaseTypeOK'  BY LeaseTypeStep
<1> SUFFICES ASSUME NEW j \in Items
             PROVE  /\ Cardinality(tickets'[j]) <= lapses'[j] + 1
                    /\ item'[j] \in {"waiting", "dead"} => Cardinality(tickets'[j]) <= lapses'[j]
                    /\ item'[j] = "absent" => tickets'[j] = {}
  BY DEF TicketsBounded
<1>n. /\ IsFiniteSet(tickets[j]) /\ Cardinality(tickets[j]) \in Nat
      /\ lapses[j] \in Nat /\ item[j] \in Places
  BY TicketsFinite DEF LeaseTypeOK
<1>b. /\ Cardinality(tickets[j]) <= lapses[j] + 1
      /\ item[j] \in {"waiting", "dead"} => Cardinality(tickets[j]) <= lapses[j]
      /\ item[j] = "absent" => tickets[j] = {}
  BY DEF TicketsBounded
<1>e. Cardinality({}) = 0  BY FS_EmptySet
<1>1. CASE \E i \in Items : Offer(i)
  BY <1>1, <1>n, <1>b, <1>e DEF Offer, LeaseTypeOK
<1>2. CASE \E i \in Items : Retry(i)
  BY <1>2, <1>n, <1>b DEF Retry, LeaseTypeOK
<1>3. CASE \E h \in Holders, S \in SUBSET Items : Claim(h, S)
  <2> PICK h \in Holders, S \in SUBSET Items : Claim(h, S)  BY <1>3
  <2>1. CASE j \in S
    <3>1. item[j] = "waiting" /\ item'[j] = "claimed" /\ lapses'[j] = lapses[j]
      BY <2>1 DEF Claim, LeaseTypeOK
    <3>2. tickets'[j] = tickets[j] \cup {h}  BY <2>1 DEF Claim
    <3>3. Cardinality(tickets[j] \cup {h}) =
            IF h \in tickets[j] THEN Cardinality(tickets[j]) ELSE Cardinality(tickets[j]) + 1
      BY <1>n, FS_AddElement
    <3> QED  BY <3>1, <3>2, <3>3, <1>n, <1>b
  <2>2. CASE j \notin S  BY <2>2, <1>b DEF Claim, LeaseTypeOK
  <2> QED  BY <2>1, <2>2
<1>4. CASE \E h \in Holders, i \in Items, outcome \in {"done", "waiting", "dead"} :
             Report(h, i, outcome)
  <2> PICK h \in Holders, i \in Items, outcome \in {"done", "waiting", "dead"} :
             Report(h, i, outcome)  BY <1>4
  <2>1. CASE j = i /\ tickets'[j] = tickets[j] \ {h}
    <3>1. h \in tickets[j] /\ item'[j] = outcome /\ lapses'[j] = lapses[j]
      BY <2>1 DEF Report, LeaseTypeOK
    <3>2. Cardinality(tickets'[j]) = Cardinality(tickets[j]) - 1
      BY <2>1, <3>1, <1>n, FS_RemoveElement
    <3> QED  BY <3>1, <3>2, <1>n, <1>b
  <2>2. CASE j = i /\ tickets' = tickets /\ outcome = "done"
    BY <2>2, <1>n, <1>b DEF Report, LeaseTypeOK
  <2>3. CASE j # i  BY <2>3, <1>b DEF Report, LeaseTypeOK
  <2> QED  BY <2>1, <2>2, <2>3 DEF Report, LeaseTypeOK
<1>5. CASE \E H \in SUBSET Holders, S \in SUBSET Items : Release(H, S)
  <2> PICK H \in SUBSET Holders, S \in SUBSET Items : Release(H, S)  BY <1>5
  <2>1. tickets'[j] \subseteq tickets[j]  BY DEF Release
  <2>2. Cardinality(tickets'[j]) \in Nat /\ Cardinality(tickets'[j]) <= Cardinality(tickets[j])
    BY <2>1, <1>n, FS_Subset, FS_CardinalityType
  <2> QED  BY <2>1, <2>2, <1>n, <1>b DEF Release
<1>6. CASE \E S \in SUBSET Items : Lapse(S)
  BY <1>6, <1>n, <1>b DEF Lapse, LeaseTypeOK
<1>7. CASE Remove  BY <1>7, <1>b DEF Remove
<1>8. CASE UNCHANGED leaseVars  BY <1>8, <1>b DEF leaseVars
<1> QED  BY <1>1, <1>2, <1>3, <1>4, <1>5, <1>6, <1>7, <1>8 DEF LeaseNext

\* A lease queue hands an item to one holder at a time, and to one more for
\* every claim that lapsed; what waits or is dead is held by lapsed claims only.
THEOREM TicketsStayBounded ==
  ASSUME IsFiniteSet(Holders)  PROVE LeaseSpec => []TicketsBounded
<1>1. LeaseInit => LeaseInv
  <2> SUFFICES ASSUME LeaseInit  PROVE LeaseInv  OBVIOUS
  <2>1. LeaseTypeOK  BY DEF LeaseInit, LeaseTypeOK, Places
  <2>2. Cardinality({}) = 0  BY FS_EmptySet
  <2>3. TicketsBounded  BY <2>2 DEF LeaseInit, TicketsBounded
  <2> QED  BY <2>1, <2>3 DEF LeaseInv
<1>2. LeaseInv /\ [LeaseNext]_leaseVars => LeaseInv'
  BY LeaseTypeStep, TicketsStep DEF LeaseInv
<1>3. LeaseInv => TicketsBounded  BY DEF LeaseInv
<1> QED  BY <1>1, <1>2, <1>3, PTL DEF LeaseSpec
=============================================================================
