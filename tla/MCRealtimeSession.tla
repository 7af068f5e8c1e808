-------------------------- MODULE MCRealtimeSession --------------------------
(* Small instances of RealtimeSession for TLC. *)
EXTENDS RealtimeSession, TLC

LOCAL INSTANCE Functions

CONSTANTS c1, c2, n1, n2, n3, r1, r2, p1, p2

\* Two of the names are spellings of one.
Spelling == n1 :> r1 @@ n2 :> r1 @@ n3 :> r2

\* The names that a connection mentions, or has mentioned.
Mentioned(c) ==
  {m.name : m \in {w \in Range(inbox[c]) \cup {slow[c]} : w # NoMessage /\ w.kind # "connect"}}
    \cup channels[c] \cup casting[c]
    \cup {subs[c][k].name : k \in {i \in Slots : subs[c][i] # Free}}
\* Bound: several names for a connection that is alone, one name for several.
OneNameOrAlone ==
  (\E c \in Conns : socket[c] = "new") \/ \A c \in Conns : Mentioned(c) \subseteq {n3}
Symmetry == Permutations(Conns)
=============================================================================
