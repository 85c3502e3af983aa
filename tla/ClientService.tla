---------------------------- MODULE ClientService ----------------------------
(***************************************************************************)
(* What the streaming server promises about its clients: an id stands for  *)
(* one client, which is served from the moment it is accepted, leaves once *)
(* and does not come back.  Its first text is an offer, the only one, and  *)
(* only a client that is served is told anything.  The loop works for one  *)
(* client at a time: while the answer of one is being applied none comes,  *)
(* none leaves and no other answer is taken up.                            *)
(***************************************************************************)
EXTENDS Sequences

CONSTANTS Addr, NULL

VARIABLES
    client,     \* how far each client is
    told,       \* the texts each client was sent
    busy        \* the client whose answer is being applied, or NULL

vars == <<client, told, busy>>

Init ==
    /\ client = [a \in Addr |-> "unknown"]
    /\ told = [a \in Addr |-> <<>>]
    /\ busy = NULL

Moves(a, from, to) ==
    /\ client[a] = from
    /\ client' = [client EXCEPT ![a] = to]
    /\ UNCHANGED <<told, busy>>

Join(a) == busy = NULL /\ Moves(a, "unknown", "served")

Leave(a) == busy = NULL /\ Moves(a, "served", "leaving")

(* Not while its answer is being applied: that would wait for ever.        *)
Remove(a) == busy # a /\ Moves(a, "leaving", "gone")

Tell(a, m) ==
    /\ client[a] = "served"
    /\ m = "offer" <=> told[a] = <<>>
    /\ told' = [told EXCEPT ![a] = Append(@, m)]
    /\ UNCHANGED <<client, busy>>

Answer(a) ==
    /\ busy = NULL /\ client[a] = "served"
    /\ busy' = a
    /\ UNCHANGED <<client, told>>

Applied ==
    /\ busy # NULL /\ client[busy] = "served"
    /\ busy' = NULL
    /\ UNCHANGED <<client, told>>

Next ==
    \/ Applied
    \/ \E a \in Addr :
         \/ Join(a) \/ Leave(a) \/ Remove(a) \/ Answer(a)
         \/ \E m \in {"offer", "candidate"} : Tell(a, m)

Spec == Init /\ [][Next]_vars
=============================================================================
