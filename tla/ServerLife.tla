----------------------------- MODULE ServerLife -----------------------------
(***************************************************************************)
(* What the server's process promises: one server in its life, however     *)
(* many activities the process sees.  It listens, plays, ends its stream   *)
(* and is over for good.  Clients are accepted from the time it plays, and *)
(* a push of audio loses a reference to the source only before it plays    *)
(* and after it is over.  Nothing ends the process before the server       *)
(* plays.                                                                  *)
(***************************************************************************)
EXTENDS Naturals

VARIABLES
    server,     \* how far the server's life is
    accepted,   \* clients accepted
    lost,       \* references to the source that pushes lost
    alive       \* the process is

vars == <<server, accepted, lost, alive>>

Init == server = "none" /\ accepted = 0 /\ lost = 0 /\ alive = TRUE

Moves(from, to) ==
    /\ server = from
    /\ server' = to
    /\ UNCHANGED <<accepted, lost, alive>>

Listen == Moves("none", "listening")
Play == Moves("listening", "playing")
EndStream == Moves("playing", "ending")
Over == Moves("ending", "over")

Accept ==
    /\ server \in {"playing", "ending", "over"}
    /\ accepted' = accepted + 1
    /\ UNCHANGED <<server, lost, alive>>

LoseReference ==
    /\ server \in {"listening", "over"}
    /\ lost' = lost + 1
    /\ UNCHANGED <<server, accepted, alive>>

(* An error in the stream, its end, or a second server that finds the port *)
(* taken.                                                                  *)
Fail ==
    /\ server \in {"playing", "ending", "over"}
    /\ alive' = FALSE
    /\ UNCHANGED <<server, accepted, lost>>

Next == alive /\ (Listen \/ Play \/ EndStream \/ Over \/ Accept \/ LoseReference \/ Fail)

Spec == Init /\ [][Next]_vars
=============================================================================
