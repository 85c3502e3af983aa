---------------------------- MODULE SingleSession ----------------------------
(***************************************************************************)
(* What the client's connection object promises to the application and to  *)
(* the server: one session at a time, in the order of the connects; only   *)
(* the newest attempt becomes a session, and a session given up does not   *)
(* come back.  In a session the client answers what it was offered, at     *)
(* most once for each offer, and names no candidate before it answered.    *)
(*                                                                         *)
(* The object has no lock.  It promises this while it is calm; when its    *)
(* threads get into each other's way it may do anything with the sessions  *)
(* begun so far, until it is calm again, with no session and no attempt.   *)
(***************************************************************************)
EXTENDS Naturals, Sequences, FiniteSets

CONSTANT Session    \* numbers of sessions from 1; 0 stands for none

VARIABLES
    begun,      \* sessions begun so far
    attempt,    \* the session being attempted
    session,    \* the session there is
    channelUp,  \* it has its data channel
    offers,     \* offers heard in each session
    texts,      \* texts sent in each session
    calm        \* the promise holds

vars == <<begun, attempt, session, channelUp, offers, texts, calm>>

Answers(s) == Cardinality({i \in DOMAIN texts[s] : texts[s][i] = "answer"})

Init ==
    /\ begun = 0 /\ attempt = 0 /\ session = 0 /\ channelUp = FALSE
    /\ offers = [s \in Session |-> 0]
    /\ texts = [s \in Session |-> <<>>]
    /\ calm = TRUE

(* A new attempt, after the one before it and the session have ended.      *)
Begin ==
    /\ attempt = 0 /\ session = 0
    /\ begun + 1 \in Session
    /\ begun' = begun + 1
    /\ attempt' = begun + 1
    /\ UNCHANGED <<session, channelUp, offers, texts>>

Open ==
    /\ attempt # 0 /\ session = 0
    /\ session' = attempt
    /\ attempt' = 0
    /\ UNCHANGED <<begun, channelUp, offers, texts>>

(* An attempt that fails, a session that ends, or is given up.             *)
End ==
    /\ attempt' = 0 /\ session' = 0 /\ channelUp' = FALSE
    /\ UNCHANGED <<begun, offers, texts>>

ChannelOpens ==
    /\ session # 0 /\ ~channelUp
    /\ channelUp' = TRUE
    /\ UNCHANGED <<begun, attempt, session, offers, texts>>

(* An offer is for the session; one that comes when it is being given up   *)
(* is heard in vain.                                                       *)
HearOffer(s) ==
    /\ IF session = 0 THEN s <= begun /\ s # attempt ELSE s = session
    /\ offers' = [offers EXCEPT ![s] = @ + 1]
    /\ UNCHANGED <<begun, attempt, session, channelUp, texts>>

Send(m) ==
    /\ texts' = [texts EXCEPT ![session] = Append(@, m)]
    /\ UNCHANGED <<begun, attempt, session, channelUp, offers>>

SendAnswer == session # 0 /\ Answers(session) < offers[session] /\ Send("answer")

SendCandidate == session # 0 /\ Answers(session) > 0 /\ Send("candidate")

Orderly ==
    \/ Begin \/ Open \/ End \/ ChannelOpens
    \/ \E s \in Session : HearOffer(s)
    \/ SendAnswer \/ SendCandidate

(* Even an unruly object touches no session that it has not begun.         *)
Unruly ==
    /\ begun' \in {begun, begun + 1}
    /\ attempt' \in 0 .. begun' /\ session' \in 0 .. begun'
    /\ channelUp' \in BOOLEAN
    /\ \A s \in Session : s > begun' => offers'[s] = 0 /\ texts'[s] = <<>>

(* Calm again: nothing is attempted and nothing there.                     *)
Recovers ==
    /\ attempt' = 0 /\ session' = 0 /\ ~channelUp'
    /\ UNCHANGED <<begun, offers, texts>>

Next ==
    \/ calm /\ calm' /\ Orderly
    \/ ~calm' /\ Unruly
    \/ ~calm /\ calm' /\ Recovers

Spec == Init /\ [][Next]_vars
=============================================================================
