---------------------------- MODULE SignalingServer ----------------------------
(***************************************************************************)
(* The websocket signalling server, src/src/server/signaling_server.c.     *)
(*                                                                         *)
(* A ClientId is the address of a SoupWebsocketConnection, and that        *)
(* address is all the rest of the server knows of a client: it names the   *)
(* client's webrtcbin and routes its messages.  The module keeps the list  *)
(* of connections, the state of their sockets and which addresses are      *)
(* taken by an object that has not been freed; a new connection gets any   *)
(* address that is not.  The operators below are the server's callbacks;   *)
(* the signals they emit are the handlers of ServerPipeline, which         *)
(* conjoins them.                                                          *)
(***************************************************************************)
EXTENDS Integers, Sequences

CONSTANTS
    Addr,           \* addresses the allocator may hand out
    NULL,           \* no address
    MaxAccepts,     \* bound: websocket connections accepted
    MaxInbound      \* bound: messages one connection sends

ASSUME SignalingAssumption ==
    /\ NULL \notin Addr
    /\ MaxAccepts \in Nat
    /\ MaxInbound \in Nat

VARIABLES
    websocket_connections,  \* the GSList, as a set: its order is never used
    sock,                   \* libsoup: state of the connection at an address
    held,                   \* addresses of connection objects not yet freed
    nAccepts,
    inbox,                  \* how many of a client's texts wait to be read
    nReceived,              \* how many it has sent
    outbox,                 \* texts the server has sent
    announced               \* last signal emitted about a client id

signalingVars == <<websocket_connections, sock, held, nAccepts, inbox, nReceived,
                   outbox, announced>>

OutMsg == {"offer", "candidate"}

SignalingInit ==
    /\ websocket_connections = {}
    /\ sock = [a \in Addr |-> "none"]
    /\ held = {}
    /\ nAccepts = 0
    /\ inbox = [a \in Addr |-> 0]
    /\ nReceived = [a \in Addr |-> 0]
    /\ outbox = [a \in Addr |-> <<>>]
    /\ announced = [a \in Addr |-> "no"]

SignalingTypeOK ==
    /\ websocket_connections \subseteq Addr
    /\ sock \in [Addr -> {"none", "open", "closed"}]
    /\ held \subseteq Addr
    /\ nAccepts \in 0 .. MaxAccepts
    /\ inbox \in [Addr -> Nat]
    /\ nReceived \in [Addr -> 0 .. MaxInbound]
    /\ outbox \in [Addr -> Seq(OutMsg)]
    /\ announced \in [Addr -> {"no", "connected", "disconnected"}]

----------------------------------------------------------------------------
(* websocket_cb: a handshake has succeeded.  The reference taken by        *)
(* add_websocket_connection is never given back.                           *)
ListWithout(a) == websocket_connections         \* mutant: append forgotten
ListWith(a) == websocket_connections \cup {a}

websocket_cb(a) ==
    /\ a \notin held
    /\ nAccepts < MaxAccepts
    /\ nAccepts' = nAccepts + 1
    /\ held' = held \cup {a}
    /\ websocket_connections' = ListWith(a)
    /\ sock' = [sock EXCEPT ![a] = "open"]
    /\ inbox' = [inbox EXCEPT ![a] = 0]
    /\ nReceived' = [nReceived EXCEPT ![a] = 0]
    /\ outbox' = [outbox EXCEPT ![a] = <<>>]
    /\ announced' = [announced EXCEPT ![a] = "connected"]

(* libsoup and the client: a text arrives, the connection is lost or       *)
(* closed by the client.                                                   *)
ClientSends(a) ==
    /\ sock[a] = "open"
    /\ nReceived[a] < MaxInbound
    /\ nReceived' = [nReceived EXCEPT ![a] = @ + 1]
    /\ inbox' = [inbox EXCEPT ![a] = @ + 1]
    /\ UNCHANGED <<websocket_connections, sock, held, nAccepts, outbox, announced>>

SocketLost(a) ==
    /\ sock[a] = "open"
    /\ sock' = [sock EXCEPT ![a] = "closed"]
    /\ UNCHANGED <<websocket_connections, held, nAccepts, inbox, nReceived, outbox,
                   announced>>

(* closed_cb, after the last text was delivered: libsoup drops its own     *)
(* reference, the one taken on accept remains.                             *)
HeldWithout(a) == held \ {a}                    \* mutant: unref when removed
HeldAfterClose(a) == held

closed_cb(a) ==
    /\ sock[a] = "closed"
    /\ inbox[a] = 0
    /\ announced[a] = "connected"
    /\ websocket_connections' = websocket_connections \ {a}
    /\ held' = HeldAfterClose(a)
    /\ announced' = [announced EXCEPT ![a] = "disconnected"]
    /\ UNCHANGED <<sock, nAccepts, inbox, nReceived, outbox>>

(* message_cb and signaling_server_handle_message take the next text,      *)
(* which may be anything; only an answer or a candidate emits a signal.    *)
message_cb(a) ==
    /\ announced[a] = "connected"
    /\ inbox[a] > 0
    /\ inbox' = [inbox EXCEPT ![a] = @ - 1]
    /\ UNCHANGED <<websocket_connections, sock, held, nAccepts, nReceived, outbox,
                   announced>>

(* signaling_server_send_to_websocket_client: to a listed connection whose *)
(* socket is open; otherwise a warning only.                               *)
CanSend(a) == a \in websocket_connections /\ sock[a] = "open"

signaling_server_send(a, m) ==
    /\ outbox' = IF CanSend(a) THEN [outbox EXCEPT ![a] = Append(@, m)] ELSE outbox
    /\ UNCHANGED <<websocket_connections, sock, held, nAccepts, inbox, nReceived,
                   announced>>

(* The two messages the server sends: an offer and a candidate.            *)
OfferUnsent(a) == UNCHANGED signalingVars       \* mutant: send forgotten
signaling_server_send_sdp_offer(a) == signaling_server_send(a, "offer")

signaling_server_send_candidate(a) == signaling_server_send(a, "candidate")
=============================================================================
