------------------------------ MODULE Connection ------------------------------
(***************************************************************************)
(* The client's signalling connection object, src/src/client/connection.c. *)
(*                                                                         *)
(* Every call of my_connection_connect starts one session: an asynchronous *)
(* websocket attempt, then a socket, a pipeline with its webrtcbin and one *)
(* data channel.  Sessions are numbered in the order of the calls, and the *)
(* pointer fields of MyConnection hold the number of the session they      *)
(* point into, or NULL.  Three threads touch the object: the application   *)
(* (connect, disconnect), the GLib main loop (completion of an attempt,    *)
(* messages of a socket) and webrtcbin's own thread (promises, ICE,        *)
(* data channel).  No lock guards its fields.  The two handlers that run    *)
(* through several of them, the completion of an attempt and               *)
(* conn_disconnect_internal, go one statement at a time; the others, which *)
(* touch one or two, are one action each.                                  *)
(***************************************************************************)
EXTENDS Integers, Sequences, FiniteSets

CONSTANTS
    MaxConnects,    \* bound: calls of my_connection_connect
    MaxInbound,     \* bound: messages the server sends on one socket
    MaxCandidates,  \* bound: ICE candidates one webrtcbin gathers
    MaxRaces        \* bound: times a long handler begins beside another one

ASSUME BoundsAssumption ==
    /\ MaxConnects \in Nat
    /\ MaxInbound \in Nat
    /\ MaxCandidates \in Nat
    /\ MaxRaces \in Nat

NULL == 0
Session == 1 .. MaxConnects
Ref == Session \cup {NULL}              \* a pointer field of MyConnection
Cancellable == 1 .. MaxConnects + 1     \* the GCancellables ever allocated

Status == {"IDLE_NOT_CONNECTED", "CONNECTING", "WEBSOCKET_FAILED",
           "NEGOTIATING", "CONNECTED_NO_DATA", "CONNECTED",
           "DISCONNECTED_ERROR", "DISCONNECTED_REMOTE_CLOSE"}
SocketState == {"none", "open", "closing", "closed"}
ChannelState == {"none", "prepared", "open", "closed"}
InMsg == {"offer", "other"}
OutMsg == {"answer", "candidate"}
Assertion == {"none", "ws", "pipeline", "webrtcbin", "data_channel", "answer"}

(* The threads that may be in conn_disconnect_internal: webrtcbin's of     *)
(* each session, the application's and the main loop's.                    *)
APP == MaxConnects + 1
LOOP == MaxConnects + 2
Thread == 1 .. MaxConnects + 2

(* The statement a thread comes to next in conn_disconnect_internal and,   *)
(* from "renew" on, in the rest of conn_connect_internal.                  *)
DropStage == {"forget", "stop", "close", "clearWs", "clearBin", "clearChannel",
              "clearPipeline"}
ConnectStage == {"renew", "attempt", "connecting"}
Stage == {"idle", "status"} \cup DropStage \cup ConnectStage

(* The statement the loop comes to next in conn_websocket_connected_cb.    *)
CallbackStage == {"idle", "attach", "assert", "need", "bin", "check", "start"}

VARIABLES
    \* fields of MyConnection
    status, wsCancel, ws, pipeline, webrtcbin, dataChannel,
    \* GIO: the attempts under way, their cancellables
    nConnects, nCancel, cancelled, inflight, cancelOf,
    \* libsoup: the sockets and what waits on them
    sock, nSent, inbox, outbox,
    \* the main loop, blocked in gst_promise_wait on the promise of waitBin
    waiting, waitBin,
    \* GStreamer: running pipelines, what their webrtcbin has been asked
    playing, applied, answering, nGathered, channel,
    \* where the threads are in the two long handlers
    drop, cbPc, cbSession,
    \* the g_assert (or NULL dereference) that stopped the program
    abort,
    \* history: whether those handlers have run one at a time, how often not
    order, nRaces

history == <<order, nRaces>>

pointers == <<wsCancel, ws, pipeline, webrtcbin, dataChannel>>
fields == <<status, pointers>>
attempts == <<nConnects, nCancel, cancelled, inflight, cancelOf>>
sockets == <<sock, nSent, inbox, outbox>>
loop == <<waiting, waitBin>>
media == <<playing, applied, answering, nGathered, channel>>
callback == <<cbPc, cbSession>>
threads == <<drop, callback>>
vars == <<fields, attempts, sockets, loop, media, threads,
                   abort, history>>

----------------------------------------------------------------------------
(* my_connection_init: a fresh cancellable that no attempt ever uses.      *)
Init ==
    /\ status = "IDLE_NOT_CONNECTED"
    /\ wsCancel = 1
    /\ ws = NULL /\ pipeline = NULL /\ webrtcbin = NULL /\ dataChannel = NULL
    /\ nConnects = 0 /\ nCancel = 1 /\ cancelled = {} /\ inflight = {}
    /\ cancelOf = [s \in Session |-> 1]
    /\ sock = [s \in Session |-> "none"]
    /\ nSent = [s \in Session |-> 0]
    /\ inbox = [s \in Session |-> <<>>]
    /\ outbox = [s \in Session |-> <<>>]
    /\ waiting = FALSE /\ waitBin = NULL
    /\ playing = {}
    /\ applied = [s \in Session |-> 0]
    /\ answering = [s \in Session |-> 0]
    /\ nGathered = [s \in Session |-> 0]
    /\ channel = [s \in Session |-> "none"]
    /\ drop = [t \in Thread |-> "idle"]
    /\ cbPc = "idle" /\ cbSession = NULL
    /\ abort = "none"
    /\ order = "kept" /\ nRaces = 0

----------------------------------------------------------------------------
(* The history variable order is "kept" until a thread enters one of the   *)
(* two long handlers while another is in one: then it is "lost".  It is    *)
(* found again by a disconnect that runs alone, if at its begin the object *)
(* still knows of everything that is open, playing or can still succeed:   *)
(* "restoring" from that disconnect's first statement to its last.         *)
Order == {"kept", "restoring", "lost"}

AttemptCancelled(s) == cancelOf[s] \in cancelled
Live(s) == s \in inflight /\ ~AttemptCancelled(s)

NothingLost ==
    /\ \A s \in Session : sock[s] = "open" => s = ws
    /\ playing \subseteq {pipeline}
    /\ \A s \in Session : Live(s) => cancelOf[s] = wsCancel /\ wsCancel # NULL

Alone(t) ==
    /\ \A u \in Thread \ {t} : drop[u] = "idle"
    /\ t # LOOP => cbPc = "idle"

Races(t) ==
    /\ ~Alone(t) => nRaces < MaxRaces
    /\ nRaces' = IF Alone(t) THEN nRaces ELSE nRaces + 1

OrderWith(t) ==
    IF ~Alone(t) THEN "lost"
    ELSE IF order = "lost" /\ NothingLost THEN "restoring" ELSE order

----------------------------------------------------------------------------
(* conn_disconnect_internal.  DropBegins is its first statement, which     *)
(* cancels the attempt; the others follow one by one.                      *)
CancelledByDisconnect == cancelled \cup ({wsCancel} \ {NULL})

DropBegins(t) ==
    /\ abort = "none"
    /\ drop[t] = "idle"
    /\ drop' = [drop EXCEPT ![t] = "forget"]
    /\ cancelled' = CancelledByDisconnect
    /\ Races(t)
    /\ order' = OrderWith(t)
    /\ UNCHANGED <<fields, nConnects, nCancel, inflight, cancelOf, sockets, loop,
                   playing, applied, answering, nGathered, abort>>

After == [forget |-> "stop", stop |-> "close", close |-> "clearWs",
          clearWs |-> "clearBin", clearBin |-> "clearChannel",
          clearChannel |-> "clearPipeline", clearPipeline |-> "status"]

(* The thread goes on from one stage to the next.                          *)
Goes(t, stage, next) ==
    /\ abort = "none"
    /\ drop[t] = stage
    /\ drop' = [drop EXCEPT ![t] = next]
Writes(t, stage, old, new) == IF drop[t] = stage THEN new ELSE old

(* The cancellable is given up, so that the next connect makes a new one.  *)
WsCancelKept == wsCancel                        \* mutant: not cleared
WsCancelAfterDisconnect == NULL

(* soup_websocket_connection_close starts the closing handshake; a socket  *)
(* the peer has closed already is left alone.                              *)
SockLeftOpen == sock                            \* mutant: close forgotten
SockAfterClose ==
    [s \in Session |-> IF s = ws /\ sock[s] # "closed" THEN "closing" ELSE sock[s]]

PipelineKept == pipeline                        \* mutant: not cleared
PipelineAfterDrop == NULL
DataChannelKept == dataChannel                  \* mutant: not cleared
DataChannelAfterDrop == NULL

(* Setting the pipeline to NULL joins webrtcbin's thread, which drops the  *)
(* tasks it has not run; a bin that is itself dropping does not wait.      *)
DropGoesOn(t) ==
    /\ drop[t] \in DropStage
    /\ Goes(t, drop[t], After[drop[t]])
    /\ drop[t] = "stop" /\ pipeline \notin {NULL, t} => drop[pipeline] = "idle"
    /\ wsCancel' = Writes(t, "forget", wsCancel, WsCancelAfterDisconnect)
    /\ playing' = Writes(t, "stop", playing, playing \ {pipeline})
    /\ answering' = Writes(t, "stop", answering,
                           [s \in Session |-> IF s = pipeline THEN 0 ELSE answering[s]])
    /\ sock' = Writes(t, "close", sock, SockAfterClose)
    /\ ws' = Writes(t, "clearWs", ws, NULL)
    /\ webrtcbin' = Writes(t, "clearBin", webrtcbin, NULL)
    /\ dataChannel' = Writes(t, "clearChannel", dataChannel, DataChannelAfterDrop)
    /\ pipeline' = Writes(t, "clearPipeline", pipeline, PipelineAfterDrop)
    /\ UNCHANGED <<status, attempts, nSent, inbox, outbox, loop, applied, nGathered,
                   channel, callback, abort, history>>

(* The status is the caller's.                                             *)
StatusAfterDrop(t) ==
    IF t \in Session THEN {"DISCONNECTED_ERROR", "DISCONNECTED_REMOTE_CLOSE"}
                     ELSE {"IDLE_NOT_CONNECTED"}

DropEnds(t, next) ==
    /\ Goes(t, "status", next)
    /\ status' \in StatusAfterDrop(t)
    /\ order' = IF order = "restoring" THEN "kept" ELSE order
    /\ UNCHANGED <<pointers, attempts, sockets, loop, media, callback, abort, nRaces>>

conn_disconnect_internal(t) == DropGoesOn(t) \/ DropEnds(t, "idle")

----------------------------------------------------------------------------
(* The application's calls: both begin with conn_disconnect_internal.      *)

my_connection_disconnect == DropBegins(APP) /\ UNCHANGED <<channel, callback>>

(* The rest of conn_connect_internal: a cancellable if there is none, which *)
(* is reset, an attempt started with it, and the status.                    *)
RenewCancellable ==
    /\ Goes(APP, "renew", "attempt")
    /\ wsCancel' = IF wsCancel = NULL THEN nCancel + 1 ELSE wsCancel
    /\ nCancel' = IF wsCancel = NULL THEN nCancel + 1 ELSE nCancel
    /\ UNCHANGED <<status, ws, pipeline, webrtcbin, dataChannel, nConnects,
                   cancelled, inflight, cancelOf, sockets, loop, media, callback,
                   abort, history>>

StartAttempt ==
    /\ Goes(APP, "attempt", "connecting")
    /\ nConnects' = nConnects + 1
    /\ cancelled' = cancelled \ {wsCancel}
    /\ inflight' = inflight \cup {nConnects'}
    /\ cancelOf' = [cancelOf EXCEPT ![nConnects'] = wsCancel]
    /\ UNCHANGED <<fields, nCancel, sockets, loop, media, callback, abort, history>>

ConnectReturns ==
    /\ Goes(APP, "connecting", "idle")
    /\ status' = "CONNECTING"
    /\ UNCHANGED <<pointers, attempts, sockets, loop, media, callback, abort, history>>

conn_connect_internal ==
    \/ nConnects < MaxConnects /\ DropEnds(APP, "renew")
    \/ RenewCancellable
    \/ StartAttempt
    \/ ConnectReturns

----------------------------------------------------------------------------
(* conn_websocket_connected_cb, on the main loop.  The attempt of session  *)
(* s has finished: always with an error once it was cancelled, otherwise   *)
(* with an error or with a socket.                                         *)

LoopReady ==
    abort = "none" /\ ~waiting /\ cbPc = "idle" /\ drop[LOOP] = "idle"
Finishes(s) == LoopReady /\ s \in inflight /\ inflight' = inflight \ {s}

(* g_assert(!conn->ws)                                                     *)
ConnectedCbAssertsWs(s) ==
    /\ Finishes(s)
    /\ ws # NULL
    /\ abort' = "ws"
    /\ UNCHANGED <<fields, nConnects, nCancel, cancelled, cancelOf, sockets, loop,
                   media, threads, history>>

ConnectedCbError(s) ==
    /\ Finishes(s)
    /\ ws = NULL
    /\ status' = "WEBSOCKET_FAILED"
    /\ UNCHANGED <<wsCancel, ws, pipeline, webrtcbin, dataChannel, nConnects,
                   nCancel, cancelled, cancelOf, sockets, loop, media, threads,
                   abort, history>>

(* A socket: it is stored.                                                 *)
ConnectedCbAccepts(s) ==
    /\ Finishes(s)
    /\ ~AttemptCancelled(s)
    /\ ws = NULL
    /\ ws' = s
    /\ sock' = [sock EXCEPT ![s] = "open"]
    /\ cbPc' = "attach"
    /\ cbSession' = s
    /\ Races(LOOP)
    /\ order' = IF Alone(LOOP) THEN order ELSE "lost"
    /\ UNCHANGED <<status, wsCancel, pipeline, webrtcbin, dataChannel, nConnects,
                   nCancel, cancelled, cancelOf, nSent, inbox, outbox, loop, media,
                   drop, abort>>

(* The loop goes on from one stage of the callback to the next.            *)
Continues(stage, next) ==
    /\ abort = "none"
    /\ cbPc = stage
    /\ cbPc' = next
    /\ cbSession' = IF next = "idle" THEN NULL ELSE cbSession

(* The message handler is connected to conn->ws.  If that has been cleared *)
(* meanwhile, nothing the socket delivers is heard: as good as closed.     *)
AttachMessageHandler ==
    LET heard == ws = cbSession
    IN  /\ Continues("attach", "assert")
        /\ sock' = IF heard THEN sock ELSE [sock EXCEPT ![cbSession] = "closed"]
        /\ inbox' = IF heard THEN inbox ELSE [inbox EXCEPT ![cbSession] = <<>>]
        /\ UNCHANGED <<fields, attempts, nSent, outbox, loop, media, drop, abort,
                       history>>

(* g_assert_null(conn->pipeline)                                           *)
AssertNoPipeline ==
    /\ Continues("assert", "need")
    /\ abort' = IF pipeline = NULL THEN "none" ELSE "pipeline"
    /\ UNCHANGED <<fields, attempts, sockets, loop, media, drop, history>>

(* on-need-pipeline is answered by my_connection_set_pipeline, in two      *)
(* steps, or not at all.  Only the loop stores a pipeline, and it has just *)
(* found none, so there is no old one to be stopped.                       *)
StorePipeline ==
    /\ Continues("need", "bin")
    /\ pipeline' = cbSession
    /\ UNCHANGED <<status, wsCancel, ws, webrtcbin, dataChannel, attempts, sockets,
                   loop, media, drop, abort, history>>

BinOfOldPipeline == webrtcbin                   \* mutant: bin not looked up
BinOfPipeline == pipeline

StoreBin ==
    /\ Continues("bin", "check")
    /\ status' = "NEGOTIATING"
    /\ webrtcbin' = BinOfPipeline
    /\ abort' = IF pipeline = NULL THEN "webrtcbin" ELSE "none"
    /\ UNCHANGED <<wsCancel, ws, pipeline, dataChannel, attempts, sockets, loop,
                   media, drop, history>>

(* Nothing given, or something found: on to the next test.                 *)
NextTest ==
    /\ \/ Continues("need", "check")
       \/ pipeline # NULL /\ Continues("check", "start")
    /\ UNCHANGED <<fields, attempts, sockets, loop, media, drop, abort, history>>

(* Without a pipeline the object is disconnected, on this thread.          *)
DisconnectWithoutPipeline ==
    /\ Continues("check", "idle")
    /\ pipeline = NULL
    /\ DropBegins(LOOP)
    /\ UNCHANGED channel

StartPipeline ==
    /\ Continues("start", "idle")
    /\ playing' = playing \cup ({pipeline} \ {NULL})
    /\ UNCHANGED <<fields, attempts, sockets, loop, applied, answering, nGathered,
                   channel, drop, abort, history>>

ConnectedCbFinishes(s) ==
    ConnectedCbAssertsWs(s) \/ ConnectedCbError(s) \/ ConnectedCbAccepts(s)

ConnectedCbGoesOn ==
    \/ AttachMessageHandler
    \/ AssertNoPipeline
    \/ StorePipeline
    \/ StoreBin
    \/ NextTest
    \/ DisconnectWithoutPipeline
    \/ StartPipeline

----------------------------------------------------------------------------
(* The peer's side of a socket.  Closing takes a round trip: what the      *)
(* server sent before it saw the close is still delivered.                 *)

ServerSends(s, m) ==
    /\ abort = "none"
    /\ sock[s] \in {"open", "closing"}
    /\ nSent[s] < MaxInbound
    /\ nSent' = [nSent EXCEPT ![s] = @ + 1]
    /\ inbox' = [inbox EXCEPT ![s] = Append(@, m)]
    /\ UNCHANGED <<fields, attempts, sock, outbox, loop, media,
                   threads, abort, history>>

SocketCloses(s) ==
    /\ LoopReady
    /\ sock[s] \in {"open", "closing"}
    /\ inbox[s] = <<>>
    /\ sock' = [sock EXCEPT ![s] = "closed"]
    /\ UNCHANGED <<fields, attempts, nSent, inbox, outbox, loop, media, threads,
                   abort, history>>

(* conn_on_ws_message_cb, on the main loop.  It never looks at which socket *)
(* the message came from.                                                  *)
Receives(s, m) ==
    /\ LoopReady
    /\ inbox[s] # <<>>
    /\ Head(inbox[s]) = m
    /\ inbox' = [inbox EXCEPT ![s] = Tail(@)]

(* The webrtcbin a message of socket s is applied to.                      *)
TargetBin(s) == webrtcbin

(* conn_webrtc_process_sdp_offer up to gst_promise_wait: the loop blocks   *)
(* until the bin replies; a signal emitted on NULL never gets a reply.     *)
conn_webrtc_process_sdp_offer(s) ==
    /\ Receives(s, "offer")
    /\ waiting' = TRUE
    /\ waitBin' = TargetBin(s)
    /\ applied' = [b \in Session |->
                     IF b = TargetBin(s) THEN applied[b] + 1 ELSE applied[b]]
    /\ UNCHANGED <<fields, attempts, sock, nSent, outbox, playing, answering,
                   nGathered, channel, threads, abort, history>>

(* A candidate is handed to webrtcbin; a text without "msg", of another    *)
(* type or with an SDP that does not parse changes nothing.                *)
OtherMessage(s) ==
    /\ Receives(s, "other")
    /\ UNCHANGED <<fields, attempts, sock, nSent, outbox, loop, media, threads,
                   abort, history>>

conn_on_ws_message_cb(s) == conn_webrtc_process_sdp_offer(s) \/ OtherMessage(s)

(* The reply ends gst_promise_wait; "create-answer" goes to whatever       *)
(* conn->webrtcbin is by then, and to nobody when that is NULL.            *)
PromiseRepliedOnly ==                           \* mutant: no create-answer
    /\ abort = "none"
    /\ waiting /\ waitBin # NULL
    /\ waiting' = FALSE
    /\ waitBin' = NULL
    /\ UNCHANGED <<fields, attempts, sockets, media, threads, abort, history>>

PromiseReplied ==
    /\ abort = "none"
    /\ waiting /\ waitBin # NULL
    /\ waiting' = FALSE
    /\ waitBin' = NULL
    /\ answering' = [b \in Session |->
                       IF b = webrtcbin THEN answering[b] + 1 ELSE answering[b]]
    /\ UNCHANGED <<fields, attempts, sockets, playing, applied, nGathered, channel,
                   threads, abort, history>>

----------------------------------------------------------------------------
(* Callbacks on the thread of the webrtcbin of session s.                  *)

BinRuns(s) == abort = "none" /\ s \in playing /\ drop[s] = "idle"

(* A text sent on conn->ws; with conn->ws NULL or not open it is dropped.  *)
OutboxAfterSend(m) ==
    [s \in Session |-> IF s = ws /\ sock[s] = "open" THEN Append(outbox[s], m)
                                                     ELSE outbox[s]]

AnswerQueuedOnceMore(s) == answering[s] >= 0    \* mutant: callback runs again
AnswerQueued(s) == answering[s] > 0

AnswerUnsent == outbox                          \* mutant: send forgotten
conn_send_sdp_answer == OutboxAfterSend("answer")

(* conn_webrtc_on_answer_created: set-local-description, which starts the  *)
(* gathering of candidates, and the answer sent.                           *)
conn_webrtc_on_answer_created(s) ==
    /\ BinRuns(s)
    /\ AnswerQueued(s)
    /\ answering' = [answering EXCEPT ![s] = @ - 1]
    /\ outbox' = conn_send_sdp_answer
    /\ UNCHANGED <<fields, attempts, sock, nSent, inbox, loop, playing, applied,
                   nGathered, channel, threads, abort, history>>

(* The reply carries no answer: that is logged, then answer->sdp is read.  *)
AnswerMissing(s) ==
    /\ BinRuns(s)
    /\ AnswerQueued(s)
    /\ abort' = "answer"
    /\ UNCHANGED <<fields, attempts, sockets, loop, media, threads, history>>

AnswersSent(s) == Cardinality({i \in DOMAIN outbox[s] : outbox[s][i] = "answer"})

(* Gathering follows a local description, that is an answer created.       *)
Gathering(s) == applied[s] > answering[s] + (IF waitBin = s THEN 1 ELSE 0)

conn_webrtc_on_ice_candidate_cb(s) ==
    /\ BinRuns(s)
    /\ Gathering(s)
    /\ nGathered[s] < MaxCandidates
    /\ nGathered' = [nGathered EXCEPT ![s] = @ + 1]
    /\ outbox' = OutboxAfterSend("candidate")
    /\ UNCHANGED <<fields, attempts, sock, nSent, inbox, loop, playing, applied,
                   answering, channel, threads, abort, history>>

(* The server opens one data channel in a session.  Its close and error    *)
(* handlers are attached when it is prepared, before it is announced.      *)
conn_webrtc_prepare_data_channel_cb(s) ==
    /\ BinRuns(s)
    /\ Gathering(s)
    /\ channel[s] = "none"
    /\ channel' = [channel EXCEPT ![s] = "prepared"]
    /\ UNCHANGED <<fields, attempts, sockets, loop, playing, applied, answering,
                   nGathered, threads, abort, history>>

(* g_assert_null(conn->data_channel) comes first.                          *)
conn_webrtc_on_data_channel_cb(s) ==
    /\ BinRuns(s)
    /\ channel[s] = "prepared"
    /\ abort' = IF dataChannel = NULL THEN "none" ELSE "data_channel"
    /\ channel' = [channel EXCEPT ![s] = "open"]
    /\ dataChannel' = s
    /\ status' = "CONNECTED"
    /\ UNCHANGED <<wsCancel, ws, pipeline, webrtcbin, attempts, sockets, loop,
                   playing, applied, answering, nGathered, threads, history>>

(* conn_data_channel_error_cb and conn_data_channel_close_cb.              *)
DataChannelEnds(s) ==
    /\ BinRuns(s)
    /\ channel[s] \in {"prepared", "open"}
    /\ channel' = [channel EXCEPT ![s] = "closed"]
    /\ DropBegins(s)
    /\ UNCHANGED callback

----------------------------------------------------------------------------
Next ==
    \/ my_connection_disconnect
    \/ conn_connect_internal
    \/ \E t \in Thread : conn_disconnect_internal(t)
    \/ ConnectedCbGoesOn
    \/ PromiseReplied
    \/ \E s \in Session :
         \/ ConnectedCbFinishes(s)
         \/ \E m \in InMsg : ServerSends(s, m)
         \/ SocketCloses(s)
         \/ conn_on_ws_message_cb(s)
         \/ conn_webrtc_on_answer_created(s)
         \/ AnswerMissing(s)
         \/ conn_webrtc_on_ice_candidate_cb(s)
         \/ conn_webrtc_prepare_data_channel_cb(s)
         \/ conn_webrtc_on_data_channel_cb(s)
         \/ DataChannelEnds(s)

Spec == Init /\ [][Next]_vars

(* A thread goes on with what it has begun, the main loop runs what is     *)
(* ready, an attempt finishes (libsoup's own timeout at the latest) and    *)
(* webrtcbin works off its tasks.  Nothing is asked of the application     *)
(* between its calls, of the server or of the data channel.                *)
Fairness ==
    /\ \A t \in Thread : WF_vars(conn_disconnect_internal(t))
    /\ WF_vars(conn_connect_internal)
    /\ WF_vars(ConnectedCbGoesOn)
    /\ WF_vars(PromiseReplied)
    /\ \A s \in Session :
         /\ WF_vars(ConnectedCbFinishes(s))
         /\ WF_vars(conn_on_ws_message_cb(s))
         /\ WF_vars(conn_webrtc_on_answer_created(s) \/ AnswerMissing(s))

FairSpec == Spec /\ Fairness

----------------------------------------------------------------------------
(* Properties.                                                             *)

(* Every variable stays in its type; a pointer field names a session that  *)
(* exists and no counter passes its bound.                                 *)
TypeOK ==
    /\ status \in Status
    /\ wsCancel \in Cancellable \cup {NULL}
    /\ ws \in Ref /\ pipeline \in Ref /\ webrtcbin \in Ref /\ dataChannel \in Ref
    /\ nConnects \in 0 .. MaxConnects
    /\ nCancel \in Cancellable
    /\ cancelled \subseteq Cancellable
    /\ inflight \subseteq Session
    /\ cancelOf \in [Session -> Cancellable \cup {NULL}]
    /\ sock \in [Session -> SocketState]
    /\ nSent \in [Session -> 0 .. MaxInbound]
    /\ inbox \in [Session -> Seq(InMsg)]
    /\ outbox \in [Session -> Seq(OutMsg)]
    /\ waiting \in BOOLEAN
    /\ waitBin \in Ref
    /\ playing \subseteq Session
    /\ applied \in [Session -> Nat]
    /\ answering \in [Session -> Nat]
    /\ nGathered \in [Session -> 0 .. MaxCandidates]
    /\ channel \in [Session -> ChannelState]
    /\ drop \in [Thread -> Stage]
    /\ \A t \in Thread \ {APP} : drop[t] \notin ConnectStage
    /\ cbPc \in CallbackStage
    /\ cbSession \in Ref
    /\ abort \in Assertion
    /\ order \in Order
    /\ nRaces \in 0 .. MaxRaces

(* Whatever interleaves with the completion of an attempt, while no two    *)
(* disconnects overlap: an attempt that can still succeed is the only one, *)
(* and a disconnect reaches it, for conn->ws_cancel is its cancellable.    *)
(* This is what makes "disconnect, then connect" safe although attempts    *)
(* complete in any order.  With the handlers in order it has no session    *)
(* beside it.                                                              *)
LiveAttemptIsControlled ==
    order # "lost" =>
        \A s \in inflight : ~AttemptCancelled(s) =>
            /\ cancelOf[s] = wsCancel
            /\ \A t \in inflight : ~AttemptCancelled(t) => t = s
            /\ ws = NULL /\ pipeline = NULL

(* Between the long handlers.                                              *)
Quiet == cbPc = "idle" /\ \A t \in Thread : drop[t] = "idle"

(* The socket, the pipeline and the webrtcbin of the object are of one     *)
(* session, and it is theirs that is running: an answer never goes out on  *)
(* the socket of another session than that of the webrtcbin that made it,  *)
(* and after a race one undisturbed disconnect puts this right.            *)
SessionFieldsAgree ==
    order = "kept" =>
        /\ Quiet => ws = pipeline /\ pipeline = webrtcbin
        /\ \A s \in playing : ws = s /\ pipeline = s /\ webrtcbin = s

(* Nothing is forgotten: an open socket or a playing pipeline is the one   *)
(* the object points to, so disconnect can still stop it; and what is lost *)
(* was lost by two threads in the long handlers at once.                   *)
NothingLeftRunning ==
    order # "lost" =>
        /\ \A s \in Session : sock[s] = "open" => s = ws
        /\ playing \subseteq {pipeline}

(* my_connection_send_bytes dereferences the data channel when the status  *)
(* is CONNECTED: then, and only then, there is an announced channel of a   *)
(* running pipeline.                                                       *)
ConnectedHasChannel ==
    /\ status = "CONNECTED" => dataChannel # NULL
    /\ dataChannel # NULL =>
         /\ status = "CONNECTED"
         /\ dataChannel \in playing
         /\ channel[dataChannel] = "open"

(* What the application reads in the status is what there is.  A session,  *)
(* with or without its channel, is negotiating or connected and nothing    *)
(* else is.  The late completion of a cancelled attempt may overwrite the  *)
(* status of the attempt that replaced it, but only to WEBSOCKET_FAILED,   *)
(* and never once that attempt has become a session.                       *)
StatusTellsSession ==
    order = "kept" /\ Quiet =>
        /\ ConnectedHasChannel
        /\ status \in {"NEGOTIATING", "CONNECTED"} <=> pipeline # NULL
        /\ (\E s \in inflight : ~AttemptCancelled(s))
               => status \in {"CONNECTING", "WEBSOCKET_FAILED"}

(* While the long handlers keep out of each other's way, the assertions    *)
(* that there is no pipeline when a websocket connects, that there is a    *)
(* webrtcbin when one was given, and that there is no channel when one is  *)
(* announced hold for every sequence of connects, disconnects, losses and  *)
(* closes.                                                                 *)
SessionAssertsHold ==
    order = "kept" => abort \notin {"pipeline", "webrtcbin", "data_channel"}

(* The object implements SingleSession: whatever the order in which        *)
(* attempts complete and texts, replies and callbacks of earlier sessions  *)
(* arrive, sessions come one at a time, only from the newest attempt, and  *)
(* what goes out in a session is its own: never more answers than it got   *)
(* offers, no candidate before the first of them.  It is unruly from a     *)
(* race of the long handlers until a disconnect has put it right.          *)
LiveAttempt ==
    IF nConnects \in inflight /\ ~AttemptCancelled(nConnects) THEN nConnects ELSE NULL
Promise == INSTANCE SingleSession
           WITH begun <- nConnects, attempt <- LiveAttempt, session <- ws,
                channelUp <- dataChannel # NULL /\ ws # NULL,
                offers <- applied, texts <- outbox, calm <- order = "kept"
OneSessionAtATime == Promise!Spec

(* Every offer applied to a webrtcbin that keeps running over an open      *)
(* socket is answered in the end, and the messages of its socket are read. *)
OffersAnswered ==
    \A s \in Session :
        <>[](s \in playing /\ sock[s] = "open" /\ abort = "none" /\ order = "kept"
               => AnswersSent(s) = applied[s] /\ inbox[s] = <<>>)

----------------------------------------------------------------------------
(* Stated by the repository's comments and assertions, and violated.       *)

(* An attempt that can still succeed is completed on the main loop, or     *)
(* given up.                                                               *)
ConnectResolves ==
    LiveAttempt # NULL /\ abort = "none" ~> LiveAttempt = NULL \/ abort # "none"

(* g_assert(!conn->ws) at the head of conn_websocket_connected_cb holds.   *)
WsAssertHolds == abort # "ws"
=============================================================================
