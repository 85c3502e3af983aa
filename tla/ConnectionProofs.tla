--------------------------- MODULE ConnectionProofs ---------------------------
(***************************************************************************)
(* Connection for every number of connects, messages, candidates and races *)
(* of its two long handlers.                                               *)
(*                                                                         *)
(* IInv says how far the thread in a long handler has come, and what the   *)
(* fields are at that point.  What it says depends on the history: always  *)
(* that sessions and cancellables are handed out in order and that a       *)
(* session that has not started owns nothing; while the order is not lost  *)
(* that one thread is in a long handler and the object knows of all that   *)
(* runs; while it is kept that the fields are of one session.              *)
(***************************************************************************)
EXTENDS Connection, SequenceTheorems, FiniteSetTheorems, TLAPS

(* In every state.                                                         *)

Started(s) == s <= nConnects /\ s \notin inflight
BlankInv ==
    \A s \in Session : ~Started(s) =>
        /\ s \notin {ws, pipeline, webrtcbin, dataChannel, waitBin, cbSession}
        /\ s \notin playing
        /\ sock[s] = "none" /\ outbox[s] = <<>>
        /\ applied[s] = 0 /\ answering[s] = 0 /\ channel[s] = "none"

IdsInOrder ==
    /\ inflight \subseteq 1 .. nConnects
    /\ nCancel <= nConnects + 1 + (IF drop[APP] = "attempt" THEN 1 ELSE 0)
    /\ wsCancel <= nCancel
    /\ \A s \in inflight : cancelOf[s] <= nCancel
    /\ drop[APP] \in {"renew", "attempt"} => nConnects < MaxConnects

(* The main loop is in the completion, in a disconnect, or waits for the   *)
(* webrtcbin the object has or for one it has given up.                    *)
LoopBusy == cbPc # "idle" \/ drop[LOOP] # "idle"
LoopInv ==
    /\ waiting => ~LoopBusy /\ webrtcbin \in {waitBin, NULL}
    /\ ~waiting => waitBin = NULL
    /\ cbPc # "idle" => cbSession # NULL /\ drop[LOOP] = "idle"
    /\ cbPc = "idle" => cbSession = NULL

(* While the order is not lost.                                            *)

OneAtATime ==
    /\ \A t, u \in Thread : drop[t] # "idle" /\ drop[u] # "idle" => t = u
    /\ cbPc # "idle" => \A t \in Thread : drop[t] = "idle"
    /\ order = "restoring" => \E t \in Thread : drop[t] \in DropStage \cup {"status"}

AttemptInv ==
    \A s \in inflight : ~AttemptCancelled(s) =>
        /\ s = nConnects
        /\ cancelOf[s] = wsCancel /\ wsCancel # NULL
        /\ ws = NULL /\ pipeline = NULL
        /\ \A t \in Thread : drop[t] \in {"idle", "connecting"}

(* The stages from each statement of conn_disconnect_internal on.          *)
FromAttempt == {"attempt", "connecting"}
FromRenew == {"renew"} \cup FromAttempt
FromStatus == {"status"} \cup FromRenew
FromPipeline == {"clearPipeline"} \cup FromStatus
FromChannel == {"clearChannel"} \cup FromPipeline
FromBin == {"clearBin"} \cup FromChannel
FromWs == {"clearWs"} \cup FromBin
FromClose == {"close"} \cup FromWs
FromStop == {"stop"} \cup FromClose

DropInv ==
    \A t \in Thread :
        /\ drop[t] \in FromStop \ FromAttempt => wsCancel = NULL
        /\ drop[t] = "attempt" =>
             wsCancel # NULL /\ \A s \in inflight : cancelOf[s] # wsCancel
        /\ drop[t] \in FromClose => playing = {}
        /\ drop[t] \in FromWs => \A s \in Session : sock[s] # "open"
        /\ drop[t] \in FromBin => ws = NULL
        /\ drop[t] \in FromChannel => webrtcbin = NULL
        /\ drop[t] \in FromPipeline => dataChannel = NULL
        /\ drop[t] \in FromStatus => pipeline = NULL

OrderInv ==
    order # "lost" => OneAtATime /\ AttemptInv /\ NothingLeftRunning /\ DropInv

(* While the order is kept.                                                *)

PlayingInv == \A s \in playing : ws = s /\ pipeline = s /\ webrtcbin = s

SessionInv ==
    /\ ws # NULL => webrtcbin = ws \/ (webrtcbin = NULL /\ LoopBusy)
    /\ dataChannel # NULL =>
         channel[dataChannel] \in {"open", "closed"} /\ playing \subseteq {dataChannel}

CallbackInv ==
    cbPc # "idle" =>
        /\ ws = cbSession /\ dataChannel = NULL /\ playing = {}
        /\ applied[cbSession] = 0
        /\ cbPc \in {"attach", "assert", "need"} => pipeline = NULL
        /\ cbPc \in {"bin", "start"} => pipeline = ws
        /\ cbPc # "bin" => webrtcbin = pipeline
        /\ cbPc = "check" => pipeline \in {NULL, ws}
        /\ cbPc = "check" /\ pipeline # NULL => status = "NEGOTIATING"
        /\ cbPc = "start" => status = "NEGOTIATING"

QuietInv ==
    Quiet =>
        /\ ws = pipeline /\ pipeline = webrtcbin
        /\ ConnectedHasChannel
        /\ status \in {"NEGOTIATING", "CONNECTED"} <=> pipeline # NULL
        /\ (\E s \in inflight : ~AttemptCancelled(s))
               => status \in {"CONNECTING", "WEBSOCKET_FAILED"}

(* The account of the answers of the session there is: those sent, queued  *)
(* and awaited against the offers applied.                                 *)
Awaited(s) == IF waitBin = s THEN 1 ELSE 0
AnswerInv ==
    ws # NULL =>
        /\ AnswersSent(ws) + answering[ws] + Awaited(ws) <= applied[ws]
        /\ ws \in playing /\ sock[ws] = "open" /\ Gathering(ws) => AnswersSent(ws) > 0

KeptInv ==
    order = "kept" =>
        /\ PlayingInv /\ SessionInv /\ CallbackInv /\ QuietInv /\ AnswerInv
        /\ SessionAssertsHold

IInv == TypeOK /\ BlankInv /\ IdsInOrder /\ LoopInv /\ OrderInv /\ KeptInv

----------------------------------------------------------------------------
(* Counting the answers among the texts sent.                              *)

AnswersIn(q) == {i \in DOMAIN q : q[i] = "answer"}

LEMMA AnswersFinite ==
    ASSUME NEW q \in Seq(OutMsg)
    PROVE  IsFiniteSet(AnswersIn(q)) /\ Cardinality(AnswersIn(q)) \in Nat
  <1>1. DOMAIN q = 1 .. Len(q) /\ Len(q) \in Nat
    OBVIOUS
  <1>2. IsFiniteSet(1 .. Len(q))
    BY <1>1, FS_Interval
  <1>3. AnswersIn(q) \subseteq 1 .. Len(q)
    BY <1>1 DEF AnswersIn
  <1>4. QED
    BY <1>2, <1>3, FS_Subset, FS_CardinalityType

LEMMA AnswersAppended ==
    ASSUME NEW q \in Seq(OutMsg), NEW m \in OutMsg
    PROVE  Cardinality(AnswersIn(Append(q, m)))
               = Cardinality(AnswersIn(q)) + (IF m = "answer" THEN 1 ELSE 0)
  <1>1. Len(q) \in Nat /\ DOMAIN q = 1 .. Len(q)
    OBVIOUS
  <1>2. /\ DOMAIN Append(q, m) = 1 .. Len(q) + 1
        /\ \A i \in 1 .. Len(q) : Append(q, m)[i] = q[i]
        /\ Append(q, m)[Len(q) + 1] = m
    BY AppendProperties
  <1>3. AnswersIn(Append(q, m))
            = AnswersIn(q) \cup (IF m = "answer" THEN {Len(q) + 1} ELSE {})
    <2>1. 1 .. Len(q) + 1 = (1 .. Len(q)) \cup {Len(q) + 1}
      BY <1>1
    <2>2. QED
      BY <1>1, <1>2, <2>1 DEF AnswersIn
  <1>4. Len(q) + 1 \notin AnswersIn(q)
    BY <1>1 DEF AnswersIn
  <1>5. IsFiniteSet(AnswersIn(q)) /\ Cardinality(AnswersIn(q)) \in Nat
    BY AnswersFinite
  <1>6. CASE m = "answer"
    BY <1>3, <1>4, <1>5, <1>6, FS_AddElement
  <1>7. CASE m # "answer"
    <2>1. AnswersIn(Append(q, m)) = AnswersIn(q)
      BY <1>3, <1>7
    <2>2. QED
      BY <1>5, <1>7, <2>1
  <1>8. QED
    BY <1>6, <1>7

(* What a send does to the outboxes.                                       *)
LEMMA SendType ==
    ASSUME TypeOK, NEW m \in OutMsg
    PROVE  OutboxAfterSend(m) \in [Session -> Seq(OutMsg)]
  <1>1. ASSUME NEW s \in Session
        PROVE  Append(outbox[s], m) \in Seq(OutMsg) /\ outbox[s] \in Seq(OutMsg)
    BY AppendProperties DEF TypeOK
  <1>2. QED
    BY <1>1 DEF OutboxAfterSend

LEMMA CountOf ==
    ASSUME TypeOK, NEW s \in Session
    PROVE  AnswersSent(s) \in Nat
  <1>1. outbox[s] \in Seq(OutMsg)
    BY DEF TypeOK
  <1>2. QED
    BY <1>1, AnswersFinite DEF AnswersSent, AnswersIn

LEMMA CountKept ==
    ASSUME NEW s, outbox'[s] = outbox[s]
    PROVE  AnswersSent(s)' = AnswersSent(s)
  BY DEF AnswersSent

LEMMA CountAfterSend ==
    ASSUME TypeOK, NEW m \in OutMsg, outbox' = OutboxAfterSend(m), NEW s \in Session
    PROVE  AnswersSent(s)' =
             IF s = ws /\ sock[s] = "open" /\ m = "answer" THEN AnswersSent(s) + 1
                                                           ELSE AnswersSent(s)
  <1>1. outbox[s] \in Seq(OutMsg)
    BY DEF TypeOK
  <1>2. AnswersSent(s)' = Cardinality(AnswersIn(outbox'[s]))
    BY DEF AnswersSent, AnswersIn
  <1>3. AnswersSent(s) = Cardinality(AnswersIn(outbox[s]))
    BY DEF AnswersSent, AnswersIn
  <1>4. outbox'[s] = IF s = ws /\ sock[s] = "open" THEN Append(outbox[s], m) ELSE outbox[s]
    BY DEF OutboxAfterSend
  <1>5. Cardinality(AnswersIn(outbox[s])) \in Nat
    BY <1>1, AnswersFinite
  <1>6. QED
    BY <1>1, <1>2, <1>3, <1>4, <1>5, AnswersAppended

LEMMA NothingSent ==
    ASSUME NEW s, outbox[s] = <<>>
    PROVE  AnswersSent(s) = 0
  <1>1. {i \in DOMAIN outbox[s] : outbox[s][i] = "answer"} = {}
    OBVIOUS
  <1>2. QED
    BY <1>1, FS_EmptySet DEF AnswersSent

----------------------------------------------------------------------------
(* Type correctness.                                                       *)

LEMMA InitType == Init => TypeOK
  <1> SUFFICES ASSUME Init PROVE TypeOK
    OBVIOUS
  <1>1. 1 \in Cancellable /\ 0 \in 0 .. MaxConnects /\ 0 \in 0 .. MaxRaces
    BY BoundsAssumption DEF Cancellable
  <1>2. /\ nSent \in [Session -> 0 .. MaxInbound]
        /\ nGathered \in [Session -> 0 .. MaxCandidates]
        /\ applied \in [Session -> Nat]
        /\ answering \in [Session -> Nat]
    BY BoundsAssumption DEF Init
  <1>3. <<>> \in Seq(InMsg) /\ <<>> \in Seq(OutMsg)
    BY EmptySeq
  <1>4. inbox \in [Session -> Seq(InMsg)] /\ outbox \in [Session -> Seq(OutMsg)]
    BY <1>3 DEF Init
  <1>5. /\ sock \in [Session -> SocketState]
        /\ channel \in [Session -> ChannelState]
        /\ cancelOf \in [Session -> Cancellable \cup {NULL}]
        /\ drop \in [Thread -> Stage]
        /\ \A t \in Thread \ {APP} : drop[t] \notin ConnectStage
    BY <1>1 DEF Init, SocketState, ChannelState, Stage, ConnectStage
  <1>6. QED
    BY <1>1, <1>2, <1>4, <1>5
       DEF Init, TypeOK, Status, Ref, Assertion, NULL, CallbackStage, Order

LEMMA DropBeginsType ==
    ASSUME TypeOK, NEW t \in Thread, DropBegins(t), channel' \in [Session -> ChannelState],
           cbPc' \in CallbackStage, cbSession' \in Ref
    PROVE  TypeOK'
  <1>1. drop' \in [Thread -> Stage] /\ \A u \in Thread \ {APP} : drop'[u] \notin ConnectStage
    BY DEF TypeOK, DropBegins, Stage, DropStage, ConnectStage
  <1>2. cancelled' \subseteq Cancellable
    BY DEF TypeOK, DropBegins, CancelledByDisconnect
  <1>3. nRaces' \in 0 .. MaxRaces /\ order' \in Order
    BY BoundsAssumption DEF TypeOK, DropBegins, Races, OrderWith, Order
  <1>4. QED
    BY <1>1, <1>2, <1>3 DEF TypeOK, DropBegins, fields, pointers, sockets, loop

LEMMA DropType ==
    ASSUME TypeOK, NEW t \in Thread, conn_disconnect_internal(t)
    PROVE  TypeOK'
  <1>1. CASE DropGoesOn(t)
    <2>1. drop' \in [Thread -> Stage] /\ \A u \in Thread \ {APP} : drop'[u] \notin ConnectStage
      BY <1>1 DEF TypeOK, DropGoesOn, Goes, After, Stage, DropStage, ConnectStage
    <2>2. /\ wsCancel' \in Cancellable \cup {NULL}
          /\ ws' \in Ref /\ pipeline' \in Ref /\ webrtcbin' \in Ref
          /\ dataChannel' \in Ref
      BY <1>1 DEF TypeOK, DropGoesOn, Writes, WsCancelAfterDisconnect,
                  PipelineAfterDrop, DataChannelAfterDrop, Ref
    <2>3. /\ playing' \subseteq Session
          /\ answering' \in [Session -> Nat]
          /\ sock' \in [Session -> SocketState]
      BY <1>1 DEF TypeOK, DropGoesOn, Writes, SockAfterClose, SocketState
    <2>4. QED
      BY <1>1, <2>1, <2>2, <2>3
         DEF TypeOK, DropGoesOn, attempts, loop, callback, history
  <1>2. CASE DropEnds(t, "idle")
    BY <1>2 DEF TypeOK, DropEnds, Goes, StatusAfterDrop, Status, Stage, ConnectStage,
                Order, pointers, attempts, sockets, loop, media, callback
  <1>3. QED
    BY <1>1, <1>2 DEF conn_disconnect_internal

LEMMA ConnectType ==
    ASSUME TypeOK, IdsInOrder, conn_connect_internal
    PROVE  TypeOK'
  <1> USE DEF TypeOK, Goes, Stage, ConnectStage
  <1>0. /\ APP \in Thread
        /\ nConnects < MaxConnects =>
             nConnects + 1 \in Session /\ nConnects + 1 \in 0 .. MaxConnects
    BY BoundsAssumption DEF APP, Thread, Session
  <1>1. CASE DropEnds(APP, "renew")
    BY <1>0, <1>1 DEF DropEnds, StatusAfterDrop, Status, Order, pointers, attempts,
                      sockets, loop, media, callback
  <1>2. CASE RenewCancellable
    <2>1. nCancel' \in Cancellable /\ wsCancel' \in Cancellable \cup {NULL}
      BY <1>0, <1>2, BoundsAssumption DEF RenewCancellable, IdsInOrder, Cancellable
    <2>2. QED
      BY <1>0, <1>2, <2>1
         DEF RenewCancellable, sockets, loop, media, callback, history
  <1>3. CASE StartAttempt
    BY <1>0, <1>3 DEF StartAttempt, IdsInOrder, fields, pointers, sockets, loop, media,
                      callback, history
  <1>4. CASE ConnectReturns
    BY <1>0, <1>4 DEF ConnectReturns, Status, pointers, attempts, sockets, loop, media,
                      callback, history
  <1>5. QED
    BY <1>1, <1>2, <1>3, <1>4 DEF conn_connect_internal

LEMMA CallbackType ==
    ASSUME TypeOK, ConnectedCbGoesOn
    PROVE  TypeOK'
  <1> USE DEF TypeOK, Continues, CallbackStage, Ref
  <1>1. CASE AttachMessageHandler
    <2>1. <<>> \in Seq(InMsg)
      BY EmptySeq
    <2>2. sock' \in [Session -> SocketState] /\ inbox' \in [Session -> Seq(InMsg)]
      BY <1>1, <2>1 DEF AttachMessageHandler, SocketState
    <2>3. QED
      BY <1>1, <2>2
         DEF AttachMessageHandler, fields, pointers, attempts, loop, media, history
  <1>2. CASE AssertNoPipeline
    BY <1>2 DEF AssertNoPipeline, Assertion, fields, pointers, attempts, sockets, loop,
                media, history
  <1>3. CASE StorePipeline
    BY <1>3 DEF StorePipeline, attempts, sockets, loop, media, history
  <1>4. CASE StoreBin
    BY <1>4 DEF StoreBin, BinOfPipeline, Assertion, Status, attempts, sockets, loop,
                media, history
  <1>5. CASE NextTest
    BY <1>5 DEF NextTest, fields, pointers, attempts, sockets, loop, media, history
  <1>6. CASE DisconnectWithoutPipeline
    <2>1. LOOP \in Thread
      BY BoundsAssumption DEF LOOP, Thread
    <2>2. QED
      BY <1>6, <2>1, DropBeginsType DEF DisconnectWithoutPipeline
  <1>7. CASE StartPipeline
    BY <1>7 DEF StartPipeline, fields, pointers, attempts, sockets, loop, history
  <1>8. QED
    BY <1>1, <1>2, <1>3, <1>4, <1>5, <1>6, <1>7 DEF ConnectedCbGoesOn

LEMMA FinishType ==
    ASSUME TypeOK, NEW s \in Session, ConnectedCbFinishes(s)
    PROVE  TypeOK'
  <1> USE DEF TypeOK, Finishes
  <1>1. CASE ConnectedCbAssertsWs(s)
    BY <1>1 DEF ConnectedCbAssertsWs, Assertion, fields, pointers, sockets, loop, media,
                threads, callback, history
  <1>2. CASE ConnectedCbError(s)
    BY <1>2 DEF ConnectedCbError, Status, sockets, loop, media, threads, callback, history
  <1>3. CASE ConnectedCbAccepts(s)
    <2>1. nRaces' \in 0 .. MaxRaces /\ order' \in Order
      BY <1>3, BoundsAssumption DEF ConnectedCbAccepts, Races, Order
    <2>2. sock' \in [Session -> SocketState]
      BY <1>3 DEF ConnectedCbAccepts, SocketState
    <2>3. QED
      BY <1>3, <2>1, <2>2
         DEF ConnectedCbAccepts, CallbackStage, Ref, loop, media
  <1>4. QED
    BY <1>1, <1>2, <1>3 DEF ConnectedCbFinishes

LEMMA MessageType ==
    ASSUME TypeOK, NEW s \in Session, conn_on_ws_message_cb(s)
    PROVE  TypeOK'
  <1>1. inbox[s] \in Seq(InMsg) /\ inbox[s] # <<>>
    BY DEF TypeOK, conn_on_ws_message_cb, conn_webrtc_process_sdp_offer, OtherMessage,
           Receives
  <1>2. Tail(inbox[s]) \in Seq(InMsg)
    BY <1>1, HeadTailProperties
  <1>3. inbox' \in [Session -> Seq(InMsg)]
    BY <1>2 DEF TypeOK, conn_on_ws_message_cb, conn_webrtc_process_sdp_offer,
                OtherMessage, Receives
  <1>4. CASE conn_webrtc_process_sdp_offer(s)
    <2>1. applied' \in [Session -> Nat]
      BY <1>4 DEF TypeOK, conn_webrtc_process_sdp_offer
    <2>2. waiting' \in BOOLEAN /\ waitBin' \in Ref
      BY <1>4 DEF TypeOK, conn_webrtc_process_sdp_offer, TargetBin
    <2>3. QED
      BY <1>3, <1>4, <2>1, <2>2
         DEF TypeOK, conn_webrtc_process_sdp_offer, fields, pointers, attempts, threads,
             callback, history
  <1>5. CASE OtherMessage(s)
    BY <1>3, <1>5 DEF TypeOK, OtherMessage, fields, pointers, attempts, loop, media,
                      threads, callback, history
  <1>6. QED
    BY <1>4, <1>5 DEF conn_on_ws_message_cb

LEMMA PeerType ==
    ASSUME TypeOK, NEW s \in Session,
           SocketCloses(s) \/ \E m \in InMsg : ServerSends(s, m)
    PROVE  TypeOK'
  <1>1. CASE SocketCloses(s)
    BY <1>1 DEF TypeOK, SocketCloses, SocketState, fields, pointers, attempts, loop,
                media, threads, callback, history
  <1>2. ASSUME NEW m \in InMsg, ServerSends(s, m)
        PROVE  TypeOK'
    <2>1. inbox[s] \in Seq(InMsg)
      BY DEF TypeOK
    <2>2. Append(inbox[s], m) \in Seq(InMsg)
      BY <2>1, AppendProperties
    <2>3. inbox' \in [Session -> Seq(InMsg)]
      BY <1>2, <2>2 DEF TypeOK, ServerSends
    <2>4. nSent' \in [Session -> 0 .. MaxInbound]
      BY <1>2, BoundsAssumption DEF TypeOK, ServerSends
    <2>5. QED
      BY <1>2, <2>3, <2>4
         DEF TypeOK, ServerSends, fields, pointers, attempts, loop, media, threads,
             callback, history
  <1>3. QED
    BY <1>1, <1>2

LEMMA BinType ==
    ASSUME TypeOK, NEW s \in Session,
           \/ conn_webrtc_on_answer_created(s)
           \/ AnswerMissing(s)
           \/ conn_webrtc_on_ice_candidate_cb(s)
           \/ conn_webrtc_prepare_data_channel_cb(s)
           \/ conn_webrtc_on_data_channel_cb(s)
           \/ DataChannelEnds(s)
    PROVE  TypeOK'
  <1> USE DEF TypeOK, threads, callback, history, attempts, loop
  <1>1. CASE conn_webrtc_on_answer_created(s)
    <2>1. outbox' \in [Session -> Seq(OutMsg)]
      BY <1>1, SendType DEF conn_webrtc_on_answer_created, conn_send_sdp_answer, OutMsg
    <2>2. answering' \in [Session -> Nat]
      BY <1>1 DEF conn_webrtc_on_answer_created, AnswerQueued
    <2>3. QED
      BY <1>1, <2>1, <2>2 DEF conn_webrtc_on_answer_created, fields, pointers
  <1>2. CASE AnswerMissing(s)
    BY <1>2 DEF AnswerMissing, Assertion, fields, pointers, sockets, media
  <1>3. CASE conn_webrtc_on_ice_candidate_cb(s)
    <2>1. outbox' \in [Session -> Seq(OutMsg)]
      BY <1>3, SendType DEF conn_webrtc_on_ice_candidate_cb, OutMsg
    <2>2. nGathered' \in [Session -> 0 .. MaxCandidates]
      BY <1>3, BoundsAssumption DEF conn_webrtc_on_ice_candidate_cb
    <2>3. QED
      BY <1>3, <2>1, <2>2 DEF conn_webrtc_on_ice_candidate_cb, fields, pointers
  <1>4. CASE conn_webrtc_prepare_data_channel_cb(s)
    BY <1>4 DEF conn_webrtc_prepare_data_channel_cb, ChannelState, fields, pointers,
                sockets
  <1>5. CASE conn_webrtc_on_data_channel_cb(s)
    BY <1>5 DEF conn_webrtc_on_data_channel_cb, ChannelState, Ref, Status, Assertion,
                sockets
  <1>6. CASE DataChannelEnds(s)
    <2>1. s \in Thread
      BY BoundsAssumption DEF Session, Thread
    <2>2. channel' \in [Session -> ChannelState]
      BY <1>6 DEF DataChannelEnds, ChannelState
    <2>3. QED
      BY <1>6, <2>1, <2>2, DropBeginsType DEF DataChannelEnds
  <1>7. QED
    BY <1>1, <1>2, <1>3, <1>4, <1>5, <1>6

LEMMA TypeStep ==
    ASSUME TypeOK, IdsInOrder, [Next]_vars
    PROVE  TypeOK'
  <1>1. CASE my_connection_disconnect
    <2>1. APP \in Thread
      BY BoundsAssumption DEF APP, Thread
    <2>2. channel' \in [Session -> ChannelState] /\ cbPc' \in CallbackStage /\ cbSession' \in Ref
      BY <1>1 DEF TypeOK, my_connection_disconnect, callback
    <2>3. QED
      BY <1>1, <2>1, <2>2, DropBeginsType DEF my_connection_disconnect
  <1>2. CASE PromiseReplied
    <2>1. answering' \in [Session -> Nat]
      BY <1>2 DEF TypeOK, PromiseReplied
    <2>2. waiting' \in BOOLEAN /\ waitBin' \in Ref
      BY <1>2 DEF PromiseReplied, Ref
    <2>3. QED
      BY <1>2, <2>1, <2>2
         DEF TypeOK, PromiseReplied, fields, pointers, attempts, sockets, threads,
             callback, history
  <1>3. CASE UNCHANGED vars
    BY <1>3 DEF TypeOK, vars, fields, pointers, attempts, sockets, loop, media, threads,
                callback, history
  <1>4. QED
    BY <1>1, <1>2, <1>3, DropType, ConnectType, CallbackType, FinishType, MessageType,
       PeerType, BinType
       DEF Next

----------------------------------------------------------------------------
(* IInv is inductive.                                                      *)

LEMMA Threads ==
    /\ APP \in Thread /\ LOOP \in Thread /\ APP # LOOP
    /\ Session \subseteq Thread /\ APP \notin Session /\ LOOP \notin Session
    /\ NULL \notin Session /\ NULL \notin Thread
  BY BoundsAssumption DEF APP, LOOP, Thread, Session, NULL

(* While no attempt is live and the object knows what runs, the first      *)
(* statement of conn_disconnect_internal leaves no attempt live.           *)
LEMMA DropBeginsStep ==
    ASSUME IInv, TypeOK', NEW t \in Thread, DropBegins(t),
           \/ t # LOOP /\ UNCHANGED callback
           \/ t = LOOP /\ cbPc = "check" /\ cbPc' = "idle" /\ cbSession' = NULL,
           \A s \in Session : channel'[s] = channel[s]
              \/ (channel[s] \in {"prepared", "open"} /\ channel'[s] = "closed")
    PROVE  IInv'
  <1> USE Threads
  <1>0. /\ drop[t] = "idle" /\ drop' = [drop EXCEPT ![t] = "forget"]
        /\ cancelled' = cancelled \cup ({wsCancel} \ {NULL})
        /\ order' = OrderWith(t)
        /\ UNCHANGED <<fields, pointers, nConnects, nCancel, inflight, cancelOf, sockets, loop,
                       playing, applied, answering, nGathered, abort>>
    BY DEF DropBegins, CancelledByDisconnect, fields
  <1>1. BlankInv' /\ IdsInOrder' /\ LoopInv'
    <2>1. BlankInv'
      BY <1>0 DEF IInv, BlankInv, Started, callback, pointers, sockets, loop, LoopInv
    <2>2. IdsInOrder'
      BY <1>0 DEF IInv, TypeOK, IdsInOrder, pointers
    <2>3. LoopInv'
      BY <1>0 DEF IInv, TypeOK, LoopInv, LoopBusy, callback, pointers, loop
    <2>4. QED
      BY <2>1, <2>2, <2>3
  <1>2. ASSUME order' # "lost"
        PROVE  OneAtATime' /\ AttemptInv' /\ NothingLeftRunning' /\ DropInv'
    <2>1. /\ Alone(t)
          /\ \A s \in Session : sock[s] = "open" => s = ws
          /\ playing \subseteq {pipeline}
          /\ \A s \in inflight : ~AttemptCancelled(s) =>
                cancelOf[s] = wsCancel /\ wsCancel # NULL
      BY <1>0, <1>2 DEF OrderWith, NothingLost, IInv, TypeOK, OrderInv, AttemptInv,
                        NothingLeftRunning, Live
    <2>2. OneAtATime'
      BY <1>0, <1>2, <2>1 DEF OneAtATime, Alone, callback, TypeOK, IInv, DropStage
    <2>3. \A s \in inflight' : AttemptCancelled(s)'
      BY <1>0, <2>1 DEF AttemptCancelled
    <2>4. NothingLeftRunning'
      BY <1>0, <2>1 DEF NothingLeftRunning, pointers, sockets
    <2>5. DropInv'
      BY <1>0, <2>1 DEF DropInv, Alone, IInv, TypeOK, FromStop, FromClose, FromWs, FromBin,
         FromChannel, FromPipeline, FromStatus, FromRenew, FromAttempt
    <2>6. QED
      BY <2>2, <2>3, <2>4, <2>5 DEF AttemptInv
  <1>3. ASSUME order' = "kept"
        PROVE  /\ PlayingInv' /\ SessionInv' /\ CallbackInv' /\ QuietInv' /\ AnswerInv'
               /\ SessionAssertsHold'
    <2>1. order = "kept" /\ Alone(t)
      BY <1>0, <1>3 DEF OrderWith
    <2>2. PlayingInv' /\ SessionAssertsHold'
      BY <1>0, <2>1 DEF IInv, KeptInv, PlayingInv, SessionAssertsHold, pointers
    <2>3. SessionInv'
      <3>1. ws' # NULL => webrtcbin' = ws' \/ (webrtcbin' = NULL /\ LoopBusy')
        BY <1>0, <2>1 DEF IInv, TypeOK, KeptInv, SessionInv, LoopBusy, pointers, callback
      <3>2. QED
        BY <1>0, <2>1, <3>1 DEF IInv, TypeOK, KeptInv, SessionInv, pointers, Ref
    <2>4. CallbackInv'
      BY <1>0, <2>1 DEF CallbackInv, Alone, callback, fields, pointers, IInv, KeptInv, LoopInv
    <2>5. QuietInv'
      BY <1>0 DEF QuietInv, Quiet, IInv, TypeOK
    <2>6. ws' = ws /\ AnswersSent(ws)' = AnswersSent(ws)
      BY <1>0 DEF AnswersSent, pointers, sockets
    <2>7. AnswerInv'
      BY <1>0, <2>1, <2>6
         DEF IInv, KeptInv, AnswerInv, Awaited, Gathering, sockets, loop, pointers
    <2>8. QED
      BY <2>2, <2>3, <2>4, <2>5, <2>7
  <1>4. QED
    BY <1>1, <1>2, <1>3 DEF IInv, OrderInv, KeptInv

LEMMA DropGoesOnStep ==
    ASSUME IInv, TypeOK', NEW t \in Thread, DropGoesOn(t)
    PROVE  IInv'
  <1> USE Threads DEF FromStop, FromClose, FromWs, FromBin, FromChannel, FromPipeline,
                     FromStatus, FromRenew, FromAttempt
  <1>0. /\ drop[t] \in DropStage /\ drop' = [drop EXCEPT ![t] = After[drop[t]]]
        /\ wsCancel' = IF drop[t] = "forget" THEN NULL ELSE wsCancel
        /\ playing' = IF drop[t] = "stop" THEN playing \ {pipeline} ELSE playing
        /\ \A s \in Session : answering'[s] = IF drop[t] = "stop" /\ s = pipeline
                                              THEN 0 ELSE answering[s]
        /\ \A s \in Session : sock'[s] = IF drop[t] = "close" /\ s = ws /\ sock[s] # "closed"
                                         THEN "closing" ELSE sock[s]
        /\ ws' = IF drop[t] = "clearWs" THEN NULL ELSE ws
        /\ webrtcbin' = IF drop[t] = "clearBin" THEN NULL ELSE webrtcbin
        /\ dataChannel' = IF drop[t] = "clearChannel" THEN NULL ELSE dataChannel
        /\ pipeline' = IF drop[t] = "clearPipeline" THEN NULL ELSE pipeline
        /\ UNCHANGED <<status, attempts, outbox, loop, applied, channel, callback, abort, order>>
    BY DEF DropGoesOn, Goes, Writes, WsCancelAfterDisconnect, DataChannelAfterDrop,
           PipelineAfterDrop, SockAfterClose, history, IInv, TypeOK
  <1>a. /\ \A u \in Thread \ {t} : drop'[u] = drop[u]
        /\ drop[t] = "forget" => drop'[t] = "stop"
        /\ drop[t] = "stop" => drop'[t] = "close"
        /\ drop[t] = "close" => drop'[t] = "clearWs"
        /\ drop[t] = "clearWs" => drop'[t] = "clearBin"
        /\ drop[t] = "clearBin" => drop'[t] = "clearChannel"
        /\ drop[t] = "clearChannel" => drop'[t] = "clearPipeline"
        /\ drop[t] = "clearPipeline" => drop'[t] = "status"
    BY <1>0 DEF After, IInv, TypeOK
  <1>1. BlankInv' /\ IdsInOrder' /\ LoopInv'
    <2>1. BlankInv'
      <3>1. ASSUME NEW s \in Session, ~Started(s)
            PROVE  /\ sock'[s] = "none" /\ answering'[s] = 0
                   /\ s \notin {ws', pipeline', webrtcbin', dataChannel', waitBin', cbSession'}
                   /\ s \notin playing'
        BY <1>0, <3>1 DEF IInv, BlankInv, callback, loop
      <3>2. QED
        BY <1>0, <3>1 DEF IInv, BlankInv, Started, attempts
    <2>2. IdsInOrder'
      <3>1. drop[APP] \notin {"renew", "attempt"} => drop'[APP] \notin {"renew", "attempt"}
        BY <1>0, <1>a DEF DropStage
      <3>2. drop'[APP] = "attempt" <=> drop[APP] = "attempt"
        BY <1>0, <1>a DEF DropStage
      <3>3. wsCancel' <= nCancel
        BY <1>0 DEF IInv, TypeOK, IdsInOrder, NULL, Cancellable
      <3>4. QED
        BY <1>0, <3>1, <3>2, <3>3 DEF IInv, IdsInOrder, attempts
    <2>3. LoopInv'
      BY <1>0 DEF IInv, TypeOK, LoopInv, LoopBusy, callback, loop, After, DropStage
    <2>4. QED
      BY <2>1, <2>2, <2>3
  <1>2. ASSUME order' # "lost"
        PROVE  OneAtATime' /\ AttemptInv' /\ NothingLeftRunning' /\ DropInv'
    <2>0. OneAtATime /\ AttemptInv /\ NothingLeftRunning /\ DropInv /\ order # "lost"
      BY <1>0, <1>2 DEF IInv, OrderInv
    <2>1. \A u \in Thread \ {t} : drop[u] = "idle"
      BY <1>0, <2>0 DEF OneAtATime, DropStage
    <2>2. OneAtATime'
      BY <1>0, <2>0, <2>1 DEF OneAtATime, callback, TypeOK, IInv, DropStage, After
    <2>3. AttemptInv'
      BY <1>0, <2>0 DEF AttemptInv, AttemptCancelled, attempts, DropStage
    <2>4. NothingLeftRunning'
      BY <1>0, <2>0 DEF NothingLeftRunning, DropInv, DropStage
    <2>5. DropInv'
      <3>1. \A u \in Thread \ {t} : drop'[u] = "idle"
        BY <1>a, <2>1
      <3>2. drop[t] # "attempt" /\ drop'[t] # "attempt"
        BY <1>0, <1>a DEF DropStage
      <3>3. drop'[t] \in FromWs => \A s \in Session : sock'[s] # "open"
        BY <1>0, <1>a, <2>0 DEF DropStage, DropInv, NothingLeftRunning
      <3>4. drop'[t] \in FromClose => playing' = {}
        BY <1>0, <1>a, <2>0 DEF DropStage, DropInv, NothingLeftRunning
      <3>5. QED
        BY <1>0, <1>a, <2>0, <3>1, <3>2, <3>3, <3>4 DEF DropInv, DropStage
    <2>6. QED
      BY <2>2, <2>3, <2>4, <2>5
  <1>3. ASSUME order' = "kept"
        PROVE  /\ PlayingInv' /\ SessionInv' /\ CallbackInv' /\ QuietInv' /\ AnswerInv'
               /\ SessionAssertsHold'
    <2>0. /\ order = "kept"
          /\ PlayingInv /\ SessionInv /\ CallbackInv /\ AnswerInv /\ SessionAssertsHold
          /\ OneAtATime /\ NothingLeftRunning /\ DropInv
      BY <1>0, <1>3 DEF IInv, KeptInv, OrderInv
    <2>1. cbPc = "idle"
      BY <1>0, <2>0 DEF OneAtATime, DropStage
    <2>2. PlayingInv'
      BY <1>0, <2>0 DEF PlayingInv, DropInv, NothingLeftRunning, DropStage
    <2>3. SessionInv'
      <3>1. ws' # NULL => webrtcbin' = ws' \/ (webrtcbin' = NULL /\ LoopBusy')
        BY <1>0, <2>0
           DEF IInv, TypeOK, SessionInv, LoopBusy, callback, DropInv, After, DropStage
      <3>2. QED
        BY <1>0, <2>0, <3>1 DEF IInv, TypeOK, KeptInv, SessionInv, Ref
    <2>4. CallbackInv' /\ SessionAssertsHold'
      BY <1>0, <2>0, <2>1 DEF CallbackInv, callback, SessionAssertsHold
    <2>5. QuietInv'
      BY <1>0 DEF QuietInv, Quiet, IInv, TypeOK, After, DropStage
    <2>6. \A s : AnswersSent(s)' = AnswersSent(s)
      BY <1>0 DEF AnswersSent
    <2>7. AnswerInv'
      <3> SUFFICES ASSUME ws' # NULL PROVE AnswerInv'
        BY DEF AnswerInv
      <3>1. ws' = ws /\ ws \in Session
        BY <1>0 DEF IInv, TypeOK, Ref
      <3>2. AnswersSent(ws) \in Nat
        BY <3>1, CountOf DEF IInv
      <3>3. /\ answering'[ws] <= answering[ws]
            /\ ws \in playing' => answering'[ws] = answering[ws]
            /\ sock'[ws] = "open" => sock[ws] = "open"
            /\ answering[ws] \in Nat /\ answering'[ws] \in Nat
            /\ applied[ws] \in Nat
        BY <1>0, <3>1 DEF IInv, TypeOK
      <3>4. Gathering(ws)' /\ ws \in playing' => Gathering(ws)
        BY <1>0, <3>1, <3>3 DEF Gathering, loop
      <3>5. (AnswersSent(ws) + answering[ws] + Awaited(ws) <= applied[ws])'
        BY <1>0, <2>0, <2>6, <3>1, <3>2, <3>3 DEF AnswerInv, Awaited, loop
      <3>6. ws' \in playing' => ws \in playing
        BY <1>0, <3>1
      <3>7. QED
        BY <1>0, <2>0, <2>6, <3>1, <3>3, <3>4, <3>5, <3>6 DEF AnswerInv
    <2>8. QED
      BY <2>2, <2>3, <2>4, <2>5, <2>7
  <1>4. QED
    BY <1>1, <1>2, <1>3 DEF IInv, OrderInv, KeptInv

(* A thread at the end of conn_disconnect_internal finds everything        *)
(* cleared, if nobody came in between.                                     *)
LEMMA ClearedAtEnd ==
    ASSUME IInv, order # "lost", NEW t \in Thread,
           drop[t] \in {"status", "renew", "attempt", "connecting"}
    PROVE  /\ ws = NULL /\ pipeline = NULL /\ webrtcbin = NULL /\ dataChannel = NULL
           /\ playing = {} /\ cbPc = "idle"
           /\ \A s \in Session : sock[s] # "open"
           /\ \A u \in Thread \ {t} : drop[u] = "idle"
  BY DEF IInv, OrderInv, OneAtATime, DropInv, FromClose, FromWs, FromBin,
         FromChannel, FromPipeline, FromStatus, FromRenew, FromAttempt

LEMMA ClearedKept ==
    ASSUME ws' = NULL, pipeline' = NULL, webrtcbin' = NULL, dataChannel' = NULL,
           playing' = {}, cbPc' = "idle", abort' = "none", QuietInv'
    PROVE  /\ PlayingInv' /\ SessionInv' /\ CallbackInv' /\ QuietInv' /\ AnswerInv'
           /\ SessionAssertsHold'
  BY DEF PlayingInv, SessionInv, CallbackInv, AnswerInv, SessionAssertsHold

LEMMA DropEndsStep ==
    ASSUME IInv, TypeOK', NEW t \in Thread, NEW next \in {"idle", "renew"},
           DropEnds(t, next),
           next = "renew" => t = APP /\ nConnects < MaxConnects
    PROVE  IInv'
  <1> USE Threads
  <1>0. /\ drop[t] = "status" /\ drop' = [drop EXCEPT ![t] = next]
        /\ drop'[t] = next /\ \A u \in Thread \ {t} : drop'[u] = drop[u]
        /\ status' \in {"IDLE_NOT_CONNECTED", "DISCONNECTED_ERROR", "DISCONNECTED_REMOTE_CLOSE"}
        /\ order' = IF order = "restoring" THEN "kept" ELSE order
        /\ abort = "none"
        /\ UNCHANGED <<pointers, attempts, sockets, loop, media, callback, abort>>
    BY DEF DropEnds, Goes, StatusAfterDrop, IInv, TypeOK
  <1>1. BlankInv' /\ IdsInOrder' /\ LoopInv'
    <2>1. BlankInv'
      BY <1>0 DEF IInv, BlankInv, Started, callback, pointers, sockets, loop, attempts, media
    <2>2. IdsInOrder'
      BY <1>0 DEF IInv, IdsInOrder, pointers, attempts
    <2>3. LoopInv'
      BY <1>0 DEF IInv, LoopInv, LoopBusy, callback, pointers, loop
    <2>4. QED
      BY <2>1, <2>2, <2>3
  <1>2. ASSUME order' # "lost"
        PROVE  OneAtATime' /\ AttemptInv' /\ NothingLeftRunning' /\ DropInv'
    <2>0. OneAtATime /\ AttemptInv /\ NothingLeftRunning /\ DropInv /\ order # "lost"
      BY <1>0, <1>2 DEF IInv, OrderInv
    <2>1. /\ ws = NULL /\ pipeline = NULL /\ webrtcbin = NULL /\ dataChannel = NULL
          /\ playing = {} /\ cbPc = "idle"
          /\ \A s \in Session : sock[s] # "open"
          /\ \A u \in Thread \ {t} : drop[u] = "idle"
      BY <1>0, <2>0, ClearedAtEnd
    <2>2. OneAtATime'
      BY <1>0, <2>1 DEF OneAtATime, callback
    <2>3. \A s \in inflight' : AttemptCancelled(s)'
      BY <1>0, <2>0 DEF AttemptInv, AttemptCancelled, attempts
    <2>4. NothingLeftRunning'
      BY <1>0, <2>1 DEF NothingLeftRunning, pointers, sockets, media
    <2>5. wsCancel' = NULL
      BY <1>0, <2>0 DEF DropInv, FromStop, FromClose, FromWs, FromBin, FromChannel,
                        FromPipeline, FromStatus, FromAttempt, pointers
    <2>6. DropInv'
      BY <1>0, <2>1, <2>5
         DEF DropInv, FromStop, FromClose, FromWs, FromBin, FromChannel, FromPipeline,
             FromStatus, FromRenew, FromAttempt, pointers, media, sockets
    <2>7. QED
      BY <2>2, <2>3, <2>4, <2>6 DEF AttemptInv
  <1>3. ASSUME order' = "kept"
        PROVE  /\ PlayingInv' /\ SessionInv' /\ CallbackInv' /\ QuietInv' /\ AnswerInv'
               /\ SessionAssertsHold'
    <2>1. /\ ws = NULL /\ pipeline = NULL /\ webrtcbin = NULL /\ dataChannel = NULL
          /\ playing = {} /\ cbPc = "idle"
      BY <1>0, <1>3, ClearedAtEnd
    <2>2. \A s \in inflight' : AttemptCancelled(s)'
      BY <1>0, <1>3 DEF IInv, OrderInv, AttemptInv, AttemptCancelled, attempts
    <2>3. QuietInv'
      BY <1>0, <2>1, <2>2 DEF QuietInv, ConnectedHasChannel, pointers
    <2>4. QED
      BY <1>0, <2>1, <2>3, ClearedKept DEF pointers, media, callback
  <1>4. QED
    BY <1>1, <1>2, <1>3 DEF IInv, OrderInv, KeptInv

LEMMA Numbers ==
    ASSUME TypeOK
    PROVE  /\ nConnects \in Nat /\ nCancel \in Nat /\ wsCancel \in Nat
           /\ nConnects <= MaxConnects
           /\ \A s \in Session : cancelOf[s] \in Nat
           /\ inflight \subseteq Session
  <1>1. Cancellable \cup {NULL} \subseteq Nat
    BY BoundsAssumption DEF Cancellable, NULL
  <1>2. QED
    BY <1>1, BoundsAssumption DEF TypeOK

(* The rest of conn_connect_internal.                                      *)
LEMMA ConnectIds ==
    ASSUME IInv, RenewCancellable \/ StartAttempt \/ ConnectReturns
    PROVE  IdsInOrder'
  <1> USE Threads, Numbers DEF IInv, IdsInOrder
  <1>1. CASE RenewCancellable
    <2>1. drop[APP] = "renew" /\ drop'[APP] = "attempt"
      BY <1>1 DEF RenewCancellable, Goes, TypeOK
    <2>2. nCancel' <= nConnects + 2 /\ nCancel' >= nCancel /\ wsCancel' <= nCancel'
      BY <1>1, <2>1 DEF RenewCancellable
    <2>3. \A s \in inflight : cancelOf[s] <= nCancel'
      BY <2>2, <1>1 DEF RenewCancellable
    <2>4. QED
      BY <1>1, <2>1, <2>2, <2>3 DEF RenewCancellable
  <1>2. CASE StartAttempt
    <2>1. drop[APP] = "attempt" /\ drop'[APP] = "connecting"
      BY <1>2 DEF StartAttempt, Goes, TypeOK
    <2>2. nConnects' = nConnects + 1 /\ nConnects + 1 \in Session
      BY <1>2, <2>1, BoundsAssumption DEF StartAttempt, Session
    <2>3. \A s \in inflight' : cancelOf'[s] <= nCancel
      BY <1>2, <2>2 DEF StartAttempt, TypeOK
    <2>4. inflight' \subseteq 1 .. nConnects'
      <3>1. inflight \subseteq 1 .. nConnects /\ nConnects \in Nat
        OBVIOUS
      <3>2. inflight' = inflight \cup {nConnects + 1}
        BY <1>2, <2>2 DEF StartAttempt
      <3>3. QED
        BY ONLY <2>2, <3>1, <3>2
    <2>5. QED
      BY <1>2, <2>1, <2>2, <2>3, <2>4 DEF StartAttempt, fields, pointers
  <1>3. CASE ConnectReturns
    BY <1>3 DEF ConnectReturns, Goes, TypeOK, attempts, pointers
  <1>4. QED
    BY <1>1, <1>2, <1>3

LEMMA ConnectStep ==
    ASSUME IInv, TypeOK', RenewCancellable \/ StartAttempt \/ ConnectReturns
    PROVE  IInv'
  <1> USE Threads
  <1>0. /\ drop[APP] \in {"renew", "attempt", "connecting"}
        /\ drop[APP] = "renew" => drop'[APP] = "attempt" /\ RenewCancellable
        /\ drop[APP] = "attempt" => drop'[APP] = "connecting" /\ StartAttempt
        /\ drop[APP] = "connecting" => drop'[APP] = "idle" /\ ConnectReturns
        /\ \A u \in Thread \ {APP} : drop'[u] = drop[u]
        /\ abort = "none"
        /\ UNCHANGED <<ws, pipeline, webrtcbin, dataChannel, sockets, loop, media, callback,
                       abort, order>>
    BY DEF RenewCancellable, StartAttempt, ConnectReturns, Goes, fields, pointers,
           history, IInv, TypeOK
  <1>1. nConnects + 1 \notin inflight /\ nConnects \in Nat
    BY Numbers DEF IInv, IdsInOrder
  <1>2. BlankInv' /\ LoopInv'
    <2>1. \A s \in Session : ~Started(s)' => ~Started(s)
      BY <1>1 DEF RenewCancellable, StartAttempt, ConnectReturns, Started, attempts,
                  Session
    <2>2. BlankInv'
      BY <1>0, <2>1 DEF IInv, BlankInv, callback, sockets, loop, media
    <2>3. LoopInv'
      BY <1>0 DEF IInv, LoopInv, LoopBusy, callback, loop
    <2>4. QED
      BY <2>2, <2>3
  <1>3. ASSUME order # "lost"
        PROVE  /\ OneAtATime' /\ AttemptInv' /\ NothingLeftRunning' /\ DropInv'
               /\ order = "kept" => QuietInv'
    <2>0. OneAtATime /\ AttemptInv /\ NothingLeftRunning /\ DropInv
      BY <1>3 DEF IInv, OrderInv
    <2>1. /\ ws = NULL /\ pipeline = NULL /\ webrtcbin = NULL /\ dataChannel = NULL
          /\ playing = {} /\ cbPc = "idle"
          /\ \A s \in Session : sock[s] # "open"
          /\ \A u \in Thread \ {APP} : drop[u] = "idle"
      BY <1>0, <1>3, ClearedAtEnd
    <2>2. OneAtATime' /\ NothingLeftRunning'
      BY <1>0, <2>0, <2>1 DEF OneAtATime, NothingLeftRunning, callback, sockets, media,
                              DropStage
    <2>3. CASE RenewCancellable
      <3>1. /\ drop[APP] = "renew" /\ wsCancel = NULL
            /\ \A s \in inflight : AttemptCancelled(s)
        BY <1>0, <2>0, <2>3
           DEF RenewCancellable, Goes, AttemptInv, DropInv, FromStop, FromClose, FromWs,
               FromBin, FromChannel, FromPipeline, FromStatus, FromRenew, FromAttempt
      <3>2. wsCancel' = nCancel + 1
        BY <2>3, <3>1 DEF RenewCancellable
      <3>3. nCancel + 1 # NULL /\ \A s \in inflight : cancelOf[s] # nCancel + 1
        BY Numbers DEF IInv, IdsInOrder, NULL
      <3>4. AttemptInv'
        BY <2>3, <3>1 DEF RenewCancellable, AttemptInv, AttemptCancelled
      <3>5. DropInv' /\ QuietInv'
        <4>1. /\ \A u \in Thread \ {APP} : drop'[u] = "idle"
              /\ drop'[APP] = "attempt"
          BY <1>0, <2>1, <3>1
        <4>2. /\ wsCancel' # NULL /\ \A s \in inflight' : cancelOf'[s] # wsCancel'
              /\ \A s \in Session : sock'[s] # "open"
          BY <1>0, <2>1, <2>3, <3>2, <3>3 DEF RenewCancellable, sockets
        <4>3. QED
          BY <1>0, <2>1, <4>1, <4>2
             DEF DropInv, FromStop, FromClose, FromWs, FromBin, FromChannel, FromPipeline,
                 FromStatus, FromRenew, FromAttempt, QuietInv, Quiet, media
      <3>6. QED
        BY <2>2, <3>4, <3>5
    <2>4. CASE StartAttempt
      <3>1. /\ drop[APP] = "attempt" /\ wsCancel # NULL
            /\ \A s \in inflight : AttemptCancelled(s) /\ cancelOf[s] # wsCancel
        BY <1>0, <2>0, <2>4 DEF StartAttempt, Goes, AttemptInv, DropInv
      <3>2. \A s \in inflight' : ~AttemptCancelled(s)' => s = nConnects' /\ cancelOf'[s] = wsCancel
        BY <1>1, <2>4, <3>1 DEF StartAttempt, AttemptCancelled, IInv, TypeOK
      <3>3. AttemptInv'
        BY <1>0, <2>1, <2>4, <3>1, <3>2 DEF StartAttempt, AttemptInv, fields, pointers
      <3>4. DropInv' /\ QuietInv'
        BY <1>0, <2>1, <2>4, <3>1
           DEF StartAttempt, DropInv, FromStop, FromClose, FromWs, FromBin, FromChannel,
               FromPipeline, FromStatus, FromRenew, FromAttempt, QuietInv, Quiet, media, sockets
      <3>5. QED
        BY <2>2, <3>3, <3>4
    <2>5. CASE ConnectReturns
      <3>1. AttemptInv'
        BY <1>0, <2>0, <2>5
           DEF ConnectReturns, Goes, AttemptInv, AttemptCancelled, attempts, pointers
      <3>2. DropInv'
        BY <1>0, <2>1, <2>5
           DEF ConnectReturns, Goes, DropInv, FromStop, FromClose, FromWs, FromBin, FromChannel,
               FromPipeline, FromStatus, FromRenew, FromAttempt
      <3>3. QuietInv'
        BY <1>0, <2>1, <2>5 DEF ConnectReturns, QuietInv, ConnectedHasChannel
      <3>4. QED
        BY <2>2, <3>1, <3>2, <3>3
    <2>6. QED
      BY <2>3, <2>4, <2>5
  <1>4. OrderInv'
    BY <1>0, <1>3 DEF OrderInv
  <1>5. KeptInv'
    <2>1. ASSUME order = "kept"
          PROVE  /\ ws = NULL /\ pipeline = NULL /\ webrtcbin = NULL /\ dataChannel = NULL
                 /\ playing = {} /\ cbPc = "idle"
      BY <1>0, <2>1, ClearedAtEnd
    <2>2. QED
      BY <1>0, <1>3, <2>1, ClearedKept DEF KeptInv, media, callback
  <1>6. QED
    BY <1>2, <1>4, <1>5, ConnectIds DEF IInv

(* The completion of an attempt.                                           *)
LEMMA AcceptsStep ==
    ASSUME IInv, TypeOK', NEW s \in Session, ConnectedCbAccepts(s)
    PROVE  IInv'
  <1> USE Threads
  <1>0. /\ abort = "none" /\ ~waiting /\ cbPc = "idle" /\ drop[LOOP] = "idle"
        /\ s \in inflight /\ inflight' = inflight \ {s}
        /\ ~AttemptCancelled(s)
        /\ ws = NULL /\ ws' = s
        /\ sock' = [sock EXCEPT ![s] = "open"]
        /\ cbPc' = "attach" /\ cbSession' = s
        /\ order' = IF Alone(LOOP) THEN order ELSE "lost"
        /\ UNCHANGED <<status, wsCancel, pipeline, webrtcbin, dataChannel, nConnects, nCancel,
                       cancelled, cancelOf, outbox, loop, media, drop, abort>>
    BY DEF ConnectedCbAccepts, Finishes, LoopReady
  <1>1. BlankInv' /\ IdsInOrder' /\ LoopInv'
    <2>0. s <= nConnects /\ Started(s)'
      BY <1>0, Numbers DEF IInv, IdsInOrder, Started
    <2>1. BlankInv'
      BY <1>0, <2>0 DEF IInv, TypeOK, BlankInv, Started, loop, media
    <2>2. IdsInOrder'
      BY <1>0 DEF IInv, IdsInOrder
    <2>3. LoopInv'
      BY <1>0 DEF IInv, LoopInv, LoopBusy, loop
    <2>4. QED
      BY <2>1, <2>2, <2>3
  <1>2. ASSUME order' # "lost"
        PROVE  /\ OneAtATime' /\ AttemptInv' /\ NothingLeftRunning' /\ DropInv'
               /\ \A u \in Thread : drop[u] = "idle"
    <2>0. OneAtATime /\ AttemptInv /\ NothingLeftRunning /\ order # "lost"
      BY <1>0, <1>2 DEF IInv, OrderInv
    <2>1. \A u \in Thread : drop[u] = "idle"
      BY <1>0, <1>2 DEF Alone
    <2>2. OneAtATime'
      BY <1>0, <2>0, <2>1 DEF OneAtATime, DropStage
    <2>3. \A u \in inflight' : AttemptCancelled(u)'
      BY <1>0, <2>0 DEF AttemptInv, AttemptCancelled
    <2>4. NothingLeftRunning'
      BY <1>0, <2>0 DEF NothingLeftRunning, IInv, TypeOK, media
    <2>5. DropInv'
      BY <1>0, <2>1 DEF DropInv, FromStop, FromClose, FromWs, FromBin, FromChannel,
                        FromPipeline, FromStatus, FromRenew, FromAttempt
    <2>6. QED
      BY <2>1, <2>2, <2>3, <2>4, <2>5 DEF AttemptInv
  <1>3. ASSUME order' = "kept"
        PROVE  /\ PlayingInv' /\ SessionInv' /\ CallbackInv' /\ QuietInv' /\ AnswerInv'
               /\ SessionAssertsHold'
    <2>0. order = "kept" /\ Quiet
      BY <1>0, <1>2, <1>3 DEF Quiet
    <2>1. /\ pipeline = NULL /\ webrtcbin = NULL /\ playing = {} /\ dataChannel = NULL
      BY <1>0, <2>0 DEF IInv, TypeOK, KeptInv, QuietInv, PlayingInv, ConnectedHasChannel
    <2>2. applied[s] = 0 /\ answering[s] = 0 /\ outbox[s] = <<>> /\ waitBin = NULL
      BY <1>0 DEF IInv, BlankInv, Started, LoopInv
    <2>3. AnswersSent(s)' = 0
      BY <1>0, <2>2, NothingSent DEF AnswersSent
    <2>4. AnswerInv'
      BY <1>0, <2>1, <2>2, <2>3 DEF AnswerInv, Awaited, loop, media
    <2>5. QED
      BY <1>0, <2>1, <2>2, <2>4
         DEF PlayingInv, SessionInv, LoopBusy, CallbackInv, QuietInv, Quiet,
             SessionAssertsHold, media
  <1>4. QED
    BY <1>1, <1>2, <1>3 DEF IInv, OrderInv, KeptInv

(* The statements of the completion, up to the start of the pipeline.      *)
CallbackStatement ==
    \/ AttachMessageHandler \/ AssertNoPipeline \/ StorePipeline \/ StoreBin
    \/ NextTest \/ StartPipeline

LEMMA CallbackFrame ==
    ASSUME IInv, CallbackStatement
    PROVE  /\ abort = "none"
           /\ cbPc # "idle" /\ cbSession # NULL /\ cbSession \in Session
           /\ drop[LOOP] = "idle" /\ ~waiting /\ waitBin = NULL
           /\ Started(cbSession)
           /\ cbSession' = IF cbPc' = "idle" THEN NULL ELSE cbSession
           /\ UNCHANGED <<wsCancel, ws, dataChannel, attempts, outbox, loop, applied,
                          answering, channel, drop, order>>
           /\ order # "lost" => order = "kept" /\ \A t \in Thread : drop[t] = "idle"
  <1>1. /\ abort = "none" /\ cbPc # "idle"
        /\ cbSession' = IF cbPc' = "idle" THEN NULL ELSE cbSession
        /\ UNCHANGED <<wsCancel, ws, dataChannel, attempts, outbox, loop, applied,
                       answering, channel, drop, order>>
    BY DEF CallbackStatement, AttachMessageHandler, AssertNoPipeline, StorePipeline,
           StoreBin, NextTest, StartPipeline, Continues, fields, pointers, sockets,
           media, history
  <1>2. cbSession # NULL /\ cbSession \in Session /\ Started(cbSession)
    BY <1>1 DEF IInv, TypeOK, LoopInv, BlankInv, Ref
  <1>3. drop[LOOP] = "idle" /\ ~waiting /\ waitBin = NULL
    BY <1>1 DEF IInv, TypeOK, LoopInv, LoopBusy
  <1>4. order # "lost" => order = "kept" /\ \A t \in Thread : drop[t] = "idle"
    BY <1>1 DEF IInv, TypeOK, OrderInv, OneAtATime, Order, DropStage
  <1>5. QED
    BY <1>1, <1>2, <1>3, <1>4

LEMMA CallbackStatementStep ==
    ASSUME IInv, TypeOK', CallbackStatement
    PROVE  IInv'
  <1> USE Threads, CallbackFrame
  <1>1. BlankInv' /\ IdsInOrder' /\ LoopInv'
    <2>1. \A s \in Session : ~Started(s) =>
             /\ s \notin {pipeline', webrtcbin', cbSession'}
             /\ s \notin playing'
             /\ sock'[s] = "none"
      <3>1. /\ pipeline' \in {pipeline, cbSession} /\ webrtcbin' \in {webrtcbin, pipeline}
            /\ playing' \subseteq playing \cup {pipeline}
            /\ cbSession' \in {NULL, cbSession}
        BY DEF CallbackStatement, AttachMessageHandler, AssertNoPipeline, StorePipeline,
               StoreBin, NextTest, StartPipeline, BinOfPipeline, fields, pointers, media
      <3>2. \A s \in Session \ {cbSession} : sock'[s] = sock[s]
        BY DEF CallbackStatement, AttachMessageHandler, AssertNoPipeline, StorePipeline,
               StoreBin, NextTest, StartPipeline, sockets, IInv, TypeOK
      <3>3. QED
        BY <3>1, <3>2 DEF IInv, BlankInv
    <2>2. BlankInv'
      BY <2>1 DEF IInv, BlankInv, Started, attempts, loop
    <2>3. IdsInOrder'
      BY DEF IInv, IdsInOrder, attempts
    <2>4. LoopInv'
      BY DEF IInv, TypeOK, LoopInv, LoopBusy, loop
    <2>5. QED
      BY <2>2, <2>3, <2>4
  <1>2. ASSUME order # "lost"
        PROVE  OrderInv' /\ KeptInv'
    <2>0. /\ order = "kept" /\ \A t \in Thread : drop[t] = "idle"
          /\ OneAtATime /\ AttemptInv /\ NothingLeftRunning
          /\ CallbackInv /\ SessionInv
      BY <1>2 DEF IInv, OrderInv, KeptInv
    <2>1. /\ ws = cbSession /\ dataChannel = NULL /\ playing = {} /\ applied[cbSession] = 0
          /\ \A s \in inflight : AttemptCancelled(s)
      BY <2>0 DEF CallbackInv, AttemptInv
    <2>2. OneAtATime' /\ AttemptInv' /\ DropInv'
      BY <2>0, <2>1
         DEF OneAtATime, AttemptInv, AttemptCancelled, attempts, DropInv, FromStop,
             FromClose, FromWs, FromBin, FromChannel, FromPipeline, FromStatus,
             FromRenew, FromAttempt
    <2>3. AnswersSent(ws)' = AnswersSent(ws) /\ AnswersSent(ws) \in Nat
      BY <2>1, CountKept, CountOf DEF IInv
    <2>4. AnswerInv'
      <3>1. ~Gathering(ws)'
        <4>1. ws \in Session /\ answering[ws] \in Nat /\ applied[ws] = 0
          BY <2>1 DEF IInv, TypeOK
        <4>2. QED
          BY <2>1, <4>1 DEF Gathering, loop
      <3>2. QED
        BY <2>0, <2>1, <2>3, <3>1 DEF IInv, KeptInv, AnswerInv, Awaited, loop
    <2>5. CASE AttachMessageHandler
      <3>1. /\ UNCHANGED <<fields, pointers, media, sock, abort>>
            /\ cbPc = "attach" /\ cbPc' = "assert"
        BY <2>1, <2>5 DEF AttachMessageHandler, Continues, fields
      <3>2. QED
        BY <2>0, <2>1, <2>2, <2>4, <3>1
           DEF OrderInv, KeptInv, NothingLeftRunning, PlayingInv, SessionInv, LoopBusy,
               CallbackInv, QuietInv, Quiet, SessionAssertsHold, fields, pointers, media
    <2>6. CASE AssertNoPipeline
      <3>1. UNCHANGED <<fields, pointers, media, sock>> /\ cbPc = "assert" /\ cbPc' = "need"
        BY <2>6 DEF AssertNoPipeline, Continues, fields, sockets
      <3>2. pipeline = NULL /\ abort' = "none"
        BY <2>0, <2>6, <3>1 DEF CallbackInv, AssertNoPipeline
      <3>3. QED
        BY <2>0, <2>1, <2>2, <2>4, <3>1, <3>2
           DEF OrderInv, KeptInv, NothingLeftRunning, PlayingInv, SessionInv, LoopBusy,
               CallbackInv, QuietInv, Quiet, SessionAssertsHold, fields, pointers, media
    <2>7. CASE StorePipeline
      <3>1. /\ UNCHANGED <<status, webrtcbin, media, sock, abort>> /\ cbPc = "need" /\ cbPc' = "bin"
            /\ pipeline' = cbSession
        BY <2>7 DEF StorePipeline, Continues, sockets
      <3>2. QED
        BY <2>0, <2>1, <2>2, <2>4, <3>1
           DEF OrderInv, KeptInv, NothingLeftRunning, PlayingInv, SessionInv, LoopBusy,
               CallbackInv, QuietInv, Quiet, SessionAssertsHold, media
    <2>8. CASE StoreBin
      <3>1. /\ UNCHANGED <<pipeline, media, sock>> /\ cbPc = "bin" /\ cbPc' = "check"
            /\ webrtcbin' = pipeline /\ status' = "NEGOTIATING"
        BY <2>8 DEF StoreBin, Continues, sockets, BinOfPipeline
      <3>2. pipeline = ws /\ abort' = "none"
        BY <2>0, <2>1, <2>8, <3>1 DEF CallbackInv, StoreBin
      <3>3. QED
        BY <2>0, <2>1, <2>2, <2>4, <3>1, <3>2
           DEF OrderInv, KeptInv, NothingLeftRunning, PlayingInv, SessionInv, LoopBusy,
               CallbackInv, QuietInv, Quiet, SessionAssertsHold, media
    <2>9. CASE NextTest
      <3>1. /\ UNCHANGED <<fields, pointers, media, sock, abort>>
            /\ \/ cbPc = "need" /\ cbPc' = "check"
               \/ cbPc = "check" /\ cbPc' = "start" /\ pipeline # NULL
        BY <2>9 DEF NextTest, Continues, fields, sockets
      <3>2. QED
        BY <2>0, <2>1, <2>2, <2>4, <3>1
           DEF OrderInv, KeptInv, NothingLeftRunning, PlayingInv, SessionInv, LoopBusy,
               CallbackInv, QuietInv, Quiet, SessionAssertsHold, fields, pointers, media
    <2>10. CASE StartPipeline
      <3>1. /\ UNCHANGED <<fields, pointers, sock, abort>> /\ cbPc = "start" /\ cbPc' = "idle"
            /\ playing' = {ws} /\ pipeline = ws /\ webrtcbin = ws /\ status = "NEGOTIATING"
        BY <2>0, <2>1, <2>10 DEF StartPipeline, Continues, fields, sockets, CallbackInv
      <3>2. QED
        BY <2>0, <2>1, <2>2, <2>4, <3>1
           DEF OrderInv, KeptInv, NothingLeftRunning, PlayingInv, SessionInv, LoopBusy,
               CallbackInv, QuietInv, ConnectedHasChannel, AttemptCancelled, attempts,
               Quiet, SessionAssertsHold, fields, pointers
    <2>11. QED
      BY <2>5, <2>6, <2>7, <2>8, <2>9, <2>10 DEF CallbackStatement
  <1>3. QED
    BY <1>1, <1>2 DEF IInv, OrderInv, KeptInv

(* The other handlers leave the session, the running pipelines and the     *)
(* threads in the long handlers as they are.                               *)
Beside ==
    /\ UNCHANGED <<wsCancel, ws, pipeline, webrtcbin, nConnects, nCancel, cancelled,
                   cancelOf, playing, drop, callback, order>>
    /\ inflight' \subseteq inflight
    /\ \A s \in Session : sock'[s] = "open" => sock[s] = "open"
    /\ dataChannel' = dataChannel \/ playing # {}

LEMMA BesideFrame ==
    ASSUME IInv, Beside
    PROVE  /\ IdsInOrder' /\ OrderInv'
           /\ \A s \in Session : ~Started(s)' => ~Started(s)
           /\ order = "kept" => PlayingInv'
           /\ cbPc' = cbPc /\ cbSession' = cbSession
           /\ Quiet' = Quiet /\ LoopBusy' = LoopBusy
  <1>1. IdsInOrder' /\ \A s \in Session : ~Started(s)' => ~Started(s)
    BY DEF IInv, IdsInOrder, Beside, Started
  <1>2. ASSUME order # "lost"
        PROVE  OneAtATime' /\ AttemptInv' /\ NothingLeftRunning' /\ DropInv'
    <2>0. OneAtATime /\ AttemptInv /\ NothingLeftRunning /\ DropInv
      BY <1>2 DEF IInv, OrderInv
    <2>1. OneAtATime' /\ AttemptInv' /\ NothingLeftRunning'
      BY <2>0, <1>2
         DEF Beside, OneAtATime, AttemptInv, AttemptCancelled, NothingLeftRunning, callback
    <2>2. DropInv'
      BY <2>0 DEF Beside, DropInv, FromClose, FromWs, FromBin, FromChannel, FromPipeline,
                  FromStatus, FromRenew, FromAttempt
    <2>3. QED
      BY <2>1, <2>2
  <1>3. OrderInv'
    BY <1>2 DEF OrderInv, Beside
  <1>4. order = "kept" => PlayingInv'
    BY DEF IInv, KeptInv, PlayingInv, Beside
  <1>5. QED
    BY <1>1, <1>3, <1>4 DEF Beside, callback, Quiet, LoopBusy

(* Those that leave the account of the session and its channel alone.      *)
LEMMA BesideStep ==
    ASSUME IInv, TypeOK', Beside, outbox' = outbox, applied' = applied,
           answering' = answering, waiting' = waiting, waitBin' = waitBin,
           dataChannel' = dataChannel,
           \A s \in Session : sock[s] = "none" => sock'[s] = "none",
           \A s \in Session : channel'[s] = channel[s]
                              \/ (channel[s] = "none" /\ channel'[s] = "prepared"
                                  /\ s \in playing),
           abort' \in {abort, "ws", "answer"},
           status' = status \/ (status' = "WEBSOCKET_FAILED" /\ ws = NULL)
    PROVE  IInv'
  <1> USE BesideFrame
  <1>1. BlankInv'
    BY DEF IInv, BlankInv, Beside
  <1>2. LoopInv'
    BY DEF IInv, LoopInv, Beside
  <1>3. ASSUME order = "kept"
        PROVE  KeptInv'
    <2>0. /\ SessionInv /\ CallbackInv /\ QuietInv /\ AnswerInv /\ SessionAssertsHold
      BY <1>3 DEF IInv, KeptInv
    <2>1. SessionInv'
      BY <2>0 DEF SessionInv, Beside, IInv, TypeOK, Ref, NULL
    <2>2. CallbackInv'
      BY <2>0, <1>3 DEF CallbackInv, Beside, IInv, LoopInv
    <2>3. QuietInv'
      <3>1. Quiet => ConnectedHasChannel'
        BY <2>0 DEF QuietInv, ConnectedHasChannel, Beside, IInv, TypeOK, Ref
      <3>2. QED
        BY <2>0, <3>1 DEF QuietInv, Beside, AttemptCancelled
    <2>4. AnswerInv'
      <3>1. AnswersSent(ws)' = AnswersSent(ws)
        BY CountKept DEF Beside, AnswersSent
      <3>2. QED
        BY <2>0, <3>1 DEF AnswerInv, Awaited, Gathering, Beside, IInv, TypeOK, Ref
    <2>5. SessionAssertsHold'
      BY <2>0, <1>3 DEF SessionAssertsHold
    <2>6. QED
      BY <1>3, <2>1, <2>2, <2>3, <2>4, <2>5 DEF KeptInv
  <1>4. QED
    BY <1>1, <1>2, <1>3 DEF IInv, KeptInv, Beside

LEMMA PeerStep ==
    ASSUME IInv, TypeOK', NEW s \in Session,
           \/ SocketCloses(s) \/ OtherMessage(s) \/ AnswerMissing(s)
           \/ ConnectedCbAssertsWs(s) \/ ConnectedCbError(s)
           \/ conn_webrtc_prepare_data_channel_cb(s)
           \/ \E m \in InMsg : ServerSends(s, m)
    PROVE  IInv'
  <1> USE DEF Beside, fields, pointers, attempts, sockets, loop, media, threads, callback, history
  <1>0. sock \in [Session -> SocketState] /\ channel \in [Session -> ChannelState]
    BY DEF IInv, TypeOK
  <1>1. CASE SocketCloses(s)
    BY <1>0, <1>1, BesideStep DEF SocketCloses
  <1>2. CASE OtherMessage(s)
    BY <1>2, BesideStep DEF OtherMessage
  <1>3. CASE AnswerMissing(s)
    BY <1>3, BesideStep DEF AnswerMissing
  <1>4. CASE ConnectedCbAssertsWs(s)
    BY <1>4, BesideStep DEF ConnectedCbAssertsWs, Finishes
  <1>5. CASE ConnectedCbError(s)
    BY <1>5, BesideStep DEF ConnectedCbError, Finishes
  <1>6. CASE conn_webrtc_prepare_data_channel_cb(s)
    BY <1>0, <1>6, BesideStep DEF conn_webrtc_prepare_data_channel_cb, BinRuns
  <1>7. ASSUME NEW m \in InMsg, ServerSends(s, m) PROVE IInv'
    BY <1>7, BesideStep DEF ServerSends
  <1>8. QED
    BY <1>1, <1>2, <1>3, <1>4, <1>5, <1>6, <1>7

(* What Beside leaves to be shown of a step that answers or is offered.    *)
LEMMA AccountStep ==
    ASSUME IInv, TypeOK', Beside, BlankInv', LoopInv',
           UNCHANGED <<status, dataChannel, inflight, channel>>,
           abort' = abort, cbPc # "idle" => applied' = applied,
           order = "kept" => AnswerInv'
    PROVE  IInv'
  <1> USE BesideFrame
  <1>1. ASSUME order = "kept"
        PROVE  KeptInv'
    <2>0. /\ SessionInv /\ CallbackInv /\ QuietInv /\ SessionAssertsHold
      BY <1>1 DEF IInv, KeptInv
    <2>1. SessionInv' /\ CallbackInv' /\ SessionAssertsHold'
      BY <2>0 DEF SessionInv, CallbackInv, SessionAssertsHold, Beside
    <2>2. QuietInv'
      BY <2>0 DEF QuietInv, ConnectedHasChannel, AttemptCancelled, Beside
    <2>3. QED
      BY <1>1, <2>1, <2>2 DEF KeptInv
  <1>2. QED
    BY <1>1 DEF IInv, KeptInv, Beside

(* A webrtcbin that is running, or pointed to, is of a started session.    *)
LEMMA BinStarted ==
    ASSUME IInv, NEW s \in Session, s \in playing \/ s \in {ws, webrtcbin}
    PROVE  Started(s)
  BY DEF IInv, BlankInv

LEMMA OfferStep ==
    ASSUME IInv, TypeOK', NEW s \in Session, conn_webrtc_process_sdp_offer(s)
    PROVE  IInv'
  <1>0. /\ abort = "none" /\ ~waiting /\ waitBin = NULL /\ cbPc = "idle" /\ drop[LOOP] = "idle"
        /\ waiting' = TRUE /\ waitBin' = webrtcbin
        /\ \A b \in Session : applied'[b] = IF b = webrtcbin THEN applied[b] + 1 ELSE applied[b]
        /\ UNCHANGED <<fields, attempts, sock, outbox, playing, answering, channel, threads,
                       abort, history>>
    BY DEF conn_webrtc_process_sdp_offer, Receives, LoopReady, TargetBin, IInv, LoopInv
  <1>1. Beside
    BY <1>0 DEF Beside, fields, pointers, attempts, threads, callback, history
  <1>2. LoopInv'
    BY <1>0 DEF IInv, LoopInv, LoopBusy, threads, callback, fields, pointers
  <1>3. BlankInv'
    BY <1>0 DEF IInv, BlankInv, Started, threads, callback, fields, pointers, attempts
  <1>4. ASSUME order = "kept", ws # NULL
        PROVE  /\ AnswersSent(ws)' + answering'[ws] + Awaited(ws)' <= applied'[ws]
               /\ ws \in playing /\ sock[ws] = "open" /\ Gathering(ws)' => AnswersSent(ws)' > 0
    <2>1. ws \in Session /\ webrtcbin = ws
      BY <1>0, <1>4 DEF IInv, TypeOK, Ref, KeptInv, SessionInv, LoopBusy
    <2>2. AnswersSent(ws)' = AnswersSent(ws) /\ AnswersSent(ws) \in Nat
      BY <1>0, <2>1, CountOf DEF AnswersSent, fields, pointers, IInv
    <2>3. applied'[ws] = applied[ws] + 1 /\ applied[ws] \in Nat /\ answering[ws] \in Nat
      BY <1>0, <2>1 DEF IInv, TypeOK
    <2>4. QED
      BY <1>0, <1>4, <2>1, <2>2, <2>3
         DEF IInv, KeptInv, AnswerInv, Awaited, Gathering, NULL, fields, pointers
  <1>5. order = "kept" => AnswerInv'
    BY <1>0, <1>4 DEF AnswerInv, fields, pointers
  <1>6. QED
    BY <1>0, <1>1, <1>2, <1>3, <1>5, AccountStep
       DEF fields, pointers, attempts, threads, callback

LEMMA PromiseStep ==
    ASSUME IInv, TypeOK', PromiseReplied
    PROVE  IInv'
  <1>0. /\ abort = "none" /\ waiting /\ waitBin # NULL /\ cbPc = "idle" /\ drop[LOOP] = "idle"
        /\ waiting' = FALSE /\ waitBin' = NULL
        /\ webrtcbin \in {waitBin, NULL}
        /\ \A b \in Session : answering'[b] =
              IF b = webrtcbin THEN answering[b] + 1 ELSE answering[b]
        /\ UNCHANGED <<fields, attempts, sockets, playing, applied, channel, threads, abort,
                       history>>
    BY DEF PromiseReplied, IInv, LoopInv, LoopBusy
  <1>1. Beside
    BY <1>0 DEF Beside, fields, pointers, attempts, sockets, threads, callback, history
  <1>2. LoopInv'
    BY <1>0 DEF IInv, LoopInv, LoopBusy, threads, callback, fields, pointers
  <1>3. BlankInv'
    BY <1>0, Threads DEF IInv, BlankInv, Started, threads, callback, fields, pointers,
                         attempts, sockets
  <1>4. ASSUME order = "kept", ws # NULL
        PROVE  /\ AnswersSent(ws)' + answering'[ws] + Awaited(ws)' <= applied'[ws]
               /\ ws \in playing /\ sock[ws] = "open" /\ Gathering(ws)' => AnswersSent(ws)' > 0
    <2>1. ws \in Session /\ webrtcbin = ws /\ waitBin = ws
      BY <1>0, <1>4 DEF IInv, TypeOK, Ref, KeptInv, SessionInv, LoopBusy
    <2>2. AnswersSent(ws)' = AnswersSent(ws) /\ AnswersSent(ws) \in Nat
      BY <1>0, <2>1, CountOf DEF AnswersSent, fields, pointers, sockets, IInv
    <2>3. answering'[ws] = answering[ws] + 1 /\ applied[ws] \in Nat /\ answering[ws] \in Nat
      BY <1>0, <2>1 DEF IInv, TypeOK
    <2>4. QED
      BY <1>0, <1>4, <2>1, <2>2, <2>3
         DEF IInv, KeptInv, AnswerInv, Awaited, Gathering, NULL, fields, pointers
  <1>5. order = "kept" => AnswerInv'
    BY <1>0, <1>4 DEF AnswerInv, fields, pointers, sockets
  <1>6. QED
    BY <1>0, <1>1, <1>2, <1>3, <1>5, AccountStep
       DEF fields, pointers, attempts, threads, callback

LEMMA SendStep ==
    ASSUME IInv, TypeOK', NEW s \in Session,
           conn_webrtc_on_answer_created(s) \/ conn_webrtc_on_ice_candidate_cb(s)
    PROVE  IInv'
  <1>0. /\ abort = "none" /\ s \in playing
        /\ UNCHANGED <<fields, attempts, sock, loop, playing, applied, channel, threads, abort,
                       history>>
        /\ \A b \in Session \ {s} : answering'[b] = answering[b]
    BY DEF conn_webrtc_on_answer_created, conn_webrtc_on_ice_candidate_cb, BinRuns, IInv, TypeOK
  <1>1. Beside
    BY <1>0 DEF Beside, fields, pointers, attempts, threads, callback, history
  <1>2. LoopInv'
    BY <1>0 DEF IInv, LoopInv, LoopBusy, threads, callback, fields, pointers, loop
  <1>3. BlankInv'
    <2>1. Started(s) /\ \A t \in Session : outbox'[t] # outbox[t] => t = ws
      BY <1>0, BinStarted DEF conn_webrtc_on_answer_created, conn_webrtc_on_ice_candidate_cb,
                  OutboxAfterSend, conn_send_sdp_answer
    <2>2. QED
      BY <1>0, <2>1 DEF IInv, BlankInv, Started, threads, callback, fields, pointers, attempts,
                        loop
  <1>4. ASSUME order = "kept", ws # NULL
        PROVE  /\ AnswersSent(ws)' + answering'[ws] + Awaited(ws)' <= applied'[ws]
               /\ ws \in playing /\ sock[ws] = "open" /\ Gathering(ws)' => AnswersSent(ws)' > 0
    <2>1. ws = s
      BY <1>0, <1>4 DEF IInv, KeptInv, PlayingInv
    <2>2. AnswersSent(s) \in Nat /\ answering[s] \in Nat /\ applied[s] \in Nat
      BY CountOf DEF IInv, TypeOK
    <2>3. /\ AnswersSent(s) + answering[s] + Awaited(s) <= applied[s]
          /\ s \in playing /\ sock[s] = "open" /\ Gathering(s) => AnswersSent(s) > 0
      BY <1>4, <2>1 DEF IInv, KeptInv, AnswerInv
    <2>4. CASE conn_webrtc_on_answer_created(s)
      <3>1. answering[s] > 0 /\ answering'[s] = answering[s] - 1
        BY <2>4 DEF conn_webrtc_on_answer_created, AnswerQueued, IInv, TypeOK
      <3>2. AnswersSent(s)' = IF sock[s] = "open" THEN AnswersSent(s) + 1 ELSE AnswersSent(s)
        BY <2>1, <2>4, CountAfterSend
           DEF IInv, OutMsg, conn_webrtc_on_answer_created, conn_send_sdp_answer
      <3>3. QED
        BY <1>0, <2>1, <2>2, <2>3, <3>1, <3>2
           DEF Awaited, Gathering, loop, fields, pointers
    <2>5. CASE conn_webrtc_on_ice_candidate_cb(s)
      <3>1. AnswersSent(s)' = AnswersSent(s) /\ answering' = answering
        BY <2>1, <2>5, CountAfterSend DEF IInv, OutMsg, conn_webrtc_on_ice_candidate_cb
      <3>2. QED
        BY <1>0, <2>1, <2>2, <2>3, <3>1 DEF Awaited, Gathering, loop, fields, pointers
    <2>6. QED
      BY <2>4, <2>5
  <1>5. order = "kept" => AnswerInv'
    BY <1>0, <1>4 DEF AnswerInv, fields, pointers
  <1>6. QED
    BY <1>0, <1>1, <1>2, <1>3, <1>5, AccountStep
       DEF fields, pointers, attempts, threads, callback

LEMMA DataChannelStep ==
    ASSUME IInv, TypeOK', NEW s \in Session, conn_webrtc_on_data_channel_cb(s)
    PROVE  IInv'
  <1>0. /\ abort = "none" /\ s \in playing /\ channel[s] = "prepared"
        /\ abort' = IF dataChannel = NULL THEN "none" ELSE "data_channel"
        /\ channel' = [channel EXCEPT ![s] = "open"]
        /\ dataChannel' = s /\ status' = "CONNECTED"
        /\ UNCHANGED <<wsCancel, ws, pipeline, webrtcbin, attempts, sockets, loop, playing,
                       applied, answering, threads, history>>
    BY DEF conn_webrtc_on_data_channel_cb, BinRuns
  <1>1. Beside
    BY <1>0 DEF Beside, attempts, sockets, threads, callback, history
  <1>2. LoopInv'
    BY <1>0 DEF IInv, LoopInv, LoopBusy, threads, callback, loop
  <1>3. BlankInv'
    BY <1>0 DEF IInv, TypeOK, BlankInv, Started, threads, callback, attempts, sockets, loop
  <1>4. ASSUME order = "kept"
        PROVE  KeptInv'
    <2>0. /\ PlayingInv /\ SessionInv /\ CallbackInv /\ QuietInv /\ AnswerInv
          /\ AttemptInv
      BY <1>4 DEF IInv, KeptInv, OrderInv
    <2>1. ws = s /\ pipeline = s /\ webrtcbin = s /\ playing = {s} /\ cbPc = "idle"
      BY <1>0, <2>0 DEF PlayingInv, CallbackInv
    <2>2. dataChannel = NULL
      BY <1>0, <2>0 DEF SessionInv
    <2>3. AnswersSent(ws)' = AnswersSent(ws)
      BY <1>0 DEF AnswersSent, sockets
    <2>4. AnswerInv'
      BY <1>0, <2>0, <2>3 DEF AnswerInv, Awaited, Gathering, sockets, loop
    <2>5. \A u \in inflight : AttemptCancelled(u)
      BY <2>0, <2>1 DEF AttemptInv, IInv, TypeOK, NULL, Session
    <2>6. QuietInv'
      BY <1>0, <2>1, <2>5
         DEF QuietInv, ConnectedHasChannel, AttemptCancelled, attempts, IInv, TypeOK, NULL,
             Session
    <2>7. QED
      BY <1>0, <1>1, <1>4, <2>1, <2>2, <2>4, <2>6, BesideFrame
         DEF KeptInv, SessionInv, CallbackInv, SessionAssertsHold, threads, callback, IInv,
             TypeOK
  <1>5. QED
    BY <1>0, <1>1, <1>2, <1>3, <1>4, BesideFrame DEF IInv, KeptInv, history

LEMMA InitIInv == Init => IInv
  <1> SUFFICES ASSUME Init PROVE IInv
    OBVIOUS
  <1> USE Threads DEF Init
  <1>1. TypeOK
    BY InitType
  <1>2. BlankInv /\ IdsInOrder /\ LoopInv
    BY BoundsAssumption DEF BlankInv, Started, IdsInOrder, LoopInv, LoopBusy, NULL, Session
  <1>3. OneAtATime /\ AttemptInv /\ NothingLeftRunning /\ DropInv
    BY DEF OneAtATime, AttemptInv, NothingLeftRunning, DropInv, FromStop, FromClose, FromWs,
           FromBin, FromChannel, FromPipeline, FromStatus, FromRenew, FromAttempt
  <1>4. KeptInv
    BY DEF KeptInv, PlayingInv, SessionInv, CallbackInv, QuietInv, ConnectedHasChannel,
           AnswerInv, SessionAssertsHold
  <1>5. QED
    BY <1>1, <1>2, <1>3, <1>4 DEF IInv, OrderInv

LEMMA InductiveStep == IInv /\ [Next]_vars => IInv'
  <1> SUFFICES ASSUME IInv, [Next]_vars PROVE IInv'
    OBVIOUS
  <1> USE Threads
  <1>1. TypeOK'
    BY TypeStep DEF IInv
  <1>2. CASE my_connection_disconnect
    BY <1>1, <1>2, DropBeginsStep DEF my_connection_disconnect
  <1>3. CASE conn_connect_internal
    BY <1>1, <1>3, ConnectStep, DropEndsStep DEF conn_connect_internal
  <1>4. ASSUME NEW t \in Thread, conn_disconnect_internal(t)
        PROVE  IInv'
    BY <1>1, <1>4, DropGoesOnStep, DropEndsStep DEF conn_disconnect_internal
  <1>5. CASE ConnectedCbGoesOn
    <2>1. CASE DisconnectWithoutPipeline
      BY <1>1, <2>1, DropBeginsStep DEF DisconnectWithoutPipeline, Continues
    <2>2. QED
      BY <1>1, <1>5, <2>1, CallbackStatementStep DEF ConnectedCbGoesOn, CallbackStatement
  <1>6. CASE PromiseReplied
    BY <1>1, <1>6, PromiseStep
  <1>7. ASSUME NEW s \in Session,
               \/ ConnectedCbFinishes(s) \/ conn_on_ws_message_cb(s)
               \/ SocketCloses(s) \/ \E m \in InMsg : ServerSends(s, m)
               \/ AnswerMissing(s) \/ conn_webrtc_prepare_data_channel_cb(s)
        PROVE  IInv'
    BY <1>1, <1>7, AcceptsStep, OfferStep, PeerStep
       DEF ConnectedCbFinishes, conn_on_ws_message_cb
  <1>8. ASSUME NEW s \in Session,
               \/ conn_webrtc_on_answer_created(s) \/ conn_webrtc_on_ice_candidate_cb(s)
               \/ conn_webrtc_on_data_channel_cb(s)
        PROVE  IInv'
    BY <1>1, <1>8, SendStep, DataChannelStep
  <1>9. ASSUME NEW s \in Session, DataChannelEnds(s)
        PROVE  IInv'
    <2>1. /\ s \in Thread /\ s # LOOP /\ DropBegins(s) /\ UNCHANGED callback
          /\ \A u \in Session : channel'[u] = channel[u]
               \/ (channel[u] \in {"prepared", "open"} /\ channel'[u] = "closed")
      BY <1>9 DEF DataChannelEnds, IInv, TypeOK
    <2>2. QED
      BY <1>1, <2>1, DropBeginsStep
  <1>10. CASE UNCHANGED vars
    BY <1>1, <1>10, BesideStep
       DEF vars, fields, pointers, attempts, sockets, loop, media, threads, callback, history,
           Beside
  <1>11. QED
    BY <1>2, <1>3, <1>4, <1>5, <1>6, <1>7, <1>8, <1>9, <1>10 DEF Next

----------------------------------------------------------------------------
(* What IInv says of the properties the runs check.                        *)

LEMMA Consequences ==
    ASSUME IInv
    PROVE  /\ LiveAttemptIsControlled /\ NothingLeftRunning
           /\ SessionFieldsAgree /\ StatusTellsSession /\ SessionAssertsHold
  <1>1. LiveAttemptIsControlled /\ NothingLeftRunning
    BY DEF IInv, OrderInv, LiveAttemptIsControlled, AttemptInv, NothingLeftRunning
  <1>2. SessionFieldsAgree
    BY DEF IInv, KeptInv, SessionFieldsAgree, QuietInv, PlayingInv
  <1>3. StatusTellsSession /\ SessionAssertsHold
    BY DEF IInv, KeptInv, StatusTellsSession, QuietInv, SessionAssertsHold
  <1>4. QED
    BY <1>1, <1>2, <1>3

(* The inductive invariant of connection.c holds in every behaviour.       *)
THEOREM Invariance == Spec => []IInv
  BY InitIInv, InductiveStep, PTL DEF Spec

(* Types: every pointer field of MyConnection names a session or NULL.     *)
THEOREM TypeCorrect == Spec => []TypeOK
  BY Invariance, PTL DEF IInv

(* The cancellable a disconnect cancels is that of the only live attempt,  *)
(* whatever the order in which connects are made and attempts complete, as *)
(* long as no two threads meet in the long handlers; and again after they  *)
(* have met and a disconnect has put it right.                             *)
THEOREM AttemptControl == Spec => []LiveAttemptIsControlled
  BY Invariance, Consequences, PTL

(* Between the long handlers the socket, the pipeline and the webrtcbin of *)
(* the object are of one session, and what plays is always of that one.    *)
THEOREM OneSession == Spec => []SessionFieldsAgree
  BY Invariance, Consequences, PTL

(* No socket stays open and no pipeline playing that the object has lost,  *)
(* at any statement of the long handlers.                                  *)
THEOREM NoLeftovers == Spec => []NothingLeftRunning
  BY Invariance, Consequences, PTL

(* The status tells the application what there is, apart from a failure    *)
(* reported too early while the newest attempt is still under way; with    *)
(* status CONNECTED, my_connection_send_bytes finds its data channel.      *)
THEOREM StatusFits == Spec => []StatusTellsSession
  BY Invariance, Consequences, PTL

(* The assertions on conn->pipeline, conn->webrtcbin and                   *)
(* conn->data_channel never fail while the handlers keep their order.      *)
THEOREM AssertsHold == Spec => []SessionAssertsHold
  BY Invariance, Consequences, PTL

(* In the session there is, the client has never sent, queued and awaited  *)
(* more answers than it was made offers, and gathers no candidate over an  *)
(* open socket before an answer went out.                                  *)
AnswersAreOwed == order = "kept" => AnswerInv
THEOREM AnswerAccount == Spec => []AnswersAreOwed
  <1>1. IInv => AnswersAreOwed
    BY DEF IInv, KeptInv, AnswersAreOwed
  <1>2. QED
    BY <1>1, Invariance, PTL

(* The loop, blocked on a promise, never finds the webrtcbin of another    *)
(* session in the object when the reply comes, races or not: only the loop *)
(* stores one.                                                             *)
WaitsForOwnBin == waiting => webrtcbin \in {waitBin, NULL}
THEOREM ReplyOfOwnBin == Spec => []WaitsForOwnBin
  <1>1. IInv => WaitsForOwnBin
    BY DEF IInv, LoopInv, WaitsForOwnBin
  <1>2. QED
    BY <1>1, Invariance, PTL

----------------------------------------------------------------------------
(* The connection implements SingleSession.                                *)

ChannelUp == dataChannel # NULL /\ ws # NULL
PromiseState == <<nConnects, LiveAttempt, ws, ChannelUp, applied, outbox, order = "kept">>

LEMMA InitPromise == Init => Promise!Init
  <1> SUFFICES ASSUME Init PROVE Promise!Init
    OBVIOUS
  <1>1. LiveAttempt = NULL
    BY DEF LiveAttempt, Init, NULL
  <1>2. QED
    BY <1>1 DEF Init, Promise!Init, NULL

(* The live attempt is the newest one.                                     *)
LEMMA LiveAttemptIs ==
    ASSUME IInv
    PROVE  /\ LiveAttempt \in 0 .. nConnects
           /\ LiveAttempt # NULL => LiveAttempt \in inflight /\ ~AttemptCancelled(LiveAttempt)
           /\ order # "lost" /\ LiveAttempt # NULL => ws = NULL
           /\ order # "lost" => \A s \in inflight : ~AttemptCancelled(s) => LiveAttempt = s
           /\ ws \in 0 .. nConnects
  <1>1. nConnects \in Nat
    BY Numbers DEF IInv
  <1>2. ws \in 0 .. nConnects
    <2>1. ws \in Session => Started(ws)
      BY DEF IInv, BlankInv
    <2>2. QED
      BY <1>1, <2>1 DEF IInv, TypeOK, Ref, NULL, Started, Session
  <1>3. order # "lost" => AttemptInv
    BY DEF IInv, OrderInv
  <1>4. QED
    BY <1>1, <1>2, <1>3 DEF LiveAttempt, AttemptInv, NULL

(* Whatever the threads do to each other, they touch no session to come.   *)
LEMMA UnrulyStep ==
    ASSUME IInv, IInv', [Next]_vars, order' # "kept"
    PROVE  Promise!Next
  <1>1. nConnects' \in {nConnects, nConnects + 1}
    BY DEF Next, vars, attempts, my_connection_disconnect, DropBegins,
           conn_connect_internal, conn_disconnect_internal, DropGoesOn, DropEnds,
           RenewCancellable, StartAttempt, ConnectReturns, ConnectedCbGoesOn,
           AttachMessageHandler, AssertNoPipeline, StorePipeline, StoreBin, NextTest,
           DisconnectWithoutPipeline, StartPipeline, PromiseReplied, ConnectedCbFinishes,
           ConnectedCbAssertsWs, ConnectedCbError, ConnectedCbAccepts, ServerSends,
           SocketCloses, conn_on_ws_message_cb, conn_webrtc_process_sdp_offer,
           OtherMessage, conn_webrtc_on_answer_created, AnswerMissing,
           conn_webrtc_on_ice_candidate_cb, conn_webrtc_prepare_data_channel_cb,
           conn_webrtc_on_data_channel_cb, DataChannelEnds
  <1>2. LiveAttempt' \in 0 .. nConnects' /\ ws' \in 0 .. nConnects'
    <2>1. (IInv => LiveAttempt \in 0 .. nConnects /\ ws \in 0 .. nConnects)
      BY LiveAttemptIs
    <2>2. (IInv => LiveAttempt \in 0 .. nConnects /\ ws \in 0 .. nConnects)'
      BY LiveAttemptIs, PTL
    <2>3. QED
      BY <2>2
  <1>3. \A s \in Session : s > nConnects' => applied'[s] = 0 /\ outbox'[s] = <<>>
    BY BoundsAssumption DEF IInv, TypeOK, BlankInv, Started, Session
  <1>4. Promise!Unruly
    BY <1>1, <1>2, <1>3 DEF Promise!Unruly, ChannelUp
  <1>5. QED
    BY <1>4 DEF Promise!Next

LEMMA RecoveryStep ==
    ASSUME IInv, IInv', [Next]_vars, order # "kept", order' = "kept"
    PROVE  Promise!Next
  <1>1. \/ \E t \in Thread : DropEnds(t, "idle")
        \/ DropEnds(APP, "renew")
    BY DEF Next, vars, history, OrderWith, my_connection_disconnect, DropBegins,
           conn_connect_internal, conn_disconnect_internal, DropGoesOn,
           RenewCancellable, StartAttempt, ConnectReturns, ConnectedCbGoesOn,
           AttachMessageHandler, AssertNoPipeline, StorePipeline, StoreBin, NextTest,
           DisconnectWithoutPipeline, StartPipeline, PromiseReplied, ConnectedCbFinishes,
           ConnectedCbAssertsWs, ConnectedCbError, ConnectedCbAccepts, ServerSends,
           SocketCloses, conn_on_ws_message_cb, conn_webrtc_process_sdp_offer,
           OtherMessage, conn_webrtc_on_answer_created, AnswerMissing,
           conn_webrtc_on_ice_candidate_cb, conn_webrtc_prepare_data_channel_cb,
           conn_webrtc_on_data_channel_cb, DataChannelEnds
  <1>2. PICK t \in Thread, next \in {"idle", "renew"} : DropEnds(t, next)
    BY <1>1, Threads
  <1>3. /\ drop[t] = "status" /\ order = "restoring"
        /\ UNCHANGED <<pointers, attempts, sockets, media>>
    BY <1>2 DEF DropEnds, Goes
  <1>4. ws = NULL /\ dataChannel = NULL
    BY <1>3, ClearedAtEnd
  <1>5. \A s \in inflight : AttemptCancelled(s)
    BY <1>3 DEF IInv, OrderInv, AttemptInv
  <1>6. LiveAttempt' = NULL
    BY <1>3, <1>5 DEF LiveAttempt, AttemptCancelled, attempts
  <1>7. Promise!Recovers
    BY <1>3, <1>4, <1>6
       DEF Promise!Recovers, pointers, attempts, sockets, media, NULL
  <1>8. QED
    BY <1>7 DEF Promise!Next

(* While the order is kept: a step that lets nobody see a difference, and  *)
(* the steps that do.                                                      *)
LEMMA SameLiveAttempt ==
    ASSUME attempts' = attempts
    PROVE  LiveAttempt' = LiveAttempt
  BY DEF LiveAttempt, AttemptCancelled, attempts

LEMMA SilentStep ==
    ASSUME UNCHANGED <<ws, dataChannel, attempts, applied, outbox, order>>
    PROVE  UNCHANGED PromiseState
  BY SameLiveAttempt DEF PromiseState, ChannelUp, attempts

LEMMA PromiseDrop ==
    ASSUME IInv, order = "kept", order' = "kept", NEW t \in Thread,
           DropBegins(t) \/ DropGoesOn(t) \/ DropEnds(t, "idle") \/ DropEnds(t, "renew")
    PROVE  [Promise!Next]_PromiseState
  <1>1. UNCHANGED <<nConnects, inflight, cancelOf, applied, outbox>>
    BY DEF DropBegins, DropGoesOn, DropEnds, attempts, sockets, media
  <1>2. CASE DropBegins(t)
    <2>1. \A s \in inflight' : AttemptCancelled(s)'
      BY <1>2
         DEF DropBegins, CancelledByDisconnect, AttemptCancelled, IInv, OrderInv,
             AttemptInv
    <2>2. LiveAttempt' = NULL
      BY <2>1 DEF LiveAttempt
    <2>3. ws' = ws /\ dataChannel' = dataChannel
      BY <1>2 DEF DropBegins, fields, pointers
    <2>4. CASE LiveAttempt = NULL
      BY <1>1, <2>2, <2>3, <2>4 DEF PromiseState, ChannelUp
    <2>5. CASE LiveAttempt # NULL
      <3>1. ws = NULL
        BY <2>5, LiveAttemptIs
      <3>2. Promise!End
        BY <1>1, <2>2, <2>3, <3>1 DEF Promise!End, NULL
      <3>3. QED
        BY <3>2 DEF Promise!Next, Promise!Orderly
    <2>6. QED
      BY <2>4, <2>5
  <1>3. CASE DropGoesOn(t)
    <2>1. LiveAttempt' = LiveAttempt
      BY <1>3, SameLiveAttempt DEF DropGoesOn
    <2>2. CASE drop[t] = "clearWs"
      <3>1. LiveAttempt = NULL
        BY <2>2, LiveAttemptIs DEF IInv, OrderInv, AttemptInv
      <3>2. Promise!End
        BY <1>1, <1>3, <2>1, <2>2, <3>1 DEF DropGoesOn, Writes, Promise!End, NULL
      <3>3. QED
        BY <3>2 DEF Promise!Next, Promise!Orderly
    <2>3. CASE drop[t] = "clearChannel"
      <3>1. ws = NULL
        BY <2>3 DEF IInv, OrderInv, DropInv, FromBin, FromChannel
      <3>2. QED
        BY <1>1, <1>3, <2>1, <2>3, <3>1 DEF DropGoesOn, Writes, PromiseState, ChannelUp
    <2>4. CASE drop[t] \notin {"clearWs", "clearChannel"}
      BY <1>1, <1>3, <2>1, <2>4 DEF DropGoesOn, Writes, PromiseState, ChannelUp
    <2>5. QED
      BY <2>2, <2>3, <2>4
  <1>4. CASE DropEnds(t, "idle") \/ DropEnds(t, "renew")
    BY <1>4, SilentStep DEF DropEnds, pointers, sockets, media
  <1>5. QED
    BY <1>2, <1>3, <1>4

LEMMA PromiseConnect ==
    ASSUME IInv, IInv', order = "kept", order' = "kept",
           RenewCancellable \/ StartAttempt \/ ConnectReturns
    PROVE  [Promise!Next]_PromiseState
  <1>1. CASE RenewCancellable
    <2>1. LiveAttempt' = LiveAttempt
      BY <1>1 DEF RenewCancellable, LiveAttempt, AttemptCancelled
    <2>2. QED
      BY <1>1, <2>1 DEF RenewCancellable, PromiseState, ChannelUp, sockets, media
  <1>2. CASE StartAttempt
    <2>1. /\ drop[APP] = "attempt"
          /\ nConnects' = nConnects + 1 /\ nConnects' \in inflight'
          /\ cancelOf' = [cancelOf EXCEPT ![nConnects'] = wsCancel]
          /\ cancelled' = cancelled \ {wsCancel}
          /\ UNCHANGED <<fields, pointers, sockets, media>>
      BY <1>2 DEF StartAttempt, Goes, fields
    <2>2. nConnects' \in Session
      BY <2>1 DEF IInv, TypeOK
    <2>3. LiveAttempt' = nConnects'
      BY <2>1, <2>2 DEF LiveAttempt, AttemptCancelled, IInv, TypeOK
    <2>4. ws = NULL
      BY <2>1, Threads, ClearedAtEnd
    <2>5. LiveAttempt = NULL
      BY <2>1, Threads, LiveAttemptIs DEF IInv, OrderInv, AttemptInv
    <2>6. Promise!Begin
      BY <2>1, <2>2, <2>3, <2>4, <2>5
         DEF Promise!Begin, fields, pointers, sockets, media, NULL
    <2>7. QED
      BY <2>6 DEF Promise!Next, Promise!Orderly
  <1>3. CASE ConnectReturns
    BY <1>3, SilentStep DEF ConnectReturns, pointers, sockets, media
  <1>4. QED
    BY <1>1, <1>2, <1>3

LEMMA PromiseFinish ==
    ASSUME IInv, IInv', order = "kept", order' = "kept", NEW s \in Session,
           ConnectedCbFinishes(s)
    PROVE  [Promise!Next]_PromiseState
  <1>0. /\ s \in inflight /\ inflight' = inflight \ {s}
        /\ UNCHANGED <<nConnects, cancelled, cancelOf, dataChannel, applied, outbox>>
        /\ order # "lost"
    BY DEF ConnectedCbFinishes, ConnectedCbAssertsWs, ConnectedCbError, ConnectedCbAccepts,
           Finishes, fields, pointers, sockets, media
  <1>1. LiveAttempt' = IF LiveAttempt = s THEN NULL ELSE LiveAttempt
    BY <1>0, LiveAttemptIs DEF LiveAttempt, AttemptCancelled, NULL
  <1>2. CASE ConnectedCbAssertsWs(s) \/ ConnectedCbError(s)
    <2>1. ws' = ws
      BY <1>2 DEF ConnectedCbAssertsWs, ConnectedCbError, fields, pointers
    <2>2. CASE LiveAttempt = s
      <3>1. ws = NULL
        BY <1>0, <2>2, LiveAttemptIs, Threads
      <3>2. Promise!End
        BY <1>0, <1>1, <2>1, <2>2, <3>1 DEF Promise!End, NULL
      <3>3. QED
        BY <3>2 DEF Promise!Next, Promise!Orderly
    <2>3. CASE LiveAttempt # s
      BY <1>0, <1>1, <2>1, <2>3 DEF PromiseState, ChannelUp
    <2>4. QED
      BY <2>2, <2>3
  <1>3. CASE ConnectedCbAccepts(s)
    <2>1. ws = NULL /\ ws' = s /\ LiveAttempt = s /\ cbPc' # "idle"
      BY <1>0, <1>3, LiveAttemptIs DEF ConnectedCbAccepts
    <2>2. dataChannel' = NULL
      BY <2>1 DEF IInv, KeptInv, CallbackInv
    <2>3. Promise!Open
      BY <1>0, <1>1, <2>1, <2>2, Threads DEF Promise!Open, NULL
    <2>4. QED
      BY <2>3 DEF Promise!Next, Promise!Orderly
  <1>4. QED
    BY <1>2, <1>3 DEF ConnectedCbFinishes

LEMMA PromiseOffer ==
    ASSUME IInv, order = "kept", order' = "kept", NEW s \in Session,
           conn_webrtc_process_sdp_offer(s)
    PROVE  [Promise!Next]_PromiseState
  <1>0. /\ cbPc = "idle" /\ drop[LOOP] = "idle"
        /\ applied' = [b \in Session |-> IF b = webrtcbin THEN applied[b] + 1 ELSE applied[b]]
        /\ UNCHANGED <<ws, dataChannel, attempts, outbox>>
    BY DEF conn_webrtc_process_sdp_offer, Receives, LoopReady, TargetBin, fields, pointers
  <1>1. LiveAttempt' = LiveAttempt
    BY <1>0, SameLiveAttempt
  <1>2. applied \in [Session -> Nat]
    BY DEF IInv, TypeOK
  <1>3. CASE webrtcbin = NULL
    <2>1. applied' = applied
      BY <1>0, <1>2, <1>3, Threads
    <2>2. QED
      BY <1>0, <2>1, SilentStep
  <1>4. CASE webrtcbin # NULL
    <2>1. webrtcbin \in Session /\ Started(webrtcbin)
      BY <1>4 DEF IInv, TypeOK, Ref, BlankInv
    <2>2. applied' = [applied EXCEPT ![webrtcbin] = @ + 1]
      BY <1>0, <1>2, <2>1
    <2>3. webrtcbin <= nConnects /\ webrtcbin # LiveAttempt
      BY <2>1, LiveAttemptIs, Threads DEF Started
    <2>4. ws # NULL => webrtcbin = ws
      BY <1>0, <1>4 DEF IInv, KeptInv, SessionInv
    <2>5. Promise!HearOffer(webrtcbin)
      BY <1>0, <1>1, <2>2, <2>3, <2>4 DEF Promise!HearOffer, attempts, NULL
    <2>6. QED
      BY <2>1, <2>5 DEF Promise!Next, Promise!Orderly
  <1>5. QED
    BY <1>3, <1>4

LEMMA PromiseSend ==
    ASSUME IInv, order = "kept", order' = "kept", NEW s \in Session,
           conn_webrtc_on_answer_created(s) \/ conn_webrtc_on_ice_candidate_cb(s)
    PROVE  [Promise!Next]_PromiseState
  <1>0. PICK m \in OutMsg :
           /\ outbox' = OutboxAfterSend(m)
           /\ m = "answer" => answering[s] > 0
           /\ m = "candidate" => Gathering(s)
    BY DEF conn_webrtc_on_answer_created, conn_webrtc_on_ice_candidate_cb, AnswerQueued,
           conn_send_sdp_answer, OutMsg
  <1>1. s \in playing /\ UNCHANGED <<ws, dataChannel, attempts, applied>>
    BY DEF conn_webrtc_on_answer_created, conn_webrtc_on_ice_candidate_cb, BinRuns, fields,
           pointers
  <1>2. ws = s
    BY <1>1 DEF IInv, KeptInv, PlayingInv
  <1>3. LiveAttempt' = LiveAttempt
    BY <1>1, SameLiveAttempt
  <1>4. CASE sock[s] # "open"
    <2>1. outbox' = outbox
      BY <1>0, <1>2, <1>4 DEF OutboxAfterSend, IInv, TypeOK
    <2>2. QED
      BY <1>1, <2>1, SilentStep
  <1>5. CASE sock[s] = "open"
    <2>1. outbox' = [outbox EXCEPT ![ws] = Append(@, m)]
      BY <1>0, <1>2, <1>5 DEF OutboxAfterSend, IInv, TypeOK
    <2>2. /\ AnswersSent(ws) + answering[ws] + Awaited(ws) <= applied[ws]
          /\ Gathering(ws) => AnswersSent(ws) > 0
          /\ ws # NULL
      BY <1>1, <1>2, <1>5, Threads DEF IInv, KeptInv, AnswerInv
    <2>3. /\ AnswersSent(ws) \in Nat /\ answering[ws] \in Nat /\ applied[ws] \in Nat
          /\ Awaited(ws) \in Nat
      BY <1>2, CountOf DEF IInv, TypeOK, Awaited
    <2>4. Promise!Answers(ws) = AnswersSent(ws)
      BY DEF Promise!Answers, AnswersSent, Promise!Cardinality, Cardinality
    <2>5. Promise!Send(m)
      BY <1>1, <1>3, <2>1 DEF Promise!Send, attempts
    <2>6. CASE m = "answer"
      <3>1. AnswersSent(ws) < applied[ws]
        BY <1>0, <1>2, <2>2, <2>3, <2>6
      <3>2. Promise!SendAnswer
        BY <2>2, <2>4, <2>5, <2>6, <3>1 DEF Promise!SendAnswer, NULL
      <3>3. QED
        BY <3>2 DEF Promise!Next, Promise!Orderly
    <2>7. CASE m = "candidate"
      <3>1. Promise!SendCandidate
        BY <1>0, <1>2, <2>2, <2>4, <2>5, <2>7 DEF Promise!SendCandidate, NULL
      <3>2. QED
        BY <3>1 DEF Promise!Next, Promise!Orderly
    <2>8. QED
      BY <2>6, <2>7 DEF OutMsg
  <1>6. QED
    BY <1>4, <1>5

LEMMA PromiseChannel ==
    ASSUME IInv, order = "kept", order' = "kept", NEW s \in Session,
           conn_webrtc_on_data_channel_cb(s)
    PROVE  [Promise!Next]_PromiseState
  <1>1. /\ s \in playing /\ channel[s] = "prepared" /\ dataChannel' = s
        /\ UNCHANGED <<ws, attempts, applied, outbox>>
    BY DEF conn_webrtc_on_data_channel_cb, BinRuns, sockets
  <1>2. ws = s /\ dataChannel = NULL
    BY <1>1 DEF IInv, KeptInv, PlayingInv, SessionInv
  <1>3. LiveAttempt' = LiveAttempt
    BY <1>1, SameLiveAttempt
  <1>4. Promise!ChannelOpens
    BY <1>1, <1>2, <1>3, Threads DEF Promise!ChannelOpens, attempts, NULL
  <1>5. QED
    BY <1>4 DEF Promise!Next, Promise!Orderly

LEMMA CallbackSilent ==
    ASSUME CallbackStatement
    PROVE  UNCHANGED <<ws, dataChannel, attempts, applied, outbox, order>>
  BY DEF CallbackStatement, AttachMessageHandler, AssertNoPipeline, StorePipeline,
         StoreBin, NextTest, StartPipeline, fields, pointers, sockets, media, history

LEMMA OrderlyStep ==
    ASSUME IInv, IInv', [Next]_vars, order = "kept", order' = "kept"
    PROVE  [Promise!Next]_PromiseState
  <1> USE Threads
  <1>1. CASE my_connection_disconnect
    BY <1>1, PromiseDrop DEF my_connection_disconnect
  <1>2. CASE conn_connect_internal
    BY <1>2, PromiseDrop, PromiseConnect DEF conn_connect_internal
  <1>3. ASSUME NEW t \in Thread, conn_disconnect_internal(t)
        PROVE  [Promise!Next]_PromiseState
    BY <1>3, PromiseDrop DEF conn_disconnect_internal
  <1>4. CASE ConnectedCbGoesOn
    <2>1. CASE DisconnectWithoutPipeline
      BY <2>1, PromiseDrop DEF DisconnectWithoutPipeline
    <2>2. CASE CallbackStatement
      BY <2>2, CallbackSilent, SilentStep
    <2>3. QED
      BY <1>4, <2>1, <2>2 DEF ConnectedCbGoesOn, CallbackStatement
  <1>5. ASSUME NEW s \in Session, DataChannelEnds(s)
        PROVE  [Promise!Next]_PromiseState
    <2>1. DropBegins(s) /\ s \in Thread
      BY <1>5 DEF DataChannelEnds
    <2>2. QED
      BY <2>1, PromiseDrop
  <1>6. ASSUME NEW s \in Session,
               \/ SocketCloses(s) \/ OtherMessage(s) \/ AnswerMissing(s)
               \/ conn_webrtc_prepare_data_channel_cb(s)
               \/ \E m \in InMsg : ServerSends(s, m)
        PROVE  [Promise!Next]_PromiseState
    <2>1. UNCHANGED <<ws, dataChannel, attempts, applied, outbox, order>>
      BY <1>6 DEF SocketCloses, OtherMessage, AnswerMissing, ServerSends,
                  conn_webrtc_prepare_data_channel_cb, fields, pointers, sockets, media,
                  history
    <2>2. QED
      BY <2>1, SilentStep
  <1>7. CASE PromiseReplied
    BY <1>7, SilentStep DEF PromiseReplied, fields, pointers, sockets, history
  <1>8. CASE UNCHANGED vars
    BY <1>8, SilentStep DEF vars, fields, pointers, sockets, media, history
  <1>9. QED
    BY <1>1, <1>2, <1>3, <1>4, <1>5, <1>6, <1>7, <1>8, PromiseFinish, PromiseOffer,
       PromiseSend, PromiseChannel
       DEF Next, conn_on_ws_message_cb

(* connection.c implements SingleSession: each step is one of it or        *)
(* changes nothing it can see.  While the order of the long handlers is    *)
(* lost it is unruly, and the disconnect that restores the order leaves it *)
(* with neither session nor attempt.                                       *)
THEOREM ConnectionImplementsSingleSession == Spec => OneSessionAtATime
  <1>1. IInv /\ IInv' /\ [Next]_vars => [Promise!Next]_PromiseState
    BY OrderlyStep, UnrulyStep, RecoveryStep
  <1>2. QED
    BY InitPromise, Invariance, <1>1, PTL
       DEF Spec, OneSessionAtATime, Promise!Spec, Promise!vars, PromiseState, ChannelUp

=============================================================================
