------------------------- MODULE ServerPipelineProofs -------------------------
(***************************************************************************)
(* ServerPipeline for every set of client ids and every bound.             *)
(*                                                                         *)
(* The heart of the argument is Registry: an id is announced at most once, *)
(* because the object behind it is never freed, so the bin named after it  *)
(* is created at most once and passes through its states once.             *)
(***************************************************************************)
EXTENDS ServerPipeline, SequenceTheorems, TLAPS

(* What the signalling server and the pipeline agree on about an id.       *)
Registry ==
    \A a \in Addr :
        /\ a \in websocket_connections <=> announced[a] = "connected"
        /\ sock[a] = "open" => announced[a] = "connected"
        /\ a \notin held => announced[a] = "no"
        /\ bin[a] = "none" <=> announced[a] = "no"

(* Clients are accepted only when their handler is connected.              *)
HandlerFirst == "loop" \in play => "handler" \in play

(* The audio thread is inside the probe of a bin exactly while it flushes. *)
AudioProbeIn == \A a \in Addr : bin[a] = "flushing" <=> audioIn = a

(* An offer that was created has been sent, unless the socket was lost.    *)
OfferSent ==
    \A a \in Addr : offer[a] = "created" /\ sock[a] = "open" => outbox[a] # <<>>

IInv ==
    /\ TypeOK
    /\ Registry
    /\ HandlerFirst
    /\ AudioProbeIn
    /\ OfferSent
    /\ NamesNeverCollide
    /\ BinsFollowClients
    /\ BinRefsBalanced
    /\ RemovalKeepsAudio
    /\ SlotOwnsChannel
    /\ LoopWaitsOnRunningBin
    /\ OfferFirst

----------------------------------------------------------------------------
LEMMA InitIInv == Init => IInv
  <1> SUFFICES ASSUME Init PROVE IInv
    OBVIOUS
  <1>1. <<>> \in Seq(OutMsg)
    BY EmptySeq
  <1>2. TypeOK
    <2>1. 0 \in 0 .. MaxAccepts /\ 0 \in 0 .. MaxInbound /\ 0 \in 0 .. MaxCandidates
      BY SignalingAssumption, PipelineAssumption
    <2>2. SignalingTypeOK
      BY <1>1, <2>1 DEF Init, SignalingInit, SignalingTypeOK
    <2>3. /\ bin \in [Addr -> BinState]
          /\ binRefs \in [Addr -> Nat]
          /\ offer \in [Addr -> {"none", "pending", "created"}]
          /\ nGathered \in 0 .. MaxCandidates
          /\ channel \in [Addr -> {"none", "created", "heard", "closed"}]
      BY <2>1 DEF Init, BinState
    <2>4. QED
      BY <2>2, <2>3 DEF Init, TypeOK
  <1>3. Registry /\ HandlerFirst /\ AudioProbeIn /\ OfferSent
    BY SignalingAssumption
       DEF Init, SignalingInit, Registry, HandlerFirst, AudioProbeIn, OfferSent
  <1>4. /\ NamesNeverCollide /\ BinsFollowClients /\ BinRefsBalanced
        /\ RemovalKeepsAudio /\ SlotOwnsChannel /\ LoopWaitsOnRunningBin
        /\ OfferFirst
    BY SignalingAssumption
       DEF Init, SignalingInit, NamesNeverCollide, BinsFollowClients, BinRefsBalanced,
           InPipeline, Served, Connecting, Leaving, FlushesAudio, RemovalKeepsAudio,
           SlotOwnsChannel, LoopWaitsOnRunningBin, OfferFirst
  <1>5. QED
    BY <1>2, <1>3, <1>4 DEF IInv

----------------------------------------------------------------------------
LEMMA PlayStep ==
    ASSUME IInv, server_pipeline_play
    PROVE  IInv'
  <1>1. HandlerFirst' /\ play' \subseteq {"handler", "loop"}
    <2>1. PlayOrder[1] = "handler" /\ PlayOrder[2] = "loop"
      BY DEF PlayOrder
    <2>2. CASE play = {}
      BY <2>1, <2>2 DEF HandlerFirst, server_pipeline_play
    <2>3. CASE play # {}
      <3>1. play = {"handler"}
        BY <2>3 DEF IInv, TypeOK, HandlerFirst, server_pipeline_play
      <3>2. play' = {"handler", "loop"}
        BY <2>1, <3>1 DEF server_pipeline_play
      <3>3. QED
        BY <3>2 DEF HandlerFirst
    <2>4. QED
      BY <2>2, <2>3
  <1>2. QED
    BY <1>1
       DEF server_pipeline_play, signalingVars, IInv, TypeOK, SignalingTypeOK, Registry,
           AudioProbeIn, OfferSent, NamesNeverCollide, BinsFollowClients,
           BinRefsBalanced, InPipeline, Served, Connecting, Leaving, FlushesAudio,
           RemovalKeepsAudio, SlotOwnsChannel, LoopWaitsOnRunningBin, OfferFirst

(* A new connection is at an address no announced client ever had.         *)
LEMMA ConnectStep ==
    ASSUME IInv, NEW a \in Addr, ClientConnects(a)
    PROVE  IInv'
  <1>1. /\ announced[a] = "no" /\ bin[a] = "none" /\ ~InPipeline(a)
        /\ "handler" \in play /\ waitFor = NULL
    BY DEF IInv, Registry, HandlerFirst, ClientConnects, LoopReady, websocket_cb,
           InPipeline, Served, Connecting, Leaving
  <1>2. /\ bin' = [bin EXCEPT ![a] = "ready"]
        /\ binRefs' = [binRefs EXCEPT ![a] = 1]
        /\ offer' = [offer EXCEPT ![a] = "none"]
        /\ channel' = [channel EXCEPT ![a] = "none"]
        /\ abort' = abort
        /\ UNCHANGED <<play, nGathered, appRefs, data_channel, waitFor, audioIn, flows>>
    BY <1>1 DEF ClientConnects, webrtc_client_connected_cb
  <1>3. /\ nAccepts' = nAccepts + 1 /\ nAccepts < MaxAccepts
        /\ held' = held \cup {a}
        /\ websocket_connections' = websocket_connections \cup {a}
        /\ sock' = [sock EXCEPT ![a] = "open"]
        /\ inbox' = [inbox EXCEPT ![a] = 0]
        /\ nReceived' = [nReceived EXCEPT ![a] = 0]
        /\ outbox' = [outbox EXCEPT ![a] = <<>>]
        /\ announced' = [announced EXCEPT ![a] = "connected"]
    BY DEF ClientConnects, websocket_cb, ListWith
  <1>4. SignalingTypeOK'
    <2>1. <<>> \in Seq(OutMsg)
      BY EmptySeq
    <2>2. nAccepts' \in 0 .. MaxAccepts /\ 0 \in 0 .. MaxInbound
      BY <1>3, SignalingAssumption DEF IInv, TypeOK, SignalingTypeOK
    <2>3. QED
      BY <1>3, <2>1, <2>2 DEF IInv, TypeOK, SignalingTypeOK
  <1>5. TypeOK'
    <2>1. bin' \in [Addr -> BinState]
      BY <1>2 DEF IInv, TypeOK, BinState, Connecting
    <2>2. QED
      BY <1>2, <1>4, <2>1 DEF IInv, TypeOK
  <1>6. Registry' /\ BinsFollowClients'
    BY <1>1, <1>2, <1>3
       DEF IInv, TypeOK, SignalingTypeOK, Registry, BinsFollowClients, Served, Connecting
  <1>7. BinRefsBalanced'
    BY <1>1, <1>2, SignalingAssumption
       DEF IInv, TypeOK, BinRefsBalanced, InPipeline, Served, Connecting, Leaving
  <1>8. AudioProbeIn' /\ LoopWaitsOnRunningBin'
    BY <1>1, <1>2 DEF IInv, TypeOK, AudioProbeIn, LoopWaitsOnRunningBin
  <1>9. OfferSent' /\ OfferFirst'
    BY <1>2, <1>3
       DEF IInv, TypeOK, SignalingTypeOK, OfferSent, OfferFirst
  <1>10. HandlerFirst' /\ NamesNeverCollide' /\ SlotOwnsChannel'
    BY <1>2 DEF IInv, HandlerFirst, NamesNeverCollide, SlotOwnsChannel
  <1>11. RemovalKeepsAudio'
    BY <1>5, <1>8, SignalingAssumption
       DEF TypeOK, AudioProbeIn, RemovalKeepsAudio, FlushesAudio, Connecting
  <1>12. QED
    BY <1>5, <1>6, <1>7, <1>8, <1>9, <1>10, <1>11 DEF IInv

(* The rest of the handler: one bin goes from one served state to another. *)
LEMMA AdvanceStep ==
    ASSUME IInv, NEW a \in Addr, NEW from \in Connecting,
           NEW to \in Connecting \cup {"playing"}, Advance(a, from, to),
           offer' = offer \/ offer' = [offer EXCEPT ![a] = "pending"],
           channel' \in [Addr -> {"none", "created", "heard", "closed"}],
           appRefs' \subseteq Addr, data_channel' \in Addr \cup {NULL},
           SlotOwnsChannel', abort' \in {"channel", abort}
    PROVE  IInv'
  <1>1. /\ bin[a] = from /\ bin' = [bin EXCEPT ![a] = to]
        /\ UNCHANGED <<signalingVars, play, binRefs, nGathered, waitFor, audioIn, flows>>
    BY DEF Advance
  <1>2. bin' \in [Addr -> BinState]
    BY <1>1 DEF IInv, TypeOK, BinState
  <1>3. TypeOK'
    BY <1>1, <1>2 DEF signalingVars, IInv, TypeOK, SignalingTypeOK
  <1>4. Registry' /\ BinsFollowClients'
    BY <1>1
       DEF signalingVars, IInv, TypeOK, Registry, BinsFollowClients, Served, Connecting
  <1>5. BinRefsBalanced'
    BY <1>1
       DEF IInv, TypeOK, BinRefsBalanced, InPipeline, Served, Connecting, Leaving
  <1>6. AudioProbeIn' /\ LoopWaitsOnRunningBin'
    BY <1>1, SignalingAssumption
       DEF IInv, TypeOK, AudioProbeIn, LoopWaitsOnRunningBin, Connecting
  <1>7. RemovalKeepsAudio'
    BY <1>3, <1>6, SignalingAssumption
       DEF TypeOK, AudioProbeIn, RemovalKeepsAudio, FlushesAudio, Connecting
  <1>8. HandlerFirst' /\ OfferSent' /\ NamesNeverCollide' /\ OfferFirst'
    BY <1>1
       DEF signalingVars, IInv, TypeOK, HandlerFirst, OfferSent, NamesNeverCollide,
           OfferFirst
  <1>9. QED
    BY <1>3, <1>4, <1>5, <1>6, <1>7, <1>8 DEF IInv

LEMMA ConnectGoesOnStep ==
    ASSUME IInv, NEW a \in Addr, ConnectGoesOn(a)
    PROVE  IInv'
  <1>1. /\ channel \in [Addr -> {"none", "created", "heard", "closed"}]
        /\ appRefs \subseteq Addr /\ data_channel \in Addr \cup {NULL}
        /\ SlotOwnsChannel
    BY DEF IInv, TypeOK
  <1>2. CASE CreateDataChannel(a)
    <2>1. Advance(a, "ready", "channel") /\ abort' = abort /\ offer' = offer
      BY <1>2 DEF CreateDataChannel
    <2>2. /\ channel' \in [Addr -> {"none", "created", "heard", "closed"}]
          /\ appRefs' \subseteq Addr /\ data_channel' \in Addr \cup {NULL}
          /\ SlotOwnsChannel'
      BY <1>1, <1>2 DEF CreateDataChannel, SlotOwnsChannel
    <2>3. QED
      BY <2>1, <2>2, AdvanceStep DEF Connecting
  <1>3. CASE AssertDataChannel(a)
    <2>1. /\ Advance(a, "channel", "asserted") /\ abort' \in {"channel", abort}
          /\ UNCHANGED <<offer, channel, appRefs, data_channel>>
      BY <1>3 DEF AssertDataChannel
    <2>2. SlotOwnsChannel'
      BY <1>1, <2>1 DEF SlotOwnsChannel
    <2>3. QED
      BY <1>1, <2>1, <2>2, AdvanceStep DEF Connecting
  <1>4. CASE LinkVideo(a)
    <2>1. /\ Advance(a, "asserted", "video") /\ abort' = abort
          /\ UNCHANGED <<offer, appRefs, data_channel>>
      BY <1>4 DEF LinkVideo
    <2>2. channel' \in [Addr -> {"none", "created", "heard", "closed"}]
      BY <1>1, <1>4 DEF LinkVideo
    <2>3. SlotOwnsChannel'
      BY <1>1, <2>1 DEF SlotOwnsChannel
    <2>4. QED
      BY <1>1, <2>1, <2>2, <2>3, AdvanceStep DEF Connecting
  <1>5. CASE LinkAudio(a) \/ AskForOffer(a) \/ PlayBin(a)
    <2>1. /\ UNCHANGED <<channel, appRefs, data_channel, abort>>
          /\ offer' = offer \/ offer' = [offer EXCEPT ![a] = "pending"]
      BY <1>5 DEF LinkAudio, AskForOffer, PlayBin
    <2>2. SlotOwnsChannel'
      BY <1>1, <2>1 DEF SlotOwnsChannel
    <2>3. PICK from \in Connecting, to \in Connecting \cup {"playing"} :
              Advance(a, from, to)
      BY <1>5 DEF LinkAudio, AskForOffer, PlayBin, Connecting
    <2>4. QED
      BY <1>1, <2>1, <2>2, <2>3, AdvanceStep
  <1>6. QED
    BY <1>2, <1>3, <1>4, <1>5 DEF ConnectGoesOn

LEMMA DisconnectStep ==
    ASSUME IInv, NEW a \in Addr, ClientDisconnects(a)
    PROVE  IInv'
  <1>1. /\ sock[a] = "closed" /\ announced[a] = "connected" /\ waitFor = NULL
        /\ bin[a] \notin Connecting
        /\ websocket_connections' = websocket_connections \ {a}
        /\ announced' = [announced EXCEPT ![a] = "disconnected"]
        /\ bin' = [bin EXCEPT ![a] = "videoProbe"]
        /\ binRefs' = [binRefs EXCEPT ![a] = @ + 1]
        /\ UNCHANGED <<sock, held, nAccepts, inbox, nReceived, outbox, play, offer,
                       nGathered, channel, appRefs, data_channel, waitFor, audioIn,
                       flows, abort>>
    BY DEF ClientDisconnects, LoopReady, NobodyConnects, closed_cb, HeldAfterClose, RefsOfProbe,
           webrtc_client_disconnected_cb
  <1>2. bin[a] = "playing"
    BY <1>1 DEF IInv, Registry, BinsFollowClients, Served
  <1>3. TypeOK'
    <2>1. binRefs' \in [Addr -> Nat] /\ bin' \in [Addr -> BinState]
      BY <1>1 DEF IInv, TypeOK, BinState, Leaving
    <2>2. SignalingTypeOK'
      BY <1>1 DEF IInv, TypeOK, SignalingTypeOK
    <2>3. QED
      BY <1>1, <2>1, <2>2 DEF IInv, TypeOK
  <1>4. Registry' /\ BinsFollowClients'
    BY <1>1, <1>2
       DEF IInv, TypeOK, SignalingTypeOK, Registry, BinsFollowClients, Served, Connecting
  <1>5. BinRefsBalanced'
    BY <1>1, <1>2, SignalingAssumption
       DEF IInv, TypeOK, BinRefsBalanced, InPipeline, Served, Connecting, Leaving
  <1>6. AudioProbeIn' /\ RemovalKeepsAudio' /\ LoopWaitsOnRunningBin'
    BY <1>1, <1>2
       DEF IInv, TypeOK, AudioProbeIn, RemovalKeepsAudio, FlushesAudio, Connecting,
           LoopWaitsOnRunningBin
  <1>7. /\ HandlerFirst' /\ NamesNeverCollide' /\ SlotOwnsChannel' /\ OfferSent'
        /\ OfferFirst'
    BY <1>1 DEF IInv, HandlerFirst, NamesNeverCollide, SlotOwnsChannel, OfferSent,
                OfferFirst
  <1>8. QED
    BY <1>3, <1>4, <1>5, <1>6, <1>7 DEF IInv

----------------------------------------------------------------------------
(* Steps on texts and promises.                                            *)

LEMMA TextTaken ==
    ASSUME IInv, NEW a \in Addr, message_cb(a)
    PROVE  /\ SignalingTypeOK'
           /\ announced[a] = "connected"
           /\ UNCHANGED <<websocket_connections, sock, held, outbox, announced>>
  <1>1. inbox[a] \in Nat /\ inbox[a] > 0
    BY DEF IInv, TypeOK, SignalingTypeOK, message_cb
  <1>2. inbox[a] - 1 \in Nat
    BY <1>1
  <1>3. QED
    BY <1>2 DEF IInv, TypeOK, SignalingTypeOK, message_cb

LEMMA AnswerStep ==
    ASSUME IInv, NEW a \in Addr, webrtc_sdp_answer_cb(a)
    PROVE  IInv'
  <1>1. /\ SignalingTypeOK' /\ announced[a] = "connected"
        /\ UNCHANGED <<websocket_connections, sock, held, outbox, announced>>
    BY TextTaken DEF webrtc_sdp_answer_cb
  <1>2. /\ waitFor = NULL /\ waitFor' = a /\ bin[a] \notin Connecting
        /\ binRefs' = [binRefs EXCEPT ![a] = @ + 1]
        /\ UNCHANGED <<play, bin, offer, nGathered, channel, appRefs, data_channel,
                       audioIn, flows, abort>>
    BY DEF webrtc_sdp_answer_cb, LoopReady, NobodyConnects
  <1>3. bin[a] = "playing"
    BY <1>1, <1>2 DEF IInv, Registry, BinsFollowClients, Served
  <1>4. TypeOK'
    BY <1>1, <1>2 DEF IInv, TypeOK
  <1>5. BinRefsBalanced'
    BY <1>2, <1>3, SignalingAssumption
       DEF IInv, TypeOK, BinRefsBalanced, InPipeline, Served, Connecting, Leaving
  <1>6. LoopWaitsOnRunningBin'
    BY <1>2, <1>3 DEF LoopWaitsOnRunningBin
  <1>7. QED
    BY <1>1, <1>2, <1>4, <1>5, <1>6
       DEF IInv, Registry, HandlerFirst, AudioProbeIn, OfferSent,
           NamesNeverCollide, BinsFollowClients, Served, Connecting, FlushesAudio,
           RemovalKeepsAudio,
           SlotOwnsChannel, OfferFirst

LEMMA PromiseStep ==
    ASSUME IInv, PromiseReplied
    PROVE  IInv'
  <1>1. /\ waitFor \in Addr /\ waitFor # NULL /\ waitFor' = NULL
        /\ binRefs' = [binRefs EXCEPT ![waitFor] = @ - 1]
        /\ UNCHANGED <<signalingVars, play, bin, offer, nGathered, channel, appRefs,
                       data_channel, audioIn, flows, abort>>
    BY DEF IInv, TypeOK, PromiseReplied
  <1>2. bin[waitFor] = "playing"
    BY <1>1 DEF IInv, LoopWaitsOnRunningBin
  <1>3. BinRefsBalanced'
    BY <1>1, <1>2, SignalingAssumption
       DEF IInv, TypeOK, BinRefsBalanced, InPipeline, Served, Connecting, Leaving
  <1>4. binRefs' \in [Addr -> Nat]
    <2>1. binRefs[waitFor] = 2
      BY <1>1, <1>2 DEF IInv, BinRefsBalanced, InPipeline, Served, Connecting, Leaving
    <2>2. QED
      BY <1>1, <2>1 DEF IInv, TypeOK
  <1>5. TypeOK'
    BY <1>1, <1>4 DEF IInv, TypeOK, SignalingTypeOK, signalingVars
  <1>6. QED
    BY <1>1, <1>3, <1>5
       DEF signalingVars, IInv, Registry, HandlerFirst, AudioProbeIn, OfferSent,
           NamesNeverCollide, BinsFollowClients, Served, Connecting, FlushesAudio,
           RemovalKeepsAudio,
           SlotOwnsChannel, LoopWaitsOnRunningBin, OfferFirst

LEMMA TextStep ==
    ASSUME IInv, NEW a \in Addr, webrtc_candidate_cb(a)
    PROVE  IInv'
  <1>1. /\ SignalingTypeOK'
        /\ UNCHANGED <<websocket_connections, sock, held, outbox, announced>>
        /\ UNCHANGED pipelineVars
    BY TextTaken DEF webrtc_candidate_cb
  <1>2. QED
    BY <1>1
       DEF pipelineVars, IInv, TypeOK, Registry, HandlerFirst, AudioProbeIn, OfferSent,
           NamesNeverCollide, BinsFollowClients, BinRefsBalanced, InPipeline, Served,
           Connecting, Leaving, FlushesAudio, RemovalKeepsAudio, SlotOwnsChannel,
           LoopWaitsOnRunningBin, OfferFirst

LEMMA ArrivalStep ==
    ASSUME IInv, NEW a \in Addr, Arrives(a)
    PROVE  IInv'
  <1>1. CASE SocketLost(a)
    BY <1>1
       DEF Arrives, SocketLost, pipelineVars, IInv, TypeOK, SignalingTypeOK, Registry,
           HandlerFirst, AudioProbeIn, OfferSent, NamesNeverCollide, BinsFollowClients,
           BinRefsBalanced, InPipeline, Served, Connecting, Leaving, FlushesAudio,
           RemovalKeepsAudio, SlotOwnsChannel, LoopWaitsOnRunningBin, OfferFirst
  <1>2. CASE ClientSends(a)
    <2>1. inbox[a] \in Nat /\ nReceived[a] \in 0 .. MaxInbound
      BY DEF IInv, TypeOK, SignalingTypeOK
    <2>2. nReceived[a] + 1 \in 0 .. MaxInbound
      BY <1>2, <2>1, SignalingAssumption DEF ClientSends
    <2>3. SignalingTypeOK'
      <3>1. inbox' \in [Addr -> Nat]
        <4>1. SignalingTypeOK
          BY DEF IInv, TypeOK
        <4>2. inbox \in [Addr -> Nat]
          BY <4>1 DEF SignalingTypeOK
        <4>3. inbox[a] + 1 \in Nat
          BY <2>1
        <4>4. inbox' = [inbox EXCEPT ![a] = inbox[a] + 1]
          BY <1>2 DEF ClientSends
        <4>5. QED
          BY <4>2, <4>3, <4>4
      <3>2. nReceived' \in [Addr -> 0 .. MaxInbound]
        BY <1>2, <2>2 DEF ClientSends, IInv, TypeOK, SignalingTypeOK
      <3>3. QED
        BY <1>2, <3>1, <3>2 DEF ClientSends, IInv, TypeOK, SignalingTypeOK
    <2>4. QED
      BY <1>2, <2>3
         DEF Arrives, ClientSends, pipelineVars, IInv, TypeOK, Registry,
             HandlerFirst, AudioProbeIn, OfferSent, NamesNeverCollide,
             BinsFollowClients, BinRefsBalanced, InPipeline, Served, Connecting,
             Leaving, FlushesAudio, RemovalKeepsAudio, SlotOwnsChannel,
             LoopWaitsOnRunningBin, OfferFirst
  <1>3. QED
    BY <1>1, <1>2 DEF Arrives

----------------------------------------------------------------------------
(* Steps on the thread of a webrtcbin.                                     *)

LEMMA SendType ==
    ASSUME IInv, NEW a \in Addr, NEW m \in OutMsg, signaling_server_send(a, m)
    PROVE  /\ SignalingTypeOK'
           /\ UNCHANGED <<websocket_connections, sock, held, announced>>
           /\ \A b \in Addr : b # a => outbox'[b] = outbox[b]
           /\ outbox[a] # <<>> => outbox'[a] # <<>>
           /\ sock[a] = "open" => outbox'[a] # <<>>
           /\ outbox'[a] # <<>> => Head(outbox'[a]) \in {m, "offer"}
           /\ outbox[a] # <<>> => Head(outbox'[a]) = Head(outbox[a])
  <1>1. outbox[a] \in Seq(OutMsg)
    BY DEF IInv, TypeOK, SignalingTypeOK
  <1>2. Append(outbox[a], m) \in Seq(OutMsg) /\ Append(outbox[a], m) # <<>>
    BY <1>1, AppendProperties
  <1>3. Head(Append(outbox[a], m)) = IF outbox[a] = <<>> THEN m ELSE Head(outbox[a])
    BY <1>1, HeadTailAppend
  <1>4. outbox' \in [Addr -> Seq(OutMsg)]
    BY <1>2 DEF IInv, TypeOK, SignalingTypeOK, signaling_server_send
  <1>5. sock[a] = "open" => CanSend(a)
    BY DEF IInv, Registry, CanSend
  <1>6. outbox'[a] = IF CanSend(a) THEN Append(outbox[a], m) ELSE outbox[a]
    BY DEF IInv, TypeOK, SignalingTypeOK, signaling_server_send
  <1>7. \A b \in Addr : b # a => outbox'[b] = outbox[b]
    BY DEF IInv, TypeOK, SignalingTypeOK, signaling_server_send
  <1>8. outbox[a] # <<>> => Head(outbox[a]) = "offer"
    BY DEF IInv, OfferFirst
  <1>9. /\ SignalingTypeOK'
        /\ UNCHANGED <<websocket_connections, sock, held, announced>>
    BY <1>4 DEF IInv, TypeOK, SignalingTypeOK, signaling_server_send
  <1>10. QED
    BY <1>2, <1>3, <1>5, <1>6, <1>7, <1>8, <1>9

LEMMA OfferStep ==
    ASSUME IInv, NEW a \in Addr, on_offer_created(a)
    PROVE  IInv'
  <1>1. /\ SignalingTypeOK'
        /\ UNCHANGED <<websocket_connections, sock, held, announced>>
        /\ \A b \in Addr : b # a => outbox'[b] = outbox[b]
        /\ sock[a] = "open" => outbox'[a] # <<>>
        /\ outbox'[a] # <<>> => Head(outbox'[a]) = "offer"
    BY SendType DEF on_offer_created, signaling_server_send_sdp_offer, OutMsg
  <1>2. /\ offer' = [offer EXCEPT ![a] = "created"]
        /\ UNCHANGED <<play, bin, binRefs, nGathered, channel, appRefs, data_channel,
                       waitFor, audioIn, flows, abort>>
    BY DEF on_offer_created, signaling_server_send_sdp_offer
  <1>3. TypeOK'
    BY <1>1, <1>2 DEF IInv, TypeOK
  <1>4. OfferSent' /\ OfferFirst'
    BY <1>1, <1>2 DEF IInv, TypeOK, OfferSent, OfferFirst
  <1>5. QED
    BY <1>1, <1>2, <1>3, <1>4
       DEF IInv, Registry, HandlerFirst, AudioProbeIn, NamesNeverCollide,
           BinsFollowClients, BinRefsBalanced, InPipeline, Served, Connecting, Leaving,
           FlushesAudio, RemovalKeepsAudio, SlotOwnsChannel, LoopWaitsOnRunningBin

(* A bin that gathers has sent its offer: a candidate never comes first.   *)
LEMMA CandidateStep ==
    ASSUME IInv, NEW a \in Addr, webrtc_on_ice_candidate_cb(a)
    PROVE  IInv'
  <1>1. /\ offer[a] = "created"
        /\ signaling_server_send(a, "candidate")
        /\ nGathered' = nGathered + 1 /\ nGathered < MaxCandidates
        /\ UNCHANGED <<play, bin, binRefs, offer, channel, appRefs, data_channel,
                       waitFor, audioIn, flows, abort>>
    BY DEF webrtc_on_ice_candidate_cb, signaling_server_send_candidate, Gathering
  <1>2. /\ SignalingTypeOK'
        /\ UNCHANGED <<websocket_connections, sock, held, announced>>
        /\ \A b \in Addr : b # a => outbox'[b] = outbox[b]
        /\ outbox[a] # <<>> => outbox'[a] # <<>> /\ Head(outbox'[a]) = Head(outbox[a])
        /\ sock[a] = "open" => outbox'[a] # <<>>
    BY <1>1, SendType DEF OutMsg
  <1>3. outbox[a] = <<>> => outbox'[a] = <<>>
    <2>1. sock[a] = "open" => outbox[a] # <<>>
      BY <1>1 DEF IInv, OfferSent
    <2>2. QED
      BY <1>1, <2>1
         DEF IInv, TypeOK, SignalingTypeOK, signaling_server_send, CanSend
  <1>4. nGathered' \in 0 .. MaxCandidates
    BY <1>1, PipelineAssumption DEF IInv, TypeOK
  <1>5. TypeOK'
    BY <1>1, <1>2, <1>4 DEF IInv, TypeOK
  <1>6. OfferSent' /\ OfferFirst'
    BY <1>1, <1>2, <1>3 DEF IInv, OfferSent, OfferFirst
  <1>7. QED
    BY <1>1, <1>2, <1>5, <1>6
       DEF IInv, Registry, HandlerFirst, AudioProbeIn, NamesNeverCollide,
           BinsFollowClients, BinRefsBalanced, InPipeline, Served, Connecting, Leaving,
           FlushesAudio, RemovalKeepsAudio, SlotOwnsChannel, LoopWaitsOnRunningBin

LEMMA ChannelStep ==
    ASSUME IInv, NEW a \in Addr, data_channel_close_cb(a)
    PROVE  IInv'
  <1>1. /\ channel' = [channel EXCEPT ![a] = "closed"]
        /\ appRefs' = appRefs \ {data_channel}
        /\ data_channel' = NULL
        /\ UNCHANGED <<signalingVars, play, bin, binRefs, offer, nGathered, waitFor,
                       audioIn, flows, abort>>
    BY DEF data_channel_close_cb, ClearSlot
  <1>2. TypeOK'
    BY <1>1 DEF signalingVars, IInv, TypeOK, SignalingTypeOK
  <1>3. QED
    BY <1>1, <1>2
       DEF signalingVars, IInv, Registry, HandlerFirst, AudioProbeIn, OfferSent,
           NamesNeverCollide, BinsFollowClients, BinRefsBalanced, InPipeline, Served,
           Connecting, Leaving, FlushesAudio, RemovalKeepsAudio, SlotOwnsChannel,
           LoopWaitsOnRunningBin, OfferFirst

----------------------------------------------------------------------------
(* Steps of the streaming threads: they touch bins only.                   *)

LEMMA RemovalStep ==
    ASSUME IInv, NEW a \in Addr, NEW st \in {"audioProbe", "flushing", "removed"},
           bin[a] \in Leaving,
           bin' = [bin EXCEPT ![a] = st], binRefs' \in [Addr -> Nat],
           audioIn' \in Addr \cup {NULL}, BinRefsBalanced', AudioProbeIn',
           UNCHANGED <<signalingVars, play, offer, nGathered, channel, appRefs,
                       data_channel, waitFor, flows, abort>>
    PROVE  IInv'
  <1>1. TypeOK'
    <2>1. bin' \in [Addr -> BinState]
      BY DEF IInv, TypeOK, BinState, Leaving
    <2>2. QED
      BY <2>1 DEF signalingVars, IInv, TypeOK, SignalingTypeOK
  <1>2. Registry' /\ BinsFollowClients'
    BY DEF signalingVars, IInv, TypeOK, Registry, BinsFollowClients, Served, Connecting,
           Leaving
  <1>3. LoopWaitsOnRunningBin'
    BY DEF IInv, TypeOK, LoopWaitsOnRunningBin, Leaving
  <1>4. /\ HandlerFirst' /\ OfferSent' /\ NamesNeverCollide' /\ SlotOwnsChannel'
        /\ OfferFirst'
    BY DEF signalingVars, IInv, HandlerFirst, OfferSent, NamesNeverCollide,
           SlotOwnsChannel, OfferFirst
  <1>5. RemovalKeepsAudio'
    BY <1>1, SignalingAssumption
       DEF TypeOK, AudioProbeIn, RemovalKeepsAudio, FlushesAudio, Connecting
  <1>6. QED
    BY <1>1, <1>2, <1>3, <1>4, <1>5 DEF IInv

LEMMA VideoProbeStep ==
    ASSUME IInv, NEW a \in Addr, remove_webrtcbin_probe_cb_video(a)
    PROVE  IInv'
  <1>1. /\ bin[a] = "videoProbe" /\ bin' = [bin EXCEPT ![a] = "audioProbe"]
        /\ UNCHANGED <<signalingVars, play, binRefs, offer, nGathered, channel,
                       appRefs, data_channel, waitFor, audioIn, flows, abort>>
    BY DEF remove_webrtcbin_probe_cb_video, AudioProbeAdded
  <1>2. BinRefsBalanced' /\ AudioProbeIn'
    BY <1>1 DEF IInv, TypeOK, BinRefsBalanced, InPipeline, Served, Connecting, Leaving,
                AudioProbeIn
  <1>3. binRefs' \in [Addr -> Nat] /\ audioIn' \in Addr \cup {NULL}
    BY <1>1 DEF IInv, TypeOK
  <1>4. QED
    BY <1>1, <1>2, <1>3, RemovalStep DEF Leaving

LEMMA SetNullStep ==
    ASSUME IInv, NEW a \in Addr, SetBinToNull(a)
    PROVE  IInv'
  <1>1. /\ bin[a] = "audioProbe" /\ bin' = [bin EXCEPT ![a] = "flushing"]
        /\ audioIn = NULL /\ audioIn' = a
        /\ UNCHANGED <<signalingVars, play, binRefs, offer, nGathered, channel,
                       appRefs, data_channel, waitFor, flows, abort>>
    BY DEF SetBinToNull
  <1>2. BinRefsBalanced'
    BY <1>1 DEF IInv, TypeOK, BinRefsBalanced, InPipeline, Served, Connecting, Leaving
  <1>3. AudioProbeIn'
    BY <1>1, SignalingAssumption DEF IInv, TypeOK, AudioProbeIn
  <1>4. binRefs' \in [Addr -> Nat] /\ audioIn' \in Addr \cup {NULL}
    BY <1>1 DEF IInv, TypeOK
  <1>5. QED
    BY <1>1, <1>2, <1>3, <1>4, RemovalStep DEF Leaving

LEMMA RemoveBinStep ==
    ASSUME IInv, NEW a \in Addr, RemoveBin(a)
    PROVE  IInv'
  <1>1. /\ audioIn = a /\ audioIn' = NULL
        /\ bin' = [bin EXCEPT ![a] = "removed"]
        /\ binRefs' = [binRefs EXCEPT ![a] = @ - 2]
        /\ UNCHANGED <<signalingVars, play, offer, nGathered, channel, appRefs,
                       data_channel, waitFor, flows, abort>>
    BY DEF RemoveBin
  <1>2. bin[a] = "flushing" /\ waitFor # a
    BY <1>1, SignalingAssumption DEF IInv, AudioProbeIn, LoopWaitsOnRunningBin
  <1>3. binRefs[a] = 2
    BY <1>2 DEF IInv, BinRefsBalanced, InPipeline, Served, Connecting, Leaving
  <1>4. binRefs' \in [Addr -> Nat] /\ audioIn' \in Addr \cup {NULL}
    BY <1>1, <1>3 DEF IInv, TypeOK
  <1>5. BinRefsBalanced'
    BY <1>1, <1>2, <1>3
       DEF IInv, TypeOK, BinRefsBalanced, InPipeline, Served, Connecting, Leaving
  <1>6. AudioProbeIn'
    BY <1>1, <1>2, SignalingAssumption DEF IInv, TypeOK, AudioProbeIn
  <1>7. QED
    BY <1>1, <1>2, <1>4, <1>5, <1>6, RemovalStep DEF Leaving

(* A stream that stops, or a process that ends, leaves the bins alone.     *)
LEMMA OutsideStep ==
    ASSUME IInv, flows' \subseteq Stream, abort' \in {"offer", abort},
           UNCHANGED <<signalingVars, play, bin, binRefs, offer, nGathered, channel,
                       appRefs, data_channel, waitFor, audioIn>>
    PROVE  IInv'
  <1>1. TypeOK'
    BY DEF signalingVars, IInv, TypeOK, SignalingTypeOK
  <1>2. QED
    BY <1>1
       DEF signalingVars, IInv, Registry, HandlerFirst, AudioProbeIn, OfferSent,
           NamesNeverCollide, BinsFollowClients, BinRefsBalanced, InPipeline, Served,
           Connecting, Leaving, FlushesAudio, RemovalKeepsAudio, SlotOwnsChannel,
           LoopWaitsOnRunningBin, OfferFirst

LEMMA StreamStops ==
    ASSUME IInv, NEW strm \in Stream, Stops(strm)
    PROVE  IInv'
  BY OutsideStep DEF Stops, IInv, TypeOK

LEMMA OfferMissingStep ==
    ASSUME IInv, NEW a \in Addr, OfferMissing(a)
    PROVE  IInv'
  BY OutsideStep DEF OfferMissing, IInv, TypeOK

LEMMA InductiveStep == IInv /\ [Next]_vars => IInv'
  <1> SUFFICES ASSUME IInv, [Next]_vars PROVE IInv'
    OBVIOUS
  <1>1. CASE UNCHANGED vars
    BY <1>1
       DEF vars, pipelineVars, signalingVars, IInv, TypeOK, SignalingTypeOK, Registry,
           HandlerFirst, AudioProbeIn, OfferSent, NamesNeverCollide, BinsFollowClients,
           BinRefsBalanced, InPipeline, Served, Connecting, Leaving, FlushesAudio,
           RemovalKeepsAudio, SlotOwnsChannel, LoopWaitsOnRunningBin, OfferFirst
  <1>2. QED
    BY <1>1, PlayStep, ConnectStep, ConnectGoesOnStep, DisconnectStep, AnswerStep,
       PromiseStep, TextStep, ArrivalStep, OfferStep, OfferMissingStep, CandidateStep,
       ChannelStep, VideoProbeStep, SetNullStep, RemoveBinStep, StreamStops
       DEF Next, VideoFlushed, AudioFlushed, SourceFallsSilent, Stream

----------------------------------------------------------------------------
(* The inductive invariant of the server holds in every behaviour.         *)
THEOREM Invariance == Spec => []IInv
  BY InitIInv, InductiveStep, PTL DEF Spec

(* Types of the server's state.                                            *)
THEOREM TypeCorrect == Spec => []TypeOK
  BY Invariance, PTL DEF IInv

(* However many clients come and go, no name of a webrtcbin collides.      *)
THEOREM NamesAreFree == Spec => []NamesNeverCollide
  BY Invariance, PTL DEF IInv

(* Every accepted client has a running bin, every other bin is on its way  *)
(* out.                                                                    *)
THEOREM BinPerClient == Spec => []BinsFollowClients
  BY Invariance, PTL DEF IInv

(* A webrtcbin is freed exactly when it is removed.                        *)
THEOREM BinRefs == Spec => []BinRefsBalanced
  BY Invariance, PTL DEF IInv

(* An audio buffer never finds a bin flushing that is being removed.       *)
THEOREM RemovalSparesAudio == Spec => []RemovalKeepsAudio
  BY Invariance, PTL DEF IInv

(* The reference behind mgd->data_channel is the slot's own.               *)
THEOREM SlotIsValid == Spec => []SlotOwnsChannel
  BY Invariance, PTL DEF IInv

(* The main loop never waits for the promise of a bin being removed.       *)
THEOREM LoopNotOrphaned == Spec => []LoopWaitsOnRunningBin
  BY Invariance, PTL DEF IInv

(* No ICE candidate overtakes the offer.                                   *)
THEOREM OfferBeforeAll == Spec => []OfferFirst
  BY Invariance, PTL DEF IInv

(* A client id that was announced as disconnected is never handed to a new *)
(* client: the object behind it is still held, so no connection can be     *)
(* made at its address.                                                    *)
LEMMA AnnouncedStep ==
    IInv /\ [Next]_vars =>
        [\A a \in Addr : announced[a] = "disconnected"
                             => announced'[a] = "disconnected"]_vars
  <1> SUFFICES ASSUME IInv, Next, NEW b \in Addr, announced[b] = "disconnected"
               PROVE  announced'[b] = "disconnected"
    BY DEF vars
  <1>1. b \in held
    BY DEF IInv, Registry
  <1>2. ASSUME NEW a \in Addr, ClientConnects(a) PROVE announced'[b] = "disconnected"
    BY <1>1, <1>2 DEF ClientConnects, websocket_cb, IInv, TypeOK, SignalingTypeOK
  <1>3. ASSUME NEW a \in Addr, ClientDisconnects(a)
        PROVE  announced'[b] = "disconnected"
    BY <1>3 DEF ClientDisconnects, closed_cb, IInv, TypeOK, SignalingTypeOK
  <1>4. ASSUME NEW a \in Addr,
               \/ webrtc_sdp_answer_cb(a) \/ webrtc_candidate_cb(a)
               \/ Arrives(a)
        PROVE  announced' = announced
    BY <1>4 DEF webrtc_sdp_answer_cb, webrtc_candidate_cb, Arrives,
                message_cb, SocketLost, ClientSends
  <1>5. ASSUME NEW a \in Addr,
               \/ on_offer_created(a) \/ webrtc_on_ice_candidate_cb(a)
               \/ data_channel_close_cb(a) \/ remove_webrtcbin_probe_cb_video(a)
               \/ SetBinToNull(a) \/ RemoveBin(a) \/ VideoFlushed(a)
               \/ AudioFlushed(a) \/ OfferMissing(a) \/ ConnectGoesOn(a)
        PROVE  announced' = announced
    BY <1>5 DEF on_offer_created, signaling_server_send_sdp_offer,
                webrtc_on_ice_candidate_cb, signaling_server_send_candidate,
                signaling_server_send,
                data_channel_close_cb, remove_webrtcbin_probe_cb_video,
                SetBinToNull, RemoveBin, VideoFlushed, AudioFlushed, Stops, OfferMissing,
                ConnectGoesOn, CreateDataChannel, AssertDataChannel, LinkVideo,
                LinkAudio, AskForOffer, PlayBin, Advance, signalingVars
  <1>6. CASE server_pipeline_play \/ PromiseReplied \/ SourceFallsSilent
    BY <1>6 DEF server_pipeline_play, PromiseReplied, SourceFallsSilent, Stops,
                signalingVars
  <1>7. QED
    BY <1>2, <1>3, <1>4, <1>5, <1>6 DEF Next

THEOREM IdsForever == Spec => IdsNotReused
  BY Invariance, AnnouncedStep, PTL DEF Spec, IdsNotReused

----------------------------------------------------------------------------
(* The refinement of ClientService.                                        *)

NotAsked == Connecting \ {"asked"}

(* Nothing was said to a client whose offer is still to be created.        *)
SilentUntilOffer ==
    \A a \in Addr :
        /\ bin[a] \in {"none"} \cup NotAsked => offer[a] = "none"
        /\ offer[a] # "created" => outbox[a] = <<>>

Clients == [a \in Addr |-> Stage(a)]
ServiceState == <<Clients, outbox, waitFor>>

LEMMA InitService == Init => SilentUntilOffer /\ Service!Init
  <1> SUFFICES ASSUME Init PROVE SilentUntilOffer /\ Service!Init
    OBVIOUS
  <1>1. SilentUntilOffer
    BY DEF Init, SignalingInit, SilentUntilOffer, NotAsked, Connecting
  <1>2. [a \in Addr |-> Stage(a)] = [a \in Addr |-> "unknown"]
    BY DEF Init, Stage, Served, Connecting
  <1>3. QED
    BY <1>1, <1>2 DEF Init, SignalingInit, Service!Init

(* A step that moves one bin moves its client, and no other.               *)
LEMMA ClientMoves ==
    ASSUME TypeOK, NEW a \in Addr, NEW st \in BinState, bin' = [bin EXCEPT ![a] = st]
    PROVE  Clients' = [Clients EXCEPT ![a] = Stage(a)']
  <1>1. \A b \in Addr : b # a => Stage(b)' = Stage(b)
    BY DEF TypeOK, Stage, Served
  <1>2. QED
    BY <1>1, Zenon DEF Clients

(* One text sent to a listed client over an open socket, or none.          *)
LEMMA OneText ==
    ASSUME IInv, NEW a \in Addr, NEW m \in OutMsg, signaling_server_send(a, m)
    PROVE  \/ outbox' = outbox
           \/ /\ outbox' = [outbox EXCEPT ![a] = Append(@, m)]
              /\ Served(a) /\ sock[a] = "open"
  BY DEF signaling_server_send, CanSend, IInv, BinsFollowClients

LEMMA ServiceConnect ==
    ASSUME IInv, SilentUntilOffer, NEW a \in Addr, ClientConnects(a)
    PROVE  SilentUntilOffer' /\ Service!Join(a)
  <1>1. /\ announced[a] = "no" /\ bin[a] = "none" /\ ~InPipeline(a)
        /\ "handler" \in play /\ waitFor = NULL
    BY DEF IInv, Registry, HandlerFirst, ClientConnects, LoopReady, websocket_cb,
           InPipeline, Served, Connecting, Leaving
  <1>2. /\ bin' = [bin EXCEPT ![a] = "ready"]
        /\ offer' = [offer EXCEPT ![a] = "none"]
        /\ outbox' = [outbox EXCEPT ![a] = <<>>]
        /\ waitFor' = waitFor
    BY <1>1 DEF ClientConnects, webrtc_client_connected_cb, websocket_cb
  <1>3. outbox[a] = <<>>
    BY <1>1 DEF SilentUntilOffer
  <1>4. outbox' = outbox
    BY <1>2, <1>3 DEF IInv, TypeOK, SignalingTypeOK
  <1>5. SilentUntilOffer'
    BY <1>2, <1>3, <1>4 DEF IInv, TypeOK, SilentUntilOffer, NotAsked, Connecting
  <1>6. Stage(a) = "unknown" /\ Stage(a)' = "served"
    BY <1>1, <1>2 DEF IInv, TypeOK, Stage, Served, Connecting
  <1>7. Clients' = [Clients EXCEPT ![a] = "served"]
    BY <1>2, <1>6, ClientMoves DEF IInv, BinState, Connecting
  <1>8. QED
    BY <1>1, <1>2, <1>4, <1>5, <1>6, <1>7 DEF Service!Join, Service!Moves, Clients

LEMMA ServiceDisconnect ==
    ASSUME IInv, SilentUntilOffer, NEW a \in Addr, ClientDisconnects(a)
    PROVE  SilentUntilOffer' /\ Service!Leave(a)
  <1>1. /\ announced[a] = "connected" /\ waitFor = NULL /\ bin[a] \notin Connecting
        /\ bin' = [bin EXCEPT ![a] = "videoProbe"]
        /\ UNCHANGED <<outbox, offer, waitFor>>
    BY DEF ClientDisconnects, LoopReady, NobodyConnects, closed_cb,
           webrtc_client_disconnected_cb
  <1>2. bin[a] = "playing"
    BY <1>1 DEF IInv, Registry, BinsFollowClients, Served
  <1>3. Stage(a) = "served" /\ Stage(a)' = "leaving"
    BY <1>1, <1>2 DEF IInv, TypeOK, Stage, Served, Connecting
  <1>4. Clients' = [Clients EXCEPT ![a] = "leaving"]
    BY <1>1, <1>3, ClientMoves DEF IInv, BinState, Leaving
  <1>5. SilentUntilOffer'
    BY <1>1 DEF IInv, TypeOK, SilentUntilOffer, NotAsked, Connecting
  <1>6. QED
    BY <1>1, <1>3, <1>4, <1>5 DEF Service!Leave, Service!Moves, Clients

LEMMA ServiceOffer ==
    ASSUME IInv, SilentUntilOffer, NEW a \in Addr, on_offer_created(a)
    PROVE  /\ SilentUntilOffer'
           /\ Service!Tell(a, "offer") \/ UNCHANGED ServiceState
  <1>1. /\ offer[a] = "pending"
        /\ offer' = [offer EXCEPT ![a] = "created"]
        /\ signaling_server_send(a, "offer")
        /\ BinRuns(a)
        /\ UNCHANGED <<bin, waitFor>>
    BY DEF on_offer_created, signaling_server_send_sdp_offer
  <1>2. outbox[a] = <<>>
    BY <1>1 DEF SilentUntilOffer
  <1>3. \/ outbox' = outbox
        \/ /\ outbox' = [outbox EXCEPT ![a] = Append(@, "offer")]
           /\ Served(a)
    BY <1>1, OneText DEF OutMsg
  <1>4. SilentUntilOffer'
    BY <1>1, <1>3
       DEF IInv, TypeOK, SignalingTypeOK, SilentUntilOffer, NotAsked, Connecting, BinRuns
  <1>5. Clients' = Clients
    BY <1>1 DEF Clients, Stage, Served
  <1>6. Served(a) => Clients[a] = "served"
    BY DEF Clients, Stage, Served, Connecting
  <1>7. QED
    BY <1>1, <1>2, <1>3, <1>4, <1>5, <1>6 DEF Service!Tell, ServiceState, Clients

LEMMA ServiceCandidate ==
    ASSUME IInv, SilentUntilOffer, NEW a \in Addr, webrtc_on_ice_candidate_cb(a)
    PROVE  /\ SilentUntilOffer'
           /\ Service!Tell(a, "candidate") \/ UNCHANGED ServiceState
  <1>1. /\ offer[a] = "created"
        /\ signaling_server_send(a, "candidate")
        /\ UNCHANGED <<bin, offer, waitFor>>
    BY DEF webrtc_on_ice_candidate_cb, signaling_server_send_candidate, Gathering
  <1>2. \/ outbox' = outbox
        \/ /\ outbox' = [outbox EXCEPT ![a] = Append(@, "candidate")]
           /\ Served(a) /\ sock[a] = "open"
    BY <1>1, OneText DEF OutMsg
  <1>3. sock[a] = "open" => outbox[a] # <<>>
    BY <1>1 DEF IInv, OfferSent
  <1>4. SilentUntilOffer'
    BY <1>1, <1>2 DEF IInv, TypeOK, SignalingTypeOK, SilentUntilOffer, NotAsked, Connecting
  <1>5. Clients' = Clients
    BY <1>1 DEF Clients, Stage, Served
  <1>6. Served(a) => Clients[a] = "served"
    BY DEF Clients, Stage, Served, Connecting
  <1>7. QED
    BY <1>1, <1>2, <1>3, <1>4, <1>5, <1>6 DEF Service!Tell, ServiceState, Clients

LEMMA ServiceRemove ==
    ASSUME IInv, SilentUntilOffer, NEW a \in Addr, RemoveBin(a)
    PROVE  SilentUntilOffer' /\ Service!Remove(a)
  <1>1. /\ audioIn = a /\ bin' = [bin EXCEPT ![a] = "removed"]
        /\ UNCHANGED <<outbox, offer, waitFor>>
    BY DEF RemoveBin, signalingVars
  <1>2. bin[a] = "flushing" /\ waitFor # a
    BY <1>1, SignalingAssumption DEF IInv, AudioProbeIn, LoopWaitsOnRunningBin
  <1>3. Stage(a) = "leaving" /\ Stage(a)' = "gone"
    BY <1>1, <1>2 DEF IInv, TypeOK, Stage, Served, Connecting
  <1>4. Clients' = [Clients EXCEPT ![a] = "gone"]
    BY <1>1, <1>3, ClientMoves DEF IInv, BinState, Leaving
  <1>5. SilentUntilOffer'
    BY <1>1, <1>2 DEF IInv, TypeOK, SilentUntilOffer, NotAsked, Connecting
  <1>6. QED
    BY <1>1, <1>2, <1>3, <1>4, <1>5 DEF Service!Remove, Service!Moves, Clients

(* Between the close and the removal a bin changes, its client does not.   *)
LEMMA ServiceLeaving ==
    ASSUME IInv, SilentUntilOffer, NEW a \in Addr,
           NEW st \in {"audioProbe", "flushing"},
           bin[a] \in {"videoProbe", "audioProbe"},
           bin' = [bin EXCEPT ![a] = st],
           UNCHANGED <<outbox, offer, waitFor>>
    PROVE  SilentUntilOffer' /\ UNCHANGED ServiceState
  <1>1. Stage(a)' = Stage(a)
    BY DEF IInv, TypeOK, Stage, Served, Connecting
  <1>2. Clients' = [Clients EXCEPT ![a] = Stage(a)]
    BY <1>1, ClientMoves DEF IInv, BinState, Leaving
  <1>3. Clients' = Clients
    BY <1>2 DEF Clients
  <1>4. QED
    BY <1>3 DEF IInv, TypeOK, SilentUntilOffer, NotAsked, Connecting, ServiceState

(* The handler goes on with a client that is served already.               *)
LEMMA ServiceAdvances ==
    ASSUME IInv, SilentUntilOffer, NEW a \in Addr, ConnectGoesOn(a)
    PROVE  SilentUntilOffer' /\ UNCHANGED ServiceState
  <1>1. PICK from \in Connecting, to \in Connecting \cup {"playing"} :
            /\ Advance(a, from, to)
            /\ from = "asked" => to = "playing"
            /\ \/ offer' = offer
               \/ from = "audio" /\ to = "asked" /\ offer' = [offer EXCEPT ![a] = "pending"]
    BY DEF ConnectGoesOn, CreateDataChannel, AssertDataChannel, LinkVideo, LinkAudio,
           AskForOffer, PlayBin, Connecting
  <1>2. /\ bin[a] = from /\ bin' = [bin EXCEPT ![a] = to]
        /\ UNCHANGED <<outbox, waitFor>>
    BY <1>1 DEF Advance, signalingVars
  <1>3. Stage(a)' = Stage(a)
    BY <1>2 DEF IInv, TypeOK, Stage, Served, Connecting
  <1>4. Clients' = [Clients EXCEPT ![a] = Stage(a)]
    BY <1>2, <1>3, ClientMoves DEF IInv, BinState
  <1>5. Clients' = Clients
    BY <1>4 DEF Clients
  <1>7. SilentUntilOffer'
    BY <1>1, <1>2 DEF IInv, TypeOK, SilentUntilOffer, NotAsked, Connecting
  <1>8. QED
    BY <1>2, <1>5, <1>7 DEF ServiceState

LEMMA ServiceAnswer ==
    ASSUME IInv, SilentUntilOffer, NEW a \in Addr, webrtc_sdp_answer_cb(a)
    PROVE  SilentUntilOffer' /\ Service!Answer(a)
  <1>1. /\ waitFor = NULL /\ waitFor' = a /\ announced[a] = "connected"
        /\ bin[a] \notin Connecting
        /\ UNCHANGED <<outbox, bin, offer>>
    BY DEF webrtc_sdp_answer_cb, LoopReady, NobodyConnects, message_cb
  <1>2. bin[a] = "playing"
    BY <1>1 DEF IInv, Registry, BinsFollowClients, Served
  <1>3. Clients' = Clients /\ Clients[a] = "served"
    BY <1>1, <1>2 DEF Clients, Stage, Served
  <1>4. QED
    BY <1>1, <1>3 DEF SilentUntilOffer, Service!Answer, Clients

LEMMA ServiceApplied ==
    ASSUME IInv, SilentUntilOffer, PromiseReplied
    PROVE  SilentUntilOffer' /\ Service!Applied
  <1>1. /\ waitFor # NULL /\ waitFor \in Addr /\ waitFor' = NULL
        /\ UNCHANGED <<outbox, bin, offer>>
    BY DEF IInv, TypeOK, PromiseReplied, signalingVars
  <1>2. bin[waitFor] = "playing"
    BY <1>1 DEF IInv, LoopWaitsOnRunningBin
  <1>3. Clients' = Clients /\ Clients[waitFor] = "served"
    BY <1>1, <1>2 DEF Clients, Stage, Served
  <1>4. QED
    BY <1>1, <1>3 DEF SilentUntilOffer, Service!Applied, Clients

LEMMA ServiceOther ==
    ASSUME SilentUntilOffer, UNCHANGED <<outbox, bin, offer, waitFor>>
    PROVE  SilentUntilOffer' /\ UNCHANGED ServiceState
  BY DEF SilentUntilOffer, ServiceState, Clients, Stage

LEMMA ServiceStep ==
    ASSUME IInv, SilentUntilOffer, [Next]_vars
    PROVE  SilentUntilOffer' /\ [Service!Next]_ServiceState
  <1>1. CASE server_pipeline_play \/ SourceFallsSilent
    BY <1>1, ServiceOther DEF server_pipeline_play, SourceFallsSilent, Stops, signalingVars
  <1>2. CASE PromiseReplied
    BY <1>2, ServiceApplied DEF Service!Next
  <1>3. ASSUME NEW a \in Addr, ClientConnects(a)
        PROVE  SilentUntilOffer' /\ [Service!Next]_ServiceState
    BY <1>3, ServiceConnect DEF Service!Next
  <1>4. ASSUME NEW a \in Addr, ClientDisconnects(a)
        PROVE  SilentUntilOffer' /\ [Service!Next]_ServiceState
    BY <1>4, ServiceDisconnect DEF Service!Next
  <1>5. ASSUME NEW a \in Addr, webrtc_sdp_answer_cb(a)
        PROVE  SilentUntilOffer' /\ [Service!Next]_ServiceState
    BY <1>5, ServiceAnswer DEF Service!Next
  <1>6. ASSUME NEW a \in Addr, on_offer_created(a)
        PROVE  SilentUntilOffer' /\ [Service!Next]_ServiceState
    BY <1>6, ServiceOffer DEF Service!Next
  <1>7. ASSUME NEW a \in Addr, webrtc_on_ice_candidate_cb(a)
        PROVE  SilentUntilOffer' /\ [Service!Next]_ServiceState
    BY <1>7, ServiceCandidate DEF Service!Next
  <1>8. ASSUME NEW a \in Addr, RemoveBin(a)
        PROVE  SilentUntilOffer' /\ [Service!Next]_ServiceState
    BY <1>8, ServiceRemove DEF Service!Next
  <1>9. ASSUME NEW a \in Addr, remove_webrtcbin_probe_cb_video(a) \/ SetBinToNull(a)
        PROVE  SilentUntilOffer' /\ UNCHANGED ServiceState
    <2>1. UNCHANGED <<outbox, offer, waitFor>>
      BY <1>9 DEF remove_webrtcbin_probe_cb_video, SetBinToNull, signalingVars
    <2>2. PICK st \in {"audioProbe", "flushing"} :
            /\ bin[a] \in {"videoProbe", "audioProbe"}
            /\ bin' = [bin EXCEPT ![a] = st]
      BY <1>9 DEF remove_webrtcbin_probe_cb_video, AudioProbeAdded, SetBinToNull
    <2>3. QED
      BY <2>1, <2>2, ServiceLeaving
  <1>10. ASSUME NEW a \in Addr,
                \/ Arrives(a) \/ webrtc_candidate_cb(a)
                \/ data_channel_close_cb(a) \/ VideoFlushed(a) \/ AudioFlushed(a)
                \/ OfferMissing(a)
         PROVE  SilentUntilOffer' /\ UNCHANGED ServiceState
    <2>1. UNCHANGED <<outbox, bin, offer, waitFor>>
      BY <1>10 DEF Arrives, SocketLost, ClientSends, webrtc_candidate_cb,
                   message_cb, data_channel_close_cb, VideoFlushed, AudioFlushed, Stops,
                   OfferMissing, signalingVars,
                   pipelineVars
    <2>2. QED
      BY <2>1, ServiceOther
  <1>11. ASSUME NEW a \in Addr, ConnectGoesOn(a)
         PROVE  SilentUntilOffer' /\ UNCHANGED ServiceState
    BY <1>11, ServiceAdvances
  <1>12. CASE UNCHANGED vars
    BY <1>12, ServiceOther DEF vars, signalingVars, pipelineVars
  <1>13. QED
    BY <1>1, <1>2, <1>3, <1>4, <1>5, <1>6, <1>7, <1>8, <1>9, <1>10, <1>11, <1>12
       DEF Next

(* The server implements ClientService: ids stand for one client each,     *)
(* which comes, is offered one session, leaves and is removed once, for    *)
(* every number of clients and every interleaving of loop and streams.     *)
THEOREM ServerImplementsClientService == Spec => ServesEachClientOnce
  <1>1. IInv /\ SilentUntilOffer /\ [Next]_vars
            => SilentUntilOffer' /\ [Service!Next]_ServiceState
    BY ServiceStep
  <1>2. QED
    BY InitService, Invariance, <1>1, PTL
       DEF Spec, ServesEachClientOnce, Service!Spec, Service!vars, ServiceState, Clients
=============================================================================
