---------------------------- MODULE ServerPipeline ----------------------------
(***************************************************************************)
(* The streaming server, src/src/server/server_pipeline.c, over the        *)
(* signalling server.  One pipeline produces video and audio; every client *)
(* gets a webrtcbin linked to a video and an audio tee.                    *)
(*                                                                         *)
(* Threads: the main loop (accepting, messages, close), the thread of each *)
(* webrtcbin (offer, ICE, data channel), and the two streaming threads.    *)
(* The main loop puts a webrtcbin in, statement by statement, while both   *)
(* streams flow.  A webrtcbin is taken out by probes that run on the       *)
(* streaming threads: the next video buffer installs an audio probe, the   *)
(* next audio buffer sets the bin to NULL and removes it.  A buffer pushed *)
(* to a bin that is linked and flushes stops its stream for everybody.     *)
(***************************************************************************)
EXTENDS SignalingServer

CONSTANT MaxCandidates   \* bound: ICE candidates the webrtcbins gather

ASSUME PipelineAssumption == MaxCandidates \in Nat

VARIABLES
    play,           \* steps of server_pipeline_play done
    bin,            \* the webrtcbin named after an address
    binRefs,        \* references to that webrtcbin
    offer,          \* its create-offer promise
    nGathered,      \* ICE candidates gathered so far
    channel,        \* its data channel
    appRefs,        \* channels of which create-data-channel's ref is kept
    data_channel,   \* mgd->data_channel, one slot for all clients
    waitFor,        \* webrtcbin whose promise the main loop waits for
    audioIn,        \* webrtcbin whose audio probe the audio thread is in
    flows,          \* streams whose buffers still come
    abort           \* what ended the process, or "none"

pipelineVars == <<play, bin, binRefs, offer, nGathered, channel, appRefs,
                  data_channel, waitFor, audioIn, flows, abort>>
vars == <<signalingVars, pipelineVars>>

Stream == {"video", "audio"}

(* How far webrtc_client_connected_cb is with a bin: in the pipeline and   *)
(* READY, its data channel made, that asserted, linked to the video tee,   *)
(* to the audio tee too, the offer asked for.                              *)
Connecting == {"ready", "channel", "asserted", "video", "audio", "asked"}
Leaving == {"videoProbe", "audioProbe", "flushing"}
BinState == {"none", "playing", "removed"} \cup Connecting \cup Leaving

Served(a) == bin[a] \in Connecting \cup {"playing"}
InPipeline(a) == Served(a) \/ bin[a] \in Leaving
BinRuns(a) == bin[a] \in {"asked", "playing", "videoProbe", "audioProbe"}

(* A linked bin below PAUSED: its pads flush.                              *)
FlushesVideo(a) == bin[a] \in {"video", "audio", "asked", "flushing"}
FlushesAudio(a) == bin[a] \in {"audio", "asked", "flushing"}

Init ==
    /\ SignalingInit
    /\ play = {}
    /\ bin = [a \in Addr |-> "none"]
    /\ binRefs = [a \in Addr |-> 0]
    /\ offer = [a \in Addr |-> "none"]
    /\ nGathered = 0
    /\ channel = [a \in Addr |-> "none"]
    /\ appRefs = {}
    /\ data_channel = NULL
    /\ waitFor = NULL
    /\ audioIn = NULL
    /\ flows = Stream
    /\ abort = "none"

TypeOK ==
    /\ SignalingTypeOK
    /\ play \subseteq {"handler", "loop"}
    /\ bin \in [Addr -> BinState]
    /\ binRefs \in [Addr -> Nat]
    /\ offer \in [Addr -> {"none", "pending", "created"}]
    /\ nGathered \in 0 .. MaxCandidates
    /\ channel \in [Addr -> {"none", "created", "heard", "closed"}]
    /\ appRefs \subseteq Addr
    /\ data_channel \in Addr \cup {NULL}
    /\ waitFor \in Addr \cup {NULL}
    /\ audioIn \in Addr \cup {NULL}
    /\ flows \subseteq Stream
    /\ abort \in {"none", "name", "channel", "offer"}

----------------------------------------------------------------------------
(* server_pipeline_play: the handler of ws-client-connected first, then    *)
(* the loop thread, which accepts clients.                                 *)
PlayOrderSwapped == <<"loop", "handler">>       \* mutant
PlayOrder == <<"handler", "loop">>

server_pipeline_play ==
    /\ play # {"handler", "loop"}
    /\ play' = play \cup {PlayOrder[IF play = {} THEN 1 ELSE 2]}
    /\ UNCHANGED <<signalingVars, bin, binRefs, offer, nGathered, channel, appRefs,
                   data_channel, waitFor, audioIn, flows, abort>>

Alive == abort = "none"
NobodyConnects == \A a \in Addr : bin[a] \notin Connecting

LoopNotBlocked ==                       \* mutant: promise not waited for
    Alive /\ "loop" \in play /\ NobodyConnects
LoopReady ==
    Alive /\ "loop" \in play /\ NobodyConnects /\ waitFor = NULL

----------------------------------------------------------------------------
(* webrtc_client_connected_cb: a webrtcbin under a name made of the id is  *)
(* put into the pipeline and set to READY.  gst_bin_add refuses a name the *)
(* pipeline has already; the bin then has no parent, and whatever runs     *)
(* before it, link_webrtc_to_tee asserts.  Before play has connected the   *)
(* handler, the signal is lost.                                            *)
webrtc_client_connected_cb(a) ==
    IF InPipeline(a) \/ "handler" \notin play
    THEN /\ abort' = IF InPipeline(a) THEN "name" ELSE abort
         /\ UNCHANGED <<bin, binRefs, offer, channel>>
    ELSE /\ bin' = [bin EXCEPT ![a] = "ready"]
         /\ binRefs' = [binRefs EXCEPT ![a] = 1]
         /\ offer' = [offer EXCEPT ![a] = "none"]
         /\ channel' = [channel EXCEPT ![a] = "none"]
         /\ abort' = abort

ClientConnects(a) ==
    /\ LoopReady
    /\ websocket_cb(a)
    /\ webrtc_client_connected_cb(a)
    /\ UNCHANGED <<play, nGathered, appRefs, data_channel, waitFor, audioIn, flows>>

(* The rest of the handler, on the main loop, in the order of the code.    *)
Advance(a, from, to) ==
    /\ Alive
    /\ bin[a] = from
    /\ bin' = [bin EXCEPT ![a] = to]
    /\ UNCHANGED <<signalingVars, play, binRefs, nGathered, waitFor, audioIn, flows>>

(* create-data-channel returns into the slot mgd->data_channel.            *)
CreateDataChannel(a) ==
    /\ Advance(a, "ready", "channel")
    /\ channel' = [channel EXCEPT ![a] = "created"]
    /\ appRefs' = appRefs \cup {a}
    /\ data_channel' = a
    /\ UNCHANGED <<offer, abort>>

(* The assertion reads the slot, which the close of another client's       *)
(* channel may have cleared meanwhile.                                     *)
AssertDataChannel(a) ==
    /\ Advance(a, "channel", "asserted")
    /\ abort' = IF data_channel = NULL THEN "channel" ELSE abort
    /\ UNCHANGED <<offer, channel, appRefs, data_channel>>

(* Its handlers are connected to the channel in the slot, if there is one, *)
(* and the bin is linked to the video tee.                                 *)
LinkVideo(a) ==
    /\ Advance(a, "asserted", "video")
    /\ channel' = IF data_channel = NULL THEN channel
                  ELSE [channel EXCEPT ![data_channel] = "heard"]
    /\ UNCHANGED <<offer, appRefs, data_channel, abort>>

LinkAudio(a) ==
    /\ Advance(a, "video", "audio")
    /\ UNCHANGED <<offer, channel, appRefs, data_channel, abort>>

AskForOffer(a) ==
    /\ Advance(a, "audio", "asked")
    /\ offer' = [offer EXCEPT ![a] = "pending"]
    /\ UNCHANGED <<channel, appRefs, data_channel, abort>>

PlayBin(a) ==
    /\ Advance(a, "asked", "playing")
    /\ UNCHANGED <<offer, channel, appRefs, data_channel, abort>>

ConnectGoesOn(a) ==
    \/ CreateDataChannel(a) \/ AssertDataChannel(a) \/ LinkVideo(a)
    \/ LinkAudio(a) \/ AskForOffer(a) \/ PlayBin(a)

(* webrtc_client_disconnected_cb: the reference get_webrtcbin_for_client   *)
(* returns is kept for the probes.                                         *)
DisconnectDropsRef(a) == binRefs                \* mutant: unref after adding
RefsOfProbe(a) == [binRefs EXCEPT ![a] = @ + 1]

webrtc_client_disconnected_cb(a) ==
    /\ bin' = [bin EXCEPT ![a] = "videoProbe"]
    /\ binRefs' = RefsOfProbe(a)

ClientDisconnects(a) ==
    /\ LoopReady
    /\ closed_cb(a)
    /\ webrtc_client_disconnected_cb(a)
    /\ UNCHANGED <<play, offer, nGathered, channel, appRefs, data_channel, waitFor,
                   audioIn, flows, abort>>

----------------------------------------------------------------------------
(* webrtc_sdp_answer_cb: the loop waits for set-remote-description.        *)
webrtc_sdp_answer_cb(a) ==
    /\ LoopReady
    /\ message_cb(a)
    /\ waitFor' = a
    /\ binRefs' = [binRefs EXCEPT ![a] = @ + 1]
    /\ UNCHANGED <<play, bin, offer, nGathered, channel, appRefs, data_channel,
                   audioIn, flows, abort>>

PromiseReplied ==
    /\ Alive
    /\ waitFor # NULL
    /\ BinRuns(waitFor)
    /\ waitFor' = NULL
    /\ binRefs' = [binRefs EXCEPT ![waitFor] = @ - 1]
    /\ UNCHANGED <<signalingVars, play, bin, offer, nGathered, channel, appRefs,
                   data_channel, audioIn, flows, abort>>

(* webrtc_candidate_cb, which leaves the webrtcbin as the model sees it,   *)
(* and every text that leads to no call of webrtcbin.                      *)
webrtc_candidate_cb(a) ==
    /\ LoopReady
    /\ message_cb(a)
    /\ UNCHANGED pipelineVars

----------------------------------------------------------------------------
(* Callbacks on the thread of the webrtcbin of a.                          *)

(* on_offer_created: set-local-description, which starts the gathering of  *)
(* candidates, and the offer sent.                                         *)
on_offer_created(a) ==
    /\ Alive
    /\ BinRuns(a)
    /\ offer[a] = "pending"
    /\ offer' = [offer EXCEPT ![a] = "created"]
    /\ signaling_server_send_sdp_offer(a)
    /\ UNCHANGED <<play, bin, binRefs, nGathered, channel, appRefs, data_channel,
                   waitFor, audioIn, flows, abort>>

(* The reply has no offer, as when the bin failed or was stopped first:    *)
(* the description read from it is NULL and is dereferenced.               *)
OfferMissing(a) ==
    /\ Alive
    /\ BinRuns(a) \/ bin[a] = "flushing"
    /\ offer[a] = "pending"
    /\ abort' = "offer"
    /\ UNCHANGED <<signalingVars, play, bin, binRefs, offer, nGathered, channel,
                   appRefs, data_channel, waitFor, audioIn, flows>>

Gathering(a) == offer[a] = "created"

webrtc_on_ice_candidate_cb(a) ==
    /\ Alive
    /\ BinRuns(a)
    /\ Gathering(a)
    /\ nGathered < MaxCandidates
    /\ nGathered' = nGathered + 1
    /\ signaling_server_send_candidate(a)
    /\ UNCHANGED <<play, bin, binRefs, offer, channel, appRefs, data_channel, waitFor,
                   audioIn, flows, abort>>

(* data_channel_close_cb clears mgd->data_channel, whichever client's      *)
(* channel that holds.                                                     *)
ClearOwnChannel(a) ==                           \* mutant: unrefs the sender
    /\ appRefs' = appRefs \ {a}
    /\ data_channel' = data_channel

ClearSlot(a) ==
    /\ appRefs' = appRefs \ {data_channel}
    /\ data_channel' = NULL

data_channel_close_cb(a) ==
    /\ Alive
    /\ BinRuns(a)
    /\ bin[a] # "asked"
    /\ channel[a] = "heard"
    /\ channel' = [channel EXCEPT ![a] = "closed"]
    /\ ClearSlot(a)
    /\ UNCHANGED <<signalingVars, play, bin, binRefs, offer, nGathered, waitFor,
                   audioIn, flows, abort>>

----------------------------------------------------------------------------
(* The streaming threads.                                                  *)

(* remove_webrtcbin_probe_cb_video, run by the next video buffer: the      *)
(* audio probe is installed, the buffer goes on to the bin.                *)
VideoProbeRemovesBin(a) ==                      \* mutant: no audio probe
    [bin EXCEPT ![a] = "flushing"]
VideoProbeForgets(a) ==                         \* mutant: nor that removal
    [bin EXCEPT ![a] = "playing"]
AudioProbeAdded(a) == [bin EXCEPT ![a] = "audioProbe"]

remove_webrtcbin_probe_cb_video(a) ==
    /\ Alive
    /\ "video" \in flows
    /\ bin[a] = "videoProbe"
    /\ bin' = AudioProbeAdded(a)
    /\ UNCHANGED <<signalingVars, play, binRefs, offer, nGathered, channel, appRefs,
                   data_channel, waitFor, audioIn, flows, abort>>

(* remove_webrtcbin_probe_audio, run by the next audio buffer: the bin is  *)
(* set to NULL, its pads flushing, then taken out of the pipeline; the     *)
(* probe's reference goes with the probe.                                  *)
SetBinToNull(a) ==
    /\ Alive
    /\ audioIn = NULL /\ "audio" \in flows
    /\ bin[a] = "audioProbe"
    /\ bin' = [bin EXCEPT ![a] = "flushing"]
    /\ audioIn' = a
    /\ UNCHANGED <<signalingVars, play, binRefs, offer, nGathered, channel, appRefs,
                   data_channel, waitFor, flows, abort>>

RemoveBin(a) ==
    /\ Alive
    /\ audioIn = a
    /\ bin' = [bin EXCEPT ![a] = "removed"]
    /\ binRefs' = [binRefs EXCEPT ![a] = @ - 2]
    /\ audioIn' = NULL
    /\ UNCHANGED <<signalingVars, play, offer, nGathered, channel, appRefs,
                   data_channel, waitFor, flows, abort>>

(* A buffer pushed to a bin whose pads flush: the tee returns FLUSHING and *)
(* the queue in front of it pauses, for good.  The video thread may meet   *)
(* a bin that is linked and not yet PLAYING, or one between the two steps  *)
(* above; the audio thread is inside the probe during those.               *)
Stops(s) ==
    /\ s \in flows
    /\ flows' = flows \ {s}
    /\ UNCHANGED <<signalingVars, play, bin, binRefs, offer, nGathered, channel,
                   appRefs, data_channel, waitFor, audioIn, abort>>

VideoFlushed(a) == Alive /\ FlushesVideo(a) /\ Stops("video")
AudioFlushed(a) == Alive /\ FlushesAudio(a) /\ audioIn = NULL /\ Stops("audio")

(* The source of a stream produces nothing (more): no capture, no sound.   *)
SourceFallsSilent == Alive /\ \E s \in Stream : Stops(s)

Arrives(a) ==
    /\ Alive
    /\ SocketLost(a) \/ ClientSends(a)
    /\ UNCHANGED pipelineVars

----------------------------------------------------------------------------
Next ==
    \/ server_pipeline_play
    \/ PromiseReplied
    \/ SourceFallsSilent
    \/ \E a \in Addr :
         \/ ClientConnects(a)
         \/ ConnectGoesOn(a)
         \/ ClientDisconnects(a)
         \/ Arrives(a)
         \/ webrtc_sdp_answer_cb(a)
         \/ webrtc_candidate_cb(a)
         \/ on_offer_created(a)
         \/ OfferMissing(a)
         \/ webrtc_on_ice_candidate_cb(a)
         \/ data_channel_close_cb(a)
         \/ remove_webrtcbin_probe_cb_video(a)
         \/ SetBinToNull(a)
         \/ RemoveBin(a)
         \/ VideoFlushed(a)
         \/ AudioFlushed(a)

Spec == Init /\ [][Next]_vars

(* The main loop and the webrtcbins make progress, and a stream brings its *)
(* next buffer as long as it flows.  Nothing is asked of the clients, nor  *)
(* of the sources.                                                         *)
Fairness ==
    /\ WF_vars(server_pipeline_play)
    /\ WF_vars(PromiseReplied)
    /\ \A a \in Addr :
         /\ WF_vars(ConnectGoesOn(a))
         /\ WF_vars(ClientDisconnects(a))
         /\ WF_vars(webrtc_sdp_answer_cb(a) \/ webrtc_candidate_cb(a))
         /\ WF_vars(on_offer_created(a))
         /\ WF_vars(remove_webrtcbin_probe_cb_video(a))
         /\ WF_vars(SetBinToNull(a))
         /\ WF_vars(RemoveBin(a))

FairSpec == Spec /\ Fairness

----------------------------------------------------------------------------
(* Properties.                                                             *)

(* The name of a new client's webrtcbin is never that of a bin still in    *)
(* the pipeline, though a bin outlives its client by as long as the        *)
(* streams take: link_webrtc_to_tee finds a parent.                        *)
NamesNeverCollide == abort # "name"

(* The bins not on their way out are those of the listed clients: every    *)
(* accepted client got one, and the bin of a client that left has its      *)
(* removal under way.                                                      *)
BinsFollowClients ==
    \A a \in Addr : a \in websocket_connections <=> Served(a)

(* Every reference to a webrtcbin is accounted for: the pipeline's, the    *)
(* one lent to the probes, the one held while the loop waits.  A bin is    *)
(* freed when it is removed, not earlier and not twice.                    *)
BinRefsBalanced ==
    \A a \in Addr :
        binRefs[a] = (IF InPipeline(a) THEN 1 ELSE 0)
                   + (IF bin[a] \in Leaving THEN 1 ELSE 0)
                   + (IF waitFor = a THEN 1 ELSE 0)

(* A client that leaves never stops the audio of the others: the only bin  *)
(* an audio buffer can find flushing is the one the main loop is about to  *)
(* set to PLAYING, never one that is being removed.                        *)
RemovalKeepsAudio ==
    \A a \in Addr : FlushesAudio(a) /\ audioIn = NULL => bin[a] \in Connecting

(* The slot mgd->data_channel holds a channel whose reference is its own,  *)
(* whichever channels closed and in which order.                           *)
SlotOwnsChannel == data_channel # NULL => data_channel \in appRefs

(* The loop waits for an answer only of a bin whose removal has not begun: *)
(* the promise is replied to and the loop goes on.                         *)
LoopWaitsOnRunningBin == waitFor # NULL => bin[waitFor] = "playing"

(* The first text a client gets is its offer.                              *)
OfferFirst == \A a \in Addr : outbox[a] # <<>> => Head(outbox[a]) = "offer"

(* A client id names one client for ever: an id announced as disconnected  *)
(* is never announced again, so nothing late can reach another client.     *)
IdsNotReused ==
    [][\A a \in Addr : announced[a] = "disconnected"
                           => announced'[a] = "disconnected"]_vars

(* The server implements ClientService: through every interleaving of the  *)
(* loop, the webrtcbins and the streams an id stands for one client that   *)
(* comes, leaves and is removed once, hears one offer before anything else *)
(* and nothing after it left, and the loop applies one answer at a time.   *)
Stage(a) == CASE bin[a] = "none" -> "unknown"
              [] Served(a) -> "served"
              [] bin[a] = "removed" -> "gone"
              [] OTHER -> "leaving"
Service == INSTANCE ClientService
           WITH client <- [a \in Addr |-> Stage(a)], told <- outbox, busy <- waitFor
ServesEachClientOnce == Service!Spec

(* Every accepted client that stays gets its offer, unless the process     *)
(* ends.                                                                   *)
EveryClientOffered ==
    \A a \in Addr :
        sock[a] = "open" ~> outbox[a] # <<>> \/ sock[a] = "closed" \/ ~Alive

(* The webrtcbin of a client that left is removed in the end, as long as   *)
(* video and audio both flow.                                              *)
ClosedClientRemoved ==
    \A a \in Addr :
        sock[a] = "closed" ~> bin[a] = "removed" \/ flows # Stream \/ ~Alive
=============================================================================
