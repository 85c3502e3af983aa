---------------------------- MODULE MediaPipeline ----------------------------
(***************************************************************************)
(* The receiving pipeline of one stream client, src/src/client/            *)
(* stream_client.c: made when the connection asks for one, extended by the *)
(* pads that webrtcbin and decodebin3 add, dropped when the connection     *)
(* gives the session up.                                                   *)
(*                                                                         *)
(* Pads are added on GStreamer's threads, and a handler puts elements into *)
(* sc->pipeline wherever that points to by then.  The loop's thread makes  *)
(* and starts the pipeline.  Two threads may drop it: the application's,   *)
(* in a disconnect or in my_stream_client_stop, and webrtcbin's, where the *)
(* data channel ends.  Setting it to NULL joins the threads of the pads'   *)
(* handlers.  (Steps that touch a stream client which has been destroyed   *)
(* meanwhile go on as if its memory were there: module ClientApp has what  *)
(* becomes of those.)                                                      *)
(***************************************************************************)
EXTENDS Integers

Media == {"audio", "video"}
Dropper == {"app", "stop", "channel"}

VARIABLES
    attempt,    \* the connection has an attempt that may still succeed
    need,       \* where conn_websocket_connected_cb is
    scPipeline, \* sc->pipeline is set
    connPipeline, \* conn->pipeline is set
    running,    \* the pipeline's threads run
    appSink,    \* sc->app_sink is set
    pad,        \* how far the handling of each medium's pads is
    drop,       \* where each drop of the pipeline is
    bus,        \* a message for gst_bus_cb
    abort,      \* g_error, g_assert or an uncaught exception has ended the process
    missed      \* history: a drop and the making of the pipeline missed each other

mediaVars == <<attempt, need, scPipeline, connPipeline, running, appSink, pad, drop, bus,
               abort, missed>>
fields == <<scPipeline, connPipeline, appSink>>

DropStage == {"idle", "own", "test", "stopConn", "stopSc", "clearPipeline", "clearSink",
              "clearConn", "lastPipeline", "lastSink"}

(* A drop that will not stop the pipeline any more.                        *)
Late == {"clearPipeline", "clearSink", "clearConn", "lastPipeline", "lastSink"}

MediaInit ==
    /\ attempt = FALSE /\ need = "none"
    /\ scPipeline = FALSE /\ connPipeline = FALSE
    /\ running = FALSE
    /\ appSink = FALSE
    /\ pad = [m \in Media |-> "none"]
    /\ drop = [d \in Dropper |-> "idle"]
    /\ bus = "empty"
    /\ abort = "no"
    /\ missed = FALSE

MediaTypeOK ==
    /\ attempt \in BOOLEAN /\ running \in BOOLEAN /\ missed \in BOOLEAN
    /\ need \in {"none", "connected", "made", "handed", "start"}
    /\ scPipeline \in BOOLEAN /\ connPipeline \in BOOLEAN /\ appSink \in BOOLEAN
    /\ pad \in [Media -> {"none", "added", "decoding", "exposed", "playing"}]
    /\ pad["audio"] \in {"none", "added", "playing"}
    /\ drop \in [Dropper -> DropStage]
    /\ bus \in {"empty", "fatal"}
    /\ abort \in {"no", "bus", "null", "egl"}

(* A new stream client, told of a connection that has begun to connect;    *)
(* what the old one's threads still do concerns the old one.               *)
NewStreamClient ==
    /\ attempt' = TRUE /\ need' = "none"
    /\ scPipeline' = FALSE /\ connPipeline' = FALSE
    /\ running' = FALSE
    /\ appSink' = FALSE
    /\ pad' = [m \in Media |-> "none"]
    /\ drop' = [d \in Dropper |-> "idle"]
    /\ bus' = "empty"
    /\ missed' = FALSE
    /\ UNCHANGED abort

----------------------------------------------------------------------------
(* conn_websocket_connected_cb on the loop's thread: the pipeline is made  *)
(* (on_need_pipeline_cb), handed over (set-pipeline asserts that there is  *)
(* one), and whatever conn->pipeline is by the end is started.             *)
ConnectedCb ==
    /\ attempt
    /\ attempt' = FALSE
    /\ need' = "connected"
    /\ UNCHANGED <<fields, running, pad, drop, bus, abort, missed>>

on_need_pipeline_cb ==
    /\ need = "connected"
    /\ need' = "made"
    /\ scPipeline' = TRUE
    /\ UNCHANGED <<attempt, connPipeline, appSink, running, pad, drop, bus, abort, missed>>

SetPipeline ==
    /\ need = "made"
    /\ need' = "handed"
    /\ connPipeline' = scPipeline
    /\ abort' = IF scPipeline THEN abort ELSE "null"
    /\ UNCHANGED <<attempt, scPipeline, appSink, running, pad, drop, bus, missed>>

(* No pipeline: the callback disconnects and has nothing to drop.          *)
PipelineTest ==
    /\ need = "handed"
    /\ need' = IF connPipeline THEN "start" ELSE "none"
    /\ UNCHANGED <<attempt, fields, running, pad, drop, bus, abort, missed>>

StartPipeline ==
    /\ need = "start"
    /\ need' = "none"
    /\ running' = (running \/ connPipeline)
    /\ missed' = (missed \/ (connPipeline /\ \E d \in Dropper : drop[d] \in Late))
    /\ UNCHANGED <<attempt, fields, pad, drop, bus, abort>>

----------------------------------------------------------------------------
(* on_webrtcbin_pad_added, on webrtcbin's thread: an audio pad gets its    *)
(* whole chain, a video pad a decodebin3, which must not be given audio.   *)
ChainSwapped(m) ==                              \* mutant: test the wrong way
    IF m = "video" THEN "playing" ELSE "decoding"
ChainOf(m) == IF m = "audio" THEN "playing" ELSE "decoding"

WebrtcbinThreadFree == drop["channel"] = "idle" /\ \A m \in Media : pad[m] # "added"

PadGoes(m, from, to) ==
    /\ pad[m] = from
    /\ pad' = [pad EXCEPT ![m] = to]
    /\ UNCHANGED <<attempt, need, scPipeline, connPipeline, running, drop, bus, abort, missed>>

WebrtcbinAddsPad(m) ==
    /\ running
    /\ WebrtcbinThreadFree
    /\ PadGoes(m, "none", "added")
    /\ UNCHANGED appSink

on_webrtcbin_pad_added(m) ==
    /\ PadGoes(m, "added", ChainOf(m))
    /\ UNCHANGED appSink

(* on_decodebin_pad_added, on a thread of decodebin3.                      *)
DecodebinAddsPad ==
    /\ running
    /\ PadGoes("video", "decoding", "exposed")
    /\ UNCHANGED appSink

(* handle_media_stream for video: glsinkbin, with an appsink of our own.   *)
handle_media_stream ==
    /\ PadGoes("video", "exposed", "playing")
    /\ appSink' = TRUE

HandlerRuns == \E m \in Media : pad[m] \in {"added", "exposed"}

----------------------------------------------------------------------------
(* gst_bus_cb: an error, or the end of the stream, is fatal.               *)
PostFatal ==
    /\ running
    /\ bus = "empty"
    /\ bus' = "fatal"
    /\ UNCHANGED <<attempt, need, fields, running, pad, drop, abort, missed>>

gst_bus_cb ==
    /\ bus = "fatal"
    /\ bus' = "empty"
    /\ abort' = "bus"
    /\ UNCHANGED <<attempt, need, fields, running, pad, drop, missed>>

----------------------------------------------------------------------------
(* conn_disconnect_internal, with the handler of on-drop-pipeline inside   *)
(* it; in my_stream_client_stop something comes before it and after.       *)
DropBegins(d) ==
    /\ drop[d] = "idle"
    /\ attempt' = FALSE
    /\ drop' = [drop EXCEPT ![d] = "test"]
    /\ UNCHANGED <<need, fields, running, pad, bus, abort, missed>>

DataChannelEnds ==
    /\ running
    /\ WebrtcbinThreadFree
    /\ DropBegins("channel")

DropGoes(d, from, to) ==
    /\ drop[d] = from
    /\ drop' = [drop EXCEPT ![d] = to]
    /\ UNCHANGED <<need, pad, abort>>

(* if (conn->pipeline != NULL): too early for a pipeline still being made. *)
ClearAtOnce == "clearPipeline"                  \* mutant: not set to NULL first
StopFirst == "stopConn"

DropTest(d) ==
    /\ DropGoes(d, "test", IF connPipeline THEN StopFirst ELSE "clearConn")
    /\ missed' = (missed \/ (~connPipeline /\ need \in {"connected", "made"}))
    /\ UNCHANGED <<attempt, fields, running, bus>>

(* gst_element_set_state(..., GST_STATE_NULL) on what a field points to:   *)
(* it returns when no handler is left on the threads it joins, and the bus *)
(* is flushed.                                                             *)
SetNull(field) ==
    IF field
    THEN /\ ~HandlerRuns
         /\ running' = FALSE
         /\ bus' = "empty"
    ELSE UNCHANGED <<running, bus>>

StopConnPipeline(d) ==
    /\ DropGoes(d, "stopConn", "stopSc")
    /\ SetNull(connPipeline)
    /\ UNCHANGED <<attempt, fields, missed>>

StopScPipeline(d) ==
    /\ DropGoes(d, "stopSc", "clearPipeline")
    /\ SetNull(scPipeline)
    /\ UNCHANGED <<attempt, fields, missed>>

ClearPipeline(d, from, to) ==
    /\ DropGoes(d, from, to)
    /\ scPipeline' = FALSE
    /\ UNCHANGED <<attempt, connPipeline, running, appSink, bus, missed>>

ClearSink(d, from, to) ==
    /\ DropGoes(d, from, to)
    /\ appSink' = FALSE
    /\ UNCHANGED <<attempt, scPipeline, connPipeline, running, bus, missed>>

ClearConn(d) ==
    /\ DropGoes(d, "clearConn", IF d = "stop" THEN "lastPipeline" ELSE "idle")
    /\ connPipeline' = FALSE
    /\ UNCHANGED <<attempt, scPipeline, running, appSink, bus, missed>>

DropStep(d) ==
    \/ DropTest(d)
    \/ StopConnPipeline(d)
    \/ StopScPipeline(d)
    \/ ClearPipeline(d, "clearPipeline", "clearSink")
    \/ ClearSink(d, "clearSink", "clearConn")
    \/ ClearConn(d)

(* my_stream_client_stop: its own pipeline, the disconnect, and what that  *)
(* has left.                                                               *)
StopBegins ==
    /\ DropGoes("stop", "idle", "own")
    /\ UNCHANGED <<attempt, fields, running, bus, missed>>

StopOwnPipeline ==
    /\ DropGoes("stop", "own", "test")
    /\ attempt' = FALSE
    /\ SetNull(scPipeline)
    /\ UNCHANGED <<fields, missed>>

StopStep ==
    \/ StopOwnPipeline
    \/ ClearPipeline("stop", "lastPipeline", "lastSink")
    \/ ClearSink("stop", "lastSink", "idle")

MediaNext ==
    \/ ConnectedCb \/ on_need_pipeline_cb \/ SetPipeline \/ PipelineTest \/ StartPipeline
    \/ \E m \in Media : WebrtcbinAddsPad(m) \/ on_webrtcbin_pad_added(m)
    \/ DecodebinAddsPad
    \/ handle_media_stream
    \/ PostFatal
    \/ gst_bus_cb
    \/ DataChannelEnds
    \/ \E d \in Dropper : DropStep(d)
    \/ StopStep
=============================================================================
