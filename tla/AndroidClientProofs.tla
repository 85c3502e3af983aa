-------------------------- MODULE AndroidClientProofs --------------------------
(***************************************************************************)
(* The Android client's process, for every number of starts, windows and   *)
(* activities: its window and GL objects, and its media pipeline.          *)
(***************************************************************************)
EXTENDS AndroidClient, NativeActivityProofs

----------------------------------------------------------------------------
(* The inductive invariant.                                                *)

(* Nobody uses or could still use a pipeline of this stream client.        *)
NothingThere == ~running /\ ~scPipeline /\ ~connPipeline /\ ~appSink /\ bus = "empty"

(* Handlers and the bus belong to the running pipeline; an attempt is of a *)
(* stream client that has none yet.                                        *)
RunsFirst ==
    /\ HandlerRuns => running
    /\ ~running => bus = "empty"
    /\ attempt => /\ need = "none" /\ NothingThere
                  /\ \A d \in Dropper : drop[d] \in {"idle", "own"}

(* The pipeline runs only while both fields hold it: who clears them has   *)
(* stopped it before, and nothing starts it again.                         *)
Keeps ==
    ~missed =>
        /\ running => scPipeline /\ connPipeline
        /\ \A d \in Dropper : drop[d] \in Late => ~running

(* While the pipeline is made no drop has got past its test.               *)
Makes ==
    ~missed =>
        /\ need = "connected" =>
               NothingThere /\ \A d \in Dropper : drop[d] \in {"idle", "own", "test"}
        /\ need = "made" =>
               /\ scPipeline /\ ~connPipeline /\ ~appSink /\ ~running
               /\ \A d \in Dropper : drop[d] \in {"idle", "own", "test"}
        /\ need # "made" /\ ~connPipeline => ~scPipeline /\ ~appSink

(* What a drop has cleared stays clear, and while conn->pipeline outlives  *)
(* the others, or the running pipeline, a thread is on its way to clear it.*)
Clearing == {"test", "stopConn", "stopSc", "clearPipeline", "clearSink", "clearConn"}
Clears ==
    ~missed =>
        /\ \A d \in Dropper :
               /\ drop[d] \in {"clearSink", "clearConn", "lastPipeline", "lastSink"} => ~scPipeline
               /\ drop[d] \in {"clearConn", "lastPipeline", "lastSink"} => ~appSink
        /\ connPipeline /\ ~scPipeline =>
               \E d \in Dropper : drop[d] \in {"clearSink", "clearConn"}
        /\ connPipeline /\ ~running /\ need = "none" => \E d \in Dropper : drop[d] \in Clearing

MediaInv == MediaTypeOK /\ RunsFirst /\ Keeps /\ Makes /\ Clears

(* A window is that of egl_data, whose context has the renderer's object.  *)
(* (A window that could not be opened ends the process outside the loop.)  *)
WindowInv ==
    /\ abort = "no" \/ loopPc \in {"render", "draw"} => (window # 0 => egl = window)
    /\ egl # 0 => renderer \in objects
    /\ loopPc = "draw" => egl # 0

ClientTypeOK ==
    /\ client \in BOOLEAN
    /\ egl \in 0 .. nWindows
    /\ renderer \in 0 .. 2
    /\ objects \subseteq 1 .. 2

IInv == ActivityInv /\ MediaInv /\ ClientTypeOK /\ WindowInv

----------------------------------------------------------------------------
(* The media pipeline.                                                     *)
LEMMA MediaInitInv == MediaInit => MediaInv
BY DEF MediaInit, MediaInv, MediaTypeOK, RunsFirst, Keeps, Makes, Clears, NothingThere,
       HandlerRuns, Media, Dropper, DropStage

LEMMA NewStreamClientKeeps ==
    ASSUME MediaInv, NewStreamClient
    PROVE  MediaInv'
BY DEF NewStreamClient, MediaInv, MediaTypeOK, RunsFirst, Keeps, Makes, Clears, NothingThere,
       HandlerRuns, Media, Dropper, DropStage

(* Only the process may have been ended.                                    *)
LEMMA MediaSame ==
    ASSUME MediaInv, abort' \in {"no", "bus", "null", "egl"},
           UNCHANGED <<attempt, need, fields, running, pad, drop, bus, missed>>
    PROVE  MediaInv'
BY DEF MediaInv, MediaTypeOK, RunsFirst, Keeps, Makes, Clears, NothingThere, HandlerRuns, fields

(* The loop's thread makes the pipeline: it still finds none before, and   *)
(* who drops it from the hand-over on starts with setting it to NULL.      *)
LEMMA ConnectedCbKeeps ==
    ASSUME MediaInv, ConnectedCb
    PROVE  MediaInv'
<1>0. MediaTypeOK /\ RunsFirst /\ Keeps /\ Makes /\ Clears
    BY DEF MediaInv
<1>1. /\ attempt /\ attempt' = FALSE /\ need' = "connected"
      /\ UNCHANGED <<scPipeline, connPipeline, running, appSink, pad, drop, bus,
                     abort, missed>>
    BY <1>0 DEF ConnectedCb, MediaTypeOK, fields
<1>2. MediaTypeOK'
    BY <1>0, <1>1 DEF MediaTypeOK
<1>3. RunsFirst'
    BY <1>0, <1>1
       DEF RunsFirst, NothingThere, HandlerRuns, Media, Late, Dropper, MediaTypeOK,
           DropStage
<1>4. Keeps'
    BY <1>0, <1>1
       DEF Keeps, Late, RunsFirst, Makes, Clears, NothingThere, Dropper, MediaTypeOK,
           DropStage
<1>5. Makes'
    BY <1>0, <1>1
       DEF Makes, NothingThere, RunsFirst, Keeps, Clears, Late, Dropper, MediaTypeOK,
           DropStage
<1>6. Clears'
    BY <1>0, <1>1
       DEF Clears, Clearing, RunsFirst, Keeps, Makes, NothingThere, Late, Dropper,
           MediaTypeOK, DropStage
<1> QED
    BY <1>2, <1>3, <1>4, <1>5, <1>6 DEF MediaInv

LEMMA on_need_pipeline_cbKeeps ==
    ASSUME MediaInv, on_need_pipeline_cb
    PROVE  MediaInv'
<1>0. MediaTypeOK /\ RunsFirst /\ Keeps /\ Makes /\ Clears
    BY DEF MediaInv
<1>1. /\ need = "connected" /\ need' = "made" /\ scPipeline' = TRUE
      /\ UNCHANGED <<attempt, connPipeline, running, appSink, pad, drop, bus,
                     abort, missed>>
    BY <1>0 DEF on_need_pipeline_cb, MediaTypeOK, fields
<1>2. MediaTypeOK'
    BY <1>0, <1>1 DEF MediaTypeOK
<1>3. RunsFirst'
    BY <1>0, <1>1
       DEF RunsFirst, NothingThere, HandlerRuns, Media, Late, Dropper, MediaTypeOK,
           DropStage
<1>4. Keeps'
    BY <1>0, <1>1
       DEF Keeps, Late, RunsFirst, Makes, Clears, NothingThere, Dropper, MediaTypeOK,
           DropStage
<1>5. Makes'
    BY <1>0, <1>1
       DEF Makes, NothingThere, RunsFirst, Keeps, Clears, Late, Dropper, MediaTypeOK,
           DropStage
<1>6. Clears'
    BY <1>0, <1>1
       DEF Clears, Clearing, RunsFirst, Keeps, Makes, NothingThere, Late, Dropper,
           MediaTypeOK, DropStage
<1> QED
    BY <1>2, <1>3, <1>4, <1>5, <1>6 DEF MediaInv

LEMMA SetPipelineKeeps ==
    ASSUME MediaInv, SetPipeline
    PROVE  MediaInv'
<1>0. MediaTypeOK /\ RunsFirst /\ Keeps /\ Makes /\ Clears
    BY DEF MediaInv
<1>1. /\ need = "made" /\ need' = "handed" /\ connPipeline' = scPipeline
      /\ abort' \in {abort, "null"}
      /\ UNCHANGED <<attempt, scPipeline, running, appSink, pad, drop, bus, missed>>
    BY <1>0 DEF SetPipeline, MediaTypeOK, fields
<1>2. MediaTypeOK'
    BY <1>0, <1>1 DEF MediaTypeOK
<1>3. RunsFirst'
    BY <1>0, <1>1
       DEF RunsFirst, NothingThere, HandlerRuns, Media, Late, Dropper, MediaTypeOK,
           DropStage
<1>4. Keeps'
    BY <1>0, <1>1
       DEF Keeps, Late, RunsFirst, Makes, Clears, NothingThere, Dropper, MediaTypeOK,
           DropStage
<1>5. Makes'
    BY <1>0, <1>1
       DEF Makes, NothingThere, RunsFirst, Keeps, Clears, Late, Dropper, MediaTypeOK,
           DropStage
<1>6. Clears'
    BY <1>0, <1>1
       DEF Clears, Clearing, RunsFirst, Keeps, Makes, NothingThere, Late, Dropper,
           MediaTypeOK, DropStage
<1> QED
    BY <1>2, <1>3, <1>4, <1>5, <1>6 DEF MediaInv

LEMMA PipelineTestKeeps ==
    ASSUME MediaInv, PipelineTest
    PROVE  MediaInv'
<1>0. MediaTypeOK /\ RunsFirst /\ Keeps /\ Makes /\ Clears
    BY DEF MediaInv
<1>1. /\ need = "handed" /\ need' = IF connPipeline THEN "start" ELSE "none"
      /\ UNCHANGED <<attempt, scPipeline, connPipeline, running, appSink, pad, drop, bus,
                     abort, missed>>
    BY <1>0 DEF PipelineTest, MediaTypeOK, fields
<1>2. MediaTypeOK'
    BY <1>0, <1>1 DEF MediaTypeOK
<1>3. RunsFirst'
    BY <1>0, <1>1
       DEF RunsFirst, NothingThere, HandlerRuns, Media, Late, Dropper, MediaTypeOK,
           DropStage
<1>4. Keeps'
    BY <1>0, <1>1
       DEF Keeps, Late, RunsFirst, Makes, Clears, NothingThere, Dropper, MediaTypeOK,
           DropStage
<1>5. Makes'
    BY <1>0, <1>1
       DEF Makes, NothingThere, RunsFirst, Keeps, Clears, Late, Dropper, MediaTypeOK,
           DropStage
<1>6. Clears'
    BY <1>0, <1>1
       DEF Clears, Clearing, RunsFirst, Keeps, Makes, NothingThere, Late, Dropper,
           MediaTypeOK, DropStage
<1> QED
    BY <1>2, <1>3, <1>4, <1>5, <1>6 DEF MediaInv

LEMMA StartPipelineKeeps ==
    ASSUME MediaInv, StartPipeline
    PROVE  MediaInv'
<1>0. MediaTypeOK /\ RunsFirst /\ Keeps /\ Makes /\ Clears
    BY DEF MediaInv
<1>1. /\ need = "start" /\ need' = "none" /\ running' = (running \/ connPipeline)
      /\ missed' = (missed \/ (connPipeline /\ \E d \in Dropper : drop[d] \in Late))
      /\ UNCHANGED <<attempt, scPipeline, connPipeline, appSink, pad, drop, bus, abort>>
    BY <1>0 DEF StartPipeline, MediaTypeOK, fields
<1>2. MediaTypeOK'
    BY <1>0, <1>1 DEF MediaTypeOK
<1>3. RunsFirst'
    BY <1>0, <1>1
       DEF RunsFirst, NothingThere, HandlerRuns, Media, Late, Dropper, MediaTypeOK,
           DropStage
<1>4. Keeps'
    BY <1>0, <1>1
       DEF Keeps, Late, RunsFirst, Makes, Clears, NothingThere, Dropper, MediaTypeOK,
           DropStage
<1>5. Makes'
    BY <1>0, <1>1
       DEF Makes, NothingThere, RunsFirst, Keeps, Clears, Late, Dropper, MediaTypeOK,
           DropStage
<1>6. Clears'
    BY <1>0, <1>1
       DEF Clears, Clearing, RunsFirst, Keeps, Makes, NothingThere, Late, Dropper,
           MediaTypeOK, DropStage
<1> QED
    BY <1>2, <1>3, <1>4, <1>5, <1>6 DEF MediaInv

(* Pads are added and handled without a change of the pipeline.            *)
LEMMA PadsKeep ==
    ASSUME MediaInv,
           \/ \E m \in Media : WebrtcbinAddsPad(m) \/ on_webrtcbin_pad_added(m)
           \/ DecodebinAddsPad
           \/ handle_media_stream
    PROVE  MediaInv'
<1>1. MediaTypeOK /\ RunsFirst /\ Keeps /\ Makes /\ Clears
    BY DEF MediaInv
<1>2. UNCHANGED <<attempt, need, scPipeline, connPipeline, running, drop, bus, abort, missed>>
    BY DEF WebrtcbinAddsPad, on_webrtcbin_pad_added, DecodebinAddsPad,
           handle_media_stream, PadGoes
<1>3. running
    BY <1>1 DEF RunsFirst, HandlerRuns, Media, WebrtcbinAddsPad, on_webrtcbin_pad_added,
           DecodebinAddsPad, handle_media_stream, PadGoes
<1>4. MediaTypeOK'
    <2>1. /\ pad' \in [Media -> {"none", "added", "decoding", "exposed", "playing"}]
          /\ pad'["audio"] \in {"none", "added", "playing"} /\ appSink' \in BOOLEAN
        BY <1>1 DEF MediaTypeOK, Media, WebrtcbinAddsPad, on_webrtcbin_pad_added, ChainOf,
               DecodebinAddsPad, handle_media_stream, PadGoes
    <2> QED
        BY <1>1, <1>2, <2>1 DEF MediaTypeOK
<1>5. RunsFirst'
    BY <1>1, <1>2, <1>3 DEF RunsFirst, NothingThere
<1>6. Keeps' /\ Makes' /\ Clears'
    BY <1>1, <1>2, <1>3 DEF Keeps, Makes, Clears, Late, NothingThere
<1> QED
    BY <1>4, <1>5, <1>6 DEF MediaInv

LEMMA BusKeeps ==
    ASSUME MediaInv, PostFatal \/ gst_bus_cb
    PROVE  MediaInv'
<1>1. MediaTypeOK /\ RunsFirst /\ Keeps /\ Makes /\ Clears
    BY DEF MediaInv
<1>2. /\ running /\ bus' \in {"empty", "fatal"} /\ abort' \in {"no", "bus", "null", "egl"}
      /\ UNCHANGED <<attempt, need, scPipeline, connPipeline, running, appSink, pad, drop, missed>>
    BY <1>1 DEF PostFatal, gst_bus_cb, fields, MediaTypeOK, RunsFirst
<1>3. MediaTypeOK'
    BY <1>1, <1>2 DEF MediaTypeOK
<1>4. RunsFirst' /\ Keeps' /\ Makes' /\ Clears'
    BY <1>1, <1>2 DEF RunsFirst, HandlerRuns, Keeps, Makes, Clears, NothingThere
<1> QED
    BY <1>3, <1>4 DEF MediaInv

(* The steps of a drop, each as what it does to the stage of the drop and  *)
(* to the one thing it changes besides.                                    *)
LEMMA DropBeginsKeeps ==
    ASSUME MediaInv, NEW d \in Dropper, DropBegins(d)
    PROVE  MediaInv'
<1>0. MediaTypeOK /\ RunsFirst /\ Keeps /\ Makes /\ Clears
    BY DEF MediaInv
<1>1. /\ drop[d] = "idle" /\ drop'[d] = "test" /\ drop' \in [Dropper -> DropStage]
      /\ \A e \in Dropper : e # d => drop'[e] = drop[e]
      /\ attempt' = FALSE
      /\ UNCHANGED <<need, scPipeline, connPipeline, running, appSink, pad, bus,
                     abort, missed>>
    BY <1>0 DEF DropBegins, Dropper, DropStage, MediaTypeOK, fields
<1>2. MediaTypeOK'
    BY <1>0, <1>1 DEF MediaTypeOK
<1>3. RunsFirst'
    BY <1>0, <1>1
       DEF RunsFirst, NothingThere, HandlerRuns, Media, Late, Dropper, MediaTypeOK,
           DropStage
<1>4. Keeps'
    BY <1>0, <1>1
       DEF Keeps, Late, RunsFirst, Makes, Clears, NothingThere, Dropper, MediaTypeOK,
           DropStage
<1>5. Makes'
    BY <1>0, <1>1
       DEF Makes, NothingThere, RunsFirst, Keeps, Clears, Late, Dropper, MediaTypeOK,
           DropStage
<1>6. Clears'
    BY <1>0, <1>1
       DEF Clears, Clearing, RunsFirst, Keeps, Makes, NothingThere, Late, Dropper,
           MediaTypeOK, DropStage
<1> QED
    BY <1>2, <1>3, <1>4, <1>5, <1>6 DEF MediaInv

LEMMA DropTestKeeps ==
    ASSUME MediaInv, NEW d \in Dropper, DropTest(d)
    PROVE  MediaInv'
<1>0. MediaTypeOK /\ RunsFirst /\ Keeps /\ Makes /\ Clears
    BY DEF MediaInv
<1>1. /\ drop[d] = "test" /\ drop'[d] = (IF connPipeline THEN "stopConn" ELSE "clearConn")
      /\ drop' \in [Dropper -> DropStage]
      /\ \A e \in Dropper : e # d => drop'[e] = drop[e]
      /\ missed' = (missed \/ (~connPipeline /\ need \in {"connected", "made"}))
      /\ UNCHANGED <<attempt, need, scPipeline, connPipeline, running, appSink, pad, bus, abort>>
    BY <1>0 DEF DropTest, StopFirst, DropGoes, Dropper, DropStage, MediaTypeOK, fields
<1>2. MediaTypeOK'
    BY <1>0, <1>1 DEF MediaTypeOK
<1>3. RunsFirst'
    BY <1>0, <1>1
       DEF RunsFirst, NothingThere, HandlerRuns, Media, Late, Dropper, MediaTypeOK,
           DropStage
<1>4. Keeps'
    BY <1>0, <1>1
       DEF Keeps, Late, RunsFirst, Makes, Clears, NothingThere, Dropper, MediaTypeOK,
           DropStage
<1>5. Makes'
    BY <1>0, <1>1
       DEF Makes, NothingThere, RunsFirst, Keeps, Clears, Late, Dropper, MediaTypeOK,
           DropStage
<1>6. Clears'
    BY <1>0, <1>1
       DEF Clears, Clearing, RunsFirst, Keeps, Makes, NothingThere, Late, Dropper,
           MediaTypeOK, DropStage
<1> QED
    BY <1>2, <1>3, <1>4, <1>5, <1>6 DEF MediaInv

LEMMA StopConnPipelineKeeps ==
    ASSUME MediaInv, NEW d \in Dropper, StopConnPipeline(d)
    PROVE  MediaInv'
<1>0. MediaTypeOK /\ RunsFirst /\ Keeps /\ Makes /\ Clears
    BY DEF MediaInv
<1>1. /\ drop[d] = "stopConn" /\ drop'[d] = "stopSc" /\ drop' \in [Dropper -> DropStage]
      /\ \A e \in Dropper : e # d => drop'[e] = drop[e]
      /\ (IF connPipeline THEN ~HandlerRuns /\ running' = FALSE /\ bus' = "empty"
         ELSE UNCHANGED <<running, bus>>)
      /\ UNCHANGED <<attempt, need, scPipeline, connPipeline, appSink, pad, abort, missed>>
    BY <1>0 DEF StopConnPipeline, SetNull, DropGoes, Dropper, DropStage, MediaTypeOK, fields
<1>2. MediaTypeOK'
    BY <1>0, <1>1 DEF MediaTypeOK
<1>3. RunsFirst'
    BY <1>0, <1>1
       DEF RunsFirst, NothingThere, HandlerRuns, Media, Late, Dropper, MediaTypeOK,
           DropStage
<1>4. Keeps'
    BY <1>0, <1>1
       DEF Keeps, Late, RunsFirst, Makes, Clears, NothingThere, Dropper, MediaTypeOK,
           DropStage
<1>5. Makes'
    BY <1>0, <1>1
       DEF Makes, NothingThere, RunsFirst, Keeps, Clears, Late, Dropper, MediaTypeOK,
           DropStage
<1>6. Clears'
    BY <1>0, <1>1
       DEF Clears, Clearing, RunsFirst, Keeps, Makes, NothingThere, Late, Dropper,
           MediaTypeOK, DropStage
<1> QED
    BY <1>2, <1>3, <1>4, <1>5, <1>6 DEF MediaInv

LEMMA StopScPipelineKeeps ==
    ASSUME MediaInv, NEW d \in Dropper, StopScPipeline(d)
    PROVE  MediaInv'
<1>0. MediaTypeOK /\ RunsFirst /\ Keeps /\ Makes /\ Clears
    BY DEF MediaInv
<1>1. /\ drop[d] = "stopSc" /\ drop'[d] = "clearPipeline" /\ drop' \in [Dropper -> DropStage]
      /\ \A e \in Dropper : e # d => drop'[e] = drop[e]
      /\ (IF scPipeline THEN ~HandlerRuns /\ running' = FALSE /\ bus' = "empty"
         ELSE UNCHANGED <<running, bus>>)
      /\ UNCHANGED <<attempt, need, scPipeline, connPipeline, appSink, pad, abort, missed>>
    BY <1>0 DEF StopScPipeline, SetNull, DropGoes, Dropper, DropStage, MediaTypeOK, fields
<1>2. MediaTypeOK'
    BY <1>0, <1>1 DEF MediaTypeOK
<1>3. RunsFirst'
    BY <1>0, <1>1
       DEF RunsFirst, NothingThere, HandlerRuns, Media, Late, Dropper, MediaTypeOK,
           DropStage
<1>4. Keeps'
    BY <1>0, <1>1
       DEF Keeps, Late, RunsFirst, Makes, Clears, NothingThere, Dropper, MediaTypeOK,
           DropStage
<1>5. Makes'
    BY <1>0, <1>1
       DEF Makes, NothingThere, RunsFirst, Keeps, Clears, Late, Dropper, MediaTypeOK,
           DropStage
<1>6. Clears'
    BY <1>0, <1>1
       DEF Clears, Clearing, RunsFirst, Keeps, Makes, NothingThere, Late, Dropper,
           MediaTypeOK, DropStage
<1> QED
    BY <1>2, <1>3, <1>4, <1>5, <1>6 DEF MediaInv

LEMMA ClearPipelineKeeps ==
    ASSUME MediaInv, NEW d \in Dropper, ClearPipeline(d, "clearPipeline", "clearSink")
    PROVE  MediaInv'
<1>0. MediaTypeOK /\ RunsFirst /\ Keeps /\ Makes /\ Clears
    BY DEF MediaInv
<1>1. /\ drop[d] = "clearPipeline" /\ drop'[d] = "clearSink" /\ drop' \in [Dropper -> DropStage]
      /\ \A e \in Dropper : e # d => drop'[e] = drop[e]
      /\ scPipeline' = FALSE
      /\ UNCHANGED <<attempt, need, connPipeline, running, appSink, pad, bus, abort, missed>>
    BY <1>0 DEF ClearPipeline, DropGoes, Dropper, DropStage, MediaTypeOK, fields
<1>2. MediaTypeOK'
    BY <1>0, <1>1 DEF MediaTypeOK
<1>3. RunsFirst'
    BY <1>0, <1>1
       DEF RunsFirst, NothingThere, HandlerRuns, Media, Late, Dropper, MediaTypeOK,
           DropStage
<1>4. Keeps'
    BY <1>0, <1>1
       DEF Keeps, Late, RunsFirst, Makes, Clears, NothingThere, Dropper, MediaTypeOK,
           DropStage
<1>5. Makes'
    BY <1>0, <1>1
       DEF Makes, NothingThere, RunsFirst, Keeps, Clears, Late, Dropper, MediaTypeOK,
           DropStage
<1>6. Clears'
    BY <1>0, <1>1
       DEF Clears, Clearing, RunsFirst, Keeps, Makes, NothingThere, Late, Dropper,
           MediaTypeOK, DropStage
<1> QED
    BY <1>2, <1>3, <1>4, <1>5, <1>6 DEF MediaInv

LEMMA ClearSinkKeeps ==
    ASSUME MediaInv, NEW d \in Dropper, ClearSink(d, "clearSink", "clearConn")
    PROVE  MediaInv'
<1>0. MediaTypeOK /\ RunsFirst /\ Keeps /\ Makes /\ Clears
    BY DEF MediaInv
<1>1. /\ drop[d] = "clearSink" /\ drop'[d] = "clearConn" /\ drop' \in [Dropper -> DropStage]
      /\ \A e \in Dropper : e # d => drop'[e] = drop[e]
      /\ appSink' = FALSE
      /\ UNCHANGED <<attempt, need, scPipeline, connPipeline, running, pad, bus, abort, missed>>
    BY <1>0 DEF ClearSink, DropGoes, Dropper, DropStage, MediaTypeOK, fields
<1>2. MediaTypeOK'
    BY <1>0, <1>1 DEF MediaTypeOK
<1>3. RunsFirst'
    BY <1>0, <1>1
       DEF RunsFirst, NothingThere, HandlerRuns, Media, Late, Dropper, MediaTypeOK,
           DropStage
<1>4. Keeps'
    BY <1>0, <1>1
       DEF Keeps, Late, RunsFirst, Makes, Clears, NothingThere, Dropper, MediaTypeOK,
           DropStage
<1>5. Makes'
    BY <1>0, <1>1
       DEF Makes, NothingThere, RunsFirst, Keeps, Clears, Late, Dropper, MediaTypeOK,
           DropStage
<1>6. Clears'
    BY <1>0, <1>1
       DEF Clears, Clearing, RunsFirst, Keeps, Makes, NothingThere, Late, Dropper,
           MediaTypeOK, DropStage
<1> QED
    BY <1>2, <1>3, <1>4, <1>5, <1>6 DEF MediaInv

LEMMA ClearConnKeeps ==
    ASSUME MediaInv, NEW d \in Dropper, ClearConn(d)
    PROVE  MediaInv'
<1>0. MediaTypeOK /\ RunsFirst /\ Keeps /\ Makes /\ Clears
    BY DEF MediaInv
<1>1. /\ drop[d] = "clearConn" /\ drop'[d] = (IF d = "stop" THEN "lastPipeline" ELSE "idle")
      /\ drop' \in [Dropper -> DropStage]
      /\ \A e \in Dropper : e # d => drop'[e] = drop[e]
      /\ connPipeline' = FALSE
      /\ UNCHANGED <<attempt, need, scPipeline, running, appSink, pad, bus, abort, missed>>
    BY <1>0 DEF ClearConn, DropGoes, Dropper, DropStage, MediaTypeOK, fields
<1>2. MediaTypeOK'
    BY <1>0, <1>1 DEF MediaTypeOK
<1>3. RunsFirst'
    BY <1>0, <1>1
       DEF RunsFirst, NothingThere, HandlerRuns, Media, Late, Dropper, MediaTypeOK,
           DropStage
<1>4. Keeps'
    BY <1>0, <1>1
       DEF Keeps, Late, RunsFirst, Makes, Clears, NothingThere, Dropper, MediaTypeOK,
           DropStage
<1>5. Makes'
    BY <1>0, <1>1
       DEF Makes, NothingThere, RunsFirst, Keeps, Clears, Late, Dropper, MediaTypeOK,
           DropStage
<1>6. Clears'
    BY <1>0, <1>1
       DEF Clears, Clearing, RunsFirst, Keeps, Makes, NothingThere, Late, Dropper,
           MediaTypeOK, DropStage
<1> QED
    BY <1>2, <1>3, <1>4, <1>5, <1>6 DEF MediaInv

(* What my_stream_client_stop does before its disconnect and after it.     *)
LEMMA StopBeginsKeeps ==
    ASSUME MediaInv, StopBegins
    PROVE  MediaInv'
<1>0. MediaTypeOK /\ RunsFirst /\ Keeps /\ Makes /\ Clears
    BY DEF MediaInv
<1>1. /\ drop["stop"] = "idle" /\ drop'["stop"] = "own" /\ drop' \in [Dropper -> DropStage]
      /\ \A e \in Dropper : e # "stop" => drop'[e] = drop[e]
      /\ TRUE
      /\ UNCHANGED <<attempt, need, scPipeline, connPipeline, running, appSink, pad, bus,
                     abort, missed>>
    BY <1>0 DEF StopBegins, DropGoes, Dropper, DropStage, MediaTypeOK, fields
<1>2. MediaTypeOK'
    BY <1>0, <1>1 DEF MediaTypeOK
<1>3. RunsFirst'
    BY <1>0, <1>1
       DEF RunsFirst, NothingThere, HandlerRuns, Media, Late, Dropper, MediaTypeOK,
           DropStage
<1>4. Keeps'
    BY <1>0, <1>1
       DEF Keeps, Late, RunsFirst, Makes, Clears, NothingThere, Dropper, MediaTypeOK,
           DropStage
<1>5. Makes'
    BY <1>0, <1>1
       DEF Makes, NothingThere, RunsFirst, Keeps, Clears, Late, Dropper, MediaTypeOK,
           DropStage
<1>6. Clears'
    BY <1>0, <1>1
       DEF Clears, Clearing, RunsFirst, Keeps, Makes, NothingThere, Late, Dropper,
           MediaTypeOK, DropStage
<1> QED
    BY <1>2, <1>3, <1>4, <1>5, <1>6 DEF MediaInv

LEMMA StopOwnPipelineKeeps ==
    ASSUME MediaInv, StopOwnPipeline
    PROVE  MediaInv'
<1>0. MediaTypeOK /\ RunsFirst /\ Keeps /\ Makes /\ Clears
    BY DEF MediaInv
<1>1. /\ drop["stop"] = "own" /\ drop'["stop"] = "test" /\ drop' \in [Dropper -> DropStage]
      /\ \A e \in Dropper : e # "stop" => drop'[e] = drop[e]
      /\ attempt' = FALSE
      /\ (IF scPipeline THEN ~HandlerRuns /\ running' = FALSE /\ bus' = "empty"
         ELSE UNCHANGED <<running, bus>>)
      /\ UNCHANGED <<need, scPipeline, connPipeline, appSink, pad, abort, missed>>
    BY <1>0 DEF StopOwnPipeline, SetNull, DropGoes, Dropper, DropStage, MediaTypeOK, fields
<1>2. MediaTypeOK'
    BY <1>0, <1>1 DEF MediaTypeOK
<1>3. RunsFirst'
    BY <1>0, <1>1
       DEF RunsFirst, NothingThere, HandlerRuns, Media, Late, Dropper, MediaTypeOK,
           DropStage
<1>4. Keeps'
    BY <1>0, <1>1
       DEF Keeps, Late, RunsFirst, Makes, Clears, NothingThere, Dropper, MediaTypeOK,
           DropStage
<1>5. Makes'
    BY <1>0, <1>1
       DEF Makes, NothingThere, RunsFirst, Keeps, Clears, Late, Dropper, MediaTypeOK,
           DropStage
<1>6. Clears'
    BY <1>0, <1>1
       DEF Clears, Clearing, RunsFirst, Keeps, Makes, NothingThere, Late, Dropper,
           MediaTypeOK, DropStage
<1> QED
    BY <1>2, <1>3, <1>4, <1>5, <1>6 DEF MediaInv

LEMMA LastPipelineKeeps ==
    ASSUME MediaInv, ClearPipeline("stop", "lastPipeline", "lastSink")
    PROVE  MediaInv'
<1>0. MediaTypeOK /\ RunsFirst /\ Keeps /\ Makes /\ Clears
    BY DEF MediaInv
<1>1. /\ drop["stop"] = "lastPipeline" /\ drop'["stop"] = "lastSink"
      /\ drop' \in [Dropper -> DropStage]
      /\ \A e \in Dropper : e # "stop" => drop'[e] = drop[e]
      /\ scPipeline' = FALSE
      /\ UNCHANGED <<attempt, need, connPipeline, running, appSink, pad, bus, abort, missed>>
    BY <1>0 DEF ClearPipeline, DropGoes, Dropper, DropStage, MediaTypeOK, fields
<1>2. MediaTypeOK'
    BY <1>0, <1>1 DEF MediaTypeOK
<1>3. RunsFirst'
    BY <1>0, <1>1
       DEF RunsFirst, NothingThere, HandlerRuns, Media, Late, Dropper, MediaTypeOK,
           DropStage
<1>4. Keeps'
    BY <1>0, <1>1
       DEF Keeps, Late, RunsFirst, Makes, Clears, NothingThere, Dropper, MediaTypeOK,
           DropStage
<1>5. Makes'
    BY <1>0, <1>1
       DEF Makes, NothingThere, RunsFirst, Keeps, Clears, Late, Dropper, MediaTypeOK,
           DropStage
<1>6. Clears'
    BY <1>0, <1>1
       DEF Clears, Clearing, RunsFirst, Keeps, Makes, NothingThere, Late, Dropper,
           MediaTypeOK, DropStage
<1> QED
    BY <1>2, <1>3, <1>4, <1>5, <1>6 DEF MediaInv

LEMMA LastSinkKeeps ==
    ASSUME MediaInv, ClearSink("stop", "lastSink", "idle")
    PROVE  MediaInv'
<1>0. MediaTypeOK /\ RunsFirst /\ Keeps /\ Makes /\ Clears
    BY DEF MediaInv
<1>1. /\ drop["stop"] = "lastSink" /\ drop'["stop"] = "idle" /\ drop' \in [Dropper -> DropStage]
      /\ \A e \in Dropper : e # "stop" => drop'[e] = drop[e]
      /\ appSink' = FALSE
      /\ UNCHANGED <<attempt, need, scPipeline, connPipeline, running, pad, bus, abort, missed>>
    BY <1>0 DEF ClearSink, DropGoes, Dropper, DropStage, MediaTypeOK, fields
<1>2. MediaTypeOK'
    BY <1>0, <1>1 DEF MediaTypeOK
<1>3. RunsFirst'
    BY <1>0, <1>1
       DEF RunsFirst, NothingThere, HandlerRuns, Media, Late, Dropper, MediaTypeOK,
           DropStage
<1>4. Keeps'
    BY <1>0, <1>1
       DEF Keeps, Late, RunsFirst, Makes, Clears, NothingThere, Dropper, MediaTypeOK,
           DropStage
<1>5. Makes'
    BY <1>0, <1>1
       DEF Makes, NothingThere, RunsFirst, Keeps, Clears, Late, Dropper, MediaTypeOK,
           DropStage
<1>6. Clears'
    BY <1>0, <1>1
       DEF Clears, Clearing, RunsFirst, Keeps, Makes, NothingThere, Late, Dropper,
           MediaTypeOK, DropStage
<1> QED
    BY <1>2, <1>3, <1>4, <1>5, <1>6 DEF MediaInv

LEMMA MediaNextKeeps ==
    ASSUME MediaInv, MediaNext
    PROVE  MediaInv'
<1>1. CASE DataChannelEnds
    BY <1>1, DropBeginsKeeps DEF DataChannelEnds, Dropper
<1>2. CASE \E d \in Dropper : DropStep(d)
    BY <1>2, DropTestKeeps, StopConnPipelineKeeps, StopScPipelineKeeps, ClearPipelineKeeps,
       ClearSinkKeeps, ClearConnKeeps DEF DropStep
<1>3. CASE StopStep
    BY <1>3, StopOwnPipelineKeeps, LastPipelineKeeps, LastSinkKeeps DEF StopStep
<1> QED
    BY <1>1, <1>2, <1>3, ConnectedCbKeeps, on_need_pipeline_cbKeeps, SetPipelineKeeps,
       PipelineTestKeeps, StartPipelineKeeps, PadsKeep, BusKeeps DEF MediaNext

LEMMA MediaStutters == MediaInv /\ UNCHANGED mediaVars => MediaInv'
BY MediaSame DEF MediaInv, MediaTypeOK, mediaVars, fields

----------------------------------------------------------------------------
(* The process.                                                            *)
LEMMA InitIInv == Init => IInv
<1> SUFFICES ASSUME Init
             PROVE  IInv
    OBVIOUS
<1>1. ActivityInv /\ MediaInv
    BY ActivityInitInv, MediaInitInv DEF Init
<1>2. egl \in 0 .. nWindows
    BY DEF Init, ActivityInit
<1>3. ClientTypeOK
    <2>1. renderer \in 0 .. 2 /\ objects \subseteq 1 .. 2
        BY DEF Init
    <2>2. client \in BOOLEAN
        BY DEF Init
    <2> QED
        BY <1>2, <2>1, <2>2 DEF ClientTypeOK
<1>4. WindowInv
    BY DEF Init, ActivityInit, WindowInv
<1> QED
    BY <1>1, <1>3, <1>4 DEF IInv

(* A new window: a new EglData, whose context has the new renderer's       *)
(* object whatever name the old one's destructor deleted.                  *)
LEMMA NewObject ==
    ASSUME OpenWindow
    PROVE  renderer' = 1 /\ objects' = {1}
BY DEF OpenWindow, ResetThenSetUp, FreshName

LEMMA HandleCommandKeeps ==
    ASSUME IInv, HandleCommand
    PROVE  IInv'
<1>1. ActivityInv'
    BY TakeCommandKeeps DEF IInv, HandleCommand
<1>2. nWindows' = nWindows /\ loopPc' # "draw" /\ abort = "no"
    BY DEF HandleCommand, TakeCommand, frameworkVars, AppRuns
<1>3. CASE cmd = "init" /\ OpenWindow
    <2>1. NewStreamClient
        BY <1>3 DEF OpenWindow
    <2>2. MediaInv'
        BY <2>1, NewStreamClientKeeps DEF IInv
    <2>3. egl' = window' /\ client' = TRUE /\ renderer' = 1 /\ objects' = {1}
        BY <1>3, NewObject DEF OpenWindow
    <2>4. window' \in 0 .. nWindows'
        BY <1>1 DEF ActivityInv, ActivityTypeOK
    <2>5. ClientTypeOK' /\ WindowInv'
        BY <1>2, <2>3, <2>4 DEF ClientTypeOK, WindowInv
    <2> QED
        BY <1>1, <2>2, <2>5 DEF IInv
<1>4. CASE cmd = "init" /\ WindowFails
    <2>1. MediaInv'
        BY <1>4, MediaSame DEF IInv, WindowFails
    <2>2. Waits
        BY <1>4 DEF IInv, ActivityInv, InStep, Waits
    <2>3. loopPc' = "poll" /\ abort' = "egl"
        BY <1>4, <2>2 DEF HandleCommand, TakeCommand, WindowFails
    <2>4. UNCHANGED clientVars
        BY <1>4 DEF WindowFails
    <2>5. ClientTypeOK' /\ WindowInv'
        BY <1>2, <2>3, <2>4 DEF IInv, ClientTypeOK, WindowInv, clientVars
    <2> QED
        BY <1>1, <2>1, <2>5 DEF IInv
<1>5. CASE cmd # "init"
    <2>1. UNCHANGED clientVars
        BY <1>5 DEF HandleCommand, onAppCmd
    <2>2. MediaInv'
        <3>1. CASE cmd \in {"stop", "term"}
            BY <3>1, DropBeginsKeeps DEF IInv, HandleCommand, onAppCmd, Dropper
        <3>2. CASE cmd \notin {"stop", "term"}
            BY <1>5, <3>2, MediaStutters DEF IInv, HandleCommand, onAppCmd
        <3> QED
            BY <3>1, <3>2
    <2>3. window' \in {0, window}
        BY <1>5 DEF HandleCommand, TakeCommand
    <2>4. ClientTypeOK' /\ WindowInv'
        BY <1>2, <2>1, <2>3 DEF IInv, ClientTypeOK, WindowInv, clientVars
    <2> QED
        BY <1>1, <2>2, <2>4 DEF IInv
<1> QED
    BY <1>3, <1>4, <1>5 DEF HandleCommand, onAppCmd

(* Steps of the render loop change neither the window nor what is drawn.   *)
LEMMA LoopKeeps ==
    ASSUME IInv, android_main \/ PollEnds \/ NothingToRender \/ PullSample \/ Draw
    PROVE  IInv'
<1>1. ActivityInv'
    BY OnlyPcKeeps, PollKeeps, LoopAgainKeeps
       DEF IInv, android_main, PollEnds, NothingToRender, PullSample, Draw
<1>2. UNCHANGED <<mediaVars, clientVars, frameworkVars, appVars>>
    BY DEF android_main, PollEnds, PollTimesOut, PollWoken, NothingToRender, PullSample, Draw,
           LoopAgain
<1>3. loopPc' = "draw" => egl # 0
    BY DEF android_main, PollEnds, PollTimesOut, PollWoken, NothingToRender, PullSample, Draw,
           LoopAgain, RenderReady
<1>4. MediaInv' /\ abort = "no"
    BY <1>2, MediaStutters
       DEF IInv, android_main, PollEnds, NothingToRender, PullSample, Draw, AppRuns
<1>5. ClientTypeOK' /\ WindowInv'
    BY <1>2, <1>3, <1>4 DEF IInv, ClientTypeOK, WindowInv, clientVars, frameworkVars, appVars
<1> QED
    BY <1>1, <1>4, <1>5 DEF IInv

LEMMA MakeCurrentThrowsKeeps ==
    ASSUME IInv, MakeCurrentThrows
    PROVE  IInv'
<1>1. ActivityInv'
    BY StutterKeepsActivity DEF IInv, MakeCurrentThrows
<1>2. MediaInv'
    BY MediaSame DEF IInv, MakeCurrentThrows
<1>3. ClientTypeOK' /\ WindowInv'
    BY DEF IInv, ClientTypeOK, WindowInv, MakeCurrentThrows, activityVars, clientVars
<1> QED
    BY <1>1, <1>2, <1>3 DEF IInv

(* The end of android_main comes to an activity without window.            *)
LEMMA DestroyKeeps ==
    ASSUME IInv, DestroyClient \/ DestroyEgl
    PROVE  IInv'
<1>1. CASE DestroyClient
    <2>1. ActivityInv'
        BY <1>1, StutterKeepsActivity DEF IInv, DestroyClient
    <2>2. MediaInv'
        BY <1>1, StopBeginsKeeps DEF IInv, DestroyClient
    <2>3. ClientTypeOK' /\ WindowInv'
        BY <1>1 DEF IInv, ClientTypeOK, WindowInv, DestroyClient, AppRuns, activityVars
    <2> QED
        BY <2>1, <2>2, <2>3 DEF IInv
<1>2. CASE DestroyEgl
    <2>1. ActivityInv'
        BY <1>2, MainReturnsKeeps DEF IInv, DestroyEgl
    <2>2. MediaInv'
        BY <1>2, MediaStutters DEF IInv, DestroyEgl
    <2>3. window' = 0 /\ loopPc' = "ended" /\ nWindows' = nWindows
        BY <1>2 DEF IInv, ActivityInv, DestroyedLast, DestroyEgl, MainReturns, appVars
    <2>4. nWindows \in Nat
        BY DEF IInv, ActivityInv, ActivityTypeOK
    <2>5. ClientTypeOK' /\ WindowInv'
        BY <1>2, <2>3, <2>4 DEF IInv, ClientTypeOK, WindowInv, DestroyEgl
    <2> QED
        BY <2>1, <2>2, <2>5 DEF IInv
<1> QED
    BY <1>1, <1>2

LEMMA FrameworkStepKeeps ==
    ASSUME IInv, FrameworkStep
    PROVE  IInv'
<1>1. ActivityInv'
    BY FrameworkKeeps DEF IInv, FrameworkStep
<1>2. MediaInv'
    BY MediaStutters DEF IInv, FrameworkStep
<1>3. /\ nWindows' \in {nWindows, nWindows + 1} /\ nWindows \in Nat
      /\ window' \in {0, window} /\ (loopPc' = "draw" => loopPc = "draw")
    BY DEF IInv, ActivityInv, ActivityTypeOK, FrameworkStep, Framework, Relaunch, CallsActivity,
           GivesSurface, TakesSurface, frameworkVars, appVars
<1>4. UNCHANGED clientVars /\ abort = "no"
    BY DEF FrameworkStep
<1>5. ClientTypeOK' /\ WindowInv'
    BY <1>3, <1>4 DEF IInv, ClientTypeOK, WindowInv, clientVars
<1> QED
    BY <1>1, <1>2, <1>5 DEF IInv

LEMMA MediaStepKeeps ==
    ASSUME IInv, MediaStep
    PROVE  IInv'
<1>1. ActivityInv' /\ MediaInv'
    BY StutterKeepsActivity, MediaNextKeeps DEF IInv, MediaStep
<1>2. ClientTypeOK' /\ WindowInv'
    BY DEF IInv, ClientTypeOK, WindowInv, MediaStep, activityVars, clientVars
<1> QED
    BY <1>1, <1>2 DEF IInv

LEMMA StutterKeeps == IInv /\ UNCHANGED vars => IInv'
<1> SUFFICES ASSUME IInv, UNCHANGED vars
             PROVE  IInv'
    OBVIOUS
<1>1. ActivityInv' /\ MediaInv'
    BY StutterKeepsActivity, MediaStutters DEF IInv, vars
<1>2. ClientTypeOK' /\ WindowInv'
    BY DEF IInv, ClientTypeOK, WindowInv, vars, activityVars, mediaVars, clientVars
<1> QED
    BY <1>1, <1>2 DEF IInv

LEMMA StepIInv == IInv /\ [Next]_vars => IInv'
BY HandleCommandKeeps, LoopKeeps, MakeCurrentThrowsKeeps, DestroyKeeps, FrameworkStepKeeps,
   MediaStepKeeps, StutterKeeps DEF Next

----------------------------------------------------------------------------
(* The strengthened invariant holds in every reachable state.              *)
THEOREM Invariance == Spec => []IInv
BY InitIInv, StepIInv, PTL DEF Spec

(* Every variable keeps its type; above all an audio pad never comes to a  *)
(* decodebin3, nor the GL names past the two that exist at once.           *)
THEOREM TypeCorrect == Spec => []TypeOK
<1>1. IInv => TypeOK
    BY DEF IInv, ActivityInv, MediaInv, ClientTypeOK, TypeOK
<1> QED
    BY <1>1, Invariance, PTL

(* Unless its poll was interrupted, the loop makes current the window      *)
(* that the activity has.                                                  *)
THEOREM RenderLoopHasWindow == Spec => []RendersOnLiveWindow
<1>1. IInv => RendersOnLiveWindow
    BY DEF IInv, ActivityInv, RenderHasWindow, WindowInv, RendersOnLiveWindow
<1> QED
    BY <1>1, Invariance, PTL

(* The renderer draws with objects of the context it draws in.             *)
THEOREM RendererOwnsObjects == Spec => []DrawsOwnObjects
<1>1. IInv => DrawsOwnObjects
    BY DEF IInv, WindowInv, DrawsOwnObjects
<1> QED
    BY <1>1, Invariance, PTL

(* No thread takes the pipeline away from under a pad handler.             *)
THEOREM HandlersKeepPipeline == Spec => []PadHandlersHavePipeline
<1>1. IInv => PadHandlersHavePipeline
    BY DEF IInv, MediaInv, RunsFirst, Keeps, PadHandlersHavePipeline
<1> QED
    BY <1>1, Invariance, PTL

----------------------------------------------------------------------------
(* What a drop leaves behind.                                              *)

(* Until the pipeline is made, and once no thread makes it or is inside a  *)
(* drop any more, nothing that does not run is there: the threads that     *)
(* drop, each in its own place, before and while the pipeline is made and  *)
(* between handlers for pads, forget no field between them, unless a drop  *)
(* and the making missed each other.                                       *)
DropsLeaveNothing ==
    ~missed /\ need = "none" /\ ~running /\ (\A d \in Dropper : drop[d] = "idle") =>
        NothingThere

(* Of the pipeline of a stream client nothing is there before it is made   *)
(* and nothing is left once it was dropped, by one thread or by several.   *)
THEOREM DropIsComplete == Spec => []DropsLeaveNothing
<1>1. IInv => DropsLeaveNothing
    BY DEF IInv, MediaInv, MediaTypeOK, RunsFirst, Makes, Clears, Clearing, DropsLeaveNothing,
           NothingThere
<1> QED
    BY <1>1, Invariance, PTL
=============================================================================
