------------------------------ MODULE ClientApp ------------------------------
(***************************************************************************)
(* The client application around the connection: the stream client's life  *)
(* in src/src/client/stream_client.c and the applications that own it,     *)
(* src/android_client/src/main.cpp and src/src/client/client_pipeline.c.   *)
(*                                                                         *)
(* Every window of the Android client makes a connection and a stream      *)
(* client, the pair w; the desktop client makes one pair and has no more   *)
(* behaviours than one window has.  Three kinds of thread meet: the        *)
(* application's, the one that runs the default main context, and that of  *)
(* each webrtcbin, when its data channel ends.  Whatever two of them do to *)
(* the same pair goes one statement at a time: the completion of an        *)
(* attempt, conn_disconnect_internal with the handler it calls, stop and   *)
(* dispose.  The connection proper is module Connection; here it is what   *)
(* the stream client shares with it, the pipeline above all, with its      *)
(* reference count.                                                        *)
(***************************************************************************)
EXTENDS Integers

CONSTANT MaxWindows     \* bound: windows opened

ASSUME WindowsAssumption == MaxWindows \in Nat

Pair == 1 .. MaxWindows

(* The threads that may be in conn_disconnect_internal; the one that       *)
(* carries the number of a pair is that of its webrtcbin.                  *)
APP == 0
LOOP == MaxWindows + 1
Thread == 0 .. MaxWindows + 1

VARIABLES
    window,     \* the framework has given the app a window
    appPc,      \* where the application's thread is
    made,       \* pairs made so far
    cur,        \* my_state: the pair it points to, 0 for none
    sc,         \* the stream client of a pair
    handlers,   \* pairs whose stream client listens to its connection
    threads,    \* pairs whose play_thread is in g_main_loop_run
    attempt,    \* the connection's websocket attempt
    sockets,    \* pairs whose connection has had a websocket
    scPipe,     \* pairs with sc->pipeline set
    connPipe,   \* pairs with conn->pipeline set
    playing,    \* pairs whose pipeline runs
    refs,       \* references to the pipeline of a pair
    drop,       \* where a thread is in conn_disconnect_internal
    loopPc, loopConn,   \* conn_websocket_connected_cb, and on whose behalf
    fault,      \* what ended the process, or "none"
    \* history
    handed,     \* pairs whose pipeline was handed over
    crossed,    \* pairs whose callback met a disconnect or a stop
    raced       \* pairs whose pipeline was started in the middle of a drop

appVars == <<window, made, cur, sc, handlers, threads>>
pipeVars == <<scPipe, connPipe, playing, refs>>
history == <<handed, crossed, raced>>
vars == <<appVars, pipeVars, history, appPc, attempt, sockets, drop, loopPc, loopConn,
          fault>>

AppPc == {"idle", "made", "connecting", "dropping", "stopping", "disconnecting",
          "disconnected", "stopped", "cleared", "freeing"}
DropStage == {"idle", "test", "stop", "emit", "handler", "clear"}
LoopPc == {"idle", "connected", "made", "emitted", "start", "dropping", "stuck"}

Init ==
    /\ window = FALSE /\ appPc = "idle" /\ made = 0 /\ cur = 0
    /\ sc = [w \in Pair |-> "none"]
    /\ handlers = {} /\ threads = {}
    /\ attempt = [w \in Pair |-> "none"]
    /\ sockets = {} /\ scPipe = {} /\ connPipe = {} /\ playing = {}
    /\ refs = [w \in Pair |-> 0]
    /\ drop = [t \in Thread |-> "idle"]
    /\ loopPc = "idle" /\ loopConn = 0
    /\ fault = "none"
    /\ handed = {} /\ crossed = {} /\ raced = {}

TypeOK ==
    /\ window \in BOOLEAN
    /\ appPc \in AppPc
    /\ loopPc \in LoopPc
    /\ {made, cur, loopConn} \subseteq 0 .. MaxWindows
    /\ sc \in [Pair -> {"none", "live", "freed"}]
    /\ attempt \in [Pair -> {"none", "pending", "cancelled"}]
    /\ drop \in [Thread -> DropStage]
    /\ \A s \in {handlers, threads, sockets, scPipe, connPipe, playing, handed, crossed,
                 raced} : s \subseteq Pair
    /\ refs \in [Pair -> -1 .. 1]
    /\ fault \in {"none", "freed", "loop", "null"}

Runs == fault = "none"

(* The loop is in the callback of w; somebody lets go of w.                *)
InCallback(w) == loopConn = w /\ loopPc \in {"connected", "made", "emitted", "start"}
Of(t) == IF t = APP THEN cur ELSE IF t = LOOP THEN loopConn ELSE t
Dropping(w) == \E t \in Thread : Of(t) = w /\ drop[t] # "idle"
Stopping(w) ==
    cur = w /\ appPc \in {"stopping", "disconnecting", "disconnected", "stopped",
                          "cleared", "freeing"}
AtRest(w) == ~InCallback(w) /\ ~Dropping(w) /\ ~Stopping(w)

CrossedBy(w) == crossed' = IF InCallback(w) THEN crossed \cup {w} ELSE crossed

(* gst_clear_object on one of the two fields: nothing to give up if NULL.  *)
GivenUpAlways(field, w) == 1                    \* mutant: no check for NULL
GivenUp(field, w) == IF w \in field THEN 1 ELSE 0

LetGo(field, w) ==
    /\ field' = field \ {w}
    /\ refs' = [refs EXCEPT ![w] = @ - GivenUp(field, w)]

----------------------------------------------------------------------------
(* conn_disconnect_internal on thread t.  Its cancellable is cancelled,    *)
(* and with it an attempt under way.                                       *)
AttemptKept(w) == attempt                       \* mutant: not cancelled
AttemptAfterCancel(w) ==
    [attempt EXCEPT ![w] = IF @ = "pending" THEN "cancelled" ELSE @]

DropBegins(t) ==
    /\ Runs
    /\ drop[t] = "idle"
    /\ drop' = [drop EXCEPT ![t] = "test"]
    /\ attempt' = AttemptAfterCancel(Of(t))

DropGoes(t, from, to) ==
    /\ Runs
    /\ drop[t] = from
    /\ drop' = [drop EXCEPT ![t] = to]
    /\ UNCHANGED <<appVars, attempt, sockets, loopConn, history>>

(* if (conn->pipeline != NULL)                                             *)
DropTests(t) ==
    /\ DropGoes(t, "test", IF Of(t) \in connPipe THEN "stop" ELSE "clear")
    /\ UNCHANGED <<pipeVars, appPc, loopPc, fault>>

(* gst_element_set_state(conn->pipeline, GST_STATE_NULL)                   *)
DropStops(t) ==
    /\ DropGoes(t, "stop", "emit")
    /\ playing' = IF Of(t) \in connPipe THEN playing \ {Of(t)} ELSE playing
    /\ UNCHANGED <<scPipe, connPipe, refs, appPc, loopPc, fault>>

(* The emission of on-drop-pipeline: the connection has a pipeline, so     *)
(* somebody listened.  on_drop_pipeline_cb gets the stream client it was   *)
(* connected with, freed or not, and stops the pipeline it finds there.    *)
DropGivenFreed(t) ==
    /\ Runs
    /\ drop[t] \in {"emit", "handler"}
    /\ Of(t) \in handlers /\ sc[Of(t)] = "freed"
    /\ fault' = "freed"
    /\ UNCHANGED <<appVars, pipeVars, history, appPc, attempt, sockets, drop, loopPc,
                   loopConn>>

on_drop_pipeline_cb(t) ==
    /\ Of(t) \in handlers /\ sc[Of(t)] # "freed"
    /\ DropGoes(t, "emit", "handler")
    /\ playing' = IF Of(t) \in scPipe THEN playing \ {Of(t)} ELSE playing
    /\ UNCHANGED <<scPipe, connPipe, refs, appPc, loopPc, fault>>

(* ... and gives up sc->pipeline.                                          *)
DropForgotten(w) == UNCHANGED <<scPipe, refs>>  \* mutant: sc->pipeline kept
DropLetsGo(w) == LetGo(scPipe, w)

DropClearsOwn(t) ==
    /\ DropGoes(t, "handler", "clear")
    /\ sc[Of(t)] # "freed"
    /\ DropLetsGo(Of(t))
    /\ UNCHANGED <<connPipe, playing, appPc, loopPc, fault>>

(* gst_clear_object(&conn->pipeline), and back to the caller.              *)
DropEnds(t) ==
    /\ DropGoes(t, "clear", "idle")
    /\ LetGo(connPipe, Of(t))
    /\ appPc' = IF t # APP THEN appPc
                ELSE IF appPc = "dropping" THEN "idle" ELSE "disconnected"
    /\ loopPc' = IF t = LOOP THEN "idle" ELSE loopPc
    /\ UNCHANGED <<scPipe, playing, fault>>

DropGoesOn(t) ==
    \/ DropTests(t) \/ DropStops(t) \/ DropGivenFreed(t)
    \/ on_drop_pipeline_cb(t) \/ DropClearsOwn(t) \/ DropEnds(t)

----------------------------------------------------------------------------
(* The application's thread.  A new window: the objects, then the connect, *)
(* then the handlers and the loop thread, as in client_create.             *)
InitWindow ==
    /\ Runs
    /\ appPc = "idle" /\ ~window /\ made < MaxWindows
    /\ window' = TRUE
    /\ made' = made + 1
    /\ cur' = made + 1
    /\ sc' = [sc EXCEPT ![made + 1] = "live"]
    /\ appPc' = "made"
    /\ UNCHANGED <<handlers, threads, pipeVars, history, attempt, sockets, drop, loopPc,
                   loopConn, fault>>

my_connection_connect ==
    /\ Runs
    /\ appPc = "made"
    /\ attempt' = [attempt EXCEPT ![cur] = "pending"]
    /\ appPc' = "connecting"
    /\ UNCHANGED <<appVars, pipeVars, history, sockets, drop, loopPc, loopConn, fault>>

NotStarted == threads                           \* mutant: start not called
Started == threads \cup {cur}

my_stream_client_spawn_thread ==
    /\ Runs
    /\ appPc = "connecting"
    /\ handlers' = handlers \cup {cur}
    /\ threads' = Started
    /\ appPc' = "idle"
    /\ UNCHANGED <<window, made, cur, sc, pipeVars, history, attempt, sockets, drop,
                   loopPc, loopConn, fault>>

(* APP_CMD_TERM_WINDOW and APP_CMD_STOP, or the first call of client_stop. *)
AppStops ==
    /\ appPc = "idle" /\ cur # 0
    /\ DropBegins(APP)
    /\ CrossedBy(cur)
    /\ appPc' = "dropping"
    /\ window' \in {window, FALSE}
    /\ UNCHANGED <<made, cur, sc, handlers, threads, pipeVars, sockets, loopPc, loopConn,
                   handed, raced, fault>>

(* The end of android_main and of client_stop: my_stream_client_destroy.   *)
(* Its dispose calls my_stream_client_stop, which stops its own pipeline,  *)
(* disconnects and lets its pipeline go.                                   *)
StopGoes(from, to) ==
    /\ Runs
    /\ appPc = from
    /\ appPc' = to
    /\ UNCHANGED <<appVars, sockets, loopPc, loopConn, handed, raced>>

StopOwnPipeline ==
    /\ cur # 0 /\ ~window
    /\ StopGoes("idle", "stopping")
    /\ CrossedBy(cur)
    /\ playing' = IF cur \in scPipe THEN playing \ {cur} ELSE playing
    /\ UNCHANGED <<scPipe, connPipe, refs, attempt, drop, fault>>

StopDisconnects ==
    /\ StopGoes("stopping", "disconnecting")
    /\ DropBegins(APP)
    /\ CrossedBy(cur)
    /\ UNCHANGED <<pipeVars, fault>>

StopLetsGo ==
    /\ StopGoes("disconnected", "stopped")
    /\ LetGo(scPipe, cur)
    /\ UNCHANGED <<connPipe, playing, attempt, drop, crossed, fault>>

(* dispose goes on: g_clear_object on sc->loop, which is no GObject, so    *)
(* that the process may end or go on; then the pipeline once more.  The    *)
(* loop itself is not quit and its thread not joined.                      *)
DisposeLoop ==
    /\ StopGoes("stopped", "cleared")
    /\ fault' \in {"none", "loop"}
    /\ UNCHANGED <<pipeVars, attempt, drop, crossed>>

DisposePipeline ==
    /\ StopGoes("cleared", "freeing")
    /\ LetGo(scPipe, cur)
    /\ UNCHANGED <<connPipe, playing, attempt, drop, crossed, fault>>

(* free(sc).  The process may make another window.                         *)
my_stream_client_destroy ==
    /\ Runs
    /\ appPc = "freeing"
    /\ sc' = [sc EXCEPT ![cur] = "freed"]
    /\ cur' = 0
    /\ appPc' = "idle"
    /\ UNCHANGED <<window, made, handlers, threads, pipeVars, history, attempt, sockets,
                   drop, loopPc, loopConn, fault>>

----------------------------------------------------------------------------
(* The thread that runs the default main context: the first play_thread to *)
(* have acquired it, for as long as the process lives.                     *)
LoopReady == Runs /\ threads # {} /\ loopPc = "idle"

ConnectedCb(w) ==
    /\ LoopReady
    /\ attempt[w] = "pending"
    /\ attempt' = [attempt EXCEPT ![w] = "none"]
    /\ sockets' = sockets \cup {w}
    /\ loopPc' = "connected"
    /\ loopConn' = w
    /\ crossed' = IF Dropping(w) \/ Stopping(w) THEN crossed \cup {w} ELSE crossed
    /\ UNCHANGED <<appVars, pipeVars, appPc, drop, handed, raced, fault>>

ConnectFailed(w) ==
    /\ LoopReady
    /\ attempt[w] # "none"
    /\ attempt' = [attempt EXCEPT ![w] = "none"]
    /\ UNCHANGED <<appVars, pipeVars, history, appPc, sockets, drop, loopPc, loopConn,
                   fault>>

(* A text of a socket, perhaps given up already, is an offer, and the      *)
(* connection has no webrtcbin (any more): the loop waits for the reply to *)
(* a promise that nobody got.                                              *)
LateOffer(w) ==
    /\ LoopReady
    /\ w \in sockets /\ w \notin connPipe
    /\ loopPc' = "stuck"
    /\ UNCHANGED <<appVars, pipeVars, history, appPc, attempt, sockets, drop, loopConn,
                   fault>>

(* The rest of the callback, from the emission of on-need-pipeline.        *)
CallbackGoes(from, to) ==
    /\ Runs
    /\ loopPc = from
    /\ loopPc' = to
    /\ UNCHANGED <<appVars, appPc, sockets, loopConn>>

(* on_need_pipeline_cb makes a pipeline ...                                *)
on_need_pipeline_cb ==
    /\ loopConn \in handlers /\ sc[loopConn] = "live"
    /\ CallbackGoes("connected", "made")
    /\ scPipe' = scPipe \cup {loopConn}
    /\ refs' = [refs EXCEPT ![loopConn] = 1]
    /\ UNCHANGED <<connPipe, playing, history, attempt, drop, fault>>

(* ... and emits set-pipeline with what sc->pipeline is by then, which     *)
(* my_connection_set_pipeline asserts is not NULL.  The connection takes   *)
(* the only reference.                                                     *)
SetPipeline ==
    /\ CallbackGoes("made", "emitted")
    /\ sc[loopConn] = "live"
    /\ IF loopConn \in scPipe
       THEN /\ connPipe' = connPipe \cup {loopConn}
            /\ handed' = handed \cup {loopConn}
            /\ fault' = fault
       ELSE /\ fault' = "null"
            /\ UNCHANGED <<connPipe, handed>>
    /\ UNCHANGED <<scPipe, playing, refs, crossed, raced, attempt, drop>>

(* Nobody listens yet, or the listener is gone.                            *)
NeedUnheard ==
    /\ loopConn \notin handlers
    /\ CallbackGoes("connected", "emitted")
    /\ UNCHANGED <<pipeVars, history, attempt, drop, fault>>

NeedGivenFreed ==
    /\ Runs
    /\ loopPc \in {"connected", "made"}
    /\ loopConn \in handlers /\ sc[loopConn] = "freed"
    /\ fault' = "freed"
    /\ UNCHANGED <<appVars, pipeVars, history, appPc, attempt, sockets, drop, loopPc,
                   loopConn>>

(* if (conn->pipeline == NULL): the callback disconnects; otherwise the    *)
(* last statement starts whatever conn->pipeline is by then.               *)
PipelineFound ==
    /\ loopConn \in connPipe
    /\ CallbackGoes("emitted", "start")
    /\ UNCHANGED <<pipeVars, history, attempt, drop, fault>>

NoPipeline ==
    /\ loopConn \notin connPipe
    /\ CallbackGoes("emitted", "dropping")
    /\ DropBegins(LOOP)
    /\ UNCHANGED <<pipeVars, history, fault>>

StartBlindly == playing \cup {loopConn}         \* mutant: a pointer kept
StartedPipeline == IF loopConn \in connPipe THEN playing \cup {loopConn} ELSE playing

StartPipeline ==
    /\ CallbackGoes("start", "idle")
    /\ playing' = StartedPipeline
    /\ raced' = IF \E t \in Thread : Of(t) = loopConn /\ drop[t] \notin {"idle", "test"}
                THEN raced \cup {loopConn} ELSE raced
    /\ UNCHANGED <<scPipe, connPipe, refs, handed, crossed, attempt, drop, fault>>

CallbackGoesOn ==
    \/ on_need_pipeline_cb \/ SetPipeline \/ NeedUnheard \/ NeedGivenFreed
    \/ PipelineFound \/ NoPipeline \/ StartPipeline

(* The remote side closes the data channel, or it fails: the webrtcbin's   *)
(* thread disconnects.                                                     *)
DataChannelEnds(w) ==
    /\ w \in playing
    /\ DropBegins(w)
    /\ CrossedBy(w)
    /\ UNCHANGED <<appVars, pipeVars, appPc, sockets, loopPc, loopConn, handed, raced,
                   fault>>

----------------------------------------------------------------------------
StopGoesOn ==
    \/ StopDisconnects \/ StopLetsGo \/ DisposeLoop \/ DisposePipeline
    \/ my_stream_client_destroy

Next ==
    \/ InitWindow
    \/ my_connection_connect
    \/ my_stream_client_spawn_thread
    \/ AppStops
    \/ StopOwnPipeline
    \/ StopGoesOn
    \/ CallbackGoesOn
    \/ \E t \in Thread : DropGoesOn(t)
    \/ \E w \in Pair :
         ConnectedCb(w) \/ ConnectFailed(w) \/ LateOffer(w) \/ DataChannelEnds(w)

Spec == Init /\ [][Next]_vars

(* The application's thread finishes the handling of a new window.  The    *)
(* main context dispatches what is ready: each attempt is brought to an    *)
(* end by libsoup and its completion dispatched, as long as the loop comes *)
(* back to it, and the statements of its callback follow one another.      *)
Fairness ==
    /\ WF_vars(my_connection_connect)
    /\ WF_vars(my_stream_client_spawn_thread)
    /\ \A w \in Pair : SF_vars(ConnectedCb(w) \/ ConnectFailed(w))
    /\ WF_vars(CallbackGoesOn)
    /\ WF_vars(DropGoesOn(LOOP))

FairSpec == Spec /\ Fairness

----------------------------------------------------------------------------
(* Properties.                                                             *)

(* No completion is left to come that would call a freed stream client:    *)
(* its connection, which is never freed and keeps the handlers, has no     *)
(* attempt that could still succeed.  (A completion already running when   *)
(* stop is called is another matter: NeedGivenFreed.)                      *)
FreedIsQuiet == \A w \in Pair : sc[w] = "freed" => attempt[w] # "pending"

(* When nobody is at work on a pair, its stream client and its connection  *)
(* agree on whether there is a pipeline, whichever threads made it and     *)
(* dropped it.  The exception is a completion that a disconnect or a stop  *)
(* began beside: the drop may have found conn->pipeline still NULL, or     *)
(* dispose may have cleared sc->pipeline for good.                         *)
PipelineShared ==
    \A w \in Pair \ crossed : AtRest(w) => (w \in scPipe <=> w \in connPipe)

(* A pipeline that plays can still be stopped: its connection has it,      *)
(* through every interleaving of the callback, the disconnects of three    *)
(* threads, stop and dispose but one: that the callback sets it to PLAYING *)
(* while a disconnect is past its test of conn->pipeline.                  *)
PlayingIsOwned == \A w \in playing \ raced : w \in connPipe

(* Every attempt to connect is brought to an end by some loop thread, also *)
(* when the pair's own thread cannot have the main context, unless the     *)
(* loop is stuck in a late offer or the process ends.                      *)
AttemptEnds ==
    \A w \in Pair :
        attempt[w] = "pending" ~> attempt[w] = "none" \/ loopPc = "stuck" \/ ~Runs

(* on_need_pipeline_cb: emitting set-pipeline "actually hands over the     *)
(* pipeline".  Who has handed it over has no reference left to give up.    *)
HandedOverOnce == \A w \in Pair : refs[w] >= 0

(* connection.c on on-need-pipeline: "Your handler for this must emit      *)
(* @set-pipeline".                                                         *)
NeedPipelineAnswered ==
    [][loopPc = "connected" /\ loopPc' # "connected" => loopPc' = "made"]_vars
=============================================================================
