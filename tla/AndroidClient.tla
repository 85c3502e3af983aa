---------------------------- MODULE AndroidClient ----------------------------
(***************************************************************************)
(* The Android client's process, src/android_client/src/main.cpp: the      *)
(* activity's commands, the window's EglData (EglData.cpp), the Renderer   *)
(* with its GL objects (render/render.cpp) and the render loop, over the   *)
(* media pipeline of the current stream client.                            *)
(*                                                                         *)
(* The application's thread handles commands, renders and, in a command,   *)
(* drops the pipeline; GStreamer's threads go on meanwhile.  An EglData is *)
(* the number of the window it was made for.  GL names are numbers handed  *)
(* out anew in each context: the smallest that is free.                    *)
(***************************************************************************)
EXTENDS NativeActivity, MediaPipeline

VARIABLES
    client,     \* my_state.stream_client is set
    egl,        \* egl_data, by its window, 0 for nullptr
    renderer,   \* the GL name renderer holds, 0 for nullptr
    objects     \* GL names that exist in the context of egl

clientVars == <<client, egl, renderer, objects>>
vars == <<activityVars, mediaVars, clientVars>>

Init ==
    /\ ActivityInit
    /\ MediaInit
    /\ client = FALSE
    /\ egl = 0
    /\ renderer = 0
    /\ objects = {}

TypeOK ==
    /\ ActivityTypeOK
    /\ MediaTypeOK
    /\ client \in BOOLEAN
    /\ egl \in 0 .. nWindows
    /\ renderer \in 0 .. 2
    /\ objects \subseteq 1 .. 2

(* The application's thread is not inside a disconnect or a stop.          *)
AppRuns == abort = "no" /\ drop["app"] = "idle" /\ drop["stop"] = "idle"

----------------------------------------------------------------------------
(* APP_CMD_INIT_WINDOW.  The new EglData is current when the new Renderer  *)
(* takes the place of the old one, whose destructor so deletes its names   *)
(* in the new context; only then are the new one's objects made.           *)
FreshName(live) == IF 1 \in live THEN 2 ELSE 1

SetUpFirst ==                                   \* mutant: replaced when set up
    /\ renderer' = FreshName({})
    /\ objects' = {FreshName({})} \ {renderer}
ResetThenSetUp ==
    LET left == {} \ {renderer}
    IN  /\ renderer' = FreshName(left)
        /\ objects' = left \cup {FreshName(left)}

OpenWindow ==
    /\ egl' = window'
    /\ client' = TRUE
    /\ NewStreamClient
    /\ ResetThenSetUp

(* EglData's constructor or makeCurrent throws, past android_main; or      *)
(* setupRender does, and onAppCmd catches it to abort.                     *)
WindowFails ==
    /\ abort' = "egl"
    /\ UNCHANGED <<clientVars, attempt, need, fields, running, pad, drop, bus, missed>>

onAppCmd ==
    CASE cmd = "init" -> OpenWindow \/ WindowFails
      [] cmd \in {"stop", "term"} -> DropBegins("app") /\ UNCHANGED clientVars
      [] OTHER -> UNCHANGED <<mediaVars, clientVars>>

HandleCommand ==
    /\ AppRuns
    /\ TakeCommand
    /\ onAppCmd

android_main ==
    /\ AppRuns
    /\ loopPc = "start"
    /\ loopPc' = "poll"
    /\ UNCHANGED <<frameworkVars, cmd, appVars, woken, mediaVars, clientVars>>

PollEnds ==
    /\ AppRuns
    /\ PollTimesOut \/ PollWoken
    /\ UNCHANGED <<mediaVars, clientVars>>

----------------------------------------------------------------------------
(* The render loop.                                                        *)
RenderReady == egl # 0 /\ renderer # 0 /\ client

(* Nothing to render with, or no sample: poll again.                       *)
NothingToRender ==
    /\ AppRuns
    /\ loopPc = "render"
    /\ LoopAgain
    /\ UNCHANGED <<mediaVars, clientVars>>

(* makeCurrent throws, and android_main does not catch.                    *)
MakeCurrentThrows ==
    /\ AppRuns
    /\ loopPc = "render"
    /\ RenderReady
    /\ egl # window
    /\ abort' = "egl"
    /\ UNCHANGED <<activityVars, clientVars, attempt, need, fields, running, pad, drop, bus,
                   missed>>

PullSample ==
    /\ AppRuns
    /\ loopPc = "render"
    /\ RenderReady
    /\ appSink
    /\ loopPc' = "draw"
    /\ UNCHANGED <<frameworkVars, cmd, appVars, woken, mediaVars, clientVars>>

Draw ==
    /\ AppRuns
    /\ loopPc = "draw"
    /\ LoopAgain
    /\ UNCHANGED <<mediaVars, clientVars>>

----------------------------------------------------------------------------
(* The end of android_main: my_stream_client_destroy, which stops the      *)
(* stream client, then EglData.  The renderer stays.                       *)
DestroyClient ==
    /\ AppRuns
    /\ loopPc = "cleanup"
    /\ client
    /\ client' = FALSE
    /\ StopBegins
    /\ UNCHANGED <<activityVars, egl, renderer, objects>>

DestroyEgl ==
    /\ AppRuns
    /\ loopPc = "cleanup"
    /\ ~client
    /\ egl' = 0
    /\ objects' = {}
    /\ MainReturns
    /\ UNCHANGED <<mediaVars, client, renderer>>

----------------------------------------------------------------------------
FrameworkStep ==
    /\ abort = "no"
    /\ Framework \/ Relaunch
    /\ UNCHANGED <<mediaVars, clientVars>>

MediaStep ==
    /\ abort = "no"
    /\ MediaNext
    /\ UNCHANGED <<activityVars, clientVars>>

Next ==
    \/ FrameworkStep
    \/ MediaStep
    \/ android_main
    \/ HandleCommand
    \/ PollEnds
    \/ NothingToRender
    \/ MakeCurrentThrows
    \/ PullSample
    \/ Draw
    \/ DestroyClient
    \/ DestroyEgl

Spec == Init /\ [][Next]_vars

----------------------------------------------------------------------------
(* Properties.                                                             *)

(* poll_events goes to the render code with the window that egl_data was   *)
(* made for, however the commands that pause the activity and take the     *)
(* window interleave with rendering: makeCurrent, which throws past        *)
(* android_main, has a surface.  (Not so if the poll was interrupted.)     *)
RendersOnLiveWindow ==
    loopPc \in {"render", "draw"} /\ RenderReady => egl = window \/ woken

(* What draw uses exists in the context it draws in, over windows that     *)
(* replace each other and activities that do in one process, though the    *)
(* renderer outlives both and names are handed out again.                  *)
DrawsOwnObjects == loopPc = "draw" => renderer \in objects

(* A handler that adds elements for a new pad finds sc->pipeline set,      *)
(* whichever threads drop the pipeline meanwhile and however far its       *)
(* making has come.  (Not so where the two missed each other: a drop found *)
(* no pipeline to stop because it was still being made, or had stopped it  *)
(* before the loop's thread started it.)                                   *)
PadHandlersHavePipeline == ~missed => (HandlerRuns => scPipeline)
=============================================================================
