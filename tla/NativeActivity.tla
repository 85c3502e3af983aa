---------------------------- MODULE NativeActivity ----------------------------
(***************************************************************************)
(* An Android native activity and the loop of its android_main: the        *)
(* poll_events and the while loop that src/android_client/src/main.cpp and *)
(* src/android_server/src/main.cpp have in common.                         *)
(*                                                                         *)
(* The framework and native_app_glue are external.  The framework calls    *)
(* the activity in the order of its life; each call becomes a command in   *)
(* the glue's pipe, and the framework waits until the application's thread *)
(* has taken it, so there is one at a time.  The surface is taken away     *)
(* from a paused activity only.  The operators are the two sides' steps;   *)
(* ServerProcess and AndroidClient add what their handlers do.             *)
(***************************************************************************)
EXTENDS Integers

CONSTANTS
    MaxStarts,      \* bound: times the activity is started
    MaxWindows,     \* bound: windows the activity gets
    MaxLaunches     \* bound: activities launched in one process

ASSUME ActivityAssumption ==
    /\ MaxStarts \in Nat
    /\ MaxWindows \in Nat
    /\ MaxLaunches \in Nat

VARIABLES
    activity,           \* the framework's last call
    nStarts, nWindows, nLaunches,
    cmd,                \* the command in the pipe
    window,             \* app->window, by number, 0 for NULL
    activityState,      \* app->activityState
    destroyRequested,   \* app->destroyRequested
    loopPc,             \* where android_main is
    woken               \* the poll ended without event or timeout

activityVars == <<activity, nStarts, nWindows, nLaunches, cmd, window, activityState,
                  destroyRequested, loopPc, woken>>
frameworkVars == <<activity, nStarts, nWindows, nLaunches>>
appVars == <<window, activityState, destroyRequested>>

LifeCmd == {"start", "resume", "pause", "stop"}
Cmd == LifeCmd \cup {"destroy", "init", "term"}

ActivityInit ==
    /\ activity = "created"
    /\ nStarts = 0 /\ nWindows = 0 /\ nLaunches = 1
    /\ cmd = "none"
    /\ window = 0 /\ activityState = "none" /\ destroyRequested = FALSE
    /\ loopPc = "start" /\ woken = FALSE

ActivityTypeOK ==
    /\ activity \in {"created", "gone"} \cup LifeCmd \cup {"destroy"}
    /\ nStarts \in 0 .. MaxStarts
    /\ nWindows \in 0 .. MaxWindows
    /\ nLaunches \in Nat
    /\ cmd \in Cmd \cup {"none"}
    /\ window \in 0 .. nWindows
    /\ activityState \in LifeCmd \cup {"none"}
    /\ destroyRequested \in BOOLEAN
    /\ loopPc \in {"start", "poll", "render", "draw", "cleanup", "ended"}
    /\ woken \in BOOLEAN

----------------------------------------------------------------------------
(* The framework.  A call of the activity's life may follow another as the *)
(* platform's documentation draws it.                                      *)
MayFollow(c) ==
    CASE c = "start"   -> {"created", "stop"}
      [] c = "resume"  -> {"start", "pause"}
      [] c = "pause"   -> {"resume"}
      [] c = "stop"    -> {"start", "pause"}
      [] c = "destroy" -> {"created", "stop"}

FrameworkReady == cmd = "none" /\ activity # "gone"

CallsActivity(c) ==
    /\ FrameworkReady
    /\ activity \in MayFollow(c)
    /\ c = "start" => nStarts < MaxStarts
    /\ c = "destroy" => window = 0
    /\ activity' = c
    /\ nStarts' = IF c = "start" THEN nStarts + 1 ELSE nStarts
    /\ cmd' = c
    /\ UNCHANGED <<nWindows, nLaunches, appVars, loopPc, woken>>

GivesSurface ==
    /\ FrameworkReady
    /\ activity \in {"start", "resume", "pause"}
    /\ window = 0 /\ nWindows < MaxWindows
    /\ nWindows' = nWindows + 1
    /\ cmd' = "init"
    /\ UNCHANGED <<activity, nStarts, nLaunches, appVars, loopPc, woken>>

TakesSurface ==
    /\ FrameworkReady
    /\ activity \in {"pause", "stop"}
    /\ window # 0
    /\ cmd' = "term"
    /\ UNCHANGED <<frameworkVars, appVars, loopPc, woken>>

(* After android_main has returned, another activity in the same process:  *)
(* a new struct android_app, the program's globals as they were.           *)
Relaunch ==
    /\ activity = "gone" /\ nLaunches < MaxLaunches
    /\ activity' = "created"
    /\ nLaunches' = nLaunches + 1
    /\ cmd' = "none"
    /\ window' = 0 /\ activityState' = "none" /\ destroyRequested' = FALSE
    /\ loopPc' = "start" /\ woken' = FALSE
    /\ UNCHANGED <<nStarts, nWindows>>

Framework ==
    \/ \E c \in LifeCmd \cup {"destroy"} : CallsActivity(c)
    \/ GivesSurface
    \/ TakesSurface

----------------------------------------------------------------------------
(* poll_events: with no window, or not resumed, the poll has no timeout.   *)
WaitsForWindow == window = 0                    \* mutant: not for the resume
Waits == window = 0 \/ activityState # "resume"

(* process: the glue notes the command, onAppCmd handles it.  A command    *)
(* that ends the drawing ends the poll, if it found the loop drawing.      *)
TakeCommand ==
    /\ loopPc = "poll"
    /\ cmd # "none"
    /\ cmd' = "none"
    /\ window' = IF cmd = "init" THEN nWindows ELSE IF cmd = "term" THEN 0 ELSE window
    /\ activityState' = IF cmd \in LifeCmd THEN cmd ELSE activityState
    /\ destroyRequested' = (destroyRequested \/ cmd = "destroy")
    /\ loopPc' = IF ~Waits /\ Waits' THEN "render" ELSE "poll"
    /\ UNCHANGED <<frameworkVars, woken>>

PollTimesOut ==
    /\ loopPc = "poll"
    /\ cmd = "none" /\ ~Waits
    /\ loopPc' = "render"
    /\ UNCHANGED <<frameworkVars, cmd, appVars, woken>>

(* A poll without timeout ends with an error, or interrupted by a signal.  *)
(* Nothing else ends it after APP_CMD_DESTROY: no command follows that     *)
(* one, and the loop tests destroyRequested only once the poll is over.    *)
PollWoken ==
    /\ loopPc = "poll"
    /\ Waits
    /\ loopPc' = "render" /\ woken' = TRUE
    /\ UNCHANGED <<frameworkVars, cmd, appVars>>

(* Back to the test of the while loop.                                     *)
LoopAgain ==
    /\ loopPc' = IF destroyRequested THEN "cleanup" ELSE "poll"
    /\ woken' = FALSE
    /\ UNCHANGED <<frameworkVars, cmd, appVars>>

(* android_main returns, and the framework's wait for it ends.             *)
MainReturns ==
    /\ loopPc' = "ended" /\ activity' = "gone"
    /\ UNCHANGED <<nStarts, nWindows, nLaunches, cmd, appVars, woken>>
=============================================================================
