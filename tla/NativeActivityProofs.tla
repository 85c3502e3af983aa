------------------------- MODULE NativeActivityProofs -------------------------
(***************************************************************************)
(* What every step of the activity and of the poll loop preserves, for     *)
(* every number of starts, windows and launches.  The proofs about the     *)
(* server's and the client's process rest on these lemmas.                 *)
(***************************************************************************)
EXTENDS NativeActivity, TLAPS

USE ActivityAssumption

(* The framework is at most the one command in the pipe ahead of the app,  *)
(* so the app has seen the pause when it is told to give up its window.    *)
InStep ==
    /\ cmd \in LifeCmd \cup {"destroy"} => activity = cmd
    /\ activity \in LifeCmd /\ cmd # activity => activityState = activity
    /\ cmd = "init" => activity \in {"start", "resume", "pause"} /\ window = 0
    /\ cmd = "term" => activity \in {"pause", "stop"}

(* A destroyed activity has no window, and no command follows.             *)
DestroyedLast ==
    /\ activity \in {"destroy", "gone"} => window = 0
    /\ destroyRequested => activity \in {"destroy", "gone"} /\ cmd = "none"
    /\ loopPc \in {"cleanup", "ended"} => destroyRequested
    /\ activity = "gone" => cmd = "none" /\ loopPc = "ended"

(* Unless it was woken, the loop leaves the poll with a window.            *)
RenderHasWindow == loopPc \in {"render", "draw"} => window # 0 \/ woken

ActivityInv == ActivityTypeOK /\ InStep /\ DestroyedLast /\ RenderHasWindow

LEMMA ActivityInitInv == ActivityInit => ActivityInv
<1> SUFFICES ASSUME ActivityInit
             PROVE  ActivityInv
    OBVIOUS
<1>1. ActivityTypeOK
    <2>1. nStarts \in 0 .. MaxStarts /\ nWindows \in 0 .. MaxWindows /\ nLaunches \in Nat
        BY DEF ActivityInit
    <2>2. window \in 0 .. nWindows
        BY DEF ActivityInit
    <2>3. cmd \in Cmd \cup {"none"} /\ activityState \in LifeCmd \cup {"none"}
        BY DEF ActivityInit
    <2>4. activity \in {"created", "gone"} \cup LifeCmd \cup {"destroy"}
        BY DEF ActivityInit
    <2> QED
        BY <2>1, <2>2, <2>3, <2>4 DEF ActivityInit, ActivityTypeOK
<1>2. InStep
    BY DEF ActivityInit, InStep, LifeCmd
<1>3. DestroyedLast /\ RenderHasWindow
    BY DEF ActivityInit, DestroyedLast, RenderHasWindow
<1> QED
    BY <1>1, <1>2, <1>3 DEF ActivityInv

LEMMA CallsKeep ==
    ASSUME ActivityInv, NEW c \in LifeCmd \cup {"destroy"}, CallsActivity(c)
    PROVE  ActivityInv'
<1>1. ActivityTypeOK'
    BY DEF ActivityInv, ActivityTypeOK, CallsActivity, FrameworkReady, LifeCmd, Cmd, appVars
<1>2. InStep'
    BY DEF ActivityInv, ActivityTypeOK, InStep, CallsActivity, FrameworkReady, LifeCmd, appVars
<1>3. activity # "destroy" /\ activity # "gone"
    BY DEF CallsActivity, MayFollow, FrameworkReady, LifeCmd
<1>4. DestroyedLast' /\ RenderHasWindow'
    BY <1>3 DEF ActivityInv, DestroyedLast, RenderHasWindow, CallsActivity, FrameworkReady,
                LifeCmd, appVars
<1> QED
    BY <1>1, <1>2, <1>4 DEF ActivityInv

LEMMA SurfaceKeeps ==
    ASSUME ActivityInv, GivesSurface \/ TakesSurface
    PROVE  ActivityInv'
<1>1. CASE GivesSurface
    BY <1>1 DEF ActivityInv, ActivityTypeOK, InStep, DestroyedLast, RenderHasWindow, GivesSurface,
           FrameworkReady, LifeCmd, Cmd, appVars
<1>2. CASE TakesSurface
    BY <1>2 DEF ActivityInv, ActivityTypeOK, InStep, DestroyedLast, RenderHasWindow, TakesSurface,
           FrameworkReady, LifeCmd, Cmd, appVars, frameworkVars
<1> QED
    BY <1>1, <1>2

LEMMA FrameworkKeeps ==
    ASSUME ActivityInv, Framework \/ Relaunch
    PROVE  ActivityInv'
<1>1. CASE Framework
    BY <1>1, CallsKeep, SurfaceKeeps DEF Framework
<1>2. CASE Relaunch
    <2>1. ActivityTypeOK'
        <3>1. /\ (nStarts \in 0 .. MaxStarts)' /\ (nWindows \in 0 .. MaxWindows)'
              /\ (nLaunches \in Nat)' /\ (window \in 0 .. nWindows)'
            BY <1>2 DEF ActivityInv, ActivityTypeOK, Relaunch
        <3>2. (cmd \in Cmd \cup {"none"})' /\ (activityState \in LifeCmd \cup {"none"})'
            BY <1>2 DEF Relaunch
        <3>3. (activity \in {"created", "gone"} \cup LifeCmd \cup {"destroy"})'
            BY <1>2 DEF Relaunch
        <3> QED
            BY <1>2, <3>1, <3>2, <3>3 DEF Relaunch, ActivityTypeOK
    <2>2. InStep' /\ DestroyedLast' /\ RenderHasWindow'
        BY <1>2 DEF InStep, DestroyedLast, RenderHasWindow, Relaunch, LifeCmd
    <2> QED
        BY <2>1, <2>2 DEF ActivityInv
<1> QED
    BY <1>1, <1>2

LEMMA TakeCommandKeeps ==
    ASSUME ActivityInv, TakeCommand
    PROVE  ActivityInv'
<1>1. ActivityTypeOK'
    BY DEF ActivityInv, ActivityTypeOK, TakeCommand, LifeCmd, Cmd, frameworkVars
<1>2. InStep'
    BY DEF ActivityInv, ActivityTypeOK, InStep, TakeCommand, LifeCmd, Cmd, frameworkVars
<1>3. DestroyedLast'
    BY DEF ActivityInv, ActivityTypeOK, InStep, DestroyedLast, TakeCommand, LifeCmd, Cmd,
           frameworkVars
<1>4. RenderHasWindow'
    <2>1. CASE ~Waits /\ Waits'
        <3>1. cmd # "term" /\ cmd # "init"
            BY <2>1 DEF ActivityInv, InStep, Waits, LifeCmd
        <3> QED
            BY <3>1, <2>1 DEF TakeCommand, Waits, RenderHasWindow
    <2>2. CASE ~(~Waits /\ Waits')
        BY <2>2 DEF TakeCommand, RenderHasWindow
    <2> QED
        BY <2>1, <2>2
<1> QED
    BY <1>1, <1>2, <1>3, <1>4 DEF ActivityInv

LEMMA PollKeeps ==
    ASSUME ActivityInv, PollTimesOut \/ PollWoken
    PROVE  ActivityInv'
<1>1. ActivityTypeOK'
    BY DEF ActivityInv, ActivityTypeOK, PollTimesOut, PollWoken, frameworkVars, appVars
<1>2. InStep'
    BY DEF ActivityInv, InStep, PollTimesOut, PollWoken, frameworkVars, appVars
<1>3. DestroyedLast'
    BY DEF ActivityInv, DestroyedLast, PollTimesOut, PollWoken, frameworkVars, appVars
<1>4. RenderHasWindow'
    BY DEF RenderHasWindow, PollTimesOut, PollWoken, Waits, appVars
<1> QED
    BY <1>1, <1>2, <1>3, <1>4 DEF ActivityInv

LEMMA LoopAgainKeeps ==
    ASSUME ActivityInv, loopPc \in {"render", "draw"}, LoopAgain
    PROVE  ActivityInv'
BY DEF ActivityInv, ActivityTypeOK, InStep, DestroyedLast, RenderHasWindow, LoopAgain,
       frameworkVars, appVars, LifeCmd, Cmd

LEMMA MainReturnsKeeps ==
    ASSUME ActivityInv, loopPc = "cleanup", MainReturns
    PROVE  ActivityInv'
BY DEF ActivityInv, ActivityTypeOK, InStep, DestroyedLast, RenderHasWindow, MainReturns,
       appVars, LifeCmd, Cmd

(* Steps that only move the program counter out of android_main's start,   *)
(* or from the render code to the drawing.                                 *)
LEMMA OnlyPcKeeps ==
    ASSUME ActivityInv,
           \/ loopPc = "start" /\ loopPc' = "poll"
           \/ loopPc = "render" /\ loopPc' = "draw",
           UNCHANGED <<frameworkVars, cmd, appVars, woken>>
    PROVE  ActivityInv'
BY DEF ActivityInv, ActivityTypeOK, InStep, DestroyedLast, RenderHasWindow,
       frameworkVars, appVars, LifeCmd, Cmd

LEMMA StutterKeepsActivity == ActivityInv /\ UNCHANGED activityVars => ActivityInv'
BY DEF ActivityInv, ActivityTypeOK, InStep, DestroyedLast, RenderHasWindow, activityVars,
       LifeCmd, Cmd
=============================================================================
