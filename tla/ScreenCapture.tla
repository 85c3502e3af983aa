----------------------------- MODULE ScreenCapture -----------------------------
(***************************************************************************)
(* The service of the Android server that captures the device's audio,     *)
(* ScreenCaptureService.kt.  The main thread runs onStartCommand and       *)
(* onDestroy; recordingExecutor, one thread with a queue, runs the loop    *)
(* that reads the AudioRecord and the cleanup of stopCaptureAndService.    *)
(* The fields are shared without a lock, so each statement that reads or   *)
(* writes one is a step, and an action may find what another thread left.  *)
(* (Queueing a task is no step of its own: it goes with the statement on a *)
(* field before it, since nobody can take the task earlier.)               *)
(*                                                                         *)
(* The command n brings the MediaProjection n and, from it, the            *)
(* AudioRecord n; 0 stands for null.                                       *)
(***************************************************************************)
EXTENDS Integers, Sequences

CONSTANTS
    MaxStarts,      \* bound: commands other than ACTION_STOP
    MaxStops        \* bound: ACTION_STOP commands

ASSUME CaptureAssumption == MaxStarts \in Nat /\ MaxStops \in Nat

VARIABLES
    starts, stops,      \* commands received
    mainPc,             \* where the main thread is
    mediaProjection, audioRecord, isRecording,  \* the fields
    projection,         \* state of each MediaProjection
    record,             \* state of each AudioRecord
    queue, taskPc,      \* recordingExecutor: tasks waiting, and the one running
    stopping,           \* stopSelf was called: onDestroy will follow
    isShutdown,         \* recordingExecutor.shutdownNow
    stopped             \* history: a stop was given, and no recording began since

vars == <<starts, stops, mainPc, mediaProjection, audioRecord, isRecording,
          projection, record, queue, taskPc, stopping, isShutdown, stopped>>
fields == <<mediaProjection, audioRecord, isRecording>>
objects == <<projection, record>>
executor == <<queue, taskPc>>
service == <<starts, stops, mainPc>>

Start == 1 .. MaxStarts

MainPc == {"idle", "build", "record", "test", "discard", "forget", "start", "flag",
           "destroy", "shutdown", "gone"}
TaskPc == {"none", "idle", "loop", "read", "empty", "exit", "stop", "release", "forget",
           "cleanup", "cleanupStop", "cleanupRelease", "cleanupForget", "projection",
           "projectionForget", "self", "died"}
RecordState == {"none", "initialized", "failed", "recording", "stopped", "released",
                "discarded"}

Init ==
    /\ starts = 0 /\ stops = 0 /\ mainPc = "idle"
    /\ mediaProjection = 0 /\ audioRecord = 0 /\ isRecording = FALSE
    /\ projection = [n \in Start |-> "none"]
    /\ record = [n \in Start |-> "none"]
    /\ queue = <<>> /\ taskPc = "none"
    /\ stopping = FALSE /\ isShutdown = FALSE /\ stopped = FALSE

TypeOK ==
    /\ starts \in 0 .. MaxStarts /\ stops \in 0 .. MaxStops
    /\ mainPc \in MainPc /\ taskPc \in TaskPc
    /\ mediaProjection \in 0 .. MaxStarts /\ audioRecord \in 0 .. MaxStarts
    /\ isRecording \in BOOLEAN /\ stopping \in BOOLEAN
    /\ isShutdown \in BOOLEAN /\ stopped \in BOOLEAN
    /\ projection \in [Start -> {"none", "active", "stopped"}]
    /\ record \in [Start -> RecordState]
    /\ queue \in Seq({"record", "cleanup"})
    /\ audioRecord # 0 => record[audioRecord] # "none"

----------------------------------------------------------------------------
(* The AudioRecord of the field: startRecording and stop throw on one that *)
(* is not (or no longer) initialised, read returns an error, release may   *)
(* be called at any time.  `?.` does nothing on null.                      *)
Initialized == {"initialized", "recording", "stopped"}
Unusable == IF audioRecord = 0 THEN FALSE ELSE record[audioRecord] \notin Initialized
FieldIs(state) == IF audioRecord = 0 THEN record
                  ELSE [record EXCEPT ![audioRecord] = state]

(* recordingExecutor.execute: the first task comes with the thread that    *)
(* runs it, the others wait in the queue.                                  *)
FirstPc(task) == IF task = "record" THEN "loop" ELSE "cleanup"
Execute(task) ==
    IF taskPc = "none" THEN taskPc' = FirstPc(task) /\ queue' = queue
    ELSE queue' = Append(queue, task) /\ taskPc' = taskPc

----------------------------------------------------------------------------
(* The main thread, until a task takes the process with it.                *)
Main(from, to) == taskPc # "died" /\ mainPc = from /\ mainPc' = to

(* onStartCommand with ACTION_START.  When startForeground fails, stopSelf *)
(* is called and the start goes on all the same.                           *)
GetMediaProjection ==
    /\ Main("idle", "build") /\ starts < MaxStarts
    /\ starts' = starts + 1
    /\ mediaProjection' = starts + 1
    /\ projection' = [projection EXCEPT ![starts + 1] = "active"]
    /\ stopping' \in {stopping, TRUE}
    /\ UNCHANGED <<stops, audioRecord, isRecording, record, executor, isShutdown, stopped>>

(* getMediaProjection returns null, which the field takes.                 *)
NoProjection ==
    /\ Main("idle", "idle") /\ starts < MaxStarts
    /\ starts' = starts + 1
    /\ mediaProjection' = 0
    /\ stopping' = TRUE
    /\ UNCHANGED <<stops, audioRecord, isRecording, objects, executor, isShutdown, stopped>>

(* A command that gets no further: a null intent, an unknown action, a     *)
(* permission not granted, an exception of getMediaProjection.             *)
StartRefused ==
    /\ Main("idle", "idle") /\ starts < MaxStarts
    /\ starts' = starts + 1
    /\ stopping' = TRUE
    /\ UNCHANGED <<stops, fields, objects, executor, isShutdown, stopped>>

(* startAudioRecording: the projection may have been taken away by a       *)
(* cleanup meanwhile.                                                      *)
BuildConfig ==
    /\ Main("build", "record")
    /\ mediaProjection # 0
    /\ UNCHANGED <<starts, stops, fields, objects, executor, stopping, isShutdown, stopped>>

(* No projection, no valid buffer size, or an exception of a builder.      *)
BuildFails ==
    /\ Main("build", "idle") \/ Main("record", "idle")
    /\ stopping' = TRUE
    /\ UNCHANGED <<starts, stops, fields, objects, executor, isShutdown, stopped>>

(* audioRecord = AudioRecord.Builder()....build(): the field is published  *)
(* before anybody has looked at the record's state.                        *)
PublishUnbuilt ==                               \* mutant: a field without a record
    /\ Main("record", "test")
    /\ audioRecord' = starts
    /\ UNCHANGED <<starts, stops, mediaProjection, isRecording, objects, executor, stopping,
                   isShutdown, stopped>>

PublishRecord ==
    /\ Main("record", "test")
    /\ audioRecord' = starts
    /\ \E state \in {"initialized", "failed"} :
         record' = [record EXCEPT ![starts] = state]
    /\ UNCHANGED <<starts, stops, mediaProjection, isRecording, projection, executor,
                   stopping, isShutdown, stopped>>

(* if (audioRecord?.state != STATE_INITIALIZED), of what the field has by  *)
(* then; and the release and the null of the branch.                       *)
TestRecord ==
    /\ IF audioRecord = 0 \/ Unusable THEN Main("test", "discard") ELSE Main("test", "start")
    /\ UNCHANGED <<starts, stops, fields, objects, executor, stopping, isShutdown, stopped>>

DiscardRecord ==
    /\ Main("discard", "forget")
    /\ record' = IF audioRecord # 0 /\ record[audioRecord] = "released" THEN record
                 ELSE FieldIs("discarded")
    /\ UNCHANGED <<starts, stops, fields, projection, executor, stopping, isShutdown,
                   stopped>>

ForgetDiscarded ==
    /\ Main("forget", "idle")
    /\ audioRecord' = 0
    /\ stopping' = TRUE
    /\ UNCHANGED <<starts, stops, mediaProjection, isRecording, objects, executor,
                   isShutdown, stopped>>

(* audioRecord?.startRecording(), which throws if a task has released the  *)
(* record meanwhile; that is caught.                                       *)
StartRecording ==
    /\ \/ /\ ~Unusable
          /\ Main("start", "flag")
          /\ record' = FieldIs("recording")
          /\ UNCHANGED stopping
       \/ /\ Unusable
          /\ Main("start", "idle")
          /\ stopping' = TRUE
          /\ UNCHANGED record
    /\ UNCHANGED <<starts, stops, fields, projection, executor, isShutdown, stopped>>

(* isRecording = true, and the task.                                       *)
SetRecording ==
    /\ Main("flag", "idle")
    /\ isRecording' = TRUE
    /\ Execute("record")
    /\ stopped' = FALSE
    /\ UNCHANGED <<starts, stops, mediaProjection, audioRecord, objects, stopping,
                   isShutdown>>

(* stopCaptureAndService, for ACTION_STOP.                                 *)
FlagKept == isRecording                         \* mutant: flag not cleared
FlagAfterStop == FALSE

ActionStop ==
    /\ Main("idle", "idle") /\ stops < MaxStops
    /\ stops' = stops + 1
    /\ isRecording' = FlagAfterStop
    /\ Execute("cleanup")
    /\ stopped' = TRUE
    /\ UNCHANGED <<starts, mediaProjection, audioRecord, objects, stopping, isShutdown>>

(* onDestroy: the test of the fields, stopCaptureAndService, shutdownNow,  *)
(* which drops the tasks that have not begun.                              *)
OnDestroy ==
    /\ stopping
    /\ IF isRecording \/ audioRecord # 0 \/ mediaProjection # 0
       THEN Main("idle", "destroy") ELSE Main("idle", "shutdown")
    /\ UNCHANGED <<starts, stops, fields, objects, executor, stopping, isShutdown, stopped>>

LastChanceCleanup ==
    /\ Main("destroy", "shutdown")
    /\ isRecording' = FlagAfterStop
    /\ Execute("cleanup")
    /\ UNCHANGED <<starts, stops, mediaProjection, audioRecord, objects, stopping,
                   isShutdown, stopped>>

ShutdownNow ==
    /\ Main("shutdown", "gone")
    /\ isShutdown' = TRUE
    /\ queue' = <<>>
    /\ UNCHANGED <<starts, stops, fields, objects, taskPc, stopping, stopped>>

----------------------------------------------------------------------------
(* The thread of recordingExecutor.                                        *)
TaskGoes(from, to) ==
    /\ taskPc = from /\ taskPc' = to
    /\ UNCHANGED <<service, isShutdown, stopped>>

NextTask ==
    /\ queue # <<>>
    /\ TaskGoes("idle", FirstPc(Head(queue)))
    /\ queue' = Tail(queue)
    /\ UNCHANGED <<fields, objects, stopping>>

(* The recording task: the loop condition ...                              *)
LoopTest ==
    /\ TaskGoes("loop", IF isRecording /\ audioRecord # 0 THEN "read" ELSE "exit")
    /\ UNCHANGED <<fields, objects, queue, stopping>>

(* ... a read that brings data, an error, or nothing at all ...            *)
ReadData ==
    /\ audioRecord # 0 /\ ~Unusable
    /\ TaskGoes("read", "loop")
    /\ UNCHANGED <<fields, objects, queue, stopping>>

ReadFails ==
    /\ audioRecord # 0
    /\ TaskGoes("read", "loop")
    /\ isRecording' = FALSE
    /\ UNCHANGED <<mediaProjection, audioRecord, objects, queue, stopping>>

ReadNothing ==
    /\ ~Unusable
    /\ TaskGoes("read", "empty")
    /\ UNCHANGED <<fields, objects, queue, stopping>>

BreakTest ==
    /\ TaskGoes("empty", IF audioRecord = 0 \/ ~isRecording THEN "exit" ELSE "loop")
    /\ UNCHANGED <<fields, objects, queue, stopping>>

(* ... and what follows the loop.  An exception of stop() is caught by     *)
(* nobody and ends the process.                                            *)
LeaveLoop ==
    /\ TaskGoes("exit", IF isRecording THEN "idle" ELSE "stop")
    /\ UNCHANGED <<fields, objects, queue, stopping>>

StopRecord(from, to) ==
    /\ \/ /\ ~Unusable
          /\ TaskGoes(from, to)
          /\ record' = FieldIs("stopped")
       \/ /\ Unusable
          /\ TaskGoes(from, "died")
          /\ record' = record
    /\ UNCHANGED <<fields, projection, queue, stopping>>

ReleaseRecord(from, to) ==
    /\ TaskGoes(from, to)
    /\ record' = FieldIs("released")
    /\ UNCHANGED <<fields, projection, queue, stopping>>

RecordKept == audioRecord                       \* mutant: field not cleared
RecordForgotten == 0

ForgetRecord(from, to) ==
    /\ TaskGoes(from, to)
    /\ audioRecord' = RecordForgotten
    /\ UNCHANGED <<mediaProjection, isRecording, objects, queue, stopping>>

AfterLoop ==
    \/ StopRecord("stop", "release")
    \/ ReleaseRecord("release", "forget")
    \/ ForgetRecord("forget", "idle")

(* The cleanup task: it stops a record that is recording, releases it, and *)
(* then the projection.                                                    *)
CleanupTest ==
    /\ TaskGoes("cleanup", IF audioRecord # 0 /\ record[audioRecord] = "recording"
                           THEN "cleanupStop" ELSE "cleanupRelease")
    /\ UNCHANGED <<fields, objects, queue, stopping>>

CleanupRecord ==
    \/ CleanupTest
    \/ StopRecord("cleanupStop", "cleanupRelease")
    \/ ReleaseRecord("cleanupRelease", "cleanupForget")
    \/ ForgetRecord("cleanupForget", "projection")

StopProjection ==
    /\ TaskGoes("projection", "projectionForget")
    /\ projection' = IF mediaProjection = 0 THEN projection
                     ELSE [projection EXCEPT ![mediaProjection] = "stopped"]
    /\ UNCHANGED <<fields, record, queue, stopping>>

ForgetProjection ==
    /\ TaskGoes("projectionForget", "self")
    /\ mediaProjection' = 0
    /\ UNCHANGED <<audioRecord, isRecording, objects, queue, stopping>>

StopSelf ==
    /\ TaskGoes("self", "idle")
    /\ stopping' = TRUE
    /\ UNCHANGED <<fields, objects, queue>>

----------------------------------------------------------------------------
MainStep ==
    \/ BuildConfig \/ BuildFails \/ PublishRecord \/ TestRecord \/ DiscardRecord
    \/ ForgetDiscarded \/ StartRecording \/ SetRecording
    \/ OnDestroy \/ LastChanceCleanup \/ ShutdownNow

Task ==
    \/ NextTask \/ LoopTest \/ ReadData \/ ReadFails \/ ReadNothing \/ BreakTest \/ LeaveLoop
    \/ AfterLoop \/ CleanupRecord \/ StopProjection \/ ForgetProjection \/ StopSelf

Next == GetMediaProjection \/ NoProjection \/ StartRefused \/ ActionStop \/ MainStep \/ Task

Spec == Init /\ [][Next]_vars

(* Both threads run; a read always returns.  Commands come or do not.      *)
FairSpec == Spec /\ WF_vars(MainStep) /\ WF_vars(Task)

----------------------------------------------------------------------------
(* Properties.                                                             *)

(* What one task releases no other task finds: whatever commands arrive in *)
(* whatever order, no task reads, stops or releases a record that a task   *)
(* has released.  (The main thread may try to start one, which it catches, *)
(* and may itself release, before it has cleared the field, a record that  *)
(* did not initialise; a task that meets that one is StopRecord's second   *)
(* case.)                                                                  *)
NoTaskOnReleased ==
    taskPc \in {"read", "stop", "release", "cleanup", "cleanupStop", "cleanupRelease"}
        /\ audioRecord # 0 => record[audioRecord] # "released"

(* A stop in the end takes the service down and the recording loop with    *)
(* it, wherever the two threads are when it is given, unless a start that  *)
(* comes after it sets the flag again, or an exception ends the process.   *)
StopEndsService ==
    stopped ~> (isShutdown /\ taskPc \in {"none", "idle"}) \/ ~stopped \/ taskPc = "died"

(* stopCaptureAndService on its task: "Ensure this is executed, even if a  *)
(* shutdown is requested."                                                 *)
CleanupSurvivesShutdown ==
    [][~isShutdown /\ isShutdown'
           => \A i \in DOMAIN queue : queue[i] # "cleanup"]_vars
=============================================================================
