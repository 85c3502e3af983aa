------------------------- MODULE ScreenCaptureProofs -------------------------
(***************************************************************************)
(* The capture service for every number of commands: no task meets what    *)
(* another one has released, and no stop is forgotten.                     *)
(***************************************************************************)
EXTENDS ScreenCapture, TLAPS

USE CaptureAssumption

(* The field names no record that a task has released, except between the  *)
(* release and the assignment of null that follows it.                     *)
FieldAlive ==
    taskPc \notin {"forget", "cleanupForget"} /\ audioRecord # 0
        => record[audioRecord] # "released"

(* A start in progress has its number.                                     *)
StartNumbered == mainPc \in {"build", "record"} => starts \in Start

IInv == TypeOK /\ FieldAlive /\ StartNumbered

LEMMA InitIInv == Init => IInv
<1> SUFFICES ASSUME Init
             PROVE  IInv
    OBVIOUS
<1>1. queue \in Seq({"record", "cleanup"})
    BY DEF Init
<1>2. FieldAlive /\ StartNumbered
    BY DEF Init, FieldAlive, StartNumbered
<1>3. 0 \in 0 .. MaxStarts /\ 0 \in 0 .. MaxStops
    OBVIOUS
<1>4. projection \in [Start -> {"none", "active", "stopped"}] /\ record \in [Start -> RecordState]
    BY DEF Init, RecordState
<1>5. TypeOK
    BY <1>1, <1>3, <1>4 DEF Init, TypeOK, MainPc, TaskPc
<1> QED
    BY <1>2, <1>5 DEF IInv

(* The record of the field in another state.                               *)
LEMMA FieldIsTyped ==
    ASSUME TypeOK, NEW state \in RecordState \ {"none"}, record' = FieldIs(state)
    PROVE  /\ record' \in [Start -> RecordState]
           /\ audioRecord # 0 => record'[audioRecord] = state
BY DEF TypeOK, FieldIs, Start

LEMMA ExecuteTyped ==
    ASSUME TypeOK, NEW task \in {"record", "cleanup"}, Execute(task)
    PROVE  /\ queue' \in Seq({"record", "cleanup"})
           /\ taskPc' = taskPc \/ (taskPc = "none" /\ taskPc' = FirstPc(task))
           /\ taskPc' \in TaskPc
<1>1. queue \in Seq({"record", "cleanup"}) /\ taskPc \in TaskPc
    BY DEF TypeOK
<1>2. Append(queue, task) \in Seq({"record", "cleanup"})
    BY <1>1
<1> QED
    BY <1>1, <1>2 DEF Execute, FirstPc, TaskPc

(* The main thread.                                                        *)
LEMMA MainKeeps ==
    ASSUME IInv, \/ GetMediaProjection \/ NoProjection \/ StartRefused \/ ActionStop
                 \/ MainStep
    PROVE  IInv'
<1> USE DEF IInv, TypeOK, FieldAlive, StartNumbered, Start, MainPc, fields, objects,
            executor, Main
<1>1. CASE GetMediaProjection \/ NoProjection \/ StartRefused
    <2>1. /\ starts < MaxStarts /\ starts' = starts + 1 /\ mainPc' \in {"build", "idle"}
          /\ mediaProjection' \in {mediaProjection, 0, starts + 1}
          /\ projection' \in {projection, [projection EXCEPT ![starts + 1] = "active"]}
          /\ UNCHANGED <<stops, audioRecord, isRecording, record, queue, taskPc, isShutdown,
                         stopped>>
        BY <1>1 DEF GetMediaProjection, NoProjection, StartRefused
    <2>2. stopping' \in BOOLEAN
        BY <1>1 DEF GetMediaProjection, NoProjection, StartRefused
    <2>3. starts + 1 \in Start
        BY <2>1
    <2>4. projection' \in [Start -> {"none", "active", "stopped"}]
        BY <2>1, <2>3
    <2> QED
        BY <2>1, <2>2, <2>3, <2>4
<1>2. CASE BuildConfig \/ BuildFails \/ TestRecord \/ OnDestroy
    BY <1>2 DEF BuildConfig, BuildFails, TestRecord, OnDestroy
<1>3. CASE PublishRecord
    <2>1. PICK state \in {"initialized", "failed"} :
            record' = [record EXCEPT ![starts] = state]
        BY <1>3 DEF PublishRecord
    <2>2. starts \in Start /\ audioRecord' = starts
        BY <1>3 DEF PublishRecord
    <2>3. record'[starts] = state /\ record' \in [Start -> RecordState]
        BY <2>1, <2>2 DEF RecordState
    <2> QED
        BY <1>3, <2>2, <2>3 DEF PublishRecord
<1>4. CASE DiscardRecord
    <2>1. record' = record \/ record' = FieldIs("discarded")
        BY <1>4 DEF DiscardRecord
    <2>2. /\ record' \in [Start -> RecordState]
          /\ audioRecord # 0 => record'[audioRecord] \in {record[audioRecord], "discarded"}
        BY <2>1, FieldIsTyped DEF RecordState
    <2> QED
        BY <1>4, <2>2 DEF DiscardRecord
<1>5. CASE ForgetDiscarded
    BY <1>5 DEF ForgetDiscarded
<1>6. CASE StartRecording
    <2>1. record' = record \/ record' = FieldIs("recording")
        BY <1>6 DEF StartRecording
    <2>2. /\ record' \in [Start -> RecordState]
          /\ audioRecord # 0 => record'[audioRecord] \in {record[audioRecord], "recording"}
        BY <2>1, FieldIsTyped DEF RecordState
    <2>3. stopping' \in BOOLEAN /\ mainPc' \in {"flag", "idle"}
        BY <1>6 DEF StartRecording
    <2>4. UNCHANGED <<starts, stops, mediaProjection, audioRecord, isRecording, projection,
                      queue, taskPc, isShutdown, stopped>>
        BY <1>6 DEF StartRecording
    <2> QED
        BY <2>2, <2>3, <2>4
<1>7. CASE SetRecording \/ ActionStop \/ LastChanceCleanup
    <2>1. PICK task \in {"record", "cleanup"} : Execute(task)
        BY <1>7 DEF SetRecording, ActionStop, LastChanceCleanup
    <2>2. /\ queue' \in Seq({"record", "cleanup"}) /\ taskPc' \in TaskPc
          /\ taskPc' = taskPc \/ (taskPc = "none" /\ taskPc' \in {"loop", "cleanup"})
        BY <2>1, ExecuteTyped DEF FirstPc
    <2>3. /\ isRecording' \in BOOLEAN /\ stopped' \in BOOLEAN /\ stops' \in 0 .. MaxStops
          /\ mainPc' \in {"idle", "shutdown"}
          /\ UNCHANGED <<starts, mediaProjection, audioRecord, projection, record, stopping,
                         isShutdown>>
        <3>1. CASE SetRecording
            BY <3>1 DEF SetRecording
        <3>2. CASE ActionStop
            <4>1. stops' = stops + 1 /\ stops < MaxStops
                BY <3>2 DEF ActionStop
            <4>2. stops' \in 0 .. MaxStops
                BY <4>1
            <4> QED
                BY <3>2, <4>2 DEF ActionStop, FlagAfterStop
        <3>3. CASE LastChanceCleanup
            BY <3>3 DEF LastChanceCleanup, FlagAfterStop
        <3> QED
            BY <1>7, <3>1, <3>2, <3>3
    <2> QED
        BY <2>2, <2>3
<1>8. CASE ShutdownNow
    BY <1>8 DEF ShutdownNow
<1> QED
    BY <1>1, <1>2, <1>3, <1>4, <1>5, <1>6, <1>7, <1>8 DEF MainStep

(* The thread of the executor.                                             *)
LEMMA TaskKeeps ==
    ASSUME IInv, Task
    PROVE  IInv'
<1> USE DEF IInv, TypeOK, FieldAlive, StartNumbered, Start, TaskPc, fields, objects,
            service, TaskGoes
<1>1. CASE NextTask
    <2>1. queue' \in Seq({"record", "cleanup"})
        BY <1>1 DEF NextTask
    <2> QED
        BY <1>1, <2>1 DEF NextTask, FirstPc
<1>2. CASE LoopTest \/ ReadData \/ ReadFails \/ ReadNothing \/ BreakTest \/ LeaveLoop
    BY <1>2 DEF LoopTest, ReadData, ReadFails, ReadNothing, BreakTest, LeaveLoop
<1>3. ASSUME NEW from \in {"stop", "cleanupStop"}, NEW to \in {"release", "cleanupRelease"},
             StopRecord(from, to)
      PROVE  IInv'
    <2>1. record' = record \/ record' = FieldIs("stopped")
        BY <1>3 DEF StopRecord
    <2>2. /\ record' \in [Start -> RecordState]
          /\ audioRecord # 0 => record'[audioRecord] \in {record[audioRecord], "stopped"}
        BY <2>1, FieldIsTyped DEF RecordState
    <2>3. taskPc = from /\ taskPc' \in {to, "died"}
          /\ UNCHANGED <<starts, stops, mainPc, mediaProjection, audioRecord, isRecording,
                         projection, queue, stopping, isShutdown, stopped>>
        BY <1>3 DEF StopRecord
    <2> QED
        BY <2>2, <2>3
<1>4. ASSUME NEW from \in {"release", "cleanupRelease"},
             NEW to \in {"forget", "cleanupForget"}, ReleaseRecord(from, to)
      PROVE  IInv'
    <2>1. record' \in [Start -> RecordState]
          /\ (audioRecord # 0 => record'[audioRecord] = "released")
        BY <1>4, FieldIsTyped DEF ReleaseRecord, RecordState
    <2> QED
        BY <1>4, <2>1 DEF ReleaseRecord
<1>5. ASSUME NEW from \in {"forget", "cleanupForget"}, NEW to \in {"idle", "projection"},
             ForgetRecord(from, to)
      PROVE  IInv'
    BY <1>5 DEF ForgetRecord, RecordForgotten
<1>6. CASE AfterLoop
    BY <1>3, <1>4, <1>5, <1>6 DEF AfterLoop
<1>7. CASE CleanupRecord
    <2>1. CASE CleanupTest
        BY <2>1 DEF CleanupTest
    <2> QED
        BY <1>3, <1>4, <1>5, <1>7, <2>1 DEF CleanupRecord
<1>8. CASE StopProjection
    BY <1>8 DEF StopProjection
<1>9. CASE ForgetProjection
    BY <1>9 DEF ForgetProjection
<1>10. CASE StopSelf
    BY <1>10 DEF StopSelf
<1> QED
    BY <1>1, <1>2, <1>6, <1>7, <1>8, <1>9, <1>10 DEF Task

LEMMA NextIInv == IInv /\ [Next]_vars => IInv'
<1>1. IInv /\ UNCHANGED vars => IInv'
    BY DEF IInv, TypeOK, FieldAlive, StartNumbered, vars
<1> QED
    BY <1>1, MainKeeps, TaskKeeps DEF Next

(* The inductive invariant holds in every reachable state.                 *)
THEOREM Invariance == Spec => []IInv
<1> QED
    BY InitIInv, NextIInv, PTL DEF Spec

(* Every field and object keeps its type; a field that is not null names   *)
(* an object that was made.                                                *)
THEOREM TypeCorrect == Spec => []TypeOK
<1>1. IInv => TypeOK
    BY DEF IInv
<1> QED
    BY <1>1, Invariance, PTL

(* However starts, stops and failures follow one another, no task reads,   *)
(* stops or releases a record that a task has released before.             *)
THEOREM TasksUseLiveRecords == Spec => []NoTaskOnReleased
<1>1. IInv => NoTaskOnReleased
    BY DEF IInv, FieldAlive, NoTaskOnReleased
<1> QED
    BY <1>1, Invariance, PTL

----------------------------------------------------------------------------
(* The safety part of StopEndsService: once a stop was given, the service  *)
(* is told to end, or has ended, or a cleanup that will tell it is running *)
(* or waits behind the recording, or an exception has ended the process.   *)
CleanupRuns ==
    taskPc \in {"cleanup", "cleanupStop", "cleanupRelease", "cleanupForget", "projection",
                "projectionForget", "self"}
CleanupQueued == \E i \in DOMAIN queue : queue[i] = "cleanup"
StopNotLost ==
    stops > 0 => stopping \/ isShutdown \/ CleanupRuns \/ CleanupQueued \/ taskPc = "died"

(* A task that is added comes last, or runs at once.                       *)
LEMMA QueuedStays ==
    ASSUME queue \in Seq({"record", "cleanup"}), NEW t \in {"record", "cleanup"}, Execute(t)
    PROVE  /\ CleanupQueued => CleanupQueued'
           /\ CleanupRuns => CleanupRuns'
           /\ taskPc = "died" => taskPc' = "died"
           /\ t = "cleanup" => CleanupQueued' \/ CleanupRuns'
<1>1. CASE taskPc = "none"
    BY <1>1 DEF Execute, CleanupQueued, CleanupRuns, FirstPc
<1>2. CASE taskPc # "none"
    <2>1. /\ Len(queue) \in Nat /\ DOMAIN queue = 1 .. Len(queue)
          /\ DOMAIN queue' = 1 .. Len(queue) + 1
          /\ queue'[Len(queue) + 1] = t
          /\ \A i \in 1 .. Len(queue) : queue'[i] = queue[i]
          /\ taskPc' = taskPc
        BY <1>2 DEF Execute
    <2> QED
        BY <2>1 DEF CleanupQueued, CleanupRuns
<1> QED
    BY <1>1, <1>2

(* The task that is taken is the one that runs; the others stay.           *)
LEMMA QueuedOrRuns ==
    ASSUME queue \in Seq({"record", "cleanup"}), CleanupQueued, NextTask
    PROVE  CleanupQueued' \/ CleanupRuns'
<1>1. CASE Head(queue) = "record"
    <2>1. PICK i \in 1 .. Len(queue) : queue[i] = "cleanup"
        BY DEF CleanupQueued
    <2>2. queue # <<>> /\ Head(queue) = queue[1]
        BY DEF NextTask
    <2>3. i # 1
        BY <1>1, <2>1, <2>2
    <2>4. i - 1 \in 1 .. Len(Tail(queue)) /\ Tail(queue)[i - 1] = queue[i]
        BY <2>1, <2>2, <2>3
    <2>5. DOMAIN Tail(queue) = 1 .. Len(Tail(queue)) /\ queue' = Tail(queue)
        BY <2>2 DEF NextTask
    <2> QED
        BY <2>1, <2>4, <2>5 DEF CleanupQueued
<1>2. CASE Head(queue) # "record"
    BY <1>2 DEF NextTask, TaskGoes, FirstPc, CleanupRuns
<1> QED
    BY <1>1, <1>2

LEMMA StepStopNotLost == IInv /\ StopNotLost /\ [Next]_vars => StopNotLost'
<1> SUFFICES ASSUME IInv, StopNotLost, [Next]_vars
             PROVE  StopNotLost'
    OBVIOUS
<1>a. stops \in Nat /\ queue \in Seq({"record", "cleanup"}) /\ stopping \in BOOLEAN
    BY DEF IInv, TypeOK
<1>1. CASE \/ GetMediaProjection \/ NoProjection \/ StartRefused \/ BuildConfig \/ BuildFails
           \/ PublishRecord \/ TestRecord \/ DiscardRecord \/ ForgetDiscarded
           \/ StartRecording \/ OnDestroy
    <2>1. UNCHANGED <<stops, queue, taskPc, isShutdown>> /\ (stopping => stopping')
        BY <1>1, <1>a DEF GetMediaProjection, NoProjection, StartRefused, BuildConfig,
           BuildFails, PublishRecord, TestRecord, DiscardRecord, ForgetDiscarded,
           StartRecording, OnDestroy, executor
    <2> QED
        BY <2>1 DEF StopNotLost, CleanupRuns, CleanupQueued
<1>2. CASE ActionStop \/ LastChanceCleanup
    <2>1. Execute("cleanup")
        BY <1>2 DEF ActionStop, LastChanceCleanup
    <2> QED
        BY <1>a, <2>1, QueuedStays DEF StopNotLost
<1>3. CASE SetRecording
    <2>1. Execute("record") /\ UNCHANGED <<stops, stopping, isShutdown>>
        BY <1>3 DEF SetRecording
    <2>2. /\ CleanupQueued => CleanupQueued'
          /\ CleanupRuns => CleanupRuns'
          /\ taskPc = "died" => taskPc' = "died"
        BY <1>a, <2>1, QueuedStays
    <2> QED
        BY <2>1, <2>2 DEF StopNotLost
<1>4. CASE ShutdownNow
    BY <1>4 DEF StopNotLost, ShutdownNow
<1>5. CASE NextTask
    <2>1. UNCHANGED <<stops, stopping, isShutdown>> /\ ~CleanupRuns /\ taskPc # "died"
        BY <1>5 DEF NextTask, TaskGoes, CleanupRuns, service
    <2> QED
        BY <1>5, <1>a, <2>1, QueuedOrRuns DEF StopNotLost
<1>6. CASE \/ LoopTest \/ ReadData \/ ReadFails \/ ReadNothing \/ BreakTest \/ LeaveLoop
           \/ AfterLoop
    <2>1. UNCHANGED <<stops, queue, stopping, isShutdown>> /\ ~CleanupRuns /\ taskPc # "died"
        BY <1>6 DEF LoopTest, ReadData, ReadFails, ReadNothing, BreakTest, LeaveLoop, AfterLoop,
           StopRecord, ReleaseRecord, ForgetRecord, TaskGoes, CleanupRuns, service
    <2> QED
        BY <2>1 DEF StopNotLost, CleanupQueued
<1>7. CASE CleanupRecord \/ StopProjection \/ ForgetProjection
    <2>1. CleanupRuns' \/ taskPc' = "died"
        BY <1>7 DEF CleanupRecord, CleanupTest, StopRecord, ReleaseRecord, ForgetRecord,
           StopProjection, ForgetProjection, TaskGoes, CleanupRuns
    <2> QED
        BY <2>1 DEF StopNotLost
<1>8. CASE StopSelf
    BY <1>8 DEF StopNotLost, StopSelf
<1>9. CASE UNCHANGED vars
    BY <1>9 DEF StopNotLost, CleanupRuns, CleanupQueued, vars
<1> QED
    BY <1>1, <1>2, <1>3, <1>4, <1>5, <1>6, <1>7, <1>8, <1>9 DEF Next, MainStep, Task

(* A stop is not forgotten, wherever the two threads are when it is given. *)
THEOREM StopIsKept == Spec => []StopNotLost
<1>1. Init => StopNotLost
    BY DEF Init, StopNotLost
<1> QED
    BY <1>1, Invariance, StepStopNotLost, PTL DEF Spec
=============================================================================
