---------------------------- MODULE ServerProcess ----------------------------
(***************************************************************************)
(* The Android server's process: android_main of src/android_server/src/   *)
(* main.cpp with server_pipeline_create, play, push_pcm and stop of        *)
(* src/src/server/server_pipeline.c.                                       *)
(*                                                                         *)
(* Threads: the activity's, which runs android_main; the loop thread,      *)
(* which play starts and nothing ends, with the bus watch and the clients  *)
(* of module ServerPipeline, here a set of sinks; and the recorder's, which*)
(* pushes audio from before create until after stop.  The watch and stop   *)
(* take messages from one bus.  A second activity in the process finds the *)
(* first one's port and globals.                                           *)
(***************************************************************************)
EXTENDS NativeActivity, Sequences

CONSTANTS
    MaxClients,     \* bound: clients that connect
    MaxPushes,      \* bound: calls of server_pipeline_push_pcm
    MaxBus          \* bound: messages on the bus, an EOS apart

ASSUME ProcessAssumption ==
    /\ MaxClients \in Nat
    /\ MaxPushes \in Nat
    /\ MaxBus \in Nat

VARIABLES
    stage,      \* how far create, play and stop have come
    listening,  \* the port is bound
    loopThread, \* a thread runs the main loop
    mgd,        \* the static mgd is set
    played,     \* the pipeline has a clock and a base time
    clients, nClients,  \* sinks of the pipeline, and clients so far
    timeouts, timeout_src_id_dot_data,  \* timeouts attached, and the field
    eosSent,    \* the EOS event was sent, the message is still to come
    hasEos,     \* clients whose sinks have got the event
    bus,        \* messages on the pipeline's bus
    pushPc, nPushes,    \* server_pipeline_push_pcm
    srcRefs,    \* references to the appsrc
    abort       \* g_error or an assertion has ended the process

startVars == <<stage, listening, loopThread, mgd>>
clientVars == <<clients, nClients, timeouts, timeout_src_id_dot_data>>
busVars == <<eosSent, hasEos, bus>>
pushVars == <<pushPc, nPushes, srcRefs>>
vars == <<activityVars, startVars, played, clientVars, busVars, pushVars, abort>>

Message == {"error", "eos", "other"}
Fatal == {"error", "eos"}

Init ==
    /\ ActivityInit
    /\ stage = "none" /\ listening = FALSE /\ loopThread = FALSE /\ mgd = FALSE
    /\ played = FALSE
    /\ clients = {} /\ nClients = 0
    /\ timeouts = {} /\ timeout_src_id_dot_data = 0
    /\ eosSent = FALSE /\ hasEos = {} /\ bus = <<>>
    /\ pushPc = "idle" /\ nPushes = 0 /\ srcRefs = 1
    /\ abort = "no"

TypeOK ==
    /\ ActivityTypeOK
    /\ stage \in {"none", "listens", "created", "played", "waiting", "popped", "stopped"}
    /\ listening \in BOOLEAN /\ loopThread \in BOOLEAN /\ mgd \in BOOLEAN
    /\ played \in BOOLEAN
    /\ nClients \in 0 .. MaxClients
    /\ clients \subseteq 1 .. nClients
    /\ timeouts \subseteq 1 .. nClients
    /\ timeout_src_id_dot_data \in {0} \cup timeouts
    /\ eosSent \in BOOLEAN
    /\ hasEos \subseteq 1 .. nClients
    /\ bus \in Seq(Message)
    /\ pushPc \in {"idle", "hasSource", "hasTime"}
    /\ nPushes \in 0 .. MaxPushes
    /\ srcRefs \in Nat
    /\ abort \in {"no", "listen", "bus"}

Alive == abort = "no"
KeepActivity == UNCHANGED activityVars

----------------------------------------------------------------------------
(* android_main: server_pipeline_create.  First the signalling server,     *)
(* whose assertion fails on a port that is bound already.                  *)
signaling_server_init ==
    /\ Alive
    /\ loopPc = "start" /\ stage = "none"
    /\ IF listening
       THEN abort' = "listen" /\ UNCHANGED <<stage, listening>>
       ELSE abort' = abort /\ stage' = "listens" /\ listening' = TRUE
    /\ KeepActivity
    /\ UNCHANGED <<loopThread, mgd, played, clientVars, busVars, pushVars>>

(* The pipeline, its watch and the handlers; *out_mgd last.                *)
server_pipeline_create ==
    /\ Alive
    /\ stage = "listens"
    /\ stage' = "created"
    /\ mgd' = TRUE
    /\ KeepActivity
    /\ UNCHANGED <<listening, loopThread, played, clientVars, busVars, pushVars, abort>>

SetPlaying ==
    /\ Alive
    /\ stage = "created"
    /\ stage' = "played"
    /\ played' = TRUE
    /\ KeepActivity
    /\ UNCHANGED <<listening, loopThread, mgd, clientVars, busVars, pushVars, abort>>

(* The end of server_pipeline_play: the loop thread.  On to the loop.      *)
StartLoopThread ==
    /\ Alive
    /\ stage = "played" /\ loopPc = "start"
    /\ loopThread' = TRUE
    /\ loopPc' = "poll"
    /\ UNCHANGED <<frameworkVars, cmd, appVars, woken, stage, listening, mgd, played,
                   clientVars, busVars, pushVars, abort>>

(* onAppCmd only logs, and there is no render code.                        *)
MainLoop ==
    /\ Alive
    /\ \/ TakeCommand
       \/ PollTimesOut
       \/ PollWoken
       \/ loopPc = "render" /\ LoopAgain
    /\ UNCHANGED <<startVars, played, clientVars, busVars, pushVars, abort>>

----------------------------------------------------------------------------
(* server_pipeline_stop: the EOS event, then a wait without timeout for    *)
(* EOS or ERROR, which discards what comes before, then NULL.              *)
SendEos ==
    /\ Alive
    /\ loopPc = "cleanup" /\ stage = "played"
    /\ eosSent' = TRUE
    /\ hasEos' = clients
    /\ stage' = "waiting"
    /\ KeepActivity
    /\ UNCHANGED <<listening, loopThread, mgd, played, clientVars, bus, pushVars, abort>>

AwaitedErrorOnly == {"error"}                   \* mutant: EOS not in the mask
Awaited == {"error", "eos"}

PopFiltered ==
    /\ Alive
    /\ stage = "waiting" /\ bus # <<>>
    /\ bus' = Tail(bus)
    /\ stage' = IF Head(bus) \in Awaited THEN "popped" ELSE "waiting"
    /\ KeepActivity
    /\ UNCHANGED <<listening, loopThread, mgd, played, clientVars, eosSent, hasEos, pushVars,
                   abort>>

(* A pipeline in NULL has neither clock nor base time, and its bus drops   *)
(* what it holds and what comes.  Only the last timeout is removed.        *)
SetToNull ==
    /\ Alive
    /\ stage = "popped"
    /\ stage' = "stopped"
    /\ played' = FALSE
    /\ bus' = <<>>
    /\ timeouts' = timeouts \ {timeout_src_id_dot_data}
    /\ timeout_src_id_dot_data' = 0
    /\ MainReturns
    /\ UNCHANGED <<listening, loopThread, mgd, clients, nClients, eosSent, hasEos, pushVars, abort>>

(* The next activity in the process begins at android_main again.          *)
LaunchAgain ==
    /\ Alive
    /\ Relaunch
    /\ stage' = "none"
    /\ UNCHANGED <<listening, loopThread, mgd, played, clientVars, busVars, pushVars, abort>>

FrameworkCalls ==
    /\ Alive
    /\ Framework
    /\ UNCHANGED <<startVars, played, clientVars, busVars, pushVars, abort>>

----------------------------------------------------------------------------
(* The loop thread: clients come and go, each with a timeout of its own    *)
(* that is attached until removed, one field for all.                      *)
LoopRuns == Alive /\ loopThread

ClientConnects ==
    /\ LoopRuns
    /\ nClients < MaxClients
    /\ nClients' = nClients + 1
    /\ clients' = clients \cup {nClients + 1}
    /\ timeouts' = timeouts \cup {nClients + 1}
    /\ timeout_src_id_dot_data' = nClients + 1
    /\ KeepActivity
    /\ UNCHANGED <<startVars, played, busVars, pushVars, abort>>

ClientRemoved(k) ==
    /\ LoopRuns
    /\ k \in clients
    /\ clients' = clients \ {k}
    /\ KeepActivity
    /\ UNCHANGED <<startVars, played, nClients, timeouts, timeout_src_id_dot_data, busVars,
                   pushVars, abort>>

(* gst_bus_cb: an error or the EOS is fatal, the rest is logged.           *)
gst_bus_cb ==
    /\ LoopRuns
    /\ bus # <<>>
    /\ bus' = Tail(bus)
    /\ abort' = IF Head(bus) \in Fatal THEN "bus" ELSE abort
    /\ KeepActivity
    /\ UNCHANGED <<startVars, played, clientVars, eosSent, hasEos, pushVars>>

(* The pipeline posts; EOS when each of its sinks has had the event: never *)
(* if it has none, nor while one was linked too late for the event.        *)
Posts(m) ==
    /\ Alive
    /\ played
    /\ Len(bus) < MaxBus
    /\ bus' = Append(bus, m)
    /\ KeepActivity
    /\ UNCHANGED <<startVars, played, clientVars, eosSent, hasEos, pushVars, abort>>

AllHaveEos == clients # {} /\ clients \subseteq hasEos

PostsEos ==
    /\ Alive
    /\ played /\ eosSent
    /\ AllHaveEos
    /\ eosSent' = FALSE
    /\ bus' = Append(bus, "eos")
    /\ KeepActivity
    /\ UNCHANGED <<startVars, played, clientVars, hasEos, pushVars, abort>>

----------------------------------------------------------------------------
(* server_pipeline_push_pcm on the recorder's thread, from                 *)
(* nativeProcessAudio; it returns at once while mgd, or what it can see of *)
(* the pipeline, is NULL.                                                  *)
GetSource ==
    /\ Alive
    /\ pushPc = "idle" /\ nPushes < MaxPushes
    /\ mgd
    /\ nPushes' = nPushes + 1
    /\ srcRefs' = srcRefs + 1
    /\ pushPc' = "hasSource"
    /\ KeepActivity
    /\ UNCHANGED <<startVars, played, clientVars, busVars, abort>>

(* Without base time, an early return with the source in hand.  (The       *)
(* clock's reference, which no push gives back, is not counted.)           *)
ReadTime ==
    /\ Alive
    /\ pushPc = "hasSource"
    /\ pushPc' = IF played THEN "hasTime" ELSE "idle"
    /\ KeepActivity
    /\ UNCHANGED <<startVars, played, clientVars, busVars, nPushes, srcRefs, abort>>

SourceKept == srcRefs                           \* mutant: no unref after a push
SourceGivenTwice == srcRefs - 2                 \* mutant: one unref too many
SourceGivenBack == srcRefs - 1

PushBuffer ==
    /\ Alive
    /\ pushPc = "hasTime"
    /\ srcRefs' = SourceGivenBack
    /\ pushPc' = "idle"
    /\ KeepActivity
    /\ UNCHANGED <<startVars, played, clientVars, busVars, nPushes, abort>>

----------------------------------------------------------------------------
Next ==
    \/ FrameworkCalls
    \/ LaunchAgain
    \/ signaling_server_init
    \/ server_pipeline_create
    \/ SetPlaying
    \/ StartLoopThread
    \/ MainLoop
    \/ SendEos
    \/ PopFiltered
    \/ SetToNull
    \/ ClientConnects
    \/ \E k \in 1 .. MaxClients : ClientRemoved(k)
    \/ gst_bus_cb
    \/ \E m \in {"error", "other"} : Posts(m)
    \/ PostsEos
    \/ GetSource
    \/ ReadTime
    \/ PushBuffer

Spec == Init /\ [][Next]_vars

(* The activity's thread pops, and the sinks hand the EOS on.  Nothing is  *)
(* asked of the watch.                                                     *)
Fairness ==
    /\ WF_vars(PopFiltered)
    /\ WF_vars(PostsEos)

FairSpec == Spec /\ Fairness

----------------------------------------------------------------------------
(* Properties.                                                             *)

(* server_pipeline_stop comes back from its wait, though the bus watch     *)
(* takes messages from the same bus and clients leave meanwhile: unless    *)
(* the watch is first to the message, which ends the process, or there is  *)
(* no client, or one that came too late, to end the stream of.             *)
StopEnds ==
    stage = "waiting" /\ AllHaveEos ~> stage # "waiting" \/ ~Alive \/ ~AllHaveEos

(* While stop waits, the EOS it waits for is on its way: an event still to *)
(* become a message, or a message on the bus, whatever the watch takes     *)
(* from the bus and stop discards, unless the process has ended.           *)
EosNotLost ==
    stage = "waiting" /\ Alive => eosSent \/ \E i \in DOMAIN bus : bus[i] = "eos"

(* The process implements ServerLife: one server, that listens, plays, is  *)
(* stopped and stays so, also when the process sees another activity,      *)
(* which finds the port taken; clients and failures only once it plays;    *)
(* and while it plays, and stop has not ended, every push gives back the   *)
(* reference to the appsrc that it took, also one under way as the         *)
(* pipeline starts.                                                        *)
Lost == srcRefs - 1 - (IF pushPc = "idle" THEN 0 ELSE 1)
Phase == CASE ~listening -> "none"
           [] stage \in {"listens", "created"} -> "listening"
           [] stage = "played" -> "playing"
           [] stage \in {"waiting", "popped"} -> "ending"
           [] OTHER -> "over"
Life == INSTANCE ServerLife
        WITH server <- Phase, accepted <- nClients, lost <- Lost, alive <- Alive
ServesOnce == Life!Spec

(* The part of it that concerns the pushes, by itself.                     *)
SourceLostOnlyUnplayed == [][played => Lost' = Lost]_vars
=============================================================================
