------------------------- MODULE ServerProcessProofs -------------------------
(***************************************************************************)
(* The Android server's process, for every number of clients, pushes and   *)
(* messages, of starts, windows and activities.                            *)
(***************************************************************************)
EXTENDS ServerProcess, NativeActivityProofs

USE ProcessAssumption

----------------------------------------------------------------------------
(* The inductive invariant.                                                *)

(* The pipeline's reference to the appsrc, and that of a push under way.   *)
SourceCounted == srcRefs >= 1 + (IF pushPc = "idle" THEN 0 ELSE 1)

(* stop is inside android_main's last lines.                               *)
StopAtEnd == stage \in {"waiting", "popped"} => loopPc = "cleanup"

IInv == TypeOK /\ ActivityInv /\ SourceCounted /\ StopAtEnd

----------------------------------------------------------------------------
LEMMA InitIInv == Init => IInv
<1> SUFFICES ASSUME Init
             PROVE  IInv
    OBVIOUS
<1>1. ActivityInv
    BY ActivityInitInv DEF Init
<1>2. bus \in Seq(Message)
    BY DEF Init
<1>3. TypeOK
    <2>1. /\ ActivityTypeOK
          /\ stage \in {"none", "listens", "created", "played", "waiting", "popped", "stopped"}
          /\ listening \in BOOLEAN /\ loopThread \in BOOLEAN /\ mgd \in BOOLEAN
          /\ played \in BOOLEAN /\ eosSent \in BOOLEAN
        BY <1>1 DEF Init, ActivityInv
    <2>2. /\ nClients \in 0 .. MaxClients
          /\ clients \subseteq 1 .. nClients /\ timeouts \subseteq 1 .. nClients
          /\ timeout_src_id_dot_data \in {0} \cup timeouts /\ hasEos \subseteq 1 .. nClients
        BY DEF Init
    <2>3. /\ pushPc \in {"idle", "hasSource", "hasTime"} /\ nPushes \in 0 .. MaxPushes
          /\ srcRefs \in Nat /\ abort \in {"no", "listen", "bus"}
        BY DEF Init
    <2> QED
        BY <1>2, <2>1, <2>2, <2>3 DEF TypeOK
<1>4. SourceCounted /\ StopAtEnd
    BY DEF Init, SourceCounted, StopAtEnd
<1> QED
    BY <1>1, <1>3, <1>4 DEF IInv

(* The steps of android_main.                                              *)
LEMMA StartKeeps ==
    ASSUME IInv, signaling_server_init \/ server_pipeline_create \/ SetPlaying
    PROVE  IInv'
<1>1. ActivityInv' /\ ActivityTypeOK'
    BY StutterKeepsActivity
       DEF IInv, ActivityInv, signaling_server_init, server_pipeline_create, SetPlaying,
           KeepActivity
<1>2. UNCHANGED <<clientVars, busVars, pushVars, loopPc>>
    BY DEF signaling_server_init, server_pipeline_create, SetPlaying, KeepActivity, activityVars
<1>3. /\ stage' \in {"none", "listens", "created", "played"}
      /\ listening' \in BOOLEAN /\ loopThread' \in BOOLEAN /\ mgd' \in BOOLEAN
      /\ played' \in BOOLEAN /\ abort' \in {"no", "listen", "bus"}
    BY DEF IInv, TypeOK, signaling_server_init, server_pipeline_create, SetPlaying, Alive
<1>4. TypeOK'
    BY <1>1, <1>2, <1>3 DEF IInv, TypeOK, clientVars, busVars, pushVars
<1>5. SourceCounted' /\ StopAtEnd'
    BY <1>2, <1>3 DEF IInv, SourceCounted, StopAtEnd, pushVars
<1> QED
    BY <1>1, <1>4, <1>5 DEF IInv

LEMMA StartLoopThreadKeeps ==
    ASSUME IInv, StartLoopThread
    PROVE  IInv'
<1>1. ActivityInv' /\ ActivityTypeOK'
    BY OnlyPcKeeps DEF IInv, ActivityInv, StartLoopThread
<1>2. TypeOK'
    BY <1>1 DEF IInv, TypeOK, StartLoopThread, clientVars, busVars, pushVars
<1>3. SourceCounted' /\ StopAtEnd'
    BY DEF IInv, SourceCounted, StopAtEnd, StartLoopThread, pushVars
<1> QED
    BY <1>1, <1>2, <1>3 DEF IInv

(* The framework, and the loop: nothing of the server changes.             *)
LEMMA LoopKeeps ==
    ASSUME IInv, MainLoop \/ FrameworkCalls
    PROVE  IInv'
<1>1. ActivityInv' /\ ActivityTypeOK'
    BY TakeCommandKeeps, PollKeeps, LoopAgainKeeps, FrameworkKeeps
       DEF IInv, ActivityInv, MainLoop, FrameworkCalls
<1>2. UNCHANGED <<startVars, played, clientVars, busVars, pushVars, abort>>
    BY DEF MainLoop, FrameworkCalls
<1>3. TypeOK'
    BY <1>1, <1>2 DEF IInv, TypeOK, startVars, clientVars, busVars, pushVars
<1>4. SourceCounted'
    BY <1>2 DEF IInv, SourceCounted, pushVars
<1>5. StopAtEnd'
    <2>1. loopPc = "cleanup" => loopPc' = "cleanup"
        BY DEF MainLoop, TakeCommand, PollTimesOut, PollWoken, FrameworkCalls, Framework,
               CallsActivity, GivesSurface, TakesSurface
    <2> QED
        BY <1>2, <2>1 DEF IInv, StopAtEnd, startVars
<1> QED
    BY <1>1, <1>3, <1>4, <1>5 DEF IInv

LEMMA StopKeeps ==
    ASSUME IInv, SendEos \/ PopFiltered
    PROVE  IInv'
<1>1. ActivityInv' /\ ActivityTypeOK' /\ loopPc' = loopPc
    BY StutterKeepsActivity
       DEF IInv, ActivityInv, SendEos, PopFiltered, KeepActivity, activityVars
<1>2. bus' \in Seq(Message)
    BY DEF IInv, TypeOK, SendEos, PopFiltered
<1>3. stage' \in {"waiting", "popped"} /\ loopPc = "cleanup"
    BY DEF IInv, StopAtEnd, SendEos, PopFiltered
<1>4. hasEos' \subseteq 1 .. nClients /\ eosSent' \in BOOLEAN
    BY DEF IInv, TypeOK, SendEos, PopFiltered
<1>5. UNCHANGED <<listening, loopThread, mgd, played, clientVars, pushVars, abort>>
    BY DEF SendEos, PopFiltered
<1>6. TypeOK'
    BY <1>1, <1>2, <1>3, <1>4, <1>5 DEF IInv, TypeOK, clientVars, pushVars
<1>7. SourceCounted' /\ StopAtEnd'
    BY <1>1, <1>3, <1>5 DEF IInv, SourceCounted, StopAtEnd, pushVars
<1> QED
    BY <1>1, <1>6, <1>7 DEF IInv

LEMMA SetToNullKeeps ==
    ASSUME IInv, SetToNull
    PROVE  IInv'
<1>1. ActivityInv' /\ ActivityTypeOK'
    BY MainReturnsKeeps DEF IInv, ActivityInv, StopAtEnd, SetToNull
<1>2. bus' \in Seq(Message)
    BY DEF SetToNull
<1>3. TypeOK'
    BY <1>1, <1>2 DEF IInv, TypeOK, SetToNull, pushVars
<1>4. SourceCounted' /\ StopAtEnd'
    BY DEF IInv, SourceCounted, StopAtEnd, SetToNull, pushVars
<1> QED
    BY <1>1, <1>3, <1>4 DEF IInv

LEMMA LaunchAgainKeeps ==
    ASSUME IInv, LaunchAgain
    PROVE  IInv'
<1>1. ActivityInv' /\ ActivityTypeOK'
    BY FrameworkKeeps DEF IInv, ActivityInv, LaunchAgain
<1>2. TypeOK'
    BY <1>1 DEF IInv, TypeOK, LaunchAgain, clientVars, busVars, pushVars
<1>3. SourceCounted' /\ StopAtEnd'
    BY DEF IInv, SourceCounted, StopAtEnd, LaunchAgain, pushVars
<1> QED
    BY <1>1, <1>2, <1>3 DEF IInv

(* The loop thread.                                                        *)
LEMMA ClientsKeep ==
    ASSUME IInv, ClientConnects \/ \E k \in 1 .. MaxClients : ClientRemoved(k)
    PROVE  IInv'
<1>1. ActivityInv' /\ ActivityTypeOK' /\ loopPc' = loopPc
    BY StutterKeepsActivity
       DEF IInv, ActivityInv, ClientConnects, ClientRemoved, KeepActivity, activityVars
<1>2. UNCHANGED <<startVars, played, busVars, pushVars, abort>>
    BY DEF ClientConnects, ClientRemoved
<1>3. /\ nClients' \in 0 .. MaxClients
      /\ clients' \subseteq 1 .. nClients' /\ hasEos' \subseteq 1 .. nClients'
      /\ timeouts' \subseteq 1 .. nClients'
      /\ timeout_src_id_dot_data' \in {0} \cup timeouts'
    <2> USE DEF IInv, TypeOK
    <2>1. CASE ClientConnects
        <3>1. /\ nClients \in 0 .. MaxClients /\ nClients < MaxClients
              /\ nClients' = nClients + 1 /\ hasEos' = hasEos
            BY <2>1 DEF ClientConnects, busVars
        <3>2. nClients' \in 0 .. MaxClients
            BY <3>1
        <3>3. nClients' \in 1 .. nClients' /\ 1 .. nClients \subseteq 1 .. nClients'
            BY <3>1
        <3>4. /\ clients' = clients \cup {nClients'} /\ timeouts' = timeouts \cup {nClients'}
              /\ timeout_src_id_dot_data' = nClients'
            BY <2>1 DEF ClientConnects
        <3> QED
            BY <3>1, <3>2, <3>3, <3>4
    <2>2. CASE \E k \in 1 .. MaxClients : ClientRemoved(k)
        BY <2>2 DEF ClientRemoved, busVars
    <2> QED
        BY <2>1, <2>2
<1>4. TypeOK'
    BY <1>1, <1>2, <1>3 DEF IInv, TypeOK, startVars, busVars, pushVars
<1>5. SourceCounted' /\ StopAtEnd'
    BY <1>1, <1>2 DEF IInv, SourceCounted, StopAtEnd, startVars, pushVars
<1> QED
    BY <1>1, <1>4, <1>5 DEF IInv

LEMMA BusKeeps ==
    ASSUME IInv, gst_bus_cb \/ PostsEos \/ \E m \in {"error", "other"} : Posts(m)
    PROVE  IInv'
<1>1. ActivityInv' /\ ActivityTypeOK' /\ loopPc' = loopPc
    BY StutterKeepsActivity
       DEF IInv, ActivityInv, gst_bus_cb, PostsEos, Posts, KeepActivity, activityVars
<1>2. bus' \in Seq(Message)
    BY DEF IInv, TypeOK, gst_bus_cb, PostsEos, Posts, Message
<1>3. eosSent' \in BOOLEAN /\ abort' \in {"no", "listen", "bus"}
    BY DEF IInv, TypeOK, gst_bus_cb, PostsEos, Posts
<1>4. UNCHANGED <<startVars, played, clientVars, hasEos, pushVars>>
    BY DEF gst_bus_cb, PostsEos, Posts
<1>5. TypeOK'
    BY <1>1, <1>2, <1>3, <1>4 DEF IInv, TypeOK, startVars, clientVars, pushVars
<1>6. SourceCounted' /\ StopAtEnd'
    BY <1>1, <1>4 DEF IInv, SourceCounted, StopAtEnd, startVars, pushVars
<1> QED
    BY <1>1, <1>5, <1>6 DEF IInv

(* The recorder's thread.                                                  *)
LEMMA PushKeeps ==
    ASSUME IInv, GetSource \/ ReadTime \/ PushBuffer
    PROVE  IInv'
<1>1. ActivityInv' /\ ActivityTypeOK' /\ loopPc' = loopPc
    BY StutterKeepsActivity
       DEF IInv, ActivityInv, GetSource, ReadTime, PushBuffer, KeepActivity, activityVars
<1>2. UNCHANGED <<startVars, played, clientVars, busVars, abort>>
    BY DEF GetSource, ReadTime, PushBuffer
<1>3. /\ pushPc' \in {"idle", "hasSource", "hasTime"}
      /\ nPushes' \in 0 .. MaxPushes
      /\ srcRefs' \in Nat
      /\ SourceCounted'
    BY DEF IInv, TypeOK, SourceCounted, GetSource, ReadTime, PushBuffer, SourceGivenBack
<1>4. TypeOK' /\ StopAtEnd'
    BY <1>1, <1>2, <1>3 DEF IInv, TypeOK, StopAtEnd, startVars, clientVars, busVars
<1> QED
    BY <1>1, <1>3, <1>4 DEF IInv

LEMMA StutterKeeps == IInv /\ UNCHANGED vars => IInv'
<1> SUFFICES ASSUME IInv, UNCHANGED vars
             PROVE  IInv'
    OBVIOUS
<1>1. ActivityInv' /\ ActivityTypeOK'
    BY StutterKeepsActivity DEF IInv, ActivityInv, vars
<1>2. TypeOK' /\ SourceCounted' /\ StopAtEnd'
    BY <1>1 DEF IInv, TypeOK, SourceCounted, StopAtEnd, vars, activityVars, startVars, clientVars,
               busVars, pushVars
<1> QED
    BY <1>1, <1>2 DEF IInv

LEMMA StepIInv == IInv /\ [Next]_vars => IInv'
BY StartKeeps, StartLoopThreadKeeps, LoopKeeps, StopKeeps, SetToNullKeeps, LaunchAgainKeeps,
   ClientsKeep, BusKeeps, PushKeeps, StutterKeeps DEF Next

----------------------------------------------------------------------------
(* The strengthened invariant holds in every reachable state.              *)
THEOREM Invariance == Spec => []IInv
BY InitIInv, StepIInv, PTL DEF Spec

(* Every variable keeps its type; the timeout field above all names a      *)
(* timeout that is still attached, or none.                                *)
THEOREM TypeCorrect == Spec => []TypeOK
<1>1. IInv => TypeOK
    BY DEF IInv
<1> QED
    BY <1>1, Invariance, PTL

(* The appsrc is never freed under a push: server_push_pcm gives back no   *)
(* reference it has not taken.                                             *)
THEOREM SourceNeverFreed == Spec => [](srcRefs >= 1)
<1>1. IInv => srcRefs >= 1
    BY DEF IInv, TypeOK, SourceCounted
<1> QED
    BY <1>1, Invariance, PTL

(* Between play and stop every push gives back the reference it took.      *)
THEOREM PushGivesBack == Spec => SourceLostOnlyUnplayed
<1>1. IInv /\ [Next]_vars => [played => Lost' = Lost]_vars
    <2> SUFFICES ASSUME IInv, Next, played
                 PROVE  Lost' = Lost
        OBVIOUS
    <2>1. CASE GetSource \/ ReadTime \/ PushBuffer
        <3>0. srcRefs \in Nat
            BY DEF IInv, TypeOK
        <3>1. CASE GetSource
            BY <3>0, <3>1 DEF Lost, GetSource
        <3>2. CASE ReadTime
            <4>1. srcRefs' = srcRefs /\ pushPc = "hasSource" /\ pushPc' = "hasTime"
                BY <3>2 DEF ReadTime
            <4> QED
                BY <4>1 DEF Lost
        <3>3. CASE PushBuffer
            BY <3>0, <3>3 DEF Lost, PushBuffer, SourceGivenBack
        <3> QED
            BY <2>1, <3>1, <3>2, <3>3
    <2>2. CASE ~(GetSource \/ ReadTime \/ PushBuffer)
        <3>1. UNCHANGED <<srcRefs, pushPc>>
            BY <2>2 DEF Next, FrameworkCalls, LaunchAgain, signaling_server_init,
                   server_pipeline_create, SetPlaying, StartLoopThread, MainLoop, SendEos,
                   PopFiltered, SetToNull, ClientConnects, ClientRemoved, gst_bus_cb, Posts,
                   PostsEos, pushVars
        <3> QED
            BY <3>1 DEF Lost
    <2> QED
        BY <2>1, <2>2
<1> QED
    BY <1>1, Invariance, PTL DEF Spec, SourceLostOnlyUnplayed

----------------------------------------------------------------------------
(* The life of the server.                                                 *)

(* What the variables say of each other as the stages go by: the port, the *)
(* loop thread, the global and the clock come in this order, and the main  *)
(* loop ends in the stop of a pipeline that played.                        *)
StagesFit ==
    /\ stage # "none" => listening
    /\ played <=> stage \in {"played", "waiting", "popped"}
    /\ loopThread => listening /\ stage \notin {"listens", "created"}
    /\ mgd => listening /\ stage # "listens"
    /\ bus # <<>> => played
    /\ pushPc # "idle" => mgd
MainFits ==
    /\ loopPc \in {"poll", "render", "cleanup"} => stage \in {"played", "waiting", "popped"}
    /\ loopPc = "ended" => stage = "stopped"
    /\ loopPc = "start" => stage \notin {"waiting", "popped", "stopped"}
    /\ loopPc # "draw"
LifeInv == StagesFit /\ MainFits /\ EosNotLost

LifeState == <<Phase, nClients, Lost, Alive>>

LEMMA InitLife == Init => LifeInv /\ Life!Init
<1> SUFFICES ASSUME Init
             PROVE  LifeInv /\ Life!Init
    OBVIOUS
<1>1. StagesFit /\ MainFits /\ EosNotLost
    BY DEF Init, ActivityInit, StagesFit, MainFits, EosNotLost
<1>2. Phase = "none" /\ Lost = 0 /\ Alive
    BY DEF Init, Phase, Lost, Alive
<1> QED
    BY <1>1, <1>2 DEF LifeInv, Life!Init, Init

(* The steps of android_main up to the loop.                               *)
LEMMA LifeListen ==
    ASSUME IInv, LifeInv, signaling_server_init
    PROVE  LifeInv' /\ [Life!Next]_LifeState
<1>1. /\ Alive /\ loopPc = "start" /\ stage = "none" /\ loopPc' = loopPc
      /\ UNCHANGED <<loopThread, mgd, played, bus, eosSent, pushPc, srcRefs, nClients>>
    BY DEF signaling_server_init, KeepActivity, activityVars, busVars, pushVars, clientVars
<1>2. Lost' = Lost
    BY <1>1 DEF Lost
<1>3. CASE listening
    <2>1. /\ UNCHANGED <<stage, listening>> /\ Alive' = FALSE
          /\ Phase = "over" /\ Phase' = Phase
        BY <1>1, <1>3 DEF signaling_server_init, Alive, Phase
    <2>2. LifeInv'
        BY <1>1, <2>1 DEF LifeInv, StagesFit, MainFits, EosNotLost
    <2>3. Life!Fail
        BY <1>1, <1>2, <2>1 DEF Life!Fail
    <2> QED
        BY <1>1, <2>2, <2>3 DEF Life!Next
<1>4. CASE ~listening
    <2>1. /\ stage' = "listens" /\ listening' = TRUE /\ abort' = abort
          /\ Phase = "none" /\ Phase' = "listening" /\ Alive' = Alive
        BY <1>1, <1>4 DEF signaling_server_init, Alive, Phase, IInv, TypeOK
    <2>2. LifeInv'
        BY <1>1, <1>4, <2>1 DEF LifeInv, StagesFit, MainFits, EosNotLost
    <2>3. Life!Listen
        BY <1>1, <1>2, <2>1 DEF Life!Listen, Life!Moves
    <2> QED
        BY <1>1, <2>2, <2>3 DEF Life!Next
<1> QED
    BY <1>3, <1>4

LEMMA LifePlay ==
    ASSUME IInv, LifeInv, server_pipeline_create \/ SetPlaying \/ StartLoopThread
    PROVE  LifeInv' /\ [Life!Next]_LifeState
<1>1. /\ Alive /\ Alive' /\ listening
      /\ UNCHANGED <<listening, bus, eosSent, pushPc, srcRefs, nClients>>
    BY DEF server_pipeline_create, SetPlaying, StartLoopThread, Alive, busVars, pushVars,
           clientVars, LifeInv, StagesFit
<1>2. Lost' = Lost
    BY <1>1 DEF Lost
<1>3. CASE server_pipeline_create
    <2>1. /\ stage = "listens" /\ stage' = "created" /\ mgd' = TRUE
          /\ UNCHANGED <<loopThread, played, loopPc>>
        BY <1>3 DEF server_pipeline_create, KeepActivity, activityVars
    <2>2. LifeInv'
        BY <1>1, <2>1 DEF LifeInv, StagesFit, MainFits, EosNotLost
    <2>3. Phase' = Phase
        BY <1>1, <2>1 DEF Phase
    <2> QED
        BY <1>1, <1>2, <2>2, <2>3 DEF LifeState
<1>4. CASE SetPlaying
    <2>1. /\ stage = "created" /\ stage' = "played" /\ played' = TRUE
          /\ UNCHANGED <<loopThread, mgd, loopPc>>
        BY <1>4 DEF SetPlaying, KeepActivity, activityVars
    <2>2. LifeInv'
        BY <1>1, <2>1 DEF LifeInv, StagesFit, MainFits, EosNotLost
    <2>3. Phase = "listening" /\ Phase' = "playing"
        BY <1>1, <2>1 DEF Phase
    <2>4. Life!Play
        BY <1>1, <1>2, <2>3 DEF Life!Play, Life!Moves
    <2> QED
        BY <1>1, <2>2, <2>4 DEF Life!Next
<1>5. CASE StartLoopThread
    <2>1. /\ stage = "played" /\ loopPc' = "poll" /\ loopThread' = TRUE
          /\ UNCHANGED <<stage, mgd, played>>
        BY <1>5 DEF StartLoopThread
    <2>2. LifeInv'
        BY <1>1, <2>1 DEF LifeInv, StagesFit, MainFits, EosNotLost
    <2>3. Phase' = Phase
        BY <1>1, <2>1 DEF Phase
    <2> QED
        BY <1>1, <1>2, <2>2, <2>3 DEF LifeState
<1> QED
    BY <1>3, <1>4, <1>5

LEMMA LifeLoop ==
    ASSUME IInv, LifeInv, MainLoop \/ FrameworkCalls
    PROVE  LifeInv' /\ UNCHANGED LifeState
<1>1. UNCHANGED <<startVars, played, clientVars, busVars, pushVars, abort>>
    BY DEF MainLoop, FrameworkCalls
<1>2. /\ loopPc' # "draw"
      /\ loopPc' # loopPc =>
            /\ loopPc \in {"poll", "render"}
            /\ loopPc' \in {"poll", "render", "cleanup"}
    BY DEF MainLoop, TakeCommand, PollTimesOut, PollWoken, LoopAgain, FrameworkCalls, Framework,
           CallsActivity, GivesSurface, TakesSurface, LifeInv, MainFits
<1>3. MainFits'
    BY <1>1, <1>2 DEF LifeInv, MainFits, startVars
<1>4. StagesFit' /\ EosNotLost'
    BY <1>1 DEF LifeInv, StagesFit, EosNotLost, Alive, startVars, busVars, pushVars
<1> QED
    BY <1>1, <1>3, <1>4 DEF LifeInv, LifeState, Phase, Lost, Alive, startVars, clientVars, pushVars

(* server_pipeline_stop.                                                   *)
LEMMA LifeSendEos ==
    ASSUME IInv, LifeInv, SendEos
    PROVE  LifeInv' /\ [Life!Next]_LifeState
<1>1. /\ Alive /\ Alive' /\ loopPc = "cleanup" /\ stage = "played" /\ listening
      /\ stage' = "waiting" /\ eosSent' = TRUE
      /\ UNCHANGED <<listening, loopThread, mgd, played, loopPc, bus, pushPc, srcRefs, nClients>>
    BY DEF SendEos, Alive, KeepActivity, activityVars, pushVars, clientVars, LifeInv, StagesFit
<1>2. LifeInv'
    BY <1>1 DEF LifeInv, StagesFit, MainFits, EosNotLost
<1>3. Phase = "playing" /\ Phase' = "ending" /\ Lost' = Lost
    BY <1>1 DEF Phase, Lost
<1>4. Life!EndStream
    BY <1>1, <1>3 DEF Life!EndStream, Life!Moves
<1> QED
    BY <1>1, <1>2, <1>4 DEF Life!Next

(* A message that is not the EOS leaves the EOS on the bus.                *)
LEMMA EosStays ==
    ASSUME bus \in Seq(Message), bus # <<>>, Head(bus) # "eos",
           \E i \in DOMAIN bus : bus[i] = "eos"
    PROVE  \E i \in DOMAIN Tail(bus) : Tail(bus)[i] = "eos"
<1>1. PICK i \in 1 .. Len(bus) : bus[i] = "eos"
    OBVIOUS
<1>2. Head(bus) = bus[1]
    OBVIOUS
<1>3. i # 1
    BY <1>1, <1>2
<1>4. i - 1 \in 1 .. Len(Tail(bus)) /\ Tail(bus)[i - 1] = bus[i]
    BY <1>1, <1>3
<1>5. DOMAIN Tail(bus) = 1 .. Len(Tail(bus))
    OBVIOUS
<1> QED
    BY <1>1, <1>4, <1>5

LEMMA LifePop ==
    ASSUME IInv, LifeInv, PopFiltered
    PROVE  LifeInv' /\ UNCHANGED LifeState
<1>1. /\ Alive /\ Alive' /\ stage = "waiting" /\ listening /\ bus # <<>>
      /\ bus' = Tail(bus)
      /\ stage' = IF Head(bus) \in Awaited THEN "popped" ELSE "waiting"
      /\ UNCHANGED <<listening, loopThread, mgd, played, loopPc, eosSent, pushPc, srcRefs,
                     nClients>>
    BY DEF PopFiltered, Alive, KeepActivity, activityVars, pushVars, clientVars, LifeInv, StagesFit
<1>2. StagesFit' /\ MainFits'
    BY <1>1 DEF LifeInv, StagesFit, MainFits
<1>3. EosNotLost'
    <2> SUFFICES ASSUME stage' = "waiting", ~eosSent
                 PROVE  \E i \in DOMAIN bus' : bus'[i] = "eos"
        BY <1>1 DEF EosNotLost
    <2>1. Head(bus) # "eos"
        BY <1>1 DEF Awaited
    <2>2. \E i \in DOMAIN bus : bus[i] = "eos"
        BY <1>1 DEF LifeInv, EosNotLost
    <2> QED
        BY <1>1, <2>1, <2>2, EosStays DEF IInv, TypeOK
<1>4. Phase' = Phase /\ Lost' = Lost
    BY <1>1 DEF Phase, Lost
<1> QED
    BY <1>1, <1>2, <1>3, <1>4 DEF LifeInv, LifeState

LEMMA LifeOver ==
    ASSUME IInv, LifeInv, SetToNull
    PROVE  LifeInv' /\ [Life!Next]_LifeState
<1>1. /\ Alive /\ Alive' /\ stage = "popped" /\ stage' = "stopped" /\ listening
      /\ played' = FALSE /\ bus' = <<>> /\ loopPc' = "ended"
      /\ UNCHANGED <<listening, loopThread, mgd, eosSent, pushPc, srcRefs, nClients>>
    BY DEF SetToNull, MainReturns, Alive, pushVars, LifeInv, StagesFit
<1>2. LifeInv'
    BY <1>1 DEF LifeInv, StagesFit, MainFits, EosNotLost
<1>3. Phase = "ending" /\ Phase' = "over" /\ Lost' = Lost
    BY <1>1 DEF Phase, Lost
<1>4. Life!Over
    BY <1>1, <1>3 DEF Life!Over, Life!Moves
<1> QED
    BY <1>1, <1>2, <1>4 DEF Life!Next

(* An activity is launched again only when the one before was stopped.     *)
LEMMA LifeAgain ==
    ASSUME IInv, LifeInv, LaunchAgain
    PROVE  LifeInv' /\ UNCHANGED LifeState
<1>1. activity = "gone" /\ loopPc' = "start" /\ stage' = "none"
    BY DEF LaunchAgain, Relaunch
<1>2. stage = "stopped"
    BY <1>1 DEF IInv, ActivityInv, DestroyedLast, LifeInv, MainFits
<1>3. /\ listening /\ ~played
      /\ UNCHANGED <<listening, loopThread, mgd, played, bus, eosSent, pushPc, srcRefs, nClients,
                     abort>>
    BY <1>2 DEF LaunchAgain, busVars, pushVars, clientVars, LifeInv, StagesFit
<1>4. LifeInv'
    BY <1>1, <1>2, <1>3 DEF LifeInv, StagesFit, MainFits, EosNotLost
<1>5. Phase' = Phase /\ Lost' = Lost
    BY <1>1, <1>2, <1>3 DEF Phase, Lost
<1> QED
    BY <1>3, <1>4, <1>5 DEF LifeState, Alive

(* The loop thread: it runs from the time the pipeline plays.              *)
LEMMA LifeClients ==
    ASSUME IInv, LifeInv, ClientConnects \/ \E k \in 1 .. MaxClients : ClientRemoved(k)
    PROVE  LifeInv' /\ [Life!Next]_LifeState
<1>1. /\ Alive /\ Alive' /\ loopThread
      /\ UNCHANGED <<startVars, played, busVars, pushVars, loopPc>>
    BY DEF ClientConnects, ClientRemoved, LoopRuns, Alive, KeepActivity, activityVars
<1>2. LifeInv'
    BY <1>1 DEF LifeInv, StagesFit, MainFits, EosNotLost, startVars, busVars, pushVars
<1>3. /\ Phase \in {"playing", "ending", "over"}
      /\ Phase' = Phase /\ Lost' = Lost
    BY <1>1 DEF Phase, Lost, LifeInv, StagesFit, startVars, pushVars
<1>4. CASE ClientConnects
    <2>1. nClients' = nClients + 1
        BY <1>4 DEF ClientConnects
    <2>2. Life!Accept
        BY <1>1, <1>3, <2>1 DEF Life!Accept
    <2> QED
        BY <1>1, <1>2, <2>2 DEF Life!Next
<1>5. CASE \E k \in 1 .. MaxClients : ClientRemoved(k)
    <2>1. nClients' = nClients
        BY <1>5 DEF ClientRemoved
    <2> QED
        BY <1>1, <1>2, <1>3, <2>1 DEF LifeState
<1> QED
    BY <1>4, <1>5

LEMMA LifeWatch ==
    ASSUME IInv, LifeInv, gst_bus_cb
    PROVE  LifeInv' /\ [Life!Next]_LifeState
<1>1. /\ Alive /\ loopThread /\ bus # <<>> /\ bus' = Tail(bus)
      /\ abort' = IF Head(bus) \in Fatal THEN "bus" ELSE abort
      /\ UNCHANGED <<startVars, played, clientVars, eosSent, hasEos, pushVars, loopPc>>
    BY DEF gst_bus_cb, LoopRuns, KeepActivity, activityVars
<1>2. played /\ Phase \in {"playing", "ending"} /\ Phase' = Phase /\ Lost' = Lost
      /\ nClients' = nClients
    BY <1>1 DEF Phase, Lost, LifeInv, StagesFit, startVars, pushVars, clientVars
<1>3. StagesFit' /\ MainFits'
    BY <1>1, <1>2 DEF LifeInv, StagesFit, MainFits, startVars, pushVars
<1>4. EosNotLost'
    <2> SUFFICES ASSUME stage' = "waiting", Alive', ~eosSent
                 PROVE  \E i \in DOMAIN bus' : bus'[i] = "eos"
        BY <1>1 DEF EosNotLost
    <2>1. Head(bus) # "eos"
        BY <1>1 DEF Fatal, Alive
    <2>2. \E i \in DOMAIN bus : bus[i] = "eos"
        BY <1>1 DEF LifeInv, EosNotLost, startVars
    <2> QED
        BY <1>1, <2>1, <2>2, EosStays DEF IInv, TypeOK
<1>5. CASE Head(bus) \in Fatal
    <2>1. Alive' = FALSE
        BY <1>1, <1>5 DEF Alive
    <2>2. Life!Fail
        BY <1>2, <2>1 DEF Life!Fail
    <2> QED
        BY <1>1, <1>3, <1>4, <2>2 DEF LifeInv, Life!Next
<1>6. CASE Head(bus) \notin Fatal
    <2>1. Alive' = Alive
        BY <1>1, <1>6 DEF Alive
    <2> QED
        BY <1>2, <1>3, <1>4, <2>1 DEF LifeInv, LifeState
<1> QED
    BY <1>5, <1>6

LEMMA LifePosts ==
    ASSUME IInv, LifeInv, PostsEos \/ \E m \in {"error", "other"} : Posts(m)
    PROVE  LifeInv' /\ UNCHANGED LifeState
<1>1. /\ played
      /\ UNCHANGED <<startVars, played, clientVars, hasEos, pushVars, abort, loopPc>>
    BY DEF PostsEos, Posts, KeepActivity, activityVars
<1>2. StagesFit' /\ MainFits'
    BY <1>1 DEF LifeInv, StagesFit, MainFits, startVars, pushVars
<1>3. PICK m \in Message : bus' = Append(bus, m) /\ (eosSent' = eosSent \/ m = "eos")
    BY DEF PostsEos, Posts, Message
<1>4. EosNotLost'
    <2> SUFFICES ASSUME stage' = "waiting", Alive', ~eosSent'
                 PROVE  \E i \in DOMAIN bus' : bus'[i] = "eos"
        BY DEF EosNotLost
    <2>1. bus \in Seq(Message)
        BY DEF IInv, TypeOK
    <2>2. /\ Len(bus) \in Nat /\ DOMAIN bus = 1 .. Len(bus)
          /\ DOMAIN bus' = 1 .. Len(bus) + 1
          /\ bus'[Len(bus) + 1] = m
          /\ \A i \in 1 .. Len(bus) : bus'[i] = bus[i]
        BY <1>3, <2>1
    <2>3. CASE m = "eos"
        BY <2>2, <2>3
    <2>4. CASE m # "eos"
        <3>1. \E i \in DOMAIN bus : bus[i] = "eos"
            BY <1>1, <1>3, <2>4 DEF LifeInv, EosNotLost, Alive, startVars
        <3> QED
            BY <2>2, <3>1
    <2> QED
        BY <2>3, <2>4
<1> QED
    BY <1>1, <1>2, <1>4 DEF LifeInv, LifeState, Phase, Lost, Alive, startVars, pushVars, clientVars

(* The recorder's thread loses a reference only when it finds a pipeline   *)
(* without base time.                                                      *)
LEMMA LifePush ==
    ASSUME IInv, LifeInv, GetSource \/ ReadTime \/ PushBuffer
    PROVE  LifeInv' /\ [Life!Next]_LifeState
<1>1. /\ Alive /\ Alive'
      /\ UNCHANGED <<startVars, played, clientVars, busVars, loopPc>>
    BY DEF GetSource, ReadTime, PushBuffer, Alive, KeepActivity, activityVars
<1>2. /\ pushPc' # "idle" => mgd
      /\ srcRefs \in Nat
    BY DEF GetSource, ReadTime, PushBuffer, LifeInv, StagesFit, IInv, TypeOK
<1>3. LifeInv'
    BY <1>1, <1>2 DEF LifeInv, StagesFit, MainFits, EosNotLost, startVars, busVars
<1>4. Phase' = Phase /\ nClients' = nClients /\ Alive' = Alive
    BY <1>1 DEF Phase, startVars, clientVars
<1>5. CASE GetSource
    <2>1. Lost' = Lost
        BY <1>2, <1>5 DEF GetSource, Lost
    <2> QED
        BY <1>3, <1>4, <2>1 DEF LifeState
<1>6. CASE PushBuffer
    <2>1. Lost' = Lost
        BY <1>2, <1>6 DEF PushBuffer, SourceGivenBack, Lost
    <2> QED
        BY <1>3, <1>4, <2>1 DEF LifeState
<1>7. CASE ReadTime /\ played
    <2>1. srcRefs' = srcRefs /\ pushPc = "hasSource" /\ pushPc' = "hasTime"
        BY <1>7 DEF ReadTime
    <2>2. Lost' = Lost
        BY <2>1 DEF Lost
    <2> QED
        BY <1>3, <1>4, <2>2 DEF LifeState
<1>8. CASE ReadTime /\ ~played
    <2>1. srcRefs' = srcRefs /\ pushPc = "hasSource" /\ pushPc' = "idle"
        BY <1>8 DEF ReadTime
    <2>2. Lost' = Lost + 1
        BY <1>2, <2>1 DEF Lost
    <2>3. Phase \in {"listening", "over"}
        BY <1>8, <2>1 DEF LifeInv, StagesFit, Phase, IInv, TypeOK
    <2>4. Life!LoseReference
        BY <1>4, <2>2, <2>3 DEF Life!LoseReference
    <2> QED
        BY <1>1, <1>3, <2>4 DEF Life!Next
<1> QED
    BY <1>5, <1>6, <1>7, <1>8

LEMMA LifeStutter ==
    ASSUME LifeInv, UNCHANGED vars
    PROVE  LifeInv' /\ UNCHANGED LifeState
<1>1. LifeInv'
    BY DEF LifeInv, StagesFit, MainFits, EosNotLost, Alive, vars, activityVars, startVars, busVars,
           pushVars
<1>2. UNCHANGED LifeState
    BY DEF LifeState, Phase, Lost, Alive, vars, startVars, clientVars, pushVars
<1> QED
    BY <1>1, <1>2

LEMMA LifeStep ==
    ASSUME IInv, LifeInv, [Next]_vars
    PROVE  LifeInv' /\ [Life!Next]_LifeState
BY LifeListen, LifePlay, LifeLoop, LifeSendEos, LifePop, LifeOver, LifeAgain, LifeClients,
   LifeWatch, LifePosts, LifePush, LifeStutter DEF Next

LEMMA LifeInvariance == Spec => []LifeInv
<1>1. IInv /\ LifeInv /\ [Next]_vars => LifeInv'
    BY LifeStep
<1> QED
    BY InitLife, Invariance, <1>1, PTL DEF Spec

(* What stop waits for cannot be lost on the way: neither the watch nor    *)
(* stop itself takes the EOS from the bus without an end coming of it.     *)
THEOREM StopHasItsEos == Spec => []EosNotLost
BY LifeInvariance, PTL DEF LifeInv

(* The process implements ServerLife, for every number of activities,      *)
(* clients, pushes and messages.                                           *)
THEOREM ProcessImplementsServerLife == Spec => ServesOnce
<1>1. IInv /\ LifeInv /\ [Next]_vars => [Life!Next]_LifeState
    BY LifeStep
<1> QED
    BY InitLife, Invariance, LifeInvariance, <1>1, PTL
       DEF Spec, ServesOnce, Life!Spec, Life!vars, LifeState
=============================================================================
