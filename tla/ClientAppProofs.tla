--------------------------- MODULE ClientAppProofs ---------------------------
(***************************************************************************)
(* The client application for every number of windows: what the stream     *)
(* client, its connection and the pipeline they share never disagree on,   *)
(* and what they make of the pipeline's reference count, whichever way     *)
(* their statements interleave.                                            *)
(***************************************************************************)
EXTENDS ClientApp, TLAPS

USE WindowsAssumption

----------------------------------------------------------------------------
(* The inductive invariant.                                                *)

Disconnected == {"disconnected", "stopped", "cleared", "freeing"}

(* The pair the application works on is one it has made and not freed;     *)
(* once it has been disconnected for good nothing of it is pending.        *)
CurrentPair ==
    /\ cur <= made
    /\ cur # 0 => sc[cur] = "live"
    /\ appPc # "idle" => cur # 0
    /\ appPc \in Disconnected \cup {"disconnecting"} => attempt[cur] # "pending"
    /\ \A w \in Pair : w > made => sc[w] = "none"

(* Who is in conn_disconnect_internal, and on whose behalf.                *)
DropHasPair ==
    /\ drop[APP] # "idle" <=> appPc \in {"dropping", "disconnecting"}
    /\ drop[LOOP] # "idle" <=> loopPc = "dropping"
    /\ loopConn <= made
    /\ loopPc \notin {"idle", "stuck"} => loopConn # 0

(* A pair connects once, so its callback makes it a pipeline once: until   *)
(* then it has never had one.                                              *)
Fresh(w) == w \notin scPipe \cup connPipe \cup playing \cup handed

ConnectsOnce ==
    /\ \A w \in Pair : w > made \/ (appPc = "made" /\ w = cur)
                           => Fresh(w) /\ attempt[w] = "none" /\ w # loopConn
    /\ \A w \in Pair : attempt[w] # "none" => Fresh(w) /\ w # loopConn
    /\ loopPc = "connected" => Fresh(loopConn)
    /\ loopPc = "made" => loopConn \notin handed

(* The pipeline of a pair, before it is handed over and after.             *)
PipelineHeard ==
    /\ scPipe \cup handed \subseteq handlers
    /\ connPipe \subseteq handed

(* One reference, and a field of each of the two that gives it up.         *)
Held(field, w) == IF w \in field THEN 1 ELSE 0
RefsAccount ==
    \A w \in Pair : refs[w] = IF w \in handed
                              THEN Held(scPipe, w) + Held(connPipe, w) - 1
                              ELSE Held(scPipe, w)

(* A pair whose callback met no disconnect: sc->pipeline is cleared before *)
(* conn->pipeline, and whoever clears the first will clear the second.     *)
DropsInOrder(w) ==
    /\ InCallback(w) => ~Dropping(w) /\ ~Stopping(w)
    /\ w \in scPipe => w \in connPipe \/ (loopPc = "made" /\ loopConn = w)
    /\ w \in connPipe => w \in scPipe \/ \E t \in Thread : Of(t) = w /\ drop[t] = "clear"
    /\ \A t \in Thread : Of(t) = w /\ drop[t] = "clear" => w \notin scPipe
    /\ appPc \in Disconnected /\ cur = w => w \notin connPipe

(* A pipeline that was not started in the middle of a drop stays stopped   *)
(* for the rest of it.                                                     *)
StaysStopped ==
    \A t \in Thread :
        drop[t] \in {"emit", "handler", "clear"} => Of(t) \notin playing \ raced

IInv == /\ TypeOK
        /\ CurrentPair
        /\ DropHasPair
        /\ ConnectsOnce
        /\ PipelineHeard
        /\ RefsAccount
        /\ \A w \in Pair \ crossed : DropsInOrder(w)
        /\ StaysStopped
        /\ FreedIsQuiet
        /\ PlayingIsOwned

----------------------------------------------------------------------------
(* Threads and pairs.                                                      *)
LEMMA Threads ==
    /\ APP \in Thread /\ LOOP \in Thread /\ APP # LOOP
    /\ Pair \subseteq Thread /\ APP \notin Pair /\ LOOP \notin Pair
    /\ Pair \subseteq Nat /\ 0 \notin Pair
    /\ \A n \in 0 .. MaxWindows : n # 0 => n \in Pair
BY DEF APP, LOOP, Thread, Pair

(* Whoever is in conn_disconnect_internal is there for some pair.          *)
LEMMA OfIsPair ==
    ASSUME IInv, NEW t \in Thread, drop[t] # "idle"
    PROVE  Of(t) \in Pair
BY Threads DEF IInv, TypeOK, CurrentPair, DropHasPair, Of, APP, LOOP, Thread, Pair

LEMMA InitIInv == Init => IInv
<1> SUFFICES ASSUME Init
             PROVE  IInv
    OBVIOUS
<1>1. TypeOK
    <2>1. /\ \A s \in {handlers, threads, sockets, scPipe, connPipe, playing, handed,
                      crossed, raced} : s \subseteq Pair
          /\ {made, cur, loopConn} \subseteq 0 .. MaxWindows
        BY DEF Init
    <2>2. /\ refs \in [Pair -> -1 .. 1] /\ sc \in [Pair -> {"none", "live", "freed"}]
          /\ attempt \in [Pair -> {"none", "pending", "cancelled"}]
          /\ drop \in [Thread -> DropStage]
        BY DEF Init, DropStage
    <2> QED
        BY <2>1, <2>2 DEF Init, TypeOK, AppPc, LoopPc
<1>2. CurrentPair /\ DropHasPair /\ ConnectsOnce /\ PipelineHeard
    BY Threads DEF Init, CurrentPair, DropHasPair, ConnectsOnce, PipelineHeard, Fresh, Pair,
       Disconnected
<1>3. RefsAccount /\ FreedIsQuiet /\ PlayingIsOwned
    BY DEF Init, RefsAccount, Held, FreedIsQuiet, PlayingIsOwned
<1>4. (\A v \in Pair \ crossed : DropsInOrder(v)) /\ StaysStopped
    BY DEF Init, DropsInOrder, StaysStopped, InCallback, Disconnected
<1> QED
    BY <1>1, <1>2, <1>3, <1>4 DEF IInv

----------------------------------------------------------------------------
(* The steps of conn_disconnect_internal.                                  *)
LEMMA DropEffect ==
    ASSUME IInv, NEW t \in Thread, NEW from \in DropStage, NEW to \in DropStage,
           from # "idle", DropGoes(t, from, to)
    PROVE  /\ drop[t] = from /\ drop'[t] = to
           /\ \A u \in Thread \ {t} : drop'[u] = drop[u]
           /\ \A u \in Thread : Of(u)' = Of(u)
           /\ Of(t) \in Pair
           /\ drop' \in [Thread -> DropStage]
           /\ UNCHANGED <<window, made, cur, sc, handlers, threads, attempt, sockets,
                          loopConn, handed, crossed, raced>>
<1>1. drop \in [Thread -> DropStage]
    BY DEF IInv, TypeOK
<1>2. drop[t] = from /\ drop' = [drop EXCEPT ![t] = to]
      /\ UNCHANGED <<window, made, cur, sc, handlers, threads, attempt, sockets,
                     loopConn, handed, crossed, raced>>
    BY DEF DropGoes, appVars, history
<1>3. \A u \in Thread : Of(u)' = Of(u)
    BY <1>2 DEF Of
<1> QED
    BY <1>1, <1>2, <1>3, OfIsPair

(* The two places where gst_clear_object gives a reference up.             *)
LEMMA GivesUpOwn ==
    ASSUME TypeOK, RefsAccount, NEW w \in Pair, UNCHANGED <<connPipe, handed>>,
           scPipe' = scPipe \ {w}, refs' = [refs EXCEPT ![w] = @ - Held(scPipe, w)]
    PROVE  RefsAccount' /\ refs' \in [Pair -> -1 .. 1]
<1>1. refs'[w] = refs[w] - Held(scPipe, w) /\ \A v \in Pair \ {w} : refs'[v] = refs[v]
    BY DEF TypeOK
<1>2. RefsAccount'
    BY <1>1 DEF RefsAccount, Held
<1>3. \A v \in Pair : refs'[v] \in -1 .. 1
    BY <1>2 DEF RefsAccount, Held
<1> QED
    BY <1>2, <1>3 DEF TypeOK

LEMMA GivesUpConn ==
    ASSUME TypeOK, RefsAccount, connPipe \subseteq handed, NEW w \in Pair,
           UNCHANGED <<scPipe, handed>>,
           connPipe' = connPipe \ {w}, refs' = [refs EXCEPT ![w] = @ - Held(connPipe, w)]
    PROVE  RefsAccount' /\ refs' \in [Pair -> -1 .. 1]
<1>1. refs'[w] = refs[w] - Held(connPipe, w) /\ \A v \in Pair \ {w} : refs'[v] = refs[v]
    BY DEF TypeOK
<1>2. RefsAccount'
    BY <1>1 DEF RefsAccount, Held
<1>3. \A v \in Pair : refs'[v] \in -1 .. 1
    BY <1>2 DEF RefsAccount, Held
<1> QED
    BY <1>2, <1>3 DEF TypeOK

(* The process ends.                                                       *)
LEMMA OnlyFault ==
    ASSUME IInv, fault' \in {"none", "freed", "loop", "null"},
           UNCHANGED <<appVars, pipeVars, history, appPc, attempt, sockets, drop, loopPc,
                       loopConn>>
    PROVE  IInv'
BY DEF IInv, TypeOK, CurrentPair, DropHasPair, ConnectsOnce, Fresh, PipelineHeard,
       RefsAccount, Held, DropsInOrder, StaysStopped, FreedIsQuiet, PlayingIsOwned,
       InCallback, Dropping, Stopping, Of, appVars, pipeVars, history

(* What a step inside it leaves as it was.                                 *)
LEMMA DropFrame ==
    ASSUME IInv, NEW t \in Thread, NEW from \in DropStage, NEW to \in DropStage,
           from # "idle", to # "idle", DropGoes(t, from, to), UNCHANGED <<appPc, loopPc>>
    PROVE  /\ CurrentPair' /\ DropHasPair' /\ FreedIsQuiet'
           /\ \A v \in Pair : /\ InCallback(v)' = InCallback(v)
                              /\ Stopping(v)' = Stopping(v)
                              /\ Dropping(v)' => Dropping(v)
<1>1. /\ drop[t] = from /\ drop'[t] = to
      /\ \A u \in Thread \ {t} : drop'[u] = drop[u]
      /\ \A u \in Thread : Of(u)' = Of(u)
      /\ UNCHANGED <<window, made, cur, sc, handlers, attempt, loopConn>>
    BY DropEffect
<1>2. CurrentPair' /\ FreedIsQuiet'
    BY <1>1 DEF IInv, CurrentPair, FreedIsQuiet
<1>3. DropHasPair'
    <2>1. (drop'[APP] # "idle" <=> drop[APP] # "idle")
          /\ (drop'[LOOP] # "idle" <=> drop[LOOP] # "idle")
        BY <1>1, Threads
    <2> QED
        BY <1>1, <2>1 DEF IInv, DropHasPair
<1>4. \A v \in Pair : /\ InCallback(v)' = InCallback(v)
                      /\ Stopping(v)' = Stopping(v)
                      /\ Dropping(v)' => Dropping(v)
    BY <1>1 DEF InCallback, Stopping, Dropping
<1> QED
    BY <1>2, <1>3, <1>4

(* A step that gives nothing up; one that comes to the last statement has  *)
(* found, unless the callback was crossed, that sc->pipeline is cleared.   *)
LEMMA DropKeeps ==
    ASSUME IInv, NEW t \in Thread, NEW from \in DropStage, NEW to \in DropStage,
           from \notin {"idle", "clear"}, to # "idle", DropGoes(t, from, to),
           playing' \subseteq playing,
           UNCHANGED <<scPipe, connPipe, refs, appPc, loopPc, fault>>,
           to = "clear" /\ Of(t) \notin crossed => Of(t) \notin scPipe,
           \/ to = "stop" \/ from \in {"emit", "handler"}
           \/ Of(t) \notin playing' \ raced
    PROVE  IInv'
<1>1. /\ drop[t] = from /\ drop'[t] = to
      /\ \A u \in Thread \ {t} : drop'[u] = drop[u]
      /\ \A u \in Thread : Of(u)' = Of(u)
      /\ Of(t) \in Pair /\ drop' \in [Thread -> DropStage]
      /\ UNCHANGED <<window, made, cur, sc, handlers, threads, attempt, sockets, loopConn,
                     handed, crossed, raced>>
    BY DropEffect
<1>2. /\ CurrentPair' /\ DropHasPair' /\ FreedIsQuiet'
      /\ \A v \in Pair : /\ InCallback(v)' = InCallback(v)
                         /\ Stopping(v)' = Stopping(v)
                         /\ Dropping(v)' => Dropping(v)
    BY DropFrame
<1>3. TypeOK'
    BY <1>1 DEF IInv, TypeOK
<1>4. ConnectsOnce' /\ PipelineHeard' /\ RefsAccount' /\ PlayingIsOwned'
    BY <1>1 DEF IInv, ConnectsOnce, Fresh, PipelineHeard, RefsAccount, Held, PlayingIsOwned
<1>5. ASSUME NEW v \in Pair \ crossed
      PROVE  DropsInOrder(v)'
    <2>1. DropsInOrder(v)
        BY DEF IInv
    <2>2. (InCallback(v) => ~Dropping(v) /\ ~Stopping(v))'
        BY <1>2, <2>1 DEF DropsInOrder
    <2>3. (v \in connPipe => v \in scPipe \/ \E u \in Thread : Of(u) = v /\ drop[u] = "clear")'
        <3>1. \A u \in Thread : drop[u] = "clear" => drop'[u] = "clear"
            BY <1>1
        <3> QED
            BY <1>1, <2>1, <3>1 DEF DropsInOrder
    <2> QED
        BY <1>1, <2>1, <2>2, <2>3 DEF DropsInOrder
<1>6. StaysStopped'
    BY <1>1 DEF IInv, StaysStopped
<1>7. \A v \in Pair \ crossed' : DropsInOrder(v)'
    BY <1>1, <1>5
<1> QED
    BY <1>2, <1>3, <1>4, <1>6, <1>7 DEF IInv

LEMMA DropTestsKeeps ==
    ASSUME IInv, NEW t \in Thread, DropTests(t)
    PROVE  IInv'
<1>1. PICK to \in {"stop", "clear"} :
        /\ DropGoes(t, "test", to)
        /\ to = "clear" <=> Of(t) \notin connPipe
        /\ UNCHANGED <<scPipe, connPipe, playing, refs, appPc, loopPc, fault>>
    BY DEF DropTests, pipeVars
<1>2. to \in DropStage /\ to # "idle" /\ "test" \in DropStage
    BY DEF DropStage
<1>3. drop[t] = "test" /\ Of(t) \in Pair
    BY <1>1, <1>2, DropEffect
<1>4. to = "clear" /\ Of(t) \notin crossed => Of(t) \notin scPipe
    <2> SUFFICES ASSUME to = "clear", Of(t) \notin crossed
                 PROVE  Of(t) \notin scPipe
        OBVIOUS
    <2>1. DropsInOrder(Of(t))
        BY <1>3 DEF IInv
    <2>2. ~InCallback(Of(t))
        BY <1>3, <2>1 DEF DropsInOrder, Dropping
    <2> QED
        BY <1>1, <2>1, <2>2 DEF DropsInOrder, InCallback
<1>5. to = "clear" => Of(t) \notin playing \ raced
    BY <1>1 DEF IInv, PlayingIsOwned
<1> QED
    BY <1>1, <1>2, <1>4, <1>5, DropKeeps

LEMMA DropStopsKeeps ==
    ASSUME IInv, NEW t \in Thread, DropStops(t)
    PROVE  IInv'
<1>1. "stop" \in DropStage /\ "emit" \in DropStage
    BY DEF DropStage
<1>2. Of(t) \notin playing' \ raced /\ playing' \subseteq playing
    BY DEF DropStops, IInv, PlayingIsOwned
<1> QED
    BY <1>1, <1>2, DropKeeps DEF DropStops

LEMMA DropEmitKeeps ==
    ASSUME IInv, NEW t \in Thread, on_drop_pipeline_cb(t)
    PROVE  IInv'
<1>1. "emit" \in DropStage /\ "handler" \in DropStage
    BY DEF DropStage
<1> QED
    BY <1>1, DropKeeps DEF on_drop_pipeline_cb

LEMMA DropClearsOwnKeeps ==
    ASSUME IInv, NEW t \in Thread, DropClearsOwn(t)
    PROVE  IInv'
<1>0. "handler" \in DropStage /\ "clear" \in DropStage
    BY DEF DropStage
<1>1. /\ DropGoes(t, "handler", "clear")
      /\ scPipe' = scPipe \ {Of(t)}
      /\ refs' = [refs EXCEPT ![Of(t)] = @ - Held(scPipe, Of(t))]
      /\ UNCHANGED <<connPipe, playing, appPc, loopPc, fault>>
    BY DEF DropClearsOwn, DropLetsGo, LetGo, GivenUp, Held
<1>2. /\ drop[t] = "handler" /\ drop'[t] = "clear"
      /\ \A u \in Thread \ {t} : drop'[u] = drop[u]
      /\ \A u \in Thread : Of(u)' = Of(u)
      /\ Of(t) \in Pair /\ drop' \in [Thread -> DropStage]
      /\ UNCHANGED <<window, made, cur, sc, handlers, threads, attempt, sockets, loopConn,
                     handed, crossed, raced>>
    BY <1>0, <1>1, DropEffect
<1>3. /\ CurrentPair' /\ DropHasPair' /\ FreedIsQuiet'
      /\ \A v \in Pair : /\ InCallback(v)' = InCallback(v)
                         /\ Stopping(v)' = Stopping(v)
                         /\ Dropping(v)' => Dropping(v)
    BY <1>0, <1>1, DropFrame
<1>4. RefsAccount' /\ refs' \in [Pair -> -1 .. 1]
    BY <1>1, <1>2, GivesUpOwn DEF IInv
<1>5. TypeOK'
    BY <1>1, <1>2, <1>4 DEF IInv, TypeOK
<1>6. ConnectsOnce' /\ PipelineHeard' /\ PlayingIsOwned' /\ StaysStopped'
    BY <1>1, <1>2 DEF IInv, ConnectsOnce, Fresh, PipelineHeard, PlayingIsOwned, StaysStopped
<1>7. ASSUME NEW v \in Pair \ crossed
      PROVE  DropsInOrder(v)'
    <2>1. DropsInOrder(v)
        BY DEF IInv
    <2>2. (InCallback(v) => ~Dropping(v) /\ ~Stopping(v))'
        BY <1>3, <2>1 DEF DropsInOrder
    <2>3. (v \in connPipe => v \in scPipe \/ \E u \in Thread : Of(u) = v /\ drop[u] = "clear")'
        <3>1. \A u \in Thread : drop[u] = "clear" => drop'[u] = "clear"
            BY <1>2
        <3> QED
            BY <1>1, <1>2, <2>1, <3>1 DEF DropsInOrder
    <2> QED
        BY <1>1, <1>2, <2>1, <2>2, <2>3 DEF DropsInOrder
<1>8. \A v \in Pair \ crossed' : DropsInOrder(v)'
    BY <1>2, <1>7
<1> QED
    BY <1>3, <1>4, <1>5, <1>6, <1>8 DEF IInv

LEMMA DropEndsKeeps ==
    ASSUME IInv, NEW t \in Thread, DropEnds(t)
    PROVE  IInv'
<1>0. "clear" \in DropStage /\ "idle" \in DropStage
    BY DEF DropStage
<1>1. /\ DropGoes(t, "clear", "idle")
      /\ connPipe' = connPipe \ {Of(t)}
      /\ refs' = [refs EXCEPT ![Of(t)] = @ - Held(connPipe, Of(t))]
      /\ appPc' = IF t # APP THEN appPc
                  ELSE IF appPc = "dropping" THEN "idle" ELSE "disconnected"
      /\ loopPc' = IF t = LOOP THEN "idle" ELSE loopPc
      /\ UNCHANGED <<scPipe, playing, fault>>
    BY DEF DropEnds, LetGo, GivenUp, Held
<1>2. /\ drop[t] = "clear" /\ drop'[t] = "idle"
      /\ \A u \in Thread \ {t} : drop'[u] = drop[u]
      /\ \A u \in Thread : Of(u)' = Of(u)
      /\ Of(t) \in Pair /\ drop' \in [Thread -> DropStage]
      /\ UNCHANGED <<window, made, cur, sc, handlers, threads, attempt, sockets, loopConn,
                     handed, crossed, raced>>
    BY <1>0, <1>1, DropEffect
<1>3. /\ t = APP => appPc \in {"dropping", "disconnecting"} /\ cur # 0
      /\ t = LOOP => loopPc = "dropping"
      /\ t = APP => Of(t) = cur
    BY <1>2 DEF IInv, DropHasPair, CurrentPair, Of, APP
<1>4. /\ appPc' = appPc \/ appPc' = "idle"
            \/ (appPc = "disconnecting" /\ appPc' = "disconnected" /\ Of(t) = cur)
      /\ loopPc' = loopPc \/ (loopPc = "dropping" /\ loopPc' = "idle")
    BY <1>1, <1>3
<1>5. CurrentPair' /\ FreedIsQuiet'
    BY <1>2, <1>4 DEF IInv, CurrentPair, FreedIsQuiet, Disconnected
<1>6. DropHasPair'
    <2>1. drop'[APP] # "idle" <=> appPc' \in {"dropping", "disconnecting"}
        BY <1>1, <1>2, <1>3, Threads DEF IInv, DropHasPair
    <2>2. drop'[LOOP] # "idle" <=> loopPc' = "dropping"
        BY <1>1, <1>2, <1>3, Threads DEF IInv, DropHasPair
    <2> QED
        BY <1>2, <1>4, <2>1, <2>2 DEF IInv, DropHasPair
<1>7. RefsAccount' /\ refs' \in [Pair -> -1 .. 1]
    BY <1>1, <1>2, GivesUpConn DEF IInv, PipelineHeard
<1>8. TypeOK'
    BY <1>1, <1>2, <1>4, <1>7 DEF IInv, TypeOK, AppPc, LoopPc
<1>9. ConnectsOnce' /\ PipelineHeard'
    BY <1>1, <1>2, <1>4 DEF IInv, ConnectsOnce, Fresh, PipelineHeard
<1>10. PlayingIsOwned' /\ StaysStopped'
    <2>1. Of(t) \notin playing \ raced
        BY <1>2 DEF IInv, StaysStopped
    <2> QED
        BY <1>1, <1>2, <2>1 DEF IInv, PlayingIsOwned, StaysStopped
<1>11. ASSUME NEW v \in Pair \ crossed
       PROVE  DropsInOrder(v)'
    <2>1. DropsInOrder(v)
        BY DEF IInv
    <2>2. /\ InCallback(v)' => InCallback(v)
          /\ Stopping(v)' => Stopping(v)
          /\ Dropping(v)' => Dropping(v)
        BY <1>2, <1>4 DEF InCallback, Stopping, Dropping
    <2>3. Of(t) = v => v \notin scPipe
        BY <1>2, <2>1 DEF DropsInOrder
    <2>4. (v \in connPipe => v \in scPipe \/ \E u \in Thread : Of(u) = v /\ drop[u] = "clear")'
        BY <1>1, <1>2, <2>1 DEF DropsInOrder
    <2>5. (v \in scPipe => v \in connPipe \/ (loopPc = "made" /\ loopConn = v))'
        BY <1>1, <1>2, <1>4, <2>1, <2>3 DEF DropsInOrder
    <2>6. (\A u \in Thread : Of(u) = v /\ drop[u] = "clear" => v \notin scPipe)'
        BY <1>1, <1>2, <2>1 DEF DropsInOrder
    <2>7. (appPc \in Disconnected /\ cur = v => v \notin connPipe)'
        BY <1>1, <1>2, <1>4, <2>1 DEF DropsInOrder, Disconnected
    <2> QED
        BY <2>1, <2>2, <2>4, <2>5, <2>6, <2>7 DEF DropsInOrder
<1>12. \A v \in Pair \ crossed' : DropsInOrder(v)'
    BY <1>2, <1>11
<1> QED
    BY <1>5, <1>6, <1>7, <1>8, <1>9, <1>10, <1>12 DEF IInv

LEMMA DropGivenFreedKeeps ==
    ASSUME IInv, NEW t \in Thread, DropGivenFreed(t) \/ NeedGivenFreed
    PROVE  IInv'
BY OnlyFault DEF DropGivenFreed, NeedGivenFreed

----------------------------------------------------------------------------
(* The application's thread.                                               *)
LEMMA InitWindowKeeps ==
    ASSUME IInv, InitWindow
    PROVE  IInv'
<1>1. /\ appPc = "idle" /\ ~window /\ made < MaxWindows /\ window' = TRUE
      /\ made' = made + 1 /\ cur' = made + 1 /\ appPc' = "made"
      /\ sc' = [sc EXCEPT ![made + 1] = "live"]
      /\ UNCHANGED <<handlers, threads, scPipe, connPipe, playing, refs, handed, crossed,
                     raced, attempt, sockets, drop, loopPc, loopConn, fault>>
    BY Threads DEF InitWindow, pipeVars, history
<1>2. made + 1 \in Pair /\ made \in Nat
    BY <1>1 DEF IInv, TypeOK, Pair
<1>3. sc'[made + 1] = "live" /\ \A v \in Pair \ {made + 1} : sc'[v] = sc[v]
    BY <1>1, <1>2 DEF IInv, TypeOK
<1>4. \A u \in Thread : drop[u] # "idle" => Of(u)' = Of(u)
    BY <1>1 DEF IInv, DropHasPair, Of, APP
<1>5. TypeOK'
    BY <1>1, <1>2, <1>3, <1>4, Threads DEF IInv, TypeOK, AppPc, LoopPc, DropStage
<1>6. CurrentPair'
    <2>1. \A w \in Pair : w > made' => sc'[w] = "none"
        BY <1>1, <1>2, <1>3 DEF IInv, TypeOK, CurrentPair, Pair
    <2> QED
        BY <1>1, <1>2, <1>3, <2>1 DEF IInv, TypeOK, CurrentPair, Disconnected
<1>7. DropHasPair'
    BY <1>1, <1>2, <1>3, <1>4, Threads DEF IInv, TypeOK, DropHasPair
<1>8. ConnectsOnce'
    BY <1>1, <1>2, <1>3, <1>4, Threads DEF IInv, TypeOK, CurrentPair, ConnectsOnce, Fresh
<1>9. PipelineHeard'
    BY <1>1, <1>2, <1>3, <1>4, Threads DEF IInv, PipelineHeard, ConnectsOnce, Fresh
<1>10. RefsAccount'
    BY <1>1, <1>2, <1>3, <1>4, Threads DEF IInv, TypeOK, RefsAccount, Held
<1>11. StaysStopped'
    BY <1>1, <1>2, <1>3, <1>4, Threads DEF IInv, StaysStopped
<1>12. FreedIsQuiet' /\ PlayingIsOwned'
    BY <1>1, <1>2, <1>3, <1>4, Threads DEF IInv, FreedIsQuiet, PlayingIsOwned
<1>13. ASSUME NEW v \in Pair \ crossed'
       PROVE  DropsInOrder(v)'
    BY <1>1, <1>2, <1>3, <1>4, Threads
       DEF IInv, DropsInOrder, InCallback, Dropping, Stopping, Of, Disconnected
<1> QED
    BY <1>5, <1>6, <1>7, <1>8, <1>9, <1>10, <1>11, <1>12, <1>13 DEF IInv

LEMMA ConnectKeeps ==
    ASSUME IInv, my_connection_connect
    PROVE  IInv'
<1>1. /\ appPc = "made" /\ appPc' = "connecting"
      /\ attempt' = [attempt EXCEPT ![cur] = "pending"]
      /\ UNCHANGED <<window, made, cur, sc, handlers, threads, scPipe, connPipe, playing, refs,
                     handed, crossed, raced, sockets, drop, loopPc, loopConn, fault>>
    BY Threads DEF my_connection_connect, appVars, pipeVars, history
<1>2. \A u \in Thread : Of(u)' = Of(u)
    BY <1>1 DEF Of
<1>3. cur \in Pair
    BY <1>1, Threads DEF IInv, TypeOK, CurrentPair
<1>4. TypeOK'
    BY <1>1, <1>2, <1>3, Threads DEF IInv, TypeOK, AppPc, LoopPc, DropStage
<1>5. CurrentPair'
    BY <1>1, <1>2, <1>3, Threads DEF IInv, TypeOK, CurrentPair, Disconnected
<1>6. DropHasPair'
    BY <1>1, <1>2, <1>3, Threads DEF IInv, TypeOK, DropHasPair
<1>7. ConnectsOnce'
    BY <1>1, <1>2, <1>3, Threads DEF IInv, TypeOK, CurrentPair, ConnectsOnce, Fresh
<1>8. PipelineHeard'
    BY <1>1, <1>2, <1>3, Threads DEF IInv, PipelineHeard, ConnectsOnce, Fresh
<1>9. RefsAccount'
    BY <1>1, <1>2, <1>3, Threads DEF IInv, TypeOK, RefsAccount, Held
<1>10. StaysStopped'
    BY <1>1, <1>2, <1>3, Threads DEF IInv, StaysStopped
<1>11. FreedIsQuiet' /\ PlayingIsOwned'
    BY <1>1, <1>2, <1>3, Threads DEF IInv, TypeOK, CurrentPair, FreedIsQuiet, PlayingIsOwned
<1>12. ASSUME NEW v \in Pair \ crossed'
       PROVE  DropsInOrder(v)'
    BY <1>1, <1>2, <1>3, Threads
       DEF IInv, DropsInOrder, InCallback, Dropping, Stopping, Of, Disconnected
<1> QED
    BY <1>4, <1>5, <1>6, <1>7, <1>8, <1>9, <1>10, <1>11, <1>12 DEF IInv

LEMMA SpawnKeeps ==
    ASSUME IInv, my_stream_client_spawn_thread
    PROVE  IInv'
<1>1. /\ appPc = "connecting" /\ appPc' = "idle"
      /\ handlers' = handlers \cup {cur} /\ threads' = threads \cup {cur}
      /\ UNCHANGED <<window, made, cur, sc, scPipe, connPipe, playing, refs,
                     handed, crossed, raced, attempt, sockets, drop, loopPc, loopConn, fault>>
    BY Threads DEF my_stream_client_spawn_thread, Started, pipeVars, history
<1>2. \A u \in Thread : Of(u)' = Of(u)
    BY <1>1 DEF Of
<1>3. cur \in Pair
    BY <1>1, Threads DEF IInv, TypeOK, CurrentPair
<1>4. TypeOK'
    BY <1>1, <1>2, <1>3, Threads DEF IInv, TypeOK, AppPc, LoopPc, DropStage
<1>5. CurrentPair'
    BY <1>1, <1>2, <1>3, Threads DEF IInv, TypeOK, CurrentPair, Disconnected
<1>6. DropHasPair'
    BY <1>1, <1>2, <1>3, Threads DEF IInv, TypeOK, DropHasPair
<1>7. ConnectsOnce'
    BY <1>1, <1>2, <1>3, Threads DEF IInv, TypeOK, CurrentPair, ConnectsOnce, Fresh
<1>8. PipelineHeard'
    BY <1>1, <1>2, <1>3, Threads DEF IInv, PipelineHeard, ConnectsOnce, Fresh
<1>9. RefsAccount'
    BY <1>1, <1>2, <1>3, Threads DEF IInv, TypeOK, RefsAccount, Held
<1>10. StaysStopped'
    BY <1>1, <1>2, <1>3, Threads DEF IInv, StaysStopped
<1>11. FreedIsQuiet' /\ PlayingIsOwned'
    BY <1>1, <1>2, <1>3, Threads DEF IInv, FreedIsQuiet, PlayingIsOwned
<1>12. ASSUME NEW v \in Pair \ crossed'
       PROVE  DropsInOrder(v)'
    BY <1>1, <1>2, <1>3, Threads
       DEF IInv, DropsInOrder, InCallback, Dropping, Stopping, Of, Disconnected
<1> QED
    BY <1>4, <1>5, <1>6, <1>7, <1>8, <1>9, <1>10, <1>11, <1>12 DEF IInv

LEMMA AppStopsKeeps ==
    ASSUME IInv, AppStops
    PROVE  IInv'
<1>1. /\ appPc = "idle" /\ cur # 0 /\ appPc' = "dropping" /\ window' \in BOOLEAN
      /\ drop[APP] = "idle" /\ drop' = [drop EXCEPT ![APP] = "test"]
      /\ attempt' = AttemptAfterCancel(cur)
      /\ crossed' = IF InCallback(cur) THEN crossed \cup {cur} ELSE crossed
      /\ UNCHANGED <<made, cur, sc, handlers, threads, scPipe, connPipe, playing, refs,
                     handed, raced, sockets, loopPc, loopConn, fault>>
    BY Threads DEF AppStops, DropBegins, CrossedBy, Of, pipeVars, IInv, TypeOK
<1>2. \A u \in Thread : Of(u)' = Of(u)
    BY <1>1 DEF Of
<1>3. drop'[APP] = "test" /\ \A u \in Thread \ {APP} : drop'[u] = drop[u]
    BY <1>1, Threads DEF IInv, TypeOK
<1>4. cur \in Pair
    BY <1>1, Threads DEF IInv, TypeOK, CurrentPair, DropHasPair
<1>5. /\ attempt' \in [Pair -> {"none", "pending", "cancelled"}]
      /\ attempt'[cur] # "pending"
      /\ \A v \in Pair : (attempt'[v] = "pending" => attempt[v] = "pending")
                         /\ (attempt[v] = "none" => attempt'[v] = "none")
    BY <1>1, <1>4 DEF IInv, TypeOK, AttemptAfterCancel
<1>6. drop' \in [Thread -> DropStage]
    BY <1>1, Threads DEF IInv, TypeOK, DropStage
<1>7. TypeOK'
    BY <1>1, <1>2, <1>3, <1>4, <1>5, <1>6, Threads DEF IInv, TypeOK, AppPc, LoopPc, DropStage
<1>8. CurrentPair'
    BY <1>1, <1>2, <1>3, <1>4, <1>5, <1>6, Threads DEF IInv, TypeOK, CurrentPair, Disconnected
<1>9. DropHasPair'
    BY <1>1, <1>2, <1>3, <1>4, <1>5, <1>6, Threads DEF IInv, TypeOK, DropHasPair
<1>10. ConnectsOnce'
    BY <1>1, <1>2, <1>3, <1>4, <1>5, <1>6, Threads
       DEF IInv, TypeOK, CurrentPair, ConnectsOnce, Fresh
<1>11. PipelineHeard'
    BY <1>1, <1>2, <1>3, <1>4, <1>5, <1>6, Threads DEF IInv, PipelineHeard, ConnectsOnce, Fresh
<1>12. RefsAccount'
    BY <1>1, <1>2, <1>3, <1>4, <1>5, <1>6, Threads DEF IInv, TypeOK, RefsAccount, Held
<1>13. StaysStopped'
    BY <1>1, <1>2, <1>3, <1>4, <1>5, <1>6, Threads DEF IInv, StaysStopped
<1>14. FreedIsQuiet' /\ PlayingIsOwned'
    BY <1>1, <1>2, <1>3, <1>4, <1>5, <1>6, Threads DEF IInv, FreedIsQuiet, PlayingIsOwned
<1>15. ASSUME NEW v \in Pair \ crossed'
       PROVE  DropsInOrder(v)'
    BY <1>1, <1>2, <1>3, <1>4, <1>5, <1>6, Threads
       DEF IInv, DropsInOrder, InCallback, Dropping, Stopping, Of, Disconnected
<1> QED
    BY <1>7, <1>8, <1>9, <1>10, <1>11, <1>12, <1>13, <1>14, <1>15 DEF IInv

LEMMA StopOwnPipelineKeeps ==
    ASSUME IInv, StopOwnPipeline
    PROVE  IInv'
<1>1. /\ appPc = "idle" /\ cur # 0 /\ appPc' = "stopping" /\ playing' \subseteq playing
      /\ crossed' = IF InCallback(cur) THEN crossed \cup {cur} ELSE crossed
      /\ UNCHANGED <<window, made, cur, sc, handlers, threads, scPipe, connPipe, refs,
                     handed, raced, attempt, sockets, drop, loopPc, loopConn, fault>>
    BY Threads DEF StopOwnPipeline, StopGoes, CrossedBy, appVars
<1>2. \A u \in Thread : Of(u)' = Of(u)
    BY <1>1 DEF Of
<1>3. cur \in Pair
    BY <1>1, Threads DEF IInv, TypeOK, CurrentPair
<1>4. TypeOK'
    BY <1>1, <1>2, <1>3, Threads DEF IInv, TypeOK, AppPc, LoopPc, DropStage
<1>5. CurrentPair'
    BY <1>1, <1>2, <1>3, Threads DEF IInv, TypeOK, CurrentPair, Disconnected
<1>6. DropHasPair'
    BY <1>1, <1>2, <1>3, Threads DEF IInv, TypeOK, DropHasPair
<1>7. ConnectsOnce'
    BY <1>1, <1>2, <1>3, Threads DEF IInv, TypeOK, CurrentPair, ConnectsOnce, Fresh
<1>8. PipelineHeard'
    BY <1>1, <1>2, <1>3, Threads DEF IInv, PipelineHeard, ConnectsOnce, Fresh
<1>9. RefsAccount'
    BY <1>1, <1>2, <1>3, Threads DEF IInv, TypeOK, RefsAccount, Held
<1>10. StaysStopped'
    BY <1>1, <1>2, <1>3, Threads DEF IInv, StaysStopped
<1>11. FreedIsQuiet' /\ PlayingIsOwned'
    BY <1>1, <1>2, <1>3, Threads DEF IInv, FreedIsQuiet, PlayingIsOwned
<1>12. ASSUME NEW v \in Pair \ crossed'
       PROVE  DropsInOrder(v)'
    BY <1>1, <1>2, <1>3, Threads
       DEF IInv, DropsInOrder, InCallback, Dropping, Stopping, Of, Disconnected
<1> QED
    BY <1>4, <1>5, <1>6, <1>7, <1>8, <1>9, <1>10, <1>11, <1>12 DEF IInv

LEMMA StopDisconnectsKeeps ==
    ASSUME IInv, StopDisconnects
    PROVE  IInv'
<1>1. /\ appPc = "stopping" /\ appPc' = "disconnecting"
      /\ drop[APP] = "idle" /\ drop' = [drop EXCEPT ![APP] = "test"]
      /\ attempt' = AttemptAfterCancel(cur)
      /\ crossed' = IF InCallback(cur) THEN crossed \cup {cur} ELSE crossed
      /\ UNCHANGED <<window, made, cur, sc, handlers, threads, scPipe, connPipe, playing, refs,
                     handed, raced, sockets, loopPc, loopConn, fault>>
    BY Threads DEF StopDisconnects, StopGoes, DropBegins, CrossedBy, Of, appVars, pipeVars
<1>2. \A u \in Thread : Of(u)' = Of(u)
    BY <1>1 DEF Of
<1>3. drop'[APP] = "test" /\ \A u \in Thread \ {APP} : drop'[u] = drop[u]
    BY <1>1, Threads DEF IInv, TypeOK
<1>4. cur \in Pair
    BY <1>1, Threads DEF IInv, TypeOK, CurrentPair, DropHasPair
<1>5. /\ attempt' \in [Pair -> {"none", "pending", "cancelled"}]
      /\ attempt'[cur] # "pending"
      /\ \A v \in Pair : (attempt'[v] = "pending" => attempt[v] = "pending")
                         /\ (attempt[v] = "none" => attempt'[v] = "none")
    BY <1>1, <1>4 DEF IInv, TypeOK, AttemptAfterCancel
<1>6. drop' \in [Thread -> DropStage]
    BY <1>1, Threads DEF IInv, TypeOK, DropStage
<1>7. TypeOK'
    BY <1>1, <1>2, <1>3, <1>4, <1>5, <1>6, Threads DEF IInv, TypeOK, AppPc, LoopPc, DropStage
<1>8. CurrentPair'
    BY <1>1, <1>2, <1>3, <1>4, <1>5, <1>6, Threads DEF IInv, TypeOK, CurrentPair, Disconnected
<1>9. DropHasPair'
    BY <1>1, <1>2, <1>3, <1>4, <1>5, <1>6, Threads DEF IInv, TypeOK, DropHasPair
<1>10. ConnectsOnce'
    BY <1>1, <1>2, <1>3, <1>4, <1>5, <1>6, Threads
       DEF IInv, TypeOK, CurrentPair, ConnectsOnce, Fresh
<1>11. PipelineHeard'
    BY <1>1, <1>2, <1>3, <1>4, <1>5, <1>6, Threads DEF IInv, PipelineHeard, ConnectsOnce, Fresh
<1>12. RefsAccount'
    BY <1>1, <1>2, <1>3, <1>4, <1>5, <1>6, Threads DEF IInv, TypeOK, RefsAccount, Held
<1>13. StaysStopped'
    BY <1>1, <1>2, <1>3, <1>4, <1>5, <1>6, Threads DEF IInv, StaysStopped
<1>14. FreedIsQuiet' /\ PlayingIsOwned'
    BY <1>1, <1>2, <1>3, <1>4, <1>5, <1>6, Threads DEF IInv, FreedIsQuiet, PlayingIsOwned
<1>15. ASSUME NEW v \in Pair \ crossed'
       PROVE  DropsInOrder(v)'
    BY <1>1, <1>2, <1>3, <1>4, <1>5, <1>6, Threads
       DEF IInv, DropsInOrder, InCallback, Dropping, Stopping, Of, Disconnected
<1> QED
    BY <1>7, <1>8, <1>9, <1>10, <1>11, <1>12, <1>13, <1>14, <1>15 DEF IInv

LEMMA StopLetsGoKeeps ==
    ASSUME IInv, StopLetsGo \/ DisposePipeline
    PROVE  IInv'
<1>1. /\ \/ appPc = "disconnected" /\ appPc' = "stopped"
         \/ appPc = "cleared" /\ appPc' = "freeing"
      /\ scPipe' = scPipe \ {cur}
      /\ refs' = [refs EXCEPT ![cur] = @ - Held(scPipe, cur)]
      /\ UNCHANGED <<window, made, cur, sc, handlers, threads, connPipe, playing,
                     handed, crossed, raced, attempt, sockets, drop, loopPc, loopConn, fault>>
    BY Threads DEF StopLetsGo, DisposePipeline, StopGoes, LetGo, GivenUp, Held, appVars
<1>2. \A u \in Thread : Of(u)' = Of(u)
    BY <1>1 DEF Of
<1>3. cur \in Pair
    BY <1>1, Threads DEF IInv, TypeOK, CurrentPair
<1>4. RefsAccount' /\ refs' \in [Pair -> -1 .. 1]
    BY <1>1, <1>3, GivesUpOwn DEF IInv
<1>5. TypeOK'
    BY <1>1, <1>2, <1>3, <1>4, Threads DEF IInv, TypeOK, AppPc, LoopPc, DropStage
<1>6. CurrentPair'
    BY <1>1, <1>2, <1>3, <1>4, Threads DEF IInv, TypeOK, CurrentPair, Disconnected
<1>7. DropHasPair'
    BY <1>1, <1>2, <1>3, <1>4, Threads DEF IInv, TypeOK, DropHasPair
<1>8. ConnectsOnce'
    BY <1>1, <1>2, <1>3, <1>4, Threads DEF IInv, TypeOK, CurrentPair, ConnectsOnce, Fresh
<1>9. PipelineHeard'
    BY <1>1, <1>2, <1>3, <1>4, Threads DEF IInv, PipelineHeard, ConnectsOnce, Fresh
<1>10. RefsAccount'
    BY <1>4
<1>11. StaysStopped'
    BY <1>1, <1>2, <1>3, <1>4, Threads DEF IInv, StaysStopped
<1>12. FreedIsQuiet' /\ PlayingIsOwned'
    BY <1>1, <1>2, <1>3, <1>4, Threads DEF IInv, FreedIsQuiet, PlayingIsOwned
<1>13. ASSUME NEW v \in Pair \ crossed'
       PROVE  DropsInOrder(v)'
    BY <1>1, <1>2, <1>3, <1>4, Threads
       DEF IInv, DropsInOrder, InCallback, Dropping, Stopping, Of, Disconnected
<1> QED
    BY <1>5, <1>6, <1>7, <1>8, <1>9, <1>10, <1>11, <1>12, <1>13 DEF IInv

LEMMA DisposeLoopKeeps ==
    ASSUME IInv, DisposeLoop
    PROVE  IInv'
<1>1. /\ appPc = "stopped" /\ appPc' = "cleared" /\ fault' \in {"none", "loop"}
      /\ UNCHANGED <<window, made, cur, sc, handlers, threads, scPipe, connPipe, playing, refs,
                     handed, crossed, raced, attempt, sockets, drop, loopPc, loopConn>>
    BY Threads DEF DisposeLoop, StopGoes, appVars, pipeVars
<1>2. \A u \in Thread : Of(u)' = Of(u)
    BY <1>1 DEF Of
<1>3. TypeOK'
    BY <1>1, <1>2, Threads DEF IInv, TypeOK, AppPc, LoopPc, DropStage
<1>4. CurrentPair'
    BY <1>1, <1>2, Threads DEF IInv, TypeOK, CurrentPair, Disconnected
<1>5. DropHasPair'
    BY <1>1, <1>2, Threads DEF IInv, TypeOK, DropHasPair
<1>6. ConnectsOnce'
    BY <1>1, <1>2, Threads DEF IInv, TypeOK, CurrentPair, ConnectsOnce, Fresh
<1>7. PipelineHeard'
    BY <1>1, <1>2, Threads DEF IInv, PipelineHeard, ConnectsOnce, Fresh
<1>8. RefsAccount'
    BY <1>1, <1>2, Threads DEF IInv, TypeOK, RefsAccount, Held
<1>9. StaysStopped'
    BY <1>1, <1>2, Threads DEF IInv, StaysStopped
<1>10. FreedIsQuiet' /\ PlayingIsOwned'
    BY <1>1, <1>2, Threads DEF IInv, FreedIsQuiet, PlayingIsOwned
<1>11. ASSUME NEW v \in Pair \ crossed'
       PROVE  DropsInOrder(v)'
    BY <1>1, <1>2, Threads
       DEF IInv, DropsInOrder, InCallback, Dropping, Stopping, Of, Disconnected
<1> QED
    BY <1>3, <1>4, <1>5, <1>6, <1>7, <1>8, <1>9, <1>10, <1>11 DEF IInv

LEMMA DestroyKeeps ==
    ASSUME IInv, my_stream_client_destroy
    PROVE  IInv'
<1>1. /\ appPc = "freeing" /\ appPc' = "idle" /\ cur' = 0
      /\ sc' = [sc EXCEPT ![cur] = "freed"]
      /\ UNCHANGED <<window, made, handlers, threads, scPipe, connPipe, playing, refs,
                     handed, crossed, raced, attempt, sockets, drop, loopPc, loopConn, fault>>
    BY Threads DEF my_stream_client_destroy, pipeVars, history
<1>2. cur \in Pair
    BY <1>1, Threads DEF IInv, TypeOK, CurrentPair
<1>3. \A u \in Thread : drop[u] # "idle" => Of(u)' = Of(u)
    BY <1>1 DEF IInv, DropHasPair, Of, APP
<1>4. TypeOK'
    BY <1>1, <1>2, <1>3, Threads DEF IInv, TypeOK, AppPc, LoopPc, DropStage
<1>5. CurrentPair'
    BY <1>1, <1>2, <1>3, Threads DEF IInv, TypeOK, CurrentPair, Disconnected
<1>6. DropHasPair'
    BY <1>1, <1>2, <1>3, Threads DEF IInv, TypeOK, DropHasPair
<1>7. ConnectsOnce'
    BY <1>1, <1>2, <1>3, Threads DEF IInv, TypeOK, CurrentPair, ConnectsOnce, Fresh
<1>8. PipelineHeard'
    BY <1>1, <1>2, <1>3, Threads DEF IInv, PipelineHeard, ConnectsOnce, Fresh
<1>9. RefsAccount'
    BY <1>1, <1>2, <1>3, Threads DEF IInv, TypeOK, RefsAccount, Held
<1>10. StaysStopped'
    BY <1>1, <1>2, <1>3, Threads DEF IInv, StaysStopped
<1>11. FreedIsQuiet' /\ PlayingIsOwned'
    BY <1>1, <1>2, <1>3, Threads
       DEF IInv, TypeOK, CurrentPair, Disconnected, FreedIsQuiet, PlayingIsOwned
<1>12. ASSUME NEW v \in Pair \ crossed'
       PROVE  DropsInOrder(v)'
    BY <1>1, <1>2, <1>3, Threads
       DEF IInv, DropsInOrder, InCallback, Dropping, Stopping, Of, Disconnected
<1> QED
    BY <1>4, <1>5, <1>6, <1>7, <1>8, <1>9, <1>10, <1>11, <1>12 DEF IInv

----------------------------------------------------------------------------
(* The thread of the default main context, and that of a webrtcbin.        *)
LEMMA ConnectedKeeps ==
    ASSUME IInv, NEW w \in Pair, ConnectedCb(w)
    PROVE  IInv'
<1>1. /\ loopPc = "idle" /\ loopPc' = "connected" /\ loopConn' = w /\ attempt[w] = "pending"
      /\ attempt' = [attempt EXCEPT ![w] = "none"] /\ sockets' = sockets \cup {w}
      /\ crossed' = IF Dropping(w) \/ Stopping(w) THEN crossed \cup {w} ELSE crossed
      /\ UNCHANGED <<window, made, cur, sc, handlers, threads, scPipe, connPipe, playing, refs,
                     appPc, handed, raced, drop, fault>>
    BY Threads DEF ConnectedCb, LoopReady, appVars, pipeVars
<1>2. \A u \in Thread : drop[u] # "idle" => Of(u)' = Of(u)
    BY <1>1 DEF IInv, DropHasPair, Of, LOOP
<1>3. w <= made /\ Fresh(w) /\ w # 0 /\ ~(appPc = "made" /\ w = cur)
    BY <1>1, Threads DEF IInv, ConnectsOnce, TypeOK, Pair
<1>4. TypeOK'
    BY <1>1, <1>2, <1>3, Threads DEF IInv, TypeOK, AppPc, LoopPc, DropStage
<1>5. CurrentPair'
    BY <1>1, <1>2, <1>3, Threads DEF IInv, TypeOK, CurrentPair, Disconnected
<1>6. DropHasPair'
    BY <1>1, <1>2, <1>3, Threads DEF IInv, TypeOK, DropHasPair
<1>7. ConnectsOnce'
    BY <1>1, <1>2, <1>3, Threads DEF IInv, TypeOK, CurrentPair, ConnectsOnce, Fresh
<1>8. PipelineHeard'
    BY <1>1, <1>2, <1>3, Threads DEF IInv, PipelineHeard, ConnectsOnce, Fresh
<1>9. RefsAccount'
    BY <1>1, <1>2, <1>3, Threads DEF IInv, TypeOK, RefsAccount, Held
<1>10. StaysStopped'
    BY <1>1, <1>2, <1>3, Threads DEF IInv, StaysStopped
<1>11. FreedIsQuiet' /\ PlayingIsOwned'
    BY <1>1, <1>2, <1>3, Threads DEF IInv, FreedIsQuiet, PlayingIsOwned
<1>12. ASSUME NEW v \in Pair \ crossed'
       PROVE  DropsInOrder(v)'
    BY <1>1, <1>2, <1>3, Threads
       DEF IInv, DropsInOrder, InCallback, Dropping, Stopping, Of, Disconnected
<1> QED
    BY <1>4, <1>5, <1>6, <1>7, <1>8, <1>9, <1>10, <1>11, <1>12 DEF IInv

LEMMA FailedKeeps ==
    ASSUME IInv, NEW w \in Pair, ConnectFailed(w)
    PROVE  IInv'
<1>1. /\ attempt' = [attempt EXCEPT ![w] = "none"]
      /\ UNCHANGED <<window, made, cur, sc, handlers, threads, scPipe, connPipe, playing, refs,
                     appPc, handed, crossed, raced, sockets, drop, loopPc, loopConn, fault>>
    BY Threads DEF ConnectFailed, appVars, pipeVars, history
<1>2. \A u \in Thread : Of(u)' = Of(u)
    BY <1>1 DEF Of
<1>3. TypeOK'
    BY <1>1, <1>2, Threads DEF IInv, TypeOK, AppPc, LoopPc, DropStage
<1>4. CurrentPair'
    BY <1>1, <1>2, Threads DEF IInv, TypeOK, CurrentPair, Disconnected
<1>5. DropHasPair'
    BY <1>1, <1>2, Threads DEF IInv, TypeOK, DropHasPair
<1>6. ConnectsOnce'
    BY <1>1, <1>2, Threads DEF IInv, TypeOK, CurrentPair, ConnectsOnce, Fresh
<1>7. PipelineHeard'
    BY <1>1, <1>2, Threads DEF IInv, PipelineHeard, ConnectsOnce, Fresh
<1>8. RefsAccount'
    BY <1>1, <1>2, Threads DEF IInv, TypeOK, RefsAccount, Held
<1>9. StaysStopped'
    BY <1>1, <1>2, Threads DEF IInv, StaysStopped
<1>10. FreedIsQuiet' /\ PlayingIsOwned'
    BY <1>1, <1>2, Threads DEF IInv, FreedIsQuiet, PlayingIsOwned
<1>11. ASSUME NEW v \in Pair \ crossed'
       PROVE  DropsInOrder(v)'
    BY <1>1, <1>2, Threads
       DEF IInv, DropsInOrder, InCallback, Dropping, Stopping, Of, Disconnected
<1> QED
    BY <1>3, <1>4, <1>5, <1>6, <1>7, <1>8, <1>9, <1>10, <1>11 DEF IInv

LEMMA LateOfferKeeps ==
    ASSUME IInv, NEW w \in Pair, LateOffer(w)
    PROVE  IInv'
<1>1. /\ loopPc = "idle" /\ loopPc' = "stuck"
      /\ UNCHANGED <<window, made, cur, sc, handlers, threads, scPipe, connPipe, playing, refs,
                     appPc, handed, crossed, raced, attempt, sockets, drop, loopConn, fault>>
    BY Threads DEF LateOffer, LoopReady, appVars, pipeVars, history
<1>2. \A u \in Thread : Of(u)' = Of(u)
    BY <1>1 DEF Of
<1>3. TypeOK'
    BY <1>1, <1>2, Threads DEF IInv, TypeOK, AppPc, LoopPc, DropStage
<1>4. CurrentPair'
    BY <1>1, <1>2, Threads DEF IInv, TypeOK, CurrentPair, Disconnected
<1>5. DropHasPair'
    BY <1>1, <1>2, Threads DEF IInv, TypeOK, DropHasPair
<1>6. ConnectsOnce'
    BY <1>1, <1>2, Threads DEF IInv, TypeOK, CurrentPair, ConnectsOnce, Fresh
<1>7. PipelineHeard'
    BY <1>1, <1>2, Threads DEF IInv, PipelineHeard, ConnectsOnce, Fresh
<1>8. RefsAccount'
    BY <1>1, <1>2, Threads DEF IInv, TypeOK, RefsAccount, Held
<1>9. StaysStopped'
    BY <1>1, <1>2, Threads DEF IInv, StaysStopped
<1>10. FreedIsQuiet' /\ PlayingIsOwned'
    BY <1>1, <1>2, Threads DEF IInv, FreedIsQuiet, PlayingIsOwned
<1>11. ASSUME NEW v \in Pair \ crossed'
       PROVE  DropsInOrder(v)'
    BY <1>1, <1>2, Threads
       DEF IInv, DropsInOrder, InCallback, Dropping, Stopping, Of, Disconnected
<1> QED
    BY <1>3, <1>4, <1>5, <1>6, <1>7, <1>8, <1>9, <1>10, <1>11 DEF IInv

LEMMA NeedKeeps ==
    ASSUME IInv, on_need_pipeline_cb
    PROVE  IInv'
<1>1. /\ loopPc = "connected" /\ loopPc' = "made" /\ loopConn \in handlers
      /\ scPipe' = scPipe \cup {loopConn} /\ refs' = [refs EXCEPT ![loopConn] = 1]
      /\ UNCHANGED <<window, made, cur, sc, handlers, threads, connPipe, playing, appPc,
                     handed, crossed, raced, attempt, sockets, drop, loopConn, fault>>
    BY Threads DEF on_need_pipeline_cb, CallbackGoes, appVars, history
<1>2. \A u \in Thread : Of(u)' = Of(u)
    BY <1>1 DEF Of
<1>3. loopConn \in Pair
    BY <1>1, Threads DEF IInv, TypeOK, DropHasPair
<1>4. TypeOK'
    BY <1>1, <1>2, <1>3, Threads DEF IInv, TypeOK, AppPc, LoopPc, DropStage
<1>5. CurrentPair'
    BY <1>1, <1>2, <1>3, Threads DEF IInv, TypeOK, CurrentPair, Disconnected
<1>6. DropHasPair'
    BY <1>1, <1>2, <1>3, Threads DEF IInv, TypeOK, DropHasPair
<1>7. ConnectsOnce'
    BY <1>1, <1>2, <1>3, Threads DEF IInv, TypeOK, CurrentPair, ConnectsOnce, Fresh
<1>8. PipelineHeard'
    BY <1>1, <1>2, <1>3, Threads DEF IInv, PipelineHeard, ConnectsOnce, Fresh
<1>9. RefsAccount'
    BY <1>1, <1>2, <1>3, Threads DEF IInv, TypeOK, RefsAccount, Held, ConnectsOnce, Fresh
<1>10. StaysStopped'
    BY <1>1, <1>2, <1>3, Threads DEF IInv, StaysStopped
<1>11. FreedIsQuiet' /\ PlayingIsOwned'
    BY <1>1, <1>2, <1>3, Threads DEF IInv, FreedIsQuiet, PlayingIsOwned
<1>12. ASSUME NEW v \in Pair \ crossed'
       PROVE  DropsInOrder(v)'
    BY <1>1, <1>2, <1>3, Threads
       DEF IInv, DropsInOrder, InCallback, Dropping, Stopping, Of, Disconnected
<1> QED
    BY <1>4, <1>5, <1>6, <1>7, <1>8, <1>9, <1>10, <1>11, <1>12 DEF IInv

LEMMA SetPipelineKeeps ==
    ASSUME IInv, SetPipeline
    PROVE  IInv'
<1>1. /\ loopPc = "made" /\ loopPc' = "emitted"
      /\ \/ /\ loopConn \in scPipe /\ fault' = fault
            /\ connPipe' = connPipe \cup {loopConn} /\ handed' = handed \cup {loopConn}
         \/ loopConn \notin scPipe /\ fault' = "null" /\ UNCHANGED <<connPipe, handed>>
      /\ UNCHANGED <<window, made, cur, sc, handlers, threads, scPipe, playing, refs, appPc,
                     crossed, raced, attempt, sockets, drop, loopConn>>
    BY Threads DEF SetPipeline, CallbackGoes, appVars
<1>2. \A u \in Thread : Of(u)' = Of(u)
    BY <1>1 DEF Of
<1>3. loopConn \in Pair
    BY <1>1, Threads DEF IInv, TypeOK, DropHasPair
<1>4. TypeOK'
    BY <1>1, <1>2, <1>3, Threads DEF IInv, TypeOK, AppPc, LoopPc, DropStage
<1>5. CurrentPair'
    BY <1>1, <1>2, <1>3, Threads DEF IInv, TypeOK, CurrentPair, Disconnected
<1>6. DropHasPair'
    BY <1>1, <1>2, <1>3, Threads DEF IInv, TypeOK, DropHasPair
<1>7. ConnectsOnce'
    BY <1>1, <1>2, <1>3, Threads DEF IInv, TypeOK, CurrentPair, ConnectsOnce, Fresh
<1>8. PipelineHeard'
    BY <1>1, <1>2, <1>3, Threads DEF IInv, PipelineHeard, ConnectsOnce, Fresh
<1>9. RefsAccount'
    BY <1>1, <1>2, <1>3, Threads
       DEF IInv, TypeOK, RefsAccount, Held, ConnectsOnce, PipelineHeard
<1>10. StaysStopped'
    BY <1>1, <1>2, <1>3, Threads DEF IInv, StaysStopped
<1>11. FreedIsQuiet' /\ PlayingIsOwned'
    BY <1>1, <1>2, <1>3, Threads DEF IInv, FreedIsQuiet, PlayingIsOwned
<1>12. ASSUME NEW v \in Pair \ crossed'
       PROVE  DropsInOrder(v)'
    BY <1>1, <1>2, <1>3, Threads
       DEF IInv, DropsInOrder, InCallback, Dropping, Stopping, Of, Disconnected
<1> QED
    BY <1>4, <1>5, <1>6, <1>7, <1>8, <1>9, <1>10, <1>11, <1>12 DEF IInv

LEMMA CallbackKeeps ==
    ASSUME IInv, NeedUnheard \/ PipelineFound
    PROVE  IInv'
<1>1. /\ loopPc \in {"connected", "emitted"}
      /\ loopPc' = IF loopPc = "connected" THEN "emitted" ELSE "start"
      /\ UNCHANGED <<window, made, cur, sc, handlers, threads, scPipe, connPipe, playing, refs,
                     appPc, handed, crossed, raced, attempt, sockets, drop, loopConn, fault>>
    BY Threads DEF NeedUnheard, PipelineFound, CallbackGoes, appVars, pipeVars, history
<1>2. \A u \in Thread : Of(u)' = Of(u)
    BY <1>1 DEF Of
<1>3. TypeOK'
    BY <1>1, <1>2, Threads DEF IInv, TypeOK, AppPc, LoopPc, DropStage
<1>4. CurrentPair'
    BY <1>1, <1>2, Threads DEF IInv, TypeOK, CurrentPair, Disconnected
<1>5. DropHasPair'
    BY <1>1, <1>2, Threads DEF IInv, TypeOK, DropHasPair
<1>6. ConnectsOnce'
    BY <1>1, <1>2, Threads DEF IInv, TypeOK, CurrentPair, ConnectsOnce, Fresh
<1>7. PipelineHeard'
    BY <1>1, <1>2, Threads DEF IInv, PipelineHeard, ConnectsOnce, Fresh
<1>8. RefsAccount'
    BY <1>1, <1>2, Threads DEF IInv, TypeOK, RefsAccount, Held
<1>9. StaysStopped'
    BY <1>1, <1>2, Threads DEF IInv, StaysStopped
<1>10. FreedIsQuiet' /\ PlayingIsOwned'
    BY <1>1, <1>2, Threads DEF IInv, FreedIsQuiet, PlayingIsOwned
<1>11. ASSUME NEW v \in Pair \ crossed'
       PROVE  DropsInOrder(v)'
    BY <1>1, <1>2, Threads
       DEF IInv, DropsInOrder, InCallback, Dropping, Stopping, Of, Disconnected
<1> QED
    BY <1>3, <1>4, <1>5, <1>6, <1>7, <1>8, <1>9, <1>10, <1>11 DEF IInv

LEMMA NoPipelineKeeps ==
    ASSUME IInv, NoPipeline
    PROVE  IInv'
<1>1. /\ loopPc = "emitted" /\ loopPc' = "dropping" /\ loopConn \notin connPipe
      /\ drop[LOOP] = "idle" /\ drop' = [drop EXCEPT ![LOOP] = "test"]
      /\ attempt' = AttemptAfterCancel(loopConn)
      /\ UNCHANGED <<window, made, cur, sc, handlers, threads, scPipe, connPipe, playing, refs,
                     appPc, handed, crossed, raced, sockets, loopConn, fault>>
    BY Threads DEF NoPipeline, CallbackGoes, DropBegins, Of, appVars, pipeVars, history
<1>2. \A u \in Thread : Of(u)' = Of(u)
    BY <1>1 DEF Of
<1>3. drop'[LOOP] = "test" /\ \A u \in Thread \ {LOOP} : drop'[u] = drop[u]
    BY <1>1, Threads DEF IInv, TypeOK
<1>4. loopConn \in Pair
    BY <1>1, Threads DEF IInv, TypeOK, CurrentPair, DropHasPair
<1>5. /\ attempt' \in [Pair -> {"none", "pending", "cancelled"}]
      /\ attempt'[loopConn] # "pending"
      /\ \A v \in Pair : (attempt'[v] = "pending" => attempt[v] = "pending")
                         /\ (attempt[v] = "none" => attempt'[v] = "none")
    BY <1>1, <1>4 DEF IInv, TypeOK, AttemptAfterCancel
<1>6. drop' \in [Thread -> DropStage]
    BY <1>1, Threads DEF IInv, TypeOK, DropStage
<1>7. TypeOK'
    BY <1>1, <1>2, <1>3, <1>4, <1>5, <1>6, Threads DEF IInv, TypeOK, AppPc, LoopPc, DropStage
<1>8. CurrentPair'
    BY <1>1, <1>2, <1>3, <1>4, <1>5, <1>6, Threads DEF IInv, TypeOK, CurrentPair, Disconnected
<1>9. DropHasPair'
    BY <1>1, <1>2, <1>3, <1>4, <1>5, <1>6, Threads DEF IInv, TypeOK, DropHasPair
<1>10. ConnectsOnce'
    BY <1>1, <1>2, <1>3, <1>4, <1>5, <1>6, Threads
       DEF IInv, TypeOK, CurrentPair, ConnectsOnce, Fresh
<1>11. PipelineHeard'
    BY <1>1, <1>2, <1>3, <1>4, <1>5, <1>6, Threads DEF IInv, PipelineHeard, ConnectsOnce, Fresh
<1>12. RefsAccount'
    BY <1>1, <1>2, <1>3, <1>4, <1>5, <1>6, Threads DEF IInv, TypeOK, RefsAccount, Held
<1>13. StaysStopped'
    BY <1>1, <1>2, <1>3, <1>4, <1>5, <1>6, Threads DEF IInv, StaysStopped
<1>14. FreedIsQuiet' /\ PlayingIsOwned'
    BY <1>1, <1>2, <1>3, <1>4, <1>5, <1>6, Threads DEF IInv, FreedIsQuiet, PlayingIsOwned
<1>15. ASSUME NEW v \in Pair \ crossed'
       PROVE  DropsInOrder(v)'
    BY <1>1, <1>2, <1>3, <1>4, <1>5, <1>6, Threads
       DEF IInv, DropsInOrder, InCallback, Dropping, Stopping, Of, Disconnected
<1> QED
    BY <1>7, <1>8, <1>9, <1>10, <1>11, <1>12, <1>13, <1>14, <1>15 DEF IInv

LEMMA StartKeeps ==
    ASSUME IInv, StartPipeline
    PROVE  IInv'
<1>1. /\ loopPc = "start" /\ loopPc' = "idle"
      /\ playing' = IF loopConn \in connPipe THEN playing \cup {loopConn} ELSE playing
      /\ raced' = IF \E t \in Thread : Of(t) = loopConn /\ drop[t] \notin {"idle", "test"}
                  THEN raced \cup {loopConn} ELSE raced
      /\ UNCHANGED <<window, made, cur, sc, handlers, threads, scPipe, connPipe, refs, appPc,
                     handed, crossed, attempt, sockets, drop, loopConn, fault>>
    BY Threads DEF StartPipeline, StartedPipeline, CallbackGoes, appVars
<1>2. \A u \in Thread : Of(u)' = Of(u)
    BY <1>1 DEF Of
<1>3. loopConn \in Pair
    BY <1>1, Threads DEF IInv, TypeOK, DropHasPair
<1>4. TypeOK'
    BY <1>1, <1>2, <1>3, Threads DEF IInv, TypeOK, AppPc, LoopPc, DropStage
<1>5. CurrentPair'
    BY <1>1, <1>2, <1>3, Threads DEF IInv, TypeOK, CurrentPair, Disconnected
<1>6. DropHasPair'
    BY <1>1, <1>2, <1>3, Threads DEF IInv, TypeOK, DropHasPair
<1>7. ConnectsOnce'
    BY <1>1, <1>2, <1>3, Threads DEF IInv, TypeOK, CurrentPair, ConnectsOnce, Fresh
<1>8. PipelineHeard'
    BY <1>1, <1>2, <1>3, Threads DEF IInv, PipelineHeard, ConnectsOnce, Fresh
<1>9. RefsAccount'
    BY <1>1, <1>2, <1>3, Threads DEF IInv, TypeOK, RefsAccount, Held
<1>10. StaysStopped'
    BY <1>1, <1>2, <1>3, Threads DEF IInv, StaysStopped
<1>11. FreedIsQuiet' /\ PlayingIsOwned'
    BY <1>1, <1>2, <1>3, Threads DEF IInv, FreedIsQuiet, PlayingIsOwned
<1>12. ASSUME NEW v \in Pair \ crossed'
       PROVE  DropsInOrder(v)'
    BY <1>1, <1>2, <1>3, Threads
       DEF IInv, DropsInOrder, InCallback, Dropping, Stopping, Of, Disconnected
<1> QED
    BY <1>4, <1>5, <1>6, <1>7, <1>8, <1>9, <1>10, <1>11, <1>12 DEF IInv

LEMMA DataChannelKeeps ==
    ASSUME IInv, NEW w \in Pair, DataChannelEnds(w)
    PROVE  IInv'
<1>1. /\ w \in playing
      /\ drop[w] = "idle" /\ drop' = [drop EXCEPT ![w] = "test"]
      /\ attempt' = AttemptAfterCancel(w)
      /\ crossed' = IF InCallback(w) THEN crossed \cup {w} ELSE crossed
      /\ UNCHANGED <<window, made, cur, sc, handlers, threads, scPipe, connPipe, playing, refs,
                     appPc, handed, raced, sockets, loopPc, loopConn, fault>>
    BY Threads DEF DataChannelEnds, DropBegins, CrossedBy, Of, appVars, pipeVars
<1>2. \A u \in Thread : Of(u)' = Of(u)
    BY <1>1 DEF Of
<1>3. drop'[w] = "test" /\ \A u \in Thread \ {w} : drop'[u] = drop[u]
    BY <1>1, Threads DEF IInv, TypeOK
<1>4. w \in Pair
    BY <1>1, Threads DEF IInv, TypeOK, CurrentPair, DropHasPair
<1>5. /\ attempt' \in [Pair -> {"none", "pending", "cancelled"}]
      /\ attempt'[w] # "pending"
      /\ \A v \in Pair : (attempt'[v] = "pending" => attempt[v] = "pending")
                         /\ (attempt[v] = "none" => attempt'[v] = "none")
    BY <1>1, <1>4 DEF IInv, TypeOK, AttemptAfterCancel
<1>6. drop' \in [Thread -> DropStage]
    BY <1>1, Threads DEF IInv, TypeOK, DropStage
<1>7. TypeOK'
    BY <1>1, <1>2, <1>3, <1>4, <1>5, <1>6, Threads DEF IInv, TypeOK, AppPc, LoopPc, DropStage
<1>8. CurrentPair'
    BY <1>1, <1>2, <1>3, <1>4, <1>5, <1>6, Threads DEF IInv, TypeOK, CurrentPair, Disconnected
<1>9. DropHasPair'
    BY <1>1, <1>2, <1>3, <1>4, <1>5, <1>6, Threads DEF IInv, TypeOK, DropHasPair
<1>10. ConnectsOnce'
    BY <1>1, <1>2, <1>3, <1>4, <1>5, <1>6, Threads
       DEF IInv, TypeOK, CurrentPair, ConnectsOnce, Fresh
<1>11. PipelineHeard'
    BY <1>1, <1>2, <1>3, <1>4, <1>5, <1>6, Threads DEF IInv, PipelineHeard, ConnectsOnce, Fresh
<1>12. RefsAccount'
    BY <1>1, <1>2, <1>3, <1>4, <1>5, <1>6, Threads DEF IInv, TypeOK, RefsAccount, Held
<1>13. StaysStopped'
    BY <1>1, <1>2, <1>3, <1>4, <1>5, <1>6, Threads DEF IInv, StaysStopped
<1>14. FreedIsQuiet' /\ PlayingIsOwned'
    BY <1>1, <1>2, <1>3, <1>4, <1>5, <1>6, Threads DEF IInv, FreedIsQuiet, PlayingIsOwned
<1>15. ASSUME NEW v \in Pair \ crossed'
       PROVE  DropsInOrder(v)'
    BY <1>1, <1>2, <1>3, <1>4, <1>5, <1>6, Threads
       DEF IInv, DropsInOrder, InCallback, Dropping, Stopping, Of, Disconnected
<1> QED
    BY <1>7, <1>8, <1>9, <1>10, <1>11, <1>12, <1>13, <1>14, <1>15 DEF IInv

----------------------------------------------------------------------------
LEMMA NextIInv == IInv /\ [Next]_vars => IInv'
<1> SUFFICES ASSUME IInv, [Next]_vars
             PROVE  IInv'
    OBVIOUS
<1>1. CASE \/ InitWindow \/ my_connection_connect \/ my_stream_client_spawn_thread
           \/ AppStops \/ StopOwnPipeline
    BY <1>1, InitWindowKeeps, ConnectKeeps, SpawnKeeps, AppStopsKeeps, StopOwnPipelineKeeps
<1>2. CASE StopGoesOn
    BY <1>2, StopDisconnectsKeeps, StopLetsGoKeeps, DisposeLoopKeeps, DestroyKeeps
       DEF StopGoesOn
<1>3. CASE CallbackGoesOn
    <2>1. CASE NeedGivenFreed
        BY <2>1, Threads, DropGivenFreedKeeps
    <2> QED
        BY <1>3, <2>1, NeedKeeps, SetPipelineKeeps, CallbackKeeps, NoPipelineKeeps, StartKeeps
           DEF CallbackGoesOn
<1>4. ASSUME NEW t \in Thread, DropGoesOn(t)
      PROVE  IInv'
    BY <1>4, DropTestsKeeps, DropStopsKeeps, DropEmitKeeps, DropGivenFreedKeeps,
       DropClearsOwnKeeps, DropEndsKeeps DEF DropGoesOn
<1>5. ASSUME NEW w \in Pair,
             ConnectedCb(w) \/ ConnectFailed(w) \/ LateOffer(w) \/ DataChannelEnds(w)
      PROVE  IInv'
    BY <1>5, ConnectedKeeps, FailedKeeps, LateOfferKeeps, DataChannelKeeps
<1>6. CASE UNCHANGED vars
    <2>1. UNCHANGED <<appVars, pipeVars, history, appPc, attempt, sockets, drop, loopPc,
                      loopConn, fault>>
        BY <1>6 DEF vars
    <2>2. fault' \in {"none", "freed", "loop", "null"}
        BY <2>1 DEF IInv, TypeOK
    <2> QED
        BY <2>1, <2>2, OnlyFault
<1> QED
    BY <1>1, <1>2, <1>3, <1>4, <1>5, <1>6 DEF Next

(* The inductive invariant holds in every reachable state.                 *)
THEOREM Invariance == Spec => []IInv
<1> QED
    BY InitIInv, NextIInv, PTL DEF Spec

(* Every variable keeps its type; a pipeline is never given up more than   *)
(* once too often.                                                         *)
THEOREM TypeCorrect == Spec => []TypeOK
<1>1. IInv => TypeOK
    BY DEF IInv
<1> QED
    BY <1>1, Invariance, PTL

(* A freed stream client has no attempt left that could still succeed,     *)
(* though its connection and its loop thread live on.                      *)
THEOREM NothingToCome == Spec => []FreedIsQuiet
<1>1. IInv => FreedIsQuiet
    BY DEF IInv
<1> QED
    BY <1>1, Invariance, PTL

(* Whenever nobody is at work on a pair whose callback met no disconnect,  *)
(* its stream client and its connection both have the pipeline or neither  *)
(* has one, however the disconnects of several threads interleaved.        *)
THEOREM OnePipeline == Spec => []PipelineShared
<1>1. IInv => PipelineShared
    <2> SUFFICES ASSUME IInv, NEW w \in Pair \ crossed, AtRest(w)
                 PROVE  w \in scPipe <=> w \in connPipe
        BY DEF PipelineShared
    <2>1. DropsInOrder(w)
        BY DEF IInv
    <2>2. ~(loopPc = "made" /\ loopConn = w)
        BY DEF AtRest, InCallback
    <2>3. ~\E t \in Thread : Of(t) = w /\ drop[t] = "clear"
        BY DEF AtRest, Dropping
    <2> QED
        BY <2>1, <2>2, <2>3 DEF DropsInOrder
<1> QED
    BY <1>1, Invariance, PTL

(* A pipeline that plays is one that its connection holds, so whoever      *)
(* disconnects can stop it, unless it was started in the middle of a drop. *)
THEOREM PlayingCanBeStopped == Spec => []PlayingIsOwned
<1>1. IInv => PlayingIsOwned
    BY DEF IInv
<1> QED
    BY <1>1, Invariance, PTL

----------------------------------------------------------------------------
(* What becomes of the attempts and of the pipelines.                      *)

(* The safety part of AttemptEnds: an attempt has a thread to end on, or   *)
(* the application is about to start one.                                  *)
AttemptHasLoop ==
    \A w \in Pair : attempt[w] = "pending" => threads # {} \/ appPc = "connecting"

(* No attempt is left to a main context that nobody runs.                  *)
THEOREM AttemptsAreServed == Spec => []AttemptHasLoop
<1>1. Init => AttemptHasLoop
    BY DEF Init, AttemptHasLoop
<1>2. IInv /\ AttemptHasLoop /\ [Next]_vars => AttemptHasLoop'
    <2> SUFFICES ASSUME IInv, AttemptHasLoop, [Next]_vars
                 PROVE  AttemptHasLoop'
        OBVIOUS
    <2>1. CASE my_connection_connect
        BY <2>1 DEF my_connection_connect, AttemptHasLoop
    <2>2. CASE my_stream_client_spawn_thread
        BY <2>2 DEF my_stream_client_spawn_thread, Started, AttemptHasLoop
    <2>3. CASE ~my_connection_connect /\ ~my_stream_client_spawn_thread
        <3>1. threads' = threads /\ (appPc = "connecting" => appPc' = "connecting")
            BY <2>3 DEF Next, IInv, DropHasPair, APP, InitWindow, AppStops, StopOwnPipeline,
               StopGoesOn, StopGoes, StopDisconnects, StopLetsGo, DisposeLoop,
               DisposePipeline, my_stream_client_destroy, CallbackGoesOn, CallbackGoes,
               on_need_pipeline_cb, SetPipeline, NeedUnheard, NeedGivenFreed, PipelineFound,
               NoPipeline, StartPipeline, DropGoesOn, DropGoes, DropTests, DropStops,
               DropGivenFreed, on_drop_pipeline_cb, DropClearsOwn, DropEnds,
               ConnectedCb, ConnectFailed, LateOffer, DataChannelEnds, appVars, vars
        <3>2. \A w \in Pair : attempt'[w] = "pending" => attempt[w] = "pending"
            BY <2>3 DEF Next, IInv, TypeOK, InitWindow, AppStops, StopOwnPipeline,
               StopGoesOn, StopGoes, StopDisconnects, StopLetsGo, DisposeLoop,
               DisposePipeline, my_stream_client_destroy, CallbackGoesOn, CallbackGoes,
               on_need_pipeline_cb, SetPipeline, NeedUnheard, NeedGivenFreed, PipelineFound,
               NoPipeline, StartPipeline, DropGoesOn, DropGoes, DropTests, DropStops,
               DropGivenFreed, on_drop_pipeline_cb, DropClearsOwn, DropEnds,
               DropBegins, AttemptAfterCancel, ConnectedCb, ConnectFailed, LateOffer,
               DataChannelEnds, vars
        <3> QED
            BY <3>1, <3>2 DEF AttemptHasLoop
    <2> QED
        BY <2>1, <2>2, <2>3
<1> QED
    BY <1>1, <1>2, Invariance, PTL DEF Spec

(* The over-release of the pipeline, in numbers: whoever hands it over has *)
(* given its only reference away, and once the stream client and the       *)
(* connection have both let go of it, in whatever order and on whichever   *)
(* threads, one reference too many has been given up, and never more.      *)
OverReleased == \A w \in handed : w \notin scPipe \cup connPipe => refs[w] = -1

THEOREM DroppedOnceTooOften == Spec => []OverReleased
<1>1. IInv => OverReleased
    BY DEF IInv, TypeOK, RefsAccount, Held, OverReleased
<1> QED
    BY <1>1, Invariance, PTL
=============================================================================
