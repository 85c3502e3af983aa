-------------------------- MODULE VideoFramesProofs --------------------------
(***************************************************************************)
(* The frame mailbox for every number of frames: each frame has one owner, *)
(* comes with its own decoding time, and the mailbox implements            *)
(* LatestFrame.                                                            *)
(***************************************************************************)
EXTENDS VideoFrames, FiniteSetTheorems, TLAPS

USE FramesAssumption

----------------------------------------------------------------------------
(* The inductive invariant.                                                *)

(* What the locals of the two threads hold at each of their points.        *)
Locals ==
    /\ newPc = "idle" => newSample = 0 /\ prevSample = 0
    /\ newPc = "pulled" => newSample = decoded /\ newSample # 0 /\ prevSample = 0
    /\ newPc = "stored" => newSample = sample /\ newSample # 0
    /\ newPc = "replaced" => newSample = 0
    /\ pullPc = "idle" => pulled = 0
    /\ pullPc = "got" => pulled # 0

MutexHeld ==
    /\ sample_mutex = "decoder" <=> newPc = "stored"
    /\ sample_mutex = "renderer" <=> pullPc = "taken"

(* Outside the decoder's section the time in the mailbox is that of the    *)
(* frame last stored, which the renderer may just have taken.              *)
SlotTime ==
    /\ newPc # "stored" /\ sample # 0 => sample_decode_end_ts = sample
    /\ pullPc = "taken" /\ pulled # 0 => sample_decode_end_ts = pulled

(* The frames that exist are in order.  The newest one in the mailbox or   *)
(* with the renderer is the newest one stored.                             *)
stored == IF newPc = "pulled" THEN decoded - 1 ELSE decoded
FramesInOrder ==
    /\ pulled # 0 => prev_sample < pulled
    /\ sample # 0 => lastShown < sample
    /\ stored = (IF sample # 0 THEN sample ELSE lastShown)
    /\ prevSample # 0 => prevSample \notin {sample, pulled, prev_sample}

IInv == /\ TypeOK
        /\ Locals
        /\ MutexHeld
        /\ SlotTime
        /\ FramesInOrder
        /\ OneOwner
        /\ TimeOfSameFrame

----------------------------------------------------------------------------
LEMMA InitIInv == Init => IInv
BY DEF Init, IInv, TypeOK, Locals, MutexHeld, SlotTime, FramesInOrder, OneOwner,
       TimeOfSameFrame, Held, Frame, stored, lastShown

LEMMA NextIInv == IInv /\ [Next]_vars => IInv'
<1> SUFFICES ASSUME IInv, [Next]_vars
             PROVE  IInv'
    OBVIOUS
<1> USE DEF IInv, TypeOK, Locals, MutexHeld, SlotTime, FramesInOrder, OneOwner,
            TimeOfSameFrame, Held, Frame, stored, lastShown
<1>1. CASE handle_media_stream
    BY <1>1 DEF handle_media_stream, decoderVars, renderVars
<1>2. CASE on_drop_pipeline_cb
    BY <1>2 DEF on_drop_pipeline_cb, decoderVars, renderVars
<1>3. CASE PullSample
    <2>1. refs' = [f \in Frame |-> IF f = decoded + 1 THEN 1 ELSE refs[f]]
        BY <1>3 DEF PullSample
    <2>2. TypeOK' /\ Locals' /\ MutexHeld' /\ SlotTime' /\ FramesInOrder'
          /\ TimeOfSameFrame'
        BY <1>3, <2>1 DEF PullSample, renderVars
    <2>3. ASSUME NEW f \in Frame
          PROVE  Held(f)' = refs'[f]
        <3>1. CASE f = decoded + 1
            <4>1. Held(f)' = 1
                BY <1>3, <3>1 DEF PullSample, renderVars
            <4> QED
                BY <4>1, <2>1, <3>1
        <3>2. CASE f # decoded + 1
            <4>1. Held(f)' = Held(f)
                BY <1>3, <3>2 DEF PullSample, renderVars
            <4>2. refs'[f] = refs[f] /\ Held(f) = refs[f]
                BY <2>1, <3>2
            <4> HIDE DEF IInv, Held
            <4> QED
                BY <4>1, <4>2
        <3> QED
            BY <3>1, <3>2
    <2> QED
        BY <2>2, <2>3
<1>4. CASE StoreSample
    <2>1. ASSUME NEW f \in Frame
          PROVE  Held(f)' = refs'[f]
        <3>1. refs'[f] = refs[f] /\ Held(f) = refs[f]
            BY <1>4 DEF StoreSample
        <3>2. Held(f)' = Held(f)
            BY <1>4 DEF StoreSample, Stored, renderVars
        <3> HIDE DEF IInv, Held
        <3> QED
            BY <3>1, <3>2
    <2>2. TypeOK' /\ Locals' /\ MutexHeld' /\ SlotTime' /\ FramesInOrder'
          /\ TimeOfSameFrame'
        BY <1>4 DEF StoreSample, Stored, renderVars
    <2> QED
        BY <2>1, <2>2
<1>5. CASE StoreTime
    BY <1>5 DEF StoreTime, renderVars
<1>6. CASE DiscardPrevious
    <2>1. \A f \in Frame :
            refs'[f] = IF f = prevSample THEN refs[f] - 1 ELSE refs[f]
        BY <1>6 DEF DiscardPrevious, Discarded, Unref
    <2>2. DOMAIN refs' = Frame /\ refs' = [f \in Frame |-> refs'[f]]
        BY <1>6 DEF DiscardPrevious, Discarded, Unref
    <2>3. ASSUME NEW f \in Frame
          PROVE  Held(f)' = refs'[f] /\ refs'[f] \in {0, 1}
        <3>1. Held(f)' = IF f = prevSample THEN Held(f) - 1 ELSE Held(f)
            BY <1>6 DEF DiscardPrevious, renderVars
        <3>2. refs[f] \in {0, 1} /\ Held(f) = refs[f]
            OBVIOUS
        <3> HIDE DEF IInv
        <3>3. f = prevSample => Held(f) >= 1
            OBVIOUS
        <3> HIDE DEF Held
        <3> QED
            BY <3>1, <3>2, <3>3, <2>1
    <2>4. refs' \in [Frame -> {0, 1}]
        BY <2>2, <2>3
    <2>5. OneOwner'
        BY <2>3
    <2>6. TypeOK'
        BY <1>6, <2>4 DEF DiscardPrevious, renderVars
    <2>7. Locals' /\ MutexHeld' /\ SlotTime' /\ FramesInOrder' /\ TimeOfSameFrame'
        BY <1>6 DEF DiscardPrevious, renderVars
    <2> QED
        BY <2>5, <2>6, <2>7
<1>7. CASE TakeSample
    BY <1>7 DEF TakeSample, RendererLocks, SlotAfterTake, decoderVars
<1>8. CASE TakeTime
    BY <1>8 DEF TakeTime, decoderVars
<1>9. CASE DrawAndRelease
    <2>1. \A f \in Frame :
            refs'[f] = IF f = prev_sample THEN refs[f] - 1 ELSE refs[f]
        BY <1>9 DEF DrawAndRelease, ReleaseOld, Unref
    <2>2. DOMAIN refs' = Frame /\ refs' = [f \in Frame |-> refs'[f]]
        BY <1>9 DEF DrawAndRelease, ReleaseOld, Unref
    <2>3. ASSUME NEW f \in Frame
          PROVE  Held(f)' = refs'[f] /\ refs'[f] \in {0, 1}
        <3>1. Held(f)' = IF f = prev_sample THEN Held(f) - 1 ELSE Held(f)
            BY <1>9 DEF DrawAndRelease, decoderVars
        <3>2. refs[f] \in {0, 1} /\ Held(f) = refs[f]
            OBVIOUS
        <3> HIDE DEF IInv
        <3>3. f = prev_sample => Held(f) >= 1
            OBVIOUS
        <3> HIDE DEF Held
        <3> QED
            BY <3>1, <3>2, <3>3, <2>1
    <2>4. refs' \in [Frame -> {0, 1}]
        BY <2>2, <2>3
    <2>5. OneOwner'
        BY <2>3
    <2>6. TypeOK'
        BY <1>9, <2>4 DEF DrawAndRelease, decoderVars
    <2>7. Locals' /\ MutexHeld' /\ SlotTime' /\ FramesInOrder' /\ TimeOfSameFrame'
        BY <1>9 DEF DrawAndRelease, decoderVars
    <2> QED
        BY <2>5, <2>6, <2>7
<1>10. CASE UNCHANGED vars
    BY <1>10 DEF vars, decoderVars, renderVars
<1> QED
    BY <1>1, <1>2, <1>3, <1>4, <1>5, <1>6, <1>7, <1>8, <1>9, <1>10 DEF Next

(* The inductive invariant holds in every reachable state.                 *)
THEOREM Invariance == Spec => []IInv
<1> QED
    BY InitIInv, NextIInv, PTL DEF Spec

(* Every variable keeps its type; no reference count goes below zero.      *)
THEOREM TypeCorrect == Spec => []TypeOK
<1>1. IInv => TypeOK
    BY DEF IInv
<1> QED
    BY <1>1, Invariance, PTL

(* No interleaving of decoder and renderer leaks a frame, releases one     *)
(* twice or draws one that is gone, whatever the number of frames.         *)
THEOREM FramesOwned == Spec => []OneOwner
<1>1. IInv => OneOwner
    BY DEF IInv
<1> QED
    BY <1>1, Invariance, PTL

(* A frame is handed out with its own decoding time.                       *)
THEOREM FrameTimes == Spec => []TimeOfSameFrame
<1>1. IInv => TimeOfSameFrame
    BY DEF IInv
<1> QED
    BY <1>1, Invariance, PTL

----------------------------------------------------------------------------
(* One more element makes a finite set larger by one at most.              *)
LEMMA OneMore ==
    ASSUME NEW S, IsFiniteSet(S), NEW n \in Nat, Cardinality(S) <= n, NEW x
    PROVE  IsFiniteSet(S \cup {x}) /\ Cardinality(S \cup {x}) <= n + 1
<1>1. Cardinality(S) \in Nat
    BY FS_CardinalityType
<1>2. /\ IsFiniteSet(S \cup {x})
      /\ Cardinality(S \cup {x}) = Cardinality(S) \/ Cardinality(S \cup {x}) = Cardinality(S) + 1
    <2>1. IsFiniteSet(S \cup {x})
        BY FS_AddElement
    <2>2. CASE x \in S
        <3>1. S \cup {x} = S
            BY <2>2
        <3> QED
            BY <2>1, <3>1
    <2>3. CASE x \notin S
        BY <2>3, FS_AddElement
    <2> QED
        BY <2>1, <2>2, <2>3
<1> QED
    BY <1>1, <1>2

(* A set of four elements or fewer, by listing them.                       *)
LEMMA FourElements ==
    ASSUME NEW a, NEW b, NEW c, NEW d
    PROVE  IsFiniteSet({a, b, c, d}) /\ Cardinality({a, b, c, d}) <= 4
<1> DEFINE AB == {a} \cup {b}
           ABC == AB \cup {c}
           ABCD == ABC \cup {d}
<1>1. IsFiniteSet({a}) /\ Cardinality({a}) <= 1
    <2>1. IsFiniteSet({a}) /\ Cardinality({a}) = 1
        BY FS_Singleton
    <2> QED
        BY <2>1
<1>2. IsFiniteSet(AB) /\ Cardinality(AB) <= 2
    <2>1. IsFiniteSet(AB) /\ Cardinality(AB) <= 1 + 1
        BY <1>1, OneMore
    <2> QED
        BY <2>1
<1> HIDE DEF AB
<1>3. IsFiniteSet(ABC) /\ Cardinality(ABC) <= 3
    <2>1. IsFiniteSet(ABC) /\ Cardinality(ABC) <= 2 + 1
        BY <1>2, OneMore
    <2> QED
        BY <2>1
<1> HIDE DEF ABC
<1>4. IsFiniteSet(ABCD) /\ Cardinality(ABCD) <= 4
    <2>1. IsFiniteSet(ABCD) /\ Cardinality(ABCD) <= 3 + 1
        BY <1>3, OneMore
    <2> QED
        BY <2>1
<1>5. {a, b, c, d} = ABCD
    BY DEF ABCD, ABC, AB
<1> QED
    BY <1>4, <1>5

(* However many frames are decoded and however slow the renderer is, at    *)
(* most four are alive.                                                    *)
THEOREM PoolBounded == Spec => []FramesBounded
<1>1. IInv => FramesBounded
    <2> SUFFICES ASSUME IInv
                 PROVE  FramesBounded
        OBVIOUS
    <2> DEFINE alive == {f \in Frame : refs[f] > 0}
               newer == IF newPc = "pulled" THEN newSample ELSE prevSample
    <2>1. alive \subseteq {newer, sample, pulled, prev_sample}
        BY DEF IInv, TypeOK, OneOwner, Held, Locals, Frame
    <2>2. PICK four : /\ four = {newer, sample, pulled, prev_sample}
                      /\ IsFiniteSet(four) /\ Cardinality(four) <= 4
        BY FourElements
    <2> HIDE DEF alive, newer
    <2>3. /\ Cardinality(alive) \in Nat /\ Cardinality(four) \in Nat
          /\ Cardinality(alive) <= Cardinality(four)
        BY <2>1, <2>2, FS_Subset, FS_CardinalityType
    <2>4. Cardinality(alive) <= 4
        BY <2>2, <2>3
    <2> QED
        BY <2>4 DEF FramesBounded, alive
<1> QED
    BY <1>1, Invariance, PTL

----------------------------------------------------------------------------
(* The mailbox implements LatestFrame: storing a frame is Offer, taking    *)
(* one is Show, every other step is a stutter.                             *)
THEOREM MailboxImplementsLatestFrame == Spec => ShowsNewestOnly
<1>1. Init => Mailbox!Init
    BY DEF Init, Mailbox!Init, lastShown
<1>2. ASSUME IInv, [Next]_vars
      PROVE  [Mailbox!Next]_<<IF sample # 0 THEN sample ELSE lastShown, lastShown>>
    <2> USE <1>2 DEF lastShown
    <2>1. CASE StoreSample
        BY <2>1 DEF StoreSample, Stored, renderVars, Mailbox!Next, Mailbox!Offer,
                    IInv, TypeOK, Locals, FramesInOrder, stored
    <2>2. CASE TakeSample
        BY <2>2 DEF TakeSample, RendererLocks, SlotAfterTake, Mailbox!Next,
                    Mailbox!Show, IInv, TypeOK, Locals, FramesInOrder
    <2>3. CASE DrawAndRelease
        BY <2>3 DEF DrawAndRelease, IInv, Locals
    <2>4. CASE handle_media_stream \/ on_drop_pipeline_cb \/ PullSample \/ StoreTime
               \/ DiscardPrevious \/ TakeTime \/ UNCHANGED vars
        BY <2>4 DEF handle_media_stream, on_drop_pipeline_cb, PullSample, StoreTime,
                    DiscardPrevious, TakeTime, decoderVars, renderVars, vars
    <2> QED
        BY <2>1, <2>2, <2>3, <2>4 DEF Next
<1> QED
    BY <1>1, <1>2, Invariance, PTL DEF Spec, ShowsNewestOnly, Mailbox!Spec

----------------------------------------------------------------------------
(* The safety part of DecodedIsShown: the newest frame decoded is alive,   *)
(* on its way to the mailbox, in it or with the renderer, so that what is  *)
(* left to do is to take and to draw it.                                   *)
NewestKept ==
    decoded # 0 => /\ refs[decoded] = 1
                   /\ decoded \in {newSample, sample, pulled, prev_sample}

(* Whatever the decoder replaces and the renderer releases, the newest     *)
(* frame is never among it.                                                *)
THEOREM NewestIsKept == Spec => []NewestKept
<1>1. IInv => NewestKept
    <2> SUFFICES ASSUME IInv, decoded # 0
                 PROVE  refs[decoded] = 1 /\ decoded \in {newSample, sample, pulled, prev_sample}
        BY DEF NewestKept
    <2>1. decoded \in {newSample, sample, pulled, prev_sample}
        BY DEF IInv, TypeOK, Locals, FramesInOrder, stored, lastShown
    <2>2. decoded \in Frame /\ refs[decoded] \in {0, 1}
        BY DEF IInv, TypeOK, Frame
    <2>3. newSample = decoded => newPc = "pulled" \/ sample = decoded
        BY <2>2 DEF IInv, TypeOK, Locals, Frame
    <2>4. Held(decoded) >= 1
        BY <2>1, <2>3 DEF Held
    <2>5. Held(decoded) = refs[decoded]
        BY <2>2 DEF IInv, OneOwner
    <2> QED
        BY <2>1, <2>2, <2>4, <2>5
<1> QED
    BY <1>1, Invariance, PTL
=============================================================================
