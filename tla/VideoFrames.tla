----------------------------- MODULE VideoFrames -----------------------------
(***************************************************************************)
(* Decoded frames on their way to the screen of the Android client:        *)
(* the sample mailbox of src/src/client/stream_client.c between the        *)
(* decoder's streaming thread (on_new_sample_cb) and the render loop of    *)
(* src/android_client/src/main.cpp (my_stream_client_try_pull_sample,      *)
(* draw, my_stream_client_release_sample).                                 *)
(*                                                                         *)
(* A frame is its number in decoding order, 0 standing for NULL.  The      *)
(* decoding time of a frame is its number too.  The statements inside the  *)
(* two sections under sample_mutex are separate steps.                     *)
(***************************************************************************)
EXTENDS Integers, FiniteSets

CONSTANT MaxFrames      \* bound: frames decoded

ASSUME FramesAssumption == MaxFrames \in Nat

VARIABLES
    app_sink,               \* sc->app_sink: not yet set, set, dropped
    decoded,                \* frames decoded so far
    sample_mutex,           \* its owner
    sample,                 \* sc->sample
    sample_decode_end_ts,   \* sc->sample_decode_end_ts
    newPc, newSample, prevSample,   \* on_new_sample_cb and its locals
    pullPc, pulled, decode_end,     \* render loop: try_pull's results
    prev_sample,            \* the frame kept since it was last drawn
    refs                    \* references to each frame

vars == <<app_sink, decoded, sample_mutex, sample, sample_decode_end_ts, newPc,
          newSample, prevSample, pullPc, pulled, decode_end, prev_sample, refs>>
decoderVars == <<newPc, newSample, prevSample>>
renderVars == <<pullPc, pulled, decode_end, prev_sample>>

Frame == 1 .. MaxFrames

Init ==
    /\ app_sink = "none"
    /\ decoded = 0
    /\ sample_mutex = "free"
    /\ sample = 0
    /\ sample_decode_end_ts = 0
    /\ newPc = "idle" /\ newSample = 0 /\ prevSample = 0
    /\ pullPc = "idle" /\ pulled = 0 /\ decode_end = 0
    /\ prev_sample = 0
    /\ refs = [f \in Frame |-> 0]

TypeOK ==
    /\ app_sink \in {"none", "set", "dropped"}
    /\ decoded \in 0 .. MaxFrames
    /\ sample_mutex \in {"free", "decoder", "renderer"}
    /\ {sample, newSample, prevSample, pulled, prev_sample} \subseteq 0 .. MaxFrames
    /\ {sample_decode_end_ts, decode_end} \subseteq 0 .. MaxFrames
    /\ newPc \in {"idle", "pulled", "stored", "replaced"}
    /\ pullPc \in {"idle", "taken", "got"}
    /\ refs \in [Frame -> {0, 1}]

Unref(f) == [g \in Frame |-> IF g = f THEN refs[g] - 1 ELSE refs[g]]

----------------------------------------------------------------------------
(* handle_media_stream makes the appsink and installs on_new_sample_cb.    *)
handle_media_stream ==
    /\ app_sink = "none"
    /\ app_sink' = "set"
    /\ UNCHANGED <<decoded, sample_mutex, sample, sample_decode_end_ts, decoderVars,
                   renderVars, refs>>

(* on_drop_pipeline_cb, on whichever thread disconnects, the render loop's *)
(* own or webrtcbin's: setting the pipeline to NULL waits for the          *)
(* streaming thread to leave the callback, not for the render loop to      *)
(* leave try_pull_sample.  The mailbox keeps what it has.                  *)
on_drop_pipeline_cb ==
    /\ newPc = "idle"
    /\ app_sink # "dropped"
    /\ app_sink' = "dropped"
    /\ UNCHANGED <<decoded, sample_mutex, sample, sample_decode_end_ts, decoderVars,
                   renderVars, refs>>

----------------------------------------------------------------------------
(* on_new_sample_cb.                                                       *)
PullSample ==
    /\ app_sink = "set"
    /\ newPc = "idle"
    /\ decoded < MaxFrames
    /\ decoded' = decoded + 1
    /\ newSample' = decoded + 1
    /\ refs' = [refs EXCEPT ![decoded + 1] = 1]
    /\ newPc' = "pulled"
    /\ UNCHANGED <<app_sink, sample_mutex, sample, sample_decode_end_ts, prevSample,
                   renderVars>>

KeepUnread == IF sample = 0 THEN newSample ELSE sample  \* mutant: first one stays
Stored == newSample

StoreSample ==
    /\ newPc = "pulled"
    /\ sample_mutex = "free"
    /\ sample_mutex' = "decoder"
    /\ prevSample' = sample
    /\ sample' = Stored
    /\ newPc' = "stored"
    /\ UNCHANGED <<app_sink, decoded, sample_decode_end_ts, newSample, renderVars,
                   refs>>

StoreTime ==
    /\ newPc = "stored"
    /\ sample_decode_end_ts' = newSample
    /\ sample_mutex' = "free"
    /\ newSample' = 0
    /\ newPc' = "replaced"
    /\ UNCHANGED <<app_sink, decoded, sample, prevSample, renderVars, refs>>

DiscardNothing == refs                          \* mutant: previous not unref'd
Discarded == IF prevSample # 0 THEN Unref(prevSample) ELSE refs

DiscardPrevious ==
    /\ newPc = "replaced"
    /\ refs' = Discarded
    /\ prevSample' = 0
    /\ newPc' = "idle"
    /\ UNCHANGED <<app_sink, decoded, sample_mutex, sample, sample_decode_end_ts,
                   newSample, renderVars>>

----------------------------------------------------------------------------
(* One turn of the render loop: my_stream_client_try_pull_sample, then     *)
(* draw the frame and release the one before it.                           *)
RendererUnlocked == pullPc = "idle" /\ app_sink = "set"  \* mutant: no locker
RendererLocks == pullPc = "idle" /\ app_sink = "set" /\ sample_mutex = "free"

SlotKept == sample                              \* mutant: sc->sample not reset
SlotAfterTake == 0

TakeSample ==
    /\ RendererLocks
    /\ sample_mutex' = "renderer"
    /\ pulled' = sample
    /\ sample' = SlotAfterTake
    /\ pullPc' = "taken"
    /\ UNCHANGED <<app_sink, decoded, sample_decode_end_ts, decoderVars, decode_end,
                   prev_sample, refs>>

TakeTime ==
    /\ pullPc = "taken"
    /\ decode_end' = sample_decode_end_ts
    /\ sample_mutex' = "free"
    /\ pullPc' = IF pulled = 0 THEN "idle" ELSE "got"
    /\ UNCHANGED <<app_sink, decoded, sample, sample_decode_end_ts, decoderVars,
                   pulled, prev_sample, refs>>

ReleaseDrawn == Unref(pulled)                   \* mutant: the frame on screen
ReleaseOld == IF prev_sample # 0 THEN Unref(prev_sample) ELSE refs

DrawAndRelease ==
    /\ pullPc = "got"
    /\ refs' = ReleaseOld
    /\ prev_sample' = pulled
    /\ pulled' = 0
    /\ pullPc' = "idle"
    /\ UNCHANGED <<app_sink, decoded, sample_mutex, sample, sample_decode_end_ts,
                   decoderVars, decode_end>>

----------------------------------------------------------------------------
Next ==
    \/ handle_media_stream
    \/ on_drop_pipeline_cb
    \/ PullSample
    \/ StoreSample
    \/ StoreTime
    \/ DiscardPrevious
    \/ TakeSample
    \/ TakeTime
    \/ DrawAndRelease

Spec == Init /\ [][Next]_vars

(* The streaming thread finishes its callback, and the render loop goes    *)
(* round for ever; a mutex released again and again is acquired.           *)
Fairness ==
    /\ SF_vars(StoreSample)
    /\ WF_vars(StoreTime)
    /\ WF_vars(DiscardPrevious)
    /\ SF_vars(TakeSample)
    /\ WF_vars(TakeTime)
    /\ WF_vars(DrawAndRelease)

FairSpec == Spec /\ Fairness

----------------------------------------------------------------------------
(* Properties.                                                             *)

(* Where a frame can be: in a local of either thread, in the mailbox, kept *)
(* by the render loop.                                                     *)
Held(f) ==
      (IF newPc = "pulled" /\ newSample = f THEN 1 ELSE 0)
    + (IF prevSample = f THEN 1 ELSE 0)
    + (IF sample = f THEN 1 ELSE 0)
    + (IF pulled = f THEN 1 ELSE 0)
    + (IF prev_sample = f THEN 1 ELSE 0)

(* Every frame decoded is in one place with one reference, or in none and  *)
(* freed: no interleaving of the two threads leaks a frame, releases one   *)
(* twice, or draws or leaves on the screen a frame that is gone.           *)
OneOwner == \A f \in Frame : Held(f) = refs[f]

(* The decoding time handed out with a frame is the time of that frame:    *)
(* the mutex keeps the two fields of the mailbox together.                 *)
TimeOfSameFrame == pullPc = "got" => decode_end = pulled

(* However slowly frames are drawn, no more than four are alive: the pool  *)
(* of the decoder they come from is never drained by the client.           *)
FramesBounded == Cardinality({f \in Frame : refs[f] > 0}) <= 4

(* The mailbox is the abstract one: the renderer gets the newest frame     *)
(* stored, each at most once, never an older one after a newer one.        *)
lastShown == IF pulled # 0 THEN pulled ELSE prev_sample
Mailbox == INSTANCE LatestFrame
           WITH offered <- IF sample # 0 THEN sample ELSE lastShown,
                shown <- lastShown
ShowsNewestOnly == Mailbox!Spec

(* A frame that was decoded is shown, or a newer one is in its place,      *)
(* unless the pipeline is dropped: the last frame does not stay unseen.    *)
DecodedIsShown ==
    \A f \in Frame : decoded >= f ~> prev_sample >= f \/ app_sink = "dropped"
=============================================================================
