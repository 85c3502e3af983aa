# A TLA+ development of gst-webrtc-demo

The repository streams video and audio from a server (desktop or Android) to one or
more clients over WebRTC, with GStreamer doing the media work. What the repository adds
is the control around it: a signalling server, one webrtcbin per client on the server,
a connection object and a one-frame mailbox on the client, a screen capture service on
Android, and the threads and callbacks that tie them together. This directory models
that control, checks it with TLC and proves its safety properties with TLAPS.

## 1. The system

| component | source | state | operations |
|---|---|---|---|
| client connection | `src/src/client/connection.c`, `status.h` | status, cancellable, websocket, pipeline, webrtcbin, data channel | connect, disconnect, set-pipeline, completion of the websocket attempt, text received, promise and ICE and data channel callbacks |
| stream client | `src/src/client/stream_client.c` | pipeline, app sink, loop thread, connection; the sample mailbox | spawn thread, stop, destroy, try pull / release sample, need and drop pipeline, new sample |
| receiving pipeline | `stream_client.c` 252-285, 348-513, 648-795 | pipeline, app sink | make, pad added (webrtcbin, decodebin3), bus message, drop |
| client applications | `src/android_client/src/main.cpp`, `src/src/client/client_pipeline.c` | current connection and stream client, frame on the screen | window created / terminated, stop, render loop |
| EGL and renderer | `EglData.cpp`, `render/render.cpp` | context and surface of a window, GL objects | create, make current, set up, reset, draw |
| signalling server | `src/src/server/signaling_server.c` | list of websocket connections | accept, message, close, send |
| server pipeline | `src/src/server/server_pipeline.c` | the pipeline, a webrtcbin per client, one data channel field | play, client connected / disconnected, answer, candidate, offer, probes, push PCM, stop |
| server process | `src/android_server/src/main.cpp`, `server_pipeline.c` | the activity, `mgd`, the bus, timeouts | create, play, poll, stop, push PCM, bus watch |
| screen capture service | `.../webrtc_server/ScreenCaptureService.kt` | recording flag, recorder, projection, executor | start, stop, destroy, recording loop, cleanup |
| diagnostics | `general.c`, `webrtc_stats.c` | - | log |
| glue, activities, build | `gstreamer_android.c`, Kotlin activities, CMake, Gradle | - | - |

### How they interact

* The application owns a connection and a stream client. The connection asks for a
  pipeline by the signal `on-need-pipeline`; the stream client's handler makes one and
  answers by `set-pipeline`; the connection plays it, and gives it up again by
  `on-drop-pipeline`. Both keep a pointer to it, one of them has the reference.
* Texts travel between the connection and the signalling server: the server's offer,
  the client's answer, candidates both ways. On each side they arrive on a GLib main
  loop and are answered from webrtcbin's own thread.
* The signalling server names a client by the address of its websocket connection and
  announces it by signals; the server pipeline keys webrtcbins by that name.
* The streaming threads of the server take a webrtcbin out of the running pipeline, by
  probes; that of the client hands samples to the render loop under a mutex.
* On Android both programs are native activities: the framework's calls become commands
  in a pipe, which `poll_events` takes between two turns of the render loop. The client
  makes a context, a connection and a stream client for each window and drops the session
  when the window or the activity goes; the server ends with the activity.
* The capture service records on the one thread of its executor and pushes PCM into the
  server's pipeline.

### What is hard

Asynchronous completions that outlive the request (a cancelled websocket attempt still
completes, a closed socket still delivers), three threads in one object without a lock,
a main loop that blocks on a promise, addresses used as names, elements removed while
data flows, a mailbox shared with a renderer of another speed, an object freed while
callbacks for it are still registered, an executor shut down with work in its queue, two
readers of one bus, an activity whose window goes away under the renderer, globals that
survive into the next activity of the process.
`PROJECT.json` lists each such hazard at its line with the properties that cover it.

### What makes each component correct

* connection: its fields describe one session; only the attempt it can cancel can still
  succeed; a dropped session leaves no socket and no running pipeline; "connected" means
  there is a channel to send on; offers get answers, answers precede candidates. Where two
  threads have mixed this up, the next disconnect that runs alone puts it right.
* stream client and application: both sides agree on the pipeline; what plays can be
  stopped; no attempt can still succeed for a freed stream client; every attempt ends.
* frames: each sample is owned once, its time is its own, the newest one is shown.
* server: each listed client has one running webrtcbin, each departed client's is
  removed exactly once and without stopping the others' audio; ids are never reused;
  references balance; the loop never waits for a bin that is going away.
* server process: stop comes back; pushing audio costs no reference.
* client process: the render loop draws on a window that is there, with objects of its own
  context; a pad is handled in a pipeline that is still there.
* capture service: no task meets a recorder another task released; a stop ends the service.

## 2. The modules

| module | models | its state in the code | its actions |
|---|---|---|---|
| `Connection` | `connection.c` | fields of `MyConnection`; each pointer is the number of the session (connect call) it points into. `inflight`, `cancelled`: GIO; `sock`, `inbox`, `outbox`: libsoup; `playing`, `applied`, `answering`, `channel`: webrtcbin; `waiting`: the loop in `gst_promise_wait`; `drop`, `cbPc`: the statement each thread is at in `conn_disconnect_internal` and `conn_connect_internal`, and the loop in `conn_websocket_connected_cb`; `abort`: the assertion that failed; history `order`, `nRaces` | one per statement of those three handlers, one per handler for the others, with the handler's name |
| `SignalingServer` | `signaling_server.c` | the list (as a set), sockets, `held`: addresses of objects not freed, `announced`: last signal | operators for the callbacks; the signals they emit are conjoined in `ServerPipeline` |
| `ServerPipeline` (extends it) | `server_pipeline.c` 99-460, 493-600 | `bin`: the webrtcbin named after an address and how far its connecting and its removal are; `binRefs`; `data_channel` and `appRefs`; `audioIn`: the audio thread inside the probe; `waitFor`: the loop waiting; `flows`: the streams whose buffers still come | one per callback; `webrtc_client_connected_cb` and the audio probe in steps, since the streams flow meanwhile; a buffer that meets a flushing bin |
| `VideoFrames` | mailbox of `stream_client.c`, render loop of `main.cpp` | fields and locals of both threads, the mutex, `refs` per sample | one per statement between lock, unlock and return |
| `ClientApp` | windows in `main.cpp`, life of a stream client | for each window a connection/stream client pair; threads; who has the pipeline, and `refs` to it; `drop`, `appPc`, `loopPc`: where the threads are; history `handed`, `crossed`, `raced` | one per call of the application; completion, disconnect with the drop handler, stop and dispose statement by statement |
| `NativeActivity` | the activity, the glue's pipe, and the `poll_events` and `while` of both `main.cpp` | `activity`, `cmd`: the framework and the pipe (external); fields of `struct android_app`; `loopPc`: where `android_main` is; `woken`: the poll ended with neither event nor timeout | operators: the framework's calls, the glue's handling of a command, the poll's outcomes, the test of the loop |
| `ServerProcess` (extends it) | `android_main` of the server, `server_pipeline_create`, `play`, `stop`, `push_pcm`, `gst_bus_cb` | `stage`: how far these calls are; `bus`, `eosSent`, `hasEos`: GStreamer's way to the EOS message; `clients`: sinks of the pipeline; `timeouts` and the one field; `srcRefs` | one per call, or per statement where another thread can come between |
| `MediaPipeline` | receiving pipeline of `stream_client.c` | `sc->pipeline`, `conn->pipeline`, `sc->app_sink`; `pad`: how far the handling of each medium's pad is; `need`: how far the completion is with making, handing over and starting it; `drop`: where the application's disconnect, its stop, and webrtcbin's thread are in the drop; history `missed` | one per handler, one per statement of the making and of the drop |
| `AndroidClient` (extends it and `NativeActivity`) | `main.cpp`, `EglData.cpp`, `render.cpp` of the client | `egl_data` by the number of its window; `renderer` by the GL name it holds, `objects`: the names that exist in the current context | the commands, the steps of the render loop, the end of `android_main` |
| `ScreenCapture` | `ScreenCaptureService.kt` | the fields, the executor's queue and thread, each recorder's state | one per statement on a shared field, on the main thread and on the executor |
| `SingleSession` | what a connection promises, abstract | the attempt, the session, per session the offers heard and the texts sent | begin, open, end, channel opens, hear an offer, send |
| `ClientService` | what signalling server and pipeline together promise, abstract | per id: unknown, served, leaving, gone; its texts; whose answer is being applied | join, leave, remove, tell, answer, applied |
| `ServerLife` | the life of the one server of a process, abstract | none, listening, playing, ending, over; clients, lost references, process alive | listen, play, end, over, accept, lose, fail |
| `LatestFrame` | a newest-value mailbox, abstract | - | offer, show |
| `MC*` | - | constants for TLC | - |
| `*Proofs` | - | inductive invariants, theorems | - |

`Connection` stands for one connection object with everything around it; `ClientApp`
sees several connections, each reduced to what the stream client shares with it, and adds
the handlers the stream client has for the connection's signals, stop and dispose.
`ServerProcess` takes of the clients only that they are sinks, since stop needs no more of
them; `ServerPipeline` takes of the process only `server_pipeline_play`. `AndroidClient`
leaves the connection's attempt to `ClientApp` and the samples to `VideoFrames`, and has
the pads, the windows and the render loop that those leave out.
Each of four detailed modules implements one of the abstract ones; the mapping is next to
the property that says so: `Connection!Promise` (`OneSessionAtATime`),
`ServerPipeline!Service` (`ServesEachClientOnce`), `ServerProcess!Life` (`ServesOnce`),
`VideoFrames!Mailbox` (`ShowsNewestOnly`). The live attempt of `SingleSession` is the newest
one unless it is cancelled or over; a client of `ClientService` is leaving from the first
step of its webrtcbin's removal to the last; the server of `ServerLife` is the stage of
`android_main` and of `server_pipeline_stop`, with `created` still listening and `popped`
still ending.
A definition keeps the name of the function it translates. `PROJECT.json` maps every
definition to its lines.

Each definition marked `mutant` is a plausible wrong version of the one after it; no
specification uses them. They serve to show that each property depends on the code.

## 3. The runs

| run | question | instance | result |
|---|---|---|---|
| `connection` | do the fields stay one session, is nothing left over, are offers answered, is it a `SingleSession`? | 2 connects, 1 text per socket, 1 candidate per bin, 1 race | holds; 557,966 states |
| `server` | does each client get, keep and lose exactly its own webrtcbin, is it a `ClientService`? | 2 addresses, up to 3 accepts, 1 text, 1 candidate | holds; 448,968 states |
| `frames` | is a frame lost, freed twice, mistimed or shown out of order? | 8 frames | holds; 919 states |
| `clientapp` | do stream client and connection agree while windows come and go? | 2 windows | holds; 179,490 states |
| `capture` | does a task meet a released recorder, does a stop end the service? | 2 starts, 2 stops | holds; 56,459 states |
| `process` | does stop come back, is the EOS it needs ever lost, is it a `ServerLife`? | 2 activities, 2 starts, 1 window, 2 clients, 2 pushes, 2 messages besides EOS | holds; 206,541 states |
| `androidclient` | does the render loop find its window and its objects, does a pad handler find the pipeline? | 2 activities, 3 starts, 3 windows | holds; 1,321,749 states |
| `connection_again` | does a second connect come to an end? | 2 connects, no race | violated |
| `connection_assert` | does the assertion on the websocket hold? | 2 connects, no race | violated |
| `clientapp_handover` | is the pipeline handed over once? | 1 window | violated |
| `clientapp_unheard` | is a request for a pipeline always answered? | 2 windows | violated |
| `capture_cleanup` | does the cleanup survive the shutdown? | 1 start, no stop | violated |

The five violated runs each state what a comment, header or assertion of the repository
says, and TLC's trace is the way the code departs from it:

* `ConnectResolves`: an offer left over from a closed socket is dispatched when
  `conn->webrtcbin` is NULL; `gst_promise_wait` then blocks the loop for good.
* `WsAssertHolds`: a cancelled attempt completing after its successor fails
  `g_assert(!conn->ws)`.
* `HandedOverOnce`: `on_drop_pipeline_cb` and `conn_disconnect_internal` both give up the
  one reference to the pipeline.
* `NeedPipelineAnswered`: from the second window on the completion may run before the
  handlers are connected.
* `CleanupSurvivesShutdown`: `startForeground` fails and `stopSelf` is called, the start
  goes on; `onDestroy` queues the cleanup behind the recording loop, and `shutdownNow`
  discards it.

`StatusTellsSession` has an exception that is what the code does: the completion of a
cancelled attempt overwrites the status of the attempt that replaced it with
`MY_STATUS_WEBSOCKET_FAILED` (`connection.c` 573). It can do so only until that attempt is
a session.

The passing properties of those modules hold in the presence of these: an abort stops
`Connection`, a blocked loop stays blocked, over-released memory is not interpreted.

No lock guards the client's objects, so threads can get in each other's way in the middle
of a handler. The models let them, and what breaks then is kept apart by a history
variable, which a property names to say exactly where it does not hold:

* `Connection!order` is lost when a thread enters one of the two long handlers
  (`conn_websocket_connected_cb` from line 568 on, `conn_disconnect_internal`) while another
  is in one. After that the fields may be of two sessions, an assertion of lines 584, 633
  or 387 may fail, a pipeline may be set to PLAYING with nobody to stop it. The order is found
  again by a disconnect that runs alone from its first statement to its last, provided that
  the object still points to everything that is open, playing or able to succeed
  (`NothingLost`). One handler in pieces between the short handlers of the other threads, and
  the whole object after such a disconnect, are what the properties are about.
* `ClientApp!crossed` holds the pairs whose completion ran beside a disconnect or a stop:
  the drop may have found `conn->pipeline` still NULL, or `dispose` cleared `sc->pipeline`
  for good, so the two fields part. `raced` holds the pairs whose pipeline was started
  (596) while a disconnect was past its test (328): it plays, and the disconnect takes the
  last pointer.
* `MediaPipeline!missed`: a drop found no pipeline because it was still being made, or had
  stopped it before it was started.
* `ServerPipeline!flows`: a bin is linked to the running tees (156, 176) before it is PLAYING
  (318); a buffer in between finds it flushing and its stream stops for all clients. The same
  happens to a video buffer while the audio probe sets a bin to NULL. `RemovalKeepsAudio` says
  that to audio it happens only with the bin being connected; `ClosedClientRemoved` asks for a
  removal only while both streams flow, since the code does it on their buffers.
* The close of one client's channel between lines 300 and 304 of another's connecting clears
  the field the assertion reads (`abort` is `"channel"`); `on_offer_created` reads through NULL
  when the reply has no offer (`"offer"`). `NamesNeverCollide` is about the third abort only.
* `ScreenCapture!stopped` is set by a stop and cleared by the recording of a later start.

Behaviour of the process modules that no text of the repository contradicts, so that no
run is violated by it, but that a reader of the models will meet:

* After `APP_CMD_DESTROY` the activity is not resumed, so `poll_events` polls without
  timeout, and no command follows that one. `destroyRequested` is tested only when the
  poll ends, which takes a signal or an error (`PollWoken`). The framework waits.
* A poll that ends so goes on to the render code with whatever window there is;
  `makeCurrent` may then throw, and `android_main` does not catch (`MakeCurrentThrows`).
  `RendersOnLiveWindow` excepts it by `woken`.
* `server_pipeline_stop` waits for ever if no client is connected, or one was linked too
  late to get the EOS event; and when the bus watch is the first to the EOS message its
  `g_error` ends the process. `StopEnds` says that nothing else prevents the return.
* A second activity in the process fails the assertion of `signaling_server_init`, since
  the first server still listens (`abort` is `"listen"`).
* Every push before play, or after stop, keeps a reference to the appsrc; each push also
  keeps one to the clock. A client's timeout other than the last one's stays attached.
* After `APP_CMD_STOP` the client connects again only with a new window.
* Two statements of the client are not interpreted: the timer of `stream_client.c` 786,
  never removed, on a pipeline given up meanwhile, and `gst_clear_object` of `app_sink`
  (794), a reference that its bin has taken over.

### Why the bounds are enough

Two connects give an attempt and its replacement, a session and the leftovers of the one
before it, with a disconnect before, between and after at any statement. One race breaks
the order once, which is what the recovery has to deal with: it starts from whatever
that left; the theorems are for any number of races. One text per socket
suffices since texts are handled one at a time and what matters is which socket and which
session meet. Two server addresses give one client that leaves and one that stays; the
third accept is for a reuse of an address, which the code's leaked reference prevents (and
the mutant that gives it back shows). Eight frames are twice the number that can be alive.
Two windows give the loop thread of a window that is gone serving the one that is there.
Two starts and two stops give each order of a start or a stop around an unfinished one.
Two activities show what survives into the next one; three windows let the third replace a
renderer that has replaced one; three starts let the activity be stopped and come back
with and without its window. Two clients on the server's process give one that leaves
while the stream of the other ends; two messages ahead of the EOS give stop one to discard
and the watch one to take. The theorems do not depend on any bound.

`CHECK_DEADLOCK FALSE` is set where the system may stop: after a failed assertion, when
the loop waits for ever, when clients or windows no longer come, and at the bounds.

### Fairness

* `connection`: a thread goes on with the handler it is in; the loop dispatches
  completions and texts, unless it waits for a promise; webrtcbin replies to the promises it
  accepted and runs its callbacks while its pipeline plays. Nothing is asked of the
  application between its calls, or of the peer.
* `server`: the main loop and webrtcbins progress, and a stream brings its next buffer as
  long as it flows, which no fairness says it does (`SourceFallsSilent`, `VideoFlushed`,
  `AudioFlushed`): without audio capture, on Android, no audio buffer comes and no webrtcbin
  is ever removed. Nothing is asked of the clients.
* `frames`: both threads continue; strong fairness for the mutex, which the render loop
  asks for again and again.
* `clientapp`: the application finishes opening a window, the loop the callback it is in; an
  attempt is completed if the loop thread that owns the main context comes back to it again
  and again (strong fairness). It need not: `LateOffer` leaves it in `gst_promise_wait` for
  good, which `AttemptEnds` names.
* `process`: stop takes the messages there are (its thread does nothing else), and an EOS
  that every sink has had is posted. Nothing is asked of the bus watch, the clients, the
  recorder or the framework.
* `androidclient`: none; its properties are safety properties.
* `capture`: both threads run; a read of the recorder returns.

### What is assumed of the libraries

A short handler, one that touches one or two fields, runs without interleaving with
another of the same object; the others are split into steps. `gst_clear_object` and
`g_clear_object` are one step: two threads giving up the same field at once is not
interpreted. Setting a pipeline to NULL waits for webrtcbin's thread; what that thread had
queued is gone. webrtcbin replies to each promise it accepts; an emission on NULL is never
answered. A cancelled attempt finishes with an error; completions come in any order.
libsoup delivers what came before the peer's close. Sending on a missing or closed socket
does nothing. The server opens one data channel in a session. The platform terminates a
window before it makes the next and before the activity ends, and takes a surface only
from a paused activity; the framework issues one command at a time and waits until it is
taken. A bin posts EOS when each of its sinks has had the event, never if it has none. A
pipeline in NULL has base time 0 and a flushed bus. GL hands out names again per context.
webrtcbin's callbacks come one at a time, and webrtcbin adds one audio and one video pad;
a change to NULL returns when no pad handler is running. Whether a close handler on
webrtcbin's own thread would wait for itself there depends on webrtcbin; the models let it
finish. One service instance, destroyed only after `stopSelf`. The first loop thread to
run keeps the default main context for the life of the process, since nothing quits its
loop. `ClientApp` stops (`fault`) at the first call on a freed stream client, and may stop
at `g_clear_object` on the GMainLoop in dispose: what happens then is undefined behaviour.
`AudioRecord.startRecording` and `stop` throw on a record that is not initialised; `read`
returns an error; `release` may be called at any time. The executor starts its thread with
the first task. `on_answer_created` may get a reply without an answer; the code then reads
through NULL, which is the abort `"answer"`.

## 4. What is proved

All for every value of the constants, from the `ASSUME`s of the modules (the bounds are
natural numbers, `NULL` is no address) and nothing else. Every invariant of a passing run
and each of its action properties, the four refinements included, is a theorem.

### Invariants

* `ConnectionProofs`: type correctness and the five other invariants of run `connection`,
  for any number of connects, texts, candidates and races. They are not inductive alone.
  The strengthening has three layers. In every state: session and cancellable numbers are
  allocated in order (`IdsInOrder`: a cancellable belongs to at most one live attempt), a
  session not yet started owns nothing (`BlankInv`), and the loop is in one place and waits
  for the bin the object has or for one it gave up (`LoopInv`). While the order is not lost
  (`OrderInv`): one thread is in a long handler, the live attempt is the newest and only one,
  nothing runs that the object does not point to, and each statement of a disconnect that
  has run has done its work (`DropInv`, one line per statement: this is what makes a
  disconnect alone restore the order). While it is kept (`KeptInv`): what plays is of one
  session (`PlayingInv`, `SessionInv`), how far the completion is says which fields are set
  (`CallbackInv`), status and channel fit between handlers (`QuietInv`), and answers sent,
  queued and awaited do not outnumber the offers (`AnswerInv`).
* `ServerPipelineProofs`: type correctness, the six other invariants of run `server`, that
  an offer comes first and that ids are not reused. Added: list, sockets and announcements
  agree (`Registry`), the handler is connected before the loop runs (`HandlerFirst`), the
  audio probe's progress (`AudioProbeIn`), and created offers were sent (`OfferSent`). None of
  it depends on whether the streams flow.
* `VideoFramesProofs`: ownership, timestamps, the bound on live frames. Added: each
  thread's locals fit its place (`Locals`), the mutex is held by the thread inside it
  (`MutexHeld`), the stored time is the stored frame's (`SlotTime`), frames move in order
  (`FramesInOrder`).
* `ClientAppProofs`: `FreedIsQuiet`, `PipelineShared`, `PlayingIsOwned`, from the order of
  the application's calls (`CurrentPair`), on whose behalf each disconnect runs
  (`DropHasPair`), that a pair's callback makes it a pipeline once (`ConnectsOnce`), that only
  heard connections have one (`PipelineHeard`), the account of its references (`RefsAccount`),
  and the order in which the two fields are cleared (`DropsInOrder`, for pairs not crossed;
  `StaysStopped`).
* `NativeActivityProofs`: lemmas, one for each operator, that `ActivityInv` is preserved.
  It says that the framework is at most the command in the pipe ahead of the application
  (`InStep`: so the application has seen the pause when it is told that its window goes),
  that nothing follows a destroy (`DestroyedLast`), and that a poll not interrupted ends
  with a window (`RenderHasWindow`). Both process modules rest on it.
* `ServerProcessProofs`: type correctness, that a push never gives back the last reference
  to the appsrc and loses none while the pipeline plays; added: `StopAtEnd` and
  `SourceCounted`. `LifeInv` adds for `EosNotLost` that stop is where the calls before it
  leave it (`StagesFit`, `MainFits`).
* `AndroidClientProofs`: type correctness and the three other invariants of run
  `androidclient`. Added: `MediaInv` and `WindowInv` (a window is that of `egl_data`, whose
  context has the renderer's object). `MediaInv` says that handlers run only in a running
  pipeline (`RunsFirst`) and, unless drop and making missed each other, that both fields hold
  the running pipeline and who clears one has stopped it (`Keeps`), that no drop is past
  its test while the pipeline is made (`Makes`), and that what is cleared stays clear, with a
  thread on its way to clear what is left (`Clears`). Beyond the run, `DropIsComplete`: of a
  pipeline nothing is left when the last dropper is through.
* `ScreenCaptureProofs`: `NoTaskOnReleased`, from `FieldAlive` (the field names no record a
  task has released, but between the release and the null that follows it) and
  `StartNumbered`.

### Refinements

`ConnectionImplementsSingleSession`, `ServerImplementsClientService`,
`ProcessImplementsServerLife` and `MailboxImplementsLatestFrame` each prove that the
initial states map to the abstract initial state and that every step maps to an abstract
step or a stutter, one lemma or step per action of the detailed module. What makes them
more than a renaming of actions:

* Connection: a disconnect ends the attempt, the session and the channel in three of its
  eight statements, with the others' steps between them, and a completion that succeeds
  becomes `Open` only since the live attempt is the newest. `SendAnswer` is enabled since an
  answer that is queued was owed (`AnswerInv`), though promise, answer and disconnect belong
  to different threads; `SendCandidate` since gathering follows an answer. A race makes the
  abstract object unruly, and it may be calm again only without attempt, session and channel:
  that is what `DropInv` has to show of the disconnect that restores the order.
* Server: `Join`, `Leave` and `Answer` take place only while the loop does not wait, and
  the removal, by two streaming threads, ends only once (`AudioProbeIn`) and never for the
  client waited for (`LoopWaitsOnRunningBin`); `Tell` with the offer happens once and
  first (`OfferSent`, and `SilentUntilOffer`: nothing was said to a client whose offer is
  still to be created), and an address that comes back would be a `Join` of a client that
  is gone, which `Registry` excludes.
* Process: an activity launched again finds the port taken and can only `Fail`; a push that
  loses a reference does so before play or after stop, however it overlaps with either.

### Safety under the liveness properties

Liveness (`OffersAnswered`, `EveryClientOffered`, `ClosedClientRemoved`, `DecodedIsShown`,
`AttemptEnds`, `StopEndsService`, `StopEnds`) is model-checked only: TLAPS treats neither
fairness nor `ENABLED`. What each of five of them rests on, that the thing awaited cannot
get lost, is an invariant and is proved: `AnswerAccount` and `ReplyOfOwnBin` for
`OffersAnswered`, `NewestIsKept` for `DecodedIsShown`, `AttemptsAreServed` for
`AttemptEnds`, `StopIsKept` for `StopEndsService`, `StopHasItsEos` for `StopEnds`.
`ClientAppProofs!DroppedOnceTooOften` makes precise, for any number of windows, what run
`clientapp_handover` shows in one: a pipeline handed over and cleared in both fields has lost
exactly one reference more than it had, whichever threads cleared them and in whatever
order; stop and dispose, which give up `sc->pipeline` twice more, find it NULL.

The five violated properties have no theorem: they are false.

## 5. What is not modelled, and the plan

Not modelled: webrtc statistics (they log), GStreamer's Android glue, activities, build
files; shaders, the contents of pipelines, SDP and JSON syntax. The buffer probe of
`general.c` returns at its first line for every buffer, the only thing it is installed
for, so nothing of it runs. The desktop programs run a main loop that nothing quits: their
calls of stop are not reached, and what comes before is in `ServerPipeline` and
`ClientApp`. `GLSwapchain` is compiled and not used.

The order of the work was: connection (the most asynchronous object), server, frames,
client application, capture, then the two processes with the activity they share and the
media pipeline. What is left, most important first:

1. `Session`: client and server composed over two channels, against an abstract
   specification of negotiation; the abstract specifications of connection and server
   are the parts such a composition would use.
2. `SignalingList`: the list searched on one thread and changed on another.
3. An abstract specification of the capture service and of the client application, with
   refinement theorems; both have their invariants proved.
4. Two threads inside one `gst_clear_object`, which `Connection` takes as a step.

## 6. Running it

    tlc -workers 2 -config connection.cfg MCConnection
    tlapm ConnectionProofs.tla

and likewise for the other runs (`PROJECT.json`, "runs") and `*Proofs` modules.
