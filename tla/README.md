# Verification of the ESP32 robot

TLA+ modules, TLC configurations and TLAPS proofs for the three-controller
robot of this repository: an ESP32-P4 that streams video over WebRTC and turns
MQTT commands into CAN frames, an ESP32 that drives mecanum wheels, and an
ESP32-C3 that points the camera. Janus, Mosquitto and a static page on a gateway
connect the operator.

Every definition is translated from the source; documents are used only for
what is expected of it. `PROJECT.json` names, for each definition, the lines it
stands for, and lists components, runs, mutants, findings, hazards and theorems.

    tlc -workers 2 -config P4Serial.cfg MCP4Session.tla
    tlapm P4SessionProofs.tla

## 1. The system

Paths are under `src/`; `P4/` is `IDF_esp32p4_webrtc/`, `lib/` its `components/`.

| Part | State | Operations | Interacts by | Module |
|---|---|---|---|---|
| Session control: `P4/main/main.c`, `webrtc.c` | `webrtc`, connected flag, retry flags, three timestamps | `start_webrtc`, `stop_webrtc`, command handler, control loop, retry task, network callback, console | unlocked globals; blocking calls into the session object and the bridge | P4Session |
| Command path: `webrtc.c` `send_cmd`, `submodules/robot_canbus/lib` | velocities, send queue of 10, driver queues | `Process*Command`, send task with idle heartbeat, receive task | one CAN identifier for all frames | CommandBus |
| Robot motor controller: `IDF_robot_control/main` | requested, current, configured motion and speed; LED and its timestamp | `HandleControlMessage`, `motor_control_task`, `UpdateLed` | `motor_lock`; an unlocked timestamp | RobotMotor |
| Servo controller: `IDF_esp32c3_servo_control/main` | angles, `output_enabled`, time of the last move | message handler, idle power save | `s_servo_lock` | ServoControl |
| Network and MQTT bridge: `P4/common/network.c`, `P4/main/mqtt_bridge.c` | connected flag, credentials; client, its flags, publisher tasks | station events, start, stop, publish | callback into session control | MqttBridge |
| Session object: `lib/esp_webrtc/src` | run, pause and exit flags of `pc_task`, peer, signaling handle | open, start, enable, stop, close, hang-up | event bits; callbacks both ways | EspWebrtc |
| Signaling: `lib/esp_webrtc/impl`, `P4/main/webrtc_http_server.c` | gateway session, room, resource or event stream; threads | start, send, poll, reload, stop | HTTP; four callbacks into the session object | Signaling, JanusSignaling, AppRtcSignaling, WhipSignaling, HttpSignaling, HttpsClient |
| Media player: `lib/av_render` | streams, threads, queues, pause and flush flags, formats | add stream and data, pause, flush, reset, close, EOS | message and data queues, event bits, `api_lock` | AvRender, VideoPath, AudioPath, AvSync |
| Queues: `lib/media_lib_sal/port/data_queue.c`, `msg_q.c` | rings, users, wake-up flags | send, receive, peek, wake, reset, destroy | mutexes, event bits, one condition | DataQueue, MsgQueue |
| Memory tracing: `lib/media_lib_sal/mem_trace` | table of blocks, totals; ring of slices, file | malloc, realloc, free, start, stop | one mutex, a saving thread | MemTrace, MemHistory |
| Boards and codecs: `lib/codec_board` | the board's section, devices | parse, `init_codec`, `deinit_codec` | I2C and I2S drivers | CodecBoard |
| Web client: `webrtc_public_gateway/web/app.js` | MQTT client, Janus session, subscriber, stall counters | connect, heartbeat, subscribe, recover, close | MQTT topics, Janus | WebClient |

Not modelled: data channels and RTP transformers, the peer connection and DTLS,
the BLE client, the RTSP demo (section 6).

What is hard here:

* the session's globals are shared by seven kinds of tasks without a lock, and
  calls on them block for seconds in HTTP or on one another's tasks;
* four timers (retry, heartbeat timeout, recovery and its cooldown) act on the
  timestamps the commands write;
* a session object is freed while signaling threads and its own tasks run; what
  protects it are event bits, each awaited by one task and set by another;
* signaling threads are told to stop by flags they may have just read;
* the robot's watchdog compares and writes a timestamp outside the lock, and the
  motors must not reverse under power although requests change mid-ramp;
* the CAN helper ignores every result: full queues and lost frames are silent;
* the data queue clears event bits by hand, outside its lock, and lets writers
  fill and readers read in place while the ring moves on;
* the player's threads wait for messages, data, room and bits at once, and each
  call of its owner must find them where it expects them;
* set-up and tear-down with any step failing (boards, codecs, HTTPS buffers);
* the page's callbacks come late: for sessions, handles and clients it has
  already given up.

`PROJECT.json` lists each hazard at its line with the properties that cover it.

## 2. The modules

Two idioms run through them. A task is a list of steps it has left (`todo[t]`):
entering a function replaces a step by the function's own, so that every interleaving
at shared state is a behaviour. And where the code is known not to keep a property in
some order of events, the order is noted in a history variable (`lost`, `crossed`,
`raced`, `late`, `missed` of MCSignaling, `met`, `mixed`, `strange`, `misuse`, `gap`,
`why`, `odd`, `stale`, `rewound`), and the property says what holds in every other;
section 5 lists what these stand for. Operators whose comment begins with `Fault:` are
plausible mistakes, listed as mutants: each breaks the property it is listed with.

**RobotMotor.** One action per locked section: `MotorTick` is a pass of the motor
task, `Handle*` the switch of the CAN handler, `StampMessage` what the handler
does after `motor_unlock`; `UpdateLedCheck`, `UpdateLedStamp`, `UpdateLedStop` are
the pieces of the watchdog that others can come between. Time is ages of the two
timestamps the code compares.

**ServoControl.** The moves under the lock, the duty with the code's integer
divisions, the idle task split at its unlocked look at `output_enabled`.

**P4Session.** `Close` waits until the session's `pc_task` has left its callback, as
`esp_webrtc_close` does; `MqttBridgeStop` waits for the command handler, as
`esp_mqtt_client_stop` does. With `CallsOverlap = FALSE` a call begins only when
no other is under way. With overlap, `crossed` notes, by what the other tasks have
left, which of six orders of two calls has happened.

**CommandBus.** A command becomes a frame, is queued (or not, on a full queue),
transmitted or lost, and handled by both receivers, among heartbeats of every
controller. What receivers do in time, and with the steps and speeds, is left to
RobotMotor and ServoControl.

**DataQueue.** A step is what a thread does from taking `q->lock` to giving it
up; a wait is three steps (the bit is seen, cleared by hand, the lock taken
again). `blocks` is history: offsets and sizes of the blocks sent and not read.

**MsgQueue.** The same for `msg_q.c`: one mutex, one condition that senders and
receivers share. As in `av_render.c` one task owns the queue and the others receive.
Messages are numbered in the order they are sent. A signal of the condition reaches one
of the tasks that sleep on it, whichever; `met` notes when there were several.

**Signaling, SignalingImpl** and the four implementations. `Signaling` is the
abstract specification: when each callback may run, and that none runs outside the
time between the call of start and the return of stop. `SignalingImpl` is their
common frame (threads, the wrapper `esp_peer_signaling.c`), each implementation a
module over it. `MCSignaling` chooses one at the start and checks that it
implements `Signaling` under the mapping `CallThreads <- Threads, inside <- Inside`. The
Janus poll looks at `running`, then asks for up to 10 s, then delivers what came,
whatever stop has done meanwhile; the HTTP task of an ended stream (`old`) has its last
line left while the next one starts.

**EspWebrtc.** Owner, `pc_task`, sending tasks, and two signaling threads that call
back as `Signaling` allows (`CallThreads` are the owner and these two); a record of
settings stands for the three builds. P4Session has the session object as one atomic
close; the handshake is here.

**AvRender.** Owner (with `api_lock`), feeder and the threads ("lanes"), each with
its messages and its data; a configuration tells which lanes have a queue and
which flags are set. Queues are sequences here, since DataQueue and MsgQueue show
that they are. **VideoPath** and **AudioPath** follow one frame: decoder formats,
conversion, buffers, and what the device gets: pictures, and the blank one a render is
closed with, which the display reads in their order. **AvSync** has the clock: which
frames are shown, with the code's unsigned arithmetic.

**HttpsClient** (requests, redirections, bodies in pieces), **MqttBridge** (station
events, callbacks, client and publisher tasks), **CodecBoard** (sections line by
line, set-up with any step failing), **MemTrace** (the table and the allocator
outside its lock), **MemHistory** (slices, saving thread), **WebClient** (callbacks of
the page, and sessions that live on after it has given them up).

`MC*` modules give constants. `MCRobot`, `MCMediaPlayer` and `MCPlatform` put parts that
share no state side by side: a behaviour chooses one. Modules named `*Proofs` hold the
theorems. No module declares a RECURSIVE operator.

## 3. The runs and what they show

| Run | States | Bounds | Shows |
|---|---|---|---|
| `robot` | 0.59 M | either board, or the bus. Motors: two motions, speeds 0..5 with ramp steps 2 and 3 (both overshoot, as 8 and 12 do), delays of one tick. Servos: the real range 0..180, steps 45 and 60, one servo inverted. Bus: go, stop, look up; send queue of 2, receive queue of 1: both fill | powered only in the current direction; no reversal under power; ramp kept; silence noticed within `StopBound`; dark LED means stopped; a standing request is reached. Enabled output stands at the recorded angles; power save only when idle, and in the end flag down and both channels at 0. The last command for each receiver stands unless its frame was lost; a stop that was carried is carried out |
| `stop_sleeps` | violation | the servo board of `robot` | `StopLetsSleep` fails (section 5) |
| `p4_serial` | 3.7 k | two session objects, two retry tasks, heartbeat timeout of 2 ticks; the gateway may refuse | silence stops streaming |
| `p4_overlap` | 1.3 M | commands, network events, console and peer events and two retry tasks overlapping at every step, two session objects, the gateway may refuse; explored while calls have crossed in at most one of the six named ways (`OneCrossing`) | a session a command opened does not outlive a network loss; each crossing breaks only what it is named for: else objects stay owned and are closed once, retry tasks single, the connected flag true, and nothing opens unasked |
| `p4_retry_after_close` | violation | one session, one retry task, overlap | `OpenedOnRequest` fails (section 5) |
| `data_queue` | 0.6 M | ring of 7, heads of 1, payloads 1, 2, 4, 6: a part, most and all of the ring | oldest block first, untouched; a granted buffer is free and stays so; no wakeup lost; `data_queue_wakeup` leaves nobody inside |
| `signaling` | 63 k | four implementations, two starts, signaling queue of 2; two events in an answer to a poll, five ICE servers in one to WHIP (room for 4), two ended HTTP streams with a line left | each implements `Signaling`; uses of freed or unmade objects only in six named windows; stop returns, or keeps coming back to a wait that one of four named orders has left without an answer |
| `session_object` | 0.44 M | three builds, two senders, three calls of the owner, one message of the peer | the stream ends before its peer connection; the object is freed when nobody works on it; close and hang-ups get the bits they wait for but for named crossings |
| `media_player` | 0.44 M | nine configurations, queues of 2, two frames, two calls; message ring of 2, four messages, two receivers and the owner; 12 decoders and displays; sound formats mono and stereo, two widths and rates | queues outlive their threads but for two named orders; a flush leaves nothing; calls return; the end is reported; pictures and sound have the device's format; messages in order, and the ends of waits return but for two named orders |
| `two_rounds` | violation | as `media_player`, audio only, a stream added anew | `TwoRoundsSuffice` fails (section 5) |
| `platform` | 1.8 M | seven boards of which three are faulty, for both directions, one or none; two tasks and three addresses; slices of 2 units; three network changes; two links, two sessions and three handles of the page; bodies of 3 units, two redirections; times modulo 16, streams from 0, 2 and 14, the last over the end of the clock, one flush | boards, tables, history file, bridge, page, HTTPS bodies and pictures are what their users take them for, outside named gaps |
| `web_stalls` | violation, 39 k | as `platform` | `StallsEscalate` fails (section 5) |

Bounds are named in the modules. None of the properties counts beyond them: queues
of two show first, last and full; two objects show a leaked or reused one; a tick
past a timeout is like any later tick.

`p4_overlap` leaves the main task out: its heartbeat timeout and recovery are calls
of `stop_webrtc` and `start_webrtc` like the others', and without it nobody reads the
ages, which is what the view of that run uses. Its three properties are theorems
(section 4), with the main task and without a bound on the crossings. Symmetry is used
in that run only; it checks no liveness. In `p4_serial`, which has the main task, the
console only stops sessions: one it starts has no heartbeat and is by design never
timed out. Peers do not fail there, since a failing peer makes `pc_task` wait for
itself (section 5).

Deadlock is checked in `robot` and `stop_sleeps`. Elsewhere behaviours
may end, in the code too: calls are used up, a freed object is not used again, or
one of the waits of section 5 lasts for ever.

### Fairness

* `RobotMotor`: motor task, watchdog and the handler's last step run; frames need not
  come. FreeRTOS runs every ready task of these priorities.
* `ServoControl`: the idle task runs.
* `P4Session`: every task that has a step takes it. Strong fairness for the main
  and retry tasks, which without overlap wait their turn, and for the clock.
* `CommandBus`: send and receive tasks run, senders need not; a transmission may fail
  each time.
* `DataQueue`, `MsgQueue`: the reader reads on and gives back, a writer sends what it
  got a buffer for, a task in a call goes on. New calls need not come.
* `MCSignaling`, `EspWebrtc`, `AvRender`: each thread that has a step is run
  (weak fairness per thread, never per action), and each request ends in an answer or
  a timeout. Nobody is obliged to call, to post or to listen.
* `MCPlatform` checks no liveness and assumes none.

## 4. What is proved

TLAPS checks the following for every value of the constants that satisfies the
modules' named assumptions: ranges of numbers, finite sets, names that differ; in
`MCPlatform` that no client, session or handle is called 0, which stands for none, that
rings and slices have room, and that a board is a sequence of lines that name ports by
number, none of I2S negative; in `EspWebrtc` who its calling threads are. Bounds on
calls, frames, messages and tasks are constants like the others: a theorem holds for
whatever they are.

| Module | Theorems | Argument |
|---|---|---|
| RobotProofs | `PoweredDirection`, `NoReversal`, `SlewIsLimited`, `SilenceIsNoticed`, `DarkIsStopped`, `TypeCorrect` | `MotorInv` adds that the duty is `current_speed_`, that a stop is asked for with speed 0 and that a stopped motion has none; `RampStep` bounds a pass. `WatchdogInv` relates the silence of the bus to the age of the timestamp and to how far the watchdog has got: each of its three pieces may be delayed once, hence `StopBound`. `DarkMeansStopped` is inductive as it stands |
| | `EnabledHoldsAngles`, `PowerSaveIsSafe`, `ServoTypeCorrect` | types and `EnabledAtAngles`, inductive together |
| P4SessionProofs | `CommandSessionsEnd` | `LossInv`: stages of the system event task after a network loss. Past `mqtt_bridge_stop` the MQTT task is out of its handler and stays out, so what `stop_webrtc` finds is the last session a command has opened. Holds for every set of callers, the timers included, whatever overlaps |
| | `SessionsStayKept`, `OnlyCrossingsOpenUnasked` | `KeptInv`, for every overlap. The steps a task has left stand in the order of each call (`After` tells which may follow which). A session is `webrtc`'s, or one task holds it and will close it, and who has yet to clear `webrtc` holds what it points to (`OneOwner`); a retry task has raised its flag once it has begun (`OneRetry`); whoever may clear `webrtc` has lowered the connected flag (`Flagged`); what nobody wants is not started and, where it runs, about to be stopped (`Unwanted`). Each part stands until calls cross in the ways named for it, whatever else has crossed |
| EspWebrtcProofs | `SessionStaysOrderly`, `StreamsEndFirst`, `FreedIsLeftAlone` | `RtcInv`, for behaviours in which no two tasks have crossed (`raced`): the steps left to a task follow each other in the order of each call; one task at a time closes, and past `wait_exit` `pc_task` is gone; `pc_task` has its peer, event group and flag, or somebody waits for its EXIT; the streaming task likewise; the memory goes once the signaling is idle. The two properties follow |
| SignalingProofs | `ImplementationsKeepTheContract`, `OnlyKnownLateUses` | refinement, for any number of answers, events, servers and streams: each start of an implementation is a start of `Signaling`, each of its steps a step or a stutter. `SigInv` says which steps of its threads go together and which field of the object tells one that another is gone, so that stop returns with nobody in a callback, a Janus poll begun before it included, and who may still meet a freed or unmade object |
| MediaPlayerProofs | `DrawnStaysWhole` | `VideoInv`: decoder, converter and display agree on formats while the decoder is open; each step of a frame's way has its format and its buffer from the step before, and the buffer written next is not the one drawn, over the blank pictures of streams that end too, but behind a blank one that is unfinished (`mixed`) |
| | `PlayedStaysAsAsked` | `AudioInv`: what is delivered and queued has the format the render was opened with; a frame under conversion has an operation left for each side in which it still differs |
| | `MessagesKeepOrder` | `MsgInv`: the ring holds the last `filled` messages, later than those received; the reset flag stands only over an empty ring or while the owner is ending waits, so that a full ring is never overwritten; `q->user` counts the tasks that wait, however many; a freed queue has none. Ring positions by arithmetic modulo `number` |
| | `ThreadsEndBeforeQueues` | `AvInv`, while nothing is `raced` by a quit or a restart: the steps a reset has left, counted from its end; in the first round each thread that was told is awaited, and the audio render, which a decoder may start, runs only while some thread is awaited; in the second only it can run, and it is awaited. A thread is told once, and its bit is set by its end alone |
| | `FlushesLeaveNothing` | `FlushInv`, while nothing is `raced`: the steps a flush has left, counted from its end; a lane that was told has no old block or has the message that takes them, which is its last, and its bit is set after. A decoder is awaited before its render is told, so that none puts an old block behind the message; a thread that has ended left nothing old |
| CommandBusProofs | `CommandsStand` | `BusInv` follows the last frame for a receiver along its line: in the send queue, else in the driver's, else carried out. Lemmas say what appending and taking frames do to the last one |
| DataQueueProofs | `NobodyIsLeft` | `q->user` is never less than the threads inside, and a wakeup's quit flag keeps everyone else out |
| | `OldestIsRead`, `GrantsAreFree` | `RingInv`: with the offsets of the second lap counted on from `fill_end`, the unread blocks follow one another from `rp` to the end of the data, each with its size in its head; the gap behind them is what a writer holds, and a turn at the end moves no block. The loops of `data_queue_query` and `data_queue_consume_all` pass these blocks one by one: induction over the number of turns (`NatSet`) |
| PlatformProofs | `WantedFramesShown` | while the stream does not go back, which it does at the end of the clock, the queue is in order and before what is still to be decoded, and the start is either not after the wanted position or before everything to come |
| | `CallersGetTheAnswer` | the buffer is filled to its length and equals the answer so far, unless a piece found no memory; a size without data is left only by an earlier body |
| | `BridgeStaysWhole` | `BridgeInv`: which client is alive and runs at each step of the event task; the connected flag is up for a bridge that is started or about to clear it; one publisher is busy |
| | `FileStaysWhole` | `HisInv`: the file ends where the full slices begin, and these where the open one does; the saving thread writes the oldest, and leaves when it is told to and has seen none left. Once a slice was passed over between its two looks (`slice`), nobody writes the ring any more, and file, slice and open slice are in order with a hole between |
| | `TableStaysTrue` | `TraceInv`, until one of the named gaps is met: a block between two states belongs to one task; no two tasks have left the same address and not yet traced it; the table has each recorded block once, with its size, but for an address that was left and is not retraced. Its total is a sum over the entries; what appending an entry and closing the gap of one do to it goes by induction (`NatSet`) |
| | `PageStaysWhole` | `WebInv`: an online page beats; one that has a session cannot connect, and no other session lives; a subscriber that is on in a live session is the page's |
| | `BoardStaysWhole`, for any boards | `BoardInv`: what the steps left of a plan will still do. While `init_codec` builds, a codec's port is kept or to be set up, with its channel unless a recording hides that of the playback on its port, and what is to be built is not there and comes once, by the order `Rank` of the objects; while `deinit_codec` deletes, each object that lives has its turn |

But for invariants and types, each of these is a property a run checks on a small
instance; the invariants themselves were model-checked on such instances before they
were proved.

Model-checked only: liveness, which is beyond the prover.

## 5. Where code and documents disagree, and gaps the properties name

With a run that ends in a counterexample:

* `p4_retry_after_close`: a retry task inside `start_webrtc` opens a session after
  `CLOSE_WEBRTC` has found none, although "Start WebRTC only on explicit client
  request" (`MQTT_WEBRTC_CONTROL_FLOW.md:8`).
* `stop_sleeps`: a `SERVO_STOP` after the power save drives both servos and leaves
  `output_enabled` false, so that the idle task passes the head by and it holds torque
  until it is moved, although the handler says "Keep output enabled briefly; idle task
  will power-save after timeout." (`servo_control.c:216`).
* `two_rounds`: `av_render_reset` runs its wait twice "to avoid render thread creating
  during closing" (`av_render.c:2080`), but a decoder that starts the audio render's thread
  anew after the old one has answered the first round leaves one that neither round
  awaits, and its queues are freed under it (`restarted` in `raced`).
* `web_stalls`: a re-subscription resets the count of stalls (`app.js:266`, cleanup and
  new track), so that a third one never escalates to `CLOSE_WEBRTC`
  (`MQTT_WEBRTC_CONTROL_FLOW.md:94-95`).

Seen while modelling. Where a property has to live with it, the history variable
that excludes it is named.

*Session control.* On a lost peer `webrtc_event_handler` calls `esp_webrtc_close` in
`pc_task`, which waits for `pc_task` (`webrtc.c:603`; with `PeerMayFail = TRUE` in
`P4Serial.cfg`, `SilenceStopsStreaming` fails). Calls overlap without a lock, and
cross in six ways (`crossed`): a session is taken by two tasks, and closed twice
(`taken`); one is stored over another, which nobody closes (`opened`); two retry tasks
are made before the first has raised its flag (`scheduled`); CONNECTED of a session
that is being closed raises the connected flag (`reported`); a stop comes while
another task starts a session (`stopped`), or a start begins before the stop has
cleared what it reads (`begun`), and a session nobody asks for is opened. A recovery
that overlaps a network loss starts a session with no heartbeat, never timed out
(`main.c:307`). Heartbeats renew the time the recovery is counted from, so that a
stuck session is not restarted while a client is there (`main.c:240`). `ROBOT_SPEED`
over MQTT never becomes a frame (`webrtc.c:617`).

*Controllers.* `UpdateLed` does not compare again under the lock and may cancel a
command handled in between (`control_callback.c:391`). Idle heartbeat and watchdog are
both 1000 ms, and all controllers send heartbeats: a held button may be cancelled by
jitter, and a robot whose P4 has died is kept going by the servo controller.

*Session object* (`raced`): streams started late, a second stop, a renewal, a late
start, a second close and a resume may each cross a wait for an event bit.

*Signaling* (`Windows`): the Janus thread unlocks a semaphore that may be destroyed;
AppRTC's websocket and reload tasks use `wss_client` before it is set, the latter
after it is destroyed; the HTTP server serves before `sig_cfg` is copied, and a
listener meets a deleted queue; WHIP tests for more than `MAX_SERVER_SUPPORT` ICE
servers before it stores one, so that one too many is written past the array
(`whip_signaling.c:144`). Stop waits for ever (`missed`) when a listener is marked
without a task (`no_task`), when one comes while stop waits for the one before it
(`came`) or has its order to stop wiped out by the end of that one's task (`cleared`),
and when the reload task is marked after its end (`unmarked`).

*HTTPS client.* A retried request keeps the size of a freed buffer: the next answer is
written to NULL when it fits (`stale`). After a failed `realloc` the rest of a body is
taken for its beginning (`starved`). A redirection's body reaches the caller too, a
status of 400 or more returns ok, and redirections need a header callback, which only
WHIP gives. A relative location leaks a string.

*Queues.* A block as large as the data queue is granted and then stops the program in
`data_queue_consume_all`; `data_queue_read_unlock` without data keeps its use. The
message queue signals one of those that wait (`met`): with two of them the wake-up or
the destruction may reach the wrong one and never return (`crowd`), and a receiver
that waits again at once keeps wake-up and reset waiting (`again`).

*Player* (`raced`). A flush of a render without a thread waits for no bits; by the
owner it is a second reader of the queue; with two render threads the audio's flush
bit stays. `quit_when_eos` leaves a close bit behind; `paused` is kept over a new
stream after EOS; with `pause_on_first_frame` and no render thread a video goes on
when its decoder is resumed and a sound does not; adding a stream while the render is
paused and full hangs with `api_lock`; a paused render with PCM or without a queue
holds its feeder; a threshold never plays the tail. An EOS of video without data is
not reported.

*Pictures and sound.* Frames with a bad header leak 64 bytes; a refused draw leaves
`drawing` set; a decoder that puts out YUV422 first makes `convert_color` write to
address 0; the colour table takes `y0` for the `u` bits; single buffers tear. A render
that is closed draws a blank picture without setting `drawing` or changing buffers, so
that the end of that picture is taken for the next one's (`mixed`). A decoder whose
first frame is empty has the render opened with the announced format, and a new stream
opens it anew over frames still queued (`why`). A second resampled stream leaks the
first resampler; an inner `ret` hides the errors of I2S writes; the speed change
repeats samples. The result of the decoder's skip is not used (`if (1 || skip ==
false)`); resynchronising overwrites the application's start, which hides frames of a
stream that goes back until it has caught up (`rewound`).

*Memory tracing.* A freed address may be given to another task before it is struck
off, and a `realloc` that fails untraces a live block (`misuse`); the copy in
`remove_trace_item` leaves the stack frames out; at the size limit an item is written
to address 0. A stop of the history before its thread has run, or within a record,
frees the ring in use (`record`, `unborn` in `gap`); a slice that is filled, and a
stop, between the thread's unlocked looks at the count (`media_lib_mem_his.c:129`) and
at `stopping` (143) are not written (`slice`). Records are dropped after five looks
for a free slice.

*Boards.* After a failed `get_codec_section` the pointer is kept and freed twice;
`port > num` is off by one. An I2S port whose set-up has failed is kept, and the
result of its recording overwrites that of its playback, so that `init_codec` may
succeed with a playback that has no channel; with no direction to set up it is kept
without any (`codec_init.c:175`). A failed `init_codec` that is repeated leaks
(`strange`). LCD pins before `bus` are ignored.

*Bridge* (`strange`). A publisher caught between reading `s_client` and using it, or
one that sees the flag of a client which connected while it was being stopped,
publishes on a destroyed client; a start within the publisher's 2 s sleep leaves two
publishers (`renewed`); new credentials clear the connected flag without the callback
being told (`reconfigured`). Credentials stored on GOT_IP are those set by then.

*Page* (`odd`). A session destroyed before it was created lives on; the late close of
the last client ends the heartbeat of the new one; two listings answered meanwhile
subscribe twice.

## 6. What is not modelled

* Data channels and RTP transformers: the data thread runs only with
  `DATA_CHANNEL_STRESS_TEST`, which is false. The transformers are enabled by a
  "customized" message (`door_bell_on_cmd`, `webrtc.c:296`), which the HTTP signaling
  delivers (`webrtc_http_server.c:212`) and Janus, which the P4 is built with, does not;
  they scramble frames in place and touch none of the state modelled here.
* Peer connection, ICE, DTLS and SRTP: a binary library and mbedTLS. EspWebrtc has
  the states the library reports as its environment.
* BLE: its set-up is commented out in `main.c`. RTSP: a program apart, around a
  library that is not in the repository.
* Of modelled parts: data pools, dumping, setters and queries of the player; LCD, SD
  card, camera and expander drivers, and the set-up in `media_sys.c`; FreeRTOS, socket
  and TLS wrappers, which pass their arguments on; provisioning over HTTP; the
  page's buttons and slider; JSON and SDP text; the layout of frames beyond type
  and value; logging and status texts.
* Failures the code answers by aborting: I2C of the controllers, allocation at start.
* One clock for bus and watchdog: CommandBus has no time and RobotMotor takes frames
  whenever they come, so which of the two equal periods of 1000 ms ends first is left
  open. It is the one hazard without a property.

Drivers (TWAI, LEDC, expander, event groups), `janus.js`, `mqtt.js`, the WiFi driver and
the ESP HTTP and MQTT clients are external and appear as the code uses them.
