# A verification project for DexFull

DexFull lets an operator with an XR headset drive a Unitree humanoid: its arms,
its hands and its cameras.  One bridge process talks to Unity over a WebSocket
and supervises everything else.  This directory holds TLA+ modules of the
program's own logic, the TLC configurations that check them, and TLAPS proofs of
the results that matter most.  All source paths below are under `src/dexfull/`
unless they begin with `src/`.

    tlc -workers 2 -config ControlChild.cfg MCControlChild.tla    # one run
    tlapm ControlRuntime_proofs.tla                               # one proof module

## 1. The system

    Unity ==ws==> TeleopWebSocketServer --> BridgeController --> ControlRuntime ==pipe==> DexFullControl
                   ^         ^                   |                    |  ^                (child process: XR,
                   |         |                   v                    |  +-- shared VR     IK, arms, hands,
            device loop  DirectStateStreamer  ProcessManager          v      frame         recorder, pump)
                   ^         ^                (health thread)    LatestStateBus                 ^     |
                   |         |                |        |              ^                        ZMQ   Vuer
                   |    LatestStateBus        |        |              |                         |   process
                   +-- status files --- teleimager   brainco -->  DDS collector                 |     |
                                         (cameras) ===============================================    headset

The bridge is one asyncio event loop (`app.py`), plus threads: a monitor per
generation of the control process, the 1 Hz health thread of the process
manager, the DDS callbacks, and worker threads for the long requests `start_xr`,
`stop_xr` and `restart_xr`, which one lock serialises.  `start_teleop`, `pause_teleop`,
`resume_teleop` and the requests for services run on the event loop itself and
do not take that lock.  The shutdown of the application stops the control
process, the hand driver and the services, without taking it either.

The control process has a command thread and a main thread, and beside them a
sampler of the XR input, an IK worker, two threads per arm controller, a loop
per hand controller, the receivers and the pump of the camera images, and
processes of its own: the Vuer server, and the solvers of the BrainCo hands.
The camera service is a process with a supervisor thread per camera, which may own
a capture process, and a publisher thread per port.

| component | state | operations | where it is hard |
|---|---|---|---|
| control process, lifecycle (`control/runtime.py` 60-211, `control/session.py`) | `START`/`STOP`/`PAUSED`/`READY`, `current_state`, pending commands, two events | command thread: receive, wait for the module, apply; main thread: import, set-up, wait, iterate, clean up; `set_state` | two threads write the same flags and the same pipe; `run()` resets what the other thread may have set; the bridge can die |
| supervisor (`ControlRuntime`, `control/runtime.py` 213-578) | state, Process, pipe, monitor, stop flag | start, wait until ready, stop, teleop commands, monitor | request threads, shutdown, event loop and one monitor per generation; stop with time-out and forced termination |
| process manager (`bridge/process_manager.py`) | state, Popen, crash times, retry time, stop flag for each service | start, stop, restart, health check, stop all | the event loop and the health thread share every field without a lock |
| WebSocket server (`bridge/ws_server.py`) | clients, three queues each, stream gates, last frames | connect, requests, broadcast, stream, sender, close | coroutines of many clients; frames replaced while they are taken; responses awaited between a decision and its effect |
| state bus, streamer (`common/state_bus.py`, `bridge/streamer.py`) | last snapshot and sequence number of each channel | publish, clear, next packet | published by threads, read by the loop; cleared under the reader |
| application (`app.py`, `bridge/controller.py`) | running flag, device states, first sightings | stream, state and device loops, dispatch, shutdown | shutdown against requests in progress; transitions withheld until a client is there |
| VR channel (`control/process_channel.py`) | shared frame, sequence number, event | publish, read after, clear | shared memory between processes that come and go; the event is cleared outside the lock |
| XR device (`xr/`) | shared arrays of poses and buttons, shared image, event of new images | event handlers, sampling, render thread, display coroutines | memory written by one process and read by another; headsets that leave and come back |
| IK worker (`control/ik_worker.py`) | one pending target, last result | submit, latest after, drain, close | a newer target replaces a pending one while one is solved; results that come late |
| arms (`control/robots/unitree/arm.py`) | low state, targets, velocity limit, weight | subscribe, publish every 4 ms, set targets, go home | the limit is applied to measurements that are old, joint by joint; a message written by two threads |
| hands (`hand_drivers/*/controller.py`) | input arrays, targets, running flags | wait for the hands, control loop, solver processes, close | a close that times out; a loop that sets its own flag; solvers that fail |
| device status (`common/device_status.py`, device loop of `app.py`) | a status file per camera, recorded states | publish, take a picture, handle each device | files of services that are gone; clients that come and go in between |
| camera service (`imaging/image_server.py`, `*_worker.py`) | state of each camera, capture process, frame buffer, publisher threads | open, start, update, publish, reconnect, shut down | cameras that fail or hang anywhere, a process that holds the device, threads that die |
| image client, pump (`imaging/image_client.py`, `control/image_pump.py`) | two ring buffers, decode queue, last image | request the configuration, receive, decode, read, close | receiver, decoder and readers; a queue looked at twice |
| episode recorder (`control/utils/episode_writer.py`) | queue, availability and save flags | create, add, save, close | the main loop and the writer thread hand over an episode by three flags |
| DDS collector (`bridge/collectors/dds.py`) | last messages, worker | callbacks, loop | sensors that stop; restart |

What makes each of them correct, in a sentence: the control process moves the
arms only between a start and a stop the operator gave, and no stop is lost; the
supervisor has at most one control process and knows when it is gone; a service is
running when it was asked to, is not when it was not, and is restarted at a
bounded rate; a client sees streams that never go back, and control messages are
not held up by them; failures of devices are reported and recovered from; an episode's
file is what was recorded; the other parts deliver the newest value, in order, and
do not act on a stale one after their end.

`PROJECT.json` lists the components that are not modelled, with the reason, and
the hazards of this code, each at its line with the properties that cover it.

## 2. What is modelled

### The bridge and the lifecycle of the control process

**ChildContract** is abstract: what the supervisor may assume of a
control process.  It is starting, then up, then ending, or ends without having
been up; it reports `READY` only when it is up and `RUNNING` or `PAUSED` never
while it is starting.

**ControlChild** is the process in detail: `_control_process_entry`, its command
thread and `ProcessRuntimeHooks`, with `run` and the `request_*` functions of the
session.  `pc` gives the place of each thread; `set_state` is the three steps
it has in the code (assign, read back, send), since two threads call it.  The flags
keep the names of `session.py`.  A fault (import, set-up, iteration, clean-up)
may strike wherever the code could raise, the bridge may die at any time, and the pipe
delivers in order.  The set-up is a step that need not come: it waits for the first low state of the
robot without a time-out, and does not look at the stop (`arm.py` 105-107).  `session.run` is kept down to its lifecycle: one iteration is
sample, solve, command the arm; what a target is does not matter to the
properties and is left out.

**ControlRuntime** is the supervisor, with its caller threads (`rpc`, `shutdown`,
`loop`), one monitor per generation, and for each generation a process that
keeps `ChildContract` (`Child(g) == INSTANCE ChildContract`).  Each section under
`self._lock` is a step, as is each send, receive and join outside it.  So
the two modules meet in the contract: ControlChild implements what ControlRuntime assumes.

**ManagedProcess** is one service under the event loop and the health thread.
A look at a shared field and the write it decides are separate steps, in `start()`, in `stop()` and
in `check_health`, and between any two the threads may interleave.  The process is the leader of a group: it may
have children there, which are signalled with it but end when they like, and which `stop()` does not wait for.  The
operating system may end the process at any time, signals may fail and
clock comparisons (crash window, stable time, cool-down) may go either way.
Services share nothing but the health thread, so one is enough.

**WsServer** is the path of a frame: published on the bus, found by the streamer,
put into the one-place queue of each subscriber, taken by the getter task or at
once by the sender, sent; together with control messages, the requests that
turn streams on and off, and connections that come and go.  Coroutines run on one
event loop, so an action is what a coroutine does between two awaits
that can suspend.  A frame is its sequence number on the bus.

**DeviceStatus** is the health of cameras, hands and services as the operator is
told of it: the status files with the pid of their writer, the states the process
manager shows, the picture the device loop takes each half second, and the
transitions it records, broadcasts or withholds while no client is there.  The
broadcast of each transition is awaited, so clients and services change in between:
the picture is handled key by key (`HandleKey`).

### The control session

**IkPipeline** is what one iteration of the control process consists of: the main loop
submits a target to the `LatestIkWorker`, takes the newest solution and gives it to
the arm controller, whose publish thread sends it every 4 ms; at the end the worker
is closed and the arms are sent home.  Three threads (`main`, `worker`, `publisher`) and the
flags of the operator.  A request, and its solution, is the number the worker gave it;
a section under the worker's or the controller's lock is one step; the condition variable
is modelled with its wait and its notifications.  **LatestValue** is the abstract
exchange it implements: only the newest request is turned to, and results are
used in order, once.

**ArmController** asks where the joints are.  The publish thread copies the targets, reads
each joint from a low state that may be new for each of them, scales the command by the
velocity limit and sends it; the joints move toward the last command; the session sets targets,
holds when a solve fails, and goes home.  The joint tables of the four registered
robots are translated, since a command is addressed by them.  Positions are integers, and the
arithmetic of `clip_arm_q_target` is done on them, cutting off fractions.

**HandControl** has the six hand controllers in one module, `handKind` choosing: BrainCo with
hand tracking (two solver processes and a write thread) and with controllers, Inspire DFX and FTP,
Dex3-1 and Dex1-1.  A turn of the loop ends in two calls of `Write`, one for each hand, in each of which it may be for any time,
and `close` closes the two publishers one after the other, whether the loop has ended or not.  The session writes its arrays part by part, the loop reads them part by part.
A value is the number of the XR frame it comes from, so that what a hand is told can be compared
with what the operator did.

**XrInput** follows a pose from the event of the headset through the shared arrays, the sampler,
the shared frame with its event, and the monitor of the bridge to the bus, over several
generations of the control process whose monitors may outlive them.  **XrDisplay** goes
the other way: from `render_to_xr` through the render thread and the shared image to the
coroutine of each connection of the headset.

**ImageClient** is one camera as the session sees it: the request of the configuration, the
receiver thread, the decode queue, the decoder, the two ring buffers, the readers and
`LatestImagePump`, to the close of all of them.  A packet is its number and whether it holds a frame.
The camera may be silent at any time and for how long ever.

**EpisodeRecorder** is `EpisodeWriter` with the flags of the session: every access to
`is_available`, `need_save` and `stop_worker`, and every operation on the queue, is a step.
An item that fails may have left its separator in the file: what is between the items is counted (`separators`).

### The camera service

**CameraServer** is one camera: its supervisor thread (`_camera_loop`), the capture process with its
queue and status pipe, the five kinds of cameras (isolated process, RealSense, UVC, OpenCV, Isaac Sim),
its publication over ZMQ or WebRTC with the publisher thread, and the shutdown.  The camera may fail at any
time, and a driver may hang in it: a capture process then hangs with it, or, for the kinds that have none, the supervisor
thread itself (`blocked`), which need not come back.  Publishers may fail to start or die.  A frame is the number of the
camera object and a sequence number, so that an old frame can be told from a new one.

### Modules for TLC

`MCControlChild`, `MCControlRuntime`, `MCIkPipeline`, `MCManagedProcess` and `MCWsServer` give
bounds to one module each.  `MCDevices`, `MCHeadset` and `MCRobot` put several components that do not
interact into one run: a behaviour is about the one its variable `focus` names, the others stand still, so the
states add up rather than multiply, and fairness is that of the module in focus.  In `MCDevices` the
status is also checked with one service changing at a time.  `hand_ftp` and `image_receiver` are runs of a
component's own specification.

## 3. What the runs check

| run | checks | bounds |
|---|---|---|
| `child` | a stop applied stays in force; no iteration before a start; at most one target after a pause; the last report is the right one; the contract is implemented; a stop ends the process; an early start is applied, each unless the set-up never returns; a child that still has STARTING to report to a dead bridge never sets the hardware up | 2 commands: every pair of commands, in every order with everything else.  The interesting races are between one or two commands and the main thread; with three the safety properties were checked too and hold (3.2 million states), but not the liveness ones in reasonable time |
| `runtime_shutdown` | one control process; a live process keeps its pipe and Process object; a stop answered means stopped | 2 generations (the second is what a late thread of the first can harm), 1 message in a pipe, requests and shutdown both stopping |
| `runtime_live` | an old monitor writes at most one message; the exit of a process is noticed | 2 generations, one stopper, teleop commands on the event loop |
| `ik_pipeline` | targets from before a resume are bounded; arms that reached home are handed back; the worker is a latest-value exchange; no wake-up is lost; the cleanup ends | 5 requests and one pause: the bound of three needs five (three from before the resume, two more to use them); 1 attempt to go home and 1 weight step: with each, both outcomes of the check and both ends of the release |
| `service` | no process is forgotten; a stop whose request was written while the process lived sticks; restarts are throttled; STOPPED means that the leader is gone and, after a kill, its group; a crash is handled | a limit of 1 restart and 3 processes: enough to pass the limit, cool down and pass it again; one group with children at a time; signals may fail; either setting of `auto_restart` |
| `ws_streams` | control is not crowded out; at most one late frame; a stream never goes back; a taken frame is delivered | 1 client, both streams, 2 frames, 1 broadcast besides the robot states, 3 requests: on, off and on again.  A requeue over a newer frame needs two frames and a control message |
| `devices` | a status file says ONLINE only with the stream, a camera that works again gets there and one that is gone does not stay there, unless a call of the driver hangs in the supervisor; one capture process at a time, frames in order; failures are recorded and recoveries told; no command to a hand begins after close; the last pose is commanded | one camera, one hand, 2 starts of a service, 2 changes of devices, 2 connections: a failure and its recovery, each with clients before and after, and a service whose predecessor left a file.  Camera: 2 failures (one while the first is handled), frames 1, 2 and later, a queue of 2 as in the code.  Hands: the zeros and one pose, 1 exception, which may strike at any place, and a loop in any place of its turn when close gives up on it |
| `headset` | images are not shown out of order, nor more than one after close; a camera that sends again after a silence is displayed up to its last image; poses arrive in order, and the newest does; the image the camera rests on is shown | 2 packets, with any silence before and after each; 2 generations, 2 events, 3 samples (an old monitor with one frame in hand and one more, and a new session's frame); 2 images, 2 connections of the headset |
| `robot` | a finished episode holds its items once, in order, and is well-formed unless an item failed; no joint leaves the span of where it was and where it was asked to go | 2 episodes of up to 3 items, one of which cannot be written; the H1, whose motors are numbered right arm first, and the G1_23, whose tables have a gap, one joint of each arm, positions home and 2, steps of 1 and 2, one target besides home: every mix of old measurements is in it |
| `service_stopped`, `hand_ftp`, `image_receiver` | one statement of the source or its comments each, which the code violates (below) | the smallest bounds with the case in them |

Every property of a passing run has a mutant in `PROJECT.json`: a plausible bug of
the code, as an operator of the module, under which TLC finds the property violated.

Deadlock is not checked (`CHECK_DEADLOCK FALSE`): each of these systems may
come to an end (the process has exited, the application is down, the client is gone,
the recorder is closed), and bounds stop the environment.  That the systems do not stop
halfway is what the liveness properties are for.

### Where code and documentation disagree

Shown by a run:

* `service_stopped`.  A stop of a service that has just died leaves `stop_requested`
  unset: the health thread starts it again.
* `hand_ftp`.  `Inspire_Controller_FTP._send_hand_command` is to "Send scaled angle commands
  [0-1000] to both hands".  The module it takes its messages from is imported inside `__init__`, as a name
  of that function: the first call raises `NameError`, and the control process of the hands
  is gone before it has sent a command.
* `image_receiver`.  The receiver looks whether the decode queue is full and then takes what is
  there.  If the decoder was faster, `get_nowait` raises `queue.Empty`, for which there is no handler but
  those that end the thread: with one badly timed frame, the camera is lost until the session is started anew.

Found with the modules, without a run of their own:

* An old monitor.  `_monitor` promises that an old monitor cannot change the state of
  the new child.  It receives a message, is joined for at most a second, and applies
  it to whatever generation is there.  `StaleWritesBounded` says how far
  this goes: one message.  `VrInOrder` says the same of VR frames: each such monitor
  publishes at most two.
* Ready too early.  A `start_teleop` sent while the component is starting sets
  `RUNNING` in the bridge at once, and the pending start then answers
  `runtime_ready: true`, although nothing is set up.  The child itself does wait (`ImplementsContract`).
* Two stops at once: the first to finish closes the Process object
  the other one is joining, and `ValueError` leaves `stop_component`.
* The shutdown stops the services before the health thread, which
  can start one again in between; and services it finds DEGRADED are passed over.
* The streams are turned on or off after the response has been sent.  With two
  clients the effects can come in the other order than the requests.
* A WebRTC frame may be lost for its successor's sake, the newest one: `send` finds the queue full, the thread
  empties it, and `get_nowait` raises before the new frame is put (`ReplaceFrame`).
* A publisher thread that ended on a socket error stays in the table of its manager: frames
  go nowhere while the camera's status is ONLINE (`PublisherDies`).
* The loops of the Unitree and BrainCo hands look at a ready flag (`xr_motion_data_ready_in`) before they
  command a hand, but no plugin hands them one: without it they take the input as ready, and
  a hand is commanded to the pose of zeros before the first frame.
* In pass-through mode the coroutine of a connection that is gone never ends.
* The documentation of go home speaks of zero torques; the torques of the last solution stay.
* A session that failed can be reported as STOPPED.  The `finally` of the entry point sets the stop event before it takes the
  module away (`runtime.py` 201-204); the command thread may see it in between and apply a stop
  nobody asked for, whose STOPPING overwrites ERROR, and STOPPED follows.  `LastReport` says that without a command this is the only way.
* A stop during the set-up waits with it: while the robot is silent nothing but the bridge's forced
  termination ends the process.
* A child whose bridge dies after STARTING was sent goes on alone, sets the hardware up and
  then waits in the loop, or follows if a start was pending: only the command thread notices, and it merely ends.
* A stop of a service slips also when the process dies after `stop()` has looked at it
  (`process_manager.py` 209) and the health thread takes it for a crash before `stop_requested` is written (216).
* Services get groups of their own so that the whole group can be killed ("创建新进程组，方便 kill 整个组"), but after SIGTERM
  `stop()` polls the leader alone: members that ignore SIGTERM outlive a stop that returns in time.
* "Unavailable cameras will reconnect indefinitely" (`image_server.py` 1574), but a camera without a capture process whose driver blocks
  in a read is neither reported nor reconnected: it stays ONLINE for as long as the call lasts.
* A camera that falls silent leaves its last image: the jpeg is withdrawn, the decoded image
  is not (`image_client.py` 422-424), and the session goes on displaying and recording it (`session.py` 1042, 1275).
* An item that fails in `json.dumps` has already written its separator (`episode_writer.py` 194-196): the
  file is closed in form, but is not JSON.

### Fairness

* ControlChild: weak fairness of the command thread, and of the main thread except of the end of its set-up, which
  waits for the robot without a bound.  `StopEndsProcess` and `StartNotDropped` therefore say "unless the main
  thread stays in its set-up for ever".  An operator, a fault, a command and the death of the bridge are never required.
* IkPipeline: weak fairness of the worker (except of the end of a solve, which may never
  come), of the cleanup and of the publish thread.  The loop need not iterate.
* ControlRuntime: weak fairness of the monitors and of the steps of a caller that
  is in a stop or a send (they have time-outs).  Nothing is asked of the processes: one that was sent a
  stop may be in its set-up for ever, and the join of its stopper times out.
* ManagedProcess: weak fairness of the two threads and of the cool-down: time passes.
* WsServer: weak fairness of each sender and each handler: the event loop runs what can
  go on.  A send to a connection that hangs is assumed to end (the ping of the health loop
  closes it); frames, requests and disconnections are never required.
* DeviceStatus: weak fairness of the device loop, and of the end of a grace period.
* CameraServer: weak fairness of the supervisor and the capture process; neither takes a step while it hangs in
  a driver, and a hung call is not required to return.  An update may find no frame, and the
  loop does not raise as long as the camera works; that one of infinitely many updates finds a frame is the strong
  fairness of that step.  The return of a camera is never required: `CameraRecovers` speaks of cameras that
  have come back to stay.
* HandControl: weak fairness of the constructor once it has what it waits for, of the loop, of each solver and of
  close.  Messages of the hands, input and stops are never required.
* ImageClient, XrInput, XrDisplay: weak fairness of each thread and coroutine, and strong fairness of the
  decoder's `get`: it blocks in the queue, and the receiver, which empties a full queue, does not come first for ever.  Packets,
  events and connections are never required.

## 4. What is proved

TLAPS checks these for all values of the constants that satisfy the named
assumptions (`MaxCommandsAssumption`, `RuntimeAssumption`, `ServiceAssumption`, `WsAssumption`, `PipelineAssumption`,
`CameraAssumption`, `ArmAssumption`, `HandAssumption`, `ClientAssumption`, `XrAssumption`, `DisplayAssumption`,
`DeviceAssumption`, `RecorderAssumption`): any number of commands, generations, clients, frames or messages in a pipe; any of
the sets of callers and states.  Every invariant and every action property that a passing run checks is a theorem.
Besides, five theorems state the *safety half* of a liveness property: that what must
eventually be done is never lost on the way.  These have no run property of their own; TLC checks the
liveness property they belong to.

`ControlChild_proofs`:

* `TypeCorrect`.  Threads only touch their own place; lemmas for going to a place
  and for the three steps of `set_state` carry most of it.
* `StopIsNeverLost`.  `StopNeverLost` is not inductive: between the reset in `run()` and
  the check of the stop event STOP may be FALSE after a stop.  The invariant
  `StopInForce` adds what covers the gap: the stop event is set before STOP is
  requested, and is looked at after the reset.
* `NoEarlyMotion`, from `FollowsAsked`: START is only set by an applied start or resume, which
  `followed` remembers.
* `PauseIsPrompt`, from `OneIterationLeft`: while a pause is in force, the count of
  targets since it plus the iteration in progress is at most one.
* `KeepsItsContract`: step refinement.  `up` is READY, `ending` is the place of the main
  thread after the loop, `report` is the last message.  `KeepsContract` strengthens the
  types with what each phase implies (`Phases`), that the command thread waits while the
  session is starting (`Waits`), and that the state a thread is about to report, in
  each of the three steps and in `current_state`, is one the contract allows (`Says`).
* `LastReportIsTrue`, from `LastWords`.  A session that has not failed: nobody writes ERROR (`Failures`), and
  the STOPPED of its last `set_state` is not overwritten, for the command thread is gone by then (`Farewell`).  One that has:
  without a command the command thread calls `set_state` only for the stop event and does not come back
  from it (`Unasked`), so the main thread alone writes from the handler of the entry point on (`Confession`), unless the
  command thread was quicker than the removal of the module: then STOPPING is what it leaves, and STOPPED what
  the main thread reports (`Overrules`).  No assumption is made on where the command thread is.
* `CommandsAreKept`, the safety half of `StopEndsProcess` and `StartNotDropped`: a stop leaves the pipe only for `stop_event`,
  which nothing clears; the others leave it for `pending_commands`; and a start leaves these only when it is applied
  or a stop takes its place.

`IkPipeline_proofs` (assumption `PipelineAssumption`: any number of requests, pauses,
attempts and weights, either mode):

* `TypeCorrect`.
* `IsLatestValueExchange`: step refinement, from `Ordered`: used, latest, taken and submitted
  requests are in this order, what waits is the newest and what is solved the last one taken.
* `StaleIsBounded`.  The count is not inductive.  `FewLeft` adds what may still come:
  the solution the loop holds, the one not used, the one in progress and the one that waits.
  These are four places, but not all are filled at once (`NeverFour`), since the loop
  submits nothing while it holds a solution.
* `HandedBackAtHome`, from `Release`: the first message of a sleep may be spoilt, and from
  then on every message is good.
* `NoWakeUpIsLost`, the safety half of `RequestIsTaken`: while the worker waits on its condition there is
  neither a request nor a stop for it.

`ControlRuntime_proofs`:

* `TypeCorrect`.
* `OnlyOneProcess` and `Supervised`, from `Owner`: the supervised process is the last
  generation or none, its connection goes with it, every live process is the supervised
  one, and what is disposed of is not.
* `StaleWrites`, from `Late`: a monitor that has applied a message to a later generation
  has none in hand, and its pipe is closed.
* `StopIsFinal` (an action property), from `Owner` and `Taken`: the process a stopper
  took under the lock is the supervised one or disposed of.

`ManagedProcess_proofs`, for any limit of restarts, any number of processes, signals that fail or do not:

* `TypeCorrect`.
* `NoneForgotten` and `StopHolds` (an action property), from `Known`.  No lock is
  held between a look and the step that relies on it, so `Known` says what is still true of the process at each
  place of the two threads as long as no request raced with the health thread on `start()`: only one thread spawns, and
  what it replaces is dead (`Alone`); nothing lives behind a DEGRADED service (`Degraded`), nor after the poll that
  saw it dead (`Judged`); and on the way from there to an automatic start no stop is in force
  that was written while the process lived (`Decided`).  A stop that was written after the process died by itself is not
  covered: that one can be undone, with `stop()`'s poll before the death and its write after it.
  The invariant that is checked, `NoForgottenProcess`, is the fifth part and not inductive without the others.
* `StopEndsGroup` (an action property), from `Known` and `Killed`: between the kill and the return of `stop()` the
  leader is dead and its group empty.  After SIGTERM alone the theorem says of the leader that it is gone, and nothing of
  the other members, since `stop()` does not look at them.
* `RestartsLimited` (an action property), from `Throttled`, which holds also when requests race.

`WsServer_proofs`, for any clients, queue sizes, frames, messages and requests:

* `TypeCorrect`.  The types need the budget: a sequence number is at most what was spent (`Budgeted`).
* `ControlGoesFirst`, from `ControlNext`: once a frame has gone before a control message, the sender turns to its queues
  next, and the control queue is not empty.  It needs to know what connections may have (`Connections`) and what a sender
  may hold, by its place (`Holds`).
* `OneFrameLate`, from `OneLate`: with the stream off, the one late frame is in one of four places, sent, being sent,
  taken, or put back in the queue, and never in two.
* `StreamsInOrder` (an action property), from `BusInOrder` and `WayInOrder`: on the way to a client, seen, being sent, taken and
  waiting frames are in this order, and none is newer than what the event loop keeps to send again (`Behind`).  The difficult
  case is a frame that is kept for new clients and forgotten when the stream is turned off.
* `FramesAreKept` (an action property), the safety half of `TakenFrameDelivered`: a frame on its way is given
  up only for a newer one or when the stream is closed to the client, also when it is put back for a message of
  higher priority.

`Devices_proofs`.  Cameras, for each kind, any number of failures, any length of the queue:

* `CameraTypeCorrect`.
* `StatusIsTrue`, from `Announced`: the thread believes to be online only under ONLINE, an open or starting
  camera is never under it, and the loop leaves a stream without a failure only because the service ends.
* `FramesInOrder` (an action property), from `InOrder`.  `Held`: a process only beside a camera, a frame only of the
  camera that is held.  `Waiting`: what is in the queue of the process is ordered, between the newest frame
  taken and the last one captured.  `Published`: what the publisher has is behind the supervisor.

  Hands, for every controller:

* `NothingAfterClose` (an action property), from `ClosedIsClosed`: when `close` has returned both publishers are
  closed and only a BrainCo controller is concerned.  The loop may be anywhere, also inside a `Write`: that one
  may still arrive, the next does not begin.

  Device status, for any cameras, hands, changes and visits of clients:

* `FailuresStayOnRecord`, the safety half of `ChangesReported`: while clients that were told of a failure are
  there, the failure is on record.  The recovery is then a change that is told, not a first sighting that is not.

`Headset_proofs`.  The image client and the pump, for any readers, packets and interruptions:

* `ClientTypeCorrect`.
* `ImagesInOrder` (an action property), from `Chain`, which orders the camera, the queue, the decoder, the rings and
  the pump, and `LastSink`: after the one image on its way the pump looks at its stop event.

  The poses of the operator, for any number of generations, events and samples:

* `VrFramesInOrder` (an action property), from `Monitors` and `VrWay`.  `Outlives`: a monitor that published
  after its time has one message left at most, because its next check is the last one.  `InHand`: what it has taken is newer
  than what it published.  `VrWay`: each pose on the way from the headset to the bus is at least as
  new as those behind it.  The runs have two generations; the proof shows that the bound of two late frames is one of each
  monitor, however many outlive their session.

  The images shown, for any number of images and any display mode:

* `NoImageIsOverlooked`, the safety half of `LastImageSeen`: while the render thread waits, the shared memory
  holds the image given last or the event is set, because it clears the event before it reads the image.

`Robot_proofs`.  The arms, for any joints of any of the four robots, any positions, steps and targets:

* `NeverOvershoots`.  `InSpan` says it not only of the joints but of everything on the way: targets, the copies the
  publisher took, measurements, commands.  The step that needs arithmetic is `PartOfWay`: the velocity
  limit scales a command by a fraction cut off toward zero, which leaves it between the measured joint
  and its target.  That a span only grows needs the extremes of a set to exist (`ValuesBounded`: at most
  eight joints, so no induction over sets is needed).

  The recorder, for any number of episodes and items and any failures of items:

* `RecorderTypeCorrect`.
* `EpisodesAreWhole`.  `Saving` orders the three flags: a save is asked for and carried out only while no item
  comes and, in the loop, no other episode can begin; and an episode is ended only when the queue is
  empty.  `Partition`: the file, the item in hand and the queue are what was added, in this order.
  `Ended`: a file is ended, or nothing was written to it.  `Separated`: as long as no item failed there is one separator
  before each item but the first.

Only model-checked: the liveness properties, since fairness and ENABLED are out of the prover's reach.  They are
`StopEndsProcess`, `StartNotDropped`, `OrphanNeverSetsUp`, `RequestIsTaken`, `CleanUpEnds`, `ExitNoticed`,
`CrashHandled`, `TakenFrameDelivered`, `ChangesReported`, `CameraRecovers`, `LastPoseCommanded`, `DisplayFollows`,
`NewestVrArrives` and `LastImageSeen`.  The three properties of the runs that expect a violation are false of the code.

`Devices_proofs`, `Headset_proofs` and `Robot_proofs` each extend the modules that the run of the same name composes, and
prove about each of them in turn.

## 5. Abstractions a reader should know

* ControlChild: an iteration may skip its command or quit by the operator's button as the
  code may; the recorder's commands and the keyboard mode are left out, so READY, which
  the recording mode also uses as a flag, means "set up" only.  After the
  death of the bridge the command thread ends without a stop, and a session that
  is set up goes on; the code promises nothing there and no property asks for it.  A command that raises
  (`runtime.py` 171-172) is left out: the `request_*` functions assign flags, and `_send` catches the errors of the pipe.
* ControlRuntime: the heartbeat stall alarm, which is only logged, is not
  modelled; VR frames are forwarded in XrInput.  `is_running()`, which nothing calls, is not either.  The two sides of
  a pipe hold at most `MaxPipe` messages: a process that reports waits.
* IkPipeline: the publish thread goes through its 4 ms cycle at least twice in a sleep of 20 ms
  (`Cycles`); without it a message with weight zero could be the one that is
  spoilt.  Outside motion mode nothing is handed back, and go home may return before
  the publish thread has sent home once.  Its docstring speaks of zero torques; the code
  sets positions only, the torques of the last solution stay.  A pose is as old as the last
  sample of the XR device, whose age no one looks at: the bound is on submitted targets.
  The H1 has no weights; otherwise the five controllers are the same.  The recorder, the
  synchronous fallback (`--sync-ik`) and the statistics are left out, as is
  `request_start`, which resumes as `request_resume` does.
* ManagedProcess: `check_health` polls, judges, writes and decides in steps of their own; a comparison of times and the
  write next to it are one.  `raced` takes the double start out of `NoForgottenProcess` and what follows from it: a request that
  comes through `start()` beside the health thread's can leave two processes.  That half of the hazard has no property, since
  the code does not prevent it.  The children of a group are one set, with or without members.
* WsServer: "Stop pushing" (`UNITY_API.md` 240) is taken from the closing of the gate on: frames between
  the response and the gate are not counted as late.  A frame that is put back may take the place of a newer one
  (`ws_server.py` 650-660): `TakenFrameDelivered` asks that the one put back, or a newer one, is sent, and nothing for
  the one it displaced.
  A frame that is not valid is skipped by choice; robot states are sent with
  any frame by choice (the code: once a second).  A closing handshake is a connection that is
  down.  The `restart_xr`, `start_xr` and `stop_xr` requests and the ping loop are not modelled.
* DeviceStatus: the grace of a first sighting ends at any time; which process a hand's samples come
  from is left out, so a hand is fresh or not; texts of events are left out.  `ChangesReported` is about devices: when a service recovers its state stays in the
  table as CRASHED, so that its second crash is not told.  Two services never change in
  one checked behaviour.
* CameraServer: one camera; a UVC device is not closed when it is given up (the source: closing "may hang forever").  Cameras share the two publisher managers only.  The first-frame
  and read time-outs may elapse whenever the camera does not work, and not while it does.  `_put_latest`
  on a queue between processes may find the last frame not yet in the pipe, and then drop the new one.  The
  decoding that a WebRTC camera of its own process needs may fail, and then there is a frame number less.
* HandControl: retargeting, scaling and smoothing give one target per input.  A daemon process that
  ends with its parent is not closed.  A solver that fails in its construction (`brainco/controller.py` 341-354), before the
  loop whose errors are caught, is not modelled.  Waiting for the first samples has a time-out only where the code has one.
* ImageClient: the ring buffer is its newest entry (its three slots under one lock keep the
  reader's out of the writer's way).  A timestamp that cannot be read, and the frame rates, are left out.
* XrInput: one field of the shared memory, since every field has its own lock and a sample may
  mix events anyway.  A process that is killed is not holding the lock of the shared frame: if it were, the
  next start would wait for it.
* XrDisplay: an image that does not fit ends the render thread; when it does is left open.
* ArmController: a solver's step is one action, the IK worker and the check sum are IkPipeline's.  The joints
  move anywhere between where they are and the last command: the controller of the motors is not overshooting,
  gravity and contact are not there.  The bound on `targets` stops the session, not the publish thread.
* EpisodeRecorder: an item that fails after it is in the file, in the live view (`episode_writer.py` 203), counts as
  written.  The disk may fail under an item or the start of an episode, not under the end of a file.
* Bounds on counters: `afterPause`, `stale`, `late`, `crowd` and `sinkAfterClose` stop counting at 2 or 3, past the
  point where their property fails.

## 6. Plan

Done, in this order: the lifecycle of the control process and its supervisor with their contract; the process
manager; the WebSocket streams; the IK pipeline; then the devices, cameras, hands, images, XR input, arms and recorder.

What would come next:

1. The parent and the child in one module, for the order of the states both of them write.
2. The lifecycle requests of the WebSocket server, the ping loop, and the start that races with the shutdown.
3. The safety halves that are not stated yet: of `LastPoseCommanded` and of `NewestVrArrives` (the newest frame was
   taken or the event is set, as long as no old monitor clears it).

Runs are kept few: the modules of a later component take the place of a run that shows less.

## 7. What is not modelled and why

Inverse kinematics, filters and retargeting compute over reals with external
solvers; only when they end, and what is done with their results, is modelled.  The vendored
retargeting library is third-party.  Message construction, configuration, TLS and the platform
tuning hold no protocol state.  The discovery of cameras, the encoding of images, the signalling of WebRTC and the
timing records of the camera service are formats and drivers.  The native BrainCo service is C++ around a vendor's
library.  The DDS collectors keep the newest sample of each topic behind one lock; what the rest
sees of them, fresh or stale, is in DeviceStatus.  The controller of the H2 is in `arm.py` but no robot
registers it.  `InProcessControlRuntime` is used by tests only.  The tools under
`src/tools`, `src/scripts` and `tools/` are diagnostic.
