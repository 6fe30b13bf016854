# Formal models of the ROS 2 agent example

This directory holds TLA+ models of the program in `src/`, the TLC runs that check
them on small instances, and proofs, checked by TLAPS, that some of their properties
hold for every instance. Paths below are relative to `src/`; `SERVER` stands for
`server/src/ros2_agent_server/ros2_agent_server`.

    tlc -workers 2 -config MCRobotBridgePlans.cfg MCRobotBridge.tla
    tlapm RobotBridgeSafety.tla

## 1. The system

An agent process drives a language model session and turns its tool calls into HTTP
requests. A server process answers them: a gateway hands every request to a ROS 2
node, the *robot bridge*, which holds the plans and admits motions, and the bridge
drives a *primitive driver*, the node a hardware integrator completes with hooks.

    model session -> event bus -> tool calls -> embodiment -> HTTP -> gateway
      -> robot bridge (plans, admission, sequencer) -> primitive driver -> hooks

### 1.1 Inventory

**Robot bridge** (`SERVER/robot_node.py`, `sequencer.py`, `pixels.py`, `motion.py`).
*State*: `_motion_busy`, `_motion_uncertain`, `_recovery_required`, `_all_stopped`,
`_generation`, `_active_arm_ids`, `_coupled_arm_ids`, `_closing`, the pending waits,
the plans (at most 32) with their states and target arms. *Operations*: create, refine,
execute (approach, pick, place), verify, move, gripper, recover, stop; telemetry,
calibration and clock callbacks; the 20 ms timer; shutdown. *Interaction*: one executor
thread; a request suspends at the driver's reply, at the wait for a stationary state
and at the reply to a stop, and any other request or callback runs meanwhile.
*Hard*: replies that are lost, late or malformed; a stop during anything; a stop
during a stop; what each failure may leave behind in six flags and the plan table.
*Correct when*: one motion runs at a time; a motion starts only when no arm may still
be moving; only the newest stop lifts the uncertainty; one plan lives while something
is held; nothing held is forgotten; a stop covers the group; every request is answered.

**Primitive driver** (`SERVER/primitive_driver.py`). *State*: the reserved sequence and
its index, the replay history (256), the stop epoch, `busy`, the number of stops in
progress, `active_ids`, the contexts of calls in progress. *Operations*: prepare, the
steps (move, gripper, recover), stop. *Interaction*: ROS service calls, each suspended
at one hook. *Hard*: a stop is admitted at any time and its hook runs beside the hook
it interrupts; hooks return in any order, fail or raise. *Correct when*: hooks of
primitives run alone, a stop covers every arm of the group that may move, an
interrupted call fails, steps run in order, and the bookkeeping always recovers.

**Telemetry, cameras, captures** (`robot_node.py` 103-297, `state.py`, `pixels.py`
capture, `completion.py`). *State*: last state and history of every arm, camera frames,
depth images, calibrations, pending captures. *Hard*: images out of order, old images,
clock rollback, calibration change while a capture waits. *Correct when*: a capture
pairs images taken after its request, and a settled state is one measured afterwards.

**HTTP gateway** (`SERVER/gateway.py`, `api.py`). *State*: the futures of requests in
flight, one on the ROS thread and one on the HTTP loop. *Hard*: the timeout on one
thread against the completion on the other. *Correct when*: every request is answered
and an abandoned one is forgotten.

**Runtime** (`SERVER/runtime.py`): starts one executor thread; on exit calls
`close_pending`, waits for the requests and stops the thread.

**Validation and geometry** (`protocol.py`, `workflow.py`, `models.py`, `numerics.py`,
`ros_names.py`, part of `motion.py` and `pixels.py`): stateless.

**Agent embodiment and manipulation** (`agent/embodiment/ros2/ros2_embodiment.py`,
`manipulation.py`). *State*: the action lock, the stop generation, `_motion_active`,
`session_lost`, `task_result`, the observation and scene revisions; the client's copy of
the plans, the inspections, the recovery budget, `needs_recovery`, its own generation.
*Operations*: the tools of the model. *Hard*: `stop` bypasses the lock, so a tool may
be interrupted at each of its awaits; a result may arrive after the stop; evidence may
be replaced or invalidated while it is delivered. *Correct when*: results from before a
stop are discarded, a task never finishes successfully with unresolved failures or stale
observations, evidence is used once, and no motion follows an unresolved failure.

**Live session** (`live_session.py`, `agent/session_manager.py`, `live_api_client.py`,
`bounded_io.py`). *State*: the stream and its lock, known call IDs, results sent,
heartbeat bookkeeping, reconnection count. *Hard*: callbacks on a worker thread, loss of
the session in the middle of a delivery, images and responses that must not interleave;
the stream ends again while an earlier loss is handled; the session is closed at any await.
*Correct when*: a lost stream is replaced or the session ends, a text is sent with its frame or its
failure is reported, nothing goes on after the end.

**Event bus and handlers** (`agent/core`). *State*: the event queue and the running handler
tasks; the speaking counter and the active speech; the count of blocking tools and the
sit authorization. *Hard*: each event is handled by a task of its own, so handlers overlap
and overtake each other; cancellation at any await. *Correct when*: the speaking flag is set
while a background speech is under way, at most one is, the flag that holds the heartbeat back is set
exactly while a blocking tool runs, and the robot sits once per request to sit (which the code does not keep: section 8).

**Application watchdog** (`agent/run_ros2.py`): deadline, idle timeout and loss of the
session; stops the robot before cleaning up.

**Camera pollers, reasoning client, robot client, configuration**: periodic image work
and stateless requests.

### 1.2 Modules

| module | what it is |
|---|---|
| `RobotBridge` | the bridge's motion admission, sequencer, stops and plans |
| `MotionAuthority` | the abstract specification `RobotBridge` implements |
| `MCRobotBridge` | the symmetry set for TLC |
| `RobotBridgeProofs` | theorems about `RobotBridge`: types, tasks, plans |
| `RobotBridgeSafety` | the same: quiet arms, held objects, the refinement |
| `PrimitiveDriver` | the driver adapter's service handler |
| `MCPrimitiveDriver` | the symmetry set for TLC |
| `PrimitiveDriverProofs` | theorems about `PrimitiveDriver` |
| `AgentEmbodiment` | the agent's tools, interruption, plans and evidence, delivery of images and answers, the application's end |
| `MCAgentEmbodiment` | the symmetry set for TLC |
| `AgentEmbodimentProofs` | type correctness of `AgentEmbodiment` |
| `AgentEmbodimentSafety` | its inductive invariants and the safety theorems |
| `Telemetry` | clocks, measured arm states, the wait for a settled state |
| `Captures` | images, calibrations and the requests that wait for them; extends `Telemetry` |
| `CaptureService` | the HTTP gateway composed with `Captures` |
| `Speech` | the event bus, routing of model responses, background speech, audio buffer |
| `ToolCalls` | concurrent tool calls, the blocking flag, authorization to sit |
| `LiveSession` | the session around `ToolCalls`: stream, reconnection, heartbeats, user text, clean-up |
| `MCCaptureService`, `MCSpeech`, `MCLiveSession` | the instances TLC explores |
| `CaptureServiceProofs`, `SpeechProofs`, `LiveSessionProofs` | theorems about them |

### 1.3 Plan

The most important behaviour came first: motion (sections 2 to 4), then the evidence it is
judged by (section 5), then the session that carries it (sections 6 and 7). Every safety property
that a run checks is now a theorem. Still planned, in this order:

1. `BridgeDriver`: the bridge composed with the driver over a lossy service channel; the bridge's
   history variables become the driver's hooks.
2. `CompletionMonitor` (`completion.py`), as a recursive function over samples.

## 2. RobotBridge

**Atomicity.** `runtime.py` spins both nodes on one `SingleThreadedExecutor` ("a single
executor thread keeps subscriptions and stop requests responsive"), so the code between
two awaits is one action. A *task* is a request that suspends; `pc` says where.

| code | model |
|---|---|
| `_motion_busy`, `_motion_uncertain`, `_recovery_required`, `_all_stopped`, `_generation`, `_active_arm_ids`, `_coupled_arm_ids`, `_closing` | `busy`, `uncertain`, `recovery`, `allStopped`, `generation`, `active`, `coupled`, `closing` |
| `PixelPlans.plans`, its insertion order | `plan`, `order` |
| local variables of a suspended `_workflow` (`operation`, `arm_ids`, `generation`, `plan`, `was_uncertain`) | `job[t]` |
| position inside `sequencer.execute`, `_wait_state`, `_command` | `pc[t]`, `step[t]` |
| `create_plan`, `verify_grasp` | `Create`, `Verify` (never suspend) |
| `execute_plan`, `move`/`gripper`, `recover_arms` up to the first await | `ExecutePlan`, `Manual`, `Recover`, which end in `Begin` |
| a driver reply in `send` | `DriverReply`, `CommandTimeout` |
| `_wait_state` and `_check_health` after a step, and after the last one | `Settled`, `SettleTimeout`; `FinalState`, `FinalTimeout` |
| the sequencer's own stop | `Fail`, `HaltReply`, `HaltTimeout` |
| the `except`/`finally` of `_workflow` | `Finish`, `Complete` |
| `/v1/stop` | `StopRequest` (widening in `Expand`), `StopReply`, `StopTimeout` |
| `_invalidate_geometry` (calibration change, clock rollback) | `InvalidateGeometry` |
| `close_pending` | `ClosePending` |

*Abstractions.* Deadlines and health tests may go either way wherever the code makes
them. A driver reply is `confirmed`, `refused`, `unknown` (5xx, outcome unknown, or an
incomplete confirmation) or `malformed` (`completed_arm_ids` that `sorted` rejects).
Images, captures and geometry are left out, so a plan may be verified whenever its state
and arms allow it. `refine_plan` changes only coordinates and is not modelled. A plan's
targets are a set of arms. A closing bridge sends nothing and its waits end as by the timer.

*History variables*, which no guard reads: `restless`, the arms a primitive was sent to
and that have neither been measured stationary nor confirmed stopped; `haltTried`, the
arms a stop was attempted for since their last primitive; `gripping`, the arms a pick
may have closed on an object, until a confirmed place or recovery.

### 2.1 What is checked

| run | shows |
|---|---|
| `MCRobotBridgePlans` | `TypeOK`; `OneMotion`: motions never interleave; `HeldExclusive`: one live plan while something is held or executed; `GripAccounted`: a held object is covered by a live plan or recovery is insisted on; `FreeMeansQuiet`: a motion is admissible only when all arms are quiet; `NewestStopGates`; `AllStoppedMeansQuiet`; `StopCoversGroup`: a partial stop covers the arms that hold an object together, also once their plan is invalid; `ImplementsAuthority` |
| `MCRobotBridgeLive` | `EveryRequestAnswered` |
| `MCRobotBridgeFailureStop` | a divergence of section 8 |

*Bounds.* Two arms are a group and its proper parts. Three plan names with a table of two reach eviction and
the competition of two plans. Three tasks are a motion, a stop and a newer stop; `MaxGen` interruptions of 2
let an interruption be interrupted. Larger instances (three arms, three interruptions) are left to
the proofs, which hold for every instance. `MaxGen` is the only bound that is not in the code. Deadlock is
checked in every run.

*Fairness.* `FairSpec` assumes weak fairness of `Expire`, the 20 ms timer on steady time
(`robot_node.py` 99-101), and nothing else: neither the driver nor the telemetry need
ever answer. Every wait carries a deadline, so the timer eventually ends it.

*Refinement.* `MotionAuthority` has one authority to move (free, driving, draining,
blocked) and a set of restless arms. `AuthorityHeld` reads it off the flags:
*blocked* when the outcome is unknown or recovery is owed, *free* when a motion would be
admitted, *driving* when the admitted motion's generation is current, *draining* when it
was interrupted but the interruption has already been settled. `ImplementsAuthority`
says that every step of the bridge is one of the abstract steps or changes nothing there.

### 2.2 What is proved

For every finite or infinite set of arms, plans and tasks, every table size and every
`MaxGen`, from `ConstantsAssumption` only:

* `TypeCorrect` (`RobotBridgeProofs`): `Spec => []TypeOK`.
* `SingleMotion`, `NewestStopHolds` (`RobotBridgeProofs`), from the inductive `TaskInv`. That
  the newest stop keeps `uncertain` set is not inductive: a current motion may clear it. The
  strengthening says that no task is ahead of the generation (`GenBounded`), that no two
  stops share one (`StopsDistinct`), and that a motion and a stop are never both of the
  present generation (`StopInterrupts`), so whoever clears it is not the motion.
* `HeldPlanIsAlone` (`RobotBridgeProofs`), from `PlanInv`: an executing plan is the plan of the
  one suspended motion (`ExecutingHasMotion`), and a current motion's plan is still executing
  (`LiveMotionExecutes`), so its completion turns no invalid plan into a held one.
* `AdmissionIsQuiet`, `AllStoppedIsQuiet` (`RobotBridgeSafety`), from `QuietInv`. Neither is
  inductive. While a current motion runs, every restless arm is one of its arms, nothing is
  uncertain and no all-arm stop is on record (`DriverOwnsRestless`); its last wait begins with
  everything quiet (`FinalQuiet`); a stop that remembers no uncertainty found everything
  quiet, or recovery already due (`StopRemembers`); and a motion that was interrupted, and whose
  interruption was then settled, finds everything quiet (`DrainQuiet`).
* `GripIsAccounted`, `StopsCoverGroups` (`RobotBridgeSafety`), from `GripInv`. That a held object has
  a live plan or a recovery is not inductive either: a motion ends it in several steps. Once recovery is
  due, all arms are recorded as stopped or a current stop is unanswered, no plan is held any
  more (`DroppedPlan`); the arms of a motion's plan are its own and, if several, the remembered group; an
  approach starts with empty grippers and no other plan holds anything (`MotionGrip`). Arms that hold an
  object together are the remembered group (`GroupRemembered`), which is why `StopRequest` can widen a
  partial stop to all of them when the plan is no longer there to name them.
* `BridgeImplementsAuthority` (`RobotBridgeSafety`): `Spec => ImplementsAuthority`. Each
  action of the bridge is shown to carry the abstract state along, close it, interrupt it
  or begin a motion, and each kind is one abstract step.

`EveryRequestAnswered` is a liveness property and stays with TLC.

## 3. PrimitiveDriver

A service call is atomic up to the hook it awaits and again from the hook's return to its
answer (`server/examples/primitive_driver.py` spins the node with one thread). `Prepare`,
`Step` and `Stop` are the admissions, `PrepareReturn`, `StepReturn` and `StopReturn` the
rest. A call that is refused before its hook changes nothing, so it is no step; payload
validation is one of the reasons. The hooks are the integrator's: they report success or
failure or raise, at any time. Callers are arbitrary, not only the bridge: the doc says
that direct service callers are served too. `call[c]` holds the call's locals, `cancelled`
the contexts whose event is set. `interrupted` and `results` are history variables.

`MCPrimitiveDriver` checks `Bookkeeping` (`busy`, `stopping` and `active_ids` say what is in
progress, and an idle adapter is open again), `StopCoversMotion` (a stop touching a group
covers it as long as the group's hook has not returned, even when its sequence has already
been cancelled by an earlier stop), `StepsInOrder`, `HooksAreExclusive` and
`InterruptedFails`. Three calls are a primitive and two overlapping stops; three arms a
group and an outsider; two identifiers with a history of one let an identifier return; three
steps have a first, a middle and a last one.

`StepsInOrder` is stated on `results`, what became of each step of the last reservation, not on the index:
a step starts only if all before it succeeded, none after it was started and no stop withdrew the
reservation. It does *not* say that a step runs once: a hook that raises leaves the index where it
was (`primitive_driver.py:207`), and the step may be admitted again; section 8 says what the doc claims.
The bridge never repeats a step, since it stops after a failure; a direct caller may.

`PrimitiveDriverProofs` proves all of them, and `TypeOK`, for any arms, any finite set of calls and any bounds
(`DriverAssumption`). The inductive invariant `DriverInv` adds two parts to them.
`ReservationOwned`: while a primitive is in its hook, `activeIds` are its arms and a reserved
sequence, if any, is its own; this is what lets a later stop be widened correctly and keeps the
return of an interrupted hook from touching another reservation. `InterruptionsSeen`: every
call that a stop found in progress is cancelled, and while it is a primitive nothing is reserved.

## 4. AgentEmbodiment

One asyncio loop runs the agent, so the code between two awaits is one action. A *call* is one
handler task of the event bus, which executes tools one after the other; `pc` names the await
it is suspended at (the module's header lists them) and `call` holds the tool and its arguments.

| code | model |
|---|---|
| `_action_lock` and its waiters | `Locked` control states, `queue` (asyncio hands the lock out in order) |
| `_stop_generation`, `Manipulation.generation`, `observation_revision` and the values captured from them | `current`, `valid`, `unmoved`: the calls whose captured value is the present one |
| `interrupt`, `Manipulation.invalidate` | `Interrupt`, `Invalidate` |
| `execute_action` up to the first await | `Call`, `TurnedAway`, and one action per tool (`Manual`, `Reset`, `Execute`, `Recover`, `Detect`, `Refine`, `Verify`, `State`, `Inspect`, `Finish`, `GiveUp`); `CallStop` for the tool without the lock |
| answers of the robot server and of Robotics ER | `MotionConfirmed`, `MotionFailed`, `RecoverStopped`, `Rescued`, `Looked`, `Observed`, `Posted`, `StateRead`, `InspectRead`, `FinishRead`, `StopAnswered` |
| the end of `execute_action`, result kept or discarded | `Settle` |
| `send_latest_video_frame`, freshness of a state answer | `FrameDone`, `FrameLost` |
| `_send_message` with an inspection image | `Show`, `ShowDone`, `ShowFailed`, `Reply`, `ReplyLost` |
| `run_application` | `Consume`, `LastStopped`, `Return`, `Abort`, `Halted`, `Cancel`, `Close` |

*Abstractions.* The robot server is external: a request is confirmed, refused or ends with an unknown
outcome, a stop may also fail before it is sent (`robot_client.py:71-80`), and only `ServerPerforms` is assumed of it (no stage beside another held plan, which
`HeldExclusive` shows of the bridge). Arguments other than plan and arms are left out; a tool without
motion may reject them. Images are identified by the call that took them. Deadlines may pass at any
time. Sessions, heartbeats and transcripts are left out. `loaded`, `adrift`, `halted`, `watched`,
`viewed`, `shown` and `lastFrame` are history variables, which no guard reads.

### 4.1 What is checked

| run | shows |
|---|---|
| `MCAgentEmbodimentTask` | `TypeOK` with the recovery budget; `HeldIsAccounted`: an object that a pick may have gripped is never forgotten; `InterruptionOwesRecovery`; `UncertainIsStopped`; `SuccessIsSound`; `MotionHasAuthority`; `InterruptedChangesNothing`; `EvidenceIsGenuine`, `ImagePrecedesAnswer`: the model judges a grasp only from images it was shown |
| `MCAgentEmbodimentLive` | `EveryCallAnswered`, `LossCloses` |
| `MCAgentEmbodimentSettled` | a divergence of section 8 |

*Bounds.* Two calls are a tool under the lock and a stop, or a second tool that waits behind it. One plan
suffices for its life cycle. There is one arm: a verification that needs the images of two arms rests on the proofs
below, which are for any number. One recovery is used up and a second one refused. Every run names in `ToolsOf` the
tools of each call: in `MCAgentEmbodimentTask` one call works through everything while the other stops, inspects
and detects anew; together the runs call all tools. `CHECK_DEADLOCK` is off: the application closes for good, and nothing obliges the model
to call a tool.

*Fairness.* `FairSpec` assumes weak fairness of each call's steps, of the consumer and of the watchdog once
the session is lost: every await is bounded (`asyncio.timeout` in `robot_client.py:45` and
`live_session.py:91`, `thread_call` around writes), the lock is first come first served, and the
watchdog polls. The model, the camera stream and a disconnection are not fair.

### 4.2 What is proved

All of it for any handler tasks, arms, plans and budget, from `ConstantsAssumption`.

`TypeCorrect` (`AgentEmbodimentProofs`): `Spec => []TypeOK`. The type is inductive; the proof has a lemma
for every operator that several actions share and one for every group of actions.

`AgentEmbodimentSafety` proves `HeldIsAccounted`, `InterruptionOwesRecovery`, `UncertainIsStopped`,
`MotionHasAuthority`, `SuccessIsSound` and `InterruptedChangesNothing`. None of them is inductive as it
stands: a tool reads state before an await and acts on it afterwards, so each needs to know what can and
cannot have changed meanwhile. `IInv` adds to the types

* `LockInv`: one call at a time is suspended under the lock, where its tool suspends, and none once a
  task result is recorded;
* `GenerationInv`: the two generations the holder captured (`_stop_generation` and
  `Manipulation.generation`) are both present, in a session that is not lost, or both past; in the second
  case the plan table is empty and a motion already owes its recovery. This is what makes the late result
  of an interrupted tool harmless, and what excludes a stage that reaches a plan of another generation;
* `StopInv`: what the application's states say of the last motion, which covers the cancellation of a
  handler in the middle of a motion request;
* `ViewInv`: a scene is current only if no motion followed its observation, and the grippers were empty
  when `finish_task` began to read the last state. Nothing under the lock can fill them before the answer.

A step preserves it because it is one of a few kinds: a call that moves outside the lock, an interruption,
a tool that takes the lock, goes on, sends its motion, waits for a stop, or ends, or a step of the
application alone.

`EvidenceGenuine` and `ImageBeforeAnswer` rest on two more parts; `InspectionInv` is all three.

* `JudgeInv`: kept evidence names a picked plan of the table and its image was shown. The rest is what the
  holder of the lock may rely on across its awaits: while a motion is requested there is no evidence it could
  spoil, a plan under assessment has none left, so that it is used once, and a plan that is inspected is still
  picked when its image arrives, unless the call has been interrupted.
* `StreamInv`: an inspection is of one arm, and from the write of its image until its answer it keeps the
  stream and its image stays the last frame. No other sender can come in between, because the stream is
  handed on only with the answer.

## 5. Telemetry, Captures, CaptureService

Every callback of the bridge is one action (`runtime.py`, one executor thread). `Telemetry` has the two clocks:
`mono`, the steady clock of all deadlines, and `now`, the ROS clock, which may pause or jump back.

| code | model |
|---|---|
| `StateStore._arms`, `_arm_history`, `_arm_sequence` | `history` (its last element is the current state), `revision` |
| `stationary_interval`, `measured_after`, `state`, `arm_revisions` | `StationaryInterval`, `MeasuredAfter`, `StateFresh`, `ArmRevisions` |
| `_wait_state` and its `settled()` | `WaitState`, for the arms of the command, `CheckSettled` with `Settled` and `KeepsDwell` |
| `_camera_history` and `sequence`, `_depth` | `frames` and `Sequence`, `depth` |
| `_image`, `_depth_image`, `_camera_info`, `_arm_state` | `Image`, `DepthImage`, `CameraInfo`, `ArmState` |
| `_camera`, `_pending` | `CameraRequest`, `pending` |
| `_try_cameras` | `TryCameras`, with `Outcomes` what it may do for one request |
| `_expire` | `Reset` (the clock moved back), else `Expire` |
| `close_pending` | `ClosePending` |
| `gateway.request` | `Send`; `done` is `Post`, `deliver` is `Deliver`, the timeout is `GiveUp` |
| `_request` | `Serve` |

*Abstractions.* An image is its stamp; `wipe` and `rev`, and the variables `wipes` and `measured`, are history.
The arm of a flange camera
(`models.py:199`) is `ArmOf`. Whether a transform is available or a pair's geometry is refused is left open, but as in the code for all
pairs of one RGB stamp alike, in the order in which pairs are tried. Messages that the callbacks
reject as malformed change nothing and are left out. Motions are only their admission and end; the wait for a
settled state is one at a time, its faults and its interruption belong to `RobotBridge`. Stamps may lie in
the past or in the future: the callbacks keep an image whatever its stamp, and only the selection tests it; an
arm sample is accepted up to the allowed skew ahead.

### 5.1 What is checked

`MCCaptureService` checks `PendingIsReachable` (the caches and histories keep their bounds and a waiting request's place in the camera's sequence is never
ahead of a sequence that starts again), `EvidenceIsCurrent` (an answer has nothing from before the last
discard of the camera's images and nothing acquired before the caller asked), `WristWasStill` (exposures of a
wrist camera at two times are paired only if its arm was measured, without gap and never moving, around both, and no
motion was under way since), `SettledMeansStill` (the wait after a motion ends well only on a measured dwell)
and `EveryCaptureEnds` (every caller gets its answer, a refusal or a timeout, and the bridge forgets a request nobody
waits for any more). `EvidenceIsCurrent` goes by stamps, as the code does: an image that was under way when the clock moved back and arrives
after the caches were emptied is accepted if its old stamp happens to look current.
`WristWasStill` and `SettledMeansStill` are stated on `measured`, all samples since the last
reset, while the code sees the history cut at `HistoryLength`: that the cut is sound is part of what is checked.

*Bounds.* There is one arm; the theorems below are for any number. An instance says what may arrive and with which lags behind
the clock, until when time may pass (`until`) and messages may arrive (`last`), and which kinds of request are made; a request is
sent or served only if its deadline still lies within `until`, so that every wait can end. `MCCaptureService` has eight, one per case:

* a pair of wrist images up to two apart (`Tolerance`), with up to four samples, one of them more than the
  history of three keeps, each of which may move, be stamped ahead or be missing (a gap, since `MaxGap` is 1);
* a pair around the end of a motion;
* images from before the request, which is made later and must not be answered with them;
* a clock that moves back, with images of the old clock, stamped ahead of the new one, that arrive late;
* a calibration that arrives and changes between images;
* the fixed camera with a paused clock and a bridge that closes; two requests at once; the wait for a settled state.

A tick is longer than the timer's 20 ms, so the timer runs between two ticks. Deadlock is not checked: time ends.

*Fairness.* Time passes, the timer fires, and the two threads together run what is ready. Neither images nor telemetry need arrive.

*Observations.* `_last_motion_end_ns` (`robot_node.py:634`) is not reset when the clock moves back: wrist pairs
taken at two times are then refused until the clock passes it. Between a jump and the next timer call
(20 ms) old images may still be paired with each other; `EvidenceIsCurrent` excepts a request during which the clock moved back.

### 5.2 What is proved

`PendingReachable`, `EvidenceCurrent`, `WristStillWhenPaired` and `SettledStill` (`CaptureServiceProofs`), for
any arms, cameras and requests, any bounds and tolerances and any set of instances, from the assumptions of
the modules: `TelemetryAssumption` and `CapturesAssumption` (times and sizes are natural numbers, the
caches hold at least one element, a flange camera names a configured arm), `ServiceAssumption`, and
`InstancesAssumption` (an instance counts messages; their lags are any integers).

The code decides from a history cut at `HistoryLength`, the properties speak of all samples. What joins them is

* `ArmInv`: the history of an arm is the end of its samples, and samples ascend in stamp and revision. So
  the samples that `StationaryInterval` or `MeasuredAfter` finds have a place among all of them, and none
  between two of them was forgotten (`IntervalAmongAll`);
* `DwellInv`: the dwell under way began with a sample of each arm from after the command, which is still among
  the samples though it may have left the history;
* `ImageInv`: cached images are from after the last discard of their camera, which makes what is
  paired current; `RequestInv`: a waiting request is unanswered, its place is not ahead of the camera's
  sequence, and it was made before the stamp it waits for, unless the clock moved back since. A discard takes the
  requests of its camera along, so neither can be left behind by the other;
* `GatewayInv`: what was asked and when, as the gateway's thread sees it; `ClockInv` bounds the clocks.

The action properties then need that only `Image`, `DepthImage` and `Expire` give a good answer
(`AnswerSource`) and only `CheckSettled` ends a wait well (`OnlySettled`). `EveryCaptureEnds` is liveness.

## 6. Speech

One asyncio loop: `cur` is the handler task that has it, until it awaits something that is not there yet. The awaits
that always succeed at once (`publish` on an unbounded queue, an uncontended lock) are no interruption.

| code | model |
|---|---|
| `_event_queue`, handler tasks, `shutdown` | `queue`, `todo` and `wait` per handler, `StopLoop`, `CancelHandlers` |
| `_handle`, `_handle_server_content`, part by part | `Handle`, `ToolCall`, `Note`, `AudioPart`, `TextPart`, `TurnComplete`, `InterruptedPart` |
| `_start_tts_task`, `_cancel_active_tts` | `TextPart`, `TextResumes`, `Launch`; `InterruptedPart`, `SpeechSilenced` |
| `_run_tts_background`, `_decrement_tts_and_maybe_clear` | `Speak`, `SpeechEnds`; `SpeechNeverRan` for a task cancelled before its first step |
| `AudioResponseHandler` | `AudioChunk`, `AudioTurn`, `AudioInterrupted`, `Encoded` |

`MCSpeech` checks `SpeechIsFlagged`, `OneVoice`, `TurnsStayApart` and `NoHandlerHangs`.
`SpeechIsFlagged` relates the counter and the flag `speaking` to the speeches under way and says nothing of who heeds the
flag: the heartbeats do so only in part (section 8). `OneVoice` and the half of `TurnsStayApart` that is about turns hold only while no response is
handled during an earlier one's await (`overtaken`, a history
variable): the code does not order handlers, and two that overlap in `_start_tts_task` do
leave a speech that nothing refers to. A handler that awaits the speech it cancelled also swallows the cancellation
of a shutdown, and may start a speech after it. `MCSpeechCounter` is a divergence of section 8.

A part is named by its response and its place there (`Here`), so that chunks, reports and turns can be told apart
wherever a response begins or ends.

*Bounds.* Three responses, in which all kinds of parts follow each other, are two turns and an
interruption; two texts in one response cancel a speech before it starts, and one response has audio on both sides of
an await. `CHECK_DEADLOCK` is off: the model stops talking.
*Fairness.* The loop runs what is ready, a cancelled speech ends, the callbacks return; a speech not cancelled need not end.

### 6.1 What is proved

`SpeechFlagged`, `SpeechIsOne`, `TurnsApart` and `WaitsEnd` (`SpeechProofs`), for any messages and bounds, from
`MessagesAssumption` and `BoundsAssumption`. None of these properties says anything of the order in which handlers
run, and the first three depend on it:

* `OrderInv`: responses wait in the order of their arrival, behind every handler that has begun; only one that
  has begun has parts left, and they are the end of its response. A handler therefore starts once, with nothing of its
  response handled;
* `CountInv`: speeches are started in order, and the counter is at least the number of those unfinished and at most
  the number of those begun; `speaking` is set exactly while it is positive. It may stay too high, which is the
  divergence of `MCSpeechCounter`, but never too low, which is `SpeechIsFlagged`;
* `VoiceInv`, as long as no response was overtaken: one handler is under way, the speech it waits for is the
  active one, and no other is unfinished.

`TurnsApart` is about the whole conversation, of which every response is a piece. Its argument:

* `BegunInv`: if a response waits, so do all later ones; without overlap all after the one under way wait. The parts
  done (`Done`) are then a beginning of all parts (`DoneInOrder`), and the one a handler is at comes right after them
  (`HereIsFrontier`);
* `ChunkInv`: the audio of a part that is done is in one place, an event, the buffer or one batch, with or without overlap:
  "encoded once";
* `ToolInv`: `_current_turn_has_tool_call` says whether a tool is among the parts done since the last turn that is
  complete, so what `TURN_COMPLETE` reports is right for the part at hand, and stays so as responses are added;
* `PartsInOrder`, `TurnAhead`: chunks and turns are queued in the order of their parts, the buffer holds earlier ones,
  and a chunk that is not encoded yet has the end of its turn still in the queue if it is done. A chunk that joins the
  buffer is therefore of the buffer's turn.

The last two hold while a handler may still go on (`Going`): `CancelHandlers` drops the parts that a cancelled handler
had left, which `Done` counts as done. Nothing can be reported or buffered after that.

`NoHandlerHangs` is liveness and stays with TLC. What it needs besides fairness is `WaitsEnd`: a suspended handler waits
for the callback or for a speech that was told to stop, which no step starts again (`ToldStays`), and is at a text or
an interruption, the parts that go on after the wait.

## 7. ToolCalls, LiveSession

| code | model |
|---|---|
| `_stream_lock` and its waiters, `stream.Send` on a thread | `lockQueue`, `writes` |
| `_handle_tool_call`, `_execute_single_tool` | a batch: `BeginBatch`, `Invoked`, `FrameOrTimeout`, `BatchSent`, joined by `Proceed` |
| `_blocking_execution_count`, `tool_executing` | `blocking` |
| `_record_user_instruction`, `_sit_authorized` | `Instructed`, `authorized` |
| the loop of `start_session`, `_reconnect` | `Consume`, `Reconnect`, `Attempt`, `Retry` |
| the consumer cancelled at any of their awaits | `Leave`; what is on a thread goes on (`Abandoned`) |
| its `finally` | `StopInput`, `StopBus` |
| `_read_loop`'s end, `_on_done` | `StreamEnds` |
| both heartbeat loops | `HeartbeatWakes`, `HeartbeatFrame`, `HeartbeatSent`, `Later` |
| `_send_text`, `send_text_with_fresh_video` | `UserTypes`, `TextFrame`, `Write`, `WriteEnds`, `TextSent` |

*Abstractions.* A bus event whose handlers do not await is handled where it is published. An utterance asks for a sit, forbids it or
neither; words that only together match one of the two patterns are left out. `speaking` is not a variable here: the interval
heartbeat may wait for a speech after its test of the tools (`hb = "speech"`) and does not repeat that test. Which `INTERRUPTED` events the UI sees, drawings, audio and video
input are left out. `run_ros2` runs this session with `heartbeat_enabled=False` and with `Ros2SessionManager`, which
stops instead of reconnecting: its delivery and loss are in `AgentEmbodiment`.

`MCLiveSession` checks `FlagMeansTool`, with the types; `SitIsWanted`: the robot sits only if something was said since the last
sit, and what counts now asks for it and nowhere forbids it (that each sit was asked for anew is what `MCLiveSessionSit` refutes);
`ClosedIsQuiet`: wherever the session was closed, also in the delay or the setup of a reconnection, none of its tasks goes
on, though a `Send` that nobody awaits may still be on its thread; `TextFollowsFrame`: only the setup of a reconnection
comes between a frame and its text on one stream, and a text that a reconnection takes to a new stream comes
first there; and `LossIsHandled`. *Bounds.* Ten instances, each with its own heartbeat and its own counts
of drops, streams, failures, turns, instructions and closings; two batches overlap, three drops use up the rapid
reconnections, three attempts are the code's. *Fairness.* Tools return, `Send` returns or raises, frames
arrive or time out, the application asks for the next event. The heartbeat's loop is not fair except once it
waits for a frame. `CHECK_DEADLOCK` is off: a closed session has nothing left to do.

*Observations.* A reconnection replaces the stream without shutting it, and an attempt whose setup fails leaves its
stream open, whose end later causes another reconnection. The setup does not take the stream lock, so another
sender may write before it. A task that sends text and fails is not
restarted. The legacy heartbeat ends for good with its first failed send. `tool_executing` is tested before the
heartbeat awaits its frame, so a prompt may be sent while a tool that began meanwhile runs. A cancelled sender releases
the lock while its thread still sends; this happens only when the session is closed, and the setup
message of a reconnection may then be written to a stream that is about to be shut.

### 7.1 What is proved

`FlagIsTool`, `SitsAreWanted`, `ClosedSessionIsQuiet` and `TextAfterFrame` (`LiveSessionProofs`), for any set of
instances and any batches, from `InstancesAssumption` and `BatchesAssumption` (finitely many, none
named like another task). The inductive invariant has, besides the types,

* `Counts`: the counter is the number of batches that run a blocking tool, and the event is set when there is one.
  It is kept whether a tool returns, is cancelled while it runs or ends with its session;
* `SitInv`: the transcript is what was said since, and with, the last text typed, and an authorization not used yet was
  given by what was said after the last sit;
* `QueueInv`: a task waits once at `_stream_lock`, exactly while it says so, and one that has written its first
  message holds the lock and what it wrote is still the last on its stream, but for a setup;
* `WriteInv`: only the holder of the lock has a write on a thread, except for the setup of a reconnection and the
  writes that cancelled tasks left, which are found in the clean-up only. This makes the frame before a
  text the last thing on its stream when the text arrives;
* `MainInv`: once the loop has stopped its input, neither the heartbeat nor the user's task runs, and a
  closed session has no batch under way and no current stream.

`LossIsHandled` is liveness.

## 8. Divergences between documentation and code

* `MCRobotBridgeFailureStop` (`FailureRequestsStop`): the doc says that a failure requests a group stop. When the
  generation changed for a reason that did not stop these arms (a stop of another arm, a
  calibration change, a clock reset), `sequencer.py:43` requests none, and the motion task
  ends with arms that nobody asked to stop. Recovery is still required before any motion.
* `MCAgentEmbodimentSettled` (`SuccessMeansSettled`): the agent's instruction says that success is rejected while faults are
  unresolved. `finish_task` tests `needs_recovery` before it reads the final state and not after it; a
  stop that was in flight before the call and fails during the read sets `needs_recovery`, and success is
  recorded nevertheless (`ros2_embodiment.py:135-154`). The state it read was clean.
* `MCSpeechCounter` (`CounterIsExact`): the docstring of `_run_tts_background` says that the counter is always decremented in
  `finally`. Two texts in one response cancel the first speech before its first step; asyncio never enters
  the coroutine, and the counter stays one too high for good. `speaking` is then never cleared, and
  the interval heartbeat waits for ever. `SpeechIsFlagged` holds: the error is on the quiet side.

* `MCLiveSessionSit` (`SitPerRequest`): the docstring of `_record_user_instruction` says that one sit call is authorized
  only after an explicit request. Speech is appended to `_user_transcript`, and `_sit_authorized` is computed
  from all of it (`tool_call_handler.py:269-270`). After "sit down" and a sit, which uses the authorization
  up, any further words authorize the next one: two sits for one request, until the user types or forbids it.

Seen, without a run of their own:

* `primitive-adapter.md:249-254` says that the wrapper rejects repeated steps and that an uncertain operation is never
  retried. A step whose hook raised keeps its index (`primitive_driver.py:207`), so the same request is admitted and
  runs the hook again, although nobody knows what the first run did.
* `send_text_with_fresh_video` promises to send frame and text "atomically" (`session_manager.py:159`). `_reconnect`
  replaces `self.stream` without the lock (`:347`), also between the two sends (`:192-194`): the
  text then goes to a stream that has not seen the frame, and is reported as sent.
* The flag `speaking` is there so that heartbeats do not interrupt a speech (`decision_making.py:48-50`). The event-driven
  loop never tests it (`session_manager.py:505-515`), the interval loop tests it and then waits for the lock and
  the thread (`:587-603`), and the speech of `send_message` does not set it (`tool_call_handler.py:369-396`).
* `primitive-adapter.md:271` says that older stop replies cannot supersede a newer
  interruption, but `sequencer.py:50` assigns `_all_stopped` from the reply to its own stop without comparing
  the generation again. Nothing is admitted on it, because the newer stop keeps `_motion_uncertain` set
  (`NewestStopGates`), and the record is true (`AllStoppedMeansQuiet`).

## 9. Not modelled

* `protocol.py`, `workflow.py`, `models.py`, `numerics.py`, `ros_names.py`, most of `motion.py` and the geometry of `pixels.py`:
  stateless validation and floating-point geometry; the models keep whether a request is accepted.
* `completion.py`: an optional helper that only a test uses, planned.
* Camera pollers, stitching, the reasoning client, the contents of HTTP requests, configuration: image
  work, stateless requests and files.
* `bounded_io.py`: whether a value that arrives in the moment its wait gives up is handed to `abandoned`
  depends on the interpreter's `wait_for`, which the repository does not fix.
* Audio and video input, the UI's events and drawings, messages to other agents, logs.

Not proved, and left to TLC: the liveness properties (`EveryRequestAnswered`, `EveryCallAnswered`, `LossCloses`,
`EveryCaptureEnds`, `NoHandlerHangs`, `LossIsHandled`), which need fairness and ENABLED. What a recursively
defined function computes is out of the prover's reach as well; where an argument on the length of a sequence
is needed, it is one by the least counterexample.
