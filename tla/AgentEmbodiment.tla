--------------------------- MODULE AgentEmbodiment ---------------------------
(***************************************************************************)
(* The robot side of the agent: tool dispatch and interruption             *)
(* (ros2_embodiment.py), plans, evidence and recovery (manipulation.py),   *)
(* the delivery of images and answers (live_session.py) and the            *)
(* application's watchdog (run_ros2.py).                                   *)
(*                                                                         *)
(* One asyncio loop runs everything, so what lies between two awaits is    *)
(* one atomic step.  A call is one handler task that executes tools one    *)
(* after the other; its control states are                                 *)
(*                                                                         *)
(*   idle, queued   waiting for a tool; for _action_lock                   *)
(*   looking        detect, refine: the capture, then Robotics ER          *)
(*   observing      inspect_grasp: the original image                      *)
(*   posting        create, refine or verify at the robot server           *)
(*   reading        GET /v1/state                                          *)
(*   recoverStop    recover_arms: the stop before the recovery             *)
(*   motion         a motion request                                       *)
(*   rescue         the stop after a motion with an unknown outcome        *)
(*   halt           the stop tool, the one that takes no lock              *)
(*   frame          the camera frame that follows a blocking tool          *)
(*   deliver        an inspection waits for the stream lock                *)
(*   showing        the inspection image is being written                  *)
(*   reply          the tool response is being written                     *)
(*                                                                         *)
(* Generations and revisions are counters that are only ever compared with *)
(* a value captured earlier, so the model keeps the set of calls whose     *)
(* captured value is the present one: current for _stop_generation, valid  *)
(* for Manipulation.generation, unmoved for observation_revision.          *)
(* Incrementing a counter empties its set.                                 *)
(*                                                                         *)
(* loaded, adrift, halted, watched, viewed, shown and lastFrame are history*)
(* variables: no guard reads them.                                         *)
(***************************************************************************)
EXTENDS Naturals, Sequences

CONSTANTS
  Calls,        \* handler tasks that may be in progress at the same time
  Arms,         \* configured arms
  Plans,        \* plan_ids the robot server may hand out
  NoPlan,       \* the plan of a call that names none
  NoCall,       \* nobody: the owner of no evidence, of the free stream lock
  ToolsOf,      \* tools the model calls in each of them
  MaxRecovery   \* max_recovery_attempts

Stages == {"approach", "pick", "place"}

MotionTools == Stages \cup {"manual", "reset", "recover"}

\* The tools ros2_tools declares BLOCKING: a camera frame precedes their answer.
Blocking == MotionTools \cup {"state", "detect", "refine", "inspect", "verify"}

\* finish_task(success=true) and finish_task(success=false) are two tools here;
\* manual is move and gripper.
AllTools == Blocking \cup {"finish", "giveUp", "stop"}

ASSUME ConstantsAssumption ==
  /\ NoPlan \notin Plans
  /\ NoCall \notin Calls
  /\ ToolsOf \in [Calls -> SUBSET AllTools]
  /\ MaxRecovery \in Nat

VARIABLES
  app,            \* run_application: what its coroutine awaits
  finished,       \* a finish_task TOOL_RESULT waits to be consumed
  sessionLost,    \* session_lost
  taskResult,     \* task_result
  needsRecovery,  \* needs_recovery
  attempts,       \* recovery_attempts
  plan,           \* Manipulation.plans
  evidence,       \* Manipulation.inspections, at most one per arm
  finalObs,       \* final_observation_required
  scene,          \* scene_revision = observation_revision
  current, valid, unmoved,   \* see above
  queue,          \* calls waiting for _action_lock
  stream,         \* holder of _stream_lock across an image and its answer
  pc, call,       \* the calls
  loaded,         \* plans whose pick may have left an object in a gripper
  adrift,         \* the last motion request ended without a definite answer
  halted,         \* a stop was sent after the last motion request
  watched,        \* state calls that began after the last motion request
  viewed,         \* a state and a frame later than that request were delivered
  shown,          \* retained evidence whose image was sent to the model
  lastFrame       \* the call whose inspection image is the last frame sent

appVars   == <<app, finished>>
taskVars  == <<sessionLost, taskResult>>
evidVars  == <<evidence, shown>>
robotVars == <<loaded, adrift, halted>>
viewVars  == <<watched, viewed>>
vars == <<app, finished, sessionLost, taskResult, needsRecovery, attempts, plan,
          evidence, finalObs, scene, current, valid, unmoved, queue, stream, pc,
          call, loaded, adrift, halted, watched, viewed, shown, lastFrame>>

-----------------------------------------------------------------------------
(* Data *)

PlanStates == {"absent", "detected", "approached", "picked", "verified", "placed", "invalid"}

HeldStates == {"picked", "verified"}

Absent == [state |-> "absent", arms |-> {}]

PlanIn(states) == \E p \in Plans : plan[p].state \in states

NoEvidence == [by |-> NoCall, plan |-> NoPlan, delivered |-> FALSE]

Unjudged == \E a \in Arms : evidence[a] # NoEvidence

\* execute: the states a stage may start from, and the one it leads to.
Allowed == [approach |-> {"detected"},
            pick     |-> {"detected", "approached"},
            place    |-> {"verified"}]

Reached == [approach |-> "approached", pick |-> "picked", place |-> "placed"]

Locked == {"looking", "observing", "posting", "reading", "recoverStop", "motion", "rescue"}

CallRecords == [op: AllTools, plan: Plans \cup {NoPlan}, arms: SUBSET Arms, ok: BOOLEAN]

NoTool == [op |-> "stop", plan |-> NoPlan, arms |-> {}, ok |-> FALSE]

LockFree == \A c \in Calls : pc[c] \notin Locked

\* _motion_active: true while a motion tool holds the lock.
MotionActive == \E c \in Calls : pc[c] \in Locked /\ call[c].op \in MotionTools

-----------------------------------------------------------------------------
(* Invalidation, interruption and the way out of a tool *)

\* Manipulation.invalidate; keep are the calls that capture the new generation.
Invalidate(keep) ==
  /\ valid' = keep
  /\ plan' = [p \in Plans |-> Absent]
  /\ evidence' = [a \in Arms |-> NoEvidence]
  /\ shown' = {}

\* Mutant: a held object is not looked at.
OwingMotion(lost) == MotionActive \/ lost

\* Mutant: the motion in progress is not looked at.
OwingHeld(lost) == lost \/ PlanIn(HeldStates)

\* What an interruption leaves to recover from.
Owing(lost) == MotionActive \/ lost \/ PlanIn(HeldStates)

\* interrupt.
Interrupt(lost) ==
  /\ current' = {}
  /\ sessionLost' = (sessionLost \/ lost)
  /\ needsRecovery' = (needsRecovery \/ Owing(lost))
  /\ Invalidate({})

\* The handler task is between two tools again.
Leave(c) ==
  /\ pc' = [pc EXCEPT ![c] = "idle"]
  /\ call' = [call EXCEPT ![c] = NoTool]
  /\ unmoved' = unmoved \ {c}
  /\ watched' = watched \ {c}

\* execute_action answers.  A blocking tool goes on to send_latest_video_frame,
\* which captures the stop generation, and sends nothing while evidence is retained.
\* Only the freshness of a state answer depends on what is captured here.
Answer(c, ok) ==
  LET retained == \E a \in Arms : evidence'[a] # NoEvidence
      next == IF call[c].op \notin Blocking THEN "reply"
              ELSE IF ~retained THEN "frame"
              ELSE IF call[c].op = "inspect" /\ ok THEN "deliver" ELSE "reply" IN
  /\ pc' = [pc EXCEPT ![c] = next]
  /\ call' = [call EXCEPT ![c].ok = ok]
  /\ current' = IF next = "frame" /\ call[c].op = "state" THEN current \cup {c}
                ELSE current \ {c}

StillShown(E) == {s \in shown : E[s[1]].by = s[2] /\ E[s[1]].delivered}

\* The end of a tool under the lock: the result of an interrupted one is discarded.
Settle(c, ok, P, E) ==
  IF c \in current
  THEN /\ plan' = P
       /\ evidence' = E
       /\ valid' = valid \ {c}
       /\ shown' = StillShown(E)
       /\ Answer(c, ok)
  ELSE Invalidate({}) /\ Answer(c, FALSE)

\* A tool that refuses what it was asked before it awaits anything.
Refuse(c) ==
  /\ UNCHANGED <<plan, evidVars>>
  /\ valid' = valid \ {c}
  /\ Answer(c, FALSE)

-----------------------------------------------------------------------------
(* Calls enter *)

\* A tool is called: it captures the stop generation, then queues for the lock,
\* which asyncio hands out first come first served.
Call(c) ==
  /\ pc[c] = "idle"
  /\ app \notin {"closing", "closed"}
  /\ \E op \in ToolsOf[c] \ {"stop"}, p \in Plans \cup {NoPlan}, arms \in SUBSET Arms :
       /\ p = NoPlan <=> op \notin Stages \cup {"refine", "inspect", "verify"}
       /\ arms = {} <=> op \notin {"detect", "refine", "inspect"}
       /\ op \in {"refine", "inspect"} => \E a \in Arms : arms = {a}
       /\ call' = [call EXCEPT ![c] = [op |-> op, plan |-> p, arms |-> arms, ok |-> FALSE]]
  /\ pc' = [pc EXCEPT ![c] = "queued"]
  /\ queue' = Append(queue, c)
  /\ current' = current \cup {c}
  /\ UNCHANGED <<appVars, taskVars, needsRecovery, attempts, plan, evidVars, finalObs,
                 scene, valid, unmoved, stream, robotVars, viewVars, lastFrame>>

\* The stop tool interrupts at once and does not wait for the lock.  With an invalid
\* selection of arms nothing is sent, and its answer is a failure.
CallStop(c) ==
  /\ pc[c] = "idle"
  /\ app \notin {"closing", "closed"}
  /\ "stop" \in ToolsOf[c]
  /\ Interrupt(FALSE)
  /\ call' = [call EXCEPT ![c] = NoTool]
  /\ \/ pc' = [pc EXCEPT ![c] = "halt"] /\ halted' = TRUE
     \/ pc' = [pc EXCEPT ![c] = "reply"] /\ UNCHANGED halted
  /\ UNCHANGED <<appVars, taskResult, attempts, finalObs, scene, unmoved, queue, stream,
                 loaded, adrift, viewVars, lastFrame>>

\* The stop tool's answer; one that is not confirmed makes recovery necessary.
StopAnswered(c, reply) ==
  /\ pc[c] = "halt"
  /\ needsRecovery' = (needsRecovery \/ reply # "confirmed")
  /\ Refuse(c)
  /\ UNCHANGED <<appVars, taskVars, attempts, finalObs, scene, unmoved, queue, stream,
                 robotVars, viewVars, lastFrame>>

Welcome(c) == taskResult = "none" /\ ~sessionLost /\ c \in current

\* c takes the lock.
Enter(c) ==
  /\ pc[c] = "queued"
  /\ LockFree
  /\ queue # <<>> /\ Head(queue) = c
  /\ queue' = Tail(queue)

\* Mutant: a call interrupted in the queue is not turned away.
UnwelcomeAtEnd(c) == taskResult # "none" \/ sessionLost

Unwelcome(c) == ~Welcome(c)

\* The lock is taken and given back in one step; a tool without motion may also
\* reject its arguments.
TurnedAway(c) ==
  /\ Enter(c)
  /\ Unwelcome(c) \/ (Welcome(c) /\ call[c].op \notin MotionTools)
  /\ Refuse(c)
  /\ UNCHANGED <<appVars, taskVars, needsRecovery, attempts, finalObs, scene, unmoved,
                 stream, robotVars, viewVars, lastFrame>>

Admit(c, op) == Enter(c) /\ call[c].op = op /\ Welcome(c)

-----------------------------------------------------------------------------
(* Motion tools *)

\* A motion tool that got the lock: observation_revision is incremented, whether
\* or not a request follows.
NewRevision == unmoved' = {} /\ scene' = FALSE

\* The motion request leaves.
Send(c) ==
  /\ pc' = [pc EXCEPT ![c] = "motion"]
  /\ UNCHANGED <<call, current>>
  /\ loaded' = IF call[c].op = "pick" THEN loaded \cup {call[c].plan} ELSE loaded
  /\ adrift' = FALSE
  /\ halted' = FALSE
  /\ watched' = {}
  /\ viewed' = FALSE

Stay == UNCHANGED <<robotVars, viewVars>>

\* move and gripper: a move without pixel or named targets is refused at once; the
\* client may still refuse the other arguments.
Manual(c) ==
  /\ Admit(c, "manual")
  /\ NewRevision
  /\ \/ Refuse(c) /\ UNCHANGED needsRecovery /\ Stay
     \/ /\ ~needsRecovery
        /\ needsRecovery' = PlanIn(HeldStates)
        /\ Invalidate({})
        /\ \/ Answer(c, FALSE) /\ Stay
           \/ ~PlanIn(HeldStates) /\ Send(c)
  /\ UNCHANGED <<appVars, taskVars, attempts, finalObs, stream, lastFrame>>

Reset(c) ==
  /\ Admit(c, "reset")
  /\ NewRevision
  /\ IF needsRecovery \/ PlanIn(HeldStates)
     THEN Refuse(c) /\ Stay
     ELSE Invalidate({}) /\ Send(c)
  /\ UNCHANGED <<appVars, taskVars, needsRecovery, attempts, finalObs, stream, lastFrame>>

\* approach_targets, pick_targets and place_targets.
Execute(c, stage) ==
  /\ Admit(c, stage)
  /\ NewRevision
  /\ IF needsRecovery \/ plan[call[c].plan].state \notin Allowed[stage]
     THEN Refuse(c) /\ Stay
     ELSE /\ evidence' = [a \in Arms |-> NoEvidence]
          /\ shown' = {}
          /\ valid' = valid \cup {c}
          /\ UNCHANGED plan
          /\ Send(c)
  /\ UNCHANGED <<appVars, taskVars, needsRecovery, attempts, finalObs, stream, lastFrame>>

\* Mutant: the budget is off by one.
ExhaustedLate == attempts > MaxRecovery

Exhausted == attempts >= MaxRecovery

\* recover_arms stops all arms first, and at most MaxRecovery times per application.
Recover(c) ==
  /\ Admit(c, "recover")
  /\ NewRevision
  /\ needsRecovery' = TRUE
  /\ IF Exhausted
     THEN Refuse(c) /\ UNCHANGED <<attempts, halted>>
     ELSE /\ attempts' = attempts + 1
          /\ Invalidate({c})
          /\ pc' = [pc EXCEPT ![c] = "recoverStop"]
          /\ halted' = TRUE
          /\ UNCHANGED <<call, current>>
  /\ UNCHANGED <<appVars, taskVars, finalObs, stream, loaded, adrift, viewVars, lastFrame>>

\* Mutant: the generation captured before the await is not compared.
Unchecked(c) == TRUE

\* Manipulation.checkpoint, after every await.
Checkpoint(c) == c \in valid

\* A motion or its stop with an unknown outcome: another stop before the answer.
Rescue(c) ==
  /\ needsRecovery' = TRUE
  /\ pc' = [pc EXCEPT ![c] = "rescue"]
  /\ halted' = TRUE
  /\ UNCHANGED <<call, current>>

\* The stop of recover_arms was answered.
RecoverStopped(c, reply) ==
  /\ pc[c] = "recoverStop"
  /\ \/ /\ reply = "confirmed" /\ Checkpoint(c)
        /\ Send(c)
        /\ UNCHANGED <<needsRecovery, plan, evidVars, valid>>
     \/ /\ reply = "unknown"
        /\ Rescue(c)
        /\ UNCHANGED <<plan, evidVars, valid, loaded, adrift, viewVars>>
     \/ /\ reply = "refused" \/ (reply = "confirmed" /\ ~Checkpoint(c))
        /\ needsRecovery' = (needsRecovery \/ reply = "refused")
        /\ Settle(c, FALSE, plan, evidence)
        /\ Stay
  /\ UNCHANGED <<appVars, taskVars, attempts, finalObs, scene, unmoved, queue, stream, lastFrame>>

\* The server performs no stage while another plan holds an object (robot_node.py
\* creates no plan beside a held one and drops the others before it executes).
ServerPerforms(c) ==
  call[c].op \in Stages =>
    \A p \in Plans \ {call[c].plan} : plan[p].state \notin HeldStates

\* A motion that completed.
MotionConfirmed(c) ==
  LET op == call[c].op
      kept == Checkpoint(c) \/ op \in {"manual", "reset"} IN
  /\ pc[c] = "motion"
  /\ ServerPerforms(c)
  /\ needsRecovery' = (needsRecovery /\ ~(op = "recover" /\ kept))
  /\ finalObs' = (finalObs \/ (op = "place" /\ kept))
  /\ loaded' = IF op = "recover" THEN {} ELSE IF op = "place" THEN loaded \ {call[c].plan} ELSE loaded
  /\ Settle(c, kept,
            IF op \in Stages /\ kept
            THEN [plan EXCEPT ![call[c].plan].state = Reached[op]] ELSE plan,
            evidence)
  /\ UNCHANGED <<appVars, taskVars, attempts, scene, unmoved, queue, stream, adrift, halted,
                 viewVars, lastFrame>>

\* The plan of a stage that failed.  An invalidated table no longer has it.
Spoil(c) ==
  IF call[c].op \in Stages /\ plan[call[c].plan] # Absent
  THEN [plan EXCEPT ![call[c].plan].state = "invalid"] ELSE plan

\* A motion that failed with a definite answer, or with none.
MotionFailed(c, reply) ==
  /\ pc[c] = "motion"
  /\ \/ /\ reply = "refused"
        /\ needsRecovery' = TRUE
        /\ Settle(c, FALSE, Spoil(c), evidence)
        /\ Stay
     \/ /\ reply = "unknown"
        /\ Rescue(c)
        /\ plan' = Spoil(c)
        /\ adrift' = TRUE
        /\ UNCHANGED <<evidVars, valid, loaded, viewVars>>
  /\ UNCHANGED <<appVars, taskVars, attempts, finalObs, scene, unmoved, queue, stream, lastFrame>>

\* Whatever the stop after an unknown outcome answers, the motion failed.
Rescued(c) ==
  /\ pc[c] = "rescue"
  /\ Settle(c, FALSE, plan, evidence)
  /\ UNCHANGED <<appVars, taskVars, needsRecovery, attempts, finalObs, scene, unmoved, queue,
                 stream, robotVars, viewVars, lastFrame>>

-----------------------------------------------------------------------------
(* Detection, refinement and verification *)

\* Everything that none of the tools without motion touches.
Unmoving == UNCHANGED <<appVars, sessionLost, attempts, stream, robotVars, lastFrame>>

Suspend(c, where) ==
  /\ pc' = [pc EXCEPT ![c] = where]
  /\ valid' = valid \cup {c}
  /\ UNCHANGED <<call, current, plan, evidVars>>

Detect(c) ==
  /\ Admit(c, "detect")
  /\ IF needsRecovery \/ PlanIn(HeldStates) \/ finalObs THEN Refuse(c) ELSE Suspend(c, "looking")
  /\ UNCHANGED <<taskResult, needsRecovery, finalObs, scene, unmoved, viewVars>>
  /\ Unmoving

Refine(c) ==
  /\ Admit(c, "refine")
  /\ LET p == plan[call[c].plan] IN
     IF p.state = "approached" /\ call[c].arms \subseteq p.arms
     THEN Suspend(c, "looking") ELSE Refuse(c)
  /\ UNCHANGED <<taskResult, needsRecovery, finalObs, scene, unmoved, viewVars>>
  /\ Unmoving

\* The capture and the reasoning are over.  A checkpoint follows each; nothing
\* happens in between, so one stands for both.
Looked(c, ok) ==
  /\ pc[c] = "looking"
  /\ IF ok /\ Checkpoint(c) THEN Suspend(c, "posting") ELSE Settle(c, FALSE, plan, evidence)
  /\ UNCHANGED <<taskResult, needsRecovery, finalObs, scene, unmoved, queue, viewVars>>
  /\ Unmoving

\* verify_grasp: matching evidence, delivered to the model, for every plan arm.
Backed(p) == \A a \in plan[p].arms : evidence[a].plan = p /\ evidence[a].delivered

\* The evidence is consumed before the assessment is sent.
Verify(c) ==
  LET p == call[c].plan
      rest == [a \in Arms |-> IF a \in plan[p].arms THEN NoEvidence ELSE evidence[a]] IN
  /\ Admit(c, "verify")
  /\ plan[p].state = "picked"
  /\ Backed(p)
  /\ evidence' = rest
  /\ shown' = StillShown(rest)
  /\ pc' = [pc EXCEPT ![c] = "posting"]
  /\ valid' = valid \cup {c}
  /\ UNCHANGED <<call, current, plan>>
  /\ UNCHANGED <<taskResult, needsRecovery, finalObs, scene, unmoved, viewVars>>
  /\ Unmoving

\* The plan service answered: "rejected" is an assessment that does not confirm
\* the grasp, "failed" any error.
Posted(c, reply) ==
  LET op == call[c].op
      kept == reply = "confirmed" /\ Checkpoint(c) IN
  /\ pc[c] = "posting"
  /\ needsRecovery' = (needsRecovery \/ (op = "verify" /\ reply = "failed"))
  /\ \/ /\ kept /\ op = "detect"
        /\ \E p \in Plans :
             /\ plan[p] = Absent
             /\ Settle(c, TRUE, [plan EXCEPT ![p] = [state |-> "detected", arms |-> call[c].arms]],
                       evidence)
     \/ /\ kept /\ op = "verify"
        /\ Settle(c, TRUE, [plan EXCEPT ![call[c].plan].state = "verified"], evidence)
     \/ /\ kept /\ op = "refine"
        /\ Settle(c, TRUE, plan, evidence)
     \/ /\ ~kept
        /\ Settle(c, FALSE, plan, evidence)
  /\ UNCHANGED <<taskResult, finalObs, scene, unmoved, queue, viewVars>>
  /\ Unmoving

-----------------------------------------------------------------------------
(* State, inspection and the end of the task *)

Read(c) ==
  /\ pc' = [pc EXCEPT ![c] = "reading"]
  /\ UNCHANGED <<call, current, valid, plan, evidVars>>

\* get_robot_state captures the revision before it asks.
State(c) ==
  /\ Admit(c, "state")
  /\ Read(c)
  /\ unmoved' = unmoved \cup {c}
  /\ watched' = watched \cup {c}
  /\ UNCHANGED <<taskResult, needsRecovery, finalObs, scene, viewed>>
  /\ Unmoving

\* A reported fault makes recovery necessary, also after an interruption.
StateRead(c, report) ==
  /\ pc[c] = "reading" /\ call[c].op = "state"
  /\ needsRecovery' = (needsRecovery \/ report = "fault")
  /\ Settle(c, report # "failed", plan, evidence)
  /\ UNCHANGED <<taskResult, finalObs, scene, unmoved, queue, viewVars>>
  /\ Unmoving

Inspect(c) ==
  /\ Admit(c, "inspect")
  /\ LET p == plan[call[c].plan] IN
     IF p.state = "picked" /\ call[c].arms \subseteq p.arms
     THEN /\ pc' = [pc EXCEPT ![c] = "observing"]
          /\ UNCHANGED <<call, current, valid, plan, evidVars>>
     ELSE Refuse(c)
  /\ UNCHANGED <<taskResult, needsRecovery, finalObs, scene, unmoved, viewVars>>
  /\ Unmoving

Observed(c, ok) ==
  /\ pc[c] = "observing"
  /\ IF ok THEN Read(c) ELSE Settle(c, FALSE, plan, evidence)
  /\ UNCHANGED <<taskResult, needsRecovery, finalObs, scene, unmoved, queue, viewVars>>
  /\ Unmoving

\* The new image replaces what was retained for this arm.
InspectRead(c, report) ==
  /\ pc[c] = "reading" /\ call[c].op = "inspect"
  /\ IF report # "failed" /\ plan[call[c].plan] # Absent
     THEN Settle(c, TRUE, plan,
                 [a \in Arms |-> IF a \in call[c].arms
                    THEN [by |-> c, plan |-> call[c].plan, delivered |-> FALSE]
                    ELSE evidence[a]])
     ELSE Settle(c, FALSE, plan, evidence)
  /\ UNCHANGED <<taskResult, needsRecovery, finalObs, scene, unmoved, queue, viewVars>>
  /\ Unmoving

\* Mutant: the placement or motion since the last observation is not looked at.
FinishableUnseen == ~needsRecovery /\ ~PlanIn(HeldStates \cup {"invalid"})

\* What finish_task(success=true) asks before it reads the state.
Finishable == ~needsRecovery /\ ~PlanIn(HeldStates \cup {"invalid"}) /\ ~finalObs /\ scene

Finish(c) ==
  /\ Admit(c, "finish")
  /\ IF Finishable THEN Read(c) ELSE Refuse(c)
  /\ UNCHANGED <<taskResult, needsRecovery, finalObs, scene, unmoved, viewVars>>
  /\ Unmoving

\* Mutant: the result is kept although the call was interrupted.
RecordedStale(c, report) == IF report = "clean" THEN "success" ELSE "none"

Recorded(c, report) == IF report = "clean" /\ c \in current THEN "success" ELSE "none"

\* task_result is assigned, and reset when the call was interrupted meanwhile.
FinishRead(c, report) ==
  /\ pc[c] = "reading" /\ call[c].op = "finish"
  /\ taskResult' = Recorded(c, report)
  /\ Settle(c, report = "clean", plan, evidence)
  /\ UNCHANGED <<needsRecovery, finalObs, scene, unmoved, queue, viewVars>>
  /\ Unmoving

\* finish_task(success=false) reports failure at once.
GiveUp(c) ==
  /\ Admit(c, "giveUp")
  /\ taskResult' = "failure"
  /\ UNCHANGED <<needsRecovery, plan, evidVars, valid, finalObs, scene, unmoved, viewVars>>
  /\ Answer(c, TRUE)
  /\ Unmoving

-----------------------------------------------------------------------------
(* Images and answers *)

StreamFree == stream = NoCall

Undisturbed == UNCHANGED <<appVars, taskResult, attempts, loaded, adrift, halted>>

\* The state and the frame belong together and to the present.
Fresh(c, sent) == sent /\ c \in current /\ c \in unmoved

\* send_latest_video_frame is over, and a successful state answer is stamped.
FrameDone(c, sent) ==
  LET observed == call[c].op = "state" /\ call[c].ok /\ Fresh(c, sent) IN
  /\ pc[c] = "frame"
  /\ sent => StreamFree /\ ~Unjudged
  /\ finalObs' = (finalObs /\ ~observed)
  /\ scene' = (scene \/ observed)
  /\ viewed' = (viewed \/ (sent /\ c \in watched /\ call[c].ok))
  /\ pc' = [pc EXCEPT ![c] = "reply"]
  /\ current' = current \ {c}
  /\ unmoved' = unmoved \ {c}
  /\ watched' = watched \ {c}
  /\ lastFrame' = IF sent THEN NoCall ELSE lastFrame
  /\ UNCHANGED <<sessionLost, needsRecovery, plan, evidVars, valid, queue, stream, call>>
  /\ Undisturbed

\* The frame could not be written in time: the session is lost, the answer never sent.
FrameLost(c) ==
  /\ pc[c] = "frame"
  /\ Interrupt(TRUE)
  /\ Leave(c)
  /\ UNCHANGED <<finalObs, scene, queue, stream, viewed, lastFrame>>
  /\ Undisturbed

\* A camera frame of the observation stream.
Mosaic ==
  /\ StreamFree
  /\ lastFrame' = NoCall
  /\ UNCHANGED <<appVars, taskVars, needsRecovery, attempts, plan, evidVars, finalObs, scene,
                 current, valid, unmoved, queue, stream, pc, call, robotVars, viewVars>>

\* Mutant: the evidence of the arm is marked, whoever inspected it.
HoldsAny(c) ==
  \E a \in call[c].arms : evidence[a].by # NoCall

\* inspection(observation_id): c's evidence still stands and its plan is picked.
Holds(c) ==
  \E a \in call[c].arms : /\ evidence[a].by = c
                          /\ plan[evidence[a].plan].state = "picked"

\* The evidence of c is dropped when its image could not be delivered.
Dropped(c) == [a \in Arms |-> IF evidence[a].by = c /\ a \in call[c].arms THEN NoEvidence ELSE evidence[a]]

\* Mutant: the stream lock is not kept between the image and its answer.
TakeStreamOnce(c) == UNCHANGED stream

TakeStream(c) == stream' = c

\* The stream is taken for the image and its answer.
Show(c) ==
  /\ pc[c] = "deliver"
  /\ StreamFree
  /\ TakeStream(c)
  /\ IF Holds(c)
     THEN pc' = [pc EXCEPT ![c] = "showing"] /\ UNCHANGED <<call, evidVars>>
     ELSE /\ pc' = [pc EXCEPT ![c] = "reply"]
          /\ call' = [call EXCEPT ![c].ok = FALSE]
          /\ evidence' = Dropped(c)
          /\ shown' = StillShown(Dropped(c))
  /\ UNCHANGED <<sessionLost, needsRecovery, plan, finalObs, scene, valid, unmoved, current, queue,
                 viewVars, lastFrame>>
  /\ Undisturbed

\* The image was written; a stop may have dropped the evidence meanwhile.
ShowDone(c) ==
  /\ pc[c] = "showing"
  /\ pc' = [pc EXCEPT ![c] = "reply"]
  /\ lastFrame' = c
  /\ IF Holds(c)
     THEN /\ evidence' = [a \in Arms |-> IF a \in call[c].arms
                            THEN [evidence[a] EXCEPT !.delivered = TRUE] ELSE evidence[a]]
          /\ shown' = shown \cup {<<a, c>> : a \in call[c].arms}
          /\ UNCHANGED call
     ELSE /\ call' = [call EXCEPT ![c].ok = FALSE]
          /\ evidence' = Dropped(c)
          /\ shown' = StillShown(Dropped(c))
  /\ UNCHANGED <<sessionLost, needsRecovery, plan, finalObs, scene, valid, unmoved, current, queue,
                 stream, viewVars>>
  /\ Undisturbed

\* Writing the image failed: the session is lost, the answer says so.
ShowFailed(c) ==
  /\ pc[c] = "showing"
  /\ Interrupt(TRUE)
  /\ pc' = [pc EXCEPT ![c] = "reply"]
  /\ call' = [call EXCEPT ![c].ok = FALSE]
  /\ UNCHANGED <<finalObs, scene, unmoved, queue, stream, viewVars, lastFrame>>
  /\ Undisturbed

Unlock(c) == stream' = IF stream = c THEN NoCall ELSE stream

\* The answer was written; after it the TOOL_RESULT event is published.
Reply(c) ==
  /\ pc[c] = "reply"
  /\ stream \in {NoCall, c}
  /\ finished' = (finished \/ call[c].op \in {"finish", "giveUp"})
  /\ Unlock(c)
  /\ Leave(c)
  /\ UNCHANGED <<app, taskVars, needsRecovery, attempts, plan, evidVars, finalObs, scene,
                 current, valid, queue, robotVars, viewed, lastFrame>>

\* observation_timeout ran out, or the answer could not be written.
ReplyLost(c) ==
  /\ pc[c] \in {"deliver", "showing", "reply"}
  /\ Interrupt(TRUE)
  /\ Unlock(c)
  /\ Leave(c)
  /\ UNCHANGED <<finalObs, scene, queue, viewed, lastFrame>>
  /\ Undisturbed

-----------------------------------------------------------------------------
(* The application *)

\* The Live session ends by itself.
Disconnect ==
  /\ ~sessionLost
  /\ app \notin {"closing", "closed"}
  /\ Interrupt(TRUE)
  /\ UNCHANGED <<finalObs, scene, unmoved, queue, stream, viewVars, lastFrame, pc, call>>
  /\ Undisturbed

AppOnly == UNCHANGED <<taskResult, attempts, finalObs, scene, unmoved, queue, stream, pc, call,
                       viewVars, lastFrame, loaded, adrift>>

\* The consumer meets the answer of a finish_task; a reported failure stops the arms.
Consume ==
  /\ app = "run"
  /\ finished
  /\ finished' = FALSE
  /\ app' = CASE taskResult = "none" -> "run"
              [] taskResult = "failure" -> "lastStop"
              [] taskResult = "success" -> "done"
  /\ halted' = (halted \/ taskResult = "failure")
  /\ UNCHANGED <<sessionLost, needsRecovery, plan, evidVars, current, valid>>
  /\ AppOnly

AppStep(from, to) ==
  /\ app = from
  /\ app' = to
  /\ UNCHANGED <<finished, sessionLost, needsRecovery, plan, evidVars, current, valid, halted>>
  /\ AppOnly

LastStopped == AppStep("lastStop", "done")

\* run_application returns the result, unless the session was lost first.
Return == ~sessionLost /\ AppStep("done", "closing")

\* Mutant: the loss is only noticed while the consumer runs.
ConsumerRuns == app = "run"

Running == app \in {"run", "lastStop", "done"}

\* Mutant: the arms are not stopped before the tasks are cancelled.
StopLater == UNCHANGED halted

StopFirst == halted' = TRUE

\* The session is lost, or the deadline of the application or the model passed.
Abort ==
  /\ Running
  /\ Interrupt(TRUE)
  /\ app' = "halting"
  /\ StopFirst
  /\ UNCHANGED finished
  /\ AppOnly

\* The stop was answered or failed; cleanup starts either way.
Halted == AppStep("halting", "closing")

\* Cleanup cancels a handler task wherever it is suspended.
Cancel(c) ==
  /\ app = "closing"
  /\ pc[c] # "idle"
  /\ adrift' = (adrift \/ pc[c] = "motion")
  /\ IF pc[c] \in Locked /\ call[c].op \in MotionTools
     THEN needsRecovery' = TRUE /\ Invalidate({})
     ELSE valid' = valid \ {c} /\ UNCHANGED <<needsRecovery, plan, evidVars>>
  /\ current' = current \ {c}
  /\ \/ pc[c] # "queued" /\ UNCHANGED queue
     \/ /\ pc[c] = "queued"
        /\ \E i \in DOMAIN queue :
             /\ queue[i] = c
             /\ queue' = SubSeq(queue, 1, i - 1) \o SubSeq(queue, i + 1, Len(queue))
  /\ Unlock(c)
  /\ Leave(c)
  /\ UNCHANGED <<appVars, taskVars, attempts, finalObs, scene, loaded, halted, viewed, lastFrame>>

Close == (\A c \in Calls : pc[c] = "idle") /\ AppStep("closing", "closed")

-----------------------------------------------------------------------------
(* Specification *)

Init ==
  /\ app = "run" /\ finished = FALSE
  /\ sessionLost = FALSE /\ taskResult = "none"
  /\ needsRecovery = FALSE /\ attempts = 0
  /\ plan = [p \in Plans |-> Absent]
  /\ evidence = [a \in Arms |-> NoEvidence]
  /\ finalObs = FALSE /\ scene = FALSE
  /\ current = {} /\ valid = {} /\ unmoved = {}
  /\ queue = <<>> /\ stream = NoCall
  /\ pc = [c \in Calls |-> "idle"]
  /\ call = [c \in Calls |-> NoTool]
  /\ loaded = {} /\ adrift = FALSE /\ halted = FALSE
  /\ watched = {} /\ viewed = FALSE /\ shown = {} /\ lastFrame = NoCall

\* Taking the lock.
Start(c) ==
  \/ TurnedAway(c) \/ Manual(c) \/ Reset(c) \/ Recover(c)
  \/ \E stage \in Stages : Execute(c, stage)
  \/ Detect(c) \/ Refine(c) \/ Verify(c) \/ State(c) \/ Inspect(c) \/ Finish(c) \/ GiveUp(c)

\* An await under the lock, or the stop tool's, is over.
Resume(c) ==
  \/ \E reply \in {"confirmed", "refused", "unknown"} :
       \/ StopAnswered(c, reply)
       \/ RecoverStopped(c, reply)
       \/ MotionFailed(c, reply)
  \/ MotionConfirmed(c) \/ Rescued(c)
  \/ \E ok \in BOOLEAN : Looked(c, ok) \/ Observed(c, ok)
  \/ \E reply \in {"confirmed", "rejected", "failed"} : Posted(c, reply)
  \/ \E report \in {"clean", "fault", "failed"} :
       StateRead(c, report) \/ InspectRead(c, report) \/ FinishRead(c, report)

\* A write to the Live session is over.
Deliver(c) ==
  \/ \E sent \in BOOLEAN : FrameDone(c, sent)
  \/ FrameLost(c) \/ Show(c) \/ ShowDone(c) \/ ShowFailed(c) \/ Reply(c) \/ ReplyLost(c)

Application == Consume \/ LastStopped \/ Return \/ Abort \/ Halted \/ Close

Next ==
  \/ \E c \in Calls : Call(c) \/ CallStop(c) \/ Start(c) \/ Resume(c) \/ Deliver(c) \/ Cancel(c)
  \/ Mosaic \/ Disconnect \/ Application

Spec == Init /\ [][Next]_vars

\* Every await of the agent is bounded (asyncio.timeout around requests, writes and
\* observations), the lock is handed out in order and the loop runs what is ready.
\* Nothing obliges the model to call tools.
FairSpec ==
  /\ Spec
  /\ \A c \in Calls : WF_vars(Start(c)) /\ WF_vars(Resume(c)) /\ WF_vars(Deliver(c)) /\ WF_vars(Cancel(c))
  /\ WF_vars(sessionLost /\ Abort) /\ WF_vars(Consume \/ LastStopped \/ Return)
  /\ WF_vars(Halted) /\ WF_vars(Close)

-----------------------------------------------------------------------------
(* Properties *)

\* Every variable stays in its type: in particular a call is suspended where its
\* tool suspends, and the recovery budget is respected.
TypeOK ==
  /\ app \in {"run", "lastStop", "done", "halting", "closing", "closed"}
  /\ taskResult \in {"none", "success", "failure"}
  /\ {finished, sessionLost, needsRecovery, finalObs, scene, adrift, halted, viewed} \subseteq BOOLEAN
  /\ attempts \in 0..MaxRecovery
  /\ plan \in [Plans -> [state: PlanStates, arms: SUBSET Arms]]
  /\ evidence \in [Arms -> [by: Calls \cup {NoCall}, plan: Plans \cup {NoPlan}, delivered: BOOLEAN]]
  /\ current \subseteq Calls /\ valid \subseteq Calls /\ unmoved \subseteq Calls /\ watched \subseteq Calls
  /\ queue \in Seq(Calls)
  /\ stream \in Calls \cup {NoCall} /\ lastFrame \in Calls \cup {NoCall}
  /\ pc \in [Calls -> Locked \cup {"idle", "queued", "halt", "frame", "deliver", "showing", "reply"}]
  /\ call \in [Calls -> CallRecords]
  /\ \A c \in Calls : call[c].op \in Stages \cup {"refine", "inspect", "verify"} => call[c].plan \in Plans
  /\ loaded \subseteq Plans /\ shown \subseteq Arms \X Calls

\* An object that a pick may have left in a gripper is never forgotten: its plan is
\* held, or its pick is under way, or recovery is owed, whatever was interrupted,
\* cancelled, refused or lost since (ros2_embodiment.py:77-84, 119-123, 176-180,
\* manipulation.py:125-134).
HeldIsAccounted ==
  \A p \in loaded :
    \/ needsRecovery
    \/ plan[p].state \in HeldStates
    \/ \E c \in Calls : pc[c] = "motion" /\ call[c].op = "pick" /\ call[c].plan = p

\* An interruption that met a motion leaves recovery owed for as long as the motion's
\* request is unanswered, and nothing that was planned before (77-84).
InterruptionOwesRecovery ==
  \A c \in Calls :
    pc[c] \in {"recoverStop", "motion", "rescue"} /\ c \notin current
      => needsRecovery /\ ~PlanIn(PlanStates \ {"absent"})

\* A motion whose request ended without a definite answer, by an error or by being
\* cancelled, was followed by a stop (100-108, run_ros2.py:88-97).
UncertainIsStopped == adrift => halted

\* What may be judged: images the model was shown, of a grasp that still counts as
\* picked, with one owner per retained image (manipulation.py:123, 150-185,
\* live_session.py:133-147).
EvidenceIsGenuine ==
  \A a \in Arms :
    /\ evidence[a].delivered => <<a, evidence[a].by>> \in shown
    /\ evidence[a] # NoEvidence => plan[evidence[a].plan].state = "picked" /\ a \in plan[evidence[a].plan].arms

\* A motion request is sent by a call that was made after the last stop, in a session
\* that was neither lost nor finished, while no other motion or its rescue is under
\* way, and unless it is the recovery, while none is owed (92-94, 173-181).
MotionHasAuthority ==
  [][\A c \in Calls :
       pc[c] # "motion" /\ pc'[c] = "motion" =>
         /\ c \in current /\ ~sessionLost /\ taskResult = "none"
         /\ call[c].op = "recover" \/ ~needsRecovery
         /\ \A d \in Calls \ {c} : pc[d] \notin {"motion", "rescue", "recoverStop"}]_vars

\* When success is recorded no gripper may hold an object, no motion is uncertain and
\* the model was sent a state and a frame that both began after the last motion
\* request (131-155, live_session.py:97-117).
SuccessIsSound ==
  [][taskResult # "success" /\ taskResult' = "success" => loaded = {} /\ ~adrift /\ viewed]_vars

\* The late result of an interrupted tool changes nothing but what is owed: it brings no
\* plan, evidence, observation or task result (109-115, checkpoint).
InterruptedChangesNothing ==
  [][\A c \in Calls \ current :
       pc[c] \in Locked \cup {"frame"} /\ pc'[c] # pc[c] =>
         /\ taskResult' = taskResult
         /\ \A p \in Plans : plan'[p] \in {plan[p], Absent}
         /\ \A a \in Arms : evidence'[a] \in {evidence[a], NoEvidence}
         /\ finalObs' = finalObs /\ scene' = scene]_vars

\* "The video frame immediately preceding this response is this original inspection
\* image" (manipulation.py:188): no other frame comes between (live_session.py:125-151).
ImagePrecedesAnswer ==
  [][\A c \in Calls :
       Reply(c) /\ call[c].op = "inspect" /\ call[c].ok => lastFrame = c]_vars

\* Every tool call comes to its end: no await, no lock holder and no lock of the
\* stream keeps a call for ever (92, live_session.py:89-95).
EveryCallAnswered == \A c \in Calls : pc[c] # "idle" ~> pc[c] = "idle"

\* A lost session closes the application (run_ros2.py:75-77, 88-115).
LossCloses == sessionLost ~> app = "closed"

\* "Success is rejected while objects are held or faults unresolved."
\* (instruction.md:63)
SuccessMeansSettled ==
  [][taskResult # "success" /\ taskResult' = "success" => ~needsRecovery']_vars
=============================================================================
