----------------------------- MODULE RobotBridge -----------------------------
(***************************************************************************)
(* Motion admission, sequencing, stopping and recovery in the robot bridge *)
(* (robot_node.py: _workflow, _command, _wait_state, _request,             *)
(* _invalidate_geometry, close_pending; sequencer.py: execute; the plan    *)
(* life cycle of pixels.py).                                               *)
(*                                                                         *)
(* The bridge runs its coroutines on one executor thread, so everything    *)
(* between two awaits is one atomic step.  A task is one /v1 request that  *)
(* suspends; requests that never suspend (create, verify, a refusal) are   *)
(* single actions.  The awaits, and so the control states of a task, are   *)
(*                                                                         *)
(*   sending          a primitive was sent, its driver reply is awaited    *)
(*   settling         the step is done, a fresh stationary state is awaited*)
(*   final            the same wait, once more, after the last step        *)
(*   halting,                                                              *)
(*   haltingUnknown   the sequence failed and awaits its own group stop;   *)
(*                    the second one's error already says outcome=unknown  *)
(*   stop             a /v1/stop request awaits the driver                 *)
(*                                                                         *)
(* Time and telemetry are abstracted: wherever the code tests a deadline   *)
(* or the health of arms (_check_health: healthy, unhealthy or stale),     *)
(* every answer is possible.  restless, haltTried and gripping are history *)
(* variables: no guard reads them.                                         *)
(*                                                                         *)
(* Definitions whose comment starts with "Mutant" are slips a change to    *)
(* the code could introduce.  Nothing uses them; they show that the        *)
(* properties would notice.                                                *)
(***************************************************************************)
EXTENDS Naturals, Sequences

CONSTANTS
  Arms,       \* configured arms
  Plans,      \* names that plan_ids are drawn from
  Tasks,      \* requests that may be suspended at the same time
  NoPlan,     \* the plan of a task that executes none
  MaxPlans,   \* PixelPlans keeps this many plans (32 in the code)
  MaxGen,     \* bound of the model on the stop generation
  Replies     \* the driver replies considered, see ConstantsAssumption

\* What a driver reply amounts to: "unknown" is every 5xx, outcome=unknown or
\* success without an exact coordinated confirmation; "malformed" has
\* completed_arm_ids that sorted() cannot order.
ASSUME ConstantsAssumption ==
  /\ NoPlan \notin Plans
  /\ MaxPlans \in Nat \ {0}
  /\ MaxGen \in Nat
  /\ "unknown" \in Replies
  /\ Replies \subseteq {"confirmed", "refused", "unknown", "malformed"}

VARIABLES
  busy,        \* _motion_busy
  uncertain,   \* _motion_uncertain
  recovery,    \* _recovery_required
  allStopped,  \* _all_stopped
  generation,  \* _generation
  active,      \* _active_arm_ids
  coupled,     \* _coupled_arm_ids
  closing,     \* _closing
  plan,        \* pixels.plans: state and target arms of every plan
  order,       \* insertion order of pixels.plans, the eviction order
  pc,          \* where every task is suspended
  job,         \* what the task captured before its first await
  step,        \* 0 while preparing, then the primitive in progress
  restless,    \* arms a primitive may still be moving
  haltTried,   \* arms a stop was attempted for since their last primitive
  gripping     \* arms that may hold an object a pick closed on

taskVars == <<pc, job, step>>
ghosts   == <<restless, haltTried, gripping>>
vars == <<busy, uncertain, recovery, allStopped, generation, active, coupled,
          closing, plan, order, pc, job, step, restless, haltTried, gripping>>

-----------------------------------------------------------------------------
(* Data *)

Stages == {"approach", "pick", "place"}

Ops == Stages \cup {"manual", "recover_arms"}

PlanStates == {"absent", "detected", "approached", "picked", "verified",
               "executing", "placed", "invalid"}

\* The primitives a compiled operation runs; move and gripper are "manual".
Phases ==
  [approach     |-> <<"approach">>,
   pick         |-> <<"open", "approach", "descend", "close", "lift">>,
   place        |-> <<"transfer", "descend", "open", "retreat">>,
   manual       |-> <<"command">>,
   recover_arms |-> <<"recover">>]

Allowed == [approach |-> {"detected"},
            pick     |-> {"detected", "approached"},
            place    |-> {"verified"}]

Reached == [approach |-> "approached", pick |-> "picked", place |-> "placed"]

Jobs == [op: Ops \cup {"stop"}, arms: SUBSET Arms, gen: 0..MaxGen,
         plan: Plans \cup {NoPlan}, was: BOOLEAN]

NoJob == [op |-> "stop", arms |-> {}, gen |-> 0, plan |-> NoPlan, was |-> FALSE]

MotionStates == {"sending", "settling", "final", "halting", "haltingUnknown"}

IsGroup(S) == \E a, b \in S : a # b

HeldStates == {"picked", "verified"}

PlanIn(states) == \E p \in Plans : plan[p].state \in states

-----------------------------------------------------------------------------
(* Plans *)

\* PixelPlans.invalidate: everything but a placed plan.
Invalidate(P) ==
  [p \in Plans |-> IF P[p].state \in {"absent", "placed"} THEN P[p]
                   ELSE [P[p] EXCEPT !.state = "invalid"]]

\* The finally clause of _workflow: a plan left executing is invalid.
Abandon(P, p) ==
  [q \in Plans |-> IF q = p /\ P[q].state = "executing"
                   THEN [P[q] EXCEPT !.state = "invalid"] ELSE P[q]]

\* Mutant: the loop that drops the other plans is lost.
KeepOthers(p) == plan

\* execute_plan drops every other plan that is not placed, before compiling.
DropOthers(p) ==
  [q \in Plans |-> IF q = p \/ plan[q].state \in {"absent", "placed"} THEN plan[q]
                   ELSE [plan[q] EXCEPT !.state = "invalid"]]

\* Mutant: the busy test is lost.
AdmissibleWhileBusy(op) ==
  /\ ~uncertain
  /\ recovery => op = "recover_arms"

Admissible(op) ==
  /\ ~uncertain
  /\ ~busy
  /\ recovery => op = "recover_arms"

\* Mutant: the eviction loop is off by one.
TableFullLate == Len(order) > MaxPlans

TableFull == Len(order) >= MaxPlans

\* create_plan: refused while a plan holds an object, then bounded by evicting
\* the oldest plan.  A fresh plan_id may take the name of the evicted one.
Create(p, arms) ==
  LET evicted == IF TableFull THEN {Head(order)} ELSE {} IN
  /\ Admissible("create_plan")
  /\ ~PlanIn(HeldStates)
  /\ plan[p].state = "absent" \/ p \in evicted
  /\ plan' = [q \in Plans |->
                IF q = p THEN [state |-> "detected", arms |-> arms]
                ELSE IF q \in evicted THEN [state |-> "absent", arms |-> {}]
                ELSE plan[q]]
  /\ order' = Append(IF TableFull THEN Tail(order) ELSE order, p)
  /\ UNCHANGED <<busy, uncertain, recovery, allStopped, generation, active,
                 coupled, closing, taskVars, ghosts>>

\* A request refused by _check_health.
RefuseUnhealthy ==
  /\ recovery' = TRUE
  /\ plan' = Invalidate(plan)
  /\ UNCHANGED <<busy, uncertain, allStopped, generation, active, coupled,
                 closing, order, taskVars, ghosts>>

\* verify_grasp: the sensors of the observed arms first, then the plan.
Verify(p, observed, success) ==
  /\ Admissible("verify_grasp")
  /\ \/ RefuseUnhealthy
     \/ /\ plan[p].state = "picked"
        /\ plan[p].arms = observed
        /\ success
        /\ plan' = [plan EXCEPT ![p].state = "verified"]
        /\ UNCHANGED <<busy, uncertain, recovery, allStopped, generation, active,
                       coupled, closing, order, taskVars, ghosts>>

-----------------------------------------------------------------------------
(* The end of a motion task and its failure paths *)

\* Mutant: the generation is not compared.
AlwaysCurrent(t) == TRUE

\* Nothing interrupted the task since it captured the generation.
Current(t) == job[t].gen = generation

Leave(t) ==
  /\ pc' = [pc EXCEPT ![t] = "idle"]
  /\ job' = [job EXCEPT ![t] = NoJob]
  /\ step' = [step EXCEPT ![t] = 0]

\* The except and finally clauses of _workflow for a motion that failed.
Finish(t, unknown, P) ==
  /\ Leave(t)
  /\ busy' = FALSE
  /\ active' = {}
  /\ recovery' = TRUE
  /\ uncertain' = (uncertain \/ (unknown /\ Current(t)))
  /\ plan' = Abandon(P, job[t].plan)

\* The except clause of sequencer.execute: unless interrupted, request one stop
\* of the group and await it; a stop that cannot be sent makes the outcome
\* unknown.  rec and P are _recovery_required and the plans at this point.
Fail(t, unknown, rec, P) ==
  /\ UNCHANGED allStopped
  /\ haltTried' = IF Current(t) THEN haltTried \cup job[t].arms ELSE haltTried
  /\ \/ /\ Current(t)
        /\ ~closing
        /\ pc' = [pc EXCEPT ![t] = IF unknown THEN "haltingUnknown" ELSE "halting"]
        /\ recovery' = rec
        /\ plan' = P
        /\ UNCHANGED <<busy, uncertain, active, job, step>>
     \/ Finish(t, unknown \/ Current(t), P)

\* Send primitive k to the driver: base is the restless set before it.
Continue(t, k, base) ==
  LET arms == job[t].arms IN
  \/ /\ ~closing
     /\ pc' = [pc EXCEPT ![t] = "sending"]
     /\ step' = [step EXCEPT ![t] = k]
     /\ restless' = base \cup arms
     /\ haltTried' = haltTried \ arms
     /\ gripping' = IF Phases[job[t].op][k] = "close" THEN gripping \cup arms ELSE gripping
     /\ UNCHANGED <<busy, uncertain, recovery, allStopped, active, plan, job>>
  \/ /\ \E unknown \in BOOLEAN : Fail(t, unknown, recovery, plan)
     /\ restless' = base
     /\ UNCHANGED gripping

-----------------------------------------------------------------------------
(* Motion admission *)

\* From the admission of a motion to its first await.  P is the plan table once
\* the request's own plan, p, is executing.
Begin(t, op, arms, p, P) ==
  /\ allStopped' = FALSE
  /\ coupled' = IF op \in Stages /\ IsGroup(arms) THEN arms ELSE coupled
  /\ \/ /\ ~closing
        /\ busy' = TRUE
        /\ active' = arms
        /\ job' = [job EXCEPT ![t] = [op |-> op, arms |-> arms, gen |-> generation,
                                      plan |-> p, was |-> FALSE]]
        /\ plan' = P
        /\ \/ /\ pc' = [pc EXCEPT ![t] = "sending"]
              /\ UNCHANGED haltTried
           \/ /\ \E failing \in {"halting", "haltingUnknown"} :   \* prepare was not sent
                   pc' = [pc EXCEPT ![t] = failing]
              /\ haltTried' = haltTried \cup arms
        /\ UNCHANGED <<uncertain, recovery>>
     \/ /\ uncertain' \in BOOLEAN           \* expired, or neither prepare nor stop sent
        /\ recovery' = TRUE
        /\ plan' = Abandon(P, p)
        /\ UNCHANGED <<busy, active, job, pc, haltTried>>
  /\ UNCHANGED <<generation, closing, order, step, restless, gripping>>

\* execute_plan; a plan that cannot be compiled still costs the other plans.
ExecutePlan(t, p, stage) ==
  LET arms == plan[p].arms IN
  /\ pc[t] = "idle"
  /\ Admissible("execute_plan")
  /\ plan[p].state \in Allowed[stage]
  /\ \/ RefuseUnhealthy
     \/ /\ plan' = DropOthers(p)
        /\ UNCHANGED <<busy, uncertain, recovery, allStopped, generation, active,
                       coupled, closing, order, taskVars, ghosts>>
     \/ Begin(t, stage, arms, p, [DropOthers(p) EXCEPT ![p].state = "executing"])

\* move and gripper; a held-object plan turns the request into a recovery.
Manual(t, arms) ==
  /\ pc[t] = "idle"
  /\ Admissible("manual")
  /\ \/ RefuseUnhealthy
     \/ ~PlanIn(HeldStates) /\ Begin(t, "manual", arms, NoPlan, Invalidate(plan))

Recover(t) ==
  /\ pc[t] = "idle"
  /\ Admissible("recover_arms")
  /\ allStopped
  /\ \/ RefuseUnhealthy
     \/ Begin(t, "recover_arms", Arms, NoPlan, Invalidate(plan))

-----------------------------------------------------------------------------
(* The sequence *)

\* A driver reply to prepare or to a primitive.  The generation is tested before
\* the reply is looked at; a malformed one raises past the sequencer.
DriverReply(t, reply) ==
  /\ pc[t] = "sending"
  /\ \/ /\ ~Current(t)
        /\ Fail(t, TRUE, recovery, plan)
        /\ UNCHANGED <<restless, gripping>>
     \/ /\ Current(t) /\ reply = "confirmed" /\ step[t] = 0
        /\ Continue(t, 1, restless)
     \/ /\ Current(t) /\ reply = "confirmed" /\ step[t] > 0
        /\ pc' = [pc EXCEPT ![t] = "settling"]
        /\ UNCHANGED <<busy, uncertain, recovery, allStopped, active, plan, job, step, ghosts>>
     \/ /\ Current(t) /\ reply \in {"refused", "unknown"}
        /\ Fail(t, reply = "unknown", recovery, plan)
        /\ UNCHANGED <<restless, gripping>>
     \/ /\ Current(t) /\ reply = "malformed"
        /\ Finish(t, FALSE, plan)
        /\ UNCHANGED <<allStopped, ghosts>>
  /\ UNCHANGED <<generation, coupled, closing, order>>

\* The reply did not come by the deadline (or close_pending ended the wait).
CommandTimeout(t) == DriverReply(t, "unknown")

\* A new stationary state of the group arrived after the primitive.
Settled(t) ==
  LET arms == job[t].arms IN
  /\ pc[t] = "settling"
  /\ \/ /\ ~Current(t)
        /\ Fail(t, TRUE, recovery, plan)
        /\ UNCHANGED <<restless, gripping>>
     \/ /\ Current(t)
        /\ Fail(t, FALSE, TRUE, Invalidate(plan))         \* unhealthy
        /\ UNCHANGED <<restless, gripping>>
     \/ /\ Current(t)
        /\ Fail(t, FALSE, recovery, plan)                 \* stale
        /\ UNCHANGED <<restless, gripping>>
     \/ /\ Current(t) /\ step[t] < Len(Phases[job[t].op])
        /\ Continue(t, step[t] + 1, restless \ arms)
     \/ /\ Current(t) /\ step[t] = Len(Phases[job[t].op])
        /\ pc' = [pc EXCEPT ![t] = "final"]
        /\ uncertain' = FALSE
        /\ restless' = restless \ arms
        /\ UNCHANGED <<busy, recovery, allStopped, active, plan, job, step,
                       haltTried, gripping>>
  /\ UNCHANGED <<generation, coupled, closing, order>>

\* Mutant: the wait for a settled state has no deadline of its own.
SettleForever(t) == FALSE

SettleTimeout(t) ==
  /\ pc[t] = "settling"
  /\ Fail(t, TRUE, recovery, plan)
  /\ UNCHANGED <<generation, coupled, closing, order, restless, gripping>>

\* The motion succeeded.  A reply that is late all the same makes the outcome
\* unknown again (_request).
Complete(t, late) ==
  LET op   == job[t].op
      done == IF op \in Stages THEN [plan EXCEPT ![job[t].plan].state = Reached[op]] ELSE plan
  IN
  /\ Leave(t)
  /\ busy' = FALSE
  /\ active' = {}
  /\ coupled' = IF op \in {"recover_arms", "place"} THEN {} ELSE coupled
  /\ gripping' = IF op \in {"recover_arms", "place"} THEN gripping \ job[t].arms ELSE gripping
  /\ recovery' = (late \/ (recovery /\ op # "recover_arms"))
  /\ uncertain' = (late \/ uncertain)
  /\ allStopped' = (allStopped /\ ~late)
  /\ plan' = IF late THEN Invalidate(done) ELSE done
  /\ UNCHANGED <<restless, haltTried>>

\* The last wait; its failures request no stop, the sequence being over.
FinalState(t) ==
  /\ pc[t] = "final"
  /\ \/ /\ ~Current(t)
        /\ Finish(t, TRUE, plan)
        /\ UNCHANGED <<allStopped, coupled, ghosts>>
     \/ /\ Current(t)
        /\ Finish(t, FALSE, Invalidate(plan))             \* unhealthy
        /\ UNCHANGED <<allStopped, coupled, ghosts>>
     \/ /\ Current(t)
        /\ Finish(t, FALSE, plan)                         \* stale
        /\ UNCHANGED <<allStopped, coupled, ghosts>>
     \/ /\ Current(t)
        /\ \E late \in BOOLEAN : Complete(t, late)
  /\ UNCHANGED <<generation, closing, order>>

FinalTimeout(t) ==
  /\ pc[t] = "final"
  /\ Finish(t, TRUE, plan)
  /\ UNCHANGED <<generation, allStopped, coupled, closing, order, ghosts>>

\* Mutant: a stop of some arms is taken for a stop of all.
CoversSome(arms) == arms # {}

CoversAll(arms) == arms = Arms

\* The reply to the stop a failed sequence sent.
HaltReply(t, reply) ==
  LET arms == job[t].arms
      confirmed == reply = "confirmed"
  IN
  /\ pc[t] \in {"halting", "haltingUnknown"}
  /\ Finish(t, ~confirmed \/ pc[t] = "haltingUnknown", plan)
  /\ allStopped' = IF reply = "malformed" THEN allStopped ELSE confirmed /\ CoversAll(arms)
  /\ restless' = IF confirmed THEN restless \ arms ELSE restless
  /\ UNCHANGED <<generation, coupled, closing, order, haltTried, gripping>>

HaltTimeout(t) == HaltReply(t, "unknown")

-----------------------------------------------------------------------------
(* Stop requests, interruptions and shutdown *)

\* S joined with a group of two or more arms it touches.
Joined(S, group) ==
  IF IsGroup(group) /\ S \cap group # {} THEN S \cup group ELSE S

\* Mutant: the group remembered after its plan was invalidated is not consulted.
ExpandUnremembered(requested) ==
  LET running == Joined(requested, active) IN
  running \cup UNION {Joined(running, plan[p].arms) :
                         p \in {q \in Plans : plan[q].state \in HeldStates \cup {"executing"}}}

\* A partial stop grows to every active, remembered or held group it touches.
\* At most one plan is held or executing (HeldExclusive), so their order is moot.
Expand(requested) ==
  LET running == Joined(Joined(requested, active), coupled) IN
  running \cup UNION {Joined(running, plan[p].arms) :
                         p \in {q \in Plans : plan[q].state \in HeldStates \cup {"executing"}}}

\* Mutant: a held object does not make recovery necessary.
InterruptingMotionOnly == busy

Interrupting == busy \/ PlanIn(HeldStates \cup {"executing"})

\* /v1/stop: admitted whatever the state; it may fail to reach the driver.
StopRequest(t, requested) ==
  LET actual == Expand(requested) IN
  /\ pc[t] = "idle"
  /\ generation < MaxGen
  /\ generation' = generation + 1
  /\ recovery' = (recovery \/ Interrupting)
  /\ plan' = Invalidate(plan)
  /\ uncertain' = TRUE
  /\ allStopped' = FALSE
  /\ \/ /\ ~closing
        /\ pc' = [pc EXCEPT ![t] = "stop"]
        /\ job' = [job EXCEPT ![t] = [op |-> "stop", arms |-> actual, gen |-> generation + 1,
                                      plan |-> NoPlan, was |-> uncertain \/ busy]]
     \/ UNCHANGED <<pc, job>>
  /\ haltTried' = haltTried \cup actual
  /\ UNCHANGED <<busy, active, coupled, closing, order, step, restless, gripping>>

\* Mutant: a confirmed partial stop lifts the uncertainty.
StillUncertainNever(t) == FALSE

\* What a confirmed stop leaves of the uncertainty.
StillUncertain(t) == ~CoversAll(job[t].arms) /\ job[t].was

\* The driver's reply.  Only the newest stop may lift the uncertainty, a partial
\* one only back to what it was.
StopReply(t, reply) ==
  /\ pc[t] = "stop"
  /\ Leave(t)
  /\ restless' = IF reply = "confirmed" THEN restless \ job[t].arms ELSE restless
  /\ \/ /\ ~Current(t) \/ reply \in {"unknown", "malformed"}
        /\ UNCHANGED <<uncertain, recovery, allStopped, plan>>
     \/ /\ Current(t) /\ reply = "confirmed"
        /\ uncertain' = StillUncertain(t)
        /\ allStopped' = (CoversAll(job[t].arms) \/ allStopped)
        /\ UNCHANGED <<recovery, plan>>
     \/ /\ Current(t) /\ reply = "refused"
        /\ uncertain' = TRUE
        /\ UNCHANGED <<recovery, allStopped, plan>>
     \/ /\ Current(t) /\ reply \in {"confirmed", "refused"}  \* answered too late
        /\ uncertain' = TRUE
        /\ recovery' = TRUE
        /\ allStopped' = FALSE
        /\ plan' = Invalidate(plan)
  /\ UNCHANGED <<busy, generation, active, coupled, closing, order, haltTried, gripping>>

StopTimeout(t) == StopReply(t, "unknown")

\* A camera calibration change or a ROS clock rollback.  Both drop every plan and
\* interrupt a motion; neither sends a stop.
InvalidateGeometry ==
  /\ recovery' = (recovery \/ Interrupting)
  /\ plan' = Invalidate(plan)
  /\ \/ /\ busy
        /\ generation < MaxGen
        /\ uncertain' = TRUE
        /\ generation' = generation + 1
     \/ ~busy /\ UNCHANGED <<uncertain, generation>>
  /\ UNCHANGED <<busy, allStopped, active, coupled, closing, order, taskVars, ghosts>>

\* Shutdown: nothing is sent any more, and whatever is awaited times out.
ClosePending ==
  /\ ~closing
  /\ closing' = TRUE
  /\ UNCHANGED <<busy, uncertain, recovery, allStopped, generation, active, coupled,
                 plan, order, taskVars, ghosts>>

-----------------------------------------------------------------------------
(* Specification *)

Init ==
  /\ busy = FALSE
  /\ uncertain = FALSE
  /\ recovery = FALSE
  /\ allStopped = FALSE
  /\ generation = 0
  /\ active = {}
  /\ coupled = {}
  /\ closing = FALSE
  /\ plan = [p \in Plans |-> [state |-> "absent", arms |-> {}]]
  /\ order = <<>>
  /\ pc = [t \in Tasks |-> "idle"]
  /\ job = [t \in Tasks |-> NoJob]
  /\ step = [t \in Tasks |-> 0]
  /\ restless = {}
  /\ haltTried = {}
  /\ gripping = {}

Selections == (SUBSET Arms) \ {{}}

\* The 20 ms timer that expires whatever is awaited.
Expire(t) ==
  \/ CommandTimeout(t)
  \/ SettleTimeout(t)
  \/ FinalTimeout(t)
  \/ HaltTimeout(t)
  \/ StopTimeout(t)

Request(t) ==
  \/ \E p \in Plans, stage \in Stages : ExecutePlan(t, p, stage)
  \/ \E arms \in Selections : Manual(t, arms)
  \/ Recover(t)
  \/ \E requested \in Selections : StopRequest(t, requested)

Resume(t) ==
  \/ \E reply \in Replies : DriverReply(t, reply) \/ HaltReply(t, reply) \/ StopReply(t, reply)
  \/ Settled(t)
  \/ FinalState(t)

Next ==
  \/ \E p \in Plans, arms \in Selections : Create(p, arms)
  \/ \E p \in Plans, arms \in Selections, success \in BOOLEAN : Verify(p, arms, success)
  \/ \E t \in Tasks : Request(t) \/ Resume(t) \/ Expire(t)
  \/ InvalidateGeometry
  \/ ClosePending

Spec == Init /\ [][Next]_vars

\* Only the timer is relied on: the driver and the telemetry may stay silent.
FairSpec == Spec /\ \A t \in Tasks : WF_vars(Expire(t))

-----------------------------------------------------------------------------
(* Properties *)

\* The values the bridge's fields, its plan table and its suspended requests take
\* (RobotBridgeNode.__init__, PixelPlans.plans).
TypeOK ==
  /\ busy \in BOOLEAN
  /\ uncertain \in BOOLEAN
  /\ recovery \in BOOLEAN
  /\ allStopped \in BOOLEAN
  /\ generation \in 0..MaxGen
  /\ active \in SUBSET Arms
  /\ coupled \in SUBSET Arms
  /\ closing \in BOOLEAN
  /\ plan \in [Plans -> [state: PlanStates, arms: SUBSET Arms]]
  /\ order \in Seq(Plans)
  /\ Len(order) <= MaxPlans
  /\ pc \in [Tasks -> MotionStates \cup {"idle", "stop"}]
  /\ job \in [Tasks -> Jobs]
  /\ step \in [Tasks -> Nat]
  /\ restless \in SUBSET Arms
  /\ haltTried \in SUBSET Arms
  /\ gripping \in SUBSET Arms

\* At most one motion coroutine is suspended anywhere between its admission and
\* its finally clause, and _motion_busy and _active_arm_ids describe it, so a
\* second motion can never interleave with it.
OneMotion ==
  /\ \A t, u \in Tasks : pc[t] \in MotionStates /\ pc[u] \in MotionStates => t = u
  /\ busy <=> \E t \in Tasks : pc[t] \in MotionStates
  /\ \A t \in Tasks : pc[t] \in MotionStates => job[t].arms = active

\* A plan whose object is (or may be) in a gripper is the only live plan: every
\* other one is placed, invalid or gone, whatever was created, executed, evicted
\* or interrupted in between.
HeldExclusive ==
  \A p, q \in Plans :
    plan[p].state \in HeldStates \cup {"executing"} /\ p # q
      => plan[q].state \in {"placed", "invalid", "absent"}

FreeToMove == ~busy /\ ~uncertain /\ (recovery => allStopped)

\* The authority of MotionAuthority, read off the flags.
AuthorityHeld ==
  IF uncertain \/ (~busy /\ ~FreeToMove) THEN "blocked"
  ELSE IF ~busy THEN "free"
  ELSE IF \E t \in Tasks : pc[t] \in MotionStates /\ job[t].gen = generation THEN "driving"
  ELSE "draining"

Authority == INSTANCE MotionAuthority WITH authority <- AuthorityHeld

\* The bridge's flags and generations implement the single authority to move:
\* every step of the workflow, the sequencer and the stops maps to one of its
\* steps or to none.
ImplementsAuthority == Authority!Spec

\* The bridge admits a motion only when every arm an earlier primitive was sent
\* to has since been measured stationary or been covered by a confirmed stop.
FreeMeansQuiet == FreeToMove => restless = {}

\* An object a pick closed on is never forgotten: until a confirmed place or
\* recovery, either a held or executing plan covers all the gripping arms or the
\* bridge insists on recovery.
GripAccounted ==
  gripping # {} =>
    \/ recovery
    \/ \E p \in Plans : /\ plan[p].state \in HeldStates \cup {"executing"}
                       /\ gripping \subseteq plan[p].arms

\* While the newest stop is unanswered the outcome stays unknown, so no reply to
\* an older stop or motion lets anything be admitted.
NewestStopGates ==
  \A t \in Tasks : pc[t] = "stop" /\ job[t].gen = generation => uncertain

\* A confirmed stop of all arms is only on record when every arm is quiet.
AllStoppedMeansQuiet == allStopped => restless = {}

\* A stop that touches one of two arms holding an object together is sent for
\* both, even after the plan that joined them was invalidated.
StopCoversGroup ==
  [][\A t \in Tasks :
       pc[t] = "idle" /\ pc'[t] = "stop" /\ IsGroup(gripping) /\ job'[t].arms \cap gripping # {}
         => gripping \subseteq job'[t].arms]_vars

\* Every suspended request is answered, by the deadline timer alone.
EveryRequestAnswered == \A t \in Tasks : pc[t] # "idle" ~> pc[t] = "idle"

\* primitive-adapter.md: a failure prevents further steps and requests group
\* stop.  As a state: once no motion is active, a stop was requested for every
\* arm a primitive may still be moving.
FailureRequestsStop == ~busy => restless \subseteq haltTried
=============================================================================
