-------------------------- MODULE RobotBridgeProofs --------------------------
(***************************************************************************)
(* The structure of RobotBridge's reachable states, for every set of arms, *)
(* plans and tasks and every value of the bounds, in three layers: the     *)
(* types; TaskInv, which relates the suspended tasks, and the generation   *)
(* each captured, to the flags; and PlanInv, which needs it and relates    *)
(* the plan table to the suspended motion.                                 *)
(***************************************************************************)
EXTENDS RobotBridge, TLAPS

-----------------------------------------------------------------------------
(* Type correctness *)

\* The plan tables the operations build are plan tables.
PlanTables == [Plans -> [state: PlanStates, arms: SUBSET Arms]]

LEMMA PlanOperations ==
  ASSUME NEW P \in PlanTables, NEW p, plan \in PlanTables
  PROVE  /\ Invalidate(P) \in PlanTables
         /\ Abandon(P, p) \in PlanTables
         /\ DropOthers(p) \in PlanTables
BY DEF PlanTables, PlanStates, Invalidate, Abandon, DropOthers

\* The ways a step may leave the flags and tasks: all of them keep the types.
TaskTypes ==
  /\ busy \in BOOLEAN
  /\ uncertain \in BOOLEAN
  /\ recovery \in BOOLEAN
  /\ active \in SUBSET Arms
  /\ plan \in PlanTables
  /\ pc \in [Tasks -> MotionStates \cup {"idle", "stop"}]
  /\ job \in [Tasks -> Jobs]
  /\ step \in [Tasks -> Nat]

LEMMA NoJobType == NoJob \in Jobs
BY ConstantsAssumption DEF NoJob, Jobs

LEMMA FinishTypes ==
  ASSUME TypeOK, NEW t \in Tasks, NEW unknown \in BOOLEAN, NEW P \in PlanTables,
         Finish(t, unknown, P)
  PROVE  TaskTypes'
<1>1. plan' \in PlanTables
  BY PlanOperations DEF Finish, TypeOK, PlanTables
<1>2. uncertain' \in BOOLEAN
  BY Zenon DEF Finish, TypeOK
<1>3. /\ busy' \in BOOLEAN
      /\ recovery' \in BOOLEAN
      /\ active' \in SUBSET Arms
  BY DEF Finish
<1>4. /\ pc' \in [Tasks -> MotionStates \cup {"idle", "stop"}]
      /\ job' \in [Tasks -> Jobs]
      /\ step' \in [Tasks -> Nat]
  BY NoJobType DEF Finish, Leave, TypeOK
<1>5. QED
  BY <1>1, <1>2, <1>3, <1>4 DEF TaskTypes

LEMMA FailTypes ==
  ASSUME TypeOK, NEW t \in Tasks, NEW unknown \in BOOLEAN, NEW rec \in BOOLEAN,
         NEW P \in PlanTables, Fail(t, unknown, rec, P)
  PROVE  /\ TaskTypes'
         /\ allStopped' \in BOOLEAN
         /\ haltTried' \in SUBSET Arms
<1>1. allStopped' \in BOOLEAN
  BY DEF Fail, TypeOK
<1>2. haltTried' \in SUBSET Arms
  BY DEF Fail, TypeOK, Jobs
<1>3. CASE Finish(t, unknown \/ Current(t), P)
  <2>1. (unknown \/ Current(t)) \in BOOLEAN
    OBVIOUS
  <2>2. QED
    BY <1>1, <1>2, <1>3, <2>1, FinishTypes
<1>4. CASE /\ pc' = [pc EXCEPT ![t] = IF unknown THEN "haltingUnknown" ELSE "halting"]
           /\ recovery' = rec
           /\ plan' = P
           /\ UNCHANGED <<busy, uncertain, active, job, step>>
  BY <1>1, <1>2, <1>4 DEF TaskTypes, TypeOK, PlanTables, MotionStates
<1>5. QED
  BY <1>3, <1>4 DEF Fail

LEMMA ContinueTypes ==
  ASSUME TypeOK, NEW t \in Tasks, NEW k \in Nat, NEW base \in SUBSET Arms,
         Continue(t, k, base)
  PROVE  /\ TaskTypes'
         /\ allStopped' \in BOOLEAN
         /\ haltTried' \in SUBSET Arms
         /\ restless' \in SUBSET Arms
         /\ gripping' \in SUBSET Arms
<1>1. CASE \E unknown \in BOOLEAN : Fail(t, unknown, recovery, plan) /\ restless' = base
                                    /\ UNCHANGED gripping
  BY <1>1, FailTypes DEF TypeOK, PlanTables
<1>2. CASE /\ pc' = [pc EXCEPT ![t] = "sending"]
           /\ step' = [step EXCEPT ![t] = k]
           /\ restless' = base \cup job[t].arms
           /\ haltTried' = haltTried \ job[t].arms
           /\ gripping' = IF Phases[job[t].op][k] = "close" THEN gripping \cup job[t].arms
                          ELSE gripping
           /\ UNCHANGED <<busy, uncertain, recovery, allStopped, active, plan, job>>
  <2>1. job[t].arms \in SUBSET Arms
    BY DEF TypeOK, Jobs
  <2>2. gripping' \in SUBSET Arms
    BY <1>2, <2>1 DEF TypeOK
  <2>3. QED
    BY <1>2, <2>1, <2>2 DEF TaskTypes, TypeOK, PlanTables, MotionStates
<1>3. QED
  BY <1>1, <1>2 DEF Continue

LEMMA BeginTypes ==
  ASSUME TypeOK, NEW t \in Tasks, NEW op \in Ops, NEW arms \in SUBSET Arms,
         NEW p \in Plans \cup {NoPlan}, NEW P \in PlanTables, Begin(t, op, arms, p, P)
  PROVE  TypeOK'
<1>1. plan' \in PlanTables
  <2>1. plan' = P \/ plan' = Abandon(P, p)
    BY DEF Begin
  <2>2. Abandon(P, p) \in PlanTables
    BY PlanOperations DEF TypeOK, PlanTables
  <2>3. QED
    BY <2>1, <2>2
<1>2. coupled' \in SUBSET Arms
  BY DEF Begin, TypeOK
<1>3. job' \in [Tasks -> Jobs]
  <2>1. [op |-> op, arms |-> arms, gen |-> generation, plan |-> p, was |-> FALSE] \in Jobs
    BY DEF Jobs, TypeOK
  <2>2. QED
    BY <2>1 DEF Begin, TypeOK
<1>4. pc' \in [Tasks -> MotionStates \cup {"idle", "stop"}]
  BY DEF Begin, TypeOK, MotionStates
<1>5. QED
  BY <1>1, <1>2, <1>3, <1>4 DEF Begin, TypeOK, PlanTables

LEMMA CreateTypes ==
  ASSUME TypeOK, NEW p \in Plans, NEW arms \in SUBSET Arms, Create(p, arms)
  PROVE  TypeOK'
<1>1. plan' \in PlanTables
  BY DEF Create, TypeOK, PlanTables, PlanStates
<1>2. order' \in Seq(Plans) /\ Len(order') <= MaxPlans
  <2> DEFINE kept == IF TableFull THEN Tail(order) ELSE order
  <2>1. order \in Seq(Plans) /\ Len(order) <= MaxPlans /\ MaxPlans \in Nat \ {0}
    BY ConstantsAssumption DEF TypeOK
  <2>2. kept \in Seq(Plans) /\ Len(kept) < MaxPlans
    <3>1. CASE TableFull
      <4>1. order # <<>>
        BY <2>1, <3>1 DEF TableFull
      <4>2. QED
        BY <2>1, <3>1, <4>1
    <3>2. CASE ~TableFull
      BY <2>1, <3>2 DEF TableFull
    <3>3. QED
      BY <3>1, <3>2
  <2>3. order' = Append(kept, p)
    BY DEF Create
  <2> HIDE DEF kept
  <2>4. QED
    BY <2>1, <2>2, <2>3
<1>3. QED
  BY <1>1, <1>2 DEF Create, TypeOK, PlanTables, taskVars, ghosts

LEMMA RefuseUnhealthyTypes ==
  ASSUME TypeOK, RefuseUnhealthy
  PROVE  TypeOK'
<1>1. plan' \in PlanTables
  BY PlanOperations DEF RefuseUnhealthy, TypeOK, PlanTables
<1>2. QED
  BY <1>1 DEF RefuseUnhealthy, TypeOK, PlanTables, taskVars, ghosts

LEMMA VerifyTypes ==
  ASSUME TypeOK, NEW p \in Plans, NEW observed \in SUBSET Arms, NEW success \in BOOLEAN,
         Verify(p, observed, success)
  PROVE  TypeOK'
<1>1. CASE RefuseUnhealthy
  BY <1>1, RefuseUnhealthyTypes
<1>2. CASE ~RefuseUnhealthy
  <2>1. plan' \in PlanTables
    BY <1>2 DEF Verify, TypeOK, PlanTables, PlanStates
  <2>2. QED
    BY <1>2, <2>1 DEF Verify, TypeOK, PlanTables, taskVars, ghosts
<1>3. QED
  BY <1>1, <1>2

\* What Begin is handed by each of its callers.
LEMMA RequestTypes ==
  ASSUME TypeOK, NEW t \in Tasks
  PROVE  /\ \A p \in Plans, stage \in Stages : ExecutePlan(t, p, stage) => TypeOK'
         /\ \A arms \in Selections : Manual(t, arms) => TypeOK'
         /\ Recover(t) => TypeOK'
<1>1. ASSUME NEW p \in Plans, NEW stage \in Stages, ExecutePlan(t, p, stage)
      PROVE  TypeOK'
  <2>1. DropOthers(p) \in PlanTables
    BY PlanOperations DEF TypeOK, PlanTables
  <2>2. CASE RefuseUnhealthy
    BY <2>2, RefuseUnhealthyTypes
  <2>3. CASE Begin(t, stage, plan[p].arms, p, [DropOthers(p) EXCEPT ![p].state = "executing"])
    <3>1. [DropOthers(p) EXCEPT ![p].state = "executing"] \in PlanTables
      BY <2>1 DEF PlanTables, PlanStates
    <3>2. plan[p].arms \in SUBSET Arms /\ stage \in Ops
      BY DEF TypeOK, Ops
    <3>3. QED
      BY <2>3, <3>1, <3>2, BeginTypes
  <2>4. CASE ~RefuseUnhealthy /\ plan' = DropOthers(p)
              /\ UNCHANGED <<busy, uncertain, recovery, allStopped, generation, active,
                             coupled, closing, order, taskVars, ghosts>>
    BY <2>1, <2>4 DEF TypeOK, PlanTables, taskVars, ghosts
  <2>5. QED
    BY <1>1, <2>2, <2>3, <2>4 DEF ExecutePlan
<1>2. Invalidate(plan) \in PlanTables
  BY PlanOperations DEF TypeOK, PlanTables
<1>3. ASSUME NEW arms \in Selections, Manual(t, arms)
      PROVE  TypeOK'
  <2>1. CASE RefuseUnhealthy
    BY <2>1, RefuseUnhealthyTypes
  <2>2. CASE Begin(t, "manual", arms, NoPlan, Invalidate(plan))
    BY <1>2, <2>2, BeginTypes DEF Ops, Selections
  <2>3. QED
    BY <1>3, <2>1, <2>2 DEF Manual
<1>4. ASSUME Recover(t)
      PROVE  TypeOK'
  <2>1. CASE RefuseUnhealthy
    BY <2>1, RefuseUnhealthyTypes
  <2>2. CASE Begin(t, "recover_arms", Arms, NoPlan, Invalidate(plan))
    BY <1>2, <2>2, BeginTypes DEF Ops
  <2>3. QED
    BY <1>4, <2>1, <2>2 DEF Recover
<1>5. QED
  BY <1>1, <1>3, <1>4

LEMMA DriverReplyTypes ==
  ASSUME TypeOK, NEW t \in Tasks, NEW reply, DriverReply(t, reply)
  PROVE  TypeOK'
<1>0. /\ restless \in SUBSET Arms
      /\ gripping \in SUBSET Arms
      /\ plan \in PlanTables
      /\ recovery \in BOOLEAN
  BY DEF TypeOK, PlanTables
<1>1. ASSUME NEW unknown \in BOOLEAN, Fail(t, unknown, recovery, plan),
             UNCHANGED <<restless, gripping>>
      PROVE  TypeOK'
  BY <1>0, <1>1, FailTypes DEF DriverReply, TypeOK, TaskTypes, PlanTables
<1>2. CASE Continue(t, 1, restless)
  BY <1>0, <1>2, ContinueTypes DEF DriverReply, TypeOK, TaskTypes, PlanTables
<1>3. CASE Finish(t, FALSE, plan) /\ UNCHANGED <<allStopped, ghosts>>
  BY <1>0, <1>3, FinishTypes DEF DriverReply, TypeOK, TaskTypes, PlanTables, ghosts
<1>4. CASE /\ pc' = [pc EXCEPT ![t] = "settling"]
           /\ UNCHANGED <<busy, uncertain, recovery, allStopped, active, plan, job, step, ghosts>>
  BY <1>4 DEF DriverReply, TypeOK, ghosts, MotionStates
<1>5. (reply = "unknown") \in BOOLEAN
  OBVIOUS
<1>6. QED
  BY <1>1, <1>2, <1>3, <1>4, <1>5 DEF DriverReply

LEMMA SettledTypes ==
  ASSUME TypeOK, NEW t \in Tasks, Settled(t) \/ SettleTimeout(t)
  PROVE  TypeOK'
<1>0. /\ restless \in SUBSET Arms
      /\ restless \ job[t].arms \in SUBSET Arms
      /\ gripping \in SUBSET Arms
      /\ plan \in PlanTables
      /\ Invalidate(plan) \in PlanTables
      /\ recovery \in BOOLEAN
      /\ step[t] \in Nat
  BY PlanOperations DEF TypeOK, PlanTables
<1>1. UNCHANGED <<generation, coupled, closing, order>>
  BY DEF Settled, SettleTimeout
<1>2. ASSUME NEW unknown \in BOOLEAN, NEW rec \in BOOLEAN, NEW P \in PlanTables,
             Fail(t, unknown, rec, P), UNCHANGED <<restless, gripping>>
      PROVE  TypeOK'
  BY <1>0, <1>1, <1>2, FailTypes DEF TypeOK, TaskTypes, PlanTables
<1>3. CASE Continue(t, step[t] + 1, restless \ job[t].arms)
  <2>1. step[t] + 1 \in Nat
    BY <1>0
  <2>2. QED
    BY <1>0, <1>1, <1>3, <2>1, ContinueTypes DEF TypeOK, TaskTypes, PlanTables
<1>4. CASE /\ pc' = [pc EXCEPT ![t] = "final"]
           /\ uncertain' = FALSE
           /\ restless' = restless \ job[t].arms
           /\ UNCHANGED <<busy, recovery, allStopped, active, plan, job, step,
                          haltTried, gripping>>
  BY <1>0, <1>1, <1>4 DEF TypeOK, MotionStates
<1>5. QED
  BY <1>0, <1>2, <1>3, <1>4 DEF Settled, SettleTimeout

LEMMA FinalTypes ==
  ASSUME TypeOK, NEW t \in Tasks, FinalState(t) \/ FinalTimeout(t)
  PROVE  TypeOK'
<1>0. /\ plan \in PlanTables
      /\ Invalidate(plan) \in PlanTables
  BY PlanOperations DEF TypeOK, PlanTables
<1>1. UNCHANGED <<generation, closing, order>>
  BY DEF FinalState, FinalTimeout
<1>2. ASSUME NEW unknown \in BOOLEAN, NEW P \in PlanTables, Finish(t, unknown, P),
             UNCHANGED <<allStopped, coupled, ghosts>>
      PROVE  TypeOK'
  BY <1>1, <1>2, FinishTypes DEF TypeOK, TaskTypes, PlanTables, ghosts
<1>3. ASSUME NEW late \in BOOLEAN, Complete(t, late)
      PROVE  TypeOK'
  <2> DEFINE done == IF job[t].op \in Stages
                     THEN [plan EXCEPT ![job[t].plan].state = Reached[job[t].op]] ELSE plan
  <2>1. done \in PlanTables
    <3>1. CASE job[t].op \in Stages
      <4>1. Reached[job[t].op] \in PlanStates
        BY <3>1 DEF Stages, Reached, PlanStates
      <4>2. \A s \in PlanStates : [plan EXCEPT ![job[t].plan].state = s] \in PlanTables
        BY <1>0 DEF PlanTables
      <4>3. QED
        BY <3>1, <4>1, <4>2
    <3>2. CASE job[t].op \notin Stages
      BY <1>0, <3>2
    <3>3. QED
      BY <3>1, <3>2
  <2>2. Invalidate(done) \in PlanTables
    BY <1>0, <2>1, PlanOperations
  <2>3. plan' \in PlanTables
    BY <1>3, <2>1, <2>2 DEF Complete
  <2>4. /\ recovery' \in BOOLEAN
        /\ uncertain' \in BOOLEAN
        /\ allStopped' \in BOOLEAN
    BY <1>3, Zenon DEF Complete, TypeOK
  <2>5. /\ pc' \in [Tasks -> MotionStates \cup {"idle", "stop"}]
        /\ job' \in [Tasks -> Jobs]
        /\ step' \in [Tasks -> Nat]
    BY <1>3, NoJobType DEF Complete, Leave, TypeOK
  <2>6. /\ coupled' \in SUBSET Arms
        /\ gripping' \in SUBSET Arms
    BY <1>3 DEF Complete, TypeOK
  <2>7. QED
    BY <1>1, <1>3, <2>3, <2>4, <2>5, <2>6 DEF Complete, TypeOK, PlanTables
<1>4. QED
  BY <1>0, <1>2, <1>3 DEF FinalState, FinalTimeout

LEMMA HaltReplyTypes ==
  ASSUME TypeOK, NEW t \in Tasks, NEW reply, HaltReply(t, reply)
  PROVE  TypeOK'
<1>1. (~(reply = "confirmed") \/ pc[t] = "haltingUnknown") \in BOOLEAN
  OBVIOUS
<1>2. plan \in PlanTables
  BY DEF TypeOK, PlanTables
<1>3. TaskTypes'
  BY <1>1, <1>2, FinishTypes DEF HaltReply
<1>4. allStopped' \in BOOLEAN
  BY Zenon DEF HaltReply, TypeOK
<1>5. restless' \in SUBSET Arms
  BY DEF HaltReply, TypeOK
<1>6. QED
  BY <1>3, <1>4, <1>5 DEF HaltReply, TypeOK, TaskTypes, PlanTables

LEMMA StopRequestTypes ==
  ASSUME TypeOK, NEW t \in Tasks, NEW requested \in Selections, StopRequest(t, requested)
  PROVE  TypeOK'
<1>1. Expand(requested) \in SUBSET Arms
  BY DEF Expand, Joined, Selections, TypeOK
<1>2. plan' \in PlanTables
  BY PlanOperations DEF StopRequest, TypeOK, PlanTables
<1>3. generation + 1 \in 0..MaxGen
  BY ConstantsAssumption DEF StopRequest, TypeOK
<1>4. job' \in [Tasks -> Jobs]
  <2>1. [op |-> "stop", arms |-> Expand(requested), gen |-> generation + 1,
         plan |-> NoPlan, was |-> uncertain \/ busy] \in Jobs
    BY <1>1, <1>3 DEF Jobs
  <2>2. QED
    BY <2>1 DEF StopRequest, TypeOK
<1>5. pc' \in [Tasks -> MotionStates \cup {"idle", "stop"}]
  BY DEF StopRequest, TypeOK
<1>6. recovery' \in BOOLEAN
  BY Zenon DEF StopRequest, TypeOK
<1>7. haltTried' \in SUBSET Arms
  BY <1>1 DEF StopRequest, TypeOK
<1>8. QED
  BY <1>2, <1>3, <1>4, <1>5, <1>6, <1>7 DEF StopRequest, TypeOK, PlanTables

LEMMA StopReplyTypes ==
  ASSUME TypeOK, NEW t \in Tasks, NEW reply, StopReply(t, reply)
  PROVE  TypeOK'
<1>1. plan' \in PlanTables
  <2>1. plan \in PlanTables /\ Invalidate(plan) \in PlanTables
    BY PlanOperations DEF TypeOK, PlanTables
  <2>2. plan' = plan \/ plan' = Invalidate(plan)
    BY DEF StopReply
  <2>3. QED
    BY <2>1, <2>2
<1>2. /\ uncertain' \in BOOLEAN
      /\ recovery' \in BOOLEAN
      /\ allStopped' \in BOOLEAN
  BY Zenon DEF StopReply, StillUncertain, TypeOK
<1>3. /\ pc' \in [Tasks -> MotionStates \cup {"idle", "stop"}]
      /\ job' \in [Tasks -> Jobs]
      /\ step' \in [Tasks -> Nat]
  BY NoJobType DEF StopReply, Leave, TypeOK
<1>4. restless' \in SUBSET Arms
  BY DEF StopReply, TypeOK
<1>5. QED
  BY <1>1, <1>2, <1>3, <1>4 DEF StopReply, TypeOK, PlanTables

LEMMA InterruptionTypes ==
  ASSUME TypeOK, InvalidateGeometry \/ ClosePending
  PROVE  TypeOK'
<1>1. CASE InvalidateGeometry
  <2>1. plan' \in PlanTables
    BY <1>1, PlanOperations DEF InvalidateGeometry, TypeOK, PlanTables
  <2>2. recovery' \in BOOLEAN
    BY <1>1, Zenon DEF InvalidateGeometry, TypeOK
  <2>3. generation' \in 0..MaxGen
    BY <1>1, ConstantsAssumption DEF InvalidateGeometry, TypeOK
  <2>4. QED
    BY <1>1, <2>1, <2>2, <2>3 DEF InvalidateGeometry, TypeOK, PlanTables, taskVars, ghosts
<1>2. CASE ClosePending
  BY <1>2 DEF ClosePending, TypeOK, taskVars, ghosts
<1>3. QED
  BY <1>1, <1>2

\* Every state of the bridge has the type TypeOK states: in particular the plan
\* table never exceeds its bound and the stop generation is only ever advanced
\* within its own.
THEOREM TypeCorrect == Spec => []TypeOK
<1>1. Init => TypeOK
  <2> SUFFICES ASSUME Init
               PROVE  TypeOK
    OBVIOUS
  <2>1. order \in Seq(Plans) /\ Len(order) <= MaxPlans
    BY ConstantsAssumption DEF Init
  <2>2. plan \in PlanTables
    BY DEF Init, PlanTables, PlanStates
  <2>3. /\ pc \in [Tasks -> MotionStates \cup {"idle", "stop"}]
        /\ job \in [Tasks -> Jobs]
        /\ step \in [Tasks -> Nat]
    BY NoJobType DEF Init
  <2>4. /\ busy \in BOOLEAN /\ uncertain \in BOOLEAN /\ recovery \in BOOLEAN
        /\ allStopped \in BOOLEAN /\ closing \in BOOLEAN
    BY Zenon DEF Init
  <2>5. /\ generation \in 0..MaxGen
        /\ active \in SUBSET Arms /\ coupled \in SUBSET Arms
        /\ restless \in SUBSET Arms /\ haltTried \in SUBSET Arms
        /\ gripping \in SUBSET Arms
    BY ConstantsAssumption DEF Init
  <2>6. QED
    BY <2>1, <2>2, <2>3, <2>4, <2>5 DEF TypeOK, PlanTables
<1>2. TypeOK /\ [Next]_vars => TypeOK'
  <2> SUFFICES ASSUME TypeOK, [Next]_vars
               PROVE  TypeOK'
    OBVIOUS
  <2>1. ASSUME NEW p \in Plans, NEW arms \in Selections, Create(p, arms)
        PROVE  TypeOK'
    BY <2>1, CreateTypes DEF Selections
  <2>2. ASSUME NEW p \in Plans, NEW arms \in Selections, NEW success \in BOOLEAN,
               Verify(p, arms, success)
        PROVE  TypeOK'
    BY <2>2, VerifyTypes DEF Selections
  <2>3. ASSUME NEW t \in Tasks, Request(t)
        PROVE  TypeOK'
    BY <2>3, RequestTypes, StopRequestTypes DEF Request
  <2>4. ASSUME NEW t \in Tasks, Resume(t)
        PROVE  TypeOK'
    BY <2>4, DriverReplyTypes, HaltReplyTypes, StopReplyTypes, SettledTypes, FinalTypes
       DEF Resume
  <2>5. ASSUME NEW t \in Tasks, Expire(t)
        PROVE  TypeOK'
    BY <2>5, DriverReplyTypes, HaltReplyTypes, StopReplyTypes, SettledTypes, FinalTypes
       DEF Expire, CommandTimeout, HaltTimeout, StopTimeout
  <2>6. CASE InvalidateGeometry \/ ClosePending
    BY <2>6, InterruptionTypes
  <2>7. CASE UNCHANGED vars
    BY <2>7 DEF vars, TypeOK
  <2>8. QED
    BY <2>1, <2>2, <2>3, <2>4, <2>5, <2>6, <2>7 DEF Next
<1>3. QED
  BY <1>1, <1>2, PTL DEF Spec

-----------------------------------------------------------------------------
(* The invariant of the tasks and of the plans *)

InMotion(t) == pc[t] \in MotionStates

Stopping(t) == pc[t] = "stop"

\* A motion knows its operation, and has a plan exactly if it runs a stage.
JobShape ==
  \A t \in Tasks : InMotion(t) =>
    /\ job[t].op \in Ops
    /\ job[t].op \in Stages <=> job[t].plan \in Plans

\* No suspended task is ahead of the generation.
GenBounded == \A t \in Tasks : pc[t] # "idle" => job[t].gen <= generation

\* Every stop request advances the generation, so no two share one.
StopsDistinct ==
  \A t, u \in Tasks : Stopping(t) /\ Stopping(u) /\ job[t].gen = job[u].gen => t = u

\* A motion and a stop are never both of the present generation.
StopInterrupts ==
  \A t, u \in Tasks : InMotion(t) /\ Current(t) /\ Stopping(u) => ~Current(u)

TaskInv ==
  /\ OneMotion
  /\ JobShape
  /\ GenBounded
  /\ StopsDistinct
  /\ StopInterrupts
  /\ NewestStopGates

\* Unless it was interrupted or has failed, a motion's plan is executing.
LiveMotionExecutes ==
  \A t \in Tasks :
    pc[t] \in {"sending", "settling", "final"} /\ Current(t) /\ job[t].op \in Stages
      => plan[job[t].plan].state = "executing"

\* A plan is executing only while the motion that executes it is suspended.
ExecutingHasMotion ==
  \A p \in Plans : plan[p].state = "executing" =>
    \E t \in Tasks : InMotion(t) /\ job[t].plan = p

PlanInv ==
  /\ LiveMotionExecutes
  /\ ExecutingHasMotion
  /\ HeldExclusive

-----------------------------------------------------------------------------
(* How a step changes the suspended tasks *)

\* A motion stays suspended, somewhere else.
Advances(t) ==
  /\ \E s \in MotionStates : pc' = [pc EXCEPT ![t] = s]
  /\ UNCHANGED <<busy, active, generation, job>>
  /\ uncertain => uncertain' \/ Current(t)

\* A motion is over.
Ends(t) ==
  /\ Leave(t)
  /\ busy' = FALSE
  /\ active' = {}
  /\ generation' = generation
  /\ uncertain => uncertain'

\* Nothing happens to the tasks.
Rests ==
  /\ UNCHANGED <<busy, active, generation, pc, job>>
  /\ uncertain => uncertain'

\* What a motion does: every reply, state or time-out of a suspended motion
\* moves it on or ends it.
MotionStep(t) ==
  \/ \E reply \in Replies : DriverReply(t, reply) \/ HaltReply(t, reply)
  \/ Settled(t)
  \/ SettleTimeout(t)
  \/ FinalState(t)
  \/ FinalTimeout(t)

LEMMA FinishEnds ==
  ASSUME NEW t \in Tasks, NEW unknown, NEW P, Finish(t, unknown, P), UNCHANGED generation
  PROVE  Ends(t)
BY Zenon DEF Finish, Ends

LEMMA FailMoves ==
  ASSUME NEW t \in Tasks, NEW unknown, NEW rec, NEW P, Fail(t, unknown, rec, P),
         UNCHANGED generation
  PROVE  Advances(t) \/ Ends(t)
<1>1. CASE Finish(t, unknown \/ Current(t), P)
  BY <1>1, FinishEnds
<1>2. CASE /\ pc' = [pc EXCEPT ![t] = IF unknown THEN "haltingUnknown" ELSE "halting"]
           /\ UNCHANGED <<busy, uncertain, active, job, step>>
  <2>1. \E s \in MotionStates : pc' = [pc EXCEPT ![t] = s]
    BY <1>2 DEF MotionStates
  <2>2. QED
    BY <1>2, <2>1 DEF Advances
<1>3. QED
  BY <1>1, <1>2 DEF Fail

LEMMA ContinueMoves ==
  ASSUME NEW t \in Tasks, NEW k, NEW base, Continue(t, k, base), UNCHANGED generation
  PROVE  Advances(t) \/ Ends(t)
<1>1. CASE \E unknown \in BOOLEAN : Fail(t, unknown, recovery, plan)
  BY <1>1, FailMoves
<1>2. CASE /\ pc' = [pc EXCEPT ![t] = "sending"]
           /\ UNCHANGED <<busy, uncertain, recovery, allStopped, active, plan, job>>
  <2>1. \E s \in MotionStates : pc' = [pc EXCEPT ![t] = s]
    BY <1>2 DEF MotionStates
  <2>2. QED
    BY <1>2, <2>1 DEF Advances
<1>3. QED
  BY <1>1, <1>2 DEF Continue

LEMMA MotionSteps ==
  ASSUME TypeOK, NEW t \in Tasks, MotionStep(t)
  PROVE  InMotion(t) /\ (Advances(t) \/ Ends(t))
<1>1. InMotion(t) /\ UNCHANGED generation
  BY DEF MotionStep, DriverReply, HaltReply, Settled, SettleTimeout, FinalState,
         FinalTimeout, InMotion, MotionStates
<1>2. ASSUME NEW reply \in Replies, DriverReply(t, reply)
      PROVE  Advances(t) \/ Ends(t)
  <2>1. CASE \E unknown \in BOOLEAN : Fail(t, unknown, recovery, plan)
    BY <1>1, <2>1, FailMoves
  <2>2. CASE Continue(t, 1, restless)
    BY <1>1, <2>2, ContinueMoves
  <2>3. CASE /\ pc' = [pc EXCEPT ![t] = "settling"]
             /\ UNCHANGED <<busy, uncertain, recovery, allStopped, active, plan, job, step, ghosts>>
    <3>1. \E s \in MotionStates : pc' = [pc EXCEPT ![t] = s]
      BY <2>3 DEF MotionStates
    <3>2. QED
      BY <1>1, <2>3, <3>1 DEF Advances
  <2>4. CASE Finish(t, FALSE, plan)
    BY <1>1, <2>4, FinishEnds
  <2>5. (reply = "unknown") \in BOOLEAN
    OBVIOUS
  <2>6. QED
    BY <1>2, <2>1, <2>2, <2>3, <2>4, <2>5 DEF DriverReply
<1>3. ASSUME NEW reply \in Replies, HaltReply(t, reply)
      PROVE  Ends(t)
  BY <1>1, <1>3, FinishEnds DEF HaltReply
<1>4. CASE Settled(t)
  <2>1. ASSUME NEW unknown \in BOOLEAN, NEW rec, NEW P, Fail(t, unknown, rec, P)
        PROVE  Advances(t) \/ Ends(t)
    BY <1>1, <2>1, FailMoves
  <2>2. CASE Continue(t, step[t] + 1, restless \ job[t].arms)
    BY <1>1, <2>2, ContinueMoves
  <2>3. CASE /\ Current(t)
             /\ pc' = [pc EXCEPT ![t] = "final"]
             /\ UNCHANGED <<busy, recovery, allStopped, active, plan, job, step,
                            haltTried, gripping>>
    <3>1. \E s \in MotionStates : pc' = [pc EXCEPT ![t] = s]
      BY <2>3 DEF MotionStates
    <3>2. QED
      BY <1>1, <2>3, <3>1 DEF Advances
  <2>4. QED
    BY <1>1, <1>4, <2>1, <2>2, <2>3 DEF Settled
<1>5. CASE SettleTimeout(t)
  BY <1>1, <1>5, FailMoves DEF SettleTimeout
<1>6. CASE FinalState(t) \/ FinalTimeout(t)
  <2>1. ASSUME NEW unknown, NEW P, Finish(t, unknown, P)
        PROVE  Ends(t)
    BY <1>1, <2>1, FinishEnds
  <2>2. ASSUME NEW late \in BOOLEAN, Complete(t, late)
        PROVE  Ends(t)
    BY <1>1, <2>2, Zenon DEF Complete, Ends
  <2>3. QED
    BY <1>1, <1>6, <2>1, <2>2 DEF FinalState, FinalTimeout
<1>7. QED
  BY <1>1, <1>2, <1>3, <1>4, <1>5, <1>6 DEF MotionStep

-----------------------------------------------------------------------------
(* The tasks and the flags *)

LEMMA NotMotion == "idle" \notin MotionStates /\ "stop" \notin MotionStates
BY DEF MotionStates

LEMMA RestsKeeps ==
  ASSUME TaskInv, Rests
  PROVE  TaskInv'
<1>1. /\ OneMotion' /\ JobShape' /\ GenBounded' /\ StopsDistinct' /\ StopInterrupts'
  BY DEF TaskInv, Rests, OneMotion, JobShape, GenBounded, StopsDistinct, StopInterrupts,
         InMotion, Stopping, Current
<1>2. NewestStopGates'
  BY Zenon DEF TaskInv, Rests, NewestStopGates
<1>3. QED
  BY <1>1, <1>2 DEF TaskInv

LEMMA AdvancesKeeps ==
  ASSUME TypeOK, TaskInv, NEW t \in Tasks, InMotion(t), Advances(t)
  PROVE  TaskInv'
<1>1. PICK s \in MotionStates : pc' = [pc EXCEPT ![t] = s]
  BY DEF Advances
<1>2. UNCHANGED <<busy, active, generation, job>>
  BY DEF Advances
<1>3. \A u \in Tasks : /\ InMotion(u)' <=> InMotion(u)
                       /\ Stopping(u)' <=> Stopping(u)
                       /\ Current(u)' <=> Current(u)
                       /\ pc'[u] # "idle" <=> pc[u] # "idle"
  BY <1>1, <1>2 DEF TypeOK, InMotion, Stopping, Current, MotionStates
<1>4. OneMotion'
  BY <1>2, <1>3 DEF TaskInv, OneMotion, InMotion
<1>5. /\ JobShape' /\ GenBounded' /\ StopsDistinct' /\ StopInterrupts'
  BY <1>2, <1>3 DEF TaskInv, JobShape, GenBounded, StopsDistinct, StopInterrupts
<1>6. NewestStopGates'
  <2>1. \A u \in Tasks : Stopping(u) /\ Current(u) => uncertain /\ ~Current(t)
    BY Zenon DEF TaskInv, NewestStopGates, StopInterrupts, Stopping, Current
  <2>2. QED
    BY <1>3, <2>1, Zenon DEF Advances, NewestStopGates, Stopping, Current
<1>7. QED
  BY <1>4, <1>5, <1>6 DEF TaskInv

LEMMA EndsKeeps ==
  ASSUME TypeOK, TaskInv, NEW t \in Tasks, InMotion(t), Ends(t)
  PROVE  TaskInv'
<1>1. \A u \in Tasks : u # t => pc'[u] = pc[u] /\ job'[u] = job[u]
  BY DEF Ends, Leave, TypeOK
<1>2. pc'[t] = "idle" /\ generation' = generation
  BY DEF Ends, Leave, TypeOK
<1>3. \A u \in Tasks : pc'[u] \notin MotionStates
  BY <1>1, <1>2, NotMotion DEF TaskInv, OneMotion, InMotion
<1>4. OneMotion'
  BY <1>3 DEF Ends, OneMotion
<1>5. JobShape' /\ StopInterrupts'
  BY <1>3 DEF JobShape, StopInterrupts, InMotion
<1>6. GenBounded'
  BY <1>1, <1>2 DEF TaskInv, GenBounded
<1>7. StopsDistinct'
  BY <1>1, <1>2 DEF TaskInv, StopsDistinct, Stopping
<1>8. NewestStopGates'
  <2>1. \A u \in Tasks : pc'[u] = "stop" /\ job'[u].gen = generation' => uncertain
    BY <1>1, <1>2 DEF TaskInv, NewestStopGates
  <2>2. QED
    BY <2>1, Zenon DEF Ends, NewestStopGates
<1>9. QED
  BY <1>4, <1>5, <1>6, <1>7, <1>8 DEF TaskInv

\* Admission: nothing is uncertain, so no stop of this generation is pending.
LEMMA BeginKeeps ==
  ASSUME TypeOK, TaskInv, ~busy, ~uncertain, NEW t \in Tasks, pc[t] = "idle",
         NEW op \in Ops, NEW arms \in SUBSET Arms, NEW p, NEW P,
         op \in Stages <=> p \in Plans, Begin(t, op, arms, p, P)
  PROVE  TaskInv'
<1>1. \A u \in Tasks : ~InMotion(u) /\ ~(Stopping(u) /\ Current(u))
  BY Zenon DEF TaskInv, OneMotion, NewestStopGates, InMotion, Stopping, Current
<1>2. generation' = generation
  BY DEF Begin
<1>3. CASE UNCHANGED <<busy, active, job, pc>>
  <2>1. NewestStopGates'
    BY <1>1, <1>2, <1>3 DEF NewestStopGates, Stopping, Current
  <2>2. OneMotion' /\ JobShape' /\ GenBounded' /\ StopsDistinct' /\ StopInterrupts'
    BY <1>2, <1>3 DEF TaskInv, OneMotion, JobShape, GenBounded, StopsDistinct,
                      StopInterrupts, InMotion, Stopping, Current
  <2>3. QED
    BY <2>1, <2>2 DEF TaskInv
<1>4. CASE /\ busy' = TRUE
           /\ active' = arms
           /\ job' = [job EXCEPT ![t] = [op |-> op, arms |-> arms, gen |-> generation,
                                         plan |-> p, was |-> FALSE]]
           /\ \E s \in MotionStates : pc' = [pc EXCEPT ![t] = s]
  <2>1. \A u \in Tasks : u # t => /\ pc'[u] = pc[u]
                                 /\ job'[u] = job[u]
                                 /\ pc'[u] \notin MotionStates
    BY <1>1, <1>4 DEF TypeOK, InMotion
  <2>2. /\ pc'[t] \in MotionStates
        /\ pc'[t] # "stop"
        /\ job'[t] = [op |-> op, arms |-> arms, gen |-> generation, plan |-> p, was |-> FALSE]
    BY <1>4, NotMotion DEF TypeOK
  <2>3. OneMotion'
    BY <1>4, <2>1, <2>2 DEF OneMotion
  <2>4. JobShape'
    BY <2>1, <2>2 DEF JobShape, InMotion
  <2>5. GenBounded'
    BY <1>2, <2>1, <2>2 DEF TaskInv, GenBounded, TypeOK
  <2>6. StopsDistinct'
    BY <2>1, <2>2 DEF TaskInv, StopsDistinct, Stopping
  <2>7. StopInterrupts' /\ NewestStopGates'
    BY <1>1, <1>2, <2>1, <2>2 DEF StopInterrupts, NewestStopGates, Stopping, Current
  <2>8. QED
    BY <2>3, <2>4, <2>5, <2>6, <2>7 DEF TaskInv
<1>5. CASE /\ busy' = TRUE
           /\ active' = arms
           /\ job' = [job EXCEPT ![t] = [op |-> op, arms |-> arms, gen |-> generation,
                                         plan |-> p, was |-> FALSE]]
           /\ \/ pc' = [pc EXCEPT ![t] = "sending"]
              \/ \E failing \in {"halting", "haltingUnknown"} :
                   pc' = [pc EXCEPT ![t] = failing]
  <2>1. \E s \in MotionStates : pc' = [pc EXCEPT ![t] = s]
    BY <1>5 DEF MotionStates
  <2>2. QED
    BY <1>4, <1>5, <2>1
<1>6. QED
  BY <1>3, <1>5 DEF Begin

LEMMA StopRequestKeeps ==
  ASSUME TypeOK, TaskInv, NEW t \in Tasks, NEW requested \in Selections,
         StopRequest(t, requested)
  PROVE  TaskInv'
<1>1. /\ generation' = generation + 1
      /\ generation \in Nat
      /\ pc[t] = "idle"
      /\ uncertain'
      /\ UNCHANGED <<busy, active>>
  BY DEF StopRequest, TypeOK
<1>2. NewestStopGates'
  BY <1>1, Zenon DEF NewestStopGates
<1>3. \A u \in Tasks : u # t => pc'[u] = pc[u] /\ job'[u] = job[u]
  BY DEF StopRequest, TypeOK
<1>4. \A u \in Tasks : pc[u] # "idle" =>
        job[u].gen \in Nat /\ job[u].gen <= generation /\ job[u].gen < generation'
  BY <1>1 DEF TypeOK, TaskInv, GenBounded, Jobs
<1>5. pc'[t] = "idle" \/ (pc'[t] = "stop" /\ job'[t].gen = generation')
  BY <1>1 DEF StopRequest, TypeOK
<1>6. /\ pc[t] \notin MotionStates
      /\ pc'[t] \notin MotionStates
  BY <1>1, <1>5, NotMotion
<1>7. OneMotion'
  BY <1>1, <1>3, <1>6 DEF TaskInv, OneMotion
<1>8. JobShape'
  BY <1>3, <1>6 DEF TaskInv, JobShape, InMotion
<1>9. GenBounded'
  BY <1>1, <1>3, <1>4, <1>5 DEF GenBounded
<1>10. StopsDistinct'
  BY <1>1, <1>3, <1>4, <1>5 DEF TaskInv, StopsDistinct, Stopping
<1>11. StopInterrupts'
  <2>1. \A u \in Tasks : pc'[u] \in MotionStates => job'[u].gen < generation'
    BY <1>3, <1>4, <1>6, NotMotion
  <2>2. QED
    BY <1>1, <2>1 DEF StopInterrupts, InMotion, Current
<1>12. QED
  BY <1>2, <1>7, <1>8, <1>9, <1>10, <1>11 DEF TaskInv

\* Only the newest stop may lower uncertain, and it is the only one of its
\* generation.
LEMMA StopReplyKeeps ==
  ASSUME TypeOK, TaskInv, NEW t \in Tasks, NEW reply, StopReply(t, reply)
  PROVE  TaskInv'
<1>1. /\ Stopping(t)
      /\ UNCHANGED <<busy, active, generation>>
      /\ Leave(t)
  BY DEF StopReply, Stopping
<1>2. \A u \in Tasks : u # t => pc'[u] = pc[u] /\ job'[u] = job[u]
  BY <1>1 DEF Leave, TypeOK
<1>3. /\ pc'[t] = "idle"
      /\ pc[t] \notin MotionStates
      /\ pc'[t] \notin MotionStates
  BY <1>1, NotMotion DEF Leave, TypeOK, Stopping
<1>4. OneMotion'
  BY <1>1, <1>2, <1>3 DEF TaskInv, OneMotion
<1>5. JobShape'
  BY <1>1, <1>2, <1>3 DEF TaskInv, JobShape, InMotion
<1>6. GenBounded'
  BY <1>1, <1>2, <1>3 DEF TaskInv, GenBounded
<1>7. StopsDistinct' /\ StopInterrupts'
  BY <1>1, <1>2, <1>3 DEF TaskInv, StopsDistinct, StopInterrupts, InMotion, Stopping, Current
<1>8. NewestStopGates'
  <2>1. CASE ~Current(t)
    <3>1. uncertain' = uncertain
      BY <2>1, Zenon DEF StopReply
    <3>2. \A u \in Tasks : pc'[u] = "stop" /\ job'[u].gen = generation' => uncertain
      BY <1>1, <1>2, <1>3 DEF TaskInv, NewestStopGates
    <3>3. QED
      BY <3>1, <3>2, Zenon DEF NewestStopGates
  <2>2. CASE Current(t)
    <3>1. \A u \in Tasks : ~(pc'[u] = "stop" /\ job'[u].gen = generation')
      BY <1>1, <1>2, <1>3, <2>2 DEF TaskInv, StopsDistinct, Stopping, Current
    <3>2. QED
      BY <3>1, Zenon DEF NewestStopGates
  <2>3. QED
    BY <2>1, <2>2
<1>9. QED
  BY <1>4, <1>5, <1>6, <1>7, <1>8 DEF TaskInv

\* A calibration change or a clock rollback outdates whatever is suspended; when
\* nothing moves, it changes nothing here.
LEMMA InvalidateGeometryKeeps ==
  ASSUME TypeOK, TaskInv, InvalidateGeometry
  PROVE  TaskInv'
<1>1. UNCHANGED <<busy, active, pc, job>>
  BY DEF InvalidateGeometry, taskVars
<1>2. CASE UNCHANGED <<uncertain, generation>>
  BY <1>1, <1>2, RestsKeeps DEF Rests
<1>3. CASE uncertain' = TRUE /\ generation' = generation + 1
  <2>1. generation \in Nat /\ \A u \in Tasks : job[u].gen \in Nat
    BY DEF TypeOK, Jobs
  <2>2. NewestStopGates'
    BY <1>3, Zenon DEF NewestStopGates
  <2>3. OneMotion' /\ JobShape' /\ StopsDistinct'
    BY <1>1 DEF TaskInv, OneMotion, JobShape, StopsDistinct, InMotion, Stopping
  <2>4. GenBounded' /\ StopInterrupts'
    BY <1>1, <1>3, <2>1 DEF TaskInv, GenBounded, StopInterrupts, InMotion, Stopping,
                            Current, MotionStates
  <2>5. QED
    BY <2>2, <2>3, <2>4 DEF TaskInv
<1>4. QED
  BY <1>2, <1>3 DEF InvalidateGeometry

\* The tasks agree with the flags in every step.
LEMMA TasksStep ==
  ASSUME TypeOK, TaskInv, [Next]_vars
  PROVE  TaskInv'
<1>1. CASE UNCHANGED vars
  BY <1>1, RestsKeeps DEF vars, Rests
<1>2. CASE ClosePending \/ InvalidateGeometry
  <2>1. CASE ClosePending
    BY <2>1, RestsKeeps DEF ClosePending, Rests, taskVars
  <2>2. QED
    BY <1>2, <2>1, InvalidateGeometryKeeps
<1>3. RefuseUnhealthy => TaskInv'
  BY RestsKeeps DEF RefuseUnhealthy, Rests, taskVars
<1>4. ASSUME NEW p \in Plans, NEW arms \in Selections, Create(p, arms)
      PROVE  TaskInv'
  BY <1>4, RestsKeeps DEF Create, Rests, taskVars
<1>5. ASSUME NEW p \in Plans, NEW arms \in Selections, NEW success \in BOOLEAN,
             Verify(p, arms, success)
      PROVE  TaskInv'
  BY <1>3, <1>5, RestsKeeps DEF Verify, Rests, taskVars
<1>6. ASSUME NEW t \in Tasks, NEW p \in Plans, NEW stage \in Stages,
             ExecutePlan(t, p, stage)
      PROVE  TaskInv'
  <2>1. CASE Begin(t, stage, plan[p].arms, p, [DropOthers(p) EXCEPT ![p].state = "executing"])
    <3>1. plan[p].arms \in SUBSET Arms /\ stage \in Ops
      BY DEF TypeOK, Ops
    <3>2. ~busy /\ ~uncertain /\ pc[t] = "idle"
      BY <1>6 DEF ExecutePlan, Admissible
    <3>3. QED
      BY <2>1, <3>1, <3>2, BeginKeeps
  <2>2. CASE UNCHANGED <<busy, uncertain, recovery, allStopped, generation, active,
                         coupled, closing, order, taskVars, ghosts>>
    BY <2>2, RestsKeeps DEF Rests, taskVars
  <2>3. QED
    BY <1>3, <1>6, <2>1, <2>2 DEF ExecutePlan
<1>7. ASSUME NEW t \in Tasks, NEW arms \in Selections, Manual(t, arms)
      PROVE  TaskInv'
  <2>1. CASE Begin(t, "manual", arms, NoPlan, Invalidate(plan))
    <3>1. ~busy /\ ~uncertain /\ pc[t] = "idle"
      BY <1>7 DEF Manual, Admissible
    <3>2. "manual" \in Ops /\ ("manual" \in Stages <=> NoPlan \in Plans)
      BY ConstantsAssumption DEF Ops, Stages
    <3>3. QED
      BY <2>1, <3>1, <3>2, BeginKeeps DEF Selections
  <2>2. QED
    BY <1>3, <1>7, <2>1 DEF Manual
<1>8. ASSUME NEW t \in Tasks, Recover(t)
      PROVE  TaskInv'
  <2>1. CASE Begin(t, "recover_arms", Arms, NoPlan, Invalidate(plan))
    <3>1. ~busy /\ ~uncertain /\ pc[t] = "idle"
      BY <1>8 DEF Recover, Admissible
    <3>2. "recover_arms" \in Ops /\ ("recover_arms" \in Stages <=> NoPlan \in Plans)
      BY ConstantsAssumption DEF Ops, Stages
    <3>3. QED
      BY <2>1, <3>1, <3>2, BeginKeeps
  <2>2. QED
    BY <1>3, <1>8, <2>1 DEF Recover
<1>9. ASSUME NEW t \in Tasks, MotionStep(t)
      PROVE  TaskInv'
  BY <1>9, MotionSteps, AdvancesKeeps, EndsKeeps
<1>10. "unknown" \in Replies
  BY ConstantsAssumption
<1>11. ASSUME NEW t \in Tasks, Resume(t) \/ Expire(t)
       PROVE  TaskInv'
  BY <1>9, <1>10, <1>11, StopReplyKeeps
     DEF Resume, Expire, CommandTimeout, HaltTimeout, StopTimeout, MotionStep
<1>12. ASSUME NEW t \in Tasks, Request(t)
       PROVE  TaskInv'
  BY <1>6, <1>7, <1>8, <1>12, StopRequestKeeps DEF Request
<1>13. QED
  BY <1>1, <1>2, <1>4, <1>5, <1>11, <1>12 DEF Next

LEMMA TasksInvariant == Spec => []TaskInv
<1>1. Init => TaskInv
  BY ConstantsAssumption
     DEF Init, TaskInv, OneMotion, JobShape, GenBounded, StopsDistinct, StopInterrupts,
         NewestStopGates, InMotion, Stopping, MotionStates
<1>2. TypeOK /\ TaskInv /\ [Next]_vars => TaskInv'
  BY TasksStep
<1>3. QED
  BY <1>1, <1>2, TypeCorrect, PTL DEF Spec

\* One motion at a time, described by _motion_busy and _active_arm_ids, whatever
\* the arms, plans and requests (OneMotion).
THEOREM SingleMotion == Spec => []OneMotion
<1>1. TaskInv => OneMotion
  BY DEF TaskInv
<1>2. QED
  BY <1>1, TasksInvariant, PTL

\* While the newest stop is unanswered the outcome stays unknown
\* (NewestStopGates): the generation test of the stop and motion replies is
\* enough, however many stops overlap.
THEOREM NewestStopHolds == Spec => []NewestStopGates
<1>1. TaskInv => NewestStopGates
  BY DEF TaskInv
<1>2. QED
  BY <1>1, TasksInvariant, PTL

-----------------------------------------------------------------------------
(* The plans and the motion *)

\* HeldExclusive of any plan table.
Exclusive(P) ==
  \A p, q \in Plans :
    P[p].state \in HeldStates \cup {"executing"} /\ p # q
      => P[q].state \in {"placed", "invalid", "absent"}

\* In the table that is left, nothing but p executes.
OnlyExecutes(P, p) == \A q \in Plans : P[q].state = "executing" => q = p

LEMMA InvalidatedPlans ==
  ASSUME NEW P \in PlanTables
  PROVE  \A p \in Plans : Invalidate(P)[p].state \in {"absent", "placed", "invalid"}
BY DEF Invalidate, PlanTables

LEMMA AbandonedPlans ==
  ASSUME NEW P \in PlanTables, NEW p
  PROVE  /\ Exclusive(P) => Exclusive(Abandon(P, p))
         /\ OnlyExecutes(P, p) => \A q \in Plans : Abandon(P, p)[q].state # "executing"
<1>1. \A q \in Plans : Abandon(P, p)[q].state =
                        IF q = p /\ P[q].state = "executing" THEN "invalid" ELSE P[q].state
  BY DEF Abandon, PlanTables
<1>2. QED
  BY <1>1 DEF Exclusive, OnlyExecutes, HeldStates

\* With a table in which nothing executes and no motion left, the plans are fine.
LEMMA IdlePlans ==
  ASSUME \A u \in Tasks : ~InMotion(u)',
         \A q \in Plans : plan'[q].state # "executing",
         Exclusive(plan')
  PROVE  PlanInv'
<1>1. LiveMotionExecutes'
  BY DEF LiveMotionExecutes, InMotion, MotionStates
<1>2. ExecutingHasMotion' /\ HeldExclusive'
  BY DEF ExecutingHasMotion, HeldExclusive, Exclusive
<1>3. QED
  BY <1>1, <1>2 DEF PlanInv

\* What is known of the plans while t is in motion.
LEMMA MotionOwnsPlan ==
  ASSUME TypeOK, TaskInv, PlanInv, NEW t \in Tasks, InMotion(t)
  PROVE  /\ plan \in PlanTables
         /\ Exclusive(plan)
         /\ OnlyExecutes(plan, job[t].plan)
         /\ Invalidate(plan) \in PlanTables
         /\ Exclusive(Invalidate(plan))
         /\ OnlyExecutes(Invalidate(plan), job[t].plan)
         /\ \A u \in Tasks : InMotion(u) => u = t
<1>1. plan \in PlanTables /\ Exclusive(plan)
  BY DEF TypeOK, PlanTables, PlanInv, HeldExclusive, Exclusive
<1>2. \A u \in Tasks : InMotion(u) => u = t
  BY DEF TaskInv, OneMotion, InMotion
<1>3. OnlyExecutes(plan, job[t].plan)
  BY <1>2 DEF PlanInv, ExecutingHasMotion, OnlyExecutes
<1>4. Invalidate(plan) \in PlanTables
  BY <1>1, PlanOperations
<1>5. Exclusive(Invalidate(plan)) /\ OnlyExecutes(Invalidate(plan), job[t].plan)
  BY <1>1, InvalidatedPlans DEF Exclusive, OnlyExecutes, HeldStates
<1>6. QED
  BY <1>1, <1>2, <1>3, <1>4, <1>5

LEMMA FinishPlans ==
  ASSUME TypeOK, TaskInv, PlanInv, NEW t \in Tasks, InMotion(t), NEW unknown,
         NEW P \in {plan, Invalidate(plan)}, Finish(t, unknown, P)
  PROVE  PlanInv'
<1>1. /\ P \in PlanTables /\ Exclusive(P) /\ OnlyExecutes(P, job[t].plan)
      /\ \A u \in Tasks : InMotion(u) => u = t
  BY MotionOwnsPlan
<1>2. \A u \in Tasks : ~InMotion(u)'
  BY <1>1, NotMotion DEF Finish, Leave, TypeOK, InMotion
<1>3. plan' = Abandon(P, job[t].plan)
  BY DEF Finish
<1>4. QED
  BY <1>1, <1>2, <1>3, AbandonedPlans, IdlePlans

\* A failing motion may invalidate its plan before it has left.
LEMMA FailPlans ==
  ASSUME TypeOK, TaskInv, PlanInv, NEW t \in Tasks, InMotion(t), NEW unknown, NEW rec,
         NEW P \in {plan, Invalidate(plan)}, Fail(t, unknown, rec, P)
  PROVE  PlanInv'
<1>1. CASE Finish(t, unknown \/ Current(t), P)
  BY <1>1, FinishPlans
<1>2. CASE /\ pc' = [pc EXCEPT ![t] = IF unknown THEN "haltingUnknown" ELSE "halting"]
           /\ plan' = P
           /\ UNCHANGED <<busy, uncertain, active, job, step>>
  <2>1. /\ Exclusive(P) /\ OnlyExecutes(P, job[t].plan)
        /\ \A u \in Tasks : InMotion(u) => u = t
    BY MotionOwnsPlan
  <2>2. pc'[t] \in {"halting", "haltingUnknown"} /\ \A u \in Tasks : u # t => pc'[u] = pc[u]
    BY <1>2 DEF TypeOK
  <2>3. LiveMotionExecutes'
    BY <2>1, <2>2 DEF LiveMotionExecutes, InMotion, MotionStates
  <2>4. ExecutingHasMotion'
    BY <1>2, <2>1, <2>2 DEF ExecutingHasMotion, OnlyExecutes, InMotion, MotionStates
  <2>5. HeldExclusive'
    BY <1>2, <2>1 DEF HeldExclusive, Exclusive
  <2>6. QED
    BY <2>3, <2>4, <2>5 DEF PlanInv
<1>3. QED
  BY <1>1, <1>2 DEF Fail

\* A motion that goes on was current and leaves the plans alone.
LEMMA GoOnPlans ==
  ASSUME TypeOK, TaskInv, PlanInv, NEW t \in Tasks, pc[t] \in {"sending", "settling"},
         Current(t), NEW s \in {"sending", "settling", "final"},
         pc' = [pc EXCEPT ![t] = s], UNCHANGED <<generation, job, plan>>
  PROVE  PlanInv'
<1>1. \A u \in Tasks : InMotion(u)' <=> InMotion(u)
  BY DEF InMotion, MotionStates, TypeOK
<1>2. LiveMotionExecutes'
  <2>1. \A u \in Tasks : pc'[u] \in {"sending", "settling", "final"} =>
                          pc[u] \in {"sending", "settling", "final"}
    BY DEF TypeOK
  <2>2. QED
    BY <2>1 DEF PlanInv, LiveMotionExecutes, Current
<1>3. ExecutingHasMotion'
  BY <1>1 DEF PlanInv, ExecutingHasMotion
<1>4. HeldExclusive'
  BY DEF PlanInv, HeldExclusive
<1>5. QED
  BY <1>2, <1>3, <1>4 DEF PlanInv

LEMMA ContinuePlans ==
  ASSUME TypeOK, TaskInv, PlanInv, NEW t \in Tasks, pc[t] \in {"sending", "settling"},
         Current(t), NEW k, NEW base, Continue(t, k, base), UNCHANGED generation
  PROVE  PlanInv'
<1>1. CASE \E unknown \in BOOLEAN : Fail(t, unknown, recovery, plan)
  BY <1>1, FailPlans DEF InMotion, MotionStates
<1>2. CASE /\ pc' = [pc EXCEPT ![t] = "sending"]
           /\ UNCHANGED <<busy, uncertain, recovery, allStopped, active, plan, job>>
  BY <1>2, GoOnPlans
<1>3. QED
  BY <1>1, <1>2 DEF Continue

LEMMA CompletePlans ==
  ASSUME TypeOK, TaskInv, PlanInv, NEW t \in Tasks, pc[t] = "final", Current(t),
         NEW late \in BOOLEAN, Complete(t, late)
  PROVE  PlanInv'
<1> DEFINE done == IF job[t].op \in Stages
                   THEN [plan EXCEPT ![job[t].plan].state = Reached[job[t].op]] ELSE plan
<1>1. InMotion(t)
  BY DEF InMotion, MotionStates
<1>2. /\ plan \in PlanTables /\ Exclusive(plan) /\ OnlyExecutes(plan, job[t].plan)
      /\ \A u \in Tasks : InMotion(u) => u = t
  BY <1>1, MotionOwnsPlan
<1>3. \A u \in Tasks : ~InMotion(u)'
  BY <1>2, NotMotion DEF Complete, Leave, TypeOK, InMotion
<1>4. /\ done \in PlanTables
      /\ Exclusive(done)
      /\ \A q \in Plans : done[q].state # "executing"
  <2>1. CASE job[t].op \in Stages
    <3>1. job[t].plan \in Plans /\ plan[job[t].plan].state = "executing"
      BY <1>1, <2>1 DEF TaskInv, JobShape, PlanInv, LiveMotionExecutes
    <3>2. Reached[job[t].op] \in {"approached", "picked", "placed"}
      BY <2>1 DEF Stages, Reached
    <3>3. done = [plan EXCEPT ![job[t].plan].state = Reached[job[t].op]]
      BY <2>1
    <3>4. done \in PlanTables
      BY <1>2, <3>2, <3>3 DEF PlanTables, PlanStates
    <3>5. /\ done[job[t].plan].state = Reached[job[t].op]
          /\ \A q \in Plans : q # job[t].plan => done[q] = plan[q]
      BY <1>2, <3>1, <3>3 DEF PlanTables
    <3>6. \A q \in Plans : q # job[t].plan => plan[q].state \in {"placed", "invalid", "absent"}
      BY <1>2, <3>1 DEF Exclusive
    <3>7. QED
      BY <3>2, <3>4, <3>5, <3>6 DEF Exclusive, HeldStates
  <2>2. CASE job[t].op \notin Stages
    <3>1. job[t].plan \notin Plans
      BY <1>1, <2>2 DEF TaskInv, JobShape
    <3>2. QED
      BY <1>2, <2>2, <3>1 DEF OnlyExecutes
  <2>3. QED
    BY <2>1, <2>2
<1>5. plan' = IF late THEN Invalidate(done) ELSE done
  BY DEF Complete
<1> HIDE DEF done
<1>6. Exclusive(plan') /\ \A q \in Plans : plan'[q].state # "executing"
  BY <1>4, <1>5, InvalidatedPlans DEF Exclusive, HeldStates
<1>7. QED
  BY <1>3, <1>6, IdlePlans

LEMMA MotionStepPlans ==
  ASSUME TypeOK, TaskInv, PlanInv, NEW t \in Tasks, MotionStep(t)
  PROVE  PlanInv'
<1>1. InMotion(t)
  BY MotionSteps
<1>2. ASSUME NEW reply \in Replies, DriverReply(t, reply)
      PROVE  PlanInv'
  <2>1. pc[t] = "sending" /\ UNCHANGED generation
    BY <1>2 DEF DriverReply
  <2>2. ASSUME NEW unknown \in BOOLEAN, Fail(t, unknown, recovery, plan)
        PROVE  PlanInv'
    BY <1>1, <2>2, FailPlans
  <2>3. CASE Current(t) /\ Continue(t, 1, restless)
    BY <2>1, <2>3, ContinuePlans
  <2>4. CASE /\ Current(t)
             /\ pc' = [pc EXCEPT ![t] = "settling"]
             /\ UNCHANGED <<busy, uncertain, recovery, allStopped, active, plan, job, step, ghosts>>
    BY <2>1, <2>4, GoOnPlans
  <2>5. CASE Finish(t, FALSE, plan)
    BY <1>1, <2>5, FinishPlans
  <2>6. (reply = "unknown") \in BOOLEAN
    OBVIOUS
  <2>7. QED
    BY <1>2, <2>2, <2>3, <2>4, <2>5, <2>6 DEF DriverReply
<1>3. ASSUME NEW reply \in Replies, HaltReply(t, reply)
      PROVE  PlanInv'
  BY <1>1, <1>3, FinishPlans DEF HaltReply
<1>4. CASE Settled(t)
  <2>1. pc[t] = "settling" /\ UNCHANGED generation
    BY <1>4 DEF Settled
  <2>2. ASSUME NEW unknown \in BOOLEAN, NEW rec, NEW P \in {plan, Invalidate(plan)},
               Fail(t, unknown, rec, P)
        PROVE  PlanInv'
    BY <1>1, <2>2, FailPlans
  <2>3. CASE Current(t) /\ Continue(t, step[t] + 1, restless \ job[t].arms)
    BY <2>1, <2>3, ContinuePlans
  <2>4. CASE /\ Current(t)
             /\ pc' = [pc EXCEPT ![t] = "final"]
             /\ UNCHANGED <<busy, recovery, allStopped, active, plan, job, step,
                            haltTried, gripping>>
    BY <2>1, <2>4, GoOnPlans
  <2>5. QED
    BY <1>4, <2>2, <2>3, <2>4 DEF Settled
<1>5. CASE SettleTimeout(t)
  BY <1>1, <1>5, FailPlans DEF SettleTimeout
<1>6. CASE FinalState(t) \/ FinalTimeout(t)
  <2>1. pc[t] = "final"
    BY <1>6 DEF FinalState, FinalTimeout
  <2>2. ASSUME NEW unknown, NEW P \in {plan, Invalidate(plan)}, Finish(t, unknown, P)
        PROVE  PlanInv'
    BY <1>1, <2>2, FinishPlans
  <2>3. ASSUME NEW late \in BOOLEAN, Current(t), Complete(t, late)
        PROVE  PlanInv'
    BY <2>1, <2>3, CompletePlans
  <2>4. QED
    BY <1>6, <2>2, <2>3 DEF FinalState, FinalTimeout
<1>7. QED
  BY <1>2, <1>3, <1>4, <1>5, <1>6 DEF MotionStep

\* A plan table invalidated while the interrupted motion is still suspended.
LEMMA InvalidatePlans ==
  ASSUME TypeOK, plan' = Invalidate(plan),
         \A t \in Tasks : ~(InMotion(t)' /\ Current(t)')
  PROVE  PlanInv'
<1>1. \A p \in Plans : plan'[p].state \in {"absent", "placed", "invalid"}
  BY InvalidatedPlans DEF TypeOK, PlanTables
<1>2. LiveMotionExecutes'
  BY DEF LiveMotionExecutes, InMotion, MotionStates
<1>3. ExecutingHasMotion' /\ HeldExclusive'
  BY <1>1 DEF ExecutingHasMotion, HeldExclusive, HeldStates
<1>4. QED
  BY <1>2, <1>3 DEF PlanInv

\* Steps that change neither the plans nor the motion.
LEMMA SamePlans ==
  ASSUME PlanInv, UNCHANGED <<plan, generation>>,
         \A t \in Tasks : /\ InMotion(t) \/ InMotion(t)' => pc'[t] = pc[t] /\ job'[t] = job[t]
  PROVE  PlanInv'
<1>1. LiveMotionExecutes'
  BY DEF PlanInv, LiveMotionExecutes, InMotion, Current, MotionStates
<1>2. ExecutingHasMotion'
  BY DEF PlanInv, ExecutingHasMotion, InMotion
<1>3. HeldExclusive'
  BY DEF PlanInv, HeldExclusive
<1>4. QED
  BY <1>1, <1>2, <1>3 DEF PlanInv

\* No request is admitted while a plan executes.
LEMMA NothingExecutes ==
  ASSUME TaskInv, PlanInv, ~busy
  PROVE  /\ \A p \in Plans : plan[p].state # "executing"
         /\ \A t \in Tasks : ~InMotion(t)
BY DEF TaskInv, OneMotion, PlanInv, ExecutingHasMotion, InMotion

LEMMA CreatePlans ==
  ASSUME TypeOK, TaskInv, PlanInv, NEW p \in Plans, NEW arms \in Selections, Create(p, arms)
  PROVE  PlanInv'
<1>1. ~busy /\ UNCHANGED <<pc, job, generation>>
  BY DEF Create, Admissible, taskVars
<1>2. \A q \in Plans : plan[q].state \notin HeldStates \cup {"executing"}
  BY <1>1, NothingExecutes DEF Create, PlanIn
<1>3. \A q \in Plans : plan'[q].state \in {plan[q].state, "detected", "absent"}
  BY DEF Create
<1>4. \A q \in Plans : plan'[q].state \notin HeldStates \cup {"executing"}
  BY <1>2, <1>3 DEF HeldStates
<1>5. QED
  BY <1>1, <1>4, NothingExecutes, IdlePlans DEF InMotion, Exclusive

LEMMA VerifyPlans ==
  ASSUME TypeOK, TaskInv, PlanInv, NEW p \in Plans, NEW observed, NEW success,
         Verify(p, observed, success)
  PROVE  PlanInv'
<1>1. ~busy /\ UNCHANGED <<pc, job, generation>>
  BY DEF Verify, Admissible, RefuseUnhealthy, taskVars
<1>2. /\ \A t \in Tasks : ~InMotion(t) /\ ~InMotion(t)'
      /\ \A q \in Plans : plan[q].state # "executing"
  BY <1>1, NothingExecutes DEF InMotion
<1>3. CASE RefuseUnhealthy
  BY <1>2, <1>3, InvalidatePlans DEF RefuseUnhealthy
<1>4. CASE plan[p].state = "picked" /\ plan' = [plan EXCEPT ![p].state = "verified"]
  <2>1. \A q \in Plans : plan'[q].state = IF q = p THEN "verified" ELSE plan[q].state
    BY <1>4 DEF TypeOK
  <2>2. Exclusive(plan')
    BY <1>4, <2>1 DEF PlanInv, HeldExclusive, Exclusive, HeldStates
  <2>3. QED
    BY <1>2, <2>1, <2>2, IdlePlans
<1>5. QED
  BY <1>3, <1>4 DEF Verify

\* P is the plan table of a motion being admitted: only its own plan executes.
LEMMA BeginPlans ==
  ASSUME TypeOK, TaskInv, PlanInv, ~busy, NEW t \in Tasks, pc[t] = "idle",
         NEW op \in Ops, NEW arms, NEW p, NEW P \in PlanTables,
         Begin(t, op, arms, p, P), Exclusive(P), OnlyExecutes(P, p),
         op \in Stages => p \in Plans /\ P[p].state = "executing"
  PROVE  PlanInv'
<1>1. \A u \in Tasks : ~InMotion(u)
  BY NothingExecutes
<1>2. CASE /\ plan' = Abandon(P, p)
           /\ UNCHANGED <<busy, active, job, pc, haltTried>>
  <2>1. \A u \in Tasks : ~InMotion(u)'
    BY <1>1, <1>2 DEF InMotion
  <2>2. QED
    BY <1>2, <2>1, AbandonedPlans, IdlePlans
<1>3. CASE /\ plan' = P
           /\ job' = [job EXCEPT ![t] = [op |-> op, arms |-> arms, gen |-> generation,
                                         plan |-> p, was |-> FALSE]]
           /\ \/ pc' = [pc EXCEPT ![t] = "sending"]
              \/ \E failing \in {"halting", "haltingUnknown"} :
                   pc' = [pc EXCEPT ![t] = failing]
  <2>1. /\ InMotion(t)'
        /\ job'[t].op = op /\ job'[t].plan = p
        /\ \A u \in Tasks : u # t => ~InMotion(u)'
    BY <1>1, <1>3 DEF TypeOK, InMotion, MotionStates
  <2>2. LiveMotionExecutes'
    BY <1>3, <2>1 DEF LiveMotionExecutes, InMotion, MotionStates
  <2>3. ExecutingHasMotion'
    BY <1>3, <2>1 DEF ExecutingHasMotion, OnlyExecutes
  <2>4. HeldExclusive'
    BY <1>3 DEF HeldExclusive, Exclusive
  <2>5. QED
    BY <2>2, <2>3, <2>4 DEF PlanInv
<1>4. QED
  BY <1>2, <1>3 DEF Begin

\* execute_plan leaves its own plan as the only live one.
LEMMA DroppedPlans ==
  ASSUME TypeOK, TaskInv, PlanInv, ~busy, NEW p \in Plans
  PROVE  /\ DropOthers(p) \in PlanTables
         /\ \A q \in Plans : q # p => DropOthers(p)[q].state \in {"placed", "invalid", "absent"}
         /\ DropOthers(p)[p] = plan[p]
         /\ Exclusive(DropOthers(p))
         /\ \A q \in Plans : DropOthers(p)[q].state # "executing"
<1>1. DropOthers(p) \in PlanTables
  BY PlanOperations DEF TypeOK, PlanTables
<1>2. \A q \in Plans : q # p => DropOthers(p)[q].state \in {"placed", "invalid", "absent"}
  BY DEF DropOthers, TypeOK
<1>3. DropOthers(p)[p] = plan[p]
  BY DEF DropOthers
<1>4. QED
  BY <1>1, <1>2, <1>3, NothingExecutes DEF Exclusive, HeldStates

LEMMA RequestPlans ==
  ASSUME TypeOK, TaskInv, PlanInv, NEW t \in Tasks
  PROVE  /\ \A p \in Plans, stage \in Stages : ExecutePlan(t, p, stage) => PlanInv'
         /\ \A arms \in Selections : Manual(t, arms) => PlanInv'
         /\ Recover(t) => PlanInv'
<1>1. ASSUME ~busy, RefuseUnhealthy
      PROVE  PlanInv'
  BY <1>1, NothingExecutes, InvalidatePlans DEF RefuseUnhealthy, taskVars, InMotion
<1>2. ASSUME NEW p \in Plans, NEW stage \in Stages, ExecutePlan(t, p, stage)
      PROVE  PlanInv'
  <2>1. ~busy /\ pc[t] = "idle"
    BY <1>2 DEF ExecutePlan, Admissible
  <2>2. CASE /\ plan' = DropOthers(p)
             /\ UNCHANGED <<busy, uncertain, recovery, allStopped, generation, active,
                            coupled, closing, order, taskVars, ghosts>>
    BY <2>1, <2>2, DroppedPlans, NothingExecutes, IdlePlans DEF taskVars, InMotion
  <2>3. CASE Begin(t, stage, plan[p].arms, p, [DropOthers(p) EXCEPT ![p].state = "executing"])
    <3> DEFINE P == [DropOthers(p) EXCEPT ![p].state = "executing"]
    <3>1. P \in PlanTables
      BY <2>1, DroppedPlans DEF PlanTables, PlanStates
    <3>2. /\ P[p].state = "executing"
          /\ \A q \in Plans : q # p => P[q].state \in {"placed", "invalid", "absent"}
      BY <2>1, DroppedPlans DEF PlanTables
    <3>3. stage \in Ops
      BY DEF Ops
    <3>4. Begin(t, stage, plan[p].arms, p, P)
      BY <2>3
    <3> HIDE DEF P
    <3>5. Exclusive(P) /\ OnlyExecutes(P, p)
      BY <3>2 DEF Exclusive, OnlyExecutes, HeldStates
    <3>6. QED
      BY <2>1, <3>1, <3>2, <3>3, <3>4, <3>5, BeginPlans
  <2>4. QED
    BY <1>1, <1>2, <2>1, <2>2, <2>3 DEF ExecutePlan
<1>3. /\ Invalidate(plan) \in PlanTables
      /\ Exclusive(Invalidate(plan))
      /\ OnlyExecutes(Invalidate(plan), NoPlan)
  <2>1. plan \in PlanTables
    BY DEF TypeOK, PlanTables
  <2>2. QED
    BY <2>1, PlanOperations, InvalidatedPlans DEF Exclusive, OnlyExecutes, HeldStates
<1>4. ASSUME NEW arms \in Selections, Manual(t, arms)
      PROVE  PlanInv'
  <2>1. ~busy /\ pc[t] = "idle"
    BY <1>4 DEF Manual, Admissible
  <2>2. CASE Begin(t, "manual", arms, NoPlan, Invalidate(plan))
    BY <1>3, <2>1, <2>2, BeginPlans DEF Ops, Stages
  <2>3. QED
    BY <1>1, <1>4, <2>1, <2>2 DEF Manual
<1>5. ASSUME Recover(t)
      PROVE  PlanInv'
  <2>1. ~busy /\ pc[t] = "idle"
    BY <1>5 DEF Recover, Admissible
  <2>2. CASE Begin(t, "recover_arms", Arms, NoPlan, Invalidate(plan))
    BY <1>3, <2>1, <2>2, BeginPlans DEF Ops, Stages
  <2>3. QED
    BY <1>1, <1>5, <2>1, <2>2 DEF Recover
<1>6. QED
  BY <1>2, <1>4, <1>5

LEMMA InterruptionPlans ==
  ASSUME TypeOK, TaskInv, PlanInv
  PROVE  /\ \A t \in Tasks, requested \in Selections : StopRequest(t, requested) => PlanInv'
         /\ InvalidateGeometry => PlanInv'
<1>1. \A t \in Tasks : InMotion(t) => job[t].gen \in Nat /\ job[t].gen <= generation
  BY NotMotion DEF TypeOK, Jobs, TaskInv, GenBounded, InMotion
<1>2. generation \in Nat
  BY DEF TypeOK
<1>3. ASSUME NEW t \in Tasks, NEW requested \in Selections, StopRequest(t, requested)
      PROVE  PlanInv'
  <2>1. generation' = generation + 1 /\ plan' = Invalidate(plan)
    BY <1>3 DEF StopRequest
  <2>2. \A u \in Tasks : InMotion(u)' => InMotion(u) /\ job'[u] = job[u]
    BY <1>3, NotMotion DEF StopRequest, TypeOK, InMotion
  <2>3. QED
    BY <1>1, <1>2, <2>1, <2>2, InvalidatePlans DEF Current
<1>4. ASSUME InvalidateGeometry
      PROVE  PlanInv'
  <2>1. UNCHANGED <<pc, job>> /\ plan' = Invalidate(plan)
    BY <1>4 DEF InvalidateGeometry, taskVars
  <2>2. generation' = generation + 1 \/ \A u \in Tasks : ~InMotion(u)
    BY <1>4, NothingExecutes DEF InvalidateGeometry
  <2>3. QED
    BY <1>1, <1>2, <2>1, <2>2, InvalidatePlans DEF Current, InMotion
<1>5. QED
  BY <1>3, <1>4

LEMMA StopReplyPlans ==
  ASSUME TypeOK, TaskInv, PlanInv, NEW t \in Tasks, NEW reply, StopReply(t, reply)
  PROVE  PlanInv'
<1>1. Stopping(t) /\ UNCHANGED generation
  BY DEF StopReply, Stopping
<1>2. \A u \in Tasks : InMotion(u) \/ InMotion(u)' => pc'[u] = pc[u] /\ job'[u] = job[u]
  BY <1>1, NotMotion DEF StopReply, Leave, TypeOK, InMotion, Stopping
<1>3. CASE UNCHANGED plan
  BY <1>1, <1>2, <1>3, SamePlans
<1>4. CASE Current(t) /\ plan' = Invalidate(plan)
  <2>1. \A u \in Tasks : ~(InMotion(u)' /\ Current(u)')
    BY <1>1, <1>2, <1>4 DEF TaskInv, StopInterrupts, InMotion, Current
  <2>2. QED
    BY <1>4, <2>1, InvalidatePlans
<1>5. QED
  BY <1>3, <1>4 DEF StopReply

LEMMA PlansStep ==
  ASSUME TypeOK, TaskInv, PlanInv, [Next]_vars
  PROVE  PlanInv'
<1>1. CASE UNCHANGED vars
  BY <1>1, SamePlans DEF vars
<1>2. CASE ClosePending
  BY <1>2, SamePlans DEF ClosePending, taskVars
<1>3. ASSUME NEW p \in Plans, NEW arms \in Selections
      PROVE  /\ Create(p, arms) => PlanInv'
             /\ \A success \in BOOLEAN : Verify(p, arms, success) => PlanInv'
  BY CreatePlans, VerifyPlans
<1>4. ASSUME NEW t \in Tasks, Request(t)
      PROVE  PlanInv'
  BY <1>4, RequestPlans, InterruptionPlans DEF Request
<1>5. "unknown" \in Replies
  BY ConstantsAssumption
<1>6. ASSUME NEW t \in Tasks, Resume(t) \/ Expire(t)
      PROVE  PlanInv'
  BY <1>5, <1>6, MotionStepPlans, StopReplyPlans
     DEF Resume, Expire, CommandTimeout, HaltTimeout, StopTimeout, MotionStep
<1>7. QED
  BY <1>1, <1>2, <1>3, <1>4, <1>6, InterruptionPlans DEF Next

LEMMA PlansInvariant == Spec => []PlanInv
<1>1. Init => PlanInv
  BY DEF Init, PlanInv, LiveMotionExecutes, ExecutingHasMotion, HeldExclusive, HeldStates,
         InMotion
<1>2. TypeOK /\ TaskInv /\ PlanInv /\ [Next]_vars => PlanInv'
  BY PlansStep
<1>3. QED
  BY <1>1, <1>2, TypeCorrect, TasksInvariant, PTL DEF Spec

\* A plan whose object is, or may be, in a gripper is the only live one
\* (HeldExclusive), for any number of plans, arms and overlapping requests.
THEOREM HeldPlanIsAlone == Spec => []HeldExclusive
<1>1. PlanInv => HeldExclusive
  BY DEF PlanInv
<1>2. QED
  BY <1>1, PlansInvariant, PTL
=============================================================================
