-------------------------- MODULE RobotBridgeSafety --------------------------
(***************************************************************************)
(* What the bridge promises about the arms, on top of the structure that   *)
(* RobotBridgeProofs establishes:                                          *)
(*   - no motion is admitted while an arm may still be moving (QuietInv,   *)
(*     behind FreeMeansQuiet and AllStoppedMeansQuiet);                    *)
(*   - an object in a gripper is never forgotten, and a stop covers all    *)
(*     the arms that hold it (GripInv, behind GripAccounted and            *)
(*     StopCoversGroup);                                                   *)
(*   - the bridge implements MotionAuthority.                              *)
(***************************************************************************)
EXTENDS RobotBridgeProofs

-----------------------------------------------------------------------------
(* What each suspended request knows of the restless arms *)

Driving(t) == InMotion(t) /\ Current(t)

\* An uninterrupted motion accounts for every restless arm, and started from a
\* certain outcome.
DriverOwnsRestless ==
  \A t \in Tasks : Driving(t) => restless \subseteq job[t].arms /\ ~allStopped /\ ~uncertain

\* The last wait of a motion starts after its last measurement.
FinalQuiet == \A t \in Tasks : pc[t] = "final" /\ Current(t) => restless = {}

\* The uncertainty a stop remembers is one a motion, if any, was part of; without
\* it, nothing was restless unless recovery was due already.
StopRemembers ==
  \A t \in Tasks : Stopping(t) /\ Current(t) =>
    /\ busy => job[t].was
    /\ job[t].was \/ recovery \/ restless = {}

\* An interrupted motion that a certain outcome already outlived moves nothing.
DrainQuiet == busy /\ ~uncertain /\ (\A t \in Tasks : ~Driving(t)) => restless = {}

QuietInv ==
  /\ AllStoppedMeansQuiet
  /\ FreeMeansQuiet
  /\ DriverOwnsRestless
  /\ FinalQuiet
  /\ StopRemembers
  /\ DrainQuiet

-----------------------------------------------------------------------------
(* How the kinds of step keep QuietInv *)

\* The motion, if there was one, is over.
LEMMA EndedIsQuiet ==
  ASSUME QuietInv, ~busy', \A t \in Tasks : ~InMotion(t)', UNCHANGED generation,
         \A t \in Tasks : Stopping(t)' => Stopping(t) /\ job'[t] = job[t],
         restless' \subseteq restless, recovery => recovery',
         allStopped' => restless' = {},
         ~uncertain' /\ ~recovery' => restless' = {}
  PROVE  QuietInv'
<1>1. AllStoppedMeansQuiet' /\ FreeMeansQuiet'
  BY DEF AllStoppedMeansQuiet, FreeMeansQuiet, FreeToMove
<1>2. DriverOwnsRestless' /\ FinalQuiet' /\ DrainQuiet'
  BY DEF DriverOwnsRestless, FinalQuiet, DrainQuiet, Driving, InMotion, MotionStates
<1>3. StopRemembers'
  BY DEF QuietInv, StopRemembers, Current
<1>4. QED
  BY <1>1, <1>2, <1>3 DEF QuietInv

\* Nobody came or went, and no flag fell.
LEMMA CalmIsQuiet ==
  ASSUME TypeOK, QuietInv, UNCHANGED <<busy, uncertain, allStopped, generation>>,
         \A t \in Tasks : InMotion(t)' <=> InMotion(t),
         \A t \in Tasks : Stopping(t)' => Stopping(t),
         \A t \in Tasks : InMotion(t)' \/ Stopping(t)' => job'[t] = job[t],
         \A t \in Tasks : pc'[t] = "final" => pc[t] = "final",
         restless' \subseteq restless, recovery => recovery'
  PROVE  QuietInv'
<1>1. AllStoppedMeansQuiet' /\ FreeMeansQuiet'
  BY DEF QuietInv, AllStoppedMeansQuiet, FreeMeansQuiet, FreeToMove
<1>2. \A t \in Tasks : /\ Driving(t)' <=> Driving(t)
                       /\ Driving(t) => job'[t] = job[t]
  BY DEF Driving, Current
<1>3. DriverOwnsRestless' /\ DrainQuiet'
  BY <1>2 DEF QuietInv, DriverOwnsRestless, DrainQuiet
<1>4. FinalQuiet'
  BY DEF QuietInv, FinalQuiet, Current, InMotion, MotionStates
<1>5. StopRemembers'
  BY DEF QuietInv, StopRemembers, Current
<1>6. QED
  BY <1>1, <1>3, <1>4, <1>5 DEF QuietInv

\* Nothing is restless any more.
LEMMA AllQuiet ==
  ASSUME restless' = {},
         \A t \in Tasks : Driving(t)' => ~allStopped' /\ ~uncertain',
         \A t \in Tasks : Stopping(t)' /\ Current(t)' /\ busy' => job'[t].was
  PROVE  QuietInv'
BY DEF QuietInv, AllStoppedMeansQuiet, FreeMeansQuiet, DriverOwnsRestless, FinalQuiet,
       StopRemembers, DrainQuiet, Driving

-----------------------------------------------------------------------------
(* The steps of a motion *)

\* A motion that leaves leaves none behind, and touches no stop.
LEMMA LeavingIsAlone ==
  ASSUME TypeOK, TaskInv, NEW t \in Tasks, InMotion(t), Leave(t)
  PROVE  /\ \A u \in Tasks : ~InMotion(u)'
         /\ \A u \in Tasks : Stopping(u)' => Stopping(u) /\ job'[u] = job[u]
BY NotMotion DEF Leave, TypeOK, TaskInv, OneMotion, InMotion, Stopping

LEMMA FinishQuiet ==
  ASSUME TypeOK, TaskInv, QuietInv, NEW t \in Tasks, InMotion(t), NEW unknown, NEW P,
         Finish(t, unknown, P), UNCHANGED generation, restless' \subseteq restless,
         allStopped' => restless' = {}
  PROVE  QuietInv'
<1>1. Leave(t) /\ ~busy' /\ recovery'
  BY DEF Finish
<1>2. QED
  BY <1>1, LeavingIsAlone, EndedIsQuiet

LEMMA FailQuiet ==
  ASSUME TypeOK, TaskInv, QuietInv, NEW t \in Tasks, InMotion(t), NEW unknown,
         NEW rec \in {recovery, TRUE}, NEW P, Fail(t, unknown, rec, P),
         UNCHANGED generation, restless' \subseteq restless
  PROVE  QuietInv'
<1>1. UNCHANGED allStopped /\ (allStopped' => restless' = {})
  BY DEF Fail, QuietInv, AllStoppedMeansQuiet
<1>2. CASE Finish(t, unknown \/ Current(t), P)
  BY <1>1, <1>2, FinishQuiet
<1>3. CASE /\ pc' = [pc EXCEPT ![t] = IF unknown THEN "haltingUnknown" ELSE "halting"]
           /\ recovery' = rec
           /\ UNCHANGED <<busy, uncertain, active, job, step>>
  <2>1. /\ \A u \in Tasks : InMotion(u)' <=> InMotion(u)
        /\ \A u \in Tasks : Stopping(u)' <=> Stopping(u)
        /\ \A u \in Tasks : pc'[u] = "final" => pc[u] = "final"
    BY <1>3 DEF TypeOK, InMotion, Stopping, MotionStates
  <2>2. recovery => recovery'
    BY <1>3
  <2>3. QED
    BY <1>1, <1>3, <2>1, <2>2, CalmIsQuiet
<1>4. QED
  BY <1>2, <1>3 DEF Fail

\* A stop is pending beside an uninterrupted motion only if it is outdated.
LEMMA DrivingAlone ==
  ASSUME TaskInv, NEW t \in Tasks, Driving(t)
  PROVE  /\ \A u \in Tasks : ~(Stopping(u) /\ Current(u))
         /\ \A u \in Tasks : InMotion(u) => u = t
         /\ busy
BY DEF TaskInv, OneMotion, StopInterrupts, Driving, InMotion

\* Sending a primitive: the arms it may move are the motion's own.
LEMMA ContinueQuiet ==
  ASSUME TypeOK, TaskInv, QuietInv, NEW t \in Tasks, Driving(t), NEW k,
         NEW base, base \subseteq restless, Continue(t, k, base), UNCHANGED generation
  PROVE  QuietInv'
<1>1. InMotion(t) /\ base \subseteq job[t].arms /\ ~allStopped /\ ~uncertain
  BY DEF QuietInv, DriverOwnsRestless, Driving
<1>2. ASSUME NEW unknown \in BOOLEAN, Fail(t, unknown, recovery, plan), restless' = base
      PROVE  QuietInv'
  BY <1>1, <1>2, FailQuiet
<1>3. CASE /\ pc' = [pc EXCEPT ![t] = "sending"]
           /\ restless' = base \cup job[t].arms
           /\ UNCHANGED <<busy, uncertain, recovery, allStopped, active, plan, job>>
  <2>1. /\ pc'[t] = "sending"
        /\ \A u \in Tasks : u # t => pc'[u] = pc[u]
    BY <1>3 DEF TypeOK
  <2>2. \A u \in Tasks : InMotion(u)' => u = t
    BY <2>1, DrivingAlone DEF InMotion
  <2>3. \A u \in Tasks : ~(Stopping(u)' /\ Current(u)')
    BY <1>3, <2>1, DrivingAlone DEF Stopping, Current
  <2>4. Driving(t)' /\ busy'
    BY <1>3, <2>1, DrivingAlone DEF Driving, InMotion, Current, MotionStates
  <2>5. AllStoppedMeansQuiet' /\ FreeMeansQuiet'
    BY <1>1, <1>3, <2>4 DEF AllStoppedMeansQuiet, FreeMeansQuiet, FreeToMove
  <2>6. DriverOwnsRestless'
    BY <1>1, <1>3, <2>2 DEF DriverOwnsRestless, Driving
  <2>7. FinalQuiet'
    BY <2>1, <2>2 DEF FinalQuiet, InMotion, MotionStates
  <2>8. StopRemembers' /\ DrainQuiet'
    BY <2>3, <2>4 DEF StopRemembers, DrainQuiet
  <2>9. QED
    BY <2>5, <2>6, <2>7, <2>8 DEF QuietInv
<1>4. QED
  BY <1>2, <1>3 DEF Continue

LEMMA CompleteQuiet ==
  ASSUME TypeOK, TaskInv, QuietInv, NEW t \in Tasks, pc[t] = "final", Current(t),
         NEW late, Complete(t, late)
  PROVE  QuietInv'
<1>1. restless' = {}
  BY DEF Complete, QuietInv, FinalQuiet
<1>2. InMotion(t) /\ Leave(t) /\ ~busy'
  BY DEF Complete, InMotion, MotionStates
<1>3. QED
  BY <1>1, <1>2, LeavingIsAlone, AllQuiet DEF Driving

LEMMA MotionStepQuiet ==
  ASSUME TypeOK, TaskInv, QuietInv, NEW t \in Tasks, MotionStep(t)
  PROVE  QuietInv'
<1>1. InMotion(t)
  BY MotionSteps
<1>2. UNCHANGED allStopped => (allStopped' => restless = {})
  BY DEF QuietInv, AllStoppedMeansQuiet
<1>3. ASSUME NEW reply \in Replies, DriverReply(t, reply)
      PROVE  QuietInv'
  <2>1. UNCHANGED generation
    BY <1>3 DEF DriverReply
  <2>2. ASSUME NEW unknown \in BOOLEAN, Fail(t, unknown, recovery, plan), UNCHANGED restless
        PROVE  QuietInv'
    BY <1>1, <2>1, <2>2, FailQuiet
  <2>3. CASE Current(t) /\ Continue(t, 1, restless)
    BY <1>1, <2>1, <2>3, ContinueQuiet DEF Driving
  <2>4. CASE /\ pc[t] = "sending"
             /\ pc' = [pc EXCEPT ![t] = "settling"]
             /\ UNCHANGED <<busy, uncertain, recovery, allStopped, active, plan, job, step, ghosts>>
    <3>1. /\ \A u \in Tasks : InMotion(u)' <=> InMotion(u)
          /\ \A u \in Tasks : Stopping(u)' <=> Stopping(u)
          /\ \A u \in Tasks : pc'[u] = "final" => pc[u] = "final"
      BY <2>4 DEF TypeOK, InMotion, Stopping, MotionStates
    <3>2. QED
      BY <2>1, <2>4, <3>1, CalmIsQuiet DEF ghosts
  <2>5. CASE Finish(t, FALSE, plan) /\ UNCHANGED <<allStopped, ghosts>>
    BY <1>1, <1>2, <2>1, <2>5, FinishQuiet DEF ghosts
  <2>6. (reply = "unknown") \in BOOLEAN
    OBVIOUS
  <2>7. QED
    BY <1>3, <2>2, <2>3, <2>4, <2>5, <2>6 DEF DriverReply
<1>4. ASSUME NEW reply \in Replies, HaltReply(t, reply)
      PROVE  QuietInv'
  <2>1. restless' \subseteq restless /\ UNCHANGED generation
    BY <1>4 DEF HaltReply
  <2>2. allStopped' => restless' = {}
    <3>1. CASE reply = "malformed"
      BY <1>2, <1>4, <3>1 DEF HaltReply
    <3>2. CASE reply = "confirmed" /\ job[t].arms = Arms
      BY <1>4, <3>2 DEF HaltReply, TypeOK
    <3>3. CASE reply # "malformed" /\ ~(reply = "confirmed" /\ job[t].arms = Arms)
      BY <1>4, <3>3 DEF HaltReply, CoversAll
    <3>4. QED
      BY <3>1, <3>2, <3>3
  <2>3. QED
    BY <1>1, <1>4, <2>1, <2>2, FinishQuiet DEF HaltReply
<1>5. CASE Settled(t)
  <2>1. pc[t] = "settling" /\ UNCHANGED generation
    BY <1>5 DEF Settled
  <2>2. ASSUME NEW unknown \in BOOLEAN, NEW rec \in {recovery, TRUE}, NEW P,
               Fail(t, unknown, rec, P), UNCHANGED restless
        PROVE  QuietInv'
    BY <1>1, <2>1, <2>2, FailQuiet
  <2>3. CASE Current(t) /\ Continue(t, step[t] + 1, restless \ job[t].arms)
    BY <1>1, <2>1, <2>3, ContinueQuiet DEF Driving
  <2>4. CASE /\ Current(t)
             /\ pc' = [pc EXCEPT ![t] = "final"]
             /\ uncertain' = FALSE
             /\ restless' = restless \ job[t].arms
             /\ UNCHANGED <<busy, recovery, allStopped, active, plan, job, step,
                            haltTried, gripping>>
    <3>1. Driving(t) /\ ~allStopped /\ restless' = {}
      BY <1>1, <2>4 DEF QuietInv, DriverOwnsRestless, Driving
    <3>2. \A u \in Tasks : ~(Stopping(u)' /\ Current(u)')
      BY <2>1, <2>4, <3>1, DrivingAlone DEF TypeOK, Stopping, Current
    <3>3. QED
      BY <2>4, <3>1, <3>2, AllQuiet
  <2>5. QED
    BY <1>5, <2>2, <2>3, <2>4 DEF Settled
<1>6. CASE SettleTimeout(t)
  BY <1>1, <1>6, FailQuiet DEF SettleTimeout
<1>7. CASE FinalState(t) \/ FinalTimeout(t)
  <2>1. pc[t] = "final" /\ UNCHANGED generation
    BY <1>7 DEF FinalState, FinalTimeout
  <2>2. ASSUME NEW unknown, NEW P, Finish(t, unknown, P), UNCHANGED <<allStopped, restless>>
        PROVE  QuietInv'
    BY <1>1, <1>2, <2>1, <2>2, FinishQuiet
  <2>3. ASSUME NEW late \in BOOLEAN, Current(t), Complete(t, late)
        PROVE  QuietInv'
    BY <2>1, <2>3, CompleteQuiet
  <2>4. QED
    BY <1>7, <2>2, <2>3 DEF FinalState, FinalTimeout, ghosts
<1>8. QED
  BY <1>3, <1>4, <1>5, <1>6, <1>7 DEF MotionStep

-----------------------------------------------------------------------------
(* Admission, stops and interruptions *)

\* Whatever is admitted is admitted quiet: recovery because a stop of all arms is
\* on record, everything else because the bridge is free to move.
LEMMA AdmittedQuiet ==
  ASSUME QuietInv, NEW op, Admissible(op), op = "recover_arms" => allStopped
  PROVE  restless = {}
BY DEF QuietInv, AllStoppedMeansQuiet, FreeMeansQuiet, FreeToMove, Admissible

LEMMA BeginQuiet ==
  ASSUME TypeOK, TaskInv, ~busy, ~uncertain, restless = {}, NEW t \in Tasks, pc[t] = "idle",
         NEW op, NEW arms, NEW p, NEW P, Begin(t, op, arms, p, P)
  PROVE  QuietInv'
<1>1. restless' = {} /\ allStopped' = FALSE /\ UNCHANGED generation
  BY DEF Begin
<1>2. \A u \in Tasks : ~InMotion(u) /\ ~(Stopping(u) /\ Current(u))
  BY Zenon DEF TaskInv, OneMotion, NewestStopGates, InMotion, Stopping, Current
<1>3. CASE UNCHANGED <<busy, active, job, pc>>
  BY <1>1, <1>2, <1>3, AllQuiet DEF Driving, InMotion, Stopping, Current
<1>4. CASE /\ UNCHANGED uncertain
           /\ job' = [job EXCEPT ![t] = [op |-> op, arms |-> arms, gen |-> generation,
                                         plan |-> p, was |-> FALSE]]
           /\ \/ pc' = [pc EXCEPT ![t] = "sending"]
              \/ \E failing \in {"halting", "haltingUnknown"} :
                   pc' = [pc EXCEPT ![t] = failing]
  <2>1. /\ pc'[t] # "stop"
        /\ \A u \in Tasks : u # t => pc'[u] = pc[u] /\ job'[u] = job[u]
    BY <1>4 DEF TypeOK
  <2>2. \A u \in Tasks : ~(Stopping(u)' /\ Current(u)')
    BY <1>1, <1>2, <2>1 DEF Stopping, Current
  <2>3. QED
    BY <1>1, <1>4, <2>2, AllQuiet
<1>5. QED
  BY <1>3, <1>4 DEF Begin

LEMMA RefuseQuiet ==
  ASSUME TypeOK, QuietInv, RefuseUnhealthy
  PROVE  QuietInv'
BY CalmIsQuiet DEF RefuseUnhealthy, taskVars, ghosts, InMotion, Stopping

LEMMA RequestQuiet ==
  ASSUME TypeOK, TaskInv, QuietInv, NEW t \in Tasks
  PROVE  /\ \A p \in Plans, stage \in Stages : ExecutePlan(t, p, stage) => QuietInv'
         /\ \A arms \in Selections : Manual(t, arms) => QuietInv'
         /\ Recover(t) => QuietInv'
<1>1. ASSUME NEW p \in Plans, NEW stage \in Stages, ExecutePlan(t, p, stage)
      PROVE  QuietInv'
  <2>1. /\ ~busy /\ ~uncertain /\ pc[t] = "idle" /\ Admissible("execute_plan")
    BY <1>1 DEF ExecutePlan, Admissible
  <2>2. restless = {}
    BY <2>1, AdmittedQuiet
  <2>3. CASE UNCHANGED <<busy, uncertain, recovery, allStopped, generation, active,
                         coupled, closing, order, taskVars, ghosts>>
    BY <2>3, CalmIsQuiet DEF taskVars, ghosts, InMotion, Stopping
  <2>4. CASE Begin(t, stage, plan[p].arms, p, [DropOthers(p) EXCEPT ![p].state = "executing"])
    BY <2>1, <2>2, <2>4, BeginQuiet
  <2>5. QED
    BY <1>1, <2>3, <2>4, RefuseQuiet DEF ExecutePlan
<1>2. ASSUME NEW arms \in Selections, Manual(t, arms)
      PROVE  QuietInv'
  <2>1. /\ ~busy /\ ~uncertain /\ pc[t] = "idle" /\ Admissible("manual")
    BY <1>2 DEF Manual, Admissible
  <2>2. restless = {}
    BY <2>1, AdmittedQuiet
  <2>3. QED
    BY <1>2, <2>1, <2>2, BeginQuiet, RefuseQuiet DEF Manual
<1>3. ASSUME Recover(t)
      PROVE  QuietInv'
  <2>1. /\ ~busy /\ ~uncertain /\ pc[t] = "idle" /\ Admissible("recover_arms") /\ allStopped
    BY <1>3 DEF Recover, Admissible
  <2>2. restless = {}
    BY <2>1, AdmittedQuiet
  <2>3. QED
    BY <1>3, <2>1, <2>2, BeginQuiet, RefuseQuiet DEF Recover
<1>4. QED
  BY <1>1, <1>2, <1>3

\* An interruption outdates every suspended task and makes the outcome unknown.
LEMMA OutdatedIsQuiet ==
  ASSUME TypeOK, TaskInv, QuietInv, generation' = generation + 1, uncertain' = TRUE,
         \A t \in Tasks : InMotion(t)' => InMotion(t) /\ job'[t] = job[t],
         allStopped' => restless' = {}, StopRemembers'
  PROVE  QuietInv'
<1>1. \A t \in Tasks : ~Driving(t)'
  <2>1. \A t \in Tasks : InMotion(t) => job[t].gen \in Nat /\ job[t].gen <= generation
    BY NotMotion DEF TypeOK, Jobs, TaskInv, GenBounded, InMotion
  <2>2. generation \in Nat
    BY DEF TypeOK
  <2>3. QED
    BY <2>1, <2>2 DEF Driving, Current
<1>2. AllStoppedMeansQuiet' /\ FreeMeansQuiet' /\ DrainQuiet'
  BY DEF AllStoppedMeansQuiet, FreeMeansQuiet, FreeToMove, DrainQuiet
<1>3. DriverOwnsRestless' /\ FinalQuiet'
  BY <1>1 DEF DriverOwnsRestless, FinalQuiet, Driving, InMotion, MotionStates
<1>4. QED
  BY <1>2, <1>3 DEF QuietInv

LEMMA StopRequestQuiet ==
  ASSUME TypeOK, TaskInv, QuietInv, NEW t \in Tasks, NEW requested \in Selections,
         StopRequest(t, requested)
  PROVE  QuietInv'
<1>1. /\ generation' = generation + 1 /\ uncertain' = TRUE /\ allStopped' = FALSE
      /\ UNCHANGED <<busy, restless>>
      /\ pc[t] = "idle"
      /\ recovery => recovery'
      /\ \A u \in Tasks : u # t => pc'[u] = pc[u] /\ job'[u] = job[u]
  BY DEF StopRequest, TypeOK
<1>2. pc'[t] = "idle" \/ (pc'[t] = "stop" /\ (job'[t].was <=> (uncertain \/ busy)))
  BY <1>1 DEF StopRequest, TypeOK
<1>3. \A u \in Tasks : InMotion(u)' => InMotion(u) /\ job'[u] = job[u]
  BY <1>1, <1>2, NotMotion DEF InMotion
<1>4. \A u \in Tasks : u # t => ~(Stopping(u)' /\ Current(u)')
  <2>1. \A u \in Tasks : pc[u] = "stop" => job[u].gen \in Nat /\ job[u].gen <= generation
    BY DEF TypeOK, Jobs, TaskInv, GenBounded
  <2>2. generation \in Nat
    BY DEF TypeOK
  <2>3. QED
    BY <1>1, <2>1, <2>2 DEF Stopping, Current
<1>5. ~uncertain /\ ~busy /\ ~recovery => restless = {}
  BY DEF QuietInv, FreeMeansQuiet, FreeToMove
<1>6. StopRemembers'
  <2>1. ASSUME Stopping(t)'
        PROVE  (busy' => job'[t].was) /\ (job'[t].was \/ recovery' \/ restless' = {})
    BY <1>1, <1>2, <1>5, <2>1 DEF Stopping
  <2>2. QED
    BY <1>4, <2>1 DEF StopRemembers
<1>7. QED
  BY <1>1, <1>3, <1>6, OutdatedIsQuiet

LEMMA InvalidateGeometryQuiet ==
  ASSUME TypeOK, TaskInv, QuietInv, InvalidateGeometry
  PROVE  QuietInv'
<1>1. /\ UNCHANGED <<busy, allStopped, pc, job, step, restless>>
      /\ recovery => recovery'
  BY DEF InvalidateGeometry, taskVars, ghosts
<1>2. CASE UNCHANGED <<uncertain, generation>>
  BY <1>1, <1>2, CalmIsQuiet DEF InMotion, Stopping
<1>3. CASE uncertain' = TRUE /\ generation' = generation + 1
  <2>1. \A u \in Tasks : ~(Stopping(u)' /\ Current(u)')
    <3>1. \A u \in Tasks : pc[u] = "stop" => job[u].gen \in Nat /\ job[u].gen <= generation
      BY DEF TypeOK, Jobs, TaskInv, GenBounded
    <3>2. generation \in Nat
      BY DEF TypeOK
    <3>3. QED
      BY <1>1, <1>3, <3>1, <3>2 DEF Stopping, Current
  <2>2. StopRemembers'
    BY <2>1 DEF StopRemembers
  <2>3. allStopped' => restless' = {}
    BY <1>1 DEF QuietInv, AllStoppedMeansQuiet
  <2>4. QED
    BY <1>1, <1>3, <2>2, <2>3, OutdatedIsQuiet DEF InMotion
<1>4. QED
  BY <1>2, <1>3 DEF InvalidateGeometry

\* The newest stop, confirmed, leaves everything quiet that could be moving: all
\* the arms, or those that were not quiet before it.
LEMMA StopReplyQuiet ==
  ASSUME TypeOK, TaskInv, QuietInv, NEW t \in Tasks, NEW reply, StopReply(t, reply)
  PROVE  QuietInv'
<1>1. /\ Stopping(t) /\ UNCHANGED <<busy, generation>>
      /\ restless' = IF reply = "confirmed" THEN restless \ job[t].arms ELSE restless
      /\ restless' \subseteq restless
      /\ Leave(t)
  BY DEF StopReply, Stopping
<1>2. /\ pc'[t] = "idle"
      /\ \A u \in Tasks : u # t => pc'[u] = pc[u] /\ job'[u] = job[u]
  BY <1>1 DEF Leave, TypeOK
<1>3. /\ \A u \in Tasks : InMotion(u)' <=> InMotion(u)
      /\ \A u \in Tasks : Stopping(u)' => Stopping(u)
      /\ \A u \in Tasks : InMotion(u)' \/ Stopping(u)' => job'[u] = job[u]
      /\ \A u \in Tasks : pc'[u] = "final" => pc[u] = "final"
  BY <1>1, <1>2, NotMotion DEF InMotion, Stopping
<1>4. CASE UNCHANGED <<uncertain, recovery, allStopped, plan>>
  BY <1>1, <1>3, <1>4, CalmIsQuiet
<1>5. ASSUME Current(t)
      PROVE  \A u \in Tasks : ~Driving(u)' /\ ~(Stopping(u)' /\ Current(u)')
  BY <1>1, <1>2, <1>3, <1>5
     DEF TaskInv, StopsDistinct, StopInterrupts, Driving, InMotion, Stopping, Current
<1>6. CASE Current(t) /\ uncertain' = TRUE /\ (allStopped' => allStopped)
  <2>1. AllStoppedMeansQuiet' /\ FreeMeansQuiet'
    BY <1>1, <1>6 DEF QuietInv, AllStoppedMeansQuiet, FreeMeansQuiet, FreeToMove
  <2>2. DriverOwnsRestless' /\ FinalQuiet' /\ StopRemembers' /\ DrainQuiet'
    BY <1>5, <1>6 DEF DriverOwnsRestless, FinalQuiet, StopRemembers, DrainQuiet, Driving,
                      InMotion, MotionStates
  <2>3. QED
    BY <2>1, <2>2 DEF QuietInv
<1>7. CASE /\ Current(t) /\ reply = "confirmed"
           /\ uncertain' = StillUncertain(t)
           /\ allStopped' = (CoversAll(job[t].arms) \/ allStopped)
           /\ UNCHANGED <<recovery, plan>>
  <2>1. CASE CoversAll(job[t].arms)
    <3>1. restless' = {}
      BY <1>1, <1>7, <2>1 DEF CoversAll, TypeOK
    <3>2. QED
      BY <1>5, <1>7, <3>1, AllQuiet
  <2>2. CASE ~CoversAll(job[t].arms)
    <3>1. (uncertain' <=> job[t].was) /\ (allStopped' <=> allStopped) /\ UNCHANGED recovery
      BY <1>7, <2>2, Zenon DEF StillUncertain, TypeOK
    <3>2. /\ busy => job[t].was
          /\ job[t].was \/ recovery \/ restless = {}
      BY <1>1, <1>7 DEF QuietInv, StopRemembers
    <3>3. AllStoppedMeansQuiet'
      BY <1>1, <3>1 DEF QuietInv, AllStoppedMeansQuiet
    <3>4. FreeMeansQuiet'
      BY <1>1, <3>1, <3>2, <3>3 DEF FreeMeansQuiet, FreeToMove, AllStoppedMeansQuiet
    <3>5. DrainQuiet'
      BY <1>1, <3>1, <3>2 DEF DrainQuiet
    <3>6. DriverOwnsRestless' /\ FinalQuiet' /\ StopRemembers'
      BY <1>5, <1>7 DEF DriverOwnsRestless, FinalQuiet, StopRemembers, Driving, InMotion,
                        MotionStates
    <3>7. QED
      BY <3>3, <3>4, <3>5, <3>6 DEF QuietInv
  <2>3. QED
    BY <2>1, <2>2
<1>8. CASE Current(t) /\ uncertain' = TRUE /\ UNCHANGED <<recovery, allStopped, plan>>
  BY <1>6, <1>8
<1>9. CASE Current(t) /\ uncertain' = TRUE /\ allStopped' = FALSE
  BY <1>6, <1>9
<1>10. QED
  BY <1>4, <1>7, <1>8, <1>9, Zenon DEF StopReply

LEMMA QuietStep ==
  ASSUME TypeOK, TaskInv, QuietInv, [Next]_vars
  PROVE  QuietInv'
<1>1. CASE UNCHANGED vars \/ ClosePending
  BY <1>1, CalmIsQuiet DEF vars, ClosePending, taskVars, ghosts, InMotion, Stopping
<1>2. ASSUME NEW p \in Plans, NEW arms \in Selections
      PROVE  /\ Create(p, arms) => QuietInv'
             /\ \A success \in BOOLEAN : Verify(p, arms, success) => QuietInv'
  BY CalmIsQuiet, RefuseQuiet DEF Create, Verify, taskVars, ghosts, InMotion, Stopping
<1>3. ASSUME NEW t \in Tasks, Request(t)
      PROVE  QuietInv'
  BY <1>3, RequestQuiet, StopRequestQuiet DEF Request
<1>4. "unknown" \in Replies
  BY ConstantsAssumption
<1>5. ASSUME NEW t \in Tasks, Resume(t) \/ Expire(t)
      PROVE  QuietInv'
  BY <1>4, <1>5, MotionStepQuiet, StopReplyQuiet
     DEF Resume, Expire, CommandTimeout, HaltTimeout, StopTimeout, MotionStep
<1>6. QED
  BY <1>1, <1>2, <1>3, <1>5, InvalidateGeometryQuiet DEF Next

LEMMA QuietInvariant == Spec => []QuietInv
<1>1. Init => QuietInv
  BY AllQuiet, Zenon
     DEF Init, QuietInv, AllStoppedMeansQuiet, FreeMeansQuiet, DriverOwnsRestless, FinalQuiet,
         StopRemembers, DrainQuiet, Driving
<1>2. TypeOK /\ TaskInv /\ QuietInv /\ [Next]_vars => QuietInv'
  BY QuietStep
<1>3. QED
  BY <1>1, <1>2, TypeCorrect, TasksInvariant, PTL DEF Spec

\* Whatever the number of arms and of overlapping requests: a motion is admitted
\* only when every arm an earlier primitive was sent to has been measured
\* stationary since or was covered by a confirmed stop (FreeMeansQuiet).
THEOREM AdmissionIsQuiet == Spec => []FreeMeansQuiet
<1>1. QuietInv => FreeMeansQuiet
  BY DEF QuietInv
<1>2. QED
  BY <1>1, QuietInvariant, PTL

\* _all_stopped, the precondition of recover_arms, is only set while every arm is
\* quiet, although late replies may set it (AllStoppedMeansQuiet).
THEOREM AllStoppedIsQuiet == Spec => []AllStoppedMeansQuiet
<1>1. QuietInv => AllStoppedMeansQuiet
  BY DEF QuietInv
<1>2. QED
  BY <1>1, QuietInvariant, PTL

-----------------------------------------------------------------------------
(* What the bridge knows of an object in a gripper *)

\* A plan whose object is, or may be, in a gripper.
LiveIn(P) == \E p \in Plans : P[p].state \in HeldStates \cup {"executing"}

\* Recovery, a confirmed stop of all arms and an unanswered stop have all dropped
\* the plan of the object.
DroppedPlan ==
  recovery \/ allStopped \/ (\E t \in Tasks : Stopping(t) /\ Current(t)) => ~LiveIn(plan)

\* What a motion was admitted with stays true of it: its plan's arms are its own
\* and, if a group, the remembered one; an approach starts with empty grippers;
\* and no other plan holds anything.
MotionGrip ==
  \A t \in Tasks : InMotion(t) =>
    /\ job[t].op \in Stages => plan[job[t].plan].arms = job[t].arms
    /\ job[t].op \in Stages /\ IsGroup(job[t].arms) => coupled = job[t].arms
    /\ job[t].op = "recover_arms" => job[t].arms = Arms
    /\ job[t].op = "approach" => gripping = {}
    /\ ~PlanIn(HeldStates)

\* Arms that hold an object together are the group the bridge remembers.
GroupRemembered == IsGroup(gripping) => gripping \subseteq coupled

GripInv ==
  /\ DroppedPlan
  /\ MotionGrip
  /\ GroupRemembered
  /\ GripAccounted

-----------------------------------------------------------------------------
(* How the kinds of step keep GripInv *)

LEMMA InvalidIsDropped ==
  ASSUME NEW P \in PlanTables
  PROVE  /\ ~LiveIn(Invalidate(P))
         /\ \A q \in Plans : Invalidate(P)[q].arms = P[q].arms
<1>1. ~LiveIn(Invalidate(P))
  BY InvalidatedPlans DEF LiveIn, HeldStates
<1>2. \A q \in Plans : Invalidate(P)[q].arms = P[q].arms
  BY DEF Invalidate, PlanTables
<1>3. QED
  BY <1>1, <1>2

\* The plans are dropped and recovery is due, or there is nothing to recover.
LEMMA DroppedGrips ==
  ASSUME GripInv, ~LiveIn(plan'), recovery' \/ gripping = {}, UNCHANGED gripping,
         IsGroup(gripping) => gripping \subseteq coupled',
         \A t \in Tasks : InMotion(t)' => InMotion(t) /\ job'[t] = job[t] /\ coupled' = coupled,
         \A t \in Tasks : InMotion(t)' => \A p \in Plans : plan'[p].arms = plan[p].arms,
         JobShape
  PROVE  GripInv'
<1>1. DroppedPlan' /\ GroupRemembered' /\ GripAccounted'
  BY DEF DroppedPlan, GroupRemembered, GripAccounted
<1>2. MotionGrip'
  <2> SUFFICES ASSUME NEW t \in Tasks, InMotion(t)'
               PROVE  /\ job'[t].op \in Stages => plan'[job'[t].plan].arms = job'[t].arms
                      /\ job'[t].op \in Stages /\ IsGroup(job'[t].arms) => coupled' = job'[t].arms
                      /\ job'[t].op = "recover_arms" => job'[t].arms = Arms
                      /\ job'[t].op = "approach" => gripping' = {}
                      /\ ~PlanIn(HeldStates)'
    BY DEF MotionGrip
  <2>1. ~PlanIn(HeldStates)'
    BY DEF PlanIn, LiveIn
  <2>2. QED
    BY <2>1 DEF GripInv, MotionGrip, JobShape
<1>3. QED
  BY <1>1, <1>2 DEF GripInv

\* Nothing is gripped, released, planned or dropped.
LEMMA SteadyGrips ==
  ASSUME GripInv, UNCHANGED <<plan, coupled, gripping, recovery>>,
         allStopped' => allStopped \/ ~LiveIn(plan),
         \A t \in Tasks : InMotion(t)' => InMotion(t) /\ job'[t] = job[t],
         \A t \in Tasks : Stopping(t)' /\ Current(t)' => Stopping(t) /\ Current(t)
  PROVE  GripInv'
<1>1. DroppedPlan'
  BY DEF GripInv, DroppedPlan, LiveIn
<1>2. MotionGrip'
  BY DEF GripInv, MotionGrip, PlanIn
<1>3. GroupRemembered' /\ GripAccounted'
  BY DEF GripInv, GroupRemembered, GripAccounted
<1>4. QED
  BY <1>1, <1>2, <1>3 DEF GripInv

\* The end of a failed motion drops its plan, the only live one.
LEMMA AbandonedGrips ==
  ASSUME TypeOK, TaskInv, PlanInv, GripInv, NEW t \in Tasks, InMotion(t),
         NEW P \in {plan, Invalidate(plan)}
  PROVE  ~LiveIn(Abandon(P, job[t].plan))
<1>1. P \in PlanTables /\ OnlyExecutes(P, job[t].plan)
  BY MotionOwnsPlan
<1>2. \A q \in Plans : Abandon(P, job[t].plan)[q].state # "executing"
  BY <1>1, AbandonedPlans
<1>3. \A q \in Plans : P[q].state \notin HeldStates
  <2>1. \A q \in Plans : plan[q].state \notin HeldStates
    BY DEF GripInv, MotionGrip, PlanIn
  <2>2. \A q \in Plans : Invalidate(plan)[q].state \notin HeldStates
    BY InvalidatedPlans, MotionOwnsPlan DEF HeldStates
  <2>3. QED
    BY <2>1, <2>2
<1>4. \A q \in Plans : Abandon(P, job[t].plan)[q].state \in {P[q].state, "invalid"}
  BY <1>1 DEF Abandon, PlanTables
<1>5. QED
  BY <1>2, <1>3, <1>4 DEF LiveIn, HeldStates

LEMMA FinishGrips ==
  ASSUME TypeOK, TaskInv, PlanInv, GripInv, NEW t \in Tasks, InMotion(t), NEW unknown,
         NEW P \in {plan, Invalidate(plan)}, Finish(t, unknown, P),
         UNCHANGED <<coupled, gripping>>
  PROVE  GripInv'
<1>1. recovery' /\ plan' = Abandon(P, job[t].plan) /\ Leave(t)
  BY DEF Finish
<1>2. \A u \in Tasks : ~InMotion(u)'
  BY <1>1, NotMotion DEF TaskInv, OneMotion, Leave, TypeOK, InMotion
<1>3. QED
  BY <1>1, <1>2, AbandonedGrips, DroppedGrips DEF GripInv, GroupRemembered, TaskInv

LEMMA FailGrips ==
  ASSUME TypeOK, TaskInv, PlanInv, GripInv, NEW t \in Tasks, InMotion(t), NEW unknown, NEW rec,
         NEW P, \/ rec = recovery /\ P = plan
                \/ rec = TRUE /\ P = Invalidate(plan),
         Fail(t, unknown, rec, P), UNCHANGED <<generation, coupled, gripping>>
  PROVE  GripInv'
<1>1. CASE Finish(t, unknown \/ Current(t), P)
  BY <1>1, FinishGrips
<1>2. CASE /\ pc' = [pc EXCEPT ![t] = IF unknown THEN "haltingUnknown" ELSE "halting"]
           /\ recovery' = rec
           /\ plan' = P
           /\ UNCHANGED <<busy, uncertain, active, job, step>>
  <2>1. /\ \A u \in Tasks : InMotion(u)' => InMotion(u)
        /\ \A u \in Tasks : Stopping(u)' => Stopping(u)
    BY <1>2, NotMotion DEF TypeOK, InMotion, Stopping
  <2>2. CASE rec = recovery /\ P = plan
    BY <1>2, <2>1, <2>2, SteadyGrips DEF Fail, Current
  <2>3. CASE rec = TRUE /\ P = Invalidate(plan)
    <3>1. plan \in PlanTables
      BY MotionOwnsPlan
    <3>2. ~LiveIn(plan') /\ \A p \in Plans : plan'[p].arms = plan[p].arms
      BY <1>2, <2>3, <3>1, InvalidIsDropped
    <3>3. QED
      BY <1>2, <2>1, <2>3, <3>2, DroppedGrips DEF GripInv, GroupRemembered, TaskInv
  <2>4. QED
    BY <2>2, <2>3
<1>3. QED
  BY <1>1, <1>2 DEF Fail

\* Only a pick closes a gripper.
LEMMA OnlyPickCloses ==
  ASSUME NEW op \in Ops, NEW k \in 1..Len(Phases[op]), Phases[op][k] = "close"
  PROVE  op = "pick"
<1>1. /\ Phases["approach"] = <<"approach">>
      /\ Phases["place"] = <<"transfer", "descend", "open", "retreat">>
      /\ Phases["manual"] = <<"command">>
      /\ Phases["recover_arms"] = <<"recover">>
  BY DEF Phases
<1>2. CASE op = "place"
  <2>1. k \in 1..4 /\ Phases[op][k] \in {"transfer", "descend", "open", "retreat"}
    BY <1>1, <1>2
  <2>2. QED
    BY <2>1
<1>3. CASE op \in {"approach", "manual", "recover_arms"}
  <2>1. k = 1 /\ Phases[op][k] \in {"approach", "command", "recover"}
    BY <1>1, <1>3
  <2>2. QED
    BY <2>1
<1>4. QED
  BY <1>2, <1>3 DEF Ops, Stages

\* An object in the gripper while a plan executes is the object of that plan.
LEMMA GripIsPlanned ==
  ASSUME TypeOK, TaskInv, PlanInv, GripInv, NEW t \in Tasks,
         pc[t] \in {"sending", "settling", "final"}, Current(t), job[t].op \in Stages
  PROVE  /\ job[t].plan \in Plans
         /\ plan[job[t].plan].state = "executing"
         /\ plan[job[t].plan].arms = job[t].arms
         /\ gripping \subseteq job[t].arms
         /\ ~recovery
<1>1. InMotion(t)
  BY DEF InMotion, MotionStates
<1>2. job[t].plan \in Plans /\ plan[job[t].plan].state = "executing"
  BY <1>1 DEF TaskInv, JobShape, PlanInv, LiveMotionExecutes
<1>3. ~recovery
  BY <1>2 DEF GripInv, DroppedPlan, LiveIn
<1>4. plan[job[t].plan].arms = job[t].arms
  BY <1>1 DEF GripInv, MotionGrip
<1>5. gripping \subseteq plan[job[t].plan].arms
  <2>1. \A p \in Plans : plan[p].state \in HeldStates \cup {"executing"} => p = job[t].plan
    BY <1>2 DEF PlanInv, HeldExclusive, HeldStates
  <2>2. QED
    BY <1>3, <2>1 DEF GripInv, GripAccounted
<1>6. QED
  BY <1>2, <1>3, <1>4, <1>5

LEMMA ContinueGrips ==
  ASSUME TypeOK, TaskInv, PlanInv, GripInv, NEW t \in Tasks,
         pc[t] \in {"sending", "settling"}, Current(t),
         NEW k \in 1..Len(Phases[job[t].op]), NEW base, Continue(t, k, base),
         UNCHANGED <<generation, coupled>>
  PROVE  GripInv'
<1>1. InMotion(t) /\ job[t].op \in Ops
  BY DEF InMotion, MotionStates, TaskInv, JobShape
<1>2. CASE \E unknown \in BOOLEAN : Fail(t, unknown, recovery, plan) /\ UNCHANGED gripping
  BY <1>1, <1>2, FailGrips
<1>3. CASE /\ pc' = [pc EXCEPT ![t] = "sending"]
           /\ gripping' = IF Phases[job[t].op][k] = "close" THEN gripping \cup job[t].arms
                          ELSE gripping
           /\ UNCHANGED <<busy, uncertain, recovery, allStopped, active, plan, job>>
  <2>1. /\ \A u \in Tasks : InMotion(u)' => InMotion(u)
        /\ \A u \in Tasks : Stopping(u)' => Stopping(u)
    BY <1>1, <1>3, NotMotion DEF TypeOK, InMotion, Stopping
  <2>2. CASE Phases[job[t].op][k] # "close"
    BY <1>3, <2>1, <2>2, SteadyGrips DEF Current
  <2>3. CASE Phases[job[t].op][k] = "close"
    <3>1. job[t].op = "pick" /\ job[t].op \in Stages
      BY <1>1, <2>3, OnlyPickCloses DEF Stages
    <3>2. /\ job[t].plan \in Plans
          /\ plan[job[t].plan].state = "executing"
          /\ plan[job[t].plan].arms = job[t].arms
          /\ gripping \subseteq job[t].arms
      BY <3>1, GripIsPlanned
    <3>3. gripping' = job[t].arms
      BY <1>3, <2>3, <3>2
    <3>4. DroppedPlan'
      BY <1>3, <2>1 DEF GripInv, DroppedPlan, LiveIn, Current
    <3>5. \A u \in Tasks : InMotion(u)' => u = t
      BY <1>1, <2>1, MotionOwnsPlan
    <3>6. MotionGrip'
      BY <1>1, <1>3, <3>1, <3>5 DEF GripInv, MotionGrip, PlanIn
    <3>7. GroupRemembered'
      BY <1>1, <3>1, <3>3 DEF GripInv, MotionGrip, GroupRemembered
    <3>8. GripAccounted'
      BY <1>3, <3>2, <3>3 DEF GripAccounted
    <3>9. QED
      BY <3>4, <3>6, <3>7, <3>8 DEF GripInv
  <2>4. QED
    BY <2>2, <2>3
<1>4. QED
  BY <1>2, <1>3 DEF Continue

LEMMA CompleteGrips ==
  ASSUME TypeOK, TaskInv, PlanInv, GripInv, NEW t \in Tasks, pc[t] = "final", Current(t),
         NEW late \in BOOLEAN, Complete(t, late), UNCHANGED generation
  PROVE  GripInv'
<1> DEFINE done == IF job[t].op \in Stages
                   THEN [plan EXCEPT ![job[t].plan].state = Reached[job[t].op]] ELSE plan
<1>1. InMotion(t) /\ job[t].op \in Ops
  BY DEF InMotion, MotionStates, TaskInv, JobShape
<1>2. /\ plan' = IF late THEN Invalidate(done) ELSE done
      /\ recovery' = (late \/ (recovery /\ job[t].op # "recover_arms"))
      /\ (late => recovery') /\ (recovery /\ job[t].op # "recover_arms" => recovery')
      /\ (recovery' /\ ~late => recovery)
      /\ allStopped' = (allStopped /\ ~late)
      /\ Leave(t)
  BY DEF Complete
<1>3. \A u \in Tasks : ~InMotion(u)'
  BY <1>1, <1>2, NotMotion, MotionOwnsPlan DEF Leave, TypeOK, InMotion
<1>4. \A u \in Tasks : ~(Stopping(u)' /\ Current(u)')
  BY <1>1, <1>2, NotMotion
     DEF Leave, TypeOK, InMotion, Stopping, Current, TaskInv, StopInterrupts
<1>5. plan \in PlanTables
  BY <1>1, MotionOwnsPlan
<1>6. done \in PlanTables
  <2>1. CASE job[t].op \in Stages
    <3>1. Reached[job[t].op] \in PlanStates
      BY <2>1 DEF Stages, Reached, PlanStates
    <3>2. QED
      BY <1>5, <2>1, <3>1 DEF PlanTables
  <2>2. CASE job[t].op \notin Stages
    BY <1>5, <2>2
  <2>3. QED
    BY <2>1, <2>2
<1>7. gripping' # {} => (~recovery /\ job[t].op = "pick") \/ (recovery /\ job[t].op # "recover_arms")
  <2>1. CASE job[t].op = "recover_arms"
    BY <1>1, <2>1 DEF Complete, TypeOK, GripInv, MotionGrip
  <2>2. CASE job[t].op = "place"
    BY <2>2, GripIsPlanned DEF Complete, Stages
  <2>3. CASE job[t].op = "approach"
    BY <1>1, <2>3 DEF Complete, GripInv, MotionGrip
  <2>4. CASE job[t].op = "manual"
    <3>1. \A p \in Plans : plan[p].state # "executing"
      BY <1>1, <2>4, MotionOwnsPlan DEF OnlyExecutes, TaskInv, JobShape, Stages
    <3>2. ~LiveIn(plan)
      BY <1>1, <3>1 DEF GripInv, MotionGrip, PlanIn, LiveIn
    <3>3. QED
      BY <2>4, <3>2 DEF Complete, GripInv, GripAccounted, LiveIn
  <2>5. CASE job[t].op = "pick"
    BY <2>5
  <2>6. QED
    BY <1>1, <2>1, <2>2, <2>3, <2>4, <2>5 DEF Ops, Stages
<1>8. gripping' # {} => gripping' = gripping /\ coupled' = coupled
  <2>1. job[t].op \notin {"recover_arms", "place"} => gripping' = gripping /\ coupled' = coupled
    BY DEF Complete
  <2>2. gripping' # {} => job[t].op # "place"
    BY GripIsPlanned DEF Complete, Stages
  <2>3. QED
    BY <1>7, <2>1, <2>2
<1>9. GroupRemembered'
  BY <1>8 DEF GroupRemembered, GripInv, IsGroup
<1>10. GripAccounted'
  <2>1. CASE gripping' # {} /\ ~recovery /\ job[t].op = "pick" /\ ~late
    <3>1. /\ job[t].plan \in Plans /\ plan[job[t].plan].arms = job[t].arms
          /\ gripping \subseteq job[t].arms
      BY <2>1, GripIsPlanned DEF Stages
    <3>2. plan' = [plan EXCEPT ![job[t].plan].state = "picked"]
      BY <1>2, <2>1 DEF Stages, Reached
    <3>3. plan'[job[t].plan].state = "picked" /\ plan'[job[t].plan].arms = job[t].arms
      BY <1>5, <3>1, <3>2 DEF PlanTables
    <3>4. QED
      BY <1>8, <2>1, <3>1, <3>3 DEF GripAccounted, HeldStates
  <2>2. QED
    BY <1>2, <1>7, <2>1 DEF GripAccounted
<1>11. DroppedPlan'
  <2>1. CASE late
    BY <1>2, <1>6, <2>1, InvalidIsDropped DEF DroppedPlan
  <2>2. CASE ~late /\ (recovery \/ allStopped)
    <3>1. ~LiveIn(plan)
      BY <2>2 DEF GripInv, DroppedPlan
    <3>2. job[t].op \notin Stages
      BY <3>1, GripIsPlanned DEF LiveIn
    <3>3. QED
      BY <1>2, <2>2, <3>1, <3>2 DEF DroppedPlan, LiveIn
  <2>3. CASE ~late /\ ~recovery /\ ~allStopped
    BY <1>2, <1>4, <2>3 DEF DroppedPlan
  <2>4. QED
    BY <2>1, <2>2, <2>3
<1>12. MotionGrip'
  BY <1>3 DEF MotionGrip
<1>13. QED
  BY <1>9, <1>10, <1>11, <1>12 DEF GripInv

LEMMA MotionStepGrips ==
  ASSUME TypeOK, TaskInv, PlanInv, GripInv, NEW t \in Tasks, MotionStep(t)
  PROVE  GripInv'
<1>1. InMotion(t) /\ job[t].op \in Ops
  BY MotionSteps DEF TaskInv, JobShape
<1>2. ASSUME NEW s \in MotionStates, pc' = [pc EXCEPT ![t] = s],
             UNCHANGED <<plan, coupled, gripping, recovery, allStopped, generation, job>>
      PROVE  GripInv'
  BY <1>1, <1>2, NotMotion, SteadyGrips DEF TypeOK, InMotion, Stopping, Current
<1>3. ASSUME NEW reply \in Replies, DriverReply(t, reply)
      PROVE  GripInv'
  <2>1. pc[t] = "sending" /\ UNCHANGED <<generation, coupled>>
    BY <1>3 DEF DriverReply
  <2>2. ASSUME NEW unknown \in BOOLEAN, Fail(t, unknown, recovery, plan), UNCHANGED gripping
        PROVE  GripInv'
    BY <1>1, <2>1, <2>2, FailGrips
  <2>3. CASE Current(t) /\ Continue(t, 1, restless)
    <3>1. 1 \in 1..Len(Phases[job[t].op])
      BY <1>1 DEF Ops, Stages, Phases
    <3>2. QED
      BY <2>1, <2>3, <3>1, ContinueGrips
  <2>4. CASE /\ pc' = [pc EXCEPT ![t] = "settling"]
             /\ UNCHANGED <<busy, uncertain, recovery, allStopped, active, plan, job, step, ghosts>>
    BY <1>2, <2>1, <2>4 DEF MotionStates, ghosts
  <2>5. CASE Finish(t, FALSE, plan) /\ UNCHANGED <<allStopped, ghosts>>
    BY <1>1, <2>1, <2>5, FinishGrips DEF ghosts
  <2>6. (reply = "unknown") \in BOOLEAN
    OBVIOUS
  <2>7. QED
    BY <1>3, <2>2, <2>3, <2>4, <2>5, <2>6 DEF DriverReply
<1>4. ASSUME NEW reply \in Replies, HaltReply(t, reply)
      PROVE  GripInv'
  BY <1>1, <1>4, FinishGrips DEF HaltReply
<1>5. CASE Settled(t)
  <2>1. pc[t] = "settling" /\ UNCHANGED <<generation, coupled>>
    BY <1>5 DEF Settled
  <2>2. ASSUME NEW unknown \in BOOLEAN, UNCHANGED gripping,
               \/ Fail(t, unknown, recovery, plan)
               \/ Fail(t, unknown, TRUE, Invalidate(plan))
        PROVE  GripInv'
    BY <1>1, <2>1, <2>2, FailGrips
  <2>3. CASE /\ Current(t) /\ step[t] < Len(Phases[job[t].op])
             /\ Continue(t, step[t] + 1, restless \ job[t].arms)
    <3>1. step[t] + 1 \in 1..Len(Phases[job[t].op])
      <4>1. step[t] \in Nat /\ Len(Phases[job[t].op]) \in Nat
        BY <1>1 DEF TypeOK, Ops, Stages, Phases
      <4>2. QED
        BY <2>3, <4>1
    <3>2. QED
      BY <2>1, <2>3, <3>1, ContinueGrips
  <2>4. CASE /\ pc' = [pc EXCEPT ![t] = "final"]
             /\ UNCHANGED <<busy, recovery, allStopped, active, plan, job, step,
                            haltTried, gripping>>
    BY <1>2, <2>1, <2>4 DEF MotionStates
  <2>5. QED
    BY <1>5, <2>2, <2>3, <2>4 DEF Settled
<1>6. CASE SettleTimeout(t)
  BY <1>1, <1>6, FailGrips DEF SettleTimeout
<1>7. CASE FinalState(t) \/ FinalTimeout(t)
  <2>1. pc[t] = "final" /\ UNCHANGED generation
    BY <1>7 DEF FinalState, FinalTimeout
  <2>2. ASSUME NEW unknown, NEW P \in {plan, Invalidate(plan)}, Finish(t, unknown, P),
               UNCHANGED <<allStopped, coupled, ghosts>>
        PROVE  GripInv'
    BY <1>1, <2>2, FinishGrips DEF ghosts
  <2>3. ASSUME NEW late \in BOOLEAN, Current(t), Complete(t, late)
        PROVE  GripInv'
    BY <2>1, <2>3, CompleteGrips
  <2>4. QED
    BY <1>7, <2>1, <2>2, <2>3 DEF FinalState, FinalTimeout
<1>8. QED
  BY <1>3, <1>4, <1>5, <1>6, <1>7 DEF MotionStep

-----------------------------------------------------------------------------
(* Requests and the object in the gripper *)

\* Between motions nothing is gripped but the object of a held plan.
LEMMA AdmittedGrips ==
  ASSUME TypeOK, TaskInv, PlanInv, GripInv, ~busy, ~recovery
  PROVE  /\ \A t \in Tasks : ~InMotion(t)
         /\ ~PlanIn(HeldStates) => gripping = {}
         /\ \A p \in Plans : plan[p].state \in {"detected", "approached"} => gripping = {}
         /\ \A p \in Plans : plan[p].state = "verified" => gripping \subseteq plan[p].arms
<1>1. (\A p \in Plans : plan[p].state # "executing") /\ \A t \in Tasks : ~InMotion(t)
  BY NothingExecutes
<1>2. gripping # {} => \E p \in Plans : plan[p].state \in HeldStates
                                       /\ gripping \subseteq plan[p].arms
  BY <1>1 DEF GripInv, GripAccounted
<1>3. \A p, q \in Plans : plan[p].state \in HeldStates /\ plan[q].state \in
                            {"detected", "approached", "verified"} => p = q
  BY DEF PlanInv, HeldExclusive, HeldStates
<1>4. QED
  BY <1>1, <1>2, <1>3 DEF PlanIn, HeldStates

LEMMA RefuseGrips ==
  ASSUME TypeOK, TaskInv, GripInv, ~busy, RefuseUnhealthy
  PROVE  GripInv'
<1>1. plan \in PlanTables
  BY DEF TypeOK, PlanTables
<1>2. \A t \in Tasks : ~InMotion(t)'
  BY DEF TaskInv, OneMotion, InMotion, RefuseUnhealthy, taskVars
<1>3. QED
  BY <1>1, <1>2, InvalidIsDropped, DroppedGrips
     DEF RefuseUnhealthy, ghosts, GripInv, GroupRemembered, TaskInv

LEMMA CreateGrips ==
  ASSUME TypeOK, TaskInv, PlanInv, GripInv, NEW p \in Plans, NEW arms, Create(p, arms)
  PROVE  GripInv'
<1>1. ~busy /\ ~recovery /\ ~PlanIn(HeldStates)
  BY DEF Create, Admissible
<1>2. gripping = {} /\ \A t \in Tasks : ~InMotion(t)
  BY <1>1, AdmittedGrips
<1>3. \A q \in Plans : plan'[q].state \in {plan[q].state, "detected", "absent"}
  BY DEF Create
<1>4. ~LiveIn(plan')
  BY <1>1, <1>3, NothingExecutes DEF LiveIn, HeldStates, PlanIn
<1>5. UNCHANGED <<coupled, gripping, pc>>
  BY DEF Create, taskVars, ghosts
<1>6. \A t \in Tasks : ~InMotion(t)'
  BY <1>2, <1>5 DEF InMotion
<1>7. QED
  BY <1>2, <1>4, <1>5, <1>6, DroppedGrips DEF GripInv, GroupRemembered, TaskInv

LEMMA VerifyGrips ==
  ASSUME TypeOK, TaskInv, PlanInv, GripInv, NEW p \in Plans, NEW observed, NEW success,
         Verify(p, observed, success)
  PROVE  GripInv'
<1>1. ~busy
  BY DEF Verify, Admissible
<1>2. CASE /\ plan[p].state = "picked"
           /\ plan' = [plan EXCEPT ![p].state = "verified"]
           /\ UNCHANGED <<busy, uncertain, recovery, allStopped, generation, active,
                          coupled, closing, order, taskVars, ghosts>>
  <2>1. \A q \in Plans : /\ plan'[q].arms = plan[q].arms
                         /\ plan'[q].state \in HeldStates <=> plan[q].state \in HeldStates
                         /\ plan'[q].state = "executing" <=> plan[q].state = "executing"
    BY <1>2 DEF TypeOK, HeldStates
  <2>2. \A t \in Tasks : ~InMotion(t)'
    BY <1>1, <1>2, NothingExecutes DEF InMotion, taskVars
  <2>3. DroppedPlan' /\ MotionGrip'
    BY <1>2, <2>1, <2>2 DEF GripInv, DroppedPlan, MotionGrip, LiveIn, taskVars, Stopping, Current
  <2>4. GroupRemembered' /\ GripAccounted'
    BY <1>2, <2>1 DEF GripInv, GroupRemembered, GripAccounted, ghosts
  <2>5. QED
    BY <2>3, <2>4 DEF GripInv
<1>3. QED
  BY <1>1, <1>2, RefuseGrips DEF Verify

\* A motion that is admitted: P holds nothing but its own plan.
LEMMA BeginGrips ==
  ASSUME TypeOK, TaskInv, PlanInv, GripInv, ~busy, ~uncertain, NEW t \in Tasks, pc[t] = "idle",
         NEW op \in Ops, NEW arms, NEW p, NEW P \in PlanTables, Begin(t, op, arms, p, P),
         \A q \in Plans : P[q].state \notin HeldStates,
         OnlyExecutes(P, p),
         op \in Stages => p \in Plans /\ P[p].state = "executing" /\ P[p].arms = arms,
         op \notin Stages => ~LiveIn(P),
         op = "recover_arms" => arms = Arms,
         recovery => op = "recover_arms",
         op = "recover_arms" => recovery \/ gripping = {},
         op # "recover_arms" => gripping \subseteq arms /\ (op # "place" => gripping = {})
  PROVE  GripInv'
<1>1. /\ \A u \in Tasks : ~InMotion(u)
      /\ \A q \in Plans : plan[q].state # "executing"
  BY NothingExecutes
<1>2. /\ coupled' = IF op \in Stages /\ IsGroup(arms) THEN arms ELSE coupled
      /\ allStopped' = FALSE
      /\ UNCHANGED <<generation, gripping>>
  BY DEF Begin
<1>3. IsGroup(gripping) => gripping \subseteq coupled'
  <2>1. CASE op \in Stages /\ gripping # {}
    <3>1. gripping \subseteq arms
      BY <2>1 DEF Stages
    <3>2. QED
      BY <1>2, <2>1, <3>1 DEF IsGroup, GripInv, GroupRemembered
  <2>2. QED
    BY <1>2, <2>1 DEF IsGroup, GripInv, GroupRemembered
<1>4. CASE /\ recovery' = TRUE
           /\ plan' = Abandon(P, p)
           /\ UNCHANGED <<busy, active, job, pc, haltTried>>
  <2>1. ~LiveIn(plan')
    <3>1. \A q \in Plans : plan'[q].state # "executing"
      BY <1>4, AbandonedPlans
    <3>2. \A q \in Plans : plan'[q].state \in {P[q].state, "invalid"}
      BY <1>4 DEF Abandon, PlanTables
    <3>3. QED
      BY <3>1, <3>2 DEF LiveIn, HeldStates
  <2>2. \A u \in Tasks : ~InMotion(u)'
    BY <1>1, <1>4 DEF InMotion
  <2>3. QED
    BY <1>2, <1>3, <1>4, <2>1, <2>2, DroppedGrips DEF TaskInv
<1>5. CASE /\ job' = [job EXCEPT ![t] = [op |-> op, arms |-> arms, gen |-> generation,
                                         plan |-> p, was |-> FALSE]]
           /\ plan' = P
           /\ \/ pc' = [pc EXCEPT ![t] = "sending"]
              \/ \E failing \in {"halting", "haltingUnknown"} :
                   pc' = [pc EXCEPT ![t] = failing]
           /\ UNCHANGED <<uncertain, recovery>>
  <2>1. /\ InMotion(t)'
        /\ job'[t].op = op /\ job'[t].plan = p /\ job'[t].arms = arms
        /\ \A u \in Tasks : u # t => ~InMotion(u)' /\ pc'[u] = pc[u] /\ job'[u] = job[u]
    BY <1>1, <1>5 DEF TypeOK, InMotion, MotionStates
  <2>2. DroppedPlan'
    <3>1. CASE op = "recover_arms"
      BY <1>5, <3>1 DEF DroppedPlan, LiveIn, Stages
    <3>2. CASE op # "recover_arms"
      <4>1. \A u \in Tasks : Stopping(u)' => Stopping(u) /\ job'[u] = job[u]
        BY <2>1, NotMotion DEF Stopping, InMotion
      <4>2. \A u \in Tasks : ~(Stopping(u)' /\ Current(u)')
        BY <1>2, <4>1 DEF TaskInv, NewestStopGates, Stopping, Current
      <4>3. QED
        BY <1>2, <1>5, <3>2, <4>2 DEF DroppedPlan
    <3>3. QED
      BY <3>1, <3>2
  <2>3. MotionGrip'
    <3>1. ~PlanIn(HeldStates)'
      BY <1>5 DEF PlanIn
    <3>2. QED
      BY <1>2, <1>5, <2>1, <3>1, Zenon DEF MotionGrip, Stages
  <2>4. GripAccounted'
    <3>1. CASE op \in Stages
      BY <1>2, <1>5, <3>1 DEF GripAccounted, Stages
    <3>2. CASE op = "manual"
      BY <1>2, <3>2 DEF GripAccounted, Stages
    <3>3. CASE op = "recover_arms"
      BY <1>2, <1>5, <3>3 DEF GripAccounted, Stages
    <3>4. QED
      BY <3>1, <3>2, <3>3 DEF Ops
  <2>5. GroupRemembered'
    BY <1>2, <1>3 DEF GroupRemembered
  <2>6. QED
    BY <2>2, <2>3, <2>4, <2>5 DEF GripInv
<1>6. QED
  BY <1>4, <1>5 DEF Begin

LEMMA RequestGrips ==
  ASSUME TypeOK, TaskInv, PlanInv, GripInv, NEW t \in Tasks
  PROVE  /\ \A p \in Plans, stage \in Stages : ExecutePlan(t, p, stage) => GripInv'
         /\ \A arms \in Selections : Manual(t, arms) => GripInv'
         /\ Recover(t) => GripInv'
<1>1. /\ Invalidate(plan) \in PlanTables
      /\ ~LiveIn(Invalidate(plan))
      /\ \A q \in Plans : Invalidate(plan)[q].state \notin HeldStates
      /\ OnlyExecutes(Invalidate(plan), NoPlan)
  <2>1. plan \in PlanTables
    BY DEF TypeOK, PlanTables
  <2>2. QED
    BY <2>1, PlanOperations, InvalidIsDropped DEF OnlyExecutes, LiveIn
<1>2. ASSUME NEW p \in Plans, NEW stage \in Stages, ExecutePlan(t, p, stage)
      PROVE  GripInv'
  <2>1. /\ ~busy /\ ~uncertain /\ ~recovery /\ pc[t] = "idle"
        /\ plan[p].state \in Allowed[stage]
    BY <1>2 DEF ExecutePlan, Admissible, Stages
  <2>2. /\ plan[p].state \in {"detected", "approached", "verified"}
        /\ stage # "place" => gripping = {}
        /\ stage = "place" => gripping \subseteq plan[p].arms
    BY <2>1, AdmittedGrips DEF Allowed, Stages
  <2>3. CASE /\ plan' = DropOthers(p)
             /\ UNCHANGED <<busy, uncertain, recovery, allStopped, generation, active,
                            coupled, closing, order, taskVars, ghosts>>
    <3>1. /\ \A q \in Plans : q # p => plan'[q].state \in {"placed", "invalid", "absent"}
          /\ plan'[p] = plan[p]
      BY <2>1, <2>3, DroppedPlans
    <3>2. \A u \in Tasks : ~InMotion(u)'
      BY <2>1, <2>3, NothingExecutes DEF InMotion, taskVars
    <3>3. LiveIn(plan') => LiveIn(plan)
      BY <3>1 DEF LiveIn, HeldStates
    <3>4. DroppedPlan' /\ MotionGrip'
      BY <2>3, <3>2, <3>3 DEF GripInv, DroppedPlan, MotionGrip, taskVars, Stopping, Current
    <3>5. GroupRemembered'
      BY <2>3 DEF GripInv, GroupRemembered, ghosts
    <3>6. GripAccounted'
      <4>1. CASE gripping = {}
        BY <2>3, <4>1 DEF GripAccounted, ghosts
      <4>2. CASE gripping # {}
        <5>1. plan[p].state = "verified"
          BY <2>1, <2>2, <4>2, AdmittedGrips DEF Allowed, Stages
        <5>2. QED
          BY <2>1, <2>3, <3>1, <5>1, AdmittedGrips DEF GripAccounted, ghosts, HeldStates
      <4>3. QED
        BY <4>1, <4>2
    <3>7. QED
      BY <3>4, <3>5, <3>6 DEF GripInv
  <2>4. CASE Begin(t, stage, plan[p].arms, p, [DropOthers(p) EXCEPT ![p].state = "executing"])
    <3> DEFINE P == [DropOthers(p) EXCEPT ![p].state = "executing"]
    <3>1. P \in PlanTables
      BY <2>1, DroppedPlans DEF PlanTables, PlanStates
    <3>2. /\ P[p].state = "executing" /\ P[p].arms = plan[p].arms
          /\ \A q \in Plans : q # p => P[q].state \in {"placed", "invalid", "absent"}
      BY <2>1, DroppedPlans DEF PlanTables
    <3>3. stage \in Ops /\ stage # "recover_arms"
      BY DEF Ops, Stages
    <3>4. Begin(t, stage, plan[p].arms, p, P)
      BY <2>4
    <3> HIDE DEF P
    <3>5. /\ OnlyExecutes(P, p)
          /\ \A q \in Plans : P[q].state \notin HeldStates
      BY <3>2 DEF OnlyExecutes, HeldStates
    <3>6. gripping \subseteq plan[p].arms /\ (stage # "place" => gripping = {})
      BY <2>2
    <3>7. QED
      BY <2>1, <3>1, <3>2, <3>3, <3>4, <3>5, <3>6, BeginGrips
  <2>5. QED
    BY <1>2, <2>1, <2>3, <2>4, RefuseGrips DEF ExecutePlan
<1>3. ASSUME NEW arms \in Selections, Manual(t, arms)
      PROVE  GripInv'
  <2>1. ~busy /\ ~uncertain /\ ~recovery /\ pc[t] = "idle"
    BY <1>3 DEF Manual, Admissible
  <2>2. CASE ~PlanIn(HeldStates) /\ Begin(t, "manual", arms, NoPlan, Invalidate(plan))
    <3>1. gripping = {}
      BY <2>1, <2>2, AdmittedGrips
    <3>2. "manual" \in Ops /\ "manual" \notin Stages
      BY DEF Ops, Stages
    <3>3. QED
      BY <1>1, <2>1, <2>2, <3>1, <3>2, BeginGrips
  <2>3. QED
    BY <1>3, <2>1, <2>2, RefuseGrips DEF Manual
<1>4. ASSUME Recover(t)
      PROVE  GripInv'
  <2>1. ~busy /\ ~uncertain /\ allStopped /\ pc[t] = "idle"
    BY <1>4 DEF Recover, Admissible
  <2>2. recovery \/ gripping = {}
    BY <2>1 DEF GripInv, DroppedPlan, GripAccounted, LiveIn
  <2>3. CASE Begin(t, "recover_arms", Arms, NoPlan, Invalidate(plan))
    <3>1. "recover_arms" \in Ops /\ "recover_arms" \notin Stages
      BY DEF Ops, Stages
    <3>2. QED
      BY <1>1, <2>1, <2>2, <2>3, <3>1, BeginGrips
  <2>4. QED
    BY <1>4, <2>1, <2>3, RefuseGrips DEF Recover
<1>5. QED
  BY <1>2, <1>3, <1>4

\* An interruption drops the plans and makes recovery due if it drops one.
LEMMA InterruptionGrips ==
  ASSUME TypeOK, TaskInv, PlanInv, GripInv
  PROVE  /\ \A t \in Tasks, requested \in Selections : StopRequest(t, requested) => GripInv'
         /\ InvalidateGeometry => GripInv'
<1>1. /\ ~LiveIn(Invalidate(plan))
      /\ \A q \in Plans : Invalidate(plan)[q].arms = plan[q].arms
  <2>1. plan \in PlanTables
    BY DEF TypeOK, PlanTables
  <2>2. QED
    BY <2>1, InvalidIsDropped
<1>2. recovery \/ Interrupting \/ gripping = {}
  BY DEF GripInv, GripAccounted, Interrupting, PlanIn
<1>3. ASSUME NEW t \in Tasks, NEW requested \in Selections, StopRequest(t, requested)
      PROVE  GripInv'
  <2>1. \A u \in Tasks : InMotion(u)' => InMotion(u) /\ job'[u] = job[u]
    BY <1>3, NotMotion DEF StopRequest, TypeOK, InMotion
  <2>2. /\ plan' = Invalidate(plan) /\ recovery' = (recovery \/ Interrupting)
        /\ UNCHANGED <<coupled, gripping>>
    BY <1>3 DEF StopRequest
  <2>3. QED
    BY <1>1, <1>2, <2>1, <2>2, DroppedGrips DEF GripInv, GroupRemembered, TaskInv
<1>4. ASSUME InvalidateGeometry
      PROVE  GripInv'
  <2>1. /\ plan' = Invalidate(plan) /\ recovery' = (recovery \/ Interrupting)
        /\ UNCHANGED <<coupled, gripping, pc, job>>
    BY <1>4 DEF InvalidateGeometry, taskVars, ghosts
  <2>2. QED
    BY <1>1, <1>2, <2>1, DroppedGrips DEF GripInv, GroupRemembered, TaskInv, InMotion
<1>5. QED
  BY <1>3, <1>4

LEMMA StopReplyGrips ==
  ASSUME TypeOK, TaskInv, PlanInv, GripInv, NEW t \in Tasks, NEW reply, StopReply(t, reply)
  PROVE  GripInv'
<1>1. Stopping(t) /\ UNCHANGED <<generation, coupled, gripping>> /\ Leave(t)
  BY DEF StopReply, Stopping
<1>2. /\ \A u \in Tasks : InMotion(u)' => InMotion(u) /\ job'[u] = job[u]
      /\ \A u \in Tasks : Stopping(u)' => Stopping(u) /\ job'[u] = job[u]
  BY <1>1, NotMotion DEF Leave, TypeOK, InMotion, Stopping
<1>3. \A u \in Tasks : Stopping(u)' /\ Current(u)' => Stopping(u) /\ Current(u)
  BY <1>1, <1>2 DEF Current
<1>4. CASE UNCHANGED <<recovery, plan>> /\ (Current(t) \/ UNCHANGED allStopped)
  <2>1. Current(t) => ~LiveIn(plan)
    BY <1>1 DEF GripInv, DroppedPlan
  <2>2. QED
    BY <1>1, <1>2, <1>3, <1>4, <2>1, SteadyGrips
<1>5. CASE recovery' = TRUE /\ plan' = Invalidate(plan)
  <2>1. plan \in PlanTables
    BY DEF TypeOK, PlanTables
  <2>2. QED
    BY <1>1, <1>2, <1>5, <2>1, InvalidIsDropped, DroppedGrips DEF GripInv, GroupRemembered, TaskInv
<1>6. QED
  BY <1>4, <1>5, Zenon DEF StopReply

LEMMA GripStep ==
  ASSUME TypeOK, TaskInv, PlanInv, GripInv, [Next]_vars
  PROVE  GripInv'
<1>1. CASE UNCHANGED vars \/ ClosePending
  BY <1>1, SteadyGrips DEF vars, ClosePending, taskVars, ghosts, InMotion, Stopping, Current
<1>2. ASSUME NEW p \in Plans, NEW arms \in Selections
      PROVE  /\ Create(p, arms) => GripInv'
             /\ \A success \in BOOLEAN : Verify(p, arms, success) => GripInv'
  BY CreateGrips, VerifyGrips
<1>3. ASSUME NEW t \in Tasks, Request(t)
      PROVE  GripInv'
  BY <1>3, RequestGrips, InterruptionGrips DEF Request
<1>4. "unknown" \in Replies
  BY ConstantsAssumption
<1>5. ASSUME NEW t \in Tasks, Resume(t) \/ Expire(t)
      PROVE  GripInv'
  BY <1>4, <1>5, MotionStepGrips, StopReplyGrips
     DEF Resume, Expire, CommandTimeout, HaltTimeout, StopTimeout, MotionStep
<1>6. QED
  BY <1>1, <1>2, <1>3, <1>5, InterruptionGrips DEF Next

LEMMA GripInvariant == Spec => []GripInv
<1>1. Init => GripInv
  BY DEF Init, GripInv, DroppedPlan, MotionGrip, GroupRemembered, GripAccounted, IsGroup,
         LiveIn, HeldStates, InMotion, MotionStates
<1>2. TypeOK /\ TaskInv /\ PlanInv /\ GripInv /\ [Next]_vars => GripInv'
  BY GripStep
<1>3. QED
  BY <1>1, <1>2, TypeCorrect, TasksInvariant, PlansInvariant, PTL DEF Spec

\* An object a pick closed on is never forgotten (GripAccounted): until a
\* confirmed place or recovery, a held or executing plan covers the gripping arms
\* or the bridge insists on recovery, whatever was requested, interrupted,
\* invalidated or answered late in between.
THEOREM GripIsAccounted == Spec => []GripAccounted
<1>1. GripInv => GripAccounted
  BY DEF GripInv
<1>2. QED
  BY <1>1, GripInvariant, PTL

-----------------------------------------------------------------------------
(* A stop and the arms that hold an object together *)

\* What /v1/stop makes of the requested arms covers the gripping group it touches.
LEMMA ExpandCoversGroup ==
  ASSUME PlanInv, GripInv, NEW requested, IsGroup(gripping),
         Expand(requested) \cap gripping # {}
  PROVE  gripping \subseteq Expand(requested)
<1> DEFINE touched == Joined(requested, active)
           running == Joined(touched, coupled)
           live    == {q \in Plans : plan[q].state \in HeldStates \cup {"executing"}}
<1>1. gripping \subseteq coupled /\ IsGroup(coupled)
  BY DEF GripInv, GroupRemembered, IsGroup
<1>2. Expand(requested) = running \cup UNION {Joined(running, plan[p].arms) : p \in live}
  BY DEF Expand
<1>3. CASE touched \cap coupled # {}
  BY <1>1, <1>2, <1>3 DEF Joined
<1>4. CASE touched \cap coupled = {}
  <2>1. running = touched
    BY <1>4 DEF Joined
  <2>2. PICK p \in live : Joined(running, plan[p].arms) \cap gripping # {}
    <3>1. running \cap gripping = {}
      BY <1>1, <1>4, <2>1
    <3>2. QED
      BY <1>2, <3>1
  <2>3. Joined(running, plan[p].arms) = running \cup plan[p].arms
    BY <1>1, <1>4, <2>1, <2>2 DEF Joined
  <2>4. gripping \subseteq plan[p].arms
    <3>1. ~recovery /\ gripping # {}
      BY <1>1, <2>2 DEF GripInv, DroppedPlan, LiveIn, IsGroup
    <3>2. PICK q \in live : gripping \subseteq plan[q].arms
      BY <3>1 DEF GripInv, GripAccounted
    <3>3. q = p
      BY <2>2, <3>2 DEF PlanInv, HeldExclusive, HeldStates
    <3>4. QED
      BY <3>2, <3>3
  <2>5. QED
    BY <1>2, <2>2, <2>3, <2>4
<1>5. QED
  BY <1>3, <1>4

\* A stop that touches one of several arms holding an object together is sent
\* for all of them (StopCoversGroup), although the plan that joined them may be
\* invalid by then.
THEOREM StopsCoverGroups == Spec => StopCoversGroup
<1>1. ASSUME TypeOK, [Next]_vars, NEW t \in Tasks, pc[t] = "idle", pc'[t] = "stop"
      PROVE  \E requested \in Selections : job'[t].arms = Expand(requested)
  <2>1. ~\E u \in Tasks, s \in MotionStates \cup {"idle"} : pc' = [pc EXCEPT ![u] = s]
    BY <1>1, NotMotion DEF TypeOK
  <2>2. pc' # pc
    BY <1>1
  <2>3. ASSUME NEW u \in Tasks, MotionStep(u) \/ \E reply \in Replies : StopReply(u, reply)
        PROVE  FALSE
    BY <1>1, <2>1, <2>3, MotionSteps DEF Advances, Ends, Leave, StopReply
  <2>4. ASSUME NEW u \in Tasks, NEW op, NEW arms, NEW p, NEW P, Begin(u, op, arms, p, P)
        PROVE  FALSE
    BY <2>1, <2>2, <2>4 DEF Begin, MotionStates
  <2>5. ~RefuseUnhealthy
    BY <2>2 DEF RefuseUnhealthy, taskVars
  <2>6. PICK u \in Tasks : Request(u) \/ Resume(u) \/ Expire(u)
    BY <1>1, <2>2, <2>5 DEF Next, vars, Create, Verify, InvalidateGeometry, ClosePending, taskVars
  <2>7. "unknown" \in Replies
    BY ConstantsAssumption
  <2>8. Request(u)
    BY <2>3, <2>6, <2>7
       DEF Resume, Expire, CommandTimeout, HaltTimeout, StopTimeout, MotionStep
  <2>9. PICK requested \in Selections : StopRequest(u, requested)
    BY <2>2, <2>4, <2>5, <2>8 DEF Request, ExecutePlan, Manual, Recover, taskVars
  <2>10. job'[t].arms = Expand(requested)
    BY <1>1, <2>9 DEF StopRequest, TypeOK
  <2>11. QED
    BY <2>10
<1>2. TypeOK /\ PlanInv /\ GripInv /\ [Next]_vars =>
        [\A t \in Tasks :
           pc[t] = "idle" /\ pc'[t] = "stop" /\ IsGroup(gripping) /\ job'[t].arms \cap gripping # {}
             => gripping \subseteq job'[t].arms]_vars
  BY <1>1, ExpandCoversGroup
<1>3. QED
  BY <1>2, TypeCorrect, PlansInvariant, GripInvariant, PTL DEF Spec, StopCoversGroup

-----------------------------------------------------------------------------
(* The bridge implements MotionAuthority: every step of Next is a step of the
   abstract specification under AuthorityHeld, or changes nothing it sees.  What
   a step does to the authority depends only on which of four kinds it is. *)

\* Motions go on or stand still; only an uninterrupted one makes arms restless.
Carries ==
  /\ UNCHANGED <<busy, generation>>
  /\ \A t \in Tasks : InMotion(t)' <=> InMotion(t)
  /\ \A t \in Tasks : InMotion(t) => job'[t] = job[t]
  /\ restless' \subseteq restless \/ \E t \in Tasks : Driving(t)

\* There is no motion any more.
Closes == ~busy' /\ restless' \subseteq restless

\* The outcome becomes unknown.
Interrupts == uncertain' /\ restless' \subseteq restless

\* A motion starts.
Begins ==
  /\ FreeToMove
  /\ restless' = restless
  /\ busy' /\ ~uncertain' /\ \E t \in Tasks : Driving(t)'

-----------------------------------------------------------------------------
(* Every step is of one of the four kinds *)

LEMMA OnlySendingMoves ==
  ASSUME NEW t \in Tasks, MotionStep(t)
  PROVE  restless' \subseteq restless \/ (Driving(t) /\ pc' = [pc EXCEPT ![t] = "sending"])
<1>1. ASSUME NEW k, NEW base, base \subseteq restless, Continue(t, k, base)
      PROVE  restless' \subseteq restless \/ pc' = [pc EXCEPT ![t] = "sending"]
  BY <1>1 DEF Continue
<1>2. ASSUME NEW reply \in Replies, DriverReply(t, reply)
      PROVE  restless' \subseteq restless \/ (Driving(t) /\ pc' = [pc EXCEPT ![t] = "sending"])
  <2>1. pc[t] = "sending"
    BY <1>2 DEF DriverReply
  <2>2. UNCHANGED restless \/ (Current(t) /\ Continue(t, 1, restless))
    <3>1. UNCHANGED ghosts => UNCHANGED restless
      BY DEF ghosts
    <3>2. UNCHANGED <<busy, uncertain, recovery, allStopped, active, plan, job, step, ghosts>>
            => UNCHANGED restless
      BY DEF ghosts
    <3>3. UNCHANGED <<allStopped, ghosts>> => UNCHANGED restless
      BY DEF ghosts
    <3>4. UNCHANGED <<restless, gripping>> => UNCHANGED restless
      OBVIOUS
    <3> QED
      BY <1>2, <3>2, <3>3, <3>4, Zenon DEF DriverReply
  <2>3. Current(t) => Driving(t)
    BY <2>1 DEF Driving, InMotion, MotionStates
  <2>4. restless \subseteq restless
    OBVIOUS
  <2>5. CASE UNCHANGED restless
    BY <2>5
  <2>6. CASE Current(t) /\ Continue(t, 1, restless)
    BY <1>1, <2>3, <2>4, <2>6
  <2> QED
    BY <2>2, <2>5, <2>6
<1>3. CASE Settled(t)
  <2>1. pc[t] = "settling"
    BY <1>3 DEF Settled
  <2>2. \/ UNCHANGED restless
        \/ restless' = restless \ job[t].arms
        \/ (Current(t) /\ Continue(t, step[t] + 1, restless \ job[t].arms))
    <3>1. UNCHANGED <<restless, gripping>> => UNCHANGED restless
      OBVIOUS
    <3> QED
      BY <1>3, <3>1, Zenon DEF Settled
  <2>3. Current(t) => Driving(t)
    BY <2>1 DEF Driving, InMotion, MotionStates
  <2>4. restless \ job[t].arms \subseteq restless
    OBVIOUS
  <2>5. CASE UNCHANGED restless \/ restless' = restless \ job[t].arms
    BY <2>5
  <2>6. CASE Current(t) /\ Continue(t, step[t] + 1, restless \ job[t].arms)
    BY <1>1, <2>3, <2>4, <2>6
  <2> QED
    BY <2>2, <2>5, <2>6
<1>4. CASE \E reply \in Replies : HaltReply(t, reply)
  <2>1. PICK reply \in Replies : HaltReply(t, reply)
    BY <1>4
  <2>2. restless' = IF reply = "confirmed" THEN restless \ job[t].arms ELSE restless
    BY <2>1, Zenon DEF HaltReply
  <2> QED
    BY <2>2
<1>5. CASE SettleTimeout(t) \/ FinalTimeout(t) \/ FinalState(t)
  <2>1. UNCHANGED <<allStopped, coupled, ghosts>> => UNCHANGED restless
    BY DEF ghosts
  <2>2. UNCHANGED <<generation, allStopped, coupled, closing, order, ghosts>> => UNCHANGED restless
    BY DEF ghosts
  <2>3. UNCHANGED <<generation, coupled, closing, order, restless, gripping>> => UNCHANGED restless
    OBVIOUS
  <2>4. \A late : Complete(t, late) => UNCHANGED restless
    BY DEF Complete
  <2>5. UNCHANGED restless
    BY <1>5, <2>1, <2>2, <2>3, <2>4, Zenon DEF SettleTimeout, FinalTimeout, FinalState
  <2> QED
    BY <2>5
<1> QED
  BY <1>2, <1>3, <1>4, <1>5 DEF MotionStep

LEMMA MotionKind ==
  ASSUME TypeOK, TaskInv, NEW t \in Tasks, MotionStep(t)
  PROVE  Carries \/ Closes
<1>1. InMotion(t) /\ (Advances(t) \/ Ends(t))
  BY MotionSteps
<1>2. CASE Advances(t)
  <2>1. PICK s \in MotionStates : pc' = [pc EXCEPT ![t] = s]
    BY <1>2 DEF Advances
  <2>2. \A u \in Tasks : InMotion(u)' <=> InMotion(u)
    BY <1>1, <2>1 DEF TypeOK, InMotion
  <2> QED
    BY <1>2, <2>2, OnlySendingMoves DEF Advances, Carries
<1>3. CASE Ends(t)
  <2>1. pc'[t] = "idle"
    BY <1>3 DEF Ends, Leave, TypeOK
  <2>2. pc' # [pc EXCEPT ![t] = "sending"]
    BY <2>1 DEF TypeOK
  <2> QED
    BY <1>3, <2>2, OnlySendingMoves DEF Ends, Closes
<1> QED
  BY <1>1, <1>2, <1>3

LEMMA RestsKind ==
  ASSUME UNCHANGED <<busy, generation, pc, job, restless>>
  PROVE  Carries
BY DEF Carries, InMotion

LEMMA BeginKind ==
  ASSUME TypeOK, FreeToMove, NEW t \in Tasks, pc[t] = "idle",
         NEW op, NEW arms, NEW p, NEW P, Begin(t, op, arms, p, P)
  PROVE  Closes \/ Begins
<1>1. ~busy /\ ~uncertain /\ UNCHANGED <<generation, restless>>
  BY DEF FreeToMove, Begin
<1>2. CASE UNCHANGED busy
  BY <1>1, <1>2 DEF Closes
<1>3. CASE /\ busy' = TRUE /\ UNCHANGED uncertain
           /\ job' = [job EXCEPT ![t] = [op |-> op, arms |-> arms, gen |-> generation,
                                         plan |-> p, was |-> FALSE]]
           /\ \E s \in {"sending", "halting", "haltingUnknown"} : pc' = [pc EXCEPT ![t] = s]
  <2>1. pc'[t] \in MotionStates /\ job'[t].gen = generation
    BY <1>3 DEF TypeOK, MotionStates
  <2> QED
    BY <1>1, <1>3, <2>1 DEF Begins, Driving, InMotion, Current
<1> QED
  <2>1. \/ UNCHANGED busy
        \/ /\ busy' = TRUE /\ UNCHANGED <<uncertain, recovery>>
           /\ job' = [job EXCEPT ![t] = [op |-> op, arms |-> arms, gen |-> generation,
                                         plan |-> p, was |-> FALSE]]
           /\ \E s \in {"sending", "halting", "haltingUnknown"} : pc' = [pc EXCEPT ![t] = s]
    BY Zenon DEF Begin
  <2> QED
    BY <1>2, <1>3, <2>1

\* Admission implies that nothing stands against a motion.
LEMMA AdmittedIsFree ==
  ASSUME NEW op, Admissible(op), op = "recover_arms" => allStopped
  PROVE  FreeToMove
BY DEF Admissible, FreeToMove

LEMMA RequestKind ==
  ASSUME TypeOK, NEW t \in Tasks, Request(t)
  PROVE  Carries \/ Closes \/ Interrupts \/ Begins
<1>1. RefuseUnhealthy => Carries
  BY RestsKind DEF RefuseUnhealthy, taskVars, ghosts
<1>2. ASSUME NEW p \in Plans, NEW stage \in Stages, ExecutePlan(t, p, stage)
      PROVE  Carries \/ Closes \/ Begins
  <2>1. pc[t] = "idle" /\ Admissible("execute_plan")
    BY <1>2 DEF ExecutePlan
  <2>2. FreeToMove
    BY <2>1, AdmittedIsFree
  <2>3. CASE UNCHANGED <<busy, uncertain, recovery, allStopped, generation, active,
                         coupled, closing, order, taskVars, ghosts>>
    BY <2>3, RestsKind DEF taskVars, ghosts
  <2>4. CASE Begin(t, stage, plan[p].arms, p, [DropOthers(p) EXCEPT ![p].state = "executing"])
    BY <2>1, <2>2, <2>4, BeginKind
  <2> QED
    BY <1>1, <1>2, <2>3, <2>4 DEF ExecutePlan
<1>3. ASSUME NEW arms \in Selections, Manual(t, arms)
      PROVE  Carries \/ Closes \/ Begins
  <2>1. pc[t] = "idle" /\ Admissible("manual")
    BY <1>3 DEF Manual
  <2>2. FreeToMove
    BY <2>1, AdmittedIsFree
  <2> QED
    BY <1>1, <1>3, <2>1, <2>2, BeginKind DEF Manual
<1>4. ASSUME Recover(t)
      PROVE  Carries \/ Closes \/ Begins
  <2>1. pc[t] = "idle" /\ Admissible("recover_arms") /\ allStopped
    BY <1>4 DEF Recover
  <2>2. FreeToMove
    BY <2>1, AdmittedIsFree
  <2> QED
    BY <1>1, <1>4, <2>1, <2>2, BeginKind DEF Recover
<1>5. ASSUME NEW requested \in Selections, StopRequest(t, requested)
      PROVE  Interrupts
  BY <1>5 DEF StopRequest, Interrupts
<1> QED
  BY <1>2, <1>3, <1>4, <1>5 DEF Request

LEMMA StopReplyKind ==
  ASSUME TypeOK, NEW t \in Tasks, NEW reply, StopReply(t, reply)
  PROVE  Carries
<1>1. /\ pc[t] = "stop" /\ UNCHANGED <<busy, generation>> /\ Leave(t)
      /\ restless' \subseteq restless
  BY DEF StopReply
<1>2. /\ pc'[t] = "idle"
      /\ \A u \in Tasks : u # t => pc'[u] = pc[u] /\ job'[u] = job[u]
  BY <1>1 DEF Leave, TypeOK
<1>3. ~InMotion(t) /\ ~InMotion(t)'
  BY <1>1, <1>2, NotMotion DEF InMotion
<1>4. \A u \in Tasks : u # t => (InMotion(u)' <=> InMotion(u))
  BY <1>2 DEF InMotion
<1> QED
  BY <1>1, <1>2, <1>3, <1>4 DEF Carries

LEMMA StepKinds ==
  ASSUME TypeOK, TaskInv, Next
  PROVE  Carries \/ Closes \/ Interrupts \/ Begins
<1>1. ASSUME NEW p \in Plans, NEW arms \in Selections, NEW success \in BOOLEAN
      PROVE  (Create(p, arms) \/ Verify(p, arms, success)) => Carries
  BY RestsKind DEF Create, Verify, RefuseUnhealthy, taskVars, ghosts
<1>2. ClosePending => Carries
  BY RestsKind DEF ClosePending, taskVars, ghosts
<1>3. InvalidateGeometry => Carries \/ Interrupts
  <2>1. InvalidateGeometry /\ UNCHANGED generation => Carries
    BY RestsKind DEF InvalidateGeometry, taskVars, ghosts
  <2>2. InvalidateGeometry /\ uncertain' = TRUE => Interrupts
    BY DEF InvalidateGeometry, Interrupts, ghosts
  <2> QED
    BY <2>1, <2>2 DEF InvalidateGeometry
<1>4. "unknown" \in Replies
  BY ConstantsAssumption
<1>5. ASSUME NEW t \in Tasks, Resume(t) \/ Expire(t)
      PROVE  Carries \/ Closes
  BY <1>4, <1>5, MotionKind, StopReplyKind
     DEF Resume, Expire, CommandTimeout, HaltTimeout, StopTimeout, MotionStep
<1> QED
  BY <1>1, <1>2, <1>3, <1>5, RequestKind DEF Next

-----------------------------------------------------------------------------
(* What each kind does to the authority *)

LEMMA AuthorityStates ==
  /\ AuthorityHeld \in {"blocked", "free", "driving", "draining"}
  /\ AuthorityHeld = "free" <=> FreeToMove
  /\ ~busy => AuthorityHeld \in {"blocked", "free"}
  /\ AuthorityHeld \in {"driving", "draining"} <=> busy /\ ~uncertain
  /\ AuthorityHeld = "driving" <=> busy /\ ~uncertain /\ \E t \in Tasks : Driving(t)
BY DEF AuthorityHeld, FreeToMove, Driving, InMotion, Current

LEMMA DrainsQuietly ==
  ASSUME QuietInv
  PROVE  AuthorityHeld \in {"free", "draining"} => restless = {}
BY AuthorityStates DEF QuietInv, FreeMeansQuiet, DrainQuiet

LEMMA Maps ==
  ASSUME TypeOK, TypeOK', TaskInv, QuietInv, QuietInv', Next
  PROVE  Authority!Next
<1>1. /\ AuthorityHeld' \in {"blocked", "free", "driving", "draining"}
      /\ AuthorityHeld' = "free" <=> FreeToMove'
      /\ ~busy' => AuthorityHeld' \in {"blocked", "free"}
      /\ AuthorityHeld' \in {"driving", "draining"} <=> busy' /\ ~uncertain'
      /\ AuthorityHeld' = "driving" <=> busy' /\ ~uncertain' /\ \E t \in Tasks : Driving(t)'
  BY DEF AuthorityHeld, FreeToMove, Driving, InMotion, Current
<1>2. AuthorityHeld' \in {"free", "draining"} => restless' = {}
  BY <1>1 DEF QuietInv, FreeMeansQuiet, DrainQuiet
<1>3. restless' \subseteq Arms
  BY DEF TypeOK
<1>4. AuthorityHeld' = "free" => Authority!Next
  BY <1>2 DEF Authority!Next, Authority!Release
<1>5. AuthorityHeld' = "blocked" /\ restless' \subseteq restless => Authority!Next
  BY DEF Authority!Next, Authority!Revoke
<1>6. CASE Closes
  BY <1>1, <1>4, <1>5, <1>6 DEF Closes
<1>7. CASE Interrupts
  BY <1>1, <1>4, <1>5, <1>7 DEF Interrupts
<1>8. CASE Begins
  <2>1. AuthorityHeld = "free" /\ AuthorityHeld' = "driving"
    BY <1>1, <1>8, AuthorityStates DEF Begins
  <2>2. restless = {} /\ restless' = restless
    BY <1>8, <2>1, DrainsQuietly DEF Begins
  <2> QED
    BY <2>1, <2>2 DEF Authority!Next, Authority!Grant
<1>9. CASE Carries
  <2>1. CASE \E t \in Tasks : Driving(t)
    <3>1. PICK t \in Tasks : Driving(t)
      BY <2>1
    <3>2. busy /\ ~uncertain
      BY <3>1, DrivingAlone DEF QuietInv, DriverOwnsRestless
    <3>3. Driving(t)' /\ busy'
      BY <1>9, <3>1, <3>2 DEF Carries, Driving, Current
    <3>4. ~uncertain'
      BY <3>3 DEF QuietInv, DriverOwnsRestless
    <3>5. AuthorityHeld = "driving" /\ AuthorityHeld' = "driving"
      BY <1>1, <3>1, <3>2, <3>3, <3>4, AuthorityStates
    <3> QED
      BY <1>3, <3>5 DEF Authority!Next, Authority!Drive
  <2>2. CASE ~ \E t \in Tasks : Driving(t)
    <3>1. restless' \subseteq restless /\ (busy' <=> busy)
      BY <1>9, <2>2 DEF Carries
    <3>2. ~ \E t \in Tasks : Driving(t)'
      BY <1>9, <2>2 DEF Carries, Driving, Current
    <3>3. AuthorityHeld' # "driving" /\ AuthorityHeld # "driving"
      BY <1>1, <2>2, <3>2, AuthorityStates
    <3>4. CASE AuthorityHeld' = "draining"
      <4>1. AuthorityHeld \in {"blocked", "draining"} /\ restless' = {}
        BY <1>1, <1>2, <3>1, <3>3, <3>4, AuthorityStates DEF FreeToMove
      <4> QED
        BY <3>1, <3>4, <4>1
        DEF Authority!Next, Authority!Release, Authority!Quieten
    <3> QED
      BY <1>1, <1>4, <1>5, <3>1, <3>3, <3>4
  <2> QED
    BY <2>1, <2>2
<1> QED
  BY <1>6, <1>7, <1>8, <1>9, StepKinds

\* Every behaviour of the bridge is a behaviour of MotionAuthority: the flags,
\* generations and coroutines of robot_node.py and sequencer.py amount to one
\* authority to move that is granted only while every arm is quiet.
THEOREM BridgeImplementsAuthority == Spec => ImplementsAuthority
<1>1. Init => Authority!Init
  BY DEF Init, Authority!Init, AuthorityHeld, FreeToMove
<1>2. ASSUME TypeOK, TypeOK', TaskInv, QuietInv, QuietInv', [Next]_vars
      PROVE  [Authority!Next]_(Authority!vars)
  <2>1. CASE Next
    BY <1>2, <2>1, Maps
  <2>2. CASE UNCHANGED vars
    BY <2>2 DEF vars, Authority!vars, AuthorityHeld, FreeToMove
  <2> QED
    BY <1>2, <2>1, <2>2
<1> QED
  BY <1>1, <1>2, TypeCorrect, TasksInvariant, QuietInvariant, PTL
  DEF Spec, ImplementsAuthority, Authority!Spec
=============================================================================
