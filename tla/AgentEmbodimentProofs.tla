------------------------ MODULE AgentEmbodimentProofs ------------------------
(***************************************************************************)
(* Type correctness of AgentEmbodiment, for any number of handler tasks,   *)
(* arms, plans and recovery attempts.                                      *)
(*                                                                         *)
(* The type is split in three: what the ends of a tool write (TabType),    *)
(* the calls (CallType) and the rest.  The operators the actions share     *)
(* (Answer, Settle, Refuse, Send, Interrupt, Leave) have a lemma each, and *)
(* every group of actions one that combines them.                          *)
(***************************************************************************)
EXTENDS AgentEmbodiment, SequenceTheorems, TLAPS

-----------------------------------------------------------------------------
(* Types *)

PcStates == Locked \cup {"idle", "queued", "halt", "frame", "deliver", "showing", "reply"}

TabType == 
  /\ plan \in [Plans -> [state: PlanStates, arms: SUBSET Arms]]
  /\ evidence \in [Arms -> [by: Calls \cup {NoCall}, plan: Plans \cup {NoPlan}, delivered: BOOLEAN]]
  /\ valid \subseteq Calls
  /\ shown \subseteq Arms \X Calls

CallType ==
  /\ pc \in [Calls -> PcStates]
  /\ call \in [Calls -> CallRecords]
  /\ \A c \in Calls : call[c].op \in Stages \cup {"refine", "inspect", "verify"} => call[c].plan \in Plans
  /\ current \subseteq Calls

LEMMA AnswerType ==
  ASSUME CallType, NEW c \in Calls, NEW ok \in BOOLEAN, Answer(c, ok)
  PROVE  CallType'
<1> USE DEF CallType, PcStates
<1>1. pc' \in [Calls -> PcStates]
  BY DEF Answer
<1>2. call' = [call EXCEPT ![c].ok = ok] /\ call' \in [Calls -> CallRecords]
  BY DEF Answer, CallRecords
<1>3. \A d \in Calls : call'[d].op = call[d].op /\ call'[d].plan = call[d].plan
  BY <1>2 DEF CallRecords
<1>4. current' \subseteq Calls
  BY DEF Answer
<1> QED
  BY <1>1, <1>2, <1>3, <1>4

LEMMA InvalidateType ==
  ASSUME NEW keep \in SUBSET Calls, Invalidate(keep)
  PROVE  TabType'
BY DEF TabType, Invalidate, Absent, NoEvidence, PlanStates

LEMMA InterruptType ==
  ASSUME NEW lost \in BOOLEAN, Interrupt(lost), sessionLost \in BOOLEAN, needsRecovery \in BOOLEAN
  PROVE  TabType' /\ sessionLost' \in BOOLEAN /\ needsRecovery' \in BOOLEAN /\ current' = {}
<1>1. Invalidate({}) /\ current' = {} /\ sessionLost' \in BOOLEAN /\ needsRecovery' \in BOOLEAN
  BY DEF Interrupt, Owing, MotionActive, PlanIn
<1> QED
  BY <1>1, InvalidateType

LEMMA SettleType ==
  ASSUME TabType, CallType, NEW c \in Calls, NEW ok \in BOOLEAN,
         NEW P \in [Plans -> [state: PlanStates, arms: SUBSET Arms]],
         NEW E \in [Arms -> [by: Calls \cup {NoCall}, plan: Plans \cup {NoPlan}, delivered: BOOLEAN]],
         Settle(c, ok, P, E)
  PROVE  TabType' /\ CallType'
<1>1. CASE c \in current
  <2>1. Answer(c, ok) /\ plan' = P /\ evidence' = E /\ valid' = valid \ {c} /\ shown' = StillShown(E)
    BY <1>1 DEF Settle
  <2>2. TabType'
    BY <2>1 DEF TabType, StillShown
  <2> QED
    BY <2>1, <2>2, AnswerType
<1>2. CASE c \notin current
  <2>1. Invalidate({}) /\ Answer(c, FALSE)
    BY <1>2 DEF Settle
  <2> QED
    BY <2>1, AnswerType, InvalidateType
<1> QED
  BY <1>1, <1>2

LEMMA RefuseType ==
  ASSUME TabType, CallType, NEW c \in Calls, Refuse(c)
  PROVE  TabType' /\ CallType'
<1>1. TabType'
  BY DEF Refuse, TabType, evidVars
<1> QED
  BY <1>1, AnswerType DEF Refuse

LEMMA LeaveType ==
  ASSUME CallType, NEW c \in Calls, Leave(c), current' \subseteq Calls,
         unmoved \subseteq Calls, watched \subseteq Calls
  PROVE  CallType' /\ unmoved' \subseteq Calls /\ watched' \subseteq Calls
BY DEF CallType, PcStates, Leave, NoTool, CallRecords, AllTools, Stages

RestType ==
  /\ app \in {"run", "lastStop", "done", "halting", "closing", "closed"}
  /\ taskResult \in {"none", "success", "failure"}
  /\ finished \in BOOLEAN /\ sessionLost \in BOOLEAN /\ needsRecovery \in BOOLEAN
  /\ finalObs \in BOOLEAN /\ scene \in BOOLEAN
  /\ adrift \in BOOLEAN /\ halted \in BOOLEAN /\ viewed \in BOOLEAN
  /\ attempts \in 0..MaxRecovery
  /\ unmoved \subseteq Calls /\ watched \subseteq Calls
  /\ queue \in Seq(Calls)
  /\ stream \in Calls \cup {NoCall} /\ lastFrame \in Calls \cup {NoCall}
  /\ loaded \subseteq Plans

Types == TabType /\ CallType /\ RestType

LEMMA TypesImplyTypeOK == Types => TypeOK
BY DEF Types, TypeOK, TabType, CallType, RestType, PcStates

LEMMA EnterType ==
  ASSUME queue \in Seq(Calls), NEW c \in Calls, Enter(c)
  PROVE  queue' \in Seq(Calls)
BY HeadTailProperties DEF Enter

LEMMA SendType ==
  ASSUME CallType, NEW c \in Calls, Send(c), loaded \subseteq Plans
  PROVE  /\ CallType'
         /\ adrift' \in BOOLEAN /\ halted' \in BOOLEAN /\ viewed' \in BOOLEAN
         /\ watched' \subseteq Calls /\ loaded' \subseteq Plans
<1>1. CallType'
  BY DEF CallType, PcStates, Locked, Send
<1>2. loaded' \subseteq Plans
  BY DEF Send, CallType, Stages
<1> QED
  BY <1>1, <1>2 DEF Send

\* A call that is suspended without having been answered.
LEMMA SuspendType ==
  ASSUME CallType, NEW c \in Calls, NEW where \in Locked,
         pc' = [pc EXCEPT ![c] = where], UNCHANGED <<call, current>>
  PROVE  CallType'
BY DEF CallType, PcStates

LEMMA MotionStartType ==
  ASSUME Types, NEW c \in Calls,
         Manual(c) \/ Reset(c) \/ Recover(c) \/ (\E stage \in Stages : Execute(c, stage))
  PROVE  Types'
<1> USE DEF Types
<1>1. queue' \in Seq(Calls)
  BY EnterType DEF RestType, Manual, Reset, Recover, Execute, Admit
<1>2. CASE Manual(c)
  <2>0. /\ unmoved' \subseteq Calls /\ scene' \in BOOLEAN
        /\ UNCHANGED <<app, finished, sessionLost, taskResult, attempts, finalObs, stream, lastFrame>>
    BY <1>2 DEF Manual, NewRevision, appVars, taskVars
  <2>1. CASE Refuse(c) /\ UNCHANGED needsRecovery /\ Stay
    <3>1. UNCHANGED <<needsRecovery, loaded, adrift, halted, watched, viewed>>
      BY <2>1 DEF Stay, robotVars, viewVars
    <3>2. RestType'
      BY <1>1, <2>0, <3>1 DEF RestType
    <3> QED
      BY <2>1, <3>2, RefuseType
  <2>2. CASE Invalidate({}) /\ Answer(c, FALSE) /\ Stay /\ needsRecovery' = PlanIn(HeldStates)
    <3>1. UNCHANGED <<loaded, adrift, halted, watched, viewed>> /\ needsRecovery' \in BOOLEAN
      BY <2>2 DEF Stay, robotVars, viewVars, PlanIn
    <3>2. RestType'
      BY <1>1, <2>0, <3>1 DEF RestType
    <3> QED
      BY <2>2, <3>2, InvalidateType, AnswerType
  <2>3. CASE Invalidate({}) /\ Send(c) /\ needsRecovery' = PlanIn(HeldStates)
    <3>1. /\ CallType' /\ TabType'
          /\ adrift' \in BOOLEAN /\ halted' \in BOOLEAN /\ viewed' \in BOOLEAN
          /\ watched' \subseteq Calls /\ loaded' \subseteq Plans
      BY <2>3, InvalidateType, SendType DEF RestType
    <3>2. needsRecovery' \in BOOLEAN
      BY <2>3 DEF PlanIn
    <3>3. RestType'
      BY <1>1, <2>0, <3>1, <3>2 DEF RestType
    <3> QED
      BY <3>1, <3>3
  <2> QED
    BY <1>2, <2>1, <2>2, <2>3 DEF Manual
<1>3. CASE Reset(c)
  <2>1. CASE Refuse(c) /\ Stay
    <3>1. UNCHANGED <<loaded, adrift, halted, watched, viewed>>
      BY <2>1 DEF Stay, robotVars, viewVars
    <3>2. /\ unmoved' \subseteq Calls /\ scene' \in BOOLEAN
          /\ UNCHANGED <<app, finished, sessionLost, taskResult, needsRecovery, attempts, finalObs,
                         stream, lastFrame>>
      BY <1>3 DEF Reset, NewRevision, appVars, taskVars
    <3>3. RestType'
      BY <1>1, <3>1, <3>2 DEF RestType
    <3> QED
      BY <2>1, <3>3, RefuseType
  <2>2. CASE Invalidate({}) /\ Send(c)
    <3>1. /\ CallType' /\ TabType'
          /\ adrift' \in BOOLEAN /\ halted' \in BOOLEAN /\ viewed' \in BOOLEAN
          /\ watched' \subseteq Calls /\ loaded' \subseteq Plans
      BY <2>2, InvalidateType, SendType DEF RestType
    <3>2. /\ unmoved' \subseteq Calls /\ scene' \in BOOLEAN
          /\ UNCHANGED <<app, finished, sessionLost, taskResult, needsRecovery, attempts, finalObs,
                         stream, lastFrame>>
      BY <1>3 DEF Reset, NewRevision, appVars, taskVars
    <3>3. RestType'
      BY <1>1, <3>1, <3>2 DEF RestType
    <3> QED
      BY <3>1, <3>3
  <2> QED
    BY <1>3, <2>1, <2>2 DEF Reset
<1>4. ASSUME NEW stage \in Stages, Execute(c, stage)
      PROVE  Types'
  <2>1. CASE Refuse(c) /\ Stay
    <3>1. UNCHANGED <<loaded, adrift, halted, watched, viewed>>
      BY <2>1 DEF Stay, robotVars, viewVars
    <3>2. /\ unmoved' \subseteq Calls /\ scene' \in BOOLEAN
          /\ UNCHANGED <<app, finished, sessionLost, taskResult, needsRecovery, attempts, finalObs,
                         stream, lastFrame>>
      BY <1>4 DEF Execute, NewRevision, appVars, taskVars
    <3>3. RestType'
      BY <1>1, <3>1, <3>2 DEF RestType
    <3> QED
      BY <2>1, <3>3, RefuseType
  <2>2. CASE /\ evidence' = [a \in Arms |-> NoEvidence] /\ shown' = {}
             /\ valid' = valid \cup {c} /\ UNCHANGED plan /\ Send(c)
    <3>1. TabType'
      BY <2>2 DEF TabType, NoEvidence
    <3>2. /\ CallType'
          /\ adrift' \in BOOLEAN /\ halted' \in BOOLEAN /\ viewed' \in BOOLEAN
          /\ watched' \subseteq Calls /\ loaded' \subseteq Plans
      BY <2>2, SendType DEF RestType
    <3>3. /\ unmoved' \subseteq Calls /\ scene' \in BOOLEAN
          /\ UNCHANGED <<app, finished, sessionLost, taskResult, needsRecovery, attempts, finalObs,
                         stream, lastFrame>>
      BY <1>4 DEF Execute, NewRevision, appVars, taskVars
    <3>4. RestType'
      BY <1>1, <3>2, <3>3 DEF RestType
    <3> QED
      BY <3>1, <3>2, <3>4
  <2> QED
    BY <1>4, <2>1, <2>2 DEF Execute
<1>5. CASE Recover(c)
  <2>0. /\ unmoved' \subseteq Calls /\ scene' \in BOOLEAN /\ needsRecovery' \in BOOLEAN
        /\ UNCHANGED <<app, finished, sessionLost, taskResult, finalObs, stream, lastFrame, loaded,
                       adrift, watched, viewed>>
    BY <1>5 DEF Recover, NewRevision, viewVars, appVars, taskVars
  <2>1. CASE Refuse(c) /\ UNCHANGED <<attempts, halted>>
    <3>1. RestType'
      BY <1>1, <2>0, <2>1 DEF RestType
    <3> QED
      BY <2>1, <3>1, RefuseType
  <2>2. CASE /\ ~Exhausted /\ attempts' = attempts + 1 /\ Invalidate({c})
             /\ pc' = [pc EXCEPT ![c] = "recoverStop"] /\ halted' = TRUE
             /\ UNCHANGED <<call, current>>
    <3>1. TabType' /\ CallType'
      <4>1. "recoverStop" \in Locked
        BY DEF Locked
      <4> QED
        BY <2>2, <4>1, InvalidateType, SuspendType
    <3>2. attempts' \in 0..MaxRecovery
      BY <2>2, ConstantsAssumption DEF RestType, Exhausted
    <3>3. halted' \in BOOLEAN
      BY <2>2
    <3>4. RestType'
      BY <1>1, <2>0, <3>2, <3>3 DEF RestType
    <3> QED
      BY <3>1, <3>4
  <2> QED
    BY <1>5, <2>1, <2>2 DEF Recover
<1> QED
  BY <1>2, <1>3, <1>4, <1>5

LEMMA ReadType ==
  ASSUME TabType, CallType, NEW c \in Calls,
         Read(c) \/ (\E where \in Locked : Suspend(c, where))
  PROVE  TabType' /\ CallType'
<1>1. TabType'
  BY DEF TabType, Read, Suspend, evidVars
<1>2. \E where \in Locked : pc' = [pc EXCEPT ![c] = where] /\ UNCHANGED <<call, current>>
  BY DEF Read, Suspend, Locked
<1> QED
  BY <1>1, <1>2, SuspendType

LEMMA RescueType ==
  ASSUME CallType, NEW c \in Calls, Rescue(c)
  PROVE  CallType' /\ needsRecovery' \in BOOLEAN /\ halted' \in BOOLEAN
<1>1. "rescue" \in Locked
  BY DEF Locked
<1>2. pc' = [pc EXCEPT ![c] = "rescue"] /\ UNCHANGED <<call, current>>
  BY DEF Rescue
<1> QED
  BY <1>1, <1>2, SuspendType DEF Rescue

\* The plan of a stage call exists.
LEMMA TouchType ==
  ASSUME CallType, TabType, NEW c \in Calls, call[c].op \in Stages \cup {"verify"},
         NEW s \in PlanStates
  PROVE  [plan EXCEPT ![call[c].plan].state = s] \in [Plans -> [state: PlanStates, arms: SUBSET Arms]]
BY DEF TabType, CallType

LEMMA SpoilType ==
  ASSUME CallType, TabType, NEW c \in Calls
  PROVE  Spoil(c) \in [Plans -> [state: PlanStates, arms: SUBSET Arms]]
<1>1. CASE call[c].op \in Stages
  BY <1>1, TouchType DEF Spoil, PlanStates, TabType
<1>2. CASE call[c].op \notin Stages
  BY <1>2 DEF Spoil, TabType
<1> QED
  BY <1>1, <1>2

LEMMA MotionEndType ==
  ASSUME Types, NEW c \in Calls,
         \/ \E reply \in {"confirmed", "refused", "unknown"} :
              RecoverStopped(c, reply) \/ MotionFailed(c, reply)
         \/ MotionConfirmed(c) \/ Rescued(c)
  PROVE  Types'
<1> USE DEF Types
<1>1. /\ plan \in [Plans -> [state: PlanStates, arms: SUBSET Arms]]
      /\ evidence \in [Arms -> [by: Calls \cup {NoCall}, plan: Plans \cup {NoPlan}, delivered: BOOLEAN]]
      /\ loaded \subseteq Plans /\ FALSE \in BOOLEAN
  BY DEF TabType, RestType
<1>2. ASSUME NEW reply \in {"confirmed", "refused", "unknown"}, RecoverStopped(c, reply)
      PROVE  Types'
  <2>0. UNCHANGED <<app, finished, sessionLost, taskResult, attempts, finalObs, scene, unmoved, queue,
                    stream, lastFrame>>
    BY <1>2 DEF RecoverStopped, appVars, taskVars
  <2>1. CASE Send(c) /\ UNCHANGED <<needsRecovery, plan, evidVars, valid>>
    <3>1. CallType' /\ TabType' /\ loaded' \subseteq Plans /\ watched' \subseteq Calls
          /\ adrift' \in BOOLEAN /\ halted' \in BOOLEAN /\ viewed' \in BOOLEAN
      BY <1>1, <2>1, SendType DEF TabType, evidVars
    <3>2. RestType'
      BY <2>0, <2>1, <3>1 DEF RestType
    <3> QED
      BY <3>1, <3>2
  <2>2. CASE Rescue(c) /\ UNCHANGED <<plan, evidVars, valid, loaded, adrift, viewVars>>
    <3>1. CallType' /\ TabType' /\ needsRecovery' \in BOOLEAN /\ halted' \in BOOLEAN
      BY <2>2, RescueType DEF TabType, evidVars
    <3>2. UNCHANGED <<loaded, adrift, watched, viewed>>
      BY <2>2 DEF viewVars
    <3>3. RestType'
      BY <2>0, <3>1, <3>2 DEF RestType
    <3> QED
      BY <3>1, <3>3
  <2>3. CASE /\ needsRecovery' = (needsRecovery \/ reply = "refused")
             /\ Settle(c, FALSE, plan, evidence) /\ Stay
    <3>1. TabType' /\ CallType'
      BY <1>1, <2>3, SettleType
    <3>2. UNCHANGED <<loaded, adrift, halted, watched, viewed>> /\ needsRecovery' \in BOOLEAN
      BY <2>3 DEF Stay, robotVars, viewVars
    <3>3. RestType'
      BY <2>0, <3>2 DEF RestType
    <3> QED
      BY <3>1, <3>3
  <2> QED
    BY <1>2, <2>1, <2>2, <2>3 DEF RecoverStopped
<1>3. ASSUME NEW reply \in {"confirmed", "refused", "unknown"}, MotionFailed(c, reply)
      PROVE  Types'
  <2>0. UNCHANGED <<app, finished, sessionLost, taskResult, attempts, finalObs, scene, unmoved, queue,
                    stream, lastFrame>>
    BY <1>3 DEF MotionFailed, appVars, taskVars
  <2>1. CASE needsRecovery' = TRUE /\ Settle(c, FALSE, Spoil(c), evidence) /\ Stay
    <3>1. TabType' /\ CallType'
      BY <1>1, <2>1, SettleType, SpoilType
    <3>2. UNCHANGED <<loaded, adrift, halted, watched, viewed>> /\ needsRecovery' \in BOOLEAN
      BY <2>1 DEF Stay, robotVars, viewVars
    <3>3. RestType'
      BY <2>0, <3>2 DEF RestType
    <3> QED
      BY <3>1, <3>3
  <2>2. CASE /\ Rescue(c) /\ plan' = Spoil(c) /\ adrift' = TRUE
             /\ UNCHANGED <<evidVars, valid, loaded, viewVars>>
    <3>1. CallType' /\ needsRecovery' \in BOOLEAN /\ halted' \in BOOLEAN /\ adrift' \in BOOLEAN
      BY <2>2, RescueType
    <3>2. UNCHANGED <<loaded, watched, viewed>>
      BY <2>2 DEF viewVars
    <3>3. RestType'
      BY <2>0, <3>1, <3>2 DEF RestType
    <3>4. TabType'
      BY <2>2, SpoilType DEF TabType, evidVars
    <3> QED
      BY <3>1, <3>3, <3>4
  <2> QED
    BY <1>3, <2>1, <2>2 DEF MotionFailed
<1>4. CASE MotionConfirmed(c)
  <2> DEFINE op == call[c].op
             kept == Checkpoint(c) \/ op \in {"manual", "reset"}
             P == IF op \in Stages /\ kept
                  THEN [plan EXCEPT ![call[c].plan].state = Reached[op]] ELSE plan
  <2>1. P \in [Plans -> [state: PlanStates, arms: SUBSET Arms]]
    <3>1. op \in Stages => Reached[op] \in PlanStates
      BY DEF Stages, Reached, PlanStates
    <3> QED
      BY <1>1, <3>1, TouchType
  <2>2. Settle(c, kept, P, evidence)
    BY <1>4 DEF MotionConfirmed
  <2>3. kept \in BOOLEAN
    BY DEF Checkpoint
  <2>4. TabType' /\ CallType'
    <3> HIDE DEF kept, P
    <3> QED
      BY <1>1, <2>1, <2>2, <2>3, SettleType
  <2>5. /\ UNCHANGED <<app, finished, sessionLost, taskResult, attempts, scene, unmoved, queue,
                       stream, adrift, halted, watched, viewed, lastFrame>>
        /\ needsRecovery' \in BOOLEAN /\ finalObs' \in BOOLEAN /\ loaded' \subseteq Plans
    BY <1>1, <1>4 DEF MotionConfirmed, appVars, taskVars, viewVars
  <2>6. RestType'
    BY <2>5 DEF RestType
  <2> QED
    BY <2>4, <2>6
<1>5. CASE Rescued(c)
  <2>1. Settle(c, FALSE, plan, evidence)
    BY <1>5 DEF Rescued
  <2>2. TabType' /\ CallType'
    BY <1>1, <2>1, SettleType
  <2>3. UNCHANGED <<app, finished, sessionLost, taskResult, needsRecovery, attempts, finalObs, scene,
                    unmoved, queue, stream, loaded, adrift, halted, watched, viewed, lastFrame>>
    BY <1>5 DEF Rescued, appVars, taskVars, robotVars, viewVars
  <2>4. RestType'
    BY <2>3 DEF RestType
  <2> QED
    BY <2>2, <2>4
<1> QED
  BY <1>2, <1>3, <1>4, <1>5

\* What the tools without motion leave alone.
UnmovingKept == UNCHANGED <<app, finished, sessionLost, attempts, stream, loaded, adrift, halted, lastFrame>>

LEMMA UnmovingType ==
  ASSUME RestType, UnmovingKept, queue' \in Seq(Calls),
         taskResult' \in {"none", "success", "failure"},
         needsRecovery' \in BOOLEAN, finalObs' \in BOOLEAN, scene' \in BOOLEAN, viewed' \in BOOLEAN,
         unmoved' \subseteq Calls, watched' \subseteq Calls
  PROVE  RestType'
BY DEF RestType, UnmovingKept

LEMMA LookType ==
  ASSUME Types, NEW c \in Calls,
         \/ Detect(c) \/ Refine(c) \/ Verify(c)
         \/ \E ok \in BOOLEAN : Looked(c, ok)
         \/ \E reply \in {"confirmed", "rejected", "failed"} : Posted(c, reply)
  PROVE  Types'
<1> USE DEF Types
<1>1. /\ plan \in [Plans -> [state: PlanStates, arms: SUBSET Arms]]
      /\ evidence \in [Arms -> [by: Calls \cup {NoCall}, plan: Plans \cup {NoPlan}, delivered: BOOLEAN]]
      /\ FALSE \in BOOLEAN /\ TRUE \in BOOLEAN /\ "looking" \in Locked /\ "posting" \in Locked
  BY DEF TabType, Locked
<1>2. queue' \in Seq(Calls)
  BY EnterType DEF RestType, Detect, Refine, Verify, Looked, Posted, Admit
<1>3. UnmovingKept /\ UNCHANGED <<taskResult, finalObs, scene, unmoved, watched, viewed>>
  BY DEF Detect, Refine, Verify, Looked, Posted, Unmoving, UnmovingKept, appVars, robotVars, viewVars
<1>4. needsRecovery' \in BOOLEAN
  BY DEF Detect, Refine, Verify, Looked, Posted, RestType
<1>5. RestType'
  BY <1>2, <1>3, <1>4, UnmovingType DEF RestType
<1>6. CASE Detect(c)
  <2>1. Refuse(c) \/ Suspend(c, "looking")
    BY <1>6 DEF Detect
  <2> QED
    BY <1>1, <1>5, <2>1, RefuseType, ReadType
<1>7. CASE Refine(c)
  <2>1. Refuse(c) \/ Suspend(c, "looking")
    BY <1>7 DEF Refine
  <2> QED
    BY <1>1, <1>5, <2>1, RefuseType, ReadType
<1>8. ASSUME NEW ok \in BOOLEAN, Looked(c, ok)
      PROVE  Types'
  <2>1. Suspend(c, "posting") \/ Settle(c, FALSE, plan, evidence)
    BY <1>8 DEF Looked
  <2> QED
    BY <1>1, <1>5, <2>1, SettleType, ReadType
<1>9. CASE Verify(c)
  <2>1. pc' = [pc EXCEPT ![c] = "posting"] /\ UNCHANGED <<call, current>>
    BY <1>9 DEF Verify
  <2>2. /\ evidence' = [a \in Arms |-> IF a \in plan[call[c].plan].arms THEN NoEvidence ELSE evidence[a]]
        /\ shown' \subseteq shown /\ valid' = valid \cup {c} /\ plan' = plan
    BY <1>9 DEF Verify, StillShown
  <2>3. TabType'
    BY <1>1, <2>2 DEF TabType, NoEvidence
  <2> QED
    BY <1>1, <1>5, <2>1, <2>3, SuspendType
<1>10. ASSUME NEW reply \in {"confirmed", "rejected", "failed"}, Posted(c, reply)
       PROVE  Types'
  <2>1. CASE Settle(c, TRUE, plan, evidence) \/ Settle(c, FALSE, plan, evidence)
    BY <1>1, <1>5, <2>1, SettleType
  <2>2. CASE call[c].op = "verify" /\ Settle(c, TRUE, [plan EXCEPT ![call[c].plan].state = "verified"], evidence)
    <3>1. [plan EXCEPT ![call[c].plan].state = "verified"] \in [Plans -> [state: PlanStates, arms: SUBSET Arms]]
      BY <2>2, TouchType DEF PlanStates
    <3> QED
      BY <1>1, <1>5, <2>2, <3>1, SettleType
  <2>3. ASSUME NEW p \in Plans,
               Settle(c, TRUE, [plan EXCEPT ![p] = [state |-> "detected", arms |-> call[c].arms]], evidence)
        PROVE  Types'
    <3>1. [plan EXCEPT ![p] = [state |-> "detected", arms |-> call[c].arms]]
            \in [Plans -> [state: PlanStates, arms: SUBSET Arms]]
      <4>1. call[c].arms \in SUBSET Arms /\ "detected" \in PlanStates
        BY DEF CallType, CallRecords, PlanStates
      <4> QED
        BY <1>1, <4>1
    <3> QED
      BY <1>1, <1>5, <2>3, <3>1, SettleType
  <2> QED
    BY <1>10, <2>1, <2>2, <2>3 DEF Posted
<1> QED
  BY <1>6, <1>7, <1>8, <1>9, <1>10

LEMMA ReadingType ==
  ASSUME Types, NEW c \in Calls,
         \/ State(c) \/ Inspect(c) \/ Finish(c) \/ GiveUp(c)
         \/ \E ok \in BOOLEAN : Observed(c, ok)
         \/ \E report \in {"clean", "fault", "failed"} :
              StateRead(c, report) \/ InspectRead(c, report) \/ FinishRead(c, report)
  PROVE  Types'
<1> USE DEF Types
<1>1. /\ plan \in [Plans -> [state: PlanStates, arms: SUBSET Arms]]
      /\ evidence \in [Arms -> [by: Calls \cup {NoCall}, plan: Plans \cup {NoPlan}, delivered: BOOLEAN]]
      /\ FALSE \in BOOLEAN /\ TRUE \in BOOLEAN
  BY DEF TabType
<1>2. queue' \in Seq(Calls)
  BY EnterType DEF RestType, State, Inspect, Finish, GiveUp, Observed, StateRead, InspectRead, FinishRead, Admit
<1>3. UnmovingKept /\ UNCHANGED <<finalObs, scene, viewed>>
  BY DEF State, Inspect, Finish, GiveUp, Observed, StateRead, InspectRead, FinishRead,
         Unmoving, UnmovingKept, appVars, robotVars, viewVars
<1>4. /\ unmoved' \subseteq Calls /\ watched' \subseteq Calls
      /\ needsRecovery' \in BOOLEAN /\ taskResult' \in {"none", "success", "failure"}
  BY DEF State, Inspect, Finish, GiveUp, Observed, StateRead, InspectRead, FinishRead, Recorded,
         viewVars, RestType
<1>5. RestType'
  BY <1>2, <1>3, <1>4, UnmovingType DEF RestType
<1>6. CASE Refuse(c) \/ Read(c)
  BY <1>5, <1>6, RefuseType, ReadType
<1>7. CASE Settle(c, FALSE, plan, evidence) \/ Settle(c, TRUE, plan, evidence)
  BY <1>1, <1>5, <1>7, SettleType
<1>8. CASE Inspect(c)
  <2>1. CASE pc' = [pc EXCEPT ![c] = "observing"] /\ UNCHANGED <<call, current, valid, plan, evidVars>>
    <3>1. "observing" \in Locked
      BY DEF Locked
    <3>2. CallType'
      BY <2>1, <3>1, SuspendType
    <3>3. TabType'
      BY <2>1 DEF TabType, evidVars
    <3> QED
      BY <1>5, <3>2, <3>3
  <2> QED
    BY <1>6, <1>8, <2>1 DEF Inspect
<1>9. CASE GiveUp(c)
  <2>1. Answer(c, TRUE) /\ UNCHANGED <<plan, evidence, shown, valid>>
    BY <1>9 DEF GiveUp, evidVars
  <2>2. TabType'
    BY <2>1 DEF TabType
  <2> QED
    BY <1>1, <1>5, <2>1, <2>2, AnswerType
<1>10. ASSUME NEW report \in {"clean", "fault", "failed"}, InspectRead(c, report)
       PROVE  Types'
  <2> DEFINE E == [a \in Arms |-> IF a \in call[c].arms
                     THEN [by |-> c, plan |-> call[c].plan, delivered |-> FALSE] ELSE evidence[a]]
  <2>1. E \in [Arms -> [by: Calls \cup {NoCall}, plan: Plans \cup {NoPlan}, delivered: BOOLEAN]]
    <3>1. call[c].plan \in Plans \cup {NoPlan}
      BY DEF CallType, CallRecords
    <3> QED
      BY <1>1, <3>1
  <2>2. CASE Settle(c, TRUE, plan, E)
    <3> HIDE DEF E
    <3> QED
      BY <1>1, <1>5, <2>1, <2>2, SettleType
  <2> QED
    BY <1>7, <1>10, <2>2 DEF InspectRead
<1>11. ASSUME NEW report \in {"clean", "fault", "failed"}, StateRead(c, report) \/ FinishRead(c, report)
       PROVE  Types'
  <2>1. Settle(c, TRUE, plan, evidence) \/ Settle(c, FALSE, plan, evidence)
    <3>1. CASE report = "clean"
      BY <1>11, <3>1 DEF StateRead, FinishRead
    <3>2. CASE report = "fault"
      BY <1>11, <3>2 DEF StateRead, FinishRead
    <3>3. CASE report = "failed"
      BY <1>11, <3>3 DEF StateRead, FinishRead
    <3> QED
      BY <3>1, <3>2, <3>3
  <2> QED
    BY <1>7, <2>1
<1>12. ASSUME NEW ok \in BOOLEAN, Observed(c, ok)
       PROVE  Types'
  BY <1>6, <1>7, <1>12 DEF Observed
<1>13. CASE State(c) \/ Finish(c)
  BY <1>6, <1>13 DEF State, Finish
<1> QED
  BY <1>8, <1>9, <1>10, <1>11, <1>12, <1>13

LEMMA CallsType ==
  ASSUME Types, NEW c \in Calls,
         \/ Call(c) \/ CallStop(c) \/ TurnedAway(c)
         \/ \E reply \in {"confirmed", "refused", "unknown"} : StopAnswered(c, reply)
  PROVE  Types'
<1> USE DEF Types
<1>1. CASE Call(c)
  <2>1. PICK op \in ToolsOf[c] \ {"stop"}, p \in Plans \cup {NoPlan}, arms \in SUBSET Arms :
          /\ p = NoPlan <=> op \notin Stages \cup {"refine", "inspect", "verify"}
          /\ call' = [call EXCEPT ![c] = [op |-> op, plan |-> p, arms |-> arms, ok |-> FALSE]]
    BY <1>1 DEF Call
  <2>2. [op |-> op, plan |-> p, arms |-> arms, ok |-> FALSE] \in CallRecords /\ op \in AllTools
    BY ConstantsAssumption DEF CallRecords
  <2>3. call' \in [Calls -> CallRecords]
    BY <2>1, <2>2 DEF CallType
  <2>4. \A d \in Calls : call'[d].op \in Stages \cup {"refine", "inspect", "verify"} => call'[d].plan \in Plans
    <3>1. call'[c].op = op /\ call'[c].plan = p
      BY <2>1 DEF CallType
    <3>2. \A d \in Calls \ {c} : call'[d] = call[d]
      BY <2>1 DEF CallType
    <3> QED
      BY <2>1, <3>1, <3>2 DEF CallType
  <2>5. CallType'
    BY <1>1, <2>3, <2>4 DEF Call, CallType, PcStates
  <2>6. TabType'
    BY <1>1 DEF Call, TabType, evidVars
  <2>7. queue' \in Seq(Calls)
    BY <1>1, AppendProperties DEF Call, RestType
  <2>8. UNCHANGED <<app, finished, sessionLost, taskResult, needsRecovery, attempts, finalObs, scene,
                    unmoved, stream, loaded, adrift, halted, watched, viewed, lastFrame>>
    BY <1>1 DEF Call, appVars, taskVars, robotVars, viewVars
  <2>9. RestType'
    BY <2>7, <2>8 DEF RestType
  <2> QED
    BY <2>5, <2>6, <2>9
<1>2. CASE CallStop(c)
  <2>1. TabType' /\ sessionLost' \in BOOLEAN /\ needsRecovery' \in BOOLEAN /\ current' = {}
    <3>1. Interrupt(FALSE) /\ FALSE \in BOOLEAN
      BY <1>2 DEF CallStop
    <3> QED
      BY <3>1, InterruptType DEF RestType
  <2>2. CallType'
    BY <1>2, <2>1 DEF CallStop, CallType, PcStates, NoTool, CallRecords, AllTools, Stages
  <2>3. /\ halted' \in BOOLEAN
        /\ UNCHANGED <<app, finished, taskResult, attempts, finalObs, scene, unmoved, queue,
                       stream, loaded, adrift, watched, viewed, lastFrame>>
    <3>1. halted' = TRUE \/ halted' = halted
      BY <1>2 DEF CallStop
    <3>2. halted \in BOOLEAN
      BY DEF RestType
    <3>3. halted' \in BOOLEAN
      BY <3>1, <3>2
    <3> QED
      BY <1>2, <3>3 DEF CallStop, appVars, viewVars
  <2>4. RestType'
    BY <2>1, <2>3 DEF RestType
  <2> QED
    BY <2>1, <2>2, <2>4
<1>3. CASE TurnedAway(c)
  <2>1. TabType' /\ CallType'
    BY <1>3, RefuseType DEF TurnedAway
  <2>2. queue' \in Seq(Calls)
    BY <1>3, EnterType DEF TurnedAway, RestType
  <2>3. UNCHANGED <<app, finished, sessionLost, taskResult, needsRecovery, attempts, finalObs, scene,
                    unmoved, stream, loaded, adrift, halted, watched, viewed, lastFrame>>
    BY <1>3 DEF TurnedAway, appVars, taskVars, robotVars, viewVars
  <2>4. RestType'
    BY <2>2, <2>3 DEF RestType
  <2> QED
    BY <2>1, <2>4
<1>4. ASSUME NEW reply \in {"confirmed", "refused", "unknown"}, StopAnswered(c, reply)
      PROVE  Types'
  <2>1. TabType' /\ CallType'
    BY <1>4, RefuseType DEF StopAnswered
  <2>2. /\ needsRecovery' \in BOOLEAN
        /\ UNCHANGED <<app, finished, sessionLost, taskResult, attempts, finalObs, scene, unmoved,
                       queue, stream, loaded, adrift, halted, watched, viewed, lastFrame>>
    BY <1>4 DEF StopAnswered, appVars, taskVars, robotVars, viewVars
  <2>3. RestType'
    BY <2>2 DEF RestType
  <2> QED
    BY <2>1, <2>3
<1> QED
  BY <1>1, <1>2, <1>3, <1>4

LEMMA DroppedType ==
  ASSUME TabType, NEW c \in Calls, evidence' = Dropped(c), shown' = StillShown(Dropped(c)),
         UNCHANGED <<plan, valid>>
  PROVE  TabType'
<1>1. evidence' \in [Arms -> [by: Calls \cup {NoCall}, plan: Plans \cup {NoPlan}, delivered: BOOLEAN]]
  BY DEF TabType, Dropped, NoEvidence
<1>2. shown' \subseteq shown
  BY DEF StillShown
<1> QED
  BY <1>1, <1>2 DEF TabType

\* The call goes on to its reply, perhaps with a failure.
LEMMA ReplyType ==
  ASSUME CallType, NEW c \in Calls, NEW where \in {"showing", "reply"}, pc' = [pc EXCEPT ![c] = where],
         call' = call \/ call' = [call EXCEPT ![c].ok = FALSE], current' \subseteq Calls
  PROVE  CallType'
<1>1. pc' \in [Calls -> PcStates]
  BY DEF CallType, PcStates
<1>2. call' \in [Calls -> CallRecords]
      /\ \A d \in Calls : call'[d].op = call[d].op /\ call'[d].plan = call[d].plan
  <2>1. CASE call' = call
    BY <2>1 DEF CallType
  <2>2. CASE call' = [call EXCEPT ![c].ok = FALSE]
    BY <2>2 DEF CallType, CallRecords
  <2> QED
    BY <2>1, <2>2
<1> QED
  BY <1>1, <1>2 DEF CallType

LEMMA DeliverType ==
  ASSUME Types, NEW c \in Calls, Deliver(c)
  PROVE  Types'
<1> USE DEF Types
<1>1. FALSE \in BOOLEAN /\ TRUE \in BOOLEAN /\ sessionLost \in BOOLEAN /\ needsRecovery \in BOOLEAN
      /\ unmoved \subseteq Calls /\ watched \subseteq Calls /\ current \subseteq Calls
  BY DEF RestType, CallType
<1>2. ASSUME NEW sent \in BOOLEAN, FrameDone(c, sent)
      PROVE  Types'
  <2>1. CallType'
    BY <1>1, <1>2, ReplyType DEF FrameDone
  <2>2. TabType'
    BY <1>2 DEF FrameDone, TabType, evidVars
  <2>3. /\ UNCHANGED <<app, finished, taskResult, sessionLost, needsRecovery, attempts, queue, stream,
                       loaded, adrift, halted>>
        /\ unmoved' \subseteq Calls /\ watched' \subseteq Calls
        /\ finalObs' \in BOOLEAN /\ scene' \in BOOLEAN /\ viewed' \in BOOLEAN
    BY <1>1, <1>2 DEF FrameDone, Undisturbed, appVars
  <2>4. lastFrame' \in Calls \cup {NoCall}
    BY <1>2 DEF FrameDone, RestType
  <2>5. RestType'
    BY <2>3, <2>4 DEF RestType
  <2> QED
    BY <2>1, <2>2, <2>5
<1>3. CASE FrameLost(c)
  <2>1. TabType' /\ sessionLost' \in BOOLEAN /\ needsRecovery' \in BOOLEAN /\ current' = {}
    BY <1>1, <1>3, InterruptType DEF FrameLost
  <2>2. CallType' /\ unmoved' \subseteq Calls /\ watched' \subseteq Calls
    BY <1>1, <1>3, <2>1, LeaveType DEF FrameLost
  <2>3. UNCHANGED <<app, finished, taskResult, attempts, finalObs, scene, queue, stream, viewed,
                    lastFrame, loaded, adrift, halted>>
    BY <1>3 DEF FrameLost, Undisturbed, appVars
  <2>4. RestType'
    BY <2>1, <2>2, <2>3 DEF RestType
  <2> QED
    BY <2>1, <2>2, <2>4
<1>4. CASE Show(c) \/ ShowDone(c)
  <2>1. UNCHANGED <<app, finished, taskResult, sessionLost, needsRecovery, attempts, finalObs, scene,
                    unmoved, queue, watched, viewed, loaded, adrift, halted, plan, valid, current>>
    BY <1>4 DEF Show, ShowDone, Undisturbed, appVars, viewVars
  <2>2. stream' \in Calls \cup {NoCall} /\ lastFrame' \in Calls \cup {NoCall}
    BY <1>4 DEF Show, ShowDone, TakeStream, RestType
  <2>3. RestType'
    BY <2>1, <2>2 DEF RestType
  <2>4. CallType'
    <3>1. \E where \in {"showing", "reply"} : pc' = [pc EXCEPT ![c] = where]
      BY <1>4 DEF Show, ShowDone
    <3>2. call' = call \/ call' = [call EXCEPT ![c].ok = FALSE]
      BY <1>4 DEF Show, ShowDone
    <3> QED
      BY <1>1, <2>1, <3>1, <3>2, ReplyType
  <2>5. TabType'
    <3>1. CASE evidence' = Dropped(c) /\ shown' = StillShown(Dropped(c))
      BY <2>1, <3>1, DroppedType
    <3>2. CASE UNCHANGED evidVars
      BY <2>1, <3>2 DEF TabType, evidVars
    <3>3. CASE /\ evidence' = [a \in Arms |-> IF a \in call[c].arms
                                THEN [evidence[a] EXCEPT !.delivered = TRUE] ELSE evidence[a]]
               /\ shown' = shown \cup {<<a, c>> : a \in call[c].arms}
      <4>1. call[c].arms \subseteq Arms
        BY DEF CallType, CallRecords
      <4>2. evidence' \in [Arms -> [by: Calls \cup {NoCall}, plan: Plans \cup {NoPlan}, delivered: BOOLEAN]]
        BY <3>3 DEF TabType
      <4>3. shown' \subseteq Arms \X Calls
        BY <3>3, <4>1 DEF TabType
      <4> QED
        BY <2>1, <4>2, <4>3 DEF TabType
    <3> QED
      BY <1>4, <3>1, <3>2, <3>3 DEF Show, ShowDone
  <2> QED
    BY <2>3, <2>4, <2>5
<1>5. CASE ShowFailed(c)
  <2>1. TabType' /\ sessionLost' \in BOOLEAN /\ needsRecovery' \in BOOLEAN /\ current' = {}
    BY <1>1, <1>5, InterruptType DEF ShowFailed
  <2>2. CallType'
    BY <1>5, <2>1, ReplyType DEF ShowFailed
  <2>3. UNCHANGED <<app, finished, taskResult, attempts, finalObs, scene, unmoved, queue, stream,
                    watched, viewed, lastFrame, loaded, adrift, halted>>
    BY <1>5 DEF ShowFailed, Undisturbed, appVars, viewVars
  <2>4. RestType'
    BY <2>1, <2>3 DEF RestType
  <2> QED
    BY <2>1, <2>2, <2>4
<1>6. CASE Reply(c)
  <2>1. TabType' /\ current' \subseteq Calls
    BY <1>1, <1>6 DEF Reply, TabType, evidVars
  <2>2. CallType' /\ unmoved' \subseteq Calls /\ watched' \subseteq Calls
    BY <1>1, <1>6, <2>1, LeaveType DEF Reply
  <2>3. /\ UNCHANGED <<app, sessionLost, taskResult, needsRecovery, attempts, finalObs, scene, queue,
                       viewed, lastFrame, loaded, adrift, halted>>
        /\ finished' \in BOOLEAN
    BY <1>6 DEF Reply, taskVars, robotVars
  <2>4. stream' \in Calls \cup {NoCall}
    BY <1>6 DEF Reply, Unlock, RestType
  <2>5. RestType'
    BY <2>2, <2>3, <2>4 DEF RestType
  <2> QED
    BY <2>1, <2>2, <2>5
<1>7. CASE ReplyLost(c)
  <2>1. TabType' /\ sessionLost' \in BOOLEAN /\ needsRecovery' \in BOOLEAN /\ current' = {}
    BY <1>1, <1>7, InterruptType DEF ReplyLost
  <2>2. CallType' /\ unmoved' \subseteq Calls /\ watched' \subseteq Calls
    BY <1>1, <1>7, <2>1, LeaveType DEF ReplyLost
  <2>3. UNCHANGED <<app, finished, taskResult, attempts, finalObs, scene, queue, viewed,
                    lastFrame, loaded, adrift, halted>>
    BY <1>7 DEF ReplyLost, Undisturbed, appVars
  <2>4. stream' \in Calls \cup {NoCall}
    BY <1>7 DEF ReplyLost, Unlock, RestType
  <2>5. RestType'
    BY <2>1, <2>2, <2>3, <2>4 DEF RestType
  <2> QED
    BY <2>1, <2>2, <2>5
<1> QED
  BY <1>2, <1>3, <1>4, <1>5, <1>6, <1>7 DEF Deliver

LEMMA ApplicationType ==
  ASSUME Types, Application \/ Mosaic \/ Disconnect
  PROVE  Types'
<1> USE DEF Types
<1>1. TRUE \in BOOLEAN /\ sessionLost \in BOOLEAN /\ needsRecovery \in BOOLEAN /\ current \subseteq Calls
  BY DEF RestType, CallType
<1>2. /\ TabType' /\ sessionLost' \in BOOLEAN /\ needsRecovery' \in BOOLEAN /\ current' \subseteq Calls
  <2>1. CASE Interrupt(TRUE)
    BY <1>1, <2>1, InterruptType
  <2>2. CASE UNCHANGED <<sessionLost, needsRecovery, plan, evidence, shown, current, valid>>
    BY <1>1, <2>2 DEF TabType
  <2> QED
    BY <2>1, <2>2
    DEF Application, Consume, LastStopped, Return, Abort, Halted, Close, AppStep, Mosaic, Disconnect,
        evidVars, taskVars
<1>3. UNCHANGED <<taskResult, attempts, finalObs, scene, unmoved, queue, stream, pc, call, watched,
                  viewed, loaded, adrift>>
  BY DEF Application, Consume, LastStopped, Return, Abort, Halted, Close, AppStep, AppOnly, Mosaic,
         Disconnect, Undisturbed, taskVars, robotVars, viewVars
<1>4. /\ app' \in {"run", "lastStop", "done", "halting", "closing", "closed"}
      /\ finished' \in BOOLEAN /\ halted' \in BOOLEAN /\ lastFrame' \in Calls \cup {NoCall}
  <2>1. CASE Mosaic \/ Disconnect
    BY <2>1 DEF Mosaic, Disconnect, Undisturbed, appVars, robotVars, RestType
  <2>2. CASE Consume
    BY <2>2 DEF Consume, AppOnly, RestType
  <2>3. CASE Abort
    BY <2>3 DEF Abort, StopFirst, AppOnly, RestType
  <2>4. CASE LastStopped \/ Return \/ Halted \/ Close
    BY <2>4 DEF LastStopped, Return, Halted, Close, AppStep, AppOnly, RestType
  <2> QED
    BY <2>1, <2>2, <2>3, <2>4 DEF Application
<1>5. RestType'
  BY <1>2, <1>3, <1>4 DEF RestType
<1>6. CallType'
  BY <1>2, <1>3 DEF CallType
<1> QED
  BY <1>2, <1>5, <1>6

\* A waiter leaves the queue.
LEMMA RemoveType ==
  ASSUME NEW T, NEW q \in Seq(T), NEW i \in DOMAIN q
  PROVE  SubSeq(q, 1, i - 1) \o SubSeq(q, i + 1, Len(q)) \in Seq(T)
<1>1. i \in 1..Len(q) /\ Len(q) \in Nat
  BY LenProperties
<1>2. SubSeq(q, 1, i - 1) \in Seq(T)
  BY <1>1, SubSeqProperties
<1>3. SubSeq(q, i + 1, Len(q)) \in Seq(T)
  BY <1>1, SubSeqProperties
<1> QED
  BY <1>2, <1>3, ConcatProperties

LEMMA CancelType ==
  ASSUME Types, NEW c \in Calls, Cancel(c)
  PROVE  Types'
<1> USE DEF Types
<1>1. unmoved \subseteq Calls /\ watched \subseteq Calls /\ current' \subseteq Calls
  BY DEF Cancel, RestType, CallType
<1>2. CallType' /\ unmoved' \subseteq Calls /\ watched' \subseteq Calls
  BY <1>1, LeaveType DEF Cancel
<1>3. TabType' /\ needsRecovery' \in BOOLEAN
  <2>1. CASE needsRecovery' = TRUE /\ Invalidate({})
    BY <2>1, InvalidateType
  <2>2. CASE valid' = valid \ {c} /\ UNCHANGED <<needsRecovery, plan, evidVars>>
    BY <2>2 DEF TabType, RestType, evidVars
  <2> QED
    BY <2>1, <2>2 DEF Cancel
<1>4. queue' \in Seq(Calls)
  BY RemoveType DEF Cancel, RestType
<1>5. stream' \in Calls \cup {NoCall} /\ adrift' \in BOOLEAN
  BY DEF Cancel, Unlock, RestType
<1>6. UNCHANGED <<app, finished, sessionLost, taskResult, attempts, finalObs, scene, loaded, halted,
                  viewed, lastFrame>>
  BY DEF Cancel, appVars, taskVars
<1>7. RestType'
  BY <1>2, <1>3, <1>4, <1>5, <1>6 DEF RestType
<1> QED
  BY <1>2, <1>3, <1>7

LEMMA TypesInit ==
  ASSUME Init
  PROVE  Types
<1>1. TabType
  BY DEF Init, TabType, Absent, NoEvidence, PlanStates
<1>2. CallType
  BY DEF Init, CallType, PcStates, NoTool, CallRecords, AllTools, Stages
<1>3. RestType
  <2>1. /\ finished \in BOOLEAN /\ sessionLost \in BOOLEAN /\ needsRecovery \in BOOLEAN
        /\ finalObs \in BOOLEAN /\ scene \in BOOLEAN
        /\ adrift \in BOOLEAN /\ halted \in BOOLEAN /\ viewed \in BOOLEAN
    BY DEF Init
  <2>2. attempts \in 0..MaxRecovery /\ queue \in Seq(Calls)
    BY ConstantsAssumption, EmptySeq DEF Init
  <2>3. /\ app \in {"run", "lastStop", "done", "halting", "closing", "closed"}
        /\ taskResult \in {"none", "success", "failure"}
        /\ unmoved \subseteq Calls /\ watched \subseteq Calls /\ loaded \subseteq Plans
        /\ stream \in Calls \cup {NoCall} /\ lastFrame \in Calls \cup {NoCall}
    BY DEF Init
  <2> QED
    BY <2>1, <2>2, <2>3 DEF RestType
<1> QED
  BY <1>1, <1>2, <1>3 DEF Types

LEMMA TypesStep ==
  ASSUME Types, [Next]_vars
  PROVE  Types'
<1>1. CASE Next
  <2>1. ASSUME NEW c \in Calls, Start(c) \/ Resume(c)
        PROVE  Types'
    <3>1. CASE Manual(c) \/ Reset(c) \/ Recover(c) \/ \E stage \in Stages : Execute(c, stage)
      BY <3>1, MotionStartType
    <3>2. CASE \/ \E reply \in {"confirmed", "refused", "unknown"} :
                    RecoverStopped(c, reply) \/ MotionFailed(c, reply)
               \/ MotionConfirmed(c) \/ Rescued(c)
      BY <3>2, MotionEndType
    <3>3. CASE \/ Detect(c) \/ Refine(c) \/ Verify(c)
               \/ \E ok \in BOOLEAN : Looked(c, ok)
               \/ \E reply \in {"confirmed", "rejected", "failed"} : Posted(c, reply)
      BY <3>3, LookType
    <3>4. CASE \/ State(c) \/ Inspect(c) \/ Finish(c) \/ GiveUp(c)
               \/ \E ok \in BOOLEAN : Observed(c, ok)
               \/ \E report \in {"clean", "fault", "failed"} :
                    StateRead(c, report) \/ InspectRead(c, report) \/ FinishRead(c, report)
      BY <3>4, ReadingType
    <3>5. CASE TurnedAway(c) \/ \E reply \in {"confirmed", "refused", "unknown"} : StopAnswered(c, reply)
      BY <3>5, CallsType
    <3> QED
      BY <2>1, <3>1, <3>2, <3>3, <3>4, <3>5 DEF Start, Resume
  <2>2. ASSUME NEW c \in Calls, Call(c) \/ CallStop(c) \/ Deliver(c) \/ Cancel(c)
        PROVE  Types'
    BY <2>2, CallsType, DeliverType, CancelType
  <2>3. CASE Application \/ Mosaic \/ Disconnect
    BY <2>3, ApplicationType
  <2> QED
    BY <1>1, <2>1, <2>2, <2>3 DEF Next
<1>2. CASE UNCHANGED vars
  BY <1>2 DEF Types, TabType, CallType, RestType, vars
<1> QED
  BY <1>1, <1>2

\* Every variable keeps its type, whatever is called, answered, lost or cancelled.
THEOREM TypeCorrect == Spec => []TypeOK
<1>1. Init => Types
  BY TypesInit
<1>2. Types /\ [Next]_vars => Types'
  BY TypesStep
<1> QED
  BY <1>1, <1>2, TypesImplyTypeOK, PTL DEF Spec
=============================================================================
