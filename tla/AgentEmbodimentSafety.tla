------------------------ MODULE AgentEmbodimentSafety ------------------------
(***************************************************************************)
(* What AgentEmbodiment guarantees, for any number of handler tasks, arms, *)
(* plans and recovery attempts.                                            *)
(*                                                                         *)
(* The inductive invariant IInv says what a tool that awaits something     *)
(* under the action lock may rely on.  Most steps are of a few kinds, each *)
(* with a lemma that it preserves the invariant: a call moves outside the  *)
(* lock (Calm), everything is interrupted (Stopped), a tool takes the lock *)
(* or goes on under it (Goes, Sent, Parks), a tool ends (Ended), and only  *)
(* the application moves (Apart).                                          *)
(*                                                                         *)
(* InspectionInv adds what is retained to judge a grasp by: JudgeInv says  *)
(* what evidence may be there while a tool holds the lock, StreamInv who   *)
(* holds the stream between an image and its answer.                       *)
(***************************************************************************)
EXTENDS AgentEmbodimentProofs

-----------------------------------------------------------------------------
(* The inductive invariant: what the lock, the two generations and the     *)
(* revision guarantee while a tool awaits something.                       *)

MotionPcs == {"recoverStop", "motion", "rescue"}

\* One holder of the lock, suspended where its tool suspends; nobody after the end.
LockInv ==
  /\ \A c, d \in Calls : pc[c] \in Locked /\ pc[d] \in Locked => c = d
  /\ \A c \in Calls :
       /\ pc[c] = "recoverStop" => call[c].op = "recover"
       /\ pc[c] = "observing" => call[c].op = "inspect"
       /\ pc[c] \in Locked => (call[c].op \in MotionTools <=> pc[c] \in MotionPcs)
  /\ taskResult # "none" => LockFree

\* What the captured generations say of the holder: both are present or both are
\* past, and in the second case nothing planned is left and a motion owes recovery.
GenerationInv ==
  \A c \in Calls : pc[c] \in Locked =>
    /\ c \in current => ~sessionLost
    /\ c \in valid => c \in current
    /\ c \in current /\ pc[c] \in MotionPcs /\ call[c].op \in Stages \cup {"recover"} => c \in valid
    /\ c \notin current => \A p \in Plans : plan[p] = Absent
    /\ c \notin current /\ pc[c] \in MotionPcs => needsRecovery
    /\ c \in valid /\ pc[c] = "motion" /\ call[c].op \in Stages
         => plan[call[c].plan].state \in Allowed[call[c].op]

\* What the application's end says of the last motion.
StopInv ==
  /\ adrift => halted /\ needsRecovery
  /\ \A c \in Calls : pc[c] = "motion" => ~adrift
  /\ app \in {"lastStop", "done"} => taskResult # "none"
  /\ app \in {"halting", "closing", "closed"} => taskResult # "none" \/ (sessionLost /\ halted)

\* What was observed since the last motion.
ViewInv ==
  /\ unmoved \subseteq watched
  /\ scene => viewed
  /\ \A c \in Calls : pc[c] \in MotionPcs => unmoved = {} /\ ~scene
  /\ \A c \in Calls : pc[c] = "reading" /\ call[c].op = "finish" /\ c \in current
                        => loaded = {} /\ ~adrift /\ viewed

Safe == LockInv /\ GenerationInv /\ HeldIsAccounted /\ StopInv /\ ViewInv

IInv == Types /\ Safe

-----------------------------------------------------------------------------
(* Kinds of steps *)

Moves(c) == \A d \in Calls \ {c} : pc'[d] = pc[d] /\ call'[d] = call[d]

\* The observations of c come to nothing more than they were.
Looks(c) ==
  /\ viewed => viewed'
  /\ \/ unmoved' = {} /\ ~scene' /\ watched' = watched
     \/ /\ unmoved' = unmoved \ {c} /\ watched' = watched \ {c}
        /\ scene' => scene \/ (c \in unmoved /\ viewed')
     \/ UNCHANGED <<unmoved, watched, scene>>

\* c is and stays outside the lock.
Calm(c) ==
  /\ Moves(c) /\ pc[c] \notin Locked /\ pc'[c] \notin Locked
  /\ \A d \in Calls \ {c} : (d \in current' <=> d \in current) /\ (d \in valid' <=> d \in valid)
  /\ UNCHANGED <<app, sessionLost, plan, loaded, adrift, halted>>
  /\ needsRecovery => needsRecovery'
  /\ taskResult' # taskResult => LockFree /\ taskResult = "none"
  /\ Looks(c)

LEMMA FreeLock ==
  ASSUME LockFree'
  PROVE  LockInv' /\ GenerationInv'
BY DEF LockFree, LockInv, GenerationInv, Locked

LEMMA CalmStep ==
  ASSUME IInv, Types', NEW c \in Calls, Calm(c)
  PROVE  Safe'
<1> USE DEF IInv, Safe
<1>1. \A d \in Calls : pc'[d] \in Locked => d # c /\ pc'[d] = pc[d] /\ call'[d] = call[d]
                         /\ (d \in current' <=> d \in current) /\ (d \in valid' <=> d \in valid)
  BY DEF Calm, Moves
<1>2. LockInv'
  <2>1. taskResult' # "none" => LockFree'
    BY <1>1 DEF LockInv, LockFree, Calm
  <2> QED
    BY <1>1, <2>1 DEF LockInv, LockFree, Locked
<1>3. GenerationInv'
  BY <1>1 DEF GenerationInv, Calm, Locked, MotionPcs
<1>4. HeldIsAccounted'
  <2> SUFFICES ASSUME NEW p \in Plans, p \in loaded', ~needsRecovery', plan'[p].state \notin HeldStates
               PROVE  \E d \in Calls : pc'[d] = "motion" /\ call'[d].op = "pick" /\ call'[d].plan = p
    BY DEF HeldIsAccounted, Types, RestType
  <2>1. PICK d \in Calls : pc[d] = "motion" /\ call[d].op = "pick" /\ call[d].plan = p
    BY DEF HeldIsAccounted, Calm
  <2>2. d # c
    BY <2>1 DEF Calm, Locked
  <2> QED
    BY <2>1, <2>2 DEF Calm, Moves
<1>5. StopInv'
  BY <1>1 DEF StopInv, Calm, Locked
<1>6. ViewInv'
  BY <1>1 DEF ViewInv, Calm, Looks, Locked, MotionPcs
<1> QED
  BY <1>2, <1>3, <1>4, <1>5, <1>6

\* An interruption, with calls that move outside the lock and perhaps the application's stop.
Stopped(lost) ==
  /\ Interrupt(lost)
  /\ \A d \in Calls : \/ pc'[d] = pc[d] /\ call'[d] = call[d]
                      \/ pc[d] \notin Locked /\ pc'[d] \notin Locked
  /\ UNCHANGED <<taskResult, loaded, adrift, scene, viewed>>
  /\ halted => halted'
  /\ app' = app \/ (app' = "halting" /\ sessionLost' /\ halted')
  /\ unmoved' \subseteq unmoved /\ unmoved' \subseteq watched'

LEMMA StoppedStep ==
  ASSUME IInv, Types', NEW lost \in BOOLEAN, Stopped(lost)
  PROVE  Safe'
<1> USE DEF IInv, Safe
<1>1. /\ current' = {} /\ valid' = {} /\ \A p \in Plans : plan'[p] = Absent
      /\ needsRecovery => needsRecovery'
      /\ sessionLost => sessionLost'
      /\ Owing(lost) => needsRecovery'
  BY DEF Stopped, Interrupt, Invalidate
<1>2. \A d \in Calls : pc'[d] \in Locked => pc'[d] = pc[d] /\ call'[d] = call[d]
  BY DEF Stopped
<1>3. LockInv'
  <2>1. taskResult' # "none" => LockFree'
    BY <1>2 DEF LockInv, LockFree, Stopped
  <2> QED
    BY <1>2, <2>1 DEF LockInv, LockFree, Locked
<1>4. \A d \in Calls : pc[d] \in MotionPcs => MotionActive
  BY DEF LockInv, MotionActive, MotionPcs, Locked
<1>5. GenerationInv'
  BY <1>1, <1>2, <1>4 DEF GenerationInv, Owing, Locked, MotionPcs
<1>6. HeldIsAccounted'
  <2> SUFFICES ASSUME NEW p \in Plans, p \in loaded, ~needsRecovery'
               PROVE  FALSE
    BY DEF HeldIsAccounted, Stopped, Types, RestType
  <2>1. ~needsRecovery /\ ~MotionActive /\ ~PlanIn(HeldStates)
    BY <1>1 DEF Owing
  <2> QED
    BY <1>4, <2>1 DEF HeldIsAccounted, PlanIn, MotionPcs
<1>7. StopInv'
  BY <1>1, <1>2 DEF StopInv, Stopped, Locked
<1>8. ViewInv'
  BY <1>1, <1>2 DEF ViewInv, Stopped, Locked, MotionPcs
<1> QED
  BY <1>3, <1>5, <1>6, <1>7, <1>8

\* The holder c gives the lock back and nothing begins.
Ended(c) ==
  /\ Moves(c) /\ pc[c] \in Locked /\ pc'[c] \notin Locked
  /\ UNCHANGED <<app, sessionLost, adrift, halted, unmoved, watched, scene, viewed>>

LEMMA EndedFree ==
  ASSUME LockInv, NEW c \in Calls, Ended(c)
  PROVE  LockFree'
BY DEF LockInv, LockFree, Ended, Moves

LEMMA EndedStep ==
  ASSUME IInv, Types', NEW c \in Calls, Ended(c), HeldIsAccounted', adrift => needsRecovery'
  PROVE  Safe'
<1> USE DEF IInv, Safe
<1>1. LockFree'
  BY EndedFree
<1>2. LockInv' /\ GenerationInv'
  BY <1>1, FreeLock
<1>3. \A d \in Calls : pc'[d] \notin Locked
  BY <1>1 DEF LockFree
<1>4. taskResult = "none"
  BY DEF LockInv, LockFree, Ended
<1>5. StopInv'
  BY <1>3, <1>4 DEF StopInv, Ended, Locked
<1>6. ViewInv'
  BY <1>3 DEF ViewInv, Ended, Locked, MotionPcs
<1> QED
  BY <1>2, <1>5, <1>6

-----------------------------------------------------------------------------
(* Steps outside the lock *)

LEMMA AnswerMoves ==
  ASSUME CallType, NEW c \in Calls, NEW ok, Answer(c, ok)
  PROVE  /\ Moves(c) /\ pc'[c] \notin Locked
         /\ \A d \in Calls \ {c} : d \in current' <=> d \in current
<1>1. PICK next \in {"reply", "frame", "deliver"} : pc' = [pc EXCEPT ![c] = next]
  BY DEF Answer
<1>2. call' = [call EXCEPT ![c].ok = ok]
  BY DEF Answer
<1>3. \A d \in Calls \ {c} : d \in current' <=> d \in current
  BY DEF Answer
<1> QED
  BY <1>1, <1>2, <1>3 DEF Moves, CallType, Locked

LEMMA RefuseMoves ==
  ASSUME CallType, NEW c \in Calls, Refuse(c)
  PROVE  /\ Moves(c) /\ pc'[c] \notin Locked
         /\ \A d \in Calls \ {c} : (d \in current' <=> d \in current) /\ (d \in valid' <=> d \in valid)
         /\ UNCHANGED plan
BY AnswerMoves DEF Refuse

LEMMA RefusedCalmly ==
  ASSUME IInv, NEW c \in Calls,
         \/ TurnedAway(c)
         \/ \E reply \in {"confirmed", "refused", "unknown"} : StopAnswered(c, reply)
  PROVE  Calm(c)
<1> USE DEF IInv, Types
<1>1. /\ Moves(c) /\ pc'[c] \notin Locked
      /\ \A d \in Calls \ {c} : (d \in current' <=> d \in current) /\ (d \in valid' <=> d \in valid)
      /\ UNCHANGED plan
  BY RefuseMoves DEF TurnedAway, StopAnswered
<1>2. /\ pc[c] \notin Locked
      /\ UNCHANGED <<app, sessionLost, taskResult, loaded, adrift, halted>>
  BY DEF TurnedAway, StopAnswered, Enter, Locked, appVars, taskVars, robotVars
<1>3. needsRecovery => needsRecovery'
  BY DEF TurnedAway, StopAnswered
<1>4. Looks(c)
  BY DEF TurnedAway, StopAnswered, Looks, viewVars
<1> QED
  BY <1>1, <1>2, <1>3, <1>4 DEF Calm

\* A motion tool that is refused at once still begins a new revision.
LEMMA MotionRefusedCalmly ==
  ASSUME IInv, NEW c \in Calls, Refuse(c),
         \/ Manual(c) /\ Stay /\ UNCHANGED needsRecovery
         \/ Reset(c) /\ Stay
         \/ Recover(c) /\ UNCHANGED <<attempts, halted>>
         \/ \E stage \in Stages : Execute(c, stage) /\ Stay
  PROVE  Calm(c)
<1> USE DEF IInv, Types
<1>1. /\ Moves(c) /\ pc'[c] \notin Locked
      /\ \A d \in Calls \ {c} : (d \in current' <=> d \in current) /\ (d \in valid' <=> d \in valid)
      /\ UNCHANGED plan
  BY RefuseMoves
<1>2. /\ pc[c] \notin Locked
      /\ UNCHANGED <<app, sessionLost, taskResult>>
  BY DEF Manual, Reset, Recover, Execute, Admit, Enter, Locked, appVars, taskVars
<1>3. UNCHANGED <<loaded, adrift, halted, watched, viewed>>
  BY DEF Recover, Stay, robotVars, viewVars
<1>4. needsRecovery => needsRecovery'
  BY DEF Manual, Reset, Recover, Execute
<1>5. unmoved' = {} /\ ~scene'
  BY DEF Manual, Reset, Recover, Execute, NewRevision
<1>6. Looks(c)
  BY <1>3, <1>5 DEF Looks
<1> QED
  BY <1>1, <1>2, <1>3, <1>4, <1>6 DEF Calm

LEMMA ToolRefusedCalmly ==
  ASSUME IInv, NEW c \in Calls,
         \/ GiveUp(c)
         \/ Refuse(c) /\ (Detect(c) \/ Refine(c) \/ Inspect(c) \/ Finish(c))
  PROVE  Calm(c)
<1> USE DEF IInv, Types
<1>1. /\ Moves(c) /\ pc'[c] \notin Locked
      /\ \A d \in Calls \ {c} : (d \in current' <=> d \in current) /\ (d \in valid' <=> d \in valid)
      /\ UNCHANGED plan
  BY RefuseMoves, AnswerMoves DEF GiveUp
<1>2. /\ pc[c] \notin Locked
      /\ UNCHANGED <<app, sessionLost, loaded, adrift, halted, needsRecovery>>
  BY DEF GiveUp, Detect, Refine, Inspect, Finish, Admit, Enter, Locked, Unmoving, appVars, robotVars
<1>3. taskResult' # taskResult => LockFree /\ taskResult = "none"
  BY DEF GiveUp, Detect, Refine, Inspect, Finish, Admit, Enter, Welcome
<1>4. UNCHANGED <<unmoved, watched, scene, viewed>>
  BY DEF GiveUp, Detect, Refine, Inspect, Finish, viewVars
<1>5. Looks(c)
  BY <1>4 DEF Looks
<1> QED
  BY <1>1, <1>2, <1>3, <1>5 DEF Calm

LEMMA DeliveredCalmly ==
  ASSUME IInv, NEW c \in Calls,
         Call(c) \/ Show(c) \/ ShowDone(c) \/ Reply(c) \/ \E sent \in BOOLEAN : FrameDone(c, sent)
  PROVE  Calm(c)
<1> USE DEF IInv, Types
<1>1. pc[c] \notin Locked
  BY DEF Call, Show, ShowDone, Reply, FrameDone, Locked
<1>2. \E where \in {"queued", "showing", "reply", "idle"} : pc' = [pc EXCEPT ![c] = where]
  BY DEF Call, Show, ShowDone, Reply, FrameDone, Leave
<1>3. \E new : call' = [call EXCEPT ![c] = new]
  <2>1. CASE call' = call
    <3>1. call' = [call EXCEPT ![c] = call[c]]
      BY <2>1 DEF CallType
    <3> QED
      BY <3>1
  <2>2. CASE call' = [call EXCEPT ![c].ok = FALSE]
    <3>1. call' = [call EXCEPT ![c] = [call[c] EXCEPT !.ok = FALSE]]
      BY <2>2
    <3> QED
      BY <3>1
  <2>3. CASE Reply(c)
    BY <2>3 DEF Reply, Leave
  <2>4. CASE Call(c)
    BY <2>4 DEF Call
  <2> QED
    BY <2>1, <2>2, <2>3, <2>4 DEF Show, ShowDone, FrameDone
<1>4. Moves(c) /\ pc'[c] \notin Locked
  BY <1>2, <1>3 DEF Moves, CallType, Locked
<1>5. /\ \A d \in Calls \ {c} : (d \in current' <=> d \in current) /\ (d \in valid' <=> d \in valid)
      /\ UNCHANGED <<app, sessionLost, taskResult, plan, loaded, adrift, halted, needsRecovery>>
  BY DEF Call, Show, ShowDone, Reply, FrameDone, Undisturbed, appVars, taskVars, robotVars
<1>6. Looks(c)
  <2>1. CASE Call(c) \/ Show(c) \/ ShowDone(c)
    BY <2>1 DEF Call, Show, ShowDone, Looks, viewVars
  <2>2. CASE Reply(c)
    BY <2>2 DEF Reply, Leave, Looks
  <2>3. ASSUME NEW sent \in BOOLEAN, FrameDone(c, sent)
        PROVE  Looks(c)
    <3>1. unmoved \subseteq watched
      BY DEF Safe, ViewInv
    <3>2. viewed => viewed'
      BY <2>3 DEF FrameDone
    <3>3. scene' => scene \/ (c \in unmoved /\ viewed')
      BY <2>3, <3>1 DEF FrameDone, Fresh
    <3> QED
      BY <2>3, <3>2, <3>3 DEF FrameDone, Looks
  <2> QED
    BY <2>1, <2>2, <2>3
<1> QED
  BY <1>1, <1>4, <1>5, <1>6 DEF Calm

-----------------------------------------------------------------------------
(* Interruptions *)

LEMMA StopsInterrupt ==
  ASSUME IInv, NEW c \in Calls,
         CallStop(c) \/ FrameLost(c) \/ ShowFailed(c) \/ ReplyLost(c)
  PROVE  \E lost \in BOOLEAN : Stopped(lost)
<1> USE DEF IInv, Types
<1>1. PICK lost \in BOOLEAN : Interrupt(lost) /\ app' = app
  BY DEF CallStop, FrameLost, ShowFailed, ReplyLost, Undisturbed, appVars
<1>2. \A d \in Calls : \/ pc'[d] = pc[d] /\ call'[d] = call[d]
                       \/ pc[d] \notin Locked /\ pc'[d] \notin Locked
  <2>1. pc[c] \notin Locked
    BY DEF CallStop, FrameLost, ShowFailed, ReplyLost, Locked
  <2>2. \E where \in {"halt", "reply", "idle"} : pc' = [pc EXCEPT ![c] = where]
    BY DEF CallStop, FrameLost, ShowFailed, ReplyLost, Leave
  <2>3. call' = [call EXCEPT ![c] = NoTool] \/ call' = [call EXCEPT ![c].ok = FALSE]
    BY DEF CallStop, FrameLost, ShowFailed, ReplyLost, Leave
  <2> QED
    BY <2>1, <2>2, <2>3 DEF CallType, Locked
<1>3. UNCHANGED <<taskResult, loaded, adrift, scene, viewed>>
  BY DEF CallStop, FrameLost, ShowFailed, ReplyLost, Undisturbed, viewVars
<1>4. halted => halted'
  BY DEF CallStop, FrameLost, ShowFailed, ReplyLost, Undisturbed
<1>5. unmoved' \subseteq unmoved /\ unmoved' \subseteq watched'
  <2>1. unmoved \subseteq watched
    BY DEF Safe, ViewInv
  <2>2. \/ UNCHANGED <<unmoved, watched>>
        \/ unmoved' = unmoved \ {c} /\ watched' = watched \ {c}
    BY DEF CallStop, FrameLost, ShowFailed, ReplyLost, Leave, viewVars
  <2> QED
    BY <2>1, <2>2
<1> QED
  BY <1>1, <1>2, <1>3, <1>4, <1>5 DEF Stopped

LEMMA LossInterrupts ==
  ASSUME IInv, Disconnect \/ Abort
  PROVE  Stopped(TRUE)
<1>1. Interrupt(TRUE) /\ UNCHANGED <<taskResult, loaded, adrift, scene, unmoved, pc, call, watched, viewed>>
  BY DEF Disconnect, Abort, Undisturbed, AppOnly, viewVars
<1>2. halted => halted'
  BY DEF Disconnect, Abort, Undisturbed, StopFirst
<1>3. app' = app \/ (app' = "halting" /\ sessionLost' /\ halted')
  BY <1>1 DEF Disconnect, Abort, Undisturbed, appVars, StopFirst, Interrupt
<1> QED
  BY <1>1, <1>2, <1>3 DEF Stopped, IInv, Safe, ViewInv

-----------------------------------------------------------------------------
(* The end of a tool under the lock *)

\* What is in the plan table after a tool that was not a motion, interrupted or not.
LEMMA SettleKept ==
  ASSUME IInv, NEW c \in Calls, pc[c] \in Locked, NEW ok, NEW P, NEW E, Settle(c, ok, P, E)
  PROVE  /\ Moves(c) /\ pc'[c] \notin Locked
         /\ c \in current => plan' = P
         /\ c \notin current => \A p \in Plans : plan'[p] = plan[p]
<1> USE DEF IInv, Types
<1>1. Moves(c) /\ pc'[c] \notin Locked
  BY AnswerMoves DEF Settle
<1>2. c \in current => plan' = P
  BY DEF Settle
<1>3. c \notin current => \A p \in Plans : plan'[p] = plan[p]
  BY DEF Settle, Invalidate, Safe, GenerationInv
<1> QED
  BY <1>1, <1>2, <1>3

\* A held object stays accounted for when a tool without motion ends.
LEMMA KeptAccounted ==
  ASSUME IInv, Types', NEW c \in Calls, pc[c] \in Locked, pc[c] # "motion", Moves(c),
         UNCHANGED loaded, needsRecovery => needsRecovery',
         \A p \in Plans : plan[p].state \in HeldStates => plan'[p].state \in HeldStates
  PROVE  HeldIsAccounted'
BY DEF IInv, Safe, HeldIsAccounted, Moves, Types, RestType, Locked

LEMMA QuietEnd ==
  ASSUME IInv, Types', NEW c \in Calls,
         \/ \E ok \in BOOLEAN : \/ Looked(c, ok) /\ pc'[c] \notin Locked
                                \/ Observed(c, ok) /\ pc'[c] \notin Locked
         \/ \E reply \in {"confirmed", "rejected", "failed"} : Posted(c, reply)
         \/ \E report \in {"clean", "fault", "failed"} :
              StateRead(c, report) \/ InspectRead(c, report) \/ FinishRead(c, report)
  PROVE  Safe'
<1> USE DEF IInv, Types
<1>1. pc[c] \in Locked /\ pc[c] # "motion"
  BY DEF Looked, Observed, Posted, StateRead, InspectRead, FinishRead, Locked
<1>2. /\ UNCHANGED <<app, sessionLost, loaded, adrift, halted, unmoved, watched, scene, viewed>>
  BY DEF Looked, Observed, Posted, StateRead, InspectRead, FinishRead, Unmoving, appVars, robotVars, viewVars
<1>3. needsRecovery => needsRecovery'
  BY DEF Looked, Observed, Posted, StateRead, InspectRead, FinishRead
<1>4. /\ Moves(c) /\ pc'[c] \notin Locked
      /\ \A p \in Plans : plan[p].state \in HeldStates => plan'[p].state \in HeldStates
  <2> DEFINE Kept == /\ Moves(c) /\ pc'[c] \notin Locked
                     /\ \A p \in Plans : plan[p].state \in HeldStates => plan'[p].state \in HeldStates
  <2>1. ASSUME NEW ok, NEW E, Settle(c, ok, plan, E)
        PROVE  Kept
    BY <1>1, <2>1, SettleKept
  <2>2. ASSUME NEW reply \in {"confirmed", "rejected", "failed"}, Posted(c, reply)
        PROVE  Kept
    <3>1. CASE Settle(c, TRUE, plan, evidence) \/ Settle(c, FALSE, plan, evidence)
      BY <2>1, <3>1
    <3>2. ASSUME NEW p \in Plans, plan[p] = Absent,
                 Settle(c, TRUE, [plan EXCEPT ![p] = [state |-> "detected", arms |-> call[c].arms]], evidence)
          PROVE  Kept
      <4>1. p \in Plans /\ plan[p].state \notin HeldStates
        BY <3>2 DEF Absent, HeldStates
      <4>2. \A q \in Plans : plan[q].state \in HeldStates => plan'[q] = plan[q]
        <5>1. /\ c \in current => plan' = [plan EXCEPT ![p] = [state |-> "detected", arms |-> call[c].arms]]
              /\ c \notin current => \A q \in Plans : plan'[q] = plan[q]
          BY <1>1, <3>2, SettleKept
        <5> QED
          BY <4>1, <5>1 DEF TabType
      <4> QED
        BY <1>1, <3>2, <4>2, SettleKept
    <3>3. CASE Settle(c, TRUE, [plan EXCEPT ![call[c].plan].state = "verified"], evidence)
      <4>1. \A q \in Plans : plan[q].state \in HeldStates => plan'[q].state \in HeldStates
        <5>1. /\ c \in current => plan' = [plan EXCEPT ![call[c].plan].state = "verified"]
              /\ c \notin current => \A q \in Plans : plan'[q] = plan[q]
          BY <1>1, <3>3, SettleKept
        <5> QED
          BY <5>1 DEF TabType, HeldStates
      <4> QED
        BY <1>1, <3>3, <4>1, SettleKept
    <3> QED
      BY <2>2, <3>1, <3>2, <3>3 DEF Posted
  <2>3. ASSUME NEW ok \in BOOLEAN, Looked(c, ok) \/ Observed(c, ok), pc'[c] \notin Locked
        PROVE  Kept
    <3>1. CASE Settle(c, FALSE, plan, evidence)
      BY <2>1, <3>1
    <3>2. CASE Suspend(c, "posting") \/ Read(c)
      BY <2>3, <3>2 DEF Suspend, Read, CallType, Locked
    <3> QED
      BY <2>3, <3>1, <3>2 DEF Looked, Observed
  <2>4. ASSUME NEW report \in {"clean", "fault", "failed"},
               StateRead(c, report) \/ InspectRead(c, report) \/ FinishRead(c, report)
        PROVE  Kept
    <3>1. \E ok, E : Settle(c, ok, plan, E)
      BY <2>4 DEF StateRead, InspectRead, FinishRead
    <3> QED
      BY <2>1, <3>1
  <2> QED
    BY <2>2, <2>3, <2>4
<1>5. HeldIsAccounted'
  BY <1>1, <1>2, <1>3, <1>4, KeptAccounted
<1>6. Ended(c)
  BY <1>1, <1>2, <1>4 DEF Ended
<1>7. adrift => needsRecovery'
  BY <1>3 DEF Safe, StopInv
<1> QED
  BY <1>5, <1>6, <1>7, EndedStep

\* After a motion ended: what it was holding is held by its plan, released or owed.
LEMMA MotionEnd ==
  ASSUME IInv, Types', NEW c \in Calls, pc'[c] \notin Locked,
         \/ MotionConfirmed(c) \/ Rescued(c)
         \/ \E reply \in {"confirmed", "refused", "unknown"} :
              RecoverStopped(c, reply) \/ MotionFailed(c, reply)
  PROVE  Safe'
<1> USE DEF IInv, Types
<1>1. pc[c] \in Locked /\ pc[c] \in MotionPcs
  BY DEF MotionConfirmed, MotionFailed, Rescued, RecoverStopped, Locked, MotionPcs
<1>2. /\ c \notin current => needsRecovery /\ c \notin valid
      /\ c \in current /\ call[c].op \in Stages \cup {"recover"} => c \in valid
  BY <1>1 DEF Safe, GenerationInv
<1>3. \A d \in Calls : pc[d] = "motion" => d = c
  BY <1>1 DEF Safe, LockInv, Locked
<1>4. CASE MotionConfirmed(c)
  <2> DEFINE op == call[c].op
             kept == Checkpoint(c) \/ op \in {"manual", "reset"}
             P == IF op \in Stages /\ kept
                  THEN [plan EXCEPT ![call[c].plan].state = Reached[op]] ELSE plan
  <2>1. Settle(c, kept, P, evidence)
    BY <1>4 DEF MotionConfirmed
  <2>2. /\ Moves(c)
        /\ c \in current => plan' = P
        /\ c \notin current => \A p \in Plans : plan'[p] = plan[p]
    <3> HIDE DEF kept, P
    <3> QED
      BY <1>1, <2>1, SettleKept
  <2>3. ~adrift /\ UNCHANGED <<app, sessionLost, adrift, halted, unmoved, watched, scene, viewed>>
    BY <1>4 DEF MotionConfirmed, Safe, StopInv, appVars, taskVars, viewVars
  <2>4. HeldIsAccounted'
    <3> SUFFICES ASSUME NEW p \in Plans, p \in loaded', ~needsRecovery'
                 PROVE  plan'[p].state \in HeldStates
      BY DEF HeldIsAccounted, RestType
    <3>1. CASE op = "recover"
      BY <1>4, <3>1 DEF MotionConfirmed
    <3>2. CASE op # "recover"
      <4>1. /\ p \in loaded /\ ~needsRecovery /\ c \in current
            /\ op = "place" => p # call[c].plan
        BY <1>2, <1>4, <3>2 DEF MotionConfirmed
      <4>2. plan[p].state \in HeldStates \/ (op = "pick" /\ call[c].plan = p)
        BY <1>3, <4>1 DEF Safe, HeldIsAccounted
      <4>3. plan' = P
        BY <2>2, <4>1
      <4>4. CASE op = "pick" /\ call[c].plan = p
        <5>1. plan' = [plan EXCEPT ![p].state = "picked"]
          BY <1>2, <4>1, <4>3, <4>4 DEF Checkpoint, Stages, Reached
        <5> QED
          BY <5>1 DEF TabType, HeldStates
      <4>5. CASE plan[p].state \in HeldStates /\ ~(op = "pick" /\ call[c].plan = p)
        <5>1. CASE op \in Stages /\ p = call[c].plan
          <6>1. op = "approach" /\ c \in valid
            BY <1>2, <4>1, <4>5, <5>1 DEF Stages
          <6>2. pc[c] = "motion"
            BY <1>4 DEF MotionConfirmed
          <6>3. plan[p].state = "detected"
            BY <1>1, <5>1, <6>1, <6>2 DEF Safe, GenerationInv, Allowed, Stages
          <6> QED
            BY <4>5, <6>3 DEF HeldStates
        <5>2. CASE ~(op \in Stages /\ p = call[c].plan)
          BY <4>3, <4>5, <5>2 DEF TabType
        <5> QED
          BY <5>1, <5>2
      <4> QED
        BY <4>2, <4>4, <4>5
    <3> QED
      BY <3>1, <3>2
  <2>5. Ended(c)
    BY <1>1, <2>2, <2>3 DEF Ended
  <2> QED
    BY <2>3, <2>4, <2>5, EndedStep
<1>5. ASSUME NEW P, Settle(c, FALSE, P, evidence), needsRecovery => needsRecovery',
             UNCHANGED <<app, sessionLost, loaded, adrift, halted, unmoved, watched, scene, viewed>>,
             needsRecovery' \/ (pc[c] # "motion" /\ P = plan)
      PROVE  Safe'
  <2>1. /\ Moves(c)
        /\ c \in current => plan' = P
        /\ c \notin current => \A p \in Plans : plan'[p] = plan[p]
    BY <1>1, <1>5, SettleKept
  <2>2. HeldIsAccounted'
    <3>1. CASE needsRecovery'
      BY <3>1 DEF HeldIsAccounted
    <3>2. CASE pc[c] # "motion" /\ P = plan
      <4>1. \A p \in Plans : plan'[p] = plan[p]
        BY <2>1, <3>2
      <4> QED
        BY <1>1, <1>5, <2>1, <3>2, <4>1, KeptAccounted
    <3> QED
      BY <1>5, <3>1, <3>2
  <2>3. Ended(c)
    BY <1>1, <1>5, <2>1 DEF Ended
  <2>4. adrift => needsRecovery'
    BY <1>5 DEF Safe, StopInv
  <2> QED
    BY <2>2, <2>3, <2>4, EndedStep
<1>6. CASE Rescued(c)
  <2>1. Settle(c, FALSE, plan, evidence) /\ pc[c] # "motion"
    BY <1>6 DEF Rescued
  <2>2. UNCHANGED <<app, sessionLost, needsRecovery, loaded, adrift, halted, unmoved, watched, scene, viewed>>
    BY <1>6 DEF Rescued, appVars, taskVars, robotVars, viewVars
  <2> QED
    BY <1>5, <2>1, <2>2
<1>7. ~Send(c) /\ ~Rescue(c)
  BY DEF Send, Rescue, CallType, Locked
<1>8. ASSUME NEW reply \in {"confirmed", "refused", "unknown"}, RecoverStopped(c, reply)
      PROVE  Safe'
  <2>1. Settle(c, FALSE, plan, evidence) /\ pc[c] # "motion" /\ Stay
    BY <1>7, <1>8 DEF RecoverStopped
  <2>2. UNCHANGED <<app, sessionLost, loaded, adrift, halted, unmoved, watched, scene, viewed>>
    BY <1>8, <2>1 DEF RecoverStopped, Stay, appVars, taskVars, robotVars, viewVars
  <2>3. needsRecovery => needsRecovery'
    BY <1>7, <1>8 DEF RecoverStopped
  <2> QED
    BY <1>5, <2>1, <2>2, <2>3
<1>9. ASSUME NEW reply \in {"confirmed", "refused", "unknown"}, MotionFailed(c, reply)
      PROVE  Safe'
  <2>1. Settle(c, FALSE, Spoil(c), evidence) /\ needsRecovery' /\ Stay
    BY <1>7, <1>9 DEF MotionFailed
  <2>2. UNCHANGED <<app, sessionLost, loaded, adrift, halted, unmoved, watched, scene, viewed>>
    BY <1>9, <2>1 DEF MotionFailed, Stay, appVars, taskVars, robotVars, viewVars
  <2> QED
    BY <1>5, <2>1, <2>2
<1> QED
  BY <1>4, <1>6, <1>8, <1>9

-----------------------------------------------------------------------------
(* Taking the lock, and going on under it *)

\* c takes the lock for a tool without motion, or goes on with it.
Goes(c) ==
  /\ Moves(c) /\ call'[c] = call[c] /\ pc'[c] \in Locked \ MotionPcs
  /\ call[c].op \notin MotionTools
  /\ pc'[c] = "observing" => call[c].op = "inspect"
  /\ pc[c] \in Locked \/ (LockFree /\ Welcome(c))
  /\ pc'[c] = "reading" /\ call[c].op = "finish" => LockFree /\ Finishable
  /\ UNCHANGED <<app, sessionLost, taskResult, needsRecovery, plan, loaded, adrift, halted, current,
                 scene, viewed>>
  /\ valid' = valid \/ (valid' = valid \cup {c} /\ (pc[c] \in Locked => c \in valid))
  /\ unmoved' \subseteq watched'
  /\ \/ UNCHANGED unmoved
     \/ LockFree

LEMMA GoesStep ==
  ASSUME IInv, Types', NEW c \in Calls, Goes(c)
  PROVE  Safe'
<1> USE DEF IInv, Types, Safe
<1>1. \A d \in Calls \ {c} : pc[d] \notin Locked /\ pc'[d] \notin Locked
  BY DEF Goes, Moves, LockInv, LockFree
<1>2. taskResult = "none" /\ pc[c] \notin MotionPcs
  BY DEF Goes, Welcome, LockInv, LockFree, Locked, MotionPcs
<1>3. LockInv'
  BY <1>1, <1>2 DEF LockInv, Goes, Locked, MotionPcs
<1>4. GenerationInv'
  <2>1. c \in current \/ pc[c] \in Locked
    BY DEF Goes, Welcome
  <2>2. c \in current => ~sessionLost
    BY DEF Goes, Welcome, GenerationInv
  <2>3. c \notin current => \A p \in Plans : plan[p] = Absent
    BY <2>1 DEF GenerationInv
  <2>4. c \in valid' => c \in current
    <3>1. CASE pc[c] \in Locked
      BY <3>1 DEF Goes, GenerationInv
    <3>2. CASE pc[c] \notin Locked
      BY <2>1, <3>2
    <3> QED
      BY <3>1, <3>2
  <2>5. pc'[c] \notin MotionPcs /\ pc'[c] # "motion" /\ UNCHANGED <<current, plan, sessionLost>>
    BY DEF Goes, MotionPcs
  <2> QED
    BY <1>1, <2>2, <2>3, <2>4, <2>5 DEF GenerationInv
<1>5. HeldIsAccounted'
  <2>1. pc[c] # "motion"
    BY <1>2 DEF MotionPcs
  <2> QED
    BY <2>1 DEF HeldIsAccounted, Goes, Moves, RestType
<1>6. StopInv'
  <2>1. \A d \in Calls : pc'[d] # "motion"
    BY <1>1 DEF Goes, MotionPcs, Locked
  <2> QED
    BY <2>1 DEF StopInv, Goes
<1>7. ViewInv'
  <2>1. \A d \in Calls : pc'[d] \notin MotionPcs
    BY <1>1 DEF Goes, MotionPcs, Locked
  <2>2. \A d \in Calls : pc'[d] = "reading" => d = c
    BY <1>1 DEF Locked
  <2>3. pc'[c] = "reading" /\ call[c].op = "finish" => loaded = {} /\ ~adrift /\ viewed
    <3> SUFFICES ASSUME LockFree, Finishable
                 PROVE  loaded = {} /\ ~adrift /\ viewed
      BY DEF Goes
    <3>1. \A d \in Calls : pc[d] # "motion"
      BY DEF LockFree, Locked
    <3>2. ~adrift /\ viewed
      BY DEF Finishable, StopInv, ViewInv
    <3>3. loaded = {}
      BY <3>1 DEF Finishable, HeldIsAccounted, PlanIn, RestType
    <3> QED
      BY <3>2, <3>3
  <2> QED
    BY <2>1, <2>2, <2>3 DEF ViewInv, Goes
<1> QED
  BY <1>3, <1>4, <1>5, <1>6, <1>7

LEMMA ToolGoes ==
  ASSUME IInv, NEW c \in Calls, pc'[c] \in Locked,
         \/ Detect(c) \/ Refine(c) \/ Verify(c) \/ State(c) \/ Inspect(c) \/ Finish(c)
         \/ \E ok \in BOOLEAN : Looked(c, ok) \/ Observed(c, ok)
  PROVE  Goes(c)
<1> USE DEF IInv, Types, Safe
<1>1. \A ok : ~Answer(c, ok)
  BY AnswerMoves
<1>2. ~Refuse(c) /\ \A ok, P, E : ~Settle(c, ok, P, E)
  BY <1>1 DEF Refuse, Settle
<1>3. unmoved \subseteq watched
  BY DEF ViewInv
<1>4. CASE Detect(c) \/ Refine(c) \/ Verify(c) \/ State(c) \/ Inspect(c) \/ Finish(c)
  <2>1. pc[c] = "queued" /\ LockFree /\ Welcome(c)
    BY <1>4 DEF Detect, Refine, Verify, State, Inspect, Finish, Admit, Enter
  <2>2. /\ call' = call /\ UNCHANGED <<current, plan>>
        /\ \E where \in {"looking", "posting", "observing", "reading"} : pc' = [pc EXCEPT ![c] = where]
        /\ valid' = valid \/ valid' = valid \cup {c}
    BY <1>2, <1>4 DEF Detect, Refine, Verify, State, Inspect, Finish, Suspend, Read
  <2>3. Moves(c) /\ pc'[c] \in Locked \ MotionPcs
    BY <2>2 DEF Moves, CallType, Locked, MotionPcs
  <2>4. /\ call[c].op \notin MotionTools
        /\ pc'[c] = "observing" => call[c].op = "inspect"
        /\ pc'[c] = "reading" /\ call[c].op = "finish" => Finishable
    BY <1>2, <1>4 DEF Detect, Refine, Verify, State, Inspect, Finish, Admit, Suspend, Read, MotionTools,
                      Stages, CallType
  <2>5. UNCHANGED <<app, sessionLost, taskResult, needsRecovery, loaded, adrift, halted, scene, viewed>>
    BY <1>4 DEF Detect, Refine, Verify, State, Inspect, Finish, Unmoving, appVars, robotVars, viewVars
  <2>6. unmoved' \subseteq watched'
    BY <1>3, <1>4 DEF Detect, Refine, Verify, State, Inspect, Finish, viewVars
  <2> QED
    BY <2>1, <2>2, <2>3, <2>4, <2>5, <2>6 DEF Goes, Locked
<1>5. ASSUME NEW ok \in BOOLEAN, Looked(c, ok) \/ Observed(c, ok)
      PROVE  Goes(c)
  <2>1. /\ call' = call /\ UNCHANGED <<current, plan>>
        /\ \/ pc[c] = "looking" /\ pc' = [pc EXCEPT ![c] = "posting"] /\ valid' = valid \cup {c} /\ c \in valid
           \/ pc[c] = "observing" /\ pc' = [pc EXCEPT ![c] = "reading"] /\ valid' = valid
    BY <1>2, <1>5 DEF Looked, Observed, Suspend, Read, Checkpoint
  <2>2. Moves(c) /\ pc'[c] \in Locked \ MotionPcs /\ pc[c] \in Locked /\ pc[c] \notin MotionPcs
        /\ pc'[c] # "observing"
    BY <2>1 DEF Moves, CallType, Locked, MotionPcs
  <2>3. call[c].op \notin MotionTools /\ (pc'[c] = "reading" => call[c].op # "finish")
    BY <2>1, <2>2 DEF LockInv, CallType
  <2>4. UNCHANGED <<app, sessionLost, taskResult, needsRecovery, loaded, adrift, halted, scene, viewed,
                    unmoved, watched>>
    BY <1>5 DEF Looked, Observed, Unmoving, appVars, robotVars, viewVars
  <2> QED
    BY <1>3, <2>1, <2>2, <2>3, <2>4 DEF Goes
<1> QED
  BY <1>4, <1>5

-----------------------------------------------------------------------------
(* Motions *)

\* c sends its motion request.
Sent(c) ==
  /\ Moves(c) /\ pc'[c] = "motion" /\ call'[c] = call[c] /\ call[c].op \in MotionTools
  /\ \A d \in Calls \ {c} : pc[d] \notin Locked
  /\ c \in current /\ ~sessionLost /\ taskResult = "none"
  /\ UNCHANGED <<app, sessionLost, taskResult, current>>
  /\ unmoved' = {} /\ ~scene' /\ ~adrift'
  /\ call[c].op \in Stages \cup {"recover"} => c \in valid'
  /\ call[c].op \in Stages => plan'[call[c].plan].state \in Allowed[call[c].op]
  /\ \A p \in loaded' :
       \/ needsRecovery' \/ plan'[p].state \in HeldStates
       \/ call[c].op = "pick" /\ call[c].plan = p

LEMMA SentStep ==
  ASSUME IInv, Types', NEW c \in Calls, Sent(c)
  PROVE  Safe'
<1> USE DEF IInv, Types, Safe
<1>1. \A d \in Calls \ {c} : pc'[d] \notin Locked
  BY DEF Sent, Moves
<1>2. LockInv'
  BY <1>1 DEF LockInv, Sent, Locked, MotionPcs
<1>3. GenerationInv'
  BY <1>1 DEF GenerationInv, Sent
<1>4. HeldIsAccounted'
  BY DEF HeldIsAccounted, Sent
<1>5. StopInv'
  BY DEF StopInv, Sent
<1>6. ViewInv'
  BY <1>1 DEF ViewInv, Sent, Locked
<1> QED
  BY <1>2, <1>3, <1>4, <1>5, <1>6

\* c waits for a stop, before or after its motion request.
Parks(c) ==
  /\ Moves(c) /\ pc'[c] \in {"recoverStop", "rescue"} /\ call'[c] = call[c]
  /\ call[c].op \in MotionTools
  /\ pc'[c] = "recoverStop" => call[c].op = "recover"
  /\ \A d \in Calls \ {c} : pc[d] \notin Locked
  /\ taskResult = "none"
  /\ c \in current => ~sessionLost
  /\ UNCHANGED <<app, sessionLost, taskResult, current>>
  /\ needsRecovery' /\ halted'
  /\ unmoved' = {} /\ ~scene'
  /\ c \in valid' => c \in current
  /\ c \in current /\ call[c].op \in Stages \cup {"recover"} => c \in valid'
  /\ c \notin current => \A p \in Plans : plan'[p] = Absent

LEMMA ParksStep ==
  ASSUME IInv, Types', NEW c \in Calls, Parks(c)
  PROVE  Safe'
<1> USE DEF IInv, Types, Safe
<1>1. \A d \in Calls \ {c} : pc'[d] \notin Locked
  BY DEF Parks, Moves
<1>2. LockInv'
  BY <1>1 DEF LockInv, Parks, Locked, MotionPcs
<1>3. GenerationInv'
  BY <1>1 DEF GenerationInv, Parks
<1>4. HeldIsAccounted'
  BY DEF HeldIsAccounted, Parks
<1>5. StopInv'
  BY <1>1 DEF StopInv, Parks, Locked
<1>6. ViewInv'
  BY <1>1 DEF ViewInv, Parks, Locked
<1> QED
  BY <1>2, <1>3, <1>4, <1>5, <1>6

LEMMA SendMoves ==
  ASSUME CallType, NEW c \in Calls, Send(c)
  PROVE  /\ Moves(c) /\ pc'[c] = "motion" /\ call'[c] = call[c] /\ UNCHANGED current /\ ~adrift'
         /\ \A p \in loaded' : p \in loaded \/ (call[c].op = "pick" /\ call[c].plan = p)
<1>1. pc' = [pc EXCEPT ![c] = "motion"] /\ call' = call
  BY DEF Send
<1>2. Moves(c) /\ pc'[c] = "motion" /\ call'[c] = call[c]
  BY <1>1 DEF Moves, CallType
<1> QED
  BY <1>2 DEF Send

LEMMA RescueMoves ==
  ASSUME CallType, NEW c \in Calls, Rescue(c)
  PROVE  /\ Moves(c) /\ pc'[c] = "rescue" /\ call'[c] = call[c] /\ UNCHANGED current
         /\ needsRecovery' /\ halted'
<1>1. pc' = [pc EXCEPT ![c] = "rescue"] /\ call' = call
  BY DEF Rescue
<1>2. Moves(c) /\ pc'[c] = "rescue" /\ call'[c] = call[c]
  BY <1>1 DEF Moves, CallType
<1> QED
  BY <1>2 DEF Rescue

\* With no motion under way, no object held and nothing owed, every gripper is empty.
LEMMA NothingHeld ==
  ASSUME Types, HeldIsAccounted, LockFree, ~needsRecovery, ~PlanIn(HeldStates)
  PROVE  loaded = {}
BY DEF HeldIsAccounted, LockFree, Locked, PlanIn, Types, RestType

LEMMA ManualStep ==
  ASSUME IInv, Types', NEW c \in Calls, Manual(c)
  PROVE  Safe'
<1> USE DEF IInv, Types
<1>1. /\ pc[c] = "queued" /\ LockFree /\ Welcome(c) /\ call[c].op = "manual"
      /\ unmoved' = {} /\ ~scene' /\ UNCHANGED <<app, sessionLost, taskResult>>
  BY DEF Manual, Admit, Enter, NewRevision, appVars, taskVars
<1>2. CASE Refuse(c) /\ UNCHANGED needsRecovery /\ Stay
  BY <1>2, MotionRefusedCalmly, CalmStep
<1>3. CASE /\ ~needsRecovery /\ needsRecovery' = PlanIn(HeldStates) /\ Invalidate({})
           /\ Answer(c, FALSE) /\ Stay
  <2>1. Moves(c) /\ pc'[c] \notin Locked /\ \A d \in Calls \ {c} : d \in current' <=> d \in current
    BY <1>3, AnswerMoves
  <2>2. LockFree'
    BY <1>1, <2>1 DEF LockFree, Moves
  <2>3. LockInv' /\ GenerationInv'
    BY <2>2, FreeLock
  <2>4. UNCHANGED <<loaded, adrift, halted, watched, viewed>>
    BY <1>3 DEF Stay, robotVars, viewVars
  <2>5. HeldIsAccounted'
    <3>1. CASE PlanIn(HeldStates)
      BY <1>3, <3>1 DEF HeldIsAccounted
    <3>2. CASE ~PlanIn(HeldStates)
      BY <1>1, <1>3, <2>4, <3>2, NothingHeld DEF Safe, HeldIsAccounted
    <3> QED
      BY <3>1, <3>2
  <2>6. StopInv'
    BY <1>1, <1>3, <2>2, <2>4 DEF Safe, StopInv, LockFree, Locked
  <2>7. ViewInv'
    BY <1>1, <2>2, <2>4 DEF Safe, ViewInv, LockFree, Locked, MotionPcs
  <2> QED
    BY <2>3, <2>5, <2>6, <2>7 DEF Safe
<1>4. CASE ~needsRecovery /\ ~PlanIn(HeldStates) /\ Send(c)
  <2>1. loaded = {}
    BY <1>1, <1>4, NothingHeld DEF Safe
  <2>2. /\ Moves(c) /\ pc'[c] = "motion" /\ call'[c] = call[c] /\ UNCHANGED current /\ ~adrift'
        /\ \A p \in loaded' : p \in loaded \/ (call[c].op = "pick" /\ call[c].plan = p)
    BY <1>4, SendMoves
  <2>3. loaded' = {}
    BY <1>1, <2>1, <2>2 DEF RestType
  <2>4. Sent(c)
    BY <1>1, <2>2, <2>3 DEF Sent, Welcome, LockFree, MotionTools, Stages
  <2> QED
    BY <2>4, SentStep
<1> QED
  BY <1>2, <1>3, <1>4 DEF Manual

LEMMA ResetStep ==
  ASSUME IInv, Types', NEW c \in Calls, Reset(c)
  PROVE  Safe'
<1> USE DEF IInv, Types
<1>1. /\ pc[c] = "queued" /\ LockFree /\ Welcome(c) /\ call[c].op = "reset"
      /\ unmoved' = {} /\ ~scene' /\ UNCHANGED <<app, sessionLost, taskResult>>
  BY DEF Reset, Admit, Enter, NewRevision, appVars, taskVars
<1>2. CASE Refuse(c) /\ Stay
  BY <1>2, MotionRefusedCalmly, CalmStep
<1>3. CASE ~needsRecovery /\ ~PlanIn(HeldStates) /\ Send(c)
  <2>1. loaded = {}
    BY <1>1, <1>3, NothingHeld DEF Safe
  <2>2. /\ Moves(c) /\ pc'[c] = "motion" /\ call'[c] = call[c] /\ UNCHANGED current /\ ~adrift'
        /\ \A p \in loaded' : p \in loaded \/ (call[c].op = "pick" /\ call[c].plan = p)
    BY <1>3, SendMoves
  <2>3. loaded' = {}
    BY <1>1, <2>1, <2>2 DEF RestType
  <2>4. Sent(c)
    BY <1>1, <2>2, <2>3 DEF Sent, Welcome, LockFree, MotionTools, Stages
  <2> QED
    BY <2>4, SentStep
<1> QED
  BY <1>2, <1>3 DEF Reset

LEMMA ExecuteStep ==
  ASSUME IInv, Types', NEW c \in Calls, NEW stage \in Stages, Execute(c, stage)
  PROVE  Safe'
<1> USE DEF IInv, Types
<1>1. /\ pc[c] = "queued" /\ LockFree /\ Welcome(c) /\ call[c].op = stage
      /\ unmoved' = {} /\ ~scene' /\ UNCHANGED <<app, sessionLost, taskResult, needsRecovery>>
  BY DEF Execute, Admit, Enter, NewRevision, appVars, taskVars
<1>2. CASE Refuse(c) /\ Stay
  BY <1>2, MotionRefusedCalmly, CalmStep
<1>3. CASE /\ ~needsRecovery /\ plan[call[c].plan].state \in Allowed[stage]
           /\ valid' = valid \cup {c} /\ plan' = plan /\ Send(c)
  <2>1. /\ Moves(c) /\ pc'[c] = "motion" /\ call'[c] = call[c] /\ UNCHANGED current /\ ~adrift'
        /\ \A p \in loaded' : p \in loaded \/ (call[c].op = "pick" /\ call[c].plan = p)
    BY <1>3, SendMoves
  <2>2. \A p \in loaded : p \in Plans => plan'[p].state \in HeldStates
    BY <1>1, <1>3 DEF Safe, HeldIsAccounted, LockFree, Locked
  <2>3. \A p \in loaded' : plan'[p].state \in HeldStates \/ (call[c].op = "pick" /\ call[c].plan = p)
    BY <2>1, <2>2 DEF RestType
  <2>4. Sent(c)
    BY <1>1, <1>3, <2>1, <2>3 DEF Sent, Welcome, LockFree, MotionTools
  <2> QED
    BY <2>4, SentStep
<1> QED
  BY <1>2, <1>3 DEF Execute

LEMMA RecoverStep ==
  ASSUME IInv, Types', NEW c \in Calls, Recover(c)
  PROVE  Safe'
<1> USE DEF IInv, Types
<1>1. /\ pc[c] = "queued" /\ LockFree /\ Welcome(c) /\ call[c].op = "recover"
      /\ unmoved' = {} /\ ~scene' /\ needsRecovery' /\ UNCHANGED <<app, sessionLost, taskResult>>
  BY DEF Recover, Admit, Enter, NewRevision, appVars, taskVars
<1>2. CASE Refuse(c) /\ UNCHANGED <<attempts, halted>>
  BY <1>2, MotionRefusedCalmly, CalmStep
<1>3. CASE /\ Invalidate({c}) /\ pc' = [pc EXCEPT ![c] = "recoverStop"] /\ halted' = TRUE
           /\ UNCHANGED <<call, current>>
  <2>1. Moves(c) /\ pc'[c] = "recoverStop" /\ call'[c] = call[c]
    BY <1>3 DEF Moves, CallType
  <2>2. valid' = {c}
    BY <1>3 DEF Invalidate
  <2>3. Parks(c)
    BY <1>1, <1>3, <2>1, <2>2 DEF Parks, Welcome, LockFree, MotionTools
  <2> QED
    BY <2>3, ParksStep
<1> QED
  BY <1>2, <1>3 DEF Recover

\* A motion that goes on: the recovery after its stop, or the stop after an unknown outcome.
LEMMA MotionGoes ==
  ASSUME IInv, Types', NEW c \in Calls, pc'[c] \in Locked,
         \E reply \in {"confirmed", "refused", "unknown"} :
           RecoverStopped(c, reply) \/ MotionFailed(c, reply)
  PROVE  Safe'
<1> USE DEF IInv, Types
<1>1. \A ok, P, E : ~Settle(c, ok, P, E)
  BY AnswerMoves DEF Settle
<1>2. /\ pc[c] \in {"recoverStop", "motion"}
      /\ UNCHANGED <<app, sessionLost, taskResult, unmoved, scene>>
  BY DEF RecoverStopped, MotionFailed, appVars, taskVars
<1>3. pc[c] \in Locked /\ pc[c] \in MotionPcs
  BY <1>2 DEF Locked, MotionPcs
<1>4. /\ \A d \in Calls \ {c} : pc[d] \notin Locked
      /\ call[c].op \in MotionTools /\ taskResult = "none"
      /\ pc[c] = "recoverStop" => call[c].op = "recover"
      /\ unmoved = {} /\ ~scene
  BY <1>3 DEF Safe, LockInv, LockFree, ViewInv
<1>5. /\ c \in current => ~sessionLost
      /\ c \in valid => c \in current
      /\ c \in current /\ call[c].op \in Stages \cup {"recover"} => c \in valid
      /\ c \notin current => \A p \in Plans : plan[p] = Absent
  BY <1>3 DEF Safe, GenerationInv
<1>6. CASE /\ pc[c] = "recoverStop" /\ Checkpoint(c) /\ Send(c)
           /\ UNCHANGED <<needsRecovery, plan, evidVars, valid>>
  <2>1. /\ Moves(c) /\ pc'[c] = "motion" /\ call'[c] = call[c] /\ UNCHANGED current /\ ~adrift'
        /\ \A p \in loaded' : p \in loaded \/ (call[c].op = "pick" /\ call[c].plan = p)
    BY <1>6, SendMoves
  <2>2. \A p \in loaded : p \in Plans => needsRecovery' \/ plan'[p].state \in HeldStates
    BY <1>4, <1>6 DEF Safe, HeldIsAccounted, Locked
  <2>3. \A p \in loaded' : \/ needsRecovery' \/ plan'[p].state \in HeldStates
                           \/ call[c].op = "pick" /\ call[c].plan = p
    BY <2>1, <2>2 DEF RestType
  <2>4. call[c].op \notin Stages
    BY <1>4, <1>6 DEF Stages
  <2>5. Sent(c)
    BY <1>2, <1>4, <1>5, <1>6, <2>1, <2>3, <2>4 DEF Sent, Checkpoint
  <2> QED
    BY <2>5, SentStep
<1>7. CASE Rescue(c) /\ valid' = valid /\ (plan' = plan \/ plan' = Spoil(c))
  <2>1. /\ Moves(c) /\ pc'[c] = "rescue" /\ call'[c] = call[c] /\ UNCHANGED current
        /\ needsRecovery' /\ halted'
    BY <1>7, RescueMoves
  <2>2. c \notin current => \A p \in Plans : plan'[p] = Absent
    <3>1. CASE plan' = plan
      BY <1>5, <3>1
    <3>2. CASE plan' = Spoil(c) /\ call[c].op \in Stages
      BY <1>5, <3>2 DEF Spoil, CallType
    <3>3. CASE plan' = Spoil(c) /\ call[c].op \notin Stages
      BY <1>5, <3>3 DEF Spoil
    <3> QED
      BY <1>7, <3>1, <3>2, <3>3
  <2>3. Parks(c)
    BY <1>2, <1>4, <1>5, <1>7, <2>1, <2>2 DEF Parks
  <2> QED
    BY <2>3, ParksStep
<1>8. ASSUME NEW reply \in {"confirmed", "refused", "unknown"}, RecoverStopped(c, reply)
      PROVE  Safe'
  BY <1>1, <1>6, <1>7, <1>8 DEF RecoverStopped
<1>9. ASSUME NEW reply \in {"confirmed", "refused", "unknown"}, MotionFailed(c, reply)
      PROVE  Safe'
  BY <1>1, <1>7, <1>9 DEF MotionFailed
<1> QED
  BY <1>8, <1>9

-----------------------------------------------------------------------------
(* The application, the stream and cancellation *)

\* No call moves; the application may.
Apart ==
  /\ UNCHANGED <<sessionLost, taskResult, needsRecovery, plan, scene, current, valid, unmoved, pc, call,
                 loaded, adrift, watched, viewed>>
  /\ halted => halted'
  /\ app' \in {"lastStop", "done"} => taskResult # "none"
  /\ app' \in {"halting", "closing", "closed"} => taskResult # "none" \/ (sessionLost /\ halted')

LEMMA ApartStep ==
  ASSUME IInv, Apart
  PROVE  Safe'
<1> USE DEF IInv, Safe, Apart
<1>1. LockInv'
  BY DEF LockInv, LockFree
<1>2. GenerationInv'
  BY DEF GenerationInv
<1>3. HeldIsAccounted'
  BY DEF HeldIsAccounted
<1>4. StopInv'
  BY DEF StopInv
<1>5. ViewInv'
  BY DEF ViewInv
<1> QED
  BY <1>1, <1>2, <1>3, <1>4, <1>5

LEMMA ApplicationApart ==
  ASSUME IInv, Consume \/ LastStopped \/ Return \/ Halted \/ Close \/ Mosaic \/ UNCHANGED vars
  PROVE  Apart
<1> USE DEF IInv, Types, Safe
<1>1. UNCHANGED <<sessionLost, taskResult, needsRecovery, plan, scene, current, valid, unmoved, pc, call,
                  loaded, adrift, watched, viewed>>
  BY DEF Consume, LastStopped, Return, Halted, Close, AppStep, AppOnly, Mosaic, vars, taskVars,
         robotVars, viewVars
<1>2. halted => halted'
  BY DEF Consume, LastStopped, Return, Halted, Close, AppStep, Mosaic, vars, robotVars
<1>3. CASE Consume
  <2>1. app' \in {"run", "lastStop", "done"} /\ (app' # "run" => taskResult # "none")
    BY <1>3 DEF Consume, RestType
  <2> QED
    BY <1>1, <1>2, <2>1 DEF Apart
<1>4. CASE LastStopped \/ Return \/ Halted \/ Close
  <2>1. \/ app = "lastStop" /\ app' = "done"
        \/ app = "done" /\ app' = "closing"
        \/ app = "halting" /\ app' = "closing"
        \/ app = "closing" /\ app' = "closed"
    BY <1>4 DEF LastStopped, Return, Halted, Close, AppStep
  <2> QED
    BY <1>1, <1>2, <2>1 DEF Apart, StopInv
<1>5. CASE Mosaic \/ UNCHANGED vars
  <2>1. app' = app
    BY <1>5 DEF Mosaic, vars, appVars
  <2> QED
    BY <1>1, <1>2, <2>1 DEF Apart, StopInv
<1> QED
  BY <1>3, <1>4, <1>5

LEMMA CancelStep ==
  ASSUME IInv, Types', NEW c \in Calls, Cancel(c)
  PROVE  Safe'
<1> USE DEF IInv, Types
<1>1. /\ pc' = [pc EXCEPT ![c] = "idle"] /\ call' = [call EXCEPT ![c] = NoTool]
      /\ unmoved' = unmoved \ {c} /\ watched' = watched \ {c}
  BY DEF Cancel, Leave
<1>2. Moves(c) /\ pc'[c] \notin Locked
  BY <1>1 DEF Moves, CallType, Locked
<1>3. UNCHANGED <<app, sessionLost, taskResult, scene, loaded, halted, viewed>>
  BY DEF Cancel, appVars, taskVars
<1>4. /\ needsRecovery => needsRecovery'
      /\ adrift' = (adrift \/ pc[c] = "motion")
      /\ current' = current \ {c}
  BY DEF Cancel
<1>5. CASE pc[c] \notin Locked
  <2>1. valid' = valid \ {c} /\ UNCHANGED plan
    BY <1>5 DEF Cancel
  <2>2. adrift' = adrift
    BY <1>4, <1>5 DEF Locked, RestType
  <2>3. Looks(c)
    BY <1>1, <1>3 DEF Looks
  <2>4. Calm(c)
    BY <1>2, <1>3, <1>4, <1>5, <2>1, <2>2, <2>3 DEF Calm
  <2> QED
    BY <2>4, CalmStep
<1>6. CASE pc[c] \in Locked
  <2>1. LockFree'
    BY <1>2, <1>6 DEF Safe, LockInv, LockFree, Moves
  <2>2. LockInv' /\ GenerationInv'
    BY <2>1, FreeLock
  <2>3. pc[c] = "motion" => needsRecovery'
    BY <1>6 DEF Cancel, Safe, LockInv, MotionPcs
  <2>4. HeldIsAccounted'
    <3>1. CASE needsRecovery'
      BY <3>1 DEF HeldIsAccounted
    <3>2. CASE ~needsRecovery'
      <4>1. pc[c] # "motion" /\ plan' = plan
        BY <1>6, <2>3, <3>2 DEF Cancel
      <4> QED
        BY <1>2, <1>3, <1>4, <1>6, <4>1, KeptAccounted
    <3> QED
      BY <3>1, <3>2
  <2>5. halted
    BY <1>6 DEF Cancel, Safe, LockInv, LockFree, StopInv
  <2>6. StopInv'
    BY <1>3, <1>4, <2>1, <2>3, <2>5 DEF Safe, StopInv, LockFree, Locked
  <2>7. ViewInv'
    BY <1>1, <1>3, <2>1 DEF Safe, ViewInv, LockFree, Locked, MotionPcs
  <2> QED
    BY <2>2, <2>4, <2>6, <2>7 DEF Safe
<1> QED
  BY <1>5, <1>6

-----------------------------------------------------------------------------
(* The invariant *)

LEMMA SafeInit == Init => Safe
<1> SUFFICES ASSUME Init PROVE Safe
  OBVIOUS
<1>1. \A c \in Calls : pc[c] = "idle"
  BY DEF Init
<1>2. LockFree
  BY <1>1 DEF LockFree, Locked
<1>3. LockInv /\ GenerationInv
  BY <1>1, <1>2 DEF LockInv, GenerationInv, Locked
<1>4. HeldIsAccounted
  BY DEF Init, HeldIsAccounted
<1>5. StopInv
  BY <1>1 DEF Init, StopInv
<1>6. ViewInv
  BY <1>1 DEF Init, ViewInv, MotionPcs
<1> QED
  BY <1>3, <1>4, <1>5, <1>6 DEF Safe

LEMMA StartSafe ==
  ASSUME IInv, Types', NEW c \in Calls, Start(c)
  PROVE  Safe'
<1>1. CASE TurnedAway(c)
  BY <1>1, RefusedCalmly, CalmStep
<1>2. CASE Manual(c) \/ Reset(c) \/ Recover(c) \/ \E stage \in Stages : Execute(c, stage)
  BY <1>2, ManualStep, ResetStep, RecoverStep, ExecuteStep
<1>3. CASE Detect(c) \/ Refine(c) \/ Verify(c) \/ State(c) \/ Inspect(c) \/ Finish(c)
  <2>1. CASE pc'[c] \in Locked
    BY <1>3, <2>1, ToolGoes, GoesStep
  <2>2. CASE pc'[c] \notin Locked
    <3>1. ~Read(c) /\ \A where \in Locked : ~Suspend(c, where)
      BY <2>2 DEF IInv, Types, Read, Suspend, CallType, Locked
    <3>2. pc' # [pc EXCEPT ![c] = "observing"] /\ pc' # [pc EXCEPT ![c] = "posting"]
      BY <2>2 DEF IInv, Types, CallType, Locked
    <3>3. "looking" \in Locked
      BY DEF Locked
    <3>4. Refuse(c) /\ (Detect(c) \/ Refine(c) \/ Inspect(c) \/ Finish(c))
      BY <1>3, <3>1, <3>2, <3>3 DEF Detect, Refine, Verify, State, Inspect, Finish
    <3> QED
      BY <3>4, ToolRefusedCalmly, CalmStep
  <2> QED
    BY <2>1, <2>2
<1>4. CASE GiveUp(c)
  BY <1>4, ToolRefusedCalmly, CalmStep
<1> QED
  BY <1>1, <1>2, <1>3, <1>4 DEF Start

LEMMA ResumeSafe ==
  ASSUME IInv, Types', NEW c \in Calls, Resume(c)
  PROVE  Safe'
<1>1. ASSUME NEW reply \in {"confirmed", "refused", "unknown"},
             StopAnswered(c, reply) \/ RecoverStopped(c, reply) \/ MotionFailed(c, reply)
      PROVE  Safe'
  <2>1. CASE StopAnswered(c, reply)
    BY <2>1, RefusedCalmly, CalmStep
  <2>2. CASE RecoverStopped(c, reply) \/ MotionFailed(c, reply)
    BY <2>2, MotionGoes, MotionEnd
  <2> QED
    BY <1>1, <2>1, <2>2
<1>2. CASE MotionConfirmed(c) \/ Rescued(c)
  <2>1. pc'[c] \notin Locked
    BY <1>2, AnswerMoves DEF MotionConfirmed, Rescued, Settle, IInv, Types
  <2> QED
    BY <1>2, <2>1, MotionEnd
<1>3. ASSUME NEW ok \in BOOLEAN, Looked(c, ok) \/ Observed(c, ok)
      PROVE  Safe'
  BY <1>3, ToolGoes, GoesStep, QuietEnd
<1>4. CASE \/ \E reply \in {"confirmed", "rejected", "failed"} : Posted(c, reply)
           \/ \E report \in {"clean", "fault", "failed"} :
                StateRead(c, report) \/ InspectRead(c, report) \/ FinishRead(c, report)
  BY <1>4, QuietEnd
<1> QED
  BY <1>1, <1>2, <1>3, <1>4 DEF Resume

LEMMA SafeStep == IInv /\ Types' /\ [Next]_vars => Safe'
<1> SUFFICES ASSUME IInv, Types', [Next]_vars PROVE Safe'
  OBVIOUS
<1>1. ASSUME NEW c \in Calls, Call(c) \/ CallStop(c) \/ Deliver(c)
      PROVE  Safe'
  BY <1>1, DeliveredCalmly, CalmStep, StopsInterrupt, StoppedStep DEF Deliver
<1>2. ASSUME NEW c \in Calls, Start(c) \/ Resume(c) \/ Cancel(c)
      PROVE  Safe'
  BY <1>2, StartSafe, ResumeSafe, CancelStep
<1>3. CASE Disconnect \/ Abort
  BY <1>3, LossInterrupts, StoppedStep
<1>4. CASE Consume \/ LastStopped \/ Return \/ Halted \/ Close \/ Mosaic \/ UNCHANGED vars
  BY <1>4, ApplicationApart, ApartStep
<1> QED
  BY <1>1, <1>2, <1>3, <1>4 DEF Next, Application

LEMMA Invariant == Spec => []IInv
<1>1. Init => IInv
  BY TypesInit, SafeInit DEF IInv
<1>2. IInv /\ [Next]_vars => IInv'
  BY TypesStep, SafeStep DEF IInv
<1> QED
  BY <1>1, <1>2, PTL DEF Spec

\* An object that a pick may have left in a gripper is never forgotten, whatever was
\* interrupted, cancelled, refused or lost since: its plan is held, or its pick is under
\* way, or recovery is owed (ros2_embodiment.py:77-84, 119-123, manipulation.py:125-134).
THEOREM HeldAccounted == Spec => []HeldIsAccounted
<1>1. IInv => HeldIsAccounted
  BY DEF IInv, Safe
<1> QED
  BY <1>1, Invariant, PTL

\* An interrupted motion leaves recovery owed and nothing planned for as long as its
\* request is unanswered (ros2_embodiment.py:77-84).
THEOREM InterruptionOwes == Spec => []InterruptionOwesRecovery
<1>1. IInv => InterruptionOwesRecovery
  <2> SUFFICES ASSUME IInv, NEW c \in Calls, pc[c] \in MotionPcs, c \notin current
               PROVE  needsRecovery /\ ~PlanIn(PlanStates \ {"absent"})
    BY DEF InterruptionOwesRecovery, MotionPcs
  <2>1. pc[c] \in Locked
    BY DEF MotionPcs, Locked
  <2>2. needsRecovery /\ \A p \in Plans : plan[p] = Absent
    BY <2>1 DEF IInv, Safe, GenerationInv
  <2> QED
    BY <2>2 DEF PlanIn, Absent
<1> QED
  BY <1>1, Invariant, PTL

\* A motion whose request ended without a definite answer was followed by a stop
\* (ros2_embodiment.py:100-108, run_ros2.py:88-97).
THEOREM UncertainStopped == Spec => []UncertainIsStopped
<1>1. IInv => UncertainIsStopped
  BY DEF IInv, Safe, StopInv, UncertainIsStopped
<1> QED
  BY <1>1, Invariant, PTL

-----------------------------------------------------------------------------
(* Steps *)

Authority(c) ==
  /\ c \in current /\ ~sessionLost /\ taskResult = "none"
  /\ call[c].op = "recover" \/ ~needsRecovery
  /\ \A d \in Calls \ {c} : pc[d] \notin {"motion", "rescue", "recoverStop"}

LEMMA StartAuthority ==
  ASSUME IInv, NEW c \in Calls, Start(c), pc'[c] = "motion"
  PROVE  Authority(c) /\ Moves(c)
<1> USE DEF IInv, Types
<1>1. ~Refuse(c) /\ \A ok : ~Answer(c, ok)
  BY RefuseMoves, AnswerMoves DEF Locked
<1>2. ~Read(c) /\ \A where \in Locked \ {"motion"} : pc' # [pc EXCEPT ![c] = where]
  BY DEF Read, CallType, Locked
<1>3. "looking" \in Locked \ {"motion"} /\ "observing" \in Locked \ {"motion"}
      /\ "posting" \in Locked \ {"motion"} /\ "recoverStop" \in Locked \ {"motion"}
  BY DEF Locked
<1>4. ~TurnedAway(c) /\ ~GiveUp(c) /\ ~Recover(c) /\ ~Detect(c) /\ ~Refine(c) /\ ~Verify(c)
      /\ ~State(c) /\ ~Inspect(c) /\ ~Finish(c)
  BY <1>1, <1>2, <1>3 DEF TurnedAway, GiveUp, Recover, Detect, Refine, Verify, State, Inspect, Finish, Suspend
<1>5. LockFree /\ Welcome(c) /\ ~needsRecovery /\ Send(c)
  BY <1>1, <1>4 DEF Start, Manual, Reset, Execute, Admit, Enter
<1>6. Moves(c)
  BY <1>5, SendMoves
<1> QED
  BY <1>5, <1>6 DEF Authority, Welcome, LockFree, Locked

LEMMA ResumeAuthority ==
  ASSUME IInv, NEW c \in Calls, Resume(c), pc[c] # "motion", pc'[c] = "motion"
  PROVE  Authority(c) /\ Moves(c)
<1> USE DEF IInv, Types
<1>1. ~Refuse(c) /\ ~Rescue(c) /\ \A ok, P, E : ~Settle(c, ok, P, E)
  BY RefuseMoves, AnswerMoves, RescueMoves DEF Settle, Locked
<1>2. ~Read(c) /\ ~Suspend(c, "posting")
  BY DEF Read, Suspend, CallType
<1>3. ASSUME NEW reply \in {"confirmed", "refused", "unknown"}, RecoverStopped(c, reply)
      PROVE  Authority(c) /\ Moves(c)
  <2>1. pc[c] = "recoverStop" /\ c \in valid /\ Send(c)
    BY <1>1, <1>3 DEF RecoverStopped, Checkpoint
  <2>2. call[c].op = "recover" /\ taskResult = "none" /\ \A d \in Calls \ {c} : pc[d] \notin Locked
    BY <2>1 DEF Safe, LockInv, LockFree, Locked
  <2>3. c \in current /\ ~sessionLost
    BY <2>1 DEF Safe, GenerationInv, Locked
  <2> QED
    BY <2>1, <2>2, <2>3, SendMoves DEF Authority, Locked
<1>4. ASSUME NEW reply \in {"confirmed", "refused", "unknown"}, StopAnswered(c, reply) \/ MotionFailed(c, reply)
      PROVE  FALSE
  BY <1>1, <1>4 DEF StopAnswered, MotionFailed
<1>5. ~MotionConfirmed(c) /\ ~Rescued(c)
  BY <1>1 DEF MotionConfirmed, Rescued
<1>6. ASSUME NEW ok \in BOOLEAN, Looked(c, ok) \/ Observed(c, ok)
      PROVE  FALSE
  BY <1>1, <1>2, <1>6 DEF Looked, Observed
<1>7. ASSUME NEW reply \in {"confirmed", "rejected", "failed"}, Posted(c, reply)
      PROVE  FALSE
  BY <1>1, <1>7 DEF Posted
<1>8. ASSUME NEW report \in {"clean", "fault", "failed"},
             StateRead(c, report) \/ InspectRead(c, report) \/ FinishRead(c, report)
      PROVE  FALSE
  BY <1>1, <1>8 DEF StateRead, InspectRead, FinishRead
<1> QED
  BY <1>3, <1>4, <1>5, <1>6, <1>7, <1>8 DEF Resume

LEMMA StartMoves ==
  ASSUME CallType, NEW c \in Calls, Start(c)
  PROVE  Moves(c)
<1>1. ASSUME NEW where, pc' = [pc EXCEPT ![c] = where], call' = call
      PROVE  Moves(c)
  BY <1>1 DEF Moves, CallType
<1>2. CASE Refuse(c) \/ \E ok : Answer(c, ok)
  BY <1>2, RefuseMoves, AnswerMoves
<1>3. CASE Send(c) \/ Read(c) \/ Suspend(c, "looking")
  BY <1>1, <1>3 DEF Send, Read, Suspend
<1>4. CASE /\ call' = call
           /\ \E where \in {"recoverStop", "posting", "observing"} : pc' = [pc EXCEPT ![c] = where]
  BY <1>1, <1>4
<1> QED
  BY <1>2, <1>3, <1>4
  DEF Start, TurnedAway, Manual, Reset, Recover, Execute, Detect, Refine, Verify, State, Inspect,
      Finish, GiveUp

LEMMA ResumeMoves ==
  ASSUME CallType, NEW c \in Calls, Resume(c)
  PROVE  Moves(c)
<1>1. ASSUME NEW where, pc' = [pc EXCEPT ![c] = where], call' = call
      PROVE  Moves(c)
  BY <1>1 DEF Moves, CallType
<1>2. CASE Refuse(c) \/ \E ok, P, E : Settle(c, ok, P, E)
  BY <1>2, RefuseMoves, AnswerMoves DEF Settle
<1>3. CASE Send(c) \/ Read(c) \/ Rescue(c) \/ Suspend(c, "posting")
  BY <1>1, <1>3 DEF Send, Read, Rescue, Suspend
<1> QED
  BY <1>2, <1>3
  DEF Resume, StopAnswered, RecoverStopped, MotionFailed, MotionConfirmed, Rescued, Looked, Observed,
      Posted, StateRead, InspectRead, FinishRead

\* A motion request is sent by a call made after the last stop, in a session neither lost
\* nor finished, beside no other motion and its rescue, and unless it is the recovery,
\* while none is owed (ros2_embodiment.py:92-94, 173-181).
THEOREM MotionAuthorized == Spec => MotionHasAuthority
<1>1. ASSUME IInv, [Next]_vars, NEW c \in Calls, pc[c] # "motion", pc'[c] = "motion"
      PROVE  Authority(c)
  <2> USE <1>1 DEF IInv, Types
  <2>1. ASSUME NEW d \in Calls, Start(d) \/ Resume(d)
        PROVE  Authority(c)
    <3>1. CASE d = c
      BY <2>1, <3>1, StartAuthority, ResumeAuthority
    <3>2. CASE d # c
      BY <2>1, <3>2, StartMoves, ResumeMoves DEF Moves
    <3> QED
      BY <3>1, <3>2
  <2>2. ASSUME NEW d \in Calls, Call(d) \/ CallStop(d) \/ Deliver(d) \/ Cancel(d)
        PROVE  FALSE
    <3>1. \E where \in {"queued", "halt", "reply", "idle", "showing"} : pc' = [pc EXCEPT ![d] = where]
      BY <2>2 DEF Call, CallStop, Deliver, Cancel, FrameDone, FrameLost, Show, ShowDone, ShowFailed,
                  Reply, ReplyLost, Leave
    <3> QED
      BY <3>1 DEF CallType
  <2>3. CASE Disconnect \/ Application \/ Mosaic \/ UNCHANGED vars
    <3>1. pc' = pc
      BY <2>3 DEF Disconnect, Application, Consume, LastStopped, Return, Abort, Halted, Close, AppStep,
                  AppOnly, Mosaic, vars
    <3> QED
      BY <3>1
  <2> QED
    BY <2>1, <2>2, <2>3 DEF Next
<1>2. IInv /\ [Next]_vars =>
        [\A c \in Calls :
           pc[c] # "motion" /\ pc'[c] = "motion" =>
             /\ c \in current /\ ~sessionLost /\ taskResult = "none"
             /\ call[c].op = "recover" \/ ~needsRecovery
             /\ \A d \in Calls \ {c} : pc[d] \notin {"motion", "rescue", "recoverStop"}]_vars
  BY <1>1 DEF Authority
<1> QED
  BY <1>2, Invariant, PTL DEF Spec, MotionHasAuthority

\* When success is recorded no gripper may hold an object, no motion is uncertain and the
\* model was sent a state and a frame that began after the last motion request
\* (ros2_embodiment.py:131-155, live_session.py:97-117).
THEOREM SuccessSound == Spec => SuccessIsSound
<1>1. ASSUME IInv, [Next]_vars, taskResult # "success", taskResult' = "success"
      PROVE  loaded = {} /\ ~adrift /\ viewed
  <2>1. \A c \in Calls : ~Call(c) /\ ~CallStop(c) /\ ~Deliver(c) /\ ~Cancel(c)
    BY <1>1 DEF Call, CallStop, Deliver, Cancel, FrameDone, FrameLost, Show, ShowDone, ShowFailed,
                Reply, ReplyLost, Undisturbed, taskVars
  <2>2. \A c \in Calls : ~Start(c)
    BY <1>1 DEF Start, TurnedAway, Manual, Reset, Recover, Execute, Detect, Refine, Verify, State,
                Inspect, Finish, GiveUp, taskVars
  <2>3. ~Disconnect /\ ~Application /\ ~Mosaic /\ taskResult' # taskResult
    BY <1>1 DEF Disconnect, Application, Consume, LastStopped, Return, Abort, Halted, Close, AppStep,
                AppOnly, Undisturbed, Mosaic, taskVars
  <2>4. PICK c \in Calls : Resume(c)
    BY <1>1, <2>1, <2>2, <2>3 DEF Next, vars
  <2>5. PICK report \in {"clean", "fault", "failed"} : FinishRead(c, report)
    BY <1>1, <2>4 DEF Resume, StopAnswered, RecoverStopped, MotionFailed, MotionConfirmed, Rescued,
                      Looked, Observed, Posted, StateRead, InspectRead, taskVars
  <2>6. pc[c] = "reading" /\ call[c].op = "finish" /\ c \in current
    BY <1>1, <2>5 DEF FinishRead, Recorded
  <2> QED
    BY <1>1, <2>6 DEF IInv, Safe, ViewInv
<1>2. IInv /\ [Next]_vars =>
        [taskResult # "success" /\ taskResult' = "success" => loaded = {} /\ ~adrift /\ viewed]_vars
  BY <1>1
<1> QED
  BY <1>2, Invariant, PTL DEF Spec, SuccessIsSound

LEMMA ResumeDiscards ==
  ASSUME IInv, NEW c \in Calls, Resume(c), c \notin current, pc[c] \in Locked
  PROVE  /\ taskResult' = taskResult
         /\ \A p \in Plans : plan'[p] \in {plan[p], Absent}
         /\ \A a \in Arms : evidence'[a] \in {evidence[a], NoEvidence}
         /\ finalObs' = finalObs /\ scene' = scene
<1> USE DEF IInv, Types
<1>1. c \notin valid /\ taskResult = "none" /\ \A p \in Plans : plan[p] = Absent
  BY DEF Safe, LockInv, LockFree, GenerationInv
<1>2. scene' = scene
  BY DEF Resume, StopAnswered, RecoverStopped, MotionFailed, MotionConfirmed, Rescued, Looked, Observed,
         Posted, StateRead, InspectRead, FinishRead
<1>3. taskResult' = taskResult
  BY <1>1 DEF Resume, StopAnswered, RecoverStopped, MotionFailed, MotionConfirmed, Rescued, Looked,
         Observed, Posted, StateRead, InspectRead, FinishRead, Recorded, taskVars
<1>4. finalObs' = finalObs
  <2>1. CASE MotionConfirmed(c)
    BY <1>1, <2>1 DEF MotionConfirmed, Checkpoint, RestType
  <2>2. CASE ~MotionConfirmed(c)
    BY <2>2 DEF Resume, StopAnswered, RecoverStopped, MotionFailed, Rescued, Looked, Observed, Posted,
                StateRead, InspectRead, FinishRead
  <2> QED
    BY <2>1, <2>2
<1>5. \/ UNCHANGED <<plan, evidence>>
      \/ \E ok, P, E : Settle(c, ok, P, E)
      \/ plan' = Spoil(c) /\ UNCHANGED evidence
  BY DEF Resume, StopAnswered, RecoverStopped, MotionFailed, MotionConfirmed, Rescued, Looked, Observed,
         Posted, StateRead, InspectRead, FinishRead, Refuse, Read, Suspend, evidVars
<1>6. ASSUME NEW ok, NEW P, NEW E, Settle(c, ok, P, E)
      PROVE  /\ \A p \in Plans : plan'[p] = Absent
             /\ \A a \in Arms : evidence'[a] = NoEvidence
  BY <1>6 DEF Settle, Invalidate
<1>7. CASE plan' = Spoil(c)
  <2>1. \A p \in Plans : Spoil(c)[p] = plan[p]
    <3>1. CASE call[c].op \in Stages
      BY <1>1, <3>1 DEF Spoil, CallType
    <3>2. CASE call[c].op \notin Stages
      BY <3>2 DEF Spoil
    <3> QED
      BY <3>1, <3>2
  <2> QED
    BY <1>2, <1>3, <1>4, <1>5, <1>6, <1>7, <2>1
<1>8. CASE plan' # Spoil(c)
  BY <1>2, <1>3, <1>4, <1>5, <1>6, <1>8
<1> QED
  BY <1>7, <1>8

\* The late result of an interrupted tool brings no plan, evidence, observation or task
\* result (ros2_embodiment.py:109-115, Manipulation.checkpoint).
THEOREM InterruptedDiscarded == Spec => InterruptedChangesNothing
<1> DEFINE Nothing == /\ taskResult' = taskResult
                      /\ \A p \in Plans : plan'[p] \in {plan[p], Absent}
                      /\ \A a \in Arms : evidence'[a] \in {evidence[a], NoEvidence}
                      /\ finalObs' = finalObs /\ scene' = scene
<1>1. ASSUME IInv, [Next]_vars, NEW c \in Calls \ current, pc[c] \in Locked \cup {"frame"}, pc'[c] # pc[c]
      PROVE  Nothing
  <2> USE <1>1 DEF IInv, Types
  <2>1. \A d \in Calls : ~Start(d) \/ d # c
    BY DEF Start, TurnedAway, Manual, Reset, Recover, Execute, Detect, Refine, Verify, State, Inspect,
           Finish, GiveUp, Admit, Enter, Locked
  <2>2. ASSUME NEW d \in Calls, Start(d) \/ Resume(d)
        PROVE  Nothing
    <3>1. d = c /\ Resume(c)
      BY <2>1, <2>2, StartMoves, ResumeMoves DEF Moves
    <3>2. pc[c] \in Locked
      BY <3>1 DEF Resume, StopAnswered, RecoverStopped, MotionFailed, MotionConfirmed, Rescued, Looked,
                  Observed, Posted, StateRead, InspectRead, FinishRead, Locked
    <3> QED
      BY <3>1, <3>2, ResumeDiscards
  <2>3. ASSUME NEW d \in Calls, Call(d) \/ CallStop(d) \/ Deliver(d) \/ Cancel(d)
        PROVE  Nothing
    <3>1. \E where : pc' = [pc EXCEPT ![d] = where]
      BY <2>3 DEF Call, CallStop, Deliver, Cancel, FrameDone, FrameLost, Show, ShowDone, ShowFailed,
                  Reply, ReplyLost, Leave
    <3>2. d = c
      BY <3>1 DEF CallType
    <3>3. CASE FrameLost(c) \/ Cancel(c)
      BY <3>3 DEF FrameLost, Cancel, Interrupt, Invalidate, Undisturbed, taskVars, evidVars
    <3>4. ASSUME NEW sent \in BOOLEAN, FrameDone(c, sent)
          PROVE  Nothing
      <4>1. ~Fresh(c, sent)
        BY DEF Fresh
      <4> QED
        BY <3>4, <4>1 DEF FrameDone, Undisturbed, evidVars, RestType
    <3>5. ~Call(c) /\ ~CallStop(c) /\ ~Show(c) /\ ~ShowDone(c) /\ ~ShowFailed(c) /\ ~Reply(c) /\ ~ReplyLost(c)
      BY DEF Call, CallStop, Show, ShowDone, ShowFailed, Reply, ReplyLost, Locked
    <3> QED
      BY <2>3, <3>2, <3>3, <3>4, <3>5 DEF Deliver
  <2>4. CASE Disconnect \/ Application \/ Mosaic \/ UNCHANGED vars
    <3>1. pc' = pc
      BY <2>4 DEF Disconnect, Application, Consume, LastStopped, Return, Abort, Halted, Close, AppStep,
                  AppOnly, Mosaic, vars
    <3> QED
      BY <3>1
  <2> QED
    BY <2>2, <2>3, <2>4 DEF Next
<1>2. IInv /\ [Next]_vars =>
        [\A c \in Calls \ current :
           pc[c] \in Locked \cup {"frame"} /\ pc'[c] # pc[c] =>
             /\ taskResult' = taskResult
             /\ \A p \in Plans : plan'[p] \in {plan[p], Absent}
             /\ \A a \in Arms : evidence'[a] \in {evidence[a], NoEvidence}
             /\ finalObs' = finalObs /\ scene' = scene]_vars
  BY <1>1
<1> QED
  BY <1>2, Invariant, PTL DEF Spec, InterruptedChangesNothing

-----------------------------------------------------------------------------
(* Evidence *)

\* EvidenceIsGenuine of a plan table, the evidence and the images shown; the evidence
\* names a plan of the table.
Genuine(P, E, S) ==
  \A a \in Arms :
    /\ E[a].delivered => <<a, E[a].by>> \in S
    /\ E[a] # NoEvidence => /\ E[a].plan \in Plans
                            /\ P[E[a].plan].state = "picked" /\ a \in P[E[a].plan].arms

\* What inspect_grasp asks of its plan before it captures the image.
Inspectable(c) ==
  /\ plan[call[c].plan].state = "picked"
  /\ call[c].arms \subseteq plan[call[c].plan].arms

\* What the holder of the lock may rely on: a motion has no evidence to spoil, a plan
\* under assessment no evidence left, and an inspected plan is still picked.
JudgeOf(c) ==
  /\ pc[c] \in MotionPcs => ~Unjudged
  /\ pc[c] = "looking" => call[c].op # "verify"
  /\ pc[c] = "posting" /\ call[c].op = "verify" /\ c \in current
       => \A a \in Arms : evidence[a].plan # call[c].plan
  /\ pc[c] \in {"observing", "reading"} /\ call[c].op = "inspect" /\ c \in current
       => Inspectable(c)

JudgeInv == Genuine(plan, evidence, shown) /\ \A c \in Calls : JudgeOf(c)

\* Evidence is dropped at most, and what is kept is still known to have been shown.
Fades ==
  /\ \A a \in Arms : evidence'[a] \in {evidence[a], NoEvidence}
  /\ StillShown(evidence') \subseteq shown'
  /\ \A p \in Plans : plan'[p] = plan[p]

\* Nobody takes the lock, and its holder stays as it is, or is interrupted.
HolderKept ==
  \A d \in Calls : pc'[d] \in Locked =>
    /\ pc'[d] = pc[d] /\ call'[d] = call[d]
    /\ d \in current' => d \in current

\* The images of the evidence that is kept remain known.
LEMMA ShownKept ==
  ASSUME NEW P, NEW E, Genuine(P, E, shown)
  PROVE  Genuine(P, E, StillShown(E))
<1>1. ASSUME NEW a \in Arms, E[a].delivered
      PROVE  <<a, E[a].by>> \in StillShown(E)
  <2>1. <<a, E[a].by>> \in shown
    BY <1>1 DEF Genuine
  <2> QED
    BY <1>1, <2>1 DEF StillShown
<1> QED
  BY <1>1 DEF Genuine

LEMMA NothingGenuine ==
  ASSUME NEW P, NEW E, NEW S, \A a \in Arms : E[a] = NoEvidence
  PROVE  Genuine(P, E, S)
<1>1. NoEvidence.delivered = FALSE
  BY DEF NoEvidence
<1>2. \A a \in Arms : ~E[a].delivered
  BY <1>1
<1> QED
  BY <1>2 DEF Genuine

LEMMA FadedGenuine ==
  ASSUME Genuine(plan, evidence, shown), Fades
  PROVE  Genuine(plan', evidence', shown')
<1> SUFFICES ASSUME NEW a \in Arms
             PROVE  /\ evidence'[a].delivered => <<a, evidence'[a].by>> \in shown'
                    /\ evidence'[a] # NoEvidence =>
                         /\ evidence'[a].plan \in Plans
                         /\ plan'[evidence'[a].plan].state = "picked"
                         /\ a \in plan'[evidence'[a].plan].arms
  BY DEF Genuine
<1>1. CASE evidence'[a] = evidence[a]
  <2>1. evidence'[a].delivered => <<a, evidence'[a].by>> \in StillShown(evidence')
    BY <1>1 DEF StillShown, Genuine
  <2>2. evidence'[a] # NoEvidence => evidence[a].plan \in Plans
    BY <1>1 DEF Genuine
  <2> QED
    BY <1>1, <2>1, <2>2 DEF Genuine, Fades
<1>2. CASE evidence'[a] = NoEvidence
  BY <1>2 DEF NoEvidence
<1> QED
  BY <1>1, <1>2 DEF Fades

LEMMA FadedStep ==
  ASSUME Types, JudgeInv, Fades, HolderKept
  PROVE  JudgeInv'
<1>1. ASSUME NEW d \in Calls
      PROVE  JudgeOf(d)'
  <2>1. CASE pc'[d] \notin Locked
    BY <2>1 DEF JudgeOf, Locked, MotionPcs
  <2>2. CASE pc'[d] \in Locked
    <3>1. /\ pc'[d] = pc[d] /\ call'[d] = call[d] /\ JudgeOf(d)
          /\ d \in current' => d \in current
      BY <2>2 DEF HolderKept, JudgeInv
    <3>2. Unjudged' => Unjudged
      BY DEF Unjudged, Fades
    <3>3. call[d].op \in {"verify", "inspect"} => call[d].plan \in Plans
      BY DEF Types, CallType
    <3>4. \A a \in Arms : evidence'[a].plan = evidence[a].plan \/ evidence'[a].plan = NoPlan
      BY DEF Fades, NoEvidence
    <3>5. call[d].op \in {"verify", "inspect"} => call[d].plan # NoPlan
      BY <3>3, ConstantsAssumption
    <3> QED
      BY <3>1, <3>2, <3>3, <3>4, <3>5 DEF JudgeOf, Inspectable, Fades
  <2> QED
    BY <2>1, <2>2
<1> QED
  BY <1>1, FadedGenuine DEF JudgeInv

\* Nothing is retained any more, and whoever goes on under the lock is interrupted or a motion.
LEMMA WipedStep ==
  ASSUME \A a \in Arms : evidence'[a] = NoEvidence,
         \A d \in Calls : pc'[d] \in Locked =>
           \/ d \notin current' /\ pc'[d] # "looking"
           \/ pc'[d] \in MotionPcs
           \/ call'[d].op \notin {"verify", "inspect"}
  PROVE  JudgeInv'
<1>1. Genuine(plan', evidence', shown')
  BY NothingGenuine
<1>2. ASSUME NEW d \in Calls
      PROVE  JudgeOf(d)'
  BY DEF JudgeOf, Unjudged, Locked, MotionPcs
<1> QED
  BY <1>1, <1>2 DEF JudgeInv

LEMMA FreeJudged ==
  ASSUME LockFree', Genuine(plan', evidence', shown')
  PROVE  JudgeInv'
BY DEF LockFree, JudgeInv, JudgeOf, Locked, MotionPcs

\* A call that moves outside the lock.
LEMMA CalmJudged ==
  ASSUME IInv, JudgeInv, NEW c \in Calls, Calm(c),
         \A a \in Arms : evidence'[a] \in {evidence[a], NoEvidence},
         StillShown(evidence') \subseteq shown'
  PROVE  JudgeInv'
<1>1. Fades
  BY DEF Fades, Calm
<1>2. HolderKept
  BY DEF HolderKept, Calm, Moves
<1> QED
  BY <1>1, <1>2, FadedStep DEF IInv

LEMMA StoppedJudged ==
  ASSUME JudgeInv, NEW lost \in BOOLEAN, Stopped(lost)
  PROVE  JudgeInv'
<1>1. current' = {} /\ \A a \in Arms : evidence'[a] = NoEvidence
  BY DEF Stopped, Interrupt, Invalidate
<1>2. \A d \in Calls : pc'[d] \in Locked => pc'[d] = pc[d] /\ call'[d] = call[d]
  BY DEF Stopped
<1>3. \A d \in Calls : pc'[d] = "looking" => call'[d].op # "verify"
  BY <1>2 DEF JudgeInv, JudgeOf, Locked
<1>4. Genuine(plan', evidence', shown')
  BY <1>1, NothingGenuine
<1> QED
  BY <1>1, <1>3, <1>4 DEF JudgeInv, JudgeOf, Unjudged

\* The holder of the lock ends its tool.
LEMMA SettledJudged ==
  ASSUME IInv, JudgeInv, NEW c \in Calls, pc[c] \in Locked, NEW ok, NEW P, NEW E,
         Settle(c, ok, P, E), c \in current => Genuine(P, E, shown)
  PROVE  JudgeInv' /\ LockFree'
<1>1. Moves(c) /\ pc'[c] \notin Locked
  BY SettleKept
<1>2. LockFree'
  BY <1>1 DEF IInv, Safe, LockInv, LockFree, Moves
<1>3. CASE c \in current
  <2>1. plan' = P /\ evidence' = E /\ shown' = StillShown(E)
    BY <1>3 DEF Settle
  <2>2. Genuine(P, E, StillShown(E))
    BY <1>3, ShownKept
  <2> QED
    BY <1>2, <2>1, <2>2, FreeJudged
<1>4. CASE c \notin current
  <2>1. \A a \in Arms : evidence'[a] = NoEvidence
    BY <1>4 DEF Settle, Invalidate
  <2>2. Genuine(plan', evidence', shown')
    BY <2>1, NothingGenuine
  <2> QED
    BY <1>2, <2>2, FreeJudged
<1> QED
  BY <1>3, <1>4

\* A motion tool takes the lock, goes on or ends: there is no evidence afterwards, or it
\* was refused at once.
LEMMA MotionJudged ==
  ASSUME IInv, JudgeInv, NEW c \in Calls,
         Manual(c) \/ Reset(c) \/ Recover(c) \/ \E stage \in Stages : Execute(c, stage)
  PROVE  JudgeInv'
<1> USE DEF IInv, Types
<1>1. LockFree
  BY DEF Manual, Reset, Recover, Execute, Admit, Enter
<1>2. ASSUME Refuse(c),
             \/ Manual(c) /\ Stay /\ UNCHANGED needsRecovery
             \/ Reset(c) /\ Stay
             \/ Recover(c) /\ UNCHANGED <<attempts, halted>>
             \/ \E stage \in Stages : Execute(c, stage) /\ Stay
      PROVE  JudgeInv'
  <2>1. evidence' = evidence /\ shown' = shown
    BY <1>2 DEF Refuse, evidVars
  <2>2. StillShown(evidence') \subseteq shown'
    BY <2>1 DEF StillShown
  <2> QED
    BY <1>2, <2>1, <2>2, MotionRefusedCalmly, CalmJudged
<1>3. ASSUME \A a \in Arms : evidence'[a] = NoEvidence,
             \/ \E ok : Answer(c, ok)
             \/ Send(c)
             \/ pc' = [pc EXCEPT ![c] = "recoverStop"] /\ call' = call
      PROVE  JudgeInv'
  <2>1. Moves(c) /\ (pc'[c] \in Locked => pc'[c] \in MotionPcs)
    <3>1. CASE \E ok : Answer(c, ok)
      BY <3>1, AnswerMoves
    <3>2. CASE Send(c)
      BY <3>2, SendMoves DEF MotionPcs
    <3>3. CASE pc' = [pc EXCEPT ![c] = "recoverStop"] /\ call' = call
      BY <3>3 DEF Moves, CallType, MotionPcs
    <3> QED
      BY <1>3, <3>1, <3>2, <3>3
  <2>2. \A d \in Calls : pc'[d] \in Locked => pc'[d] \in MotionPcs
    BY <1>1, <2>1 DEF LockFree, Moves
  <2> QED
    BY <1>3, <2>2, WipedStep
<1>4. CASE Manual(c)
  BY <1>2, <1>3, <1>4 DEF Manual, Invalidate
<1>5. CASE Reset(c)
  BY <1>2, <1>3, <1>5 DEF Reset, Invalidate
<1>6. CASE Recover(c)
  BY <1>2, <1>3, <1>6 DEF Recover, Invalidate
<1>7. ASSUME NEW stage \in Stages, Execute(c, stage)
      PROVE  JudgeInv'
  BY <1>2, <1>3, <1>7 DEF Execute
<1> QED
  BY <1>4, <1>5, <1>6, <1>7

LEMMA MotionEndJudged ==
  ASSUME IInv, JudgeInv, NEW c \in Calls,
         \/ MotionConfirmed(c) \/ Rescued(c)
         \/ \E reply \in {"confirmed", "refused", "unknown"} :
              RecoverStopped(c, reply) \/ MotionFailed(c, reply)
  PROVE  JudgeInv'
<1> USE DEF IInv, Types
<1>1. pc[c] \in Locked /\ pc[c] \in MotionPcs
  BY DEF MotionConfirmed, MotionFailed, Rescued, RecoverStopped, Locked, MotionPcs
<1>2. \A a \in Arms : evidence[a] = NoEvidence
  BY <1>1 DEF JudgeInv, JudgeOf, Unjudged
<1>3. \A d \in Calls \ {c} : pc[d] \notin Locked
  BY <1>1 DEF Safe, LockInv
<1>4. ASSUME NEW ok, NEW P, Settle(c, ok, P, evidence)
      PROVE  JudgeInv'
  <2>1. Genuine(P, evidence, shown)
    BY <1>2, NothingGenuine
  <2> QED
    BY <1>1, <1>4, <2>1, SettledJudged
<1>5. ASSUME Send(c) \/ Rescue(c), evidence' = evidence
      PROVE  JudgeInv'
  <2>1. Moves(c) /\ pc'[c] \in MotionPcs
    BY <1>5, SendMoves, RescueMoves DEF MotionPcs
  <2>2. \A d \in Calls : pc'[d] \in Locked => pc'[d] \in MotionPcs
    BY <1>3, <2>1 DEF Moves
  <2> QED
    BY <1>2, <1>5, <2>2, WipedStep
<1> QED
  BY <1>4, <1>5 DEF MotionConfirmed, Rescued, RecoverStopped, MotionFailed, evidVars

\* A tool without motion takes the lock or goes on under it.
LEMMA GoesJudged ==
  ASSUME IInv, JudgeInv, NEW c \in Calls, Goes(c), Fades, JudgeOf(c)'
  PROVE  JudgeInv'
<1>1. \A d \in Calls \ {c} : pc[d] \notin Locked /\ pc'[d] \notin Locked
  BY DEF Goes, Moves, IInv, Safe, LockInv, LockFree
<1>2. \A d \in Calls \ {c} : JudgeOf(d)'
  BY <1>1 DEF JudgeOf, Locked, MotionPcs
<1> QED
  BY <1>2, FadedGenuine DEF JudgeInv

LEMMA ToolGoesJudged ==
  ASSUME IInv, JudgeInv, NEW c \in Calls, pc'[c] \in Locked,
         \/ Detect(c) \/ Refine(c) \/ Verify(c) \/ State(c) \/ Inspect(c) \/ Finish(c)
         \/ \E ok \in BOOLEAN : Looked(c, ok) \/ Observed(c, ok)
  PROVE  JudgeInv'
<1> USE DEF IInv, Types
<1>1. Goes(c)
  BY ToolGoes
<1>2. ~Refuse(c) /\ \A ok, P, E : ~Settle(c, ok, P, E)
  BY RefuseMoves, AnswerMoves DEF Settle
<1>3. UNCHANGED <<plan, call, current>> /\ pc'[c] \notin MotionPcs
  BY <1>1, <1>2 DEF Goes, Detect, Refine, Verify, State, Inspect, Finish, Looked, Observed, Suspend, Read
<1>4. ASSUME UNCHANGED evidVars
      PROVE  Fades
  BY <1>3, <1>4 DEF Fades, evidVars, StillShown
<1>5. CASE Detect(c) \/ Refine(c)
  <2>1. /\ pc' = [pc EXCEPT ![c] = "looking"] /\ UNCHANGED evidVars
        /\ call[c].op # "verify"
    BY <1>2, <1>5 DEF Detect, Refine, Suspend, Admit
  <2>2. JudgeOf(c)'
    BY <1>3, <2>1 DEF JudgeOf, CallType, MotionPcs
  <2> QED
    BY <1>1, <1>4, <2>1, <2>2, GoesJudged
<1>6. CASE State(c) \/ Finish(c)
  <2>1. /\ pc' = [pc EXCEPT ![c] = "reading"] /\ UNCHANGED evidVars
        /\ call[c].op # "inspect"
    BY <1>2, <1>6 DEF State, Finish, Read, Admit
  <2>2. JudgeOf(c)'
    BY <1>3, <2>1 DEF JudgeOf, CallType, MotionPcs
  <2> QED
    BY <1>1, <1>4, <2>1, <2>2, GoesJudged
<1>7. CASE Inspect(c)
  <2>1. pc' = [pc EXCEPT ![c] = "observing"] /\ UNCHANGED evidVars /\ Inspectable(c)
    BY <1>2, <1>7 DEF Inspect, Inspectable
  <2>2. JudgeOf(c)'
    BY <1>3, <2>1 DEF JudgeOf, CallType, MotionPcs, Inspectable
  <2> QED
    BY <1>1, <1>4, <2>1, <2>2, GoesJudged
<1>8. CASE Verify(c)
  <2> DEFINE p == call[c].plan
             rest == [a \in Arms |-> IF a \in plan[p].arms THEN NoEvidence ELSE evidence[a]]
  <2>1. /\ call[c].op = "verify" /\ evidence' = rest /\ shown' = StillShown(rest)
        /\ pc' = [pc EXCEPT ![c] = "posting"]
    BY <1>8 DEF Verify, Admit
  <2>2. Fades
    BY <1>3, <2>1 DEF Fades
  <2>3. p # NoPlan
    BY <2>1, ConstantsAssumption DEF CallType
  <2>4. \A a \in Arms : evidence'[a].plan # p
    <3> TAKE a \in Arms
    <3>1. CASE evidence'[a] = NoEvidence
      BY <2>3, <3>1 DEF NoEvidence
    <3>2. CASE evidence'[a] # NoEvidence
      <4>1. a \notin plan[p].arms /\ evidence'[a] = evidence[a]
        BY <2>1, <3>2
      <4>2. a \in plan[evidence[a].plan].arms
        BY <3>2, <4>1 DEF JudgeInv, Genuine
      <4> QED
        BY <4>1, <4>2
    <3> QED
      BY <3>1, <3>2
  <2>5. JudgeOf(c)'
    BY <1>3, <2>1, <2>4 DEF JudgeOf, CallType, MotionPcs
  <2> QED
    BY <1>1, <2>2, <2>5, GoesJudged
<1>9. ASSUME NEW ok \in BOOLEAN, Looked(c, ok)
      PROVE  JudgeInv'
  <2>1. pc[c] = "looking" /\ pc' = [pc EXCEPT ![c] = "posting"] /\ UNCHANGED evidVars
    BY <1>2, <1>9 DEF Looked, Suspend
  <2>2. call[c].op # "verify"
    BY <2>1 DEF JudgeInv, JudgeOf
  <2>3. JudgeOf(c)'
    BY <1>3, <2>1, <2>2 DEF JudgeOf, CallType, MotionPcs
  <2> QED
    BY <1>1, <1>4, <2>1, <2>3, GoesJudged
<1>10. ASSUME NEW ok \in BOOLEAN, Observed(c, ok)
       PROVE  JudgeInv'
  <2>1. pc[c] = "observing" /\ pc' = [pc EXCEPT ![c] = "reading"] /\ UNCHANGED evidVars
    BY <1>2, <1>10 DEF Observed, Read
  <2>2. call[c].op = "inspect" /\ c \in current => Inspectable(c)
    BY <2>1 DEF JudgeInv, JudgeOf
  <2>3. JudgeOf(c)'
    BY <1>3, <2>1, <2>2 DEF JudgeOf, CallType, MotionPcs, Inspectable
  <2> QED
    BY <1>1, <1>4, <2>1, <2>3, GoesJudged
<1> QED
  BY <1>5, <1>6, <1>7, <1>8, <1>9, <1>10

\* A tool without motion ends: an inspection retains its image, an assessment changes a
\* plan that has no evidence, a detection one that was absent.
LEMMA ToolEndJudged ==
  ASSUME IInv, JudgeInv, NEW c \in Calls,
         \/ \E ok \in BOOLEAN : \/ Looked(c, ok) /\ pc'[c] \notin Locked
                                \/ Observed(c, ok) /\ pc'[c] \notin Locked
         \/ \E reply \in {"confirmed", "rejected", "failed"} : Posted(c, reply)
         \/ \E report \in {"clean", "fault", "failed"} :
              StateRead(c, report) \/ InspectRead(c, report) \/ FinishRead(c, report)
  PROVE  JudgeInv'
<1> USE DEF IInv, Types
<1>1. pc[c] \in Locked
  BY DEF Looked, Observed, Posted, StateRead, InspectRead, FinishRead, Locked
<1>2. ASSUME NEW ok, Settle(c, ok, plan, evidence)
      PROVE  JudgeInv'
  BY <1>1, <1>2, SettledJudged DEF JudgeInv
<1>3. ASSUME NEW ok \in BOOLEAN, Looked(c, ok) \/ Observed(c, ok), pc'[c] \notin Locked
      PROVE  JudgeInv'
  <2>1. ~Suspend(c, "posting") /\ ~Read(c)
    BY <1>3 DEF Suspend, Read, CallType, Locked
  <2> QED
    BY <1>2, <1>3, <2>1 DEF Looked, Observed
<1>4. ASSUME NEW report \in {"clean", "fault", "failed"}, StateRead(c, report) \/ FinishRead(c, report)
      PROVE  JudgeInv'
  BY <1>2, <1>4 DEF StateRead, FinishRead
<1>5. ASSUME NEW report \in {"clean", "fault", "failed"}, InspectRead(c, report)
      PROVE  JudgeInv'
  <2> DEFINE E == [a \in Arms |-> IF a \in call[c].arms
                     THEN [by |-> c, plan |-> call[c].plan, delivered |-> FALSE]
                     ELSE evidence[a]]
  <2>1. CASE Settle(c, TRUE, plan, E)
    <3>1. c \in current => Genuine(plan, E, shown)
      <4> SUFFICES ASSUME c \in current PROVE Genuine(plan, E, shown)
        OBVIOUS
      <4>1. Inspectable(c) /\ call[c].plan \in Plans
        BY <1>5 DEF InspectRead, JudgeInv, JudgeOf, CallType
      <4>2. ASSUME NEW a \in Arms
            PROVE  /\ E[a].delivered => <<a, E[a].by>> \in shown
                   /\ E[a] # NoEvidence => /\ E[a].plan \in Plans
                                           /\ plan[E[a].plan].state = "picked"
                                           /\ a \in plan[E[a].plan].arms
        <5>1. CASE a \in call[c].arms
          BY <4>1, <5>1 DEF Inspectable
        <5>2. CASE a \notin call[c].arms
          BY <5>2 DEF JudgeInv, Genuine
        <5> QED
          BY <5>1, <5>2
      <4> HIDE DEF E
      <4> QED
        BY <4>2 DEF Genuine
    <3> HIDE DEF E
    <3> QED
      BY <1>1, <2>1, <3>1, SettledJudged
  <2> QED
    BY <1>2, <1>5, <2>1 DEF InspectRead
<1>6. ASSUME NEW reply \in {"confirmed", "rejected", "failed"}, Posted(c, reply)
      PROVE  JudgeInv'
  <2>1. ASSUME NEW P, NEW ok, Settle(c, ok, P, evidence),
               c \in current => \A a \in Arms : evidence[a] # NoEvidence =>
                                  P[evidence[a].plan] = plan[evidence[a].plan]
        PROVE  JudgeInv'
    <3>1. c \in current => Genuine(P, evidence, shown)
      BY <2>1 DEF JudgeInv, Genuine
    <3> QED
      BY <1>1, <2>1, <3>1, SettledJudged
  <2>2. ASSUME NEW p \in Plans, plan[p] = Absent,
               Settle(c, TRUE, [plan EXCEPT ![p] = [state |-> "detected", arms |-> call[c].arms]], evidence)
        PROVE  JudgeInv'
    <3>0. plan[p].state # "picked"
      BY <2>2 DEF Absent
    <3>1. \A a \in Arms : evidence[a] # NoEvidence => evidence[a].plan \in Plans /\ evidence[a].plan # p
      BY <3>0 DEF JudgeInv, Genuine
    <3>2. \A q \in Plans : q # p =>
            [plan EXCEPT ![p] = [state |-> "detected", arms |-> call[c].arms]][q] = plan[q]
      BY DEF TabType
    <3> QED
      BY <2>1, <2>2, <3>1, <3>2
  <2>3. CASE call[c].op = "verify" /\ Settle(c, TRUE, [plan EXCEPT ![call[c].plan].state = "verified"], evidence)
    <3>1. c \in current => \A a \in Arms : evidence[a].plan # call[c].plan
      BY <1>6, <2>3 DEF Posted, JudgeInv, JudgeOf
    <3>2. \A a \in Arms : evidence[a] # NoEvidence => evidence[a].plan \in Plans
      BY DEF JudgeInv, Genuine
    <3>3. \A q \in Plans : q # call[c].plan => [plan EXCEPT ![call[c].plan].state = "verified"][q] = plan[q]
      BY DEF TabType
    <3> QED
      BY <2>1, <2>3, <3>1, <3>2, <3>3
  <2> QED
    BY <1>2, <1>6, <2>2, <2>3 DEF Posted
<1> QED
  BY <1>3, <1>4, <1>5, <1>6

\* The image is known to have been shown when its evidence counts as delivered.
LEMMA ShowJudged ==
  ASSUME IInv, JudgeInv, NEW c \in Calls, NEW arm \in Arms, call[c].arms = {arm},
         Show(c) \/ ShowDone(c)
  PROVE  JudgeInv'
<1> USE DEF IInv, Types
<1>1. Calm(c) /\ pc[c] \notin Locked
  BY DeliveredCalmly DEF Calm
<1>2. CASE evidence' = Dropped(c) /\ shown' = StillShown(Dropped(c))
  <2>1. \A a \in Arms : evidence'[a] \in {evidence[a], NoEvidence}
    BY <1>2 DEF Dropped
  <2> QED
    BY <1>1, <1>2, <2>1, CalmJudged
<1>3. CASE UNCHANGED evidVars
  <2>1. (\A a \in Arms : evidence'[a] \in {evidence[a], NoEvidence}) /\ StillShown(evidence') \subseteq shown'
    BY <1>3 DEF evidVars, StillShown
  <2> QED
    BY <1>1, <2>1, CalmJudged
<1>4. CASE /\ Holds(c)
           /\ evidence' = [a \in Arms |-> IF a \in call[c].arms
                             THEN [evidence[a] EXCEPT !.delivered = TRUE] ELSE evidence[a]]
           /\ shown' = shown \cup {<<a, c>> : a \in call[c].arms}
  <2>1. evidence[arm].by = c /\ evidence[arm] # NoEvidence
    BY <1>4, ConstantsAssumption DEF Holds, NoEvidence
  <2>2. \A a \in Arms : /\ evidence'[a].by = evidence[a].by /\ evidence'[a].plan = evidence[a].plan
                        /\ a # arm => evidence'[a] = evidence[a]
    BY <1>4 DEF TabType
  <2>3. \A p \in Plans : plan'[p] = plan[p]
    BY <1>1 DEF Calm
  <2>4. Genuine(plan', evidence', shown')
    <3> SUFFICES ASSUME NEW a \in Arms
                 PROVE  /\ evidence'[a].delivered => <<a, evidence'[a].by>> \in shown'
                        /\ evidence'[a] # NoEvidence =>
                             /\ evidence'[a].plan \in Plans
                             /\ plan'[evidence'[a].plan].state = "picked"
                             /\ a \in plan'[evidence'[a].plan].arms
      BY DEF Genuine
    <3>1. CASE a = arm
      <4>1. <<a, evidence'[a].by>> \in shown'
        <5>1. <<arm, c>> \in {<<x, c>> : x \in {arm}}
          OBVIOUS
        <5>2. <<arm, c>> \in shown'
          BY <1>4, <5>1
        <5> QED
          BY <2>1, <2>2, <3>1, <5>2
      <4>2. /\ evidence[a].plan \in Plans /\ plan[evidence[a].plan].state = "picked"
            /\ a \in plan[evidence[a].plan].arms
        BY <2>1, <3>1 DEF JudgeInv, Genuine
      <4> QED
        BY <2>2, <2>3, <4>1, <4>2
    <3>2. CASE a # arm
      BY <1>4, <2>2, <2>3, <3>2 DEF JudgeInv, Genuine
    <3> QED
      BY <3>1, <3>2
  <2>5. ASSUME NEW d \in Calls
        PROVE  JudgeOf(d)'
    <3>1. CASE pc'[d] \notin Locked
      BY <3>1 DEF JudgeOf, Locked, MotionPcs
    <3>2. CASE pc'[d] \in Locked
      <4>1. /\ pc'[d] = pc[d] /\ call'[d] = call[d] /\ JudgeOf(d)
            /\ d \in current' => d \in current
        BY <1>1, <3>2 DEF Calm, Moves, JudgeInv
      <4>2. Unjudged
        BY <2>1 DEF Unjudged
      <4>3. call[d].op = "inspect" => call[d].plan \in Plans
        BY DEF CallType
      <4> QED
        BY <2>2, <2>3, <4>1, <4>2, <4>3 DEF JudgeOf, Inspectable
    <3> QED
      BY <3>1, <3>2
  <2> QED
    BY <2>4, <2>5 DEF JudgeInv
<1> QED
  BY <1>2, <1>3, <1>4 DEF Show, ShowDone

-----------------------------------------------------------------------------
(* The image and its answer *)

\* An inspection is of one arm; from the moment its image is written until it is
\* answered it keeps the stream, and its image stays the last frame.
StreamOf(c) ==
  /\ call[c].op = "inspect" => \E a \in Arms : call[c].arms = {a}
  /\ pc[c] \in {"deliver", "showing"} => call[c].op = "inspect"
  /\ pc[c] = "showing" => stream = c
  /\ pc[c] = "frame" /\ call[c].op = "inspect" => ~call[c].ok
  /\ pc[c] = "reply" /\ call[c].op = "inspect" /\ call[c].ok => stream = c /\ lastFrame = c

StreamInv == \A c \in Calls : StreamOf(c)

LEMMA StreamStep ==
  ASSUME StreamInv, NEW c \in Calls, Moves(c), StreamOf(c)',
         \A d \in Calls \ {c} : stream = d => stream' = d /\ lastFrame' = lastFrame
  PROVE  StreamInv'
<1>1. \A d \in Calls \ {c} : StreamOf(d)'
  BY DEF StreamInv, StreamOf, Moves
<1> QED
  BY <1>1 DEF StreamInv

\* A tool answers: only an inspection that leaves evidence succeeds.
LEMMA AnswerStream ==
  ASSUME CallType, StreamInv, NEW c \in Calls, NEW ok \in BOOLEAN, Answer(c, ok),
         UNCHANGED <<stream, lastFrame>>,
         call[c].op = "inspect" /\ ok => \E a \in Arms : evidence'[a] # NoEvidence
  PROVE  StreamInv'
<1>1. Moves(c)
  BY AnswerMoves
<1>2. /\ call'[c].op = call[c].op /\ call'[c].arms = call[c].arms /\ call'[c].ok = ok
  BY DEF Answer, CallType, CallRecords
<1>3. pc'[c] = IF call[c].op \notin Blocking THEN "reply"
               ELSE IF ~(\E a \in Arms : evidence'[a] # NoEvidence) THEN "frame"
               ELSE IF call[c].op = "inspect" /\ ok THEN "deliver" ELSE "reply"
  BY DEF Answer, CallType
<1>4. "inspect" \in Blocking
  BY DEF Blocking
<1>5. StreamOf(c)'
  BY <1>2, <1>3, <1>4 DEF StreamInv, StreamOf
<1> QED
  BY <1>1, <1>5, StreamStep

LEMMA SettleStream ==
  ASSUME CallType, StreamInv, NEW c \in Calls, NEW ok \in BOOLEAN, NEW P, NEW E, Settle(c, ok, P, E),
         UNCHANGED <<stream, lastFrame>>,
         call[c].op = "inspect" /\ ok => \E a \in Arms : E[a] # NoEvidence
  PROVE  StreamInv'
BY AnswerStream DEF Settle

LEMMA LockedStream ==
  ASSUME CallType, StreamInv, NEW c \in Calls, NEW where \in Locked, pc' = [pc EXCEPT ![c] = where],
         call' = call, UNCHANGED <<stream, lastFrame>>
  PROVE  StreamInv'
<1>1. Moves(c) /\ pc'[c] = where /\ call'[c] = call[c]
  BY DEF Moves, CallType
<1>2. StreamOf(c)'
  BY <1>1 DEF StreamInv, StreamOf, Locked
<1> QED
  BY <1>1, <1>2, StreamStep

LEMMA StartStream ==
  ASSUME CallType, StreamInv, NEW c \in Calls, Start(c)
  PROVE  StreamInv'
<1>1. UNCHANGED <<stream, lastFrame>>
  BY DEF Start, TurnedAway, Manual, Reset, Recover, Execute, Detect, Refine, Verify, State, Inspect,
         Finish, GiveUp, Unmoving
<1>2. CASE Refuse(c) \/ Answer(c, FALSE)
  BY <1>1, <1>2, AnswerStream DEF Refuse
<1>3. CASE GiveUp(c)
  BY <1>1, <1>3, AnswerStream DEF GiveUp, Admit
<1>4. CASE /\ call' = call
           /\ \E where \in {"motion", "looking", "reading", "recoverStop", "posting", "observing"} :
                pc' = [pc EXCEPT ![c] = where]
  BY <1>1, <1>4, LockedStream DEF Locked
<1>5. Send(c) \/ Read(c) \/ Suspend(c, "looking") =>
        /\ call' = call
        /\ \E where \in {"motion", "looking", "reading"} : pc' = [pc EXCEPT ![c] = where]
  BY DEF Send, Read, Suspend
<1> QED
  BY <1>2, <1>3, <1>4, <1>5
  DEF Start, TurnedAway, Manual, Reset, Recover, Execute, Detect, Refine, Verify, State, Inspect, Finish

LEMMA ResumeStream ==
  ASSUME IInv, StreamInv, NEW c \in Calls, Resume(c)
  PROVE  StreamInv'
<1> USE DEF IInv, Types
<1>1. UNCHANGED <<stream, lastFrame>>
  BY DEF Resume, StopAnswered, RecoverStopped, MotionFailed, MotionConfirmed, Rescued, Looked, Observed,
         Posted, StateRead, InspectRead, FinishRead, Unmoving
<1>2. CASE Refuse(c) \/ \E P, E : Settle(c, FALSE, P, E)
  BY <1>1, <1>2, AnswerStream, SettleStream DEF Refuse
<1>3. CASE \E ok \in BOOLEAN : \E P, E : Settle(c, ok, P, E) /\ call[c].op # "inspect"
  BY <1>1, <1>3, SettleStream
<1>4. CASE /\ call' = call
           /\ \E where \in {"motion", "rescue", "reading", "posting"} : pc' = [pc EXCEPT ![c] = where]
  BY <1>1, <1>4, LockedStream DEF Locked
<1>5. Send(c) \/ Rescue(c) \/ Read(c) \/ Suspend(c, "posting") =>
        /\ call' = call
        /\ \E where \in {"motion", "rescue", "reading", "posting"} : pc' = [pc EXCEPT ![c] = where]
  BY DEF Send, Rescue, Read, Suspend
<1>6. ASSUME NEW report \in {"clean", "fault", "failed"}, InspectRead(c, report)
      PROVE  StreamInv'
  <2> DEFINE E == [a \in Arms |-> IF a \in call[c].arms
                     THEN [by |-> c, plan |-> call[c].plan, delivered |-> FALSE]
                     ELSE evidence[a]]
  <2>1. CASE Settle(c, TRUE, plan, E)
    <3>1. PICK a \in Arms : call[c].arms = {a}
      BY <1>6 DEF InspectRead, StreamInv, StreamOf
    <3>2. E[a].by = c /\ NoEvidence.by = NoCall
      BY <3>1 DEF NoEvidence
    <3>3. \E x \in Arms : E[x] # NoEvidence
      BY <3>2, ConstantsAssumption
    <3> HIDE DEF E
    <3> QED
      BY <1>1, <2>1, <3>3, SettleStream
  <2> QED
    BY <1>2, <1>6, <2>1 DEF InspectRead
<1>7. CASE MotionConfirmed(c)
  <2>1. call[c].op # "inspect"
    BY <1>7 DEF MotionConfirmed, Safe, LockInv, Locked, MotionPcs, MotionTools, Stages
  <2>2. (Checkpoint(c) \/ call[c].op \in {"manual", "reset"}) \in BOOLEAN
    OBVIOUS
  <2> QED
    BY <1>3, <1>7, <2>1, <2>2 DEF MotionConfirmed
<1>8. ASSUME NEW reply \in {"confirmed", "rejected", "failed"}, Posted(c, reply)
      PROVE  StreamInv'
  BY <1>2, <1>3, <1>8 DEF Posted
<1>9. ASSUME NEW report \in {"clean", "fault", "failed"}, StateRead(c, report) \/ FinishRead(c, report)
      PROVE  StreamInv'
  BY <1>3, <1>9 DEF StateRead, FinishRead
<1>10. CASE Rescued(c) \/ \E ok \in BOOLEAN : Looked(c, ok) \/ Observed(c, ok)
  BY <1>2, <1>4, <1>5, <1>10 DEF Rescued, Looked, Observed
<1>11. CASE \E reply \in {"confirmed", "refused", "unknown"} :
              StopAnswered(c, reply) \/ RecoverStopped(c, reply) \/ MotionFailed(c, reply)
  BY <1>2, <1>4, <1>5, <1>11 DEF StopAnswered, RecoverStopped, MotionFailed
<1> QED
  BY <1>6, <1>7, <1>8, <1>9, <1>10, <1>11 DEF Resume

\* The stream is only taken when it is free, and only given back by its holder.
LEMMA DeliverStream ==
  ASSUME Types, StreamInv, NEW c \in Calls, Deliver(c) \/ Call(c) \/ CallStop(c) \/ Cancel(c)
  PROVE  StreamInv'
<1> USE DEF Types, CallType
<1>1. NoCall \notin Calls
  BY ConstantsAssumption
<1>2. CASE Call(c)
  <2>1. Moves(c) /\ pc'[c] = "queued" /\ UNCHANGED <<stream, lastFrame>>
    BY <1>2 DEF Call, Moves
  <2>2. call'[c].op = "inspect" => \E a \in Arms : call'[c].arms = {a}
    BY <1>2 DEF Call
  <2>3. StreamOf(c)'
    BY <2>1, <2>2 DEF StreamOf
  <2> QED
    BY <2>1, <2>3, StreamStep
<1>3. CASE CallStop(c) \/ FrameLost(c) \/ Reply(c) \/ ReplyLost(c) \/ Cancel(c)
  <2>1. Moves(c) /\ pc'[c] \in {"idle", "halt", "reply"} /\ call'[c] = NoTool
    BY <1>3 DEF CallStop, FrameLost, Reply, ReplyLost, Cancel, Leave, Moves
  <2>2. StreamOf(c)'
    BY <2>1 DEF StreamOf, NoTool
  <2>3. lastFrame' = lastFrame /\ \A d \in Calls \ {c} : stream = d => stream' = d
    BY <1>3 DEF CallStop, FrameLost, Reply, ReplyLost, Cancel, Unlock
  <2> QED
    BY <2>1, <2>2, <2>3, StreamStep
<1>4. ASSUME NEW sent \in BOOLEAN, FrameDone(c, sent)
      PROVE  StreamInv'
  <2>1. Moves(c) /\ pc[c] = "frame" /\ pc'[c] = "reply" /\ call'[c] = call[c] /\ stream' = stream
    BY <1>4 DEF FrameDone, Moves
  <2>2. StreamOf(c)'
    BY <2>1 DEF StreamInv, StreamOf
  <2>3. \A d \in Calls : stream = d => lastFrame' = lastFrame
    BY <1>1, <1>4 DEF FrameDone, StreamFree
  <2> QED
    BY <2>1, <2>2, <2>3, StreamStep
<1>5. CASE Show(c)
  <2>1. /\ Moves(c) /\ StreamFree /\ stream' = c /\ call'[c].op = call[c].op /\ call'[c].arms = call[c].arms
        /\ \/ pc'[c] = "showing"
           \/ pc'[c] = "reply" /\ ~call'[c].ok
    BY <1>5 DEF Show, TakeStream, Moves, CallRecords
  <2>2. call[c].op = "inspect"
    BY <1>5 DEF Show, StreamInv, StreamOf
  <2>3. StreamOf(c)'
    BY <2>1, <2>2 DEF StreamInv, StreamOf
  <2> QED
    BY <1>1, <2>1, <2>3, StreamStep DEF StreamFree
<1>6. CASE ShowDone(c)
  <2>1. /\ Moves(c) /\ pc[c] = "showing" /\ pc'[c] = "reply" /\ stream' = stream /\ lastFrame' = c
        /\ call'[c].op = call[c].op /\ call'[c].arms = call[c].arms
    BY <1>6 DEF ShowDone, Moves, CallRecords
  <2>2. stream = c
    BY <2>1 DEF StreamInv, StreamOf
  <2>3. StreamOf(c)'
    BY <2>1, <2>2 DEF StreamInv, StreamOf
  <2> QED
    BY <2>1, <2>2, <2>3, StreamStep
<1>7. CASE ShowFailed(c)
  <2>1. /\ Moves(c) /\ pc'[c] = "reply" /\ UNCHANGED <<stream, lastFrame>> /\ ~call'[c].ok
        /\ call'[c].op = call[c].op /\ call'[c].arms = call[c].arms
    BY <1>7 DEF ShowFailed, Moves, CallRecords
  <2>2. StreamOf(c)'
    BY <2>1 DEF StreamInv, StreamOf
  <2> QED
    BY <2>1, <2>2, StreamStep
<1> QED
  BY <1>2, <1>3, <1>4, <1>5, <1>6, <1>7 DEF Deliver

LEMMA ApplicationStream ==
  ASSUME StreamInv, Disconnect \/ Application \/ Mosaic \/ UNCHANGED vars
  PROVE  StreamInv'
<1>1. UNCHANGED <<pc, call, stream>>
  BY DEF Disconnect, Application, Consume, LastStopped, Return, Abort, Halted, Close, AppStep, AppOnly,
         Mosaic, vars
<1>2. lastFrame' = lastFrame \/ stream = NoCall
  BY DEF Disconnect, Application, Consume, LastStopped, Return, Abort, Halted, Close, AppStep, AppOnly,
         Mosaic, StreamFree, vars
<1>3. \A d \in Calls : stream = d => lastFrame' = lastFrame
  BY <1>2, ConstantsAssumption
<1> QED
  BY <1>1, <1>3 DEF StreamInv, StreamOf

-----------------------------------------------------------------------------
(* The invariant of inspections *)

LEMMA JudgeStep ==
  ASSUME IInv, Types', StreamInv, JudgeInv, [Next]_vars
  PROVE  JudgeInv'
<1> USE DEF IInv, Types
<1>1. ASSUME UNCHANGED evidVars
      PROVE  (\A a \in Arms : evidence'[a] \in {evidence[a], NoEvidence}) /\ StillShown(evidence') \subseteq shown'
  BY <1>1 DEF evidVars, StillShown
<1>2. ASSUME NEW c \in Calls, Start(c)
      PROVE  JudgeInv'
  <2>1. CASE TurnedAway(c)
    BY <1>1, <2>1, RefusedCalmly, CalmJudged DEF TurnedAway, Refuse
  <2>2. CASE GiveUp(c)
    BY <1>1, <2>2, ToolRefusedCalmly, CalmJudged DEF GiveUp
  <2>3. CASE Detect(c) \/ Refine(c) \/ Verify(c) \/ State(c) \/ Inspect(c) \/ Finish(c)
    <3>1. CASE pc'[c] \in Locked
      BY <2>3, <3>1, ToolGoesJudged
    <3>2. CASE pc'[c] \notin Locked
      <4>1. pc' # [pc EXCEPT ![c] = "looking"] /\ pc' # [pc EXCEPT ![c] = "reading"]
            /\ pc' # [pc EXCEPT ![c] = "observing"] /\ pc' # [pc EXCEPT ![c] = "posting"]
        BY <3>2 DEF CallType, Locked
      <4>2. Refuse(c) /\ (Detect(c) \/ Refine(c) \/ Inspect(c) \/ Finish(c))
        BY <2>3, <4>1 DEF Detect, Refine, Verify, State, Inspect, Finish, Suspend, Read
      <4> QED
        BY <1>1, <4>2, ToolRefusedCalmly, CalmJudged DEF Refuse
    <3> QED
      BY <3>1, <3>2
  <2> QED
    BY <1>2, <2>1, <2>2, <2>3, MotionJudged DEF Start
<1>3. ASSUME NEW c \in Calls, Resume(c)
      PROVE  JudgeInv'
  <2>1. ASSUME NEW reply \in {"confirmed", "refused", "unknown"}, StopAnswered(c, reply)
        PROVE  JudgeInv'
    BY <1>1, <2>1, RefusedCalmly, CalmJudged DEF StopAnswered, Refuse
  <2> QED
    BY <1>3, <2>1, MotionEndJudged, ToolGoesJudged, ToolEndJudged DEF Resume
<1>4. ASSUME NEW c \in Calls, Show(c) \/ ShowDone(c)
      PROVE  JudgeInv'
  <2>1. call[c].op = "inspect"
    BY <1>4 DEF Show, ShowDone, StreamInv, StreamOf
  <2>2. PICK arm \in Arms : call[c].arms = {arm}
    BY <2>1 DEF StreamInv, StreamOf
  <2> QED
    BY <1>4, <2>2, ShowJudged
<1>5. ASSUME NEW c \in Calls, Call(c) \/ Reply(c) \/ \E sent \in BOOLEAN : FrameDone(c, sent)
      PROVE  JudgeInv'
  <2>1. UNCHANGED evidVars
    BY <1>5 DEF Call, Reply, FrameDone
  <2> QED
    BY <1>1, <1>5, <2>1, DeliveredCalmly, CalmJudged
<1>6. ASSUME NEW c \in Calls, CallStop(c) \/ FrameLost(c) \/ ShowFailed(c) \/ ReplyLost(c)
      PROVE  JudgeInv'
  BY <1>6, StopsInterrupt, StoppedJudged
<1>7. ASSUME NEW c \in Calls, Cancel(c)
      PROVE  JudgeInv'
  <2>1. Moves(c) /\ pc'[c] \notin Locked /\ current' \subseteq current
    BY <1>7 DEF Cancel, Leave, Moves, CallType, Locked
  <2>2. CASE pc[c] \in Locked /\ call[c].op \in MotionTools
    <3>1. LockFree'
      BY <2>1, <2>2 DEF Safe, LockInv, LockFree, Moves
    <3>2. \A a \in Arms : evidence'[a] = NoEvidence
      BY <1>7, <2>2 DEF Cancel, Invalidate
    <3> QED
      BY <3>1, <3>2, NothingGenuine, FreeJudged
  <2>3. CASE ~(pc[c] \in Locked /\ call[c].op \in MotionTools)
    <3>1. UNCHANGED evidVars /\ plan' = plan
      BY <1>7, <2>3 DEF Cancel
    <3>2. Fades
      BY <1>1, <3>1 DEF Fades
    <3>3. HolderKept
      BY <2>1 DEF HolderKept, Moves
    <3> QED
      BY <3>2, <3>3, FadedStep
  <2> QED
    BY <2>2, <2>3
<1>8. CASE Disconnect \/ Abort
  BY <1>8, LossInterrupts, StoppedJudged
<1>9. CASE Consume \/ LastStopped \/ Return \/ Halted \/ Close \/ Mosaic \/ UNCHANGED vars
  <2>1. UNCHANGED evidVars
    BY <1>9 DEF Consume, LastStopped, Return, Halted, Close, AppStep, Mosaic, vars, evidVars
  <2>2. UNCHANGED <<pc, call, current, plan>>
    BY <1>9, ApplicationApart DEF Apart
  <2>3. Fades /\ HolderKept
    BY <1>1, <2>1, <2>2 DEF Fades, HolderKept
  <2> QED
    BY <2>3, FadedStep
<1> QED
  BY <1>2, <1>3, <1>4, <1>5, <1>6, <1>7, <1>8, <1>9 DEF Next, Deliver, Application

InspectionInv == IInv /\ JudgeInv /\ StreamInv

LEMMA InspectionInvariant == Spec => []InspectionInv
<1>1. Init => JudgeInv /\ StreamInv
  <2> SUFFICES ASSUME Init PROVE JudgeInv /\ StreamInv
    OBVIOUS
  <2>1. \A c \in Calls : pc[c] = "idle" /\ call[c] = NoTool
    BY DEF Init
  <2>2. LockFree /\ \A c \in Calls : JudgeOf(c)
    BY <2>1 DEF LockFree, Locked, JudgeOf, MotionPcs
  <2>3. Genuine(plan, evidence, shown)
    <3>1. \A a \in Arms : evidence[a] = NoEvidence
      BY DEF Init
    <3> QED
      BY <3>1, NothingGenuine
  <2>4. StreamInv
    <3>0. NoTool.op = "stop"
      BY DEF NoTool
    <3>1. \A c \in Calls : call[c].op = "stop"
      BY <2>1, <3>0
    <3> QED
      BY <2>1, <3>1 DEF StreamInv, StreamOf
  <2> QED
    BY <2>2, <2>3, <2>4 DEF JudgeInv
<1>2. IInv /\ JudgeInv /\ StreamInv /\ [Next]_vars => JudgeInv' /\ StreamInv'
  <2> SUFFICES ASSUME IInv, JudgeInv, StreamInv, [Next]_vars
               PROVE  JudgeInv' /\ StreamInv'
    OBVIOUS
  <2>1. Types'
    BY TypesStep DEF IInv
  <2>2. JudgeInv'
    BY <2>1, JudgeStep
  <2>3. StreamInv'
    BY StartStream, ResumeStream, DeliverStream, ApplicationStream DEF Next, IInv, Types
  <2> QED
    BY <2>2, <2>3
<1> QED
  BY <1>1, <1>2, Invariant, PTL DEF Spec, InspectionInv

\* What verify_grasp may judge are images the model was shown, of a grasp that still
\* counts as picked and of an arm of its plan (manipulation.py:123, 150-185,
\* live_session.py:133-147).
THEOREM EvidenceGenuine == Spec => []EvidenceIsGenuine
<1>1. InspectionInv => EvidenceIsGenuine
  BY DEF InspectionInv, JudgeInv, Genuine, EvidenceIsGenuine
<1> QED
  BY <1>1, InspectionInvariant, PTL

\* The frame the model received last before the answer of a successful inspection is
\* the image of that inspection (manipulation.py:188, live_session.py:125-151).
THEOREM ImageBeforeAnswer == Spec => ImagePrecedesAnswer
<1>1. InspectionInv /\ [Next]_vars =>
        [\A c \in Calls : Reply(c) /\ call[c].op = "inspect" /\ call[c].ok => lastFrame = c]_vars
  BY DEF InspectionInv, StreamInv, StreamOf, Reply
<1> QED
  BY <1>1, InspectionInvariant, PTL DEF Spec, ImagePrecedesAnswer
=============================================================================
