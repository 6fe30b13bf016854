----------------------- MODULE PrimitiveDriverProofs -----------------------
(***************************************************************************)
(* The safety properties of PrimitiveDriver hold for every set of arms, of *)
(* calls and of identifiers, and every length of sequences and history.    *)
(***************************************************************************)
EXTENDS PrimitiveDriver, FiniteSetTheorems, TLAPS

-----------------------------------------------------------------------------
(* Who is in a hook after an admission and after an answer *)

LEMMA EnterSets ==
  ASSUME TypeOK, NEW c \in Calls, pc[c] = "idle",
         NEW op \in Primitives \cup {"stop"}, NEW arms, NEW id, NEW size, NEW index, NEW e,
         Enter(c, op, arms, id, size, index, e)
  PROVE  /\ Pending' = Pending \cup {c} /\ c \notin Pending
         /\ Running' = IF op \in Primitives THEN Running \cup {c} ELSE Running
         /\ Stops' = IF op = "stop" THEN Stops \cup {c} ELSE Stops
         /\ call'[c] = [op |-> op, arms |-> arms, epoch |-> e, id |-> id, size |-> size,
                        index |-> index]
         /\ \A d \in Calls : d # c => call'[d] = call[d]
<1>1. /\ pc' = [pc EXCEPT ![c] = "hook"] /\ pc \in [Calls -> {"idle", "hook"}]
      /\ call' = [call EXCEPT ![c] = [op |-> op, arms |-> arms, epoch |-> e,
                                      id |-> id, size |-> size, index |-> index]]
      /\ call \in [Calls -> CallRecords]
  BY DEF Enter, TypeOK
<1>2. \A d \in Calls : d # c => pc'[d] = pc[d] /\ call'[d] = call[d]
  BY <1>1
<1>3. /\ pc'[c] = "hook" /\ pc[c] # "hook"
      /\ call'[c] = [op |-> op, arms |-> arms, epoch |-> e, id |-> id, size |-> size,
                     index |-> index]
      /\ call'[c].op = op
  BY <1>1
<1>4. Pending' = Pending \cup {c} /\ c \notin Pending
  BY <1>2, <1>3 DEF Pending
<1>5. Running' = IF op \in Primitives THEN Running \cup {c} ELSE Running
  BY <1>2, <1>3, <1>4 DEF Running, Pending
<1>6. Stops' = IF op = "stop" THEN Stops \cup {c} ELSE Stops
  BY <1>2, <1>3, <1>4 DEF Stops, Pending
<1> QED
  BY <1>2, <1>3, <1>4, <1>5, <1>6

LEMMA EnterPrimitive ==
  ASSUME TypeOK, NEW c \in Calls, pc[c] = "idle",
         NEW op \in Primitives, NEW arms, NEW id, NEW size, NEW index, NEW e,
         Enter(c, op, arms, id, size, index, e)
  PROVE  /\ Pending' = Pending \cup {c} /\ Running' = Running \cup {c} /\ Stops' = Stops
         /\ call'[c].arms = arms /\ call'[c].id = id
         /\ call'[c].op = op /\ call'[c].index = index
<1>1. op \in Primitives \cup {"stop"} /\ op # "stop"
  BY DEF Primitives
<1>2. /\ Pending' = Pending \cup {c}
      /\ Running' = IF op \in Primitives THEN Running \cup {c} ELSE Running
      /\ Stops' = IF op = "stop" THEN Stops \cup {c} ELSE Stops
      /\ call'[c] = [op |-> op, arms |-> arms, epoch |-> e, id |-> id, size |-> size,
                     index |-> index]
  BY <1>1, EnterSets
<1> QED
  BY <1>1, <1>2

LEMMA EnterStop ==
  ASSUME TypeOK, NEW c \in Calls, pc[c] = "idle", NEW arms, NEW id, NEW size, NEW index,
         NEW e,
         Enter(c, "stop", arms, id, size, index, e)
  PROVE  /\ Pending' = Pending \cup {c} /\ c \notin Pending
         /\ Running' = Running /\ Stops' = Stops \cup {c}
         /\ call'[c].arms = arms
         /\ \A d \in Calls : d # c => call'[d] = call[d]
<1> DEFINE op == "stop"
<1>1. op \in Primitives \cup {"stop"} /\ op \notin Primitives /\ op = "stop"
  BY DEF Primitives
<1>2. Enter(c, op, arms, id, size, index, e)
  OBVIOUS
<1> HIDE DEF op
<1>3. /\ Pending' = Pending \cup {c} /\ c \notin Pending
      /\ Running' = IF op \in Primitives THEN Running \cup {c} ELSE Running
      /\ Stops' = IF op = "stop" THEN Stops \cup {c} ELSE Stops
      /\ call'[c] = [op |-> op, arms |-> arms, epoch |-> e, id |-> id, size |-> size,
                     index |-> index]
      /\ \A d \in Calls : d # c => call'[d] = call[d]
  BY <1>1, <1>2, EnterSets
<1> QED
  BY <1>1, <1>3

LEMMA AnswerSets ==
  ASSUME TypeOK, NEW c \in Calls, pc[c] = "hook", NEW success \in BOOLEAN, Answer(c, success)
  PROVE  /\ Pending' = Pending \ {c} /\ c \in Pending
         /\ Running' = Running \ {c}
         /\ Stops' = Stops \ {c}
         /\ \A d \in Calls : d # c => call'[d] = call[d]
         /\ reply'[c] = IF success THEN "success" ELSE "failure"
         /\ \A d \in Calls : d # c => pc'[d] = pc[d]
<1>1. /\ pc' = [pc EXCEPT ![c] = "idle"] /\ pc \in [Calls -> {"idle", "hook"}]
      /\ call' = [call EXCEPT ![c] = NoCall] /\ call \in [Calls -> CallRecords]
      /\ reply' = [reply EXCEPT ![c] = IF success THEN "success" ELSE "failure"]
      /\ reply \in [Calls -> {"none", "success", "failure"}]
  BY DEF Answer, TypeOK
<1>2. \A d \in Calls : d # c => pc'[d] = pc[d] /\ call'[d] = call[d]
  BY <1>1
<1>3. pc'[c] = "idle" /\ reply'[c] = (IF success THEN "success" ELSE "failure")
  BY <1>1
<1>4. Pending' = Pending \ {c} /\ c \in Pending
  BY <1>2, <1>3 DEF Pending
<1>5. Running' = Running \ {c}
  BY <1>2, <1>4 DEF Running, Pending
<1>6. Stops' = Stops \ {c}
  BY <1>2, <1>4 DEF Stops, Pending
<1> QED
  BY <1>2, <1>3, <1>4, <1>5, <1>6

-----------------------------------------------------------------------------
(* Types *)

LEMMA NoCallType == NoCall \in CallRecords
BY DriverAssumption DEF NoCall, CallRecords, Primitives

LEMMA EnterType ==
  ASSUME TypeOK, NEW c \in Calls, NEW op, NEW arms, NEW id, NEW size, NEW index, NEW e,
         Enter(c, op, arms, id, size, index, e),
         [op |-> op, arms |-> arms, epoch |-> e, id |-> id, size |-> size, index |-> index]
           \in CallRecords
  PROVE  /\ pc' \in [Calls -> {"idle", "hook"}]
         /\ call' \in [Calls -> CallRecords]
         /\ reply' \in [Calls -> {"none", "success", "failure"}]
BY DEF TypeOK, Enter

LEMMA AnswerType ==
  ASSUME TypeOK, NEW c \in Calls, NEW success \in BOOLEAN, Answer(c, success)
  PROVE  /\ pc' \in [Calls -> {"idle", "hook"}]
         /\ call' \in [Calls -> CallRecords]
         /\ reply' \in [Calls -> {"none", "success", "failure"}]
         /\ cancelled' \subseteq Calls /\ interrupted' \subseteq Calls
         /\ activeIds' \subseteq Arms
BY NoCallType DEF TypeOK, Answer

LEMMA RememberType ==
  ASSUME TypeOK, NEW id \in SequenceIds
  PROVE  Remember(id) \in Seq(SequenceIds) /\ Len(Remember(id)) <= SeenMax
<1> DEFINE longer == Append(seen, id)
<1>1. longer \in Seq(SequenceIds) /\ Len(longer) = Len(seen) + 1 /\ Len(seen) <= SeenMax
      /\ Len(seen) \in Nat /\ SeenMax \in Nat
  BY DriverAssumption DEF TypeOK
<1>2. Remember(id) = IF Len(longer) > SeenMax THEN Tail(longer) ELSE longer
  BY DEF Remember
<1> HIDE DEF longer
<1>3. CASE Len(longer) > SeenMax
  <2>1. longer # <<>> /\ Tail(longer) \in Seq(SequenceIds) /\ Len(Tail(longer)) = Len(longer) - 1
    BY <1>1, <1>3
  <2> QED
    BY <1>1, <1>2, <1>3, <2>1
<1>4. CASE ~(Len(longer) > SeenMax)
  BY <1>1, <1>2, <1>4
<1> QED
  BY <1>3, <1>4

LEMMA StopIsCounted ==
  ASSUME TypeOK, StopsCounted, NEW c \in Calls, pc[c] = "hook", call[c].op = "stop"
  PROVE  stopping > 0
<1>1. c \in Stops
  BY DEF Stops, Pending
<1>2. IsFiniteSet(Stops)
  BY DriverAssumption, FS_Subset DEF Stops, Pending
<1>3. Cardinality(Stops) \in Nat /\ Cardinality(Stops) # 0
  BY <1>1, <1>2, FS_CardinalityType, FS_EmptySet
<1> QED
  BY <1>3 DEF StopsCounted

LEMMA TypeStep ==
  ASSUME TypeOK, StopsCounted, [Next]_vars
  PROVE  TypeOK'
<1> USE DriverAssumption
<1>0. CASE UNCHANGED vars
  BY <1>0 DEF TypeOK, vars, ghosts, Reserved
<1>1. ASSUME NEW c \in Calls, NEW id \in SequenceIds, NEW arms \in Selections,
             NEW size \in 1..MaxSteps, Prepare(c, id, arms, size)
      PROVE  TypeOK'
  <2>1. /\ Enter(c, "prepare", arms, id, size, 0, epoch)
        /\ busy' = TRUE /\ activeIds' = arms
        /\ UNCHANGED <<sequence, seen, epoch, stopping, cancelled, ghosts>>
    BY <1>1 DEF Prepare
  <2>2. /\ [op |-> "prepare", arms |-> arms, epoch |-> epoch, id |-> id, size |-> size,
            index |-> 0]
             \in CallRecords
        /\ arms \subseteq Arms
    BY DEF TypeOK, Selections, CallRecords, Primitives, Steps
  <2>3. /\ pc' \in [Calls -> {"idle", "hook"}] /\ call' \in [Calls -> CallRecords]
        /\ reply' \in [Calls -> {"none", "success", "failure"}]
    BY <2>1, <2>2, EnterType
  <2> QED
    BY <2>1, <2>2, <2>3 DEF TypeOK, ghosts, Reserved
<1>2. ASSUME NEW c \in Calls, NEW id \in SequenceIds, NEW index \in Steps,
             Step(c, id, index)
      PROVE  TypeOK'
  <2>1. /\ Enter(c, "step", sequence.arms, id, sequence.size, index, epoch) /\ Reserved
        /\ busy' = TRUE /\ results' = [results EXCEPT ![index] = "started"]
        /\ UNCHANGED <<sequence, seen, epoch, stopping, activeIds, cancelled, interrupted>>
    BY <1>2 DEF Step
  <2>2. sequence \in Reservations
    BY <2>1 DEF TypeOK, Reserved
  <2>3. [op |-> "step", arms |-> sequence.arms, epoch |-> epoch, id |-> id,
         size |-> sequence.size, index |-> index] \in CallRecords
    BY <2>2 DEF TypeOK, CallRecords, Primitives, Reservations
  <2>4. /\ pc' \in [Calls -> {"idle", "hook"}] /\ call' \in [Calls -> CallRecords]
        /\ reply' \in [Calls -> {"none", "success", "failure"}]
    BY <2>1, <2>3, EnterType
  <2> QED
    BY <2>1, <2>4 DEF TypeOK, Reserved, Results
<1>3. ASSUME NEW c \in Calls, NEW requested \in Selections, Stop(c, requested)
      PROVE  TypeOK'
  <2>1. /\ Enter(c, "stop", Widened(requested), NoSequence, 0, 0, epoch + 1)
        /\ epoch < MaxEpoch /\ epoch' = epoch + 1 /\ stopping' = stopping + 1
        /\ cancelled' = cancelled \cup Pending /\ interrupted' = interrupted \cup Pending
        /\ sequence' = NoSequence
        /\ results' = [i \in Steps |-> "withdrawn"]
        /\ UNCHANGED <<seen, busy, activeIds>>
    BY <1>3 DEF Stop
  <2>2. /\ Widened(requested) \in SUBSET Arms /\ epoch + 1 \in 0..MaxEpoch
        /\ [op |-> "stop", arms |-> Widened(requested), epoch |-> epoch + 1,
            id |-> NoSequence, size |-> 0, index |-> 0] \in CallRecords
    BY <2>1 DEF TypeOK, Selections, Widened, CallRecords
  <2>3. /\ pc' \in [Calls -> {"idle", "hook"}] /\ call' \in [Calls -> CallRecords]
        /\ reply' \in [Calls -> {"none", "success", "failure"}]
    BY <2>1, <2>2, EnterType
  <2>4. Pending \subseteq Calls
    BY DEF Pending
  <2>5. sequence' \in Reservations \cup {NoSequence} /\ ~Reserved'
    BY <2>1 DEF Reserved
  <2> QED
    BY <2>1, <2>2, <2>3, <2>4, <2>5 DEF TypeOK, Results
<1>4. ASSUME NEW c \in Calls, NEW outcome \in Outcomes, NEW expired \in BOOLEAN,
             PrepareReturn(c, outcome, expired)
      PROVE  TypeOK'
  <2> DEFINE reserves == outcome = "success" /\ ~Superseded(c)
  <2>1. /\ Answer(c, reserves /\ ~expired) /\ call[c].op = "prepare" /\ busy' = FALSE
        /\ UNCHANGED <<epoch, stopping>>
    BY <1>4 DEF PrepareReturn
  <2>2. call[c] \in CallRecords
    BY DEF TypeOK
  <2>3. /\ pc' \in [Calls -> {"idle", "hook"}] /\ call' \in [Calls -> CallRecords]
        /\ reply' \in [Calls -> {"none", "success", "failure"}]
        /\ cancelled' \subseteq Calls /\ interrupted' \subseteq Calls /\ activeIds' \subseteq Arms
    BY <2>1, AnswerType
  <2>4. CASE UNCHANGED <<sequence, seen, results>>
    BY <2>1, <2>3, <2>4 DEF TypeOK, Reserved
  <2>5. CASE /\ sequence' = [id |-> call[c].id, arms |-> call[c].arms,
                              size |-> call[c].size, index |-> 0]
             /\ seen' = Remember(call[c].id) /\ results' = [i \in Steps |-> "none"]
    <3>1. call[c].id \in SequenceIds /\ call[c].arms \in Selections /\ call[c].size \in 1..MaxSteps
      BY <2>1, <2>2 DEF CallRecords
    <3>2. sequence' \in Reservations /\ sequence'.index < sequence'.size
      BY <2>5, <3>1 DEF Reservations
    <3>3. seen' \in Seq(SequenceIds) /\ Len(seen') <= SeenMax
      BY <2>5, <3>1, RememberType
    <3> QED
      BY <2>1, <2>3, <2>5, <3>2, <3>3 DEF TypeOK, Results
  <2> QED
    BY <1>4, <2>4, <2>5 DEF PrepareReturn
<1>5. ASSUME NEW c \in Calls, NEW outcome \in Outcomes, NEW expired \in BOOLEAN,
             StepReturn(c, outcome, expired)
      PROVE  TypeOK'
  <2> DEFINE success == outcome = "success" /\ ~expired /\ ~Superseded(c)
  <2>1. /\ Answer(c, success) /\ busy' = FALSE
        /\ UNCHANGED <<seen, epoch, stopping>>
        /\ sequence' = IF outcome # "raised" /\ Reserved /\ sequence.id = call[c].id
                       THEN Advanced(outcome) ELSE sequence
        /\ results' = [results EXCEPT ![call[c].index] = IF @ = "started" THEN outcome ELSE @]
    BY <1>5 DEF StepReturn
  <2>2. /\ pc' \in [Calls -> {"idle", "hook"}] /\ call' \in [Calls -> CallRecords]
        /\ reply' \in [Calls -> {"none", "success", "failure"}]
        /\ cancelled' \subseteq Calls /\ interrupted' \subseteq Calls /\ activeIds' \subseteq Arms
    BY <2>1, AnswerType
  <2>3. Reserved => sequence \in Reservations /\ sequence.index < sequence.size
    BY DEF TypeOK, Reserved
  <2>4. results' \in [Steps -> Results]
    BY <2>1 DEF TypeOK, Results
  <2>5. Reserved => \/ Advanced(outcome) = NoSequence
                    \/ /\ Advanced(outcome) \in Reservations
                       /\ Advanced(outcome).index < Advanced(outcome).size
    BY <2>3 DEF Advanced, Reservations
  <2>6. /\ sequence' \in Reservations \cup {NoSequence}
        /\ Reserved' => sequence'.index < sequence'.size
    BY <2>1, <2>3, <2>5 DEF Reserved, TypeOK
  <2> QED
    BY <2>1, <2>2, <2>4, <2>6 DEF TypeOK
<1>6. ASSUME NEW c \in Calls, NEW outcome \in Outcomes, NEW expired \in BOOLEAN,
             StopReturn(c, outcome, expired)
      PROVE  TypeOK'
  <2>1. /\ Answer(c, outcome = "success" /\ ~expired /\ ~Superseded(c))
        /\ stopping' = stopping - 1
        /\ UNCHANGED <<sequence, seen, epoch, busy, results>>
    BY <1>6 DEF StopReturn, StopEnds
  <2>2. /\ pc' \in [Calls -> {"idle", "hook"}] /\ call' \in [Calls -> CallRecords]
        /\ reply' \in [Calls -> {"none", "success", "failure"}]
        /\ cancelled' \subseteq Calls /\ interrupted' \subseteq Calls /\ activeIds' \subseteq Arms
    BY <2>1, AnswerType
  <2>3. stopping' \in Nat
    BY <1>6, <2>1, StopIsCounted DEF TypeOK, StopReturn
  <2> QED
    BY <2>1, <2>2, <2>3 DEF TypeOK, Reserved
<1> QED
  BY <1>0, <1>1, <1>2, <1>3, <1>4, <1>5, <1>6 DEF Next, Request, Return

-----------------------------------------------------------------------------
(* The inductive invariant.  The arms remembered are those of whatever is       *)
(* reserved or running, and a stop leaves nothing reserved behind the call it   *)
(* interrupted: this is what widens a later stop, and keeps the return of an    *)
(* interrupted hook from touching another reservation.                          *)

ReservationOwned ==
  /\ Reserved => activeIds = sequence.arms
  /\ \A p \in Running : activeIds = call[p].arms /\ (Reserved => call[p].id = sequence.id)

InterruptionsSeen ==
  /\ interrupted \subseteq cancelled
  /\ interrupted \subseteq Pending
  /\ \A p \in Running : p \in interrupted => ~Reserved

\* What was performed of the reserved sequence, and that its running step is the next.
OrderKept ==
  Reserved =>
    /\ \A i \in Steps : /\ i < sequence.index => results[i] = "success"
                        /\ i > sequence.index => results[i] = "none"
    /\ results[sequence.index] \in IF Running = {} THEN {"none", "raised"} ELSE {"started"}
    /\ \A p \in Running : call[p].op = "step" /\ call[p].index = sequence.index

DriverInv ==
  /\ TypeOK
  /\ Bookkeeping
  /\ StopCoversMotion
  /\ OrderKept
  /\ ReservationOwned
  /\ InterruptionsSeen

LEMMA InitInv == Init => DriverInv
<1> SUFFICES ASSUME Init PROVE DriverInv
  OBVIOUS
<1> USE DriverAssumption
<1>1. Pending = {} /\ Running = {} /\ Stops = {} /\ ~Reserved
  BY DEF Init, Pending, Running, Stops, Reserved
<1>2. TypeOK
  <2>1. seen \in Seq(SequenceIds) /\ Len(seen) <= SeenMax
    BY DEF Init
  <2>2. call \in [Calls -> CallRecords]
    BY NoCallType DEF Init
  <2>3. /\ pc \in [Calls -> {"idle", "hook"}]
        /\ reply \in [Calls -> {"none", "success", "failure"}]
    BY DEF Init
  <2>4. epoch \in 0..MaxEpoch
    BY SMT DEF Init
  <2>7. busy \in BOOLEAN /\ stopping \in Nat
    BY DEF Init
  <2>5. /\ activeIds \subseteq Arms /\ cancelled \subseteq Calls /\ interrupted \subseteq Calls
        /\ results \in [Steps -> Results]
    BY DEF Init, Results
  <2>6. sequence \in Reservations \cup {NoSequence}
    BY DEF Init
  <2> QED
    BY <1>1, <2>1, <2>2, <2>3, <2>4, <2>5, <2>6, <2>7 DEF TypeOK
<1>3. StopsCounted
  BY <1>1, FS_EmptySet DEF Init, StopsCounted
<1>4. OnePrimitive /\ IdleForgets
  BY <1>1 DEF Init, OnePrimitive, IdleForgets
<1> QED
  BY <1>1, <1>2, <1>3, <1>4
  DEF Init, DriverInv, Bookkeeping, StopCoversMotion, OrderKept, ReservationOwned,
      InterruptionsSeen

-----------------------------------------------------------------------------
(* One lemma per operation *)

LEMMA NoStopWhenFree ==
  ASSUME DriverInv, Free
  PROVE  Stops = {} /\ Running = {} /\ Pending = {}
<1>1. IsFiniteSet(Stops)
  BY DriverAssumption, FS_Subset DEF Stops, Pending
<1>2. Stops = {}
  BY <1>1, FS_EmptySet DEF DriverInv, Bookkeeping, StopsCounted, Free
<1>3. Running = {}
  BY DEF DriverInv, Bookkeeping, OnePrimitive, Free
<1>4. \A c \in Calls : call[c].op \in Primitives \cup {"stop"}
  BY DEF DriverInv, TypeOK, CallRecords
<1> QED
  BY <1>2, <1>3, <1>4 DEF Running, Stops, Pending

LEMMA PrepareStep ==
  ASSUME DriverInv, TypeOK', NEW c \in Calls, NEW id \in SequenceIds, NEW arms \in Selections,
         NEW size \in 1..MaxSteps, Prepare(c, id, arms, size)
  PROVE  DriverInv'
<1>1. /\ Enter(c, "prepare", arms, id, size, 0, epoch) /\ pc[c] = "idle" /\ Free /\ ~Reserved
      /\ busy' = TRUE /\ activeIds' = arms
      /\ UNCHANGED <<sequence, seen, epoch, stopping, cancelled, interrupted, results>>
  BY DEF Prepare, ghosts
<1>2. Stops = {} /\ Running = {} /\ Pending = {}
  BY <1>1, NoStopWhenFree
<1>3. Pending' = {c} /\ Running' = {c} /\ Stops' = {} /\ call'[c].arms = arms /\ ~Reserved'
  <2>1. "prepare" \in Primitives /\ TypeOK
    BY DEF DriverInv, Primitives
  <2>2. Pending' = Pending \cup {c} /\ Running' = Running \cup {c} /\ Stops' = Stops
        /\ call'[c].arms = arms
    BY <1>1, <2>1, EnterPrimitive
  <2> QED
    BY <1>1, <1>2, <2>2 DEF Reserved
<1>4. Bookkeeping'
  BY <1>1, <1>2, <1>3
  DEF DriverInv, Bookkeeping, OnePrimitive, StopsCounted, IdleForgets
<1>5. interrupted = {}
  BY <1>2 DEF DriverInv, InterruptionsSeen
<1> QED
  BY <1>1, <1>3, <1>4, <1>5
  DEF DriverInv, StopCoversMotion, OrderKept, ReservationOwned, InterruptionsSeen

LEMMA StepStep ==
  ASSUME DriverInv, TypeOK', NEW c \in Calls, NEW id \in SequenceIds,
         NEW index \in Steps, Step(c, id, index)
  PROVE  DriverInv'
<1>1. /\ Enter(c, "step", sequence.arms, id, sequence.size, index, epoch)
      /\ pc[c] = "idle" /\ Free /\ Reserved /\ sequence.id = id /\ busy' = TRUE
      /\ sequence.index = index /\ results' = [results EXCEPT ![index] = "started"]
      /\ UNCHANGED <<sequence, seen, epoch, stopping, activeIds, cancelled, interrupted>>
  BY DEF Step
<1>2. Stops = {} /\ Running = {} /\ Pending = {}
  BY <1>1, NoStopWhenFree
<1>3. Pending' = {c} /\ Running' = {c} /\ Stops' = {} /\ Reserved'
      /\ call'[c].arms = sequence.arms /\ call'[c].id = sequence.id
      /\ call'[c].op = "step" /\ call'[c].index = index
  <2>1. "step" \in Primitives /\ TypeOK
    BY DEF DriverInv, Primitives
  <2>2. Pending' = Pending \cup {c} /\ Running' = Running \cup {c} /\ Stops' = Stops
        /\ call'[c].arms = sequence.arms /\ call'[c].id = id
        /\ call'[c].op = "step" /\ call'[c].index = index
    BY <1>1, <2>1, EnterPrimitive
  <2> QED
    BY <1>1, <1>2, <2>2 DEF Reserved
<1>4. Bookkeeping'
  BY <1>1, <1>2, <1>3
  DEF DriverInv, Bookkeeping, OnePrimitive, StopsCounted, IdleForgets
<1>5. interrupted = {}
  BY <1>2 DEF DriverInv, InterruptionsSeen
<1>6. OrderKept'
  <2>1. results \in [Steps -> Results] /\ \A i \in Steps : i \in Nat
    BY DriverAssumption DEF DriverInv, TypeOK, Steps
  <2>2. results'[index] = "started" /\ \A i \in Steps : i # index => results'[i] = results[i]
    BY <1>1, <2>1
  <2> QED
    BY <1>1, <1>3, <2>1, <2>2 DEF DriverInv, OrderKept
<1> QED
  BY <1>1, <1>3, <1>4, <1>5, <1>6
  DEF DriverInv, StopCoversMotion, ReservationOwned, InterruptionsSeen, Reserved

LEMMA StopStep ==
  ASSUME DriverInv, TypeOK', NEW c \in Calls, NEW requested \in Selections, Stop(c, requested)
  PROVE  DriverInv'
<1>1. /\ Enter(c, "stop", Widened(requested), NoSequence, 0, 0, epoch + 1) /\ pc[c] = "idle"
      /\ stopping' = stopping + 1 /\ sequence' = NoSequence
      /\ cancelled' = cancelled \cup Pending /\ interrupted' = interrupted \cup Pending
      /\ UNCHANGED <<seen, busy, activeIds>>
  BY DEF Stop
<1>2. /\ Pending' = Pending \cup {c} /\ c \notin Pending
      /\ Running' = Running /\ Stops' = Stops \cup {c}
      /\ call'[c].arms = Widened(requested)
      /\ \A d \in Calls : d # c => call'[d] = call[d]
      /\ ~Reserved'
  <2>1. TypeOK
    BY DEF DriverInv
  <2> QED
    BY <1>1, <2>1, EnterStop DEF Reserved
<1>3. c \notin Stops /\ c \notin Running /\ Running \subseteq Calls /\ Stops \subseteq Calls
  BY <1>2 DEF Stops, Running, Pending
<1>4. StopsCounted'
  <2>1. IsFiniteSet(Stops)
    BY <1>3, DriverAssumption, FS_Subset
  <2>2. Cardinality(Stops \cup {c}) = Cardinality(Stops) + 1
    BY <1>3, <2>1, FS_AddElement
  <2> QED
    BY <1>1, <1>2, <2>2 DEF DriverInv, Bookkeeping, StopsCounted
<1>5. OnePrimitive' /\ IdleForgets'
  BY <1>1, <1>2 DEF DriverInv, Bookkeeping, OnePrimitive, IdleForgets
<1>6. \A p \in Running : call'[p].arms = call[p].arms /\ activeIds = call[p].arms
  BY <1>2, <1>3 DEF DriverInv, ReservationOwned
<1>7. StopCoversMotion'
  <2> SUFFICES ASSUME NEW s \in Stops', NEW p \in Running',
                      call'[s].arms \cap call'[p].arms # {}
               PROVE  call'[p].arms \subseteq call'[s].arms
    BY DEF StopCoversMotion
  <2>1. p \in Running /\ call'[p].arms = activeIds /\ call'[p] = call[p]
    BY <1>2, <1>3, <1>6
  <2>2. CASE s = c
    BY <1>2, <2>1, <2>2 DEF Widened, IsGroup
  <2>3. CASE s # c
    <3>1. s \in Stops /\ call'[s] = call[s]
      BY <1>2, <1>3, <2>3
    <3> QED
      BY <2>1, <3>1 DEF DriverInv, StopCoversMotion
  <2> QED
    BY <2>2, <2>3
<1>8. ReservationOwned' /\ OrderKept'
  BY <1>1, <1>2, <1>6 DEF ReservationOwned, OrderKept
<1>9. InterruptionsSeen'
  BY <1>1, <1>2 DEF DriverInv, InterruptionsSeen
<1> QED
  BY <1>4, <1>5, <1>7, <1>8, <1>9 DEF DriverInv, Bookkeeping

\* What every return has in common: one call less, and nothing else moved.
LEMMA ReturnFrame ==
  ASSUME DriverInv, NEW c \in Calls, pc[c] = "hook", NEW success \in BOOLEAN, Answer(c, success)
  PROVE  /\ Pending' = Pending \ {c} /\ Running' = Running \ {c} /\ Stops' = Stops \ {c}
         /\ \A d \in Pending' : call'[d] = call[d]
         /\ StopCoversMotion'
         /\ activeIds' = IF KeepArms THEN activeIds ELSE {}
         /\ interrupted' \subseteq cancelled' /\ interrupted' \subseteq Pending'
         /\ interrupted' \subseteq interrupted
         /\ c \in Pending
<1>1. TypeOK
  BY DEF DriverInv
<1>2. /\ Pending' = Pending \ {c} /\ Running' = Running \ {c} /\ Stops' = Stops \ {c}
      /\ c \in Pending /\ \A d \in Calls : d # c => call'[d] = call[d]
  BY <1>1, AnswerSets
<1>3. \A d \in Pending' : call'[d] = call[d]
  BY <1>2 DEF Pending
<1>4. Running' \subseteq Pending' /\ Stops' \subseteq Pending'
  BY DEF Running, Stops
<1>5. StopCoversMotion'
  BY <1>2, <1>3, <1>4 DEF DriverInv, StopCoversMotion
<1>6. /\ activeIds' = IF KeepArms THEN activeIds ELSE {}
      /\ cancelled' = cancelled \ {c} /\ interrupted' = interrupted \ {c}
  BY DEF Answer
<1> QED
  BY <1>2, <1>3, <1>5, <1>6 DEF DriverInv, InterruptionsSeen

\* The finally clause forgets the arms when it leaves the adapter idle and open.
LEMMA IdleAfterReturn ==
  ASSUME TypeOK', OnePrimitive', StopsCounted', ReservationOwned',
         activeIds' = IF KeepArms THEN activeIds ELSE {}
  PROVE  IdleForgets'
<1> SUFFICES ASSUME Pending' = {} PROVE (activeIds # {} <=> Reserved)'
  BY DEF IdleForgets
<1>1. Running' = {} /\ Stops' = {}
  BY DEF Running, Stops
<1>2. busy' = FALSE /\ stopping' = 0
  BY <1>1, FS_EmptySet DEF OnePrimitive, StopsCounted, TypeOK
<1>3. KeepArms <=> Reserved'
  BY <1>2 DEF KeepArms
<1>4. Reserved' => activeIds' # {}
  <2> SUFFICES ASSUME Reserved' PROVE activeIds' # {}
    OBVIOUS
  <2>1. sequence' \in Reservations
    BY DEF TypeOK, Reserved
  <2>2. sequence'.arms \in Selections
    BY <2>1 DEF Reservations
  <2>3. sequence'.arms # {}
    BY <2>2 DEF Selections
  <2> QED
    BY <2>3 DEF ReservationOwned
<1> QED
  BY <1>3, <1>4

LEMMA StopReturnStep ==
  ASSUME DriverInv, TypeOK', NEW c \in Calls, NEW outcome \in Outcomes, NEW expired \in BOOLEAN,
         StopReturn(c, outcome, expired)
  PROVE  DriverInv'
<1> DEFINE success == outcome = "success" /\ ~expired /\ ~Superseded(c)
<1>1. /\ pc[c] = "hook" /\ call[c].op = "stop" /\ Answer(c, success)
      /\ stopping' = stopping - 1
      /\ UNCHANGED <<sequence, seen, epoch, busy, results>>
  BY DEF StopReturn, StopEnds
<1>2. success \in BOOLEAN
  OBVIOUS
<1> HIDE DEF success
<1>3. /\ Pending' = Pending \ {c} /\ Running' = Running \ {c} /\ Stops' = Stops \ {c}
      /\ \A d \in Pending' : call'[d] = call[d]
      /\ StopCoversMotion' /\ activeIds' = IF KeepArms THEN activeIds ELSE {}
      /\ interrupted' \subseteq cancelled' /\ interrupted' \subseteq Pending'
      /\ interrupted' \subseteq interrupted /\ c \in Pending
  BY <1>1, <1>2, ReturnFrame
<1>4. Running' = Running /\ c \in Stops
  BY <1>1, <1>3 DEF Running, Stops, Primitives
<1>5. StopsCounted'
  <2>1. IsFiniteSet(Stops)
    BY DriverAssumption, FS_Subset DEF Stops, Pending
  <2>2. Cardinality(Stops \ {c}) = Cardinality(Stops) - 1
    BY <1>4, <2>1, FS_RemoveElement
  <2> QED
    BY <1>1, <1>3, <2>2 DEF DriverInv, Bookkeeping, StopsCounted
<1>6. OnePrimitive'
  BY <1>1, <1>4 DEF DriverInv, Bookkeeping, OnePrimitive
<1>7. Reserved' <=> Reserved
  BY <1>1 DEF Reserved
<1>8. ReservationOwned'
  <2>1. Running \subseteq Pending'
    BY <1>4 DEF Running
  <2>2. \A p \in Running : call'[p] = call[p]
    BY <1>3, <2>1
  <2>3. Reserved \/ Running # {} => KeepArms
    BY <1>1, <1>7 DEF KeepArms, DriverInv, Bookkeeping, OnePrimitive
  <2> QED
    BY <1>1, <1>3, <1>4, <1>7, <2>2, <2>3 DEF DriverInv, ReservationOwned
<1>9. IdleForgets'
  BY <1>1, <1>3, <1>5, <1>6, <1>7, <1>8, IdleAfterReturn DEF DriverInv
<1>10. OrderKept'
  <2>1. \A p \in Running : call'[p] = call[p]
    BY <1>3, <1>4 DEF Running
  <2> QED
    BY <1>1, <1>4, <1>7, <2>1 DEF DriverInv, OrderKept
<1> QED
  BY <1>1, <1>3, <1>4, <1>5, <1>6, <1>7, <1>8, <1>9, <1>10
  DEF DriverInv, Bookkeeping, InterruptionsSeen, Reserved

\* What the returns of the two primitives have in common.
LEMMA PrimitiveReturn ==
  ASSUME DriverInv, TypeOK', NEW c \in Calls, pc[c] = "hook", call[c].op \in Primitives,
         NEW success \in BOOLEAN, Answer(c, success), busy' = FALSE, stopping' = stopping
  PROVE  /\ Running = {c} /\ Running' = {} /\ Stops' = Stops
         /\ StopsCounted' /\ OnePrimitive' /\ StopCoversMotion'
         /\ activeIds = call[c].arms /\ activeIds' = IF KeepArms THEN activeIds ELSE {}
         /\ interrupted' \subseteq cancelled' /\ interrupted' \subseteq Pending'
         /\ c \in interrupted => ~Reserved
<1>1. /\ Running' = Running \ {c} /\ Stops' = Stops \ {c}
      /\ StopCoversMotion' /\ activeIds' = IF KeepArms THEN activeIds ELSE {}
      /\ interrupted' \subseteq cancelled' /\ interrupted' \subseteq Pending'
  BY ReturnFrame
<1>2. c \in Running /\ c \notin Stops
  BY DEF Running, Stops, Pending, Primitives
<1>3. Running = {c}
  BY <1>2 DEF DriverInv, Bookkeeping, OnePrimitive
<1>4. Running' = {} /\ Stops' = Stops
  BY <1>1, <1>2, <1>3
<1>5. StopsCounted'
  BY <1>4 DEF DriverInv, Bookkeeping, StopsCounted
<1>6. OnePrimitive'
  BY <1>4 DEF OnePrimitive
<1>7. activeIds = call[c].arms /\ (c \in interrupted => ~Reserved)
  BY <1>2 DEF DriverInv, ReservationOwned, InterruptionsSeen
<1> QED
  BY <1>1, <1>3, <1>4, <1>5, <1>6, <1>7

LEMMA PrepareReturnStep ==
  ASSUME DriverInv, TypeOK', NEW c \in Calls, NEW outcome \in Outcomes, NEW expired \in BOOLEAN,
         PrepareReturn(c, outcome, expired)
  PROVE  DriverInv'
<1> DEFINE success == (outcome = "success" /\ ~Superseded(c)) /\ ~expired
<1>1. /\ pc[c] = "hook" /\ call[c].op = "prepare" /\ Answer(c, success)
      /\ busy' = FALSE /\ UNCHANGED <<epoch, stopping>>
  BY DEF PrepareReturn
<1>2. success \in BOOLEAN /\ call[c].op \in Primitives
  BY <1>1 DEF Primitives
<1>3. \/ /\ sequence' = [id |-> call[c].id, arms |-> call[c].arms,
                        size |-> call[c].size, index |-> 0]
         /\ results' = [i \in Steps |-> "none"]
      \/ UNCHANGED <<sequence, results>>
  BY DEF PrepareReturn
<1> HIDE DEF success
<1>4. /\ Running = {c} /\ Running' = {} /\ Stops' = Stops
      /\ StopsCounted' /\ OnePrimitive' /\ StopCoversMotion'
      /\ activeIds = call[c].arms /\ activeIds' = IF KeepArms THEN activeIds ELSE {}
      /\ interrupted' \subseteq cancelled' /\ interrupted' \subseteq Pending'
  BY <1>1, <1>2, PrimitiveReturn
<1>5. ReservationOwned'
  <2>1. Reserved' => activeIds' = activeIds
    BY <1>4 DEF KeepArms
  <2> QED
    BY <1>3, <1>4, <2>1 DEF DriverInv, ReservationOwned, Reserved
<1>6. OrderKept'
  <2>1. CASE UNCHANGED <<sequence, results>>
    BY <1>1, <1>4, <2>1 DEF DriverInv, OrderKept, Reserved
  <2>2. CASE sequence'.index = 0 /\ results' = [i \in Steps |-> "none"]
    BY <1>4, <2>2, DriverAssumption DEF OrderKept, Steps
  <2> QED
    BY <1>3, <2>1, <2>2
<1>7. IdleForgets'
  BY <1>4, <1>5, IdleAfterReturn
<1> QED
  BY <1>4, <1>5, <1>6, <1>7 DEF DriverInv, Bookkeeping, InterruptionsSeen

LEMMA StepReturnStep ==
  ASSUME DriverInv, TypeOK', NEW c \in Calls, NEW outcome \in Outcomes, NEW expired \in BOOLEAN,
         StepReturn(c, outcome, expired)
  PROVE  DriverInv'
<1> DEFINE success == outcome = "success" /\ ~expired /\ ~Superseded(c)
<1>1. /\ pc[c] = "hook" /\ call[c].op = "step" /\ Answer(c, success)
      /\ busy' = FALSE /\ UNCHANGED <<seen, epoch, stopping>>
      /\ sequence' = IF outcome # "raised" /\ Reserved /\ sequence.id = call[c].id
                     THEN Advanced(outcome) ELSE sequence
      /\ results' = [results EXCEPT ![call[c].index] = IF @ = "started" THEN outcome ELSE @]
  BY DEF StepReturn
<1>2. success \in BOOLEAN /\ call[c].op \in Primitives
  BY <1>1 DEF Primitives
<1> HIDE DEF success
<1>3. /\ Running = {c} /\ Running' = {} /\ Stops' = Stops
      /\ StopsCounted' /\ OnePrimitive' /\ StopCoversMotion'
      /\ activeIds = call[c].arms /\ activeIds' = IF KeepArms THEN activeIds ELSE {}
      /\ interrupted' \subseteq cancelled' /\ interrupted' \subseteq Pending'
  BY <1>1, <1>2, PrimitiveReturn
<1>4. Reserved => sequence \in Reservations /\ sequence.index \in Nat
  <2>1. Reserved => sequence \in Reservations
    BY DEF DriverInv, TypeOK, Reserved
  <2>2. \A q \in Reservations : q.index \in Nat
    BY DriverAssumption DEF Reservations
  <2> QED
    BY <2>1, <2>2
<1>5. Reserved' => Reserved /\ sequence'.arms = sequence.arms
  BY <1>1, <1>4 DEF Reserved, Advanced, Reservations
<1>6. ReservationOwned'
  <2>1. Reserved' => activeIds' = activeIds
    BY <1>3 DEF KeepArms
  <2> QED
    BY <1>3, <1>5, <2>1 DEF DriverInv, ReservationOwned
<1>7. OrderKept'
  <2> SUFFICES ASSUME Reserved' PROVE OrderKept'
    BY DEF OrderKept
  <2> DEFINE k == sequence.index
  <2>1. /\ Reserved /\ k \in Nat /\ sequence.id = call[c].id
        /\ call[c].index = k /\ results[k] = "started"
        /\ \A i \in Steps : /\ i < k => results[i] = "success"
                            /\ i > k => results[i] = "none"
    BY <1>3, <1>4, <1>5 DEF DriverInv, OrderKept, ReservationOwned
  <2>2. k \in Steps /\ results \in [Steps -> Results] /\ \A i \in Steps : i \in Nat
    BY <2>1, <1>4, DriverAssumption DEF DriverInv, TypeOK, Steps, Reservations
  <2>3. results' = [results EXCEPT ![k] = outcome]
    BY <1>1, <2>1, <2>2
  <2>4. results'[k] = outcome /\ \A i \in Steps : i # k => results'[i] = results[i]
    BY <2>2, <2>3
  <2>5. CASE outcome = "success"
    <3>1. sequence' = [sequence EXCEPT !.index = @ + 1] /\ sequence.index + 1 # sequence.size
      BY <1>1, <2>1, <2>5 DEF Advanced, Reserved
    <3>2. sequence'.index = k + 1
      BY <3>1, <1>4, <2>1 DEF Reservations
    <3>3. k + 1 \in Steps
      BY <1>4, <2>1, <3>1, DriverAssumption DEF DriverInv, TypeOK, Steps, Reservations
    <3> HIDE DEF k
    <3> QED
      BY <1>3, <2>1, <2>2, <2>4, <2>5, <3>2, <3>3 DEF OrderKept
  <2>6. CASE outcome # "success"
    <3>1. sequence' = sequence /\ outcome = "raised"
      BY <1>1, <2>1, <2>6 DEF Advanced, Reserved, Outcomes
    <3> HIDE DEF k
    <3>2. sequence'.index = k
      BY <3>1 DEF k
    <3> QED
      BY <1>3, <2>1, <2>2, <2>4, <3>1, <3>2 DEF OrderKept
  <2> QED
    BY <2>5, <2>6
<1>8. IdleForgets'
  BY <1>3, <1>6, IdleAfterReturn
<1> QED
  BY <1>3, <1>6, <1>7, <1>8 DEF DriverInv, Bookkeeping, InterruptionsSeen

LEMMA StutterStep == ASSUME DriverInv, UNCHANGED vars PROVE DriverInv'
BY DEF DriverInv, vars, ghosts, TypeOK, Bookkeeping, OnePrimitive, StopsCounted, IdleForgets,
       StopCoversMotion, OrderKept, ReservationOwned, InterruptionsSeen, Running, Stops,
       Pending, Reserved

LEMMA NextInv == ASSUME DriverInv, [Next]_vars PROVE DriverInv'
<1>1. TypeOK'
  BY TypeStep DEF DriverInv, Bookkeeping
<1>2. CASE UNCHANGED vars
  BY <1>2, StutterStep
<1>3. ASSUME NEW c \in Calls, Request(c)
      PROVE  DriverInv'
  BY <1>1, <1>3, PrepareStep, StepStep, StopStep DEF Request
<1>4. ASSUME NEW c \in Calls, Return(c)
      PROVE  DriverInv'
  BY <1>1, <1>4, PrepareReturnStep, StepReturnStep, StopReturnStep DEF Return
<1> QED
  BY <1>2, <1>3, <1>4 DEF Next

LEMMA Invariant == Spec => []DriverInv
BY InitInv, NextInv, PTL DEF Spec

-----------------------------------------------------------------------------
(* Theorems *)

\* Every field of the adapter keeps its type, the history stays bounded and a
\* reserved sequence has a step to come.
THEOREM TypeCorrect == Spec => []TypeOK
<1>1. DriverInv => TypeOK
  BY DEF DriverInv
<1> QED
  BY <1>1, Invariant, PTL

\* The adapter's counters and flags agree with the calls in progress: it is open
\* again whenever nothing is in progress and nothing is reserved.
THEOREM BookkeepingHolds == Spec => []Bookkeeping
<1>1. DriverInv => Bookkeeping
  BY DEF DriverInv
<1> QED
  BY <1>1, Invariant, PTL

\* A stop that touches a moving group covers all of it, however many stops came before.
THEOREM StopCoverage == Spec => []StopCoversMotion
<1>1. DriverInv => StopCoversMotion
  BY DEF DriverInv
<1> QED
  BY <1>1, Invariant, PTL

\* A step starts for a reservation no stop came after, after the success of every step
\* before it, and for the first time unless its hook raised.
THEOREM StepOrder == Spec => StepsInOrder
<1> DEFINE A == \A c \in Calls :
       pc[c] = "idle" /\ pc'[c] = "hook" /\ call'[c].op = "step" =>
         LET i == call'[c].index IN
         /\ \A j \in Steps : j < i => results[j] = "success"
         /\ results[i] \in {"none", "raised"}
         /\ \A j \in Steps : j > i => results[j] = "none"
<1>1. ASSUME DriverInv, [Next]_vars PROVE [A]_vars
  <2> SUFFICES ASSUME NEW c \in Calls, pc[c] = "idle", pc'[c] = "hook",
                      call'[c].op = "step", Next
               PROVE  /\ \A j \in Steps : j < call'[c].index => results[j] = "success"
                      /\ results[call'[c].index] \in {"none", "raised"}
                      /\ \A j \in Steps : j > call'[c].index => results[j] = "none"
    BY <1>1
  <2>0. TypeOK
    BY <1>1 DEF DriverInv
  <2>1. ASSUME NEW d \in Calls, Return(d)
        PROVE  FALSE
    <3>1. ASSUME NEW success \in BOOLEAN, Answer(d, success)
          PROVE  FALSE
      BY <2>0, <3>1 DEF Answer, TypeOK
    <3> QED
      BY <2>1, <3>1 DEF Return, PrepareReturn, StepReturn, StopReturn
  <2>2. ASSUME NEW d \in Calls, pc' = [pc EXCEPT ![d] = "hook"]
        PROVE  c = d
    BY <2>0, <2>2 DEF TypeOK
  <2>3. ASSUME NEW d \in Calls, NEW requested \in Selections, Stop(d, requested)
        PROVE  FALSE
    <3>1. pc' = [pc EXCEPT ![d] = "hook"] /\ call'[d].op = "stop"
      BY <2>0, <2>3 DEF Stop, Enter, TypeOK
    <3> QED
      BY <2>2, <3>1
  <2>4. ASSUME NEW d \in Calls, NEW id \in SequenceIds, NEW arms \in Selections,
               NEW size \in 1..MaxSteps, Prepare(d, id, arms, size)
        PROVE  FALSE
    <3>1. pc' = [pc EXCEPT ![d] = "hook"] /\ call'[d].op = "prepare"
      BY <2>0, <2>4 DEF Prepare, Enter, TypeOK
    <3> QED
      BY <2>2, <3>1
  <2>5. ASSUME NEW d \in Calls, NEW id \in SequenceIds, NEW index \in Steps, Step(d, id, index)
        PROVE  /\ \A j \in Steps : j < call'[c].index => results[j] = "success"
               /\ results[call'[c].index] \in {"none", "raised"}
               /\ \A j \in Steps : j > call'[c].index => results[j] = "none"
    <3>1. /\ pc' = [pc EXCEPT ![d] = "hook"] /\ call'[d].index = index
          /\ Free /\ Reserved /\ sequence.index = index
      BY <2>0, <2>5 DEF Step, Enter, TypeOK
    <3>2. c = d /\ Running = {}
      BY <1>1, <2>2, <3>1, NoStopWhenFree
    <3> QED
      BY <1>1, <3>1, <3>2 DEF DriverInv, OrderKept
  <2> QED
    BY <2>1, <2>3, <2>4, <2>5 DEF Next, Request
<1> QED
  BY <1>1, Invariant, PTL DEF Spec, StepsInOrder

\* No primitive starts moving while another call's hook has not returned.
THEOREM ExclusiveHooks == Spec => HooksAreExclusive
<1> DEFINE A == \A c \in Calls :
       pc[c] = "idle" /\ pc'[c] = "hook" /\ call'[c].op \in Primitives => Pending = {}
<1>1. ASSUME DriverInv, [Next]_vars PROVE [A]_vars
  <2> SUFFICES ASSUME NEW c \in Calls, pc[c] = "idle", pc'[c] = "hook",
                      call'[c].op \in Primitives, Next
               PROVE  Pending = {}
    BY <1>1
  <2>0. TypeOK
    BY <1>1 DEF DriverInv
  <2>1. ASSUME NEW d \in Calls, NEW success \in BOOLEAN, pc[d] = "hook", Answer(d, success)
        PROVE  FALSE
    BY <2>0, <2>1 DEF Answer, TypeOK
  <2>2. ASSUME NEW d \in Calls, Return(d)
        PROVE  FALSE
    BY <2>1, <2>2 DEF Return, PrepareReturn, StepReturn, StopReturn
  <2>3. ASSUME NEW d \in Calls, NEW requested \in Selections, Stop(d, requested)
        PROVE  FALSE
    <3>1. pc' = [pc EXCEPT ![d] = "hook"] /\ call'[d].op = "stop"
      BY <2>0, <2>3 DEF Stop, Enter, TypeOK
    <3>2. c = d
      BY <2>0, <3>1 DEF TypeOK
    <3> QED
      BY <3>1, <3>2 DEF Primitives
  <2>4. ASSUME Free PROVE Pending = {}
    BY <1>1, <2>4, NoStopWhenFree
  <2> QED
    BY <2>2, <2>3, <2>4 DEF Next, Request, Prepare, Step
<1> QED
  BY <1>1, Invariant, PTL DEF Spec, HooksAreExclusive

\* A call a stop interrupted answers failure and leaves the reservation alone.
THEOREM InterruptionHolds == Spec => InterruptedFails
<1> DEFINE A == \A c \in interrupted :
       pc'[c] = "idle" => reply'[c] = "failure" /\ (sequence' = sequence)
<1>1. ASSUME DriverInv, [Next]_vars PROVE [A]_vars
  <2> SUFFICES ASSUME NEW c \in interrupted, pc'[c] = "idle", Next
               PROVE  reply'[c] = "failure" /\ (sequence' = sequence)
    BY <1>1
  <2>0. TypeOK /\ c \in cancelled /\ c \in Calls /\ pc[c] = "hook" /\ Superseded(c)
    BY <1>1 DEF DriverInv, InterruptionsSeen, Superseded, Pending
  <2>1. ASSUME NEW d \in Calls, Request(d)
        PROVE  FALSE
    <3>1. pc' = [pc EXCEPT ![d] = "hook"]
      BY <2>1 DEF Request, Prepare, Step, Stop, Enter
    <3> QED
      BY <2>0, <3>1 DEF TypeOK
  <2>2. ASSUME NEW d \in Calls, Return(d)
        PROVE  d = c
    <3>1. pc' = [pc EXCEPT ![d] = "idle"]
      BY <2>2 DEF Return, PrepareReturn, StepReturn, StopReturn, Answer
    <3> QED
      BY <2>0, <3>1 DEF TypeOK
  <2>3. ASSUME NEW outcome \in Outcomes, NEW expired \in BOOLEAN,
               \/ PrepareReturn(c, outcome, expired)
               \/ StepReturn(c, outcome, expired)
               \/ StopReturn(c, outcome, expired)
        PROVE  reply'[c] = "failure" /\ (sequence' = sequence)
    <3>1. Answer(c, FALSE)
      BY <2>0, <2>3 DEF PrepareReturn, StepReturn, StopReturn
    <3>2. reply'[c] = "failure"
      BY <2>0, <3>1 DEF Answer, TypeOK
    <3>3. CASE PrepareReturn(c, outcome, expired)
      <4>1. UNCHANGED <<sequence, seen, results>>
        BY <2>0, <3>3 DEF PrepareReturn
      <4> QED
        BY <3>2, <4>1
    <3>4. CASE StepReturn(c, outcome, expired)
      <4>1. c \in Running
        BY <2>0, <3>4 DEF StepReturn, Running, Pending, Primitives
      <4>2. ~Reserved
        BY <1>1, <4>1 DEF DriverInv, InterruptionsSeen
      <4>3. sequence' = sequence
        BY <3>4, <4>2 DEF StepReturn
      <4> QED
        BY <3>2, <4>3
    <3>5. CASE StopReturn(c, outcome, expired)
      <4>1. sequence' = sequence
        BY <3>5 DEF StopReturn
      <4> QED
        BY <3>2, <4>1
    <3> QED
      BY <2>3, <3>2, <3>3, <3>4, <3>5
  <2> QED
    BY <2>1, <2>2, <2>3 DEF Next, Return
<1> QED
  BY <1>1, Invariant, PTL DEF Spec, InterruptedFails
=============================================================================
