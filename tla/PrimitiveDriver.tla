--------------------------- MODULE PrimitiveDriver ---------------------------
(***************************************************************************)
(* PrimitiveAdapter.handle (primitive_driver.py): the service through      *)
(* which sequences of primitives reach the hardware hooks.  A call is      *)
(* atomic up to the hook it awaits and again from the hook's return to its *)
(* reply, the node being spun by a single thread; a call refused before    *)
(* its hook changes nothing and is not a step.  Callers are arbitrary: the *)
(* bridge, and anybody who uses the service directly.                      *)
(*                                                                         *)
(* The hooks are the hardware integrator's.  Whatever they do, a hook      *)
(* either reports success or failure or raises, at any time.  A deadline   *)
(* may have expired wherever the code tests it.                            *)
(***************************************************************************)
EXTENDS Naturals, Sequences, FiniteSets

CONSTANTS
  Arms,         \* configured arms
  Calls,        \* service calls that may be in progress at the same time
  SequenceIds,  \* identifiers the callers give to sequences
  NoSequence,   \* no sequence is reserved
  MaxSteps,     \* length of the longest sequence (16 in the code)
  SeenMax,      \* length of the replay history (256 in the code)
  MaxEpoch      \* bound of the model on the number of stops

Selections == (SUBSET Arms) \ {{}}

Reservations == [id: SequenceIds, arms: Selections, size: 1..MaxSteps, index: 0..MaxSteps]

ASSUME DriverAssumption ==
  /\ IsFiniteSet(Calls)
  /\ NoSequence \notin Reservations
  /\ MaxSteps \in Nat \ {0}
  /\ SeenMax \in Nat \ {0}
  /\ MaxEpoch \in Nat

VARIABLES
  sequence,     \* the reserved sequence
  seen,         \* identifiers of the last SeenMax reserved sequences
  epoch,        \* number of stops admitted
  busy,         \* a prepare or a step is in progress
  stopping,     \* number of stops in progress
  activeIds,    \* arms of the reserved or running sequence
  cancelled,    \* contexts whose cancelled event is set
  pc,           \* "idle", or "hook" while the call awaits its hook
  call,         \* what the call captured
  reply,        \* what the last call in this place was answered
  interrupted,  \* calls a stop was admitted during
  results       \* history: what became of each step of the last reservation

ghosts == <<interrupted, results>>
vars == <<sequence, seen, epoch, busy, stopping, activeIds, cancelled, pc, call, reply,
          interrupted, results>>

-----------------------------------------------------------------------------
(* Data *)

Primitives == {"prepare", "step"}

Steps == 0..(MaxSteps - 1)

Outcomes == {"success", "failure", "raised"}

\* A step that is to come, started or ended; "withdrawn" when nothing was reserved
\* yet or a stop was admitted since the reservation.
Results == {"none", "started", "withdrawn"} \cup Outcomes

CallRecords ==
  [op: Primitives, arms: Selections, epoch: 0..MaxEpoch, id: SequenceIds, size: 1..MaxSteps,
   index: Steps]
  \cup [op: {"stop"}, arms: SUBSET Arms, epoch: 0..MaxEpoch, id: {NoSequence}, size: {0},
        index: {0}]

NoCall == [op |-> "stop", arms |-> {}, epoch |-> 0, id |-> NoSequence, size |-> 0, index |-> 0]

Reserved == sequence # NoSequence

Pending == {c \in Calls : pc[c] = "hook"}

IsGroup(S) == \E a, b \in S : a # b

-----------------------------------------------------------------------------
(* Admission *)

\* Mutant: a stop in progress does not keep primitives out.
FreeDuringStop == ~busy

Free == ~busy /\ stopping = 0

\* From admission to the await of the hook.
Enter(c, op, arms, id, size, index, e) ==
  /\ pc' = [pc EXCEPT ![c] = "hook"]
  /\ call' = [call EXCEPT ![c] = [op |-> op, arms |-> arms, epoch |-> e,
                                  id |-> id, size |-> size, index |-> index]]
  /\ reply' = [reply EXCEPT ![c] = "none"]

Prepare(c, id, arms, size) ==
  /\ pc[c] = "idle"
  /\ Free
  /\ \A i \in 1..Len(seen) : seen[i] # id
  /\ ~Reserved
  /\ busy' = TRUE
  /\ activeIds' = arms
  /\ Enter(c, "prepare", arms, id, size, 0, epoch)
  /\ UNCHANGED <<sequence, seen, epoch, stopping, cancelled, ghosts>>

\* move, gripper or recover: the next step of the reserved sequence, nothing else.
Step(c, id, index) ==
  /\ pc[c] = "idle"
  /\ Free
  /\ Reserved
  /\ sequence.id = id
  /\ sequence.index = index
  /\ busy' = TRUE
  /\ Enter(c, "step", sequence.arms, id, sequence.size, index, epoch)
  /\ results' = [results EXCEPT ![index] = "started"]
  /\ UNCHANGED <<sequence, seen, epoch, stopping, activeIds, cancelled, interrupted>>

\* A partial stop that touches the active group is widened to all of it.
Widened(requested) ==
  IF IsGroup(activeIds) /\ requested \cap activeIds # {}
  THEN requested \cup activeIds ELSE requested

\* A stop is never refused.  It cancels everything in progress, whatever its arms.
Stop(c, requested) ==
  /\ pc[c] = "idle"
  /\ epoch < MaxEpoch
  /\ stopping' = stopping + 1
  /\ epoch' = epoch + 1
  /\ cancelled' = cancelled \cup Pending
  /\ interrupted' = interrupted \cup Pending
  /\ sequence' = NoSequence
  /\ Enter(c, "stop", Widened(requested), NoSequence, 0, 0, epoch + 1)
  /\ results' = [i \in Steps |-> "withdrawn"]
  /\ UNCHANGED <<seen, busy, activeIds>>

-----------------------------------------------------------------------------
(* The return of a hook *)

\* Mutant: neither the context nor the epoch is looked at again.
NeverSuperseded(c) == FALSE

\* context.check, apart from the deadline, and the epoch test.
Superseded(c) == c \in cancelled \/ call[c].epoch # epoch

\* Mutant: the adapter forgets the arms as soon as a sequence is gone.
KeepArmsWhileReserved == Reserved'

KeepArms == Reserved' \/ busy' \/ stopping' > 0

\* The finally clause, and the answer.
Answer(c, success) ==
  /\ pc' = [pc EXCEPT ![c] = "idle"]
  /\ call' = [call EXCEPT ![c] = NoCall]
  /\ reply' = [reply EXCEPT ![c] = IF success THEN "success" ELSE "failure"]
  /\ cancelled' = cancelled \ {c}
  /\ interrupted' = interrupted \ {c}
  /\ activeIds' = IF KeepArms THEN activeIds ELSE {}

\* Mutant: a stop whose hook raised stays counted.
StopEndsUnlessRaised(outcome) == IF outcome = "raised" THEN stopping ELSE stopping - 1

StopEnds(outcome) == stopping - 1

StopReturn(c, outcome, expired) ==
  /\ pc[c] = "hook"
  /\ call[c].op = "stop"
  /\ stopping' = StopEnds(outcome)
  /\ UNCHANGED <<sequence, seen, epoch, busy, results>>
  /\ Answer(c, outcome = "success" /\ ~expired /\ ~Superseded(c))

Remember(id) ==
  LET longer == Append(seen, id)
  IN  IF Len(longer) > SeenMax THEN Tail(longer) ELSE longer

\* The sequence is reserved unless a stop or the deadline came first; it stays
\* reserved when the deadline expires between that test and the answer.
PrepareReturn(c, outcome, expired) ==
  LET reserves == outcome = "success" /\ ~Superseded(c) IN
  /\ pc[c] = "hook"
  /\ call[c].op = "prepare"
  /\ \/ /\ reserves
        /\ sequence' = [id |-> call[c].id, arms |-> call[c].arms, size |-> call[c].size,
                        index |-> 0]
        /\ seen' = Remember(call[c].id)
        /\ results' = [i \in Steps |-> "none"]
     \/ /\ ~reserves \/ expired
        /\ UNCHANGED <<sequence, seen, results>>
  /\ busy' = FALSE
  /\ UNCHANGED <<epoch, stopping>>
  /\ Answer(c, reserves /\ ~expired)

\* Mutant: a failed step does not end the sequence.
AdvancedDespiteFailure(outcome) ==
  IF sequence.index + 1 = sequence.size THEN NoSequence
  ELSE [sequence EXCEPT !.index = @ + 1]

\* What a step leaves of its sequence.
Advanced(outcome) ==
  IF outcome # "success" \/ sequence.index + 1 = sequence.size THEN NoSequence
  ELSE [sequence EXCEPT !.index = @ + 1]

\* A hook that raises leaves the sequence at the step it was at: the same step may
\* be asked for again, and is then run again.
StepReturn(c, outcome, expired) ==
  /\ pc[c] = "hook"
  /\ call[c].op = "step"
  /\ sequence' = IF outcome # "raised" /\ Reserved /\ sequence.id = call[c].id
                 THEN Advanced(outcome) ELSE sequence
  /\ results' = [results EXCEPT ![call[c].index] = IF @ = "started" THEN outcome ELSE @]
  /\ busy' = FALSE
  /\ UNCHANGED <<seen, epoch, stopping>>
  /\ Answer(c, outcome = "success" /\ ~expired /\ ~Superseded(c))

-----------------------------------------------------------------------------
(* Specification *)

Init ==
  /\ sequence = NoSequence
  /\ seen = <<>>
  /\ epoch = 0
  /\ busy = FALSE
  /\ stopping = 0
  /\ activeIds = {}
  /\ cancelled = {}
  /\ pc = [c \in Calls |-> "idle"]
  /\ call = [c \in Calls |-> NoCall]
  /\ reply = [c \in Calls |-> "none"]
  /\ interrupted = {}
  /\ results = [i \in Steps |-> "withdrawn"]

Request(c) ==
  \/ \E id \in SequenceIds, arms \in Selections, size \in 1..MaxSteps : Prepare(c, id, arms, size)
  \/ \E id \in SequenceIds, index \in Steps : Step(c, id, index)
  \/ \E requested \in Selections : Stop(c, requested)

Return(c) ==
  \E outcome \in Outcomes, expired \in BOOLEAN :
    \/ PrepareReturn(c, outcome, expired)
    \/ StepReturn(c, outcome, expired)
    \/ StopReturn(c, outcome, expired)

Next == \E c \in Calls : Request(c) \/ Return(c)

Spec == Init /\ [][Next]_vars

-----------------------------------------------------------------------------
(* Properties *)

Running == {c \in Pending : call[c].op \in Primitives}

Stops == {c \in Pending : call[c].op = "stop"}

\* Every variable has the type the code gives it.
TypeOK ==
  /\ sequence \in Reservations \cup {NoSequence}
  /\ Reserved => sequence.index < sequence.size
  /\ seen \in Seq(SequenceIds) /\ Len(seen) <= SeenMax
  /\ epoch \in 0..MaxEpoch
  /\ busy \in BOOLEAN
  /\ stopping \in Nat
  /\ activeIds \subseteq Arms
  /\ cancelled \subseteq Calls
  /\ pc \in [Calls -> {"idle", "hook"}]
  /\ call \in [Calls -> CallRecords]
  /\ reply \in [Calls -> {"none", "success", "failure"}]
  /\ interrupted \subseteq Calls
  /\ results \in [Steps -> Results]

\* At most one primitive is in its hook, and busy says so.
OnePrimitive ==
  /\ busy <=> Running # {}
  /\ \A c, d \in Running : c = d

\* Every stop in its hook is counted, and no other.
StopsCounted == stopping = Cardinality(Stops)

\* An adapter with nothing in progress keeps the arms of its reservation only.
IdleForgets == Pending = {} => (activeIds # {} <=> Reserved)

\* What busy, stopping and active_ids say is what the calls in progress do, and
\* an adapter with nothing in progress and nothing reserved is open again, however
\* its hooks ended (lines 227-236).
Bookkeeping == OnePrimitive /\ StopsCounted /\ IdleForgets

\* A stop that touches a group covers every arm of it for as long as the hook of
\* the group's primitive has not returned, also when an earlier stop already
\* ended, cancelled the sequence and was answered (lines 115-127, 235-236).
StopCoversMotion ==
  \A s \in Stops, p \in Running :
    call[s].arms \cap call[p].arms # {} => call[p].arms \subseteq call[s].arms

\* No hook of a primitive starts while the hook of another one, or of a stop,
\* has not returned, whatever was answered meanwhile (lines 119-122).
HooksAreExclusive ==
  [][\A c \in Calls :
       pc[c] = "idle" /\ pc'[c] = "hook" /\ call'[c].op \in Primitives => Pending = {}]_vars

\* A step whose hook starts was reserved, and no stop came since; every step before
\* it reported success, so none reported failure; none after it was started; and it
\* was not started before, unless its hook raised (lines 192-214).  That exception
\* is the code's: it repeats a step whose outcome nobody knows.
StepsInOrder ==
  [][\A c \in Calls :
       pc[c] = "idle" /\ pc'[c] = "hook" /\ call'[c].op = "step" =>
         LET i == call'[c].index IN
         /\ \A j \in Steps : j < i => results[j] = "success"
         /\ results[i] \in {"none", "raised"}
         /\ \A j \in Steps : j > i => results[j] = "none"]_vars

\* A call during which a stop was admitted never answers success and reserves
\* nothing, in whatever order the hooks return (lines 181-190, 215-218).
InterruptedFails ==
  [][\A c \in interrupted :
       pc'[c] = "idle" => reply'[c] = "failure" /\ (sequence' = sequence)]_vars
=============================================================================
