------------------------------ MODULE Telemetry -------------------------------
(***************************************************************************)
(* The bridge's clocks and measured arm states: StateStore (state.py),     *)
(* _arm_state and the wait of _wait_state (robot_node.py).  The executor   *)
(* has one thread, so every callback is one step.  An instance, chosen     *)
(* initially, bounds what arrives: how many messages of each kind, how     *)
(* late, with which measurements, from which cameras, the ones calibrated  *)
(* before, the requests made, the ticks it lasts and in which of them      *)
(* messages arrive.                                                        *)
(***************************************************************************)
EXTENDS Integers, Sequences, FiniteSets, SequencesExt, FiniteSetsExt

CONSTANTS
  Arms,
  Budgets,        \* bounds: what may arrive in a run, one record per instance explored
  MaxTime,        \* bound: ticks of the steady clock
  HistoryLength,  \* samples kept per arm (512)
  MaxGap,         \* telemetry_max_gap
  StateAge,       \* state_max_age, for the measurement and its receipt
  Skew,           \* future_skew_tolerance_sec
  Dwell,          \* settling_dwell
  Timeout         \* the time a wait is given, in ticks of the steady clock

ASSUME TelemetryAssumption ==
  /\ HistoryLength \in Nat \ {0} /\ MaxTime \in Nat
  /\ {MaxGap, StateAge, Skew, Dwell, Timeout} \subseteq Nat

VARIABLES
  left,      \* what the budget has left
  mono,      \* the steady clock
  now,       \* the ROS clock: it may pause and jump back
  lastRos,   \* _last_ros_ns
  history,   \* per arm, the samples kept, oldest first
  measured,  \* history: per arm, all samples since the last reset
  revision,  \* _arm_sequence
  settle     \* the wait for a measured state after a motion, or NoWait

clockVars == <<mono, now, lastRos>>
armVars == <<history, measured, revision>>
telemetryVars == <<left, clockVars, armVars, settle>>

NoWait == [waiting |-> FALSE]
Spend(what) == left[what] > 0 /\ left' = [left EXCEPT ![what] = @ - 1]

TelemetryInit ==
  /\ left \in Budgets
  /\ mono = 0 /\ now = 1 /\ lastRos = 1
  /\ history = [a \in Arms |-> <<>>]
  /\ measured = [a \in Arms |-> <<>>]
  /\ revision = 0
  /\ settle = NoWait

\* Time passes; the ROS clock follows, pauses or jumps back.  A tick is longer than
\* the timer's 20 ms: the timer has seen the previous one.
Tick ==
  /\ mono < left.until /\ lastRos = now
  /\ mono' = mono + 1
  /\ \/ now' = now + 1 /\ UNCHANGED left
     \/ now' = now /\ Spend("pauses")
     \/ now > 1 /\ now' = 1 /\ Spend("resets")
  /\ UNCHANGED <<lastRos, armVars, settle>>

-------------------------------------------------------------------------------
(* StateStore.                                                               *)

\* The last n elements, as del history[:-n] leaves them.
Kept(s, n) == IF Len(s) <= n THEN s ELSE SubSeq(s, Len(s) - n + 1, Len(s))

\* A measurement must advance, and must not be ahead of the clock by more than the skew.
ArmState(a, stamp, moving) ==
  /\ Spend("samples")
  /\ 0 < stamp /\ stamp <= now + Skew
  /\ history[a] # <<>> => stamp > Last(history[a]).stamp
  /\ revision' = revision + 1
  /\ LET sample == [stamp |-> stamp, moving |-> moving, rev |-> revision + 1, at |-> mono] IN
     /\ history' = [history EXCEPT ![a] = Kept(Append(@, sample), HistoryLength)]
     /\ measured' = [measured EXCEPT ![a] = Append(@, sample)]
  /\ UNCHANGED <<clockVars, settle>>

\* Mutant: the samples on both sides of the interval are not required.
StationaryBetween(a, start, end) ==
  LET h == history[a]
      inside == {i \in DOMAIN h : start <= h[i].stamp /\ h[i].stamp <= end} IN
  /\ inside # {}
  /\ \A i \in inside : ~h[i].moving

\* stationary_interval: the samples from the last one at or before the start to the
\* first one at or after the end do not move and leave no large gap.
StationaryInterval(a, start, end) ==
  LET h == history[a]
      before == {i \in DOMAIN h : h[i].stamp <= start}
      after == {i \in DOMAIN h : h[i].stamp >= end} IN
  /\ before # {} /\ after # {}
  /\ LET i == Max(before)  j == Min(after) IN
     /\ i <= j
     /\ \A k \in i .. j : ~h[k].moving
     /\ \A k \in i .. j - 1 : h[k + 1].stamp - h[k].stamp <= MaxGap

Current(a) == Last(history[a])

\* state(): every arm is known, and neither its measurement nor its receipt is old.
StateFresh ==
  \A a \in Arms :
    /\ history[a] # <<>>
    /\ mono - Current(a).at <= StateAge
    /\ -Skew <= now - Current(a).stamp /\ now - Current(a).stamp <= StateAge

ArmRevision(a) == IF history[a] = <<>> THEN 0 ELSE Current(a).rev
ArmRevisions(arms) == [a \in arms |-> ArmRevision(a)]

MeasuredAfter(arms, stamp, revisions) ==
  \A a \in arms :
    history[a] # <<>> /\ Current(a).rev > revisions[a] /\ Current(a).stamp >= stamp

-------------------------------------------------------------------------------
(* _wait_state: the arms of a command are waited for.                        *)

NoDwell == [since |-> -1]

WaitState(arms) ==
  /\ ~settle.waiting
  /\ Spend("waits")
  /\ settle' = [waiting |-> TRUE, arms |-> arms, stamp |-> now, revs |-> ArmRevisions(arms),
                stable |-> NoDwell, deadline |-> mono + Timeout]
  /\ UNCHANGED <<clockVars, armVars>>

\* Mutant: a sample from before the command may start the dwell.
MeasuredEver == \A a \in settle.arms : history[a] # <<>>

NewMeasurement == MeasuredAfter(settle.arms, settle.stamp, settle.revs)

\* The dwell in progress, or one that starts with the current samples.
DwellFrom ==
  IF settle.stable # NoDwell THEN settle.stable
  ELSE [since |-> mono, revs |-> ArmRevisions(settle.arms),
        stamps |-> [a \in settle.arms |-> Current(a).stamp]]

StillSince(d) ==
  Dwell > 0 => \A a \in settle.arms : StationaryInterval(a, d.stamps[a], Current(a).stamp)

DwellOver(d) ==
  /\ mono - d.since >= Dwell
  /\ Dwell > 0 => \A a \in settle.arms : ArmRevision(a) > d.revs[a]

\* settled(), which the timer evaluates: it answers, keeps the dwell or restarts it.
Settled ==
  /\ settle.waiting
  /\ NewMeasurement /\ StateFresh
  /\ \A a \in settle.arms : ~Current(a).moving
  /\ StillSince(DwellFrom) /\ DwellOver(DwellFrom)

KeepsDwell ==
  /\ NewMeasurement /\ StateFresh
  /\ \A a \in settle.arms : ~Current(a).moving
  /\ StillSince(DwellFrom)

CheckSettled ==
  settle' = IF ~settle.waiting THEN settle
            ELSE IF mono >= settle.deadline \/ Settled THEN NoWait
            ELSE IF ~NewMeasurement THEN settle
            ELSE [settle EXCEPT !.stable = IF KeepsDwell THEN DwellFrom ELSE NoDwell]

\* reset(): measurements of the old clock are worthless.
ResetArms ==
  /\ history' = [a \in Arms |-> <<>>]
  /\ measured' = [a \in Arms |-> <<>>]
  /\ settle' = NoWait
  /\ UNCHANGED revision

-------------------------------------------------------------------------------
\* From here on every arm was measured, with no large gap, and was never seen moving.
StillFrom(a, start, end) ==
  \E i, j \in DOMAIN measured[a] :
    LET m == measured[a] IN
    /\ i <= j /\ m[i].stamp <= start /\ m[j].stamp >= end
    /\ \A k \in i .. j : ~m[k].moving
    /\ \A k \in i .. j - 1 : m[k + 1].stamp - m[k].stamp <= MaxGap

\* A motion is taken for finished only after a measured dwell: since a sample that is
\* not older than the wait and was received Dwell ago, and up to the newest of at
\* least two, no sample moves and none is missing. (state.py:53, robot_node.py:345)
SettledIsStill(ended) ==
  ended => \A a \in settle.arms : \E i \in DOMAIN measured[a] :
    LET m == measured[a] IN
    /\ m[i].stamp >= settle.stamp /\ m[i].at <= mono - Dwell
    /\ Dwell > 0 => i < Len(m)
    /\ \A k \in i .. Len(m) : ~m[k].moving
    /\ \A k \in i .. Len(m) - 1 : m[k + 1].stamp - m[k].stamp <= MaxGap
===============================================================================
