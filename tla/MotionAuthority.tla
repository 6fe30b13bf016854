--------------------------- MODULE MotionAuthority ---------------------------
(***************************************************************************)
(* What the robot bridge promises about who may move the arms, with its    *)
(* flags, plans, sequences and stops abstracted away.  There is a single   *)
(* authority to move.  It is granted only while every arm is quiet, arms   *)
(* become restless only under it, it can be revoked at any time, and after *)
(* a revocation nothing is granted again before every arm is quiet.        *)
(***************************************************************************)
CONSTANT Arms

VARIABLES
  authority,  \* who may move: see Authorities
  restless    \* arms a command may still be moving

Authorities ==
  {"free",      \* nobody; a motion may be admitted
   "driving",   \* the admitted motion may send commands
   "draining",  \* nobody; an interrupted motion has yet to return
   "blocked"}   \* nobody; a stop, a recovery or both are owed

vars == <<authority, restless>>

Init == authority = "free" /\ restless = {}

Grant ==
  /\ authority = "free"
  /\ restless = {}
  /\ authority' = "driving"
  /\ UNCHANGED restless

Drive ==
  /\ authority = "driving"
  /\ restless' \in SUBSET Arms
  /\ UNCHANGED authority

\* A measurement or a confirmed stop quietens arms.
Quieten ==
  /\ restless' \in SUBSET restless
  /\ UNCHANGED authority

Revoke ==
  /\ authority' = "blocked"
  /\ restless' \in SUBSET restless

\* Everything is quiet again.  Only a blocked authority can turn into a
\* draining one: a motion is interrupted before it is drained.
Release ==
  /\ restless' = {}
  /\ \/ authority' = "free"
     \/ authority = "blocked" /\ authority' = "draining"

Next == Grant \/ Drive \/ Quieten \/ Revoke \/ Release

Spec == Init /\ [][Next]_vars
=============================================================================
