---------------------------- MODULE CaptureService ----------------------------
(***************************************************************************)
(* The HTTP side of an image request (gateway.py, api.py) composed with    *)
(* the bridge.  The HTTP loop and the executor are two threads: the reply  *)
(* is posted to the loop by the executor and delivered there later, unless *)
(* the loop gave up in between.                                            *)
(***************************************************************************)
EXTENDS Captures

CONSTANT Margin   \* ros_response_margin

ASSUME ServiceAssumption == Margin \in Nat

VARIABLES
  http,     \* per request: "idle", "sent", "served" (the bridge has it), or its outcome
  want,     \* per request, the camera and the kind asked for (history: the resets still to come)
  asked,    \* per request, the ROS time at which it was sent
  due,      \* per request, the end of its wait on the steady clock
  posted,   \* replies handed to the HTTP loop
  dropped   \* requests whose ROS future was cancelled by the loop

gatewayVars == <<http, want, asked, due, posted, dropped>>
vars == <<telemetryVars, captureVars, gatewayVars>>

Final == {"ok", "refused", "failed", "timeout"}
NoWant == [camera |-> CHOOSE c \in Cameras : TRUE, capture |-> FALSE, resets |-> 0]

Init ==
  /\ CapturesInit
  /\ http = [r \in Requests |-> "idle"]
  /\ want = [r \in Requests |-> NoWant]
  /\ asked = [r \in Requests |-> 0]
  /\ due = [r \in Requests |-> 0]
  /\ posted = {} /\ dropped = {}

\* The request is sent with its deadline in ROS time; the wait has its own margin.
Send(r, c, capture) ==
  /\ http[r] = "idle"
  /\ mono + Timeout + Margin <= left.until
  /\ r \in left.requests /\ left' = [left EXCEPT !.requests = @ \ {r}]
  /\ http' = [http EXCEPT ![r] = "sent"]
  /\ want' = [want EXCEPT ![r] = [camera |-> c, capture |-> capture, resets |-> left.resets]]
  /\ asked' = [asked EXCEPT ![r] = now]
  /\ due' = [due EXCEPT ![r] = mono + Timeout + Margin]
  /\ UNCHANGED <<clockVars, armVars, settle, captureVars, posted, dropped>>

\* The bridge takes the request, and refuses one whose time is over.
Serve(r) ==
  LET budget == Min({asked[r] + Timeout - now, Timeout}) IN
  /\ http[r] \in {"sent", "timeout"}
  /\ pending[r] = NoRequest /\ reply[r] = NoReply
  /\ mono + budget <= left.until
  /\ IF budget <= 0
     THEN /\ reply' = [reply EXCEPT ![r] = Refused("expired")]
          /\ UNCHANGED <<telemetryVars, imageVars, motionVars, closing, pending>>
     ELSE CameraRequest(r, want[r].camera, want[r].capture, budget)
  /\ UNCHANGED gatewayVars

\* done: the executor hands the reply over, unless the future was cancelled.
Post(r) ==
  /\ reply[r] # NoReply
  /\ r \notin posted \cup dropped
  /\ posted' = posted \cup {r}
  /\ UNCHANGED <<telemetryVars, captureVars, http, want, asked, due, dropped>>

StillWanted(r) == http[r] \notin Final

\* deliver, on the HTTP loop; a reply that cannot be read is a failure.
Deliver(r) ==
  /\ r \in posted
  /\ StillWanted(r)
  /\ \E outcome \in {IF reply[r].status = "ok" THEN "ok" ELSE "refused", "failed"} :
       http' = [http EXCEPT ![r] = outcome]
  /\ UNCHANGED <<telemetryVars, captureVars, want, asked, due, posted, dropped>>

\* wait_for gives up; a future that is not done is cancelled.
GiveUp(r) ==
  /\ http[r] = "sent"
  /\ mono >= due[r]
  /\ http' = [http EXCEPT ![r] = "timeout"]
  /\ dropped' = IF reply[r] = NoReply THEN dropped \cup {r} ELSE dropped
  /\ UNCHANGED <<telemetryVars, captureVars, want, asked, due, posted>>

BridgeStep == CapturesNext /\ UNCHANGED gatewayVars

GatewayStep(r) == Serve(r) \/ Post(r) \/ Deliver(r) \/ GiveUp(r)

Next ==
  \/ BridgeStep
  \/ \E r \in Requests, c \in left.cameras, capture \in left.modes : Send(r, c, capture)
  \/ \E r \in Requests : GatewayStep(r)

Spec == Init /\ [][Next]_vars

\* Time passes, the timer fires and both threads run what is ready.
FairSpec ==
  /\ Spec
  /\ WF_vars(Tick /\ UNCHANGED <<captureVars, gatewayVars>>)
  /\ WF_vars((Expire \/ Reset) /\ UNCHANGED gatewayVars)
  /\ WF_vars(\E r \in Requests : GatewayStep(r))
-------------------------------------------------------------------------------
TypeOK ==
  /\ mono \in 0 .. MaxTime /\ now \in 1 .. MaxTime + 1 /\ lastRos \in 1 .. MaxTime + 1
  /\ \A a \in Arms : Len(history[a]) <= HistoryLength /\ IsSuffix(history[a], measured[a])
  /\ \A c \in Cameras : Len(frames[c]) <= BufferSize /\ Len(depth[c]) <= BufferSize
  /\ calibrated \subseteq Cameras /\ badPlane \subseteq Planes
  /\ {motionBusy, closing} \subseteq BOOLEAN
  /\ http \in [Requests -> {"idle", "sent"} \cup Final]
  /\ posted \cup dropped \subseteq Requests
  /\ \A r \in Requests : pending[r].waiting => reply[r] = NoReply

\* The caches keep their bounds and the histories are the newest samples.  A request that
\* waits can still be answered: images of its camera that were discarded
\* after it was made have taken the request with them, so its place in the sequence of
\* frames is never ahead of the sequence, which starts again. (robot_node.py:139, 307)
PendingIsReachable ==
  /\ TypeOK
  /\ \A r \in Requests : pending[r].waiting => pending[r].seq <= Sequence(pending[r].camera)

NewAnswer(r) == reply[r].status = "none" /\ reply'[r].status = "ok"

\* An answer contains nothing that arrived before the camera's images were last
\* discarded, for a changed calibration or a clock that moved back, and, unless the
\* clock moved back, nothing stamped before the caller asked: images that are late, or
\* stamped ahead of the clock, included.  What the stamps cannot show stays open: an image
\* of the old clock that arrives after a reset and whose stamp looks current is accepted.
\* (robot_node.py:126, 200, 240, 299)
EvidenceIsCurrent ==
  [][\A r \in Requests : NewAnswer(r) =>
       LET images == {reply'[r].rgb, reply'[r].depth} \ {NoDepth} IN
       \A image \in images :
         /\ image.wipe = wipes'[pending[r].camera]
         /\ want[r].resets = left.resets => image.stamp >= asked[r]]_vars

\* A wrist camera's exposures at two times are only paired if its arm was measured on
\* both sides of them and all the way between, however short the history kept, was
\* never seen moving and no motion was under way since before them.
WristWasStill ==
  [][\A r \in Requests : NewAnswer(r) /\ reply'[r].depth # NoDepth =>
       LET p == [rgb |-> reply'[r].rgb, depth |-> reply'[r].depth] IN
       (Delta(p) # 0 /\ pending[r].camera \in Wrist) =>
         /\ ~motionBusy /\ motionEnd < First(p)
         /\ StillFrom(ArmOf[pending[r].camera], First(p), Second(p))]_vars

\* The wait after a motion ends well only on a measured dwell.
SettledMeansStill ==
  [][SettledIsStill(settle.waiting /\ ~settle'.waiting /\ closing' = closing
                    /\ now >= lastRos /\ mono < settle.deadline)]_vars

\* Every caller gets an answer, and the bridge forgets every request, also if no image
\* ever comes and the ROS clock stands still.
Open(r) == http[r] = "sent" \/ pending[r].waiting

EveryCaptureEnds == \A r \in Requests : Open(r) ~> ~Open(r)
===============================================================================
