------------------------------- MODULE Captures -------------------------------
(***************************************************************************)
(* The bridge's images and the requests that wait for them: _image,        *)
(* _depth_image, _camera_info, _try_cameras, _complete, _expire and        *)
(* _camera of robot_node.py on the frames kept by StateStore.  A request   *)
(* is answered with evidence acquired after it, or not at all.             *)
(***************************************************************************)
EXTENDS Telemetry

CONSTANTS
  Cameras,
  Wrist,       \* the cameras on a flange, with depth
  ArmOf,       \* the arm of each of these
  Planes,      \* the fixed cameras with a calibrated plane and no depth
  Requests,
  BufferSize,  \* camera_buffer_size
  CameraAge,   \* camera_max_age
  Tolerance    \* sync_tolerance_sec

ASSUME CapturesAssumption ==
  /\ Wrist \cup Planes \subseteq Cameras /\ Wrist \cap Planes = {} /\ ArmOf \in [Wrist -> Arms]
  /\ BufferSize \in Nat \ {0}
  /\ {CameraAge, Tolerance} \subseteq Nat

\* What an instance of Telemetry bounds: how many messages of each kind, and which.
IsInstance(b) ==
  b \in [cameras : SUBSET Cameras, calibrated : SUBSET Cameras, requests : SUBSET Requests,
         until : 0 .. MaxTime, last : Nat, modes : SUBSET BOOLEAN,
         imageLags : SUBSET Int, sampleLags : SUBSET Int, moving : SUBSET BOOLEAN, rgb : Nat, depth : Nat, infos : Nat, changes : Nat,
         samples : Nat, waits : Nat, motions : Nat, resets : Nat, pauses : Nat, closings : Nat]

ASSUME InstancesAssumption == \A b \in Budgets : IsInstance(b)

VARIABLES
  frames,       \* per camera, the RGB frames kept, in order of arrival
  depth,        \* per camera, the depth images kept, in order of first arrival
  calibrated,   \* the cameras whose CameraInfo is known
  badPlane,     \* _invalid_plane_cameras
  motionBusy,   \* a motion is admitted
  motionEnd,    \* _last_motion_end_ns
  closing,      \* close_pending() ran
  pending,      \* per request, what it waits for, or NoRequest
  reply,        \* per request, the bridge's answer, or NoReply
  wipes         \* history: per camera, how often its images were discarded

imageVars == <<frames, depth, calibrated, badPlane, wipes>>
motionVars == <<motionBusy, motionEnd>>
requestVars == <<pending, reply>>
captureVars == <<imageVars, motionVars, closing, requestVars>>

NoRequest == [waiting |-> FALSE]
NoReply == [status |-> "none"]
Refused(code) == [status |-> code]
Answered(rgb, image) == [status |-> "ok", rgb |-> rgb, depth |-> image]
NoDepth == [stamp |-> 0]

CapturesInit ==
  /\ TelemetryInit
  /\ frames = [c \in Cameras |-> <<>>]
  /\ depth = [c \in Cameras |-> <<>>]
  /\ calibrated = left.calibrated /\ badPlane = {}
  /\ motionBusy = FALSE /\ motionEnd = 0 /\ closing = FALSE
  /\ pending = [r \in Requests |-> NoRequest]
  /\ reply = [r \in Requests |-> NoReply]
  /\ wipes = [c \in Cameras |-> 0]

-------------------------------------------------------------------------------
(* Which evidence may answer a request.                                      *)

\* _camera: a request remembers where the camera's sequence and the clock stood.
Sequence(c) == IF frames[c] = <<>> THEN 0 ELSE Last(frames[c]).seq

Recent(stamp) == stamp <= now + Skew /\ now - stamp <= CameraAge

\* Mutant: the frame number alone tells a new frame from an old one.
FreshBySequence(r, F) ==
  {f \in ToSet(F[pending[r].camera]) : f.seq > pending[r].seq /\ Recent(f.stamp)}

Fresh(r, F) ==
  {f \in ToSet(F[pending[r].camera]) :
     f.seq > pending[r].seq /\ f.stamp >= pending[r].stamp /\ Recent(f.stamp)}

Delta(p) == IF p.rgb.stamp > p.depth.stamp THEN p.rgb.stamp - p.depth.stamp
                                           ELSE p.depth.stamp - p.rgb.stamp

Pairs(r, F, D) ==
  {p \in [rgb : Fresh(r, F), depth : ToSet(D[pending[r].camera])] :
     /\ p.depth.stamp >= pending[r].stamp /\ Recent(p.depth.stamp)
     /\ Delta(p) <= Tolerance}

First(p) == IF p.rgb.stamp < p.depth.stamp THEN p.rgb.stamp ELSE p.depth.stamp
Second(p) == First(p) + Delta(p)

\* The arm of the camera may not have moved between the two exposures.
WristStill(a, p) ==
  /\ StateFresh
  /\ ~motionBusy /\ ~Current(a).moving
  /\ First(p) > motionEnd
  /\ StationaryInterval(a, First(p), Second(p))

Usable(c, p) == Delta(p) # 0 /\ c \in Wrist => WristStill(ArmOf[c], p)

\* The order in which pairs are tried: the closest first, then the earliest.
Key(p) == <<Delta(p), p.rgb.stamp, p.depth.stamp, p.rgb.seq>>
Before(k, m) == \E i \in 1 .. 4 : k[i] < m[i] /\ \A j \in 1 .. i - 1 : k[j] = m[j]

\* A pair is passed over if it is not usable or its transforms, which belong to the
\* RGB stamp, are not available; so none of those tried before shares its stamp.
Chosen(r, F, D) ==
  LET usable == {p \in Pairs(r, F, D) : Usable(pending[r].camera, p)} IN
  {p \in usable : \A q \in usable : q.rgb.stamp = p.rgb.stamp => ~Before(Key(q), Key(p))}

Newest(S) == CHOOSE f \in S : \A g \in S : f.stamp >= g.stamp

\* What _try_cameras may do for one request: wait, or answer it.
Outcomes(r, F, D) ==
  LET c == pending[r].camera  fresh == Fresh(r, F) IN
  IF ~pending[r].waiting \/ mono >= pending[r].deadline \/ fresh = {} THEN {NoReply}
  ELSE IF ~pending[r].capture THEN {Answered(Newest(fresh), NoDepth)}
  ELSE IF c \in Planes THEN
    IF c \in badPlane THEN {Refused("plane")} ELSE {Answered(Newest(fresh), NoDepth), Refused("geometry")}
  ELSE IF c \notin calibrated THEN {NoReply}
  ELSE {NoReply, Refused("geometry")} \cup {Answered(p.rgb, p.depth) : p \in Chosen(r, F, D)}

\* A pair whose geometry is refused must exist.
Possible(r, F, D, answer) ==
  (answer = Refused("geometry") /\ pending[r].camera \notin Planes) => Chosen(r, F, D) # {}

\* _complete for every request that gets an answer.
Complete(answers) ==
  /\ pending' = [r \in Requests |-> IF answers[r] = NoReply THEN pending[r] ELSE NoRequest]
  /\ reply' = [r \in Requests |-> IF answers[r] = NoReply THEN reply[r] ELSE answers[r]]

TryCameras(F, D) ==
  \E answers \in [Requests -> UNION {Outcomes(r, F, D) : r \in Requests}] :
    /\ \A r \in Requests : answers[r] \in Outcomes(r, F, D) /\ Possible(r, F, D, answers[r])
    /\ Complete(answers)

-------------------------------------------------------------------------------
(* The callbacks.                                                            *)

CameraRequest(r, c, capture, budget) ==
  /\ IF closing
     THEN reply' = [reply EXCEPT ![r] = Refused("closing")] /\ UNCHANGED pending
     ELSE /\ pending' = [pending EXCEPT ![r] =
               [waiting |-> TRUE, camera |-> c, seq |-> Sequence(c), stamp |-> now,
                capture |-> capture, deadline |-> mono + budget]]
          /\ UNCHANGED reply
  /\ UNCHANGED <<telemetryVars, imageVars, motionVars, closing>>

\* A frame may be stamped with any time, its age is looked at when a request is tried; a
\* second one with the same stamp is not kept.
Image(c, stamp) ==
  /\ Spend("rgb")
  /\ LET known == \E f \in ToSet(frames[c]) : f.stamp = stamp
         frame == [stamp |-> stamp, seq |-> Sequence(c) + 1, wipe |-> wipes[c]] IN
     frames' = IF known THEN frames
               ELSE [frames EXCEPT ![c] = Kept(Append(@, frame), BufferSize)]
  /\ TryCameras(frames', depth)
  /\ UNCHANGED <<clockVars, armVars, settle, depth, calibrated, badPlane, wipes, motionVars, closing>>

\* The cache is a dictionary: a repeated stamp replaces the image and keeps its place.
DepthImage(c, stamp) ==
  /\ Spend("depth")
  /\ LET image == [stamp |-> stamp, wipe |-> wipes[c]]
         same == {i \in DOMAIN depth[c] : depth[c][i].stamp = stamp} IN
     depth' = [depth EXCEPT ![c] =
       IF same # {} THEN [i \in DOMAIN @ |-> IF i \in same THEN image ELSE @[i]]
       ELSE Kept(Append(@, image), BufferSize)]
  /\ TryCameras(frames, depth')
  /\ UNCHANGED <<clockVars, armVars, settle, frames, calibrated, badPlane, wipes, motionVars, closing>>

\* Mutant: the requests that wait for the camera are left waiting.
NobodyRefused(c) == {}

\* The requests answered with an error when a camera's images are discarded.
RefusedBy(c) == {r \in Requests : pending[r].waiting /\ pending[r].camera = c}

\* Mutant: the depth images survive a change of calibration.
DepthKept(c) == depth

DepthWithout(c) == [depth EXCEPT ![c] = <<>>]

\* The first calibration of a camera is accepted; a changed one invalidates what was
\* measured with the old one.
CameraInfo(c) ==
  \/ /\ c \notin calibrated
     /\ Spend("infos")
     /\ calibrated' = calibrated \cup {c}
     /\ UNCHANGED <<clockVars, armVars, settle, frames, depth, badPlane, wipes, motionVars, closing, requestVars>>
  \/ /\ c \in calibrated
     /\ Spend("changes")
     /\ badPlane' = badPlane \cup ({c} \cap Planes)
     /\ frames' = [frames EXCEPT ![c] = <<>>]
     /\ depth' = DepthWithout(c)
     /\ wipes' = [wipes EXCEPT ![c] = @ + 1]
     /\ Complete([r \in Requests |-> IF r \in RefusedBy(c) THEN Refused("calibration") ELSE NoReply])
     /\ UNCHANGED <<clockVars, armVars, settle, calibrated, motionVars, closing>>

\* A motion is admitted and ends (modelled in RobotBridge).
Motion ==
  /\ motionBusy' = ~motionBusy
  /\ motionEnd' = IF motionBusy THEN now ELSE motionEnd
  /\ IF motionBusy THEN UNCHANGED left ELSE Spend("motions")
  /\ UNCHANGED <<clockVars, armVars, settle, imageVars, closing, requestVars>>

\* The timer, with a clock that moved back: everything measured is discarded.
Reset ==
  /\ now < lastRos
  /\ lastRos' = now
  /\ ResetArms
  /\ frames' = [c \in Cameras |-> <<>>] /\ depth' = [c \in Cameras |-> <<>>]
  /\ wipes' = [c \in Cameras |-> wipes[c] + 1]
  /\ Complete([r \in Requests |-> IF pending[r].waiting THEN Refused("clock") ELSE NoReply])
  /\ UNCHANGED <<left, mono, now, calibrated, badPlane, motionVars, closing>>

\* Mutant: the deadline is left to the next image.
NeverLate(r) == FALSE

Late(r) == pending[r].waiting /\ mono >= pending[r].deadline

\* The timer, otherwise: another try, then the waits that settled or ran out of time.
Expire ==
  /\ now >= lastRos
  /\ lastRos' = now
  /\ CheckSettled
  /\ \E answers \in [Requests -> UNION {Outcomes(r, frames, depth) : r \in Requests} \cup {Refused("late")}] :
       /\ \A r \in Requests :
            IF Late(r) THEN answers[r] = Refused("late")
            ELSE answers[r] \in Outcomes(r, frames, depth) /\ Possible(r, frames, depth, answers[r])
       /\ Complete(answers)
  /\ UNCHANGED <<left, mono, now, armVars, imageVars, motionVars, closing>>

ClosePending ==
  /\ ~closing
  /\ Spend("closings")
  /\ closing' = TRUE
  /\ settle' = NoWait
  /\ Complete([r \in Requests |-> IF pending[r].waiting THEN Refused("closing") ELSE NoReply])
  /\ UNCHANGED <<clockVars, armVars, imageVars, motionVars>>

\* What arrives is stamped with one of these times.  A lag may be negative: a camera's clock
\* may be ahead, and after a reset an image of the old clock may be under way.
Stamps(lags) == {now - lag : lag \in {k \in lags : mono <= left.last}} \cap (Nat \ {0})

CapturesNext ==
  \/ Tick /\ UNCHANGED captureVars
  \/ \E arms \in SUBSET Arms \ {{}} : WaitState(arms) /\ UNCHANGED captureVars
  \/ \E a \in Arms, stamp \in Stamps(left.sampleLags), moving \in left.moving :
       ArmState(a, stamp, moving) /\ UNCHANGED captureVars
  \/ \E c \in left.cameras, stamp \in Stamps(left.imageLags) : Image(c, stamp) \/ DepthImage(c, stamp)
  \/ \E c \in left.cameras : CameraInfo(c)
  \/ Motion \/ Reset \/ Expire \/ ClosePending
===============================================================================
