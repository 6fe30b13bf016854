------------------------- MODULE CaptureServiceProofs -------------------------
(***************************************************************************)
(* What CaptureService guarantees for any arms, cameras, requests, bounds  *)
(* and tolerances: a waiting request can still be answered, an answer      *)
(* contains only current evidence, two exposures of a wrist camera are     *)
(* only paired over an interval in which every arm was measured at rest,   *)
(* and a motion is only taken for finished after such an interval.         *)
(*                                                                         *)
(* The last two rest on how the short history of an arm, which the code    *)
(* keeps, relates to all its measurements: it is their end, so a sample    *)
(* found in it has its place among them, and nothing between two of its    *)
(* samples was forgotten.                                                  *)
(***************************************************************************)
EXTENDS CaptureService, SequenceTheorems, FiniteSetTheorems, TLAPS

-------------------------------------------------------------------------------
(* The inductive invariant.                                                  *)

Samples == [stamp : Nat, moving : BOOLEAN, rev : Nat, at : Nat]
Frames == [stamp : Nat, seq : Nat, wipe : Nat]
Depths == [stamp : Nat, wipe : Nat]
PerArm == UNION {[arms -> Nat] : arms \in SUBSET Arms}
Dwells == [since : Nat, revs : PerArm, stamps : PerArm]
Waits == [waiting : {TRUE}, arms : SUBSET Arms, stamp : Nat, revs : PerArm, stable : {NoDwell} \cup Dwells,
          deadline : Nat]
Waiting == [waiting : {TRUE}, camera : Cameras, seq : Nat, stamp : Nat, capture : BOOLEAN, deadline : Int]
Wants == [camera : Cameras \cup {NoWant.camera}, capture : BOOLEAN, resets : Nat]

\* The ROS clock is never ahead of the steady one.
ClockInv == mono \in 0 .. MaxTime /\ now \in 1 .. mono + 1 /\ lastRos \in 1 .. MaxTime + 1

\* The sequence h is the end of m.
Ends(h, m) == Len(h) <= Len(m) /\ \A i \in 1 .. Len(h) : h[i] = m[i + (Len(m) - Len(h))]

Ascends(m) ==
  \A i, j \in 1 .. Len(m) : i < j => m[i].stamp < m[j].stamp /\ m[i].rev < m[j].rev

ArmInv ==
  /\ revision \in Nat
  /\ history \in [Arms -> Seq(Samples)] /\ measured \in [Arms -> Seq(Samples)]
  /\ \A a \in Arms :
       /\ Len(history[a]) <= HistoryLength /\ Ends(history[a], measured[a])
       /\ history[a] = <<>> => measured[a] = <<>>
       /\ \A i \in 1 .. Len(measured[a]) : measured[a][i].at <= mono /\ measured[a][i].rev <= revision
       /\ Ascends(measured[a])

\* The dwell d began with a sample of the arm from after the command.
Began(d, m, a, since) ==
  \E i \in 1 .. Len(m) : m[i].stamp = d.stamps[a] /\ m[i].stamp >= since /\ m[i].rev = d.revs[a] /\ m[i].at <= d.since

DwellInv ==
  /\ settle \in {NoWait} \cup Waits
  /\ settle.waiting /\ settle.stable # NoDwell =>
       /\ settle.stable.since <= mono
       /\ \A a \in settle.arms : Began(settle.stable, measured[a], a, settle.stamp)

\* Images are kept until the next time their camera's are discarded.
ImageInv ==
  /\ frames \in [Cameras -> Seq(Frames)] /\ depth \in [Cameras -> Seq(Depths)]
  /\ wipes \in [Cameras -> Nat] /\ calibrated \subseteq Cameras /\ badPlane \subseteq Planes
  /\ \A c \in Cameras :
       /\ Len(frames[c]) <= BufferSize /\ Len(depth[c]) <= BufferSize
       /\ \A i \in 1 .. Len(frames[c]) : frames[c][i].wipe = wipes[c]
       /\ \A i \in 1 .. Len(depth[c]) : depth[c][i].wipe = wipes[c]

\* A request waits for what comes after it; that it was made before it was served is
\* only certain while the clock has not moved back.
RequestInv ==
  /\ motionBusy \in BOOLEAN /\ closing \in BOOLEAN /\ motionEnd \in Nat
  /\ pending \in [Requests -> {NoRequest} \cup Waiting] /\ reply = [r \in Requests |-> reply[r]]
  /\ \A r \in Requests :
       pending[r].waiting =>
         /\ reply[r] = NoReply /\ http[r] # "idle"
         /\ pending[r].seq <= Sequence(pending[r].camera)
         /\ (want[r].resets = left.resets => asked[r] <= pending[r].stamp)

GatewayInv ==
  /\ http \in [Requests -> {"idle", "sent"} \cup Final]
  /\ want \in [Requests -> Wants] /\ asked \in [Requests -> Nat] /\ due \in [Requests -> Nat]
  /\ posted \subseteq Requests /\ dropped \subseteq Requests
  /\ \A r \in Requests :
       /\ want[r].resets = left.resets => asked[r] <= now
       /\ asked[r] = 0 \/ left.resets <= want[r].resets
       /\ http[r] \in {"sent", "timeout"} => want[r].camera \in Cameras

IInv ==
  /\ IsInstance(left) /\ ClockInv /\ ArmInv /\ DwellInv /\ ImageInv /\ RequestInv /\ GatewayInv

LEMMA Bounds ==
  /\ HistoryLength \in Nat /\ HistoryLength >= 1 /\ BufferSize \in Nat /\ BufferSize >= 1 /\ MaxTime \in Nat
  /\ MaxGap \in Nat /\ StateAge \in Nat /\ Skew \in Nat /\ Dwell \in Nat /\ Timeout \in Nat
  /\ CameraAge \in Nat /\ Tolerance \in Nat /\ Margin \in Nat
  /\ Wrist \subseteq Cameras /\ Planes \subseteq Cameras /\ Wrist \cap Planes = {} /\ ArmOf \in [Wrist -> Arms]
BY TelemetryAssumption, CapturesAssumption, ServiceAssumption

-------------------------------------------------------------------------------
(* Least and greatest.                                                       *)

\* A set of numbers has a least one.
LEMMA Least ==
  ASSUME NEW S \in SUBSET Nat, S # {}
  PROVE  \E m \in S : \A x \in S : m <= x
<1> DEFINE R == OpToRel(<, Nat)
<1>1. IsWellFoundedOn(R, Nat)
  BY NatLessThanWellFounded
<1>2. \A x, y \in Nat : x < y => <<x, y>> \in R
  BY DEF OpToRel
<1> HIDE DEF R
<1>3. PICK m \in S : \A x \in S : <<x, m>> \notin R
  BY <1>1, WFMin
<1>4. \A x \in S : x \in Nat
  OBVIOUS
<1>5. \A x \in S : ~(x < m)
  BY <1>2, <1>3, <1>4
<1>6. \A x \in S : m <= x
  BY <1>4, <1>5
<1> QED
  BY <1>6

\* A bounded one has a greatest.
LEMMA Greatest ==
  ASSUME NEW n \in Nat, NEW S \in SUBSET (0 .. n), S # {}
  PROVE  \E m \in S : \A x \in S : m >= x
<1> DEFINE T == {n - x : x \in S}
<1>1. \A x \in S : x \in 0 .. n /\ n - x \in Nat
  OBVIOUS
<1>2. T \in SUBSET Nat /\ T # {}
  BY <1>1
<1>3. PICK t \in T : \A y \in T : t <= y
  BY <1>2, Least
<1>4. PICK m \in S : t = n - m
  BY <1>3
<1>5. \A x \in S : n - m <= n - x
  BY <1>3, <1>4
<1>6. \A x \in S : m >= x
  BY <1>1, <1>5
<1> QED
  BY <1>6

LEMMA MaxIs ==
  ASSUME NEW n \in Nat, NEW S \in SUBSET (0 .. n), S # {}
  PROVE  Max(S) \in S /\ \A x \in S : Max(S) >= x
BY Greatest DEF Max

LEMMA MinIs ==
  ASSUME NEW S \in SUBSET Nat, S # {}
  PROVE  Min(S) \in S /\ \A x \in S : Min(S) <= x
BY Least DEF Min

LEMMA MinOfTwo ==
  ASSUME NEW x \in Int, NEW y \in Int
  PROVE  Min({x, y}) \in Int
<1> DEFINE m == IF x <= y THEN x ELSE y
<1>1. m \in {x, y} /\ \A z \in {x, y} : m <= z
  OBVIOUS
<1>2. \A k \in {x, y} : (\A z \in {x, y} : k <= z) => k = m
  BY <1>1
<1> QED
  BY <1>1, <1>2 DEF Min

-------------------------------------------------------------------------------
(* What is kept of a sequence.                                               *)

LEMMA KeptOf ==
  ASSUME NEW T, NEW s \in Seq(T), NEW n \in Nat, n >= 1
  PROVE  /\ Kept(s, n) \in Seq(T) /\ Len(Kept(s, n)) <= n /\ Ends(Kept(s, n), s)
         /\ s # <<>> => Kept(s, n) # <<>> /\ Last(Kept(s, n)) = Last(s)
<1> DEFINE k == Len(s)
           r == SubSeq(s, k - n + 1, k)
<1>1. k \in Nat
  BY LenProperties
<1>2. CASE k <= n
  <2>1. Kept(s, n) = s
    BY <1>2 DEF Kept
  <2>2. Ends(s, s)
    BY <1>1 DEF Ends
  <2> QED
    BY <1>2, <2>1, <2>2
<1>3. CASE ~(k <= n)
  <2>1. Kept(s, n) = r
    BY <1>3 DEF Kept
  <2>2. k - n + 1 \in 1 .. k /\ \A i \in (k - n + 1) .. k : s[i] \in T
    BY <1>1, <1>3, ElementOfSeq
  <2>3. r \in Seq(T) /\ Len(r) = n /\ \A i \in 1 .. n : r[i] = s[i + (k - n)]
    <3>1. k - (k - n + 1) + 1 = n /\ k - n + 1 <= k
      BY <1>1, <1>3
    <3>2. r \in Seq(T) /\ Len(r) = n /\ \A i \in 1 .. n : r[i] = s[(k - n + 1) + i - 1]
      BY <1>1, <2>2, <3>1, SubSeqProperties
    <3>3. \A i \in 1 .. n : (k - n + 1) + i - 1 = i + (k - n)
      BY <1>1
    <3> HIDE DEF r
    <3> QED
      BY <3>2, <3>3
  <2> HIDE DEF r, k
  <2>4. Ends(r, s)
    BY <1>1, <1>3, <2>3 DEF Ends, k
  <2>5. r # <<>> /\ r[Len(r)] = s[k]
    <3>1. n \in 1 .. n /\ n + (k - n) = k
      BY <1>1
    <3>2. r[n] = s[n + (k - n)]
      BY <2>3, <3>1
    <3> QED
      BY <2>3, <3>1, <3>2, EmptySeq
  <2> QED
    BY <2>1, <2>3, <2>4, <2>5 DEF Last, k
<1> QED
  BY <1>2, <1>3

LEMMA FirstPart ==
  ASSUME NEW T, NEW s \in Seq(T), NEW n \in Nat, n <= Len(s)
  PROVE  /\ SubSeq(s, 1, n) \in Seq(T) /\ Len(SubSeq(s, 1, n)) = n
         /\ \A i \in 1 .. n : SubSeq(s, 1, n)[i] = s[i]
<1>1. \A i \in 1 .. n : i \in 1 .. Len(s) /\ s[i] \in T
  BY LenProperties, ElementOfSeq
<1>2. n - 1 + 1 = n /\ \A i \in 1 .. n : 1 + i - 1 = i
  OBVIOUS
<1> DEFINE r == SubSeq(s, 1, n)
<1>3. /\ r \in Seq(T) /\ Len(r) = IF 1 <= n THEN n - 1 + 1 ELSE 0
      /\ \A i \in 1 .. n - 1 + 1 : r[i] = s[1 + i - 1]
  BY <1>1, SubSeqProperties
<1> HIDE DEF r
<1>4. Len(r) = n /\ \A i \in 1 .. n : r[i] = s[i]
  BY <1>2, <1>3
<1> QED
  BY <1>3, <1>4 DEF r

LEMMA EndsMeansSuffix ==
  ASSUME NEW T, NEW h \in Seq(T), NEW m \in Seq(T), Ends(h, m)
  PROVE  IsSuffix(h, m)
<1> DEFINE n == Len(h)  k == Len(m)  p == Reverse(h)  q == Reverse(m)
<1>1. n \in Nat /\ k \in Nat /\ n <= k /\ \A i \in 1 .. n : h[i] = m[i + (k - n)]
  BY LenProperties DEF Ends
<1>2. /\ p \in Seq(T) /\ q \in Seq(T) /\ Len(p) = n /\ Len(q) = k
      /\ \A i \in 1 .. n : p[i] = h[(n - i) + 1]
      /\ \A i \in 1 .. k : q[i] = m[(k - i) + 1]
  <2>1. /\ \A i \in 1 .. n : (n - i) + 1 \in 1 .. n /\ h[(n - i) + 1] \in T
        /\ \A i \in 1 .. k : (k - i) + 1 \in 1 .. k /\ m[(k - i) + 1] \in T
    BY <1>1, ElementOfSeq
  <2> QED
    BY <1>1, <2>1 DEF Reverse
<1> HIDE DEF p, q
<1>3. \A i \in 1 .. n : p[i] = q[i]
  <2> TAKE i \in 1 .. n
  <2>1. (n - i) + 1 \in 1 .. n /\ ((n - i) + 1) + (k - n) = (k - i) + 1 /\ i \in 1 .. k
    BY <1>1
  <2> QED
    BY <1>1, <1>2, <2>1
<1>4. SubSeq(p, 1, n) \in Seq(T) /\ SubSeq(q, 1, n) \in Seq(T)
      /\ Len(SubSeq(p, 1, n)) = n /\ Len(SubSeq(q, 1, n)) = n
      /\ \A i \in 1 .. n : SubSeq(p, 1, n)[i] = p[i] /\ SubSeq(q, 1, n)[i] = q[i]
  <2> HIDE DEF n, k
  <2>1. n <= Len(p) /\ n <= Len(q)
    BY <1>1, <1>2
  <2> QED
    BY <1>1, <1>2, <2>1, FirstPart
<1>5. SubSeq(p, 1, n) = SubSeq(q, 1, n)
  BY <1>3, <1>4, SeqEqual
<1> QED
  BY <1>1, <1>2, <1>5 DEF IsSuffix, IsPrefix, p, q

LEMMA SampleFields == \A s \in Samples : s.stamp \in Nat /\ s.rev \in Nat /\ s.at \in Nat /\ s.moving \in BOOLEAN
BY DEF Samples

\* The end of both stays the end when both grow.
LEMMA EndsGrow ==
  ASSUME NEW T, NEW h \in Seq(T), NEW m \in Seq(T), NEW x \in T, Ends(h, m)
  PROVE  Ends(Append(h, x), Append(m, x))
<1>1. /\ Len(h) \in Nat /\ Len(m) \in Nat /\ Len(h) <= Len(m)
      /\ \A i \in 1 .. Len(h) : h[i] = m[i + (Len(m) - Len(h))]
  BY LenProperties DEF Ends
<1>2. /\ Len(Append(h, x)) = Len(h) + 1 /\ \A i \in 1 .. Len(h) : Append(h, x)[i] = h[i]
      /\ Append(h, x)[Len(h) + 1] = x
      /\ Len(Append(m, x)) = Len(m) + 1 /\ \A i \in 1 .. Len(m) : Append(m, x)[i] = m[i]
      /\ Append(m, x)[Len(m) + 1] = x
  BY AppendProperties
<1> DEFINE g == Append(h, x)  n == Append(m, x)
<1> HIDE DEF g, n
<1>3. \A i \in 1 .. Len(h) + 1 : g[i] = n[i + (Len(m) - Len(h))]
  <2> TAKE i \in 1 .. Len(h) + 1
  <2>1. CASE i \in 1 .. Len(h)
    <3>1. i + (Len(m) - Len(h)) \in 1 .. Len(m)
      BY <1>1, <2>1
    <3> QED
      BY <1>1, <1>2, <2>1, <3>1 DEF g, n
  <2>2. CASE i = Len(h) + 1
    <3>1. i + (Len(m) - Len(h)) = Len(m) + 1
      BY <1>1, <2>2
    <3> QED
      BY <1>2, <2>2, <3>1 DEF g, n
  <2> QED
    BY <1>1, <2>1, <2>2
<1>4. Len(g) = Len(h) + 1 /\ Len(n) = Len(m) + 1 /\ Len(n) - Len(g) = Len(m) - Len(h)
  BY <1>1, <1>2 DEF g, n
<1> QED
  BY <1>1, <1>3, <1>4 DEF Ends, g, n

LEMMA EndsTwice ==
  ASSUME NEW T, NEW g \in Seq(T), NEW h \in Seq(T), NEW m \in Seq(T), Ends(g, h), Ends(h, m)
  PROVE  Ends(g, m)
<1>1. Len(g) \in Nat /\ Len(h) \in Nat /\ Len(m) \in Nat /\ Len(g) <= Len(h) /\ Len(h) <= Len(m)
  BY LenProperties DEF Ends
<1>2. \A i \in 1 .. Len(g) : g[i] = m[i + (Len(m) - Len(g))]
  <2> TAKE i \in 1 .. Len(g)
  <2>1. /\ i + (Len(h) - Len(g)) \in 1 .. Len(h)
        /\ (i + (Len(h) - Len(g))) + (Len(m) - Len(h)) = i + (Len(m) - Len(g))
    BY <1>1
  <2> QED
    BY <2>1 DEF Ends
<1> QED
  BY <1>1, <1>2 DEF Ends

\* The newest sample kept is the newest of all.
LEMMA Newest1 ==
  ASSUME ArmInv, NEW a \in Arms, history[a] # <<>>
  PROVE  LET m == measured[a] IN
         /\ Len(m) \in 1 .. Len(m) /\ Len(m) \in Nat /\ Current(a) = m[Len(m)] /\ Current(a) \in Samples
         /\ \A i \in 1 .. Len(m) : m[i] \in Samples
<1> DEFINE h == history[a]  m == measured[a]
<1>1. h \in Seq(Samples) /\ m \in Seq(Samples) /\ Ends(h, m) /\ h # <<>>
  BY DEF ArmInv
<1> HIDE DEF h, m
<1>2. Len(h) \in Nat /\ Len(h) # 0 /\ Len(m) \in Nat /\ Len(h) <= Len(m)
  BY <1>1, LenProperties, EmptySeq DEF Ends
<1>3. Len(h) \in 1 .. Len(h) /\ Len(h) + (Len(m) - Len(h)) = Len(m) /\ Len(m) \in 1 .. Len(m)
  BY <1>2
<1>4. h[Len(h)] = m[Len(m)] /\ m[Len(m)] \in Samples
  BY <1>1, <1>3, ElementOfSeq DEF Ends
<1>5. \A i \in 1 .. Len(m) : m[i] \in Samples
  BY <1>1, ElementOfSeq
<1> QED
  BY <1>2, <1>3, <1>4, <1>5 DEF Current, Last, h, m

LEMMA ArmStateKeeps ==
  ASSUME ArmInv, ClockInv, NEW arm \in Arms, NEW stamp \in Int, NEW moving \in BOOLEAN, ArmState(arm, stamp, moving)
  PROVE  /\ ArmInv'
         /\ \A a \in Arms : Len(measured[a]) <= Len(measured'[a])
              /\ \A i \in 1 .. Len(measured[a]) : measured'[a][i] = measured[a][i]
<1> DEFINE sample == [stamp |-> stamp, moving |-> moving, rev |-> revision + 1, at |-> mono]
           h == history[arm]  m == measured[arm]
           n == Append(m, sample)  g == Append(h, sample)  k == Kept(g, HistoryLength)
<1>1. /\ 0 < stamp /\ (h # <<>> => stamp > Last(h).stamp)
      /\ revision' = revision + 1 /\ UNCHANGED clockVars
      /\ history' = [history EXCEPT ![arm] = k] /\ measured' = [measured EXCEPT ![arm] = n]
  BY DEF ArmState
<1>2. sample \in Samples /\ sample.stamp = stamp /\ sample.rev = revision + 1 /\ sample.at = mono /\ revision + 1 \in Nat
  BY <1>1 DEF ArmInv, ClockInv, Samples
<1>3. /\ h \in Seq(Samples) /\ m \in Seq(Samples) /\ Ends(h, m) /\ (h = <<>> => m = <<>>) /\ Ascends(m)
      /\ \A i \in 1 .. Len(m) : m[i].at <= mono /\ m[i].rev <= revision
  BY DEF ArmInv
<1> HIDE DEF sample
<1>4. /\ g \in Seq(Samples) /\ n \in Seq(Samples) /\ Len(n) = Len(m) + 1 /\ Len(m) \in Nat
      /\ g # <<>> /\ n # <<>>
      /\ \A i \in 1 .. Len(m) : n[i] = m[i]
      /\ n[Len(m) + 1] = sample
  <2>1. sample \in Samples /\ h \in Seq(Samples) /\ m \in Seq(Samples) /\ Len(m) \in Nat
    BY <1>2, <1>3, LenProperties
  <2> HIDE DEF h, m
  <2>2. g \in Seq(Samples) /\ g # <<>>
    BY <2>1, AppendProperties
  <2>3. n \in Seq(Samples) /\ n # <<>> /\ Len(n) = Len(m) + 1
    BY <2>1, AppendProperties
  <2>4. (\A i \in 1 .. Len(m) : n[i] = m[i]) /\ n[Len(m) + 1] = sample
    BY <2>1, AppendProperties
  <2> QED
    BY <2>1, <2>2, <2>3, <2>4
<1>5. Ends(g, n)
  BY <1>2, <1>3, EndsGrow
<1> HIDE DEF g, n
<1>6. k \in Seq(Samples) /\ Len(k) <= HistoryLength /\ k # <<>> /\ Ends(k, g)
  BY <1>4, Bounds, KeptOf
<1> HIDE DEF k
<1>7. Ends(k, n)
  BY <1>4, <1>5, <1>6, EndsTwice
<1>8. \A i \in 1 .. Len(m) : m[i].stamp < stamp /\ m[i].rev < revision + 1
  <2>1. CASE h = <<>>
    <3>1. Len(m) = 0
      BY <1>3, <2>1, EmptySeq
    <3> QED
      BY <3>1
  <2>2. CASE h # <<>>
    <3>1. /\ Last(h) = m[Len(m)] /\ m[Len(m)] \in Samples /\ Len(m) \in 1 .. Len(m)
          /\ \A i \in 1 .. Len(m) : m[i] \in Samples
      BY <2>2, Newest1 DEF Current
    <3>2. \A i \in 1 .. Len(m) : m[i].stamp \in Nat /\ m[i].rev \in Nat
      BY <3>1, SampleFields
    <3>3. \A i \in 1 .. Len(m) : i = Len(m) \/ m[i].stamp < m[Len(m)].stamp
      BY <1>3, <1>4, <3>1 DEF Ascends
    <3>4. m[Len(m)].stamp < stamp
      BY <1>1, <2>2, <3>1
    <3>5. revision \in Nat
      BY DEF ArmInv
    <3> SUFFICES ASSUME NEW i \in 1 .. Len(m)
                 PROVE  m[i].stamp < stamp /\ m[i].rev < revision + 1
      OBVIOUS
    <3>6. m[i].rev <= revision /\ m[i].rev \in Nat
      BY <1>3, <3>2
    <3>7. m[i].stamp \in Nat /\ m[Len(m)].stamp \in Nat
      BY <3>1, <3>2
    <3> QED
      BY <3>3, <3>4, <3>5, <3>6, <3>7
  <2> QED
    BY <2>1, <2>2
<1>9. Ascends(n)
  <2> SUFFICES ASSUME NEW i \in 1 .. Len(n), NEW j \in 1 .. Len(n), i < j
               PROVE  n[i].stamp < n[j].stamp /\ n[i].rev < n[j].rev
    BY DEF Ascends
  <2>1. i \in 1 .. Len(m) /\ n[i] = m[i]
    BY <1>4
  <2>2. CASE j \in 1 .. Len(m)
    BY <1>3, <1>4, <2>1, <2>2 DEF Ascends
  <2>3. CASE j = Len(m) + 1
    BY <1>2, <1>4, <1>8, <2>1, <2>3
  <2> QED
    BY <1>4, <2>2, <2>3
<1>10. \A i \in 1 .. Len(n) : n[i].at <= mono' /\ n[i].rev <= revision'
  <2> TAKE i \in 1 .. Len(n)
  <2>1. mono' = mono /\ mono \in Int /\ revision \in Nat /\ revision' = revision + 1
    BY <1>1 DEF clockVars, ClockInv, ArmInv
  <2>2. CASE i \in 1 .. Len(m)
    <3>1. m[i].rev \in Nat
      BY <1>3, <2>2, ElementOfSeq, SampleFields
    <3> QED
      BY <1>3, <1>4, <2>1, <2>2, <3>1
  <2>3. CASE i = Len(m) + 1
    BY <1>2, <1>4, <2>1, <2>3
  <2> QED
    BY <1>4, <2>2, <2>3
<1>11. ArmInv'
  <2>1. history' \in [Arms -> Seq(Samples)] /\ measured' \in [Arms -> Seq(Samples)] /\ revision' \in Nat
    BY <1>1, <1>2, <1>4, <1>6 DEF ArmInv
  <2>2. history'[arm] = k /\ measured'[arm] = n
    BY <1>1 DEF ArmInv
  <2>3. ASSUME NEW a \in Arms
        PROVE  /\ Len(history'[a]) <= HistoryLength /\ Ends(history'[a], measured'[a])
               /\ history'[a] = <<>> => measured'[a] = <<>>
               /\ \A i \in 1 .. Len(measured'[a]) : measured'[a][i].at <= mono' /\ measured'[a][i].rev <= revision'
               /\ Ascends(measured'[a])
    <3>1. CASE a = arm
      BY <1>6, <1>7, <1>9, <1>10, <2>2, <3>1
    <3>2. CASE a # arm
      <4>1. history'[a] = history[a] /\ measured'[a] = measured[a] /\ mono' = mono
        BY <1>1, <3>2 DEF ArmInv, clockVars
      <4>2. \A i \in 1 .. Len(measured[a]) : measured[a][i].rev <= revision + 1
        <5> TAKE i \in 1 .. Len(measured[a])
        <5>1. measured[a] \in Seq(Samples)
          BY DEF ArmInv
        <5>2. measured[a][i].rev \in Nat
          BY <5>1, ElementOfSeq, SampleFields
        <5> QED
          BY <5>2 DEF ArmInv
      <4> QED
        BY <1>1, <4>1, <4>2 DEF ArmInv
    <3> QED
      BY <3>1, <3>2
  <2> QED
    BY <2>1, <2>3 DEF ArmInv
<1>12. \A a \in Arms : Len(measured[a]) <= Len(measured'[a])
              /\ \A i \in 1 .. Len(measured[a]) : measured'[a][i] = measured[a][i]
  <2> TAKE a \in Arms
  <2>1. CASE a = arm
    <3>1. measured'[arm] = n
      BY <1>1 DEF ArmInv
    <3> QED
      BY <1>4, <2>1, <3>1
  <2>2. CASE a # arm
    <3>1. measured'[a] = measured[a] /\ Len(measured[a]) \in Nat
      BY <1>1, <2>2, LenProperties DEF ArmInv
    <3> QED
      BY <3>1
  <2> QED
    BY <2>1, <2>2
<1> QED
  BY <1>11, <1>12

-------------------------------------------------------------------------------
(* Measured at rest.                                                         *)

\* From i to j no sample moves and none is missing.
Rests(m, i, j) ==
  /\ \A k \in i .. j : ~m[k].moving
  /\ \A k \in i .. j - 1 : m[k + 1].stamp - m[k].stamp <= MaxGap

\* What stationary_interval finds in the history it finds among all samples: it takes the
\* last one at or before the start.
LEMMA IntervalAmongAll ==
  ASSUME ArmInv, NEW a \in Arms, NEW start, NEW end, StationaryInterval(a, start, end)
  PROVE  LET m == measured[a] IN
         \E i, j \in 1 .. Len(m) :
           /\ i <= j /\ m[i].stamp <= start /\ m[j].stamp >= end /\ Rests(m, i, j)
           /\ \A k \in 1 .. Len(m) : m[k].stamp <= start => k <= i
<1> DEFINE h == history[a]  m == measured[a]  n == Len(h)  off == Len(m) - n
           before == {i \in DOMAIN h : h[i].stamp <= start}
           after == {i \in DOMAIN h : h[i].stamp >= end}
           i == Max(before)  j == Min(after)
<1>1. /\ before # {} /\ after # {} /\ i <= j
      /\ \A k \in i .. j : ~h[k].moving
      /\ \A k \in i .. j - 1 : h[k + 1].stamp - h[k].stamp <= MaxGap
  BY DEF StationaryInterval
<1>2. /\ h \in Seq(Samples) /\ m \in Seq(Samples) /\ Ends(h, m)
      /\ n \in Nat /\ Len(m) \in Nat /\ off \in Nat /\ DOMAIN h = 1 .. n
      /\ \A k \in 1 .. n : h[k] = m[k + off]
  <2>1. h \in Seq(Samples) /\ m \in Seq(Samples) /\ Ends(h, m)
    BY DEF ArmInv
  <2>2. n \in Nat /\ Len(m) \in Nat /\ DOMAIN h = 1 .. n
    BY <2>1, LenProperties
  <2> HIDE DEF h, m
  <2>3. n <= Len(m) /\ \A k \in 1 .. n : h[k] = m[k + off]
    BY <2>1 DEF Ends
  <2> QED
    BY <2>1, <2>2, <2>3
<1>3. before \in SUBSET (0 .. n) /\ after \in SUBSET Nat
  BY <1>2
<1>4. i \in before /\ j \in after /\ \A k \in before : i >= k
  <2> HIDE DEF before, after, n
  <2> QED
    BY <1>1, <1>2, <1>3, MaxIs, MinIs
<1>5. i \in 1 .. n /\ j \in 1 .. n /\ h[i].stamp <= start /\ h[j].stamp >= end
      /\ \A k \in 1 .. n : h[k].stamp <= start => k <= i
  BY <1>2, <1>4
<1> HIDE DEF i, j, h, m, n, off
<1> DEFINE x == i + off  y == j + off
<1>6. x \in 1 .. Len(m) /\ y \in 1 .. Len(m) /\ x <= y
  <2>1. off = Len(m) - n
    BY DEF off
  <2> QED
    BY <1>1, <1>2, <1>5, <2>1
<1>7. m[x].stamp <= start /\ m[y].stamp >= end
  BY <1>2, <1>5
<1>8. \A k \in x .. y : ~m[k].moving
  <2> TAKE k \in x .. y
  <2>1. k - off \in i .. j /\ k - off \in 1 .. n /\ (k - off) + off = k
    BY <1>2, <1>5
  <2>2. h[k - off] = m[k] /\ ~h[k - off].moving
    BY <1>1, <1>2, <2>1
  <2> QED
    BY <2>2
<1>9. \A k \in x .. y - 1 : m[k + 1].stamp - m[k].stamp <= MaxGap
  <2> TAKE k \in x .. y - 1
  <2>1. /\ k - off \in i .. j - 1 /\ k - off \in 1 .. n /\ (k - off) + 1 \in 1 .. n
        /\ (k - off) + off = k /\ ((k - off) + 1) + off = k + 1
    BY <1>2, <1>5
  <2>2. h[k - off] = m[k] /\ h[(k - off) + 1] = m[k + 1]
    BY <1>2, <2>1
  <2> QED
    BY <1>1, <2>1, <2>2
<1>10. \A k \in 1 .. Len(m) : m[k].stamp <= start => k <= x
  <2> SUFFICES ASSUME NEW k \in 1 .. Len(m), m[k].stamp <= start
               PROVE  k <= x
    OBVIOUS
  <2>1. CASE k <= off
    BY <1>2, <1>5, <2>1
  <2>2. CASE k > off
    <3>1. k - off \in 1 .. n /\ (k - off) + off = k
      BY <1>2, <2>2 DEF off
    <3>2. k - off <= i
      BY <1>2, <1>5, <3>1
    <3> QED
      BY <1>2, <1>5, <3>2
  <2> QED
    BY <1>2, <2>1, <2>2
<1> HIDE DEF x, y
<1> QED
  BY <1>6, <1>7, <1>8, <1>9, <1>10 DEF Rests, m

LEMMA IntervalIsStill ==
  ASSUME ArmInv, NEW a \in Arms, NEW start, NEW end, StationaryInterval(a, start, end)
  PROVE  StillFrom(a, start, end)
<1>1. DOMAIN measured[a] = 1 .. Len(measured[a])
  BY LenProperties DEF ArmInv
<1> QED
  BY <1>1, IntervalAmongAll DEF StillFrom, Rests

LEMMA WaitIs ==
  ASSUME DwellInv, settle.waiting
  PROVE  settle \in Waits /\ settle # NoWait
<1>1. NoWait.waiting = FALSE
  BY DEF NoWait
<1> QED
  BY <1>1 DEF DwellInv

\* A dwell that is over, and in which nothing moved, lasted long enough.
LEMMA SettledIsMeasured ==
  ASSUME ClockInv, ArmInv, DwellInv, Settled, NEW a \in settle.arms
  PROVE  LET m == measured[a] IN
         \E i \in 1 .. Len(m) :
           /\ m[i].stamp >= settle.stamp /\ m[i].at <= mono - Dwell
           /\ Dwell > 0 => i < Len(m)
           /\ Rests(m, i, Len(m))
<1> DEFINE m == measured[a]  n == Len(m)  d == DwellFrom
<1>1. /\ settle.waiting /\ history[a] # <<>> /\ Current(a).stamp >= settle.stamp /\ ~Current(a).moving
      /\ StillSince(d) /\ DwellOver(d)
  BY DEF Settled, NewMeasurement, MeasuredAfter
<1> a \in Arms
  BY <1>1, WaitIs DEF Waits
<1>2. n \in 1 .. n /\ n \in Nat /\ Current(a) = m[n] /\ \A i \in 1 .. n : m[i] \in Samples
  BY <1>1, Newest1
<1>3. m[n].at <= mono /\ Ascends(m)
  BY <1>2 DEF ArmInv
<1>4. mono \in Int /\ Dwell \in Nat
  BY Bounds DEF ClockInv
<1> HIDE DEF m, n, d
<1>5. CASE Dwell = 0
  <2>1. Rests(m, n, n) /\ m[n].at <= mono - Dwell
    BY <1>1, <1>2, <1>3, <1>4, <1>5, SampleFields DEF Rests
  <2> QED
    BY <1>1, <1>2, <1>5, <2>1 DEF m, n
<1>6. CASE Dwell > 0
  <2>1. /\ mono - d.since >= Dwell /\ ArmRevision(a) > d.revs[a]
        /\ StationaryInterval(a, d.stamps[a], Current(a).stamp)
    BY <1>1, <1>6 DEF DwellOver, StillSince
  <2>2. settle.stable # NoDwell
    <3> SUFFICES ASSUME settle.stable = NoDwell
                 PROVE  FALSE
      OBVIOUS
    <3>1. d.since = mono
      BY DEF d, DwellFrom
    <3> QED
      BY <1>4, <1>6, <2>1, <3>1
  <2>3. d = settle.stable
    BY <2>2 DEF d, DwellFrom
  <2>4. d.since \in Nat
    <3>1. settle \in Waits
      <4>1. NoWait.waiting = FALSE
        BY DEF NoWait
      <4> QED
        BY <1>1, <4>1 DEF DwellInv
    <3>2. settle.stable \in Dwells
      BY <2>2, <3>1 DEF Waits
    <3> QED
      BY <2>3, <3>2 DEF Dwells
  <2>5. PICK b \in 1 .. n : m[b].stamp = d.stamps[a] /\ m[b].stamp >= settle.stamp
                             /\ m[b].rev = d.revs[a] /\ m[b].at <= d.since
    BY <1>1, <2>2, <2>3 DEF DwellInv, Began, m, n
  <2>6. PICK i, j \in 1 .. n :
          /\ i <= j /\ m[i].stamp <= d.stamps[a] /\ m[j].stamp >= m[n].stamp /\ Rests(m, i, j)
          /\ \A k \in 1 .. n : m[k].stamp <= d.stamps[a] => k <= i
    BY <1>2, <2>1, IntervalAmongAll DEF m, n
  <2>7. m[i].stamp \in Nat /\ m[b].stamp \in Nat /\ m[j].stamp \in Nat /\ m[n].stamp \in Nat
        /\ m[b].at \in Nat /\ m[b].rev \in Nat /\ m[n].rev \in Nat
    BY <1>2, SampleFields
  <2>8. b = i
    <3>1. b <= i
      BY <2>5, <2>6, <2>7
    <3>2. ~(b < i)
      BY <1>3, <2>5, <2>6, <2>7 DEF Ascends, n
    <3> QED
      BY <1>2, <3>1, <3>2
  <2>9. j = n
    <3>1. j < n => m[j].stamp < m[n].stamp
      BY <1>2, <1>3 DEF Ascends, n
    <3>2. ~(j < n)
      BY <2>6, <2>7, <3>1
    <3> QED
      BY <1>2, <3>2
  <2>10. b # n
    BY <1>1, <1>2, <2>1, <2>5, <2>7 DEF ArmRevision
  <2>11. b < n /\ m[b].at <= mono - Dwell
    BY <1>2, <1>4, <2>1, <2>4, <2>5, <2>7, <2>10
  <2> QED
    BY <2>5, <2>6, <2>8, <2>9, <2>11 DEF m, n
<1> QED
  BY <1>4, <1>5, <1>6

-------------------------------------------------------------------------------
(* The wait for a dwell.                                                     *)

LEMMA RevisionsAre ==
  ASSUME ArmInv, NEW arms \in SUBSET Arms
  PROVE  ArmRevisions(arms) \in PerArm
<1>1. ASSUME NEW a \in Arms
      PROVE  ArmRevision(a) \in Nat
  <2>1. CASE history[a] = <<>>
    BY <2>1 DEF ArmRevision
  <2>2. CASE history[a] # <<>>
    <3>1. Current(a) \in Samples
      BY <2>2, Newest1
    <3> QED
      BY <2>2, <3>1, SampleFields DEF ArmRevision
  <2> QED
    BY <2>1, <2>2
<1>2. ArmRevisions(arms) \in [arms -> Nat]
  BY <1>1 DEF ArmRevisions
<1> QED
  BY <1>2 DEF PerArm

\* What was measured stays measured.
LEMMA DwellKept ==
  ASSUME DwellInv, settle' = settle, mono \in Int, mono' \in Int, mono <= mono', ArmInv,
         \A a \in Arms : Len(measured[a]) <= Len(measured'[a])
           /\ Len(measured'[a]) \in Nat
           /\ \A i \in 1 .. Len(measured[a]) : measured'[a][i] = measured[a][i]
  PROVE  DwellInv'
<1>1. settle' \in {NoWait} \cup Waits
  BY DEF DwellInv
<1>2. ASSUME settle.waiting, settle.stable # NoDwell
      PROVE  settle.stable.since <= mono' /\ \A a \in settle.arms : Began(settle.stable, measured'[a], a, settle.stamp)
  <2>1. settle.stable.since <= mono /\ \A a \in settle.arms : Began(settle.stable, measured[a], a, settle.stamp)
    BY <1>2 DEF DwellInv
  <2> settle.arms \subseteq Arms
    BY <1>2, WaitIs DEF Waits
  <2>2. settle.stable.since \in Nat
    BY <1>2, WaitIs DEF Waits, Dwells
  <2>3. \A a \in Arms : Len(measured[a]) \in Nat
    BY LenProperties DEF ArmInv
  <2>4. \A a \in settle.arms : Began(settle.stable, measured'[a], a, settle.stamp)
    BY <2>1, <2>3 DEF Began
  <2> QED
    BY <2>1, <2>2, <2>4
<1> QED
  BY <1>1, <1>2 DEF DwellInv

LEMMA DwellBegins ==
  ASSUME ClockInv, ArmInv, DwellInv, settle.waiting, NewMeasurement
  PROVE  /\ DwellFrom \in Dwells /\ DwellFrom.since <= mono
         /\ \A a \in settle.arms : Began(DwellFrom, measured[a], a, settle.stamp)
<1>1. settle \in Waits /\ settle.arms \subseteq Arms
  BY WaitIs DEF Waits
<1>2. CASE settle.stable # NoDwell
  <2>1. DwellFrom = settle.stable /\ settle.stable \in Dwells
    BY <1>1, <1>2 DEF DwellFrom, Waits
  <2> QED
    BY <1>2, <2>1 DEF DwellInv
<1>3. CASE settle.stable = NoDwell
  <2> DEFINE stamps == [a \in settle.arms |-> Current(a).stamp]
             revs == ArmRevisions(settle.arms)
             d == [since |-> mono, revs |-> revs, stamps |-> stamps]
  <2>1. DwellFrom = d
    BY <1>3 DEF DwellFrom
  <2>2. \A a \in settle.arms : a \in Arms /\ history[a] # <<>> /\ Current(a).stamp >= settle.stamp
    BY <1>1 DEF NewMeasurement, MeasuredAfter
  <2>3. \A a \in settle.arms : Current(a).stamp \in Nat
    BY <2>2, Newest1, SampleFields
  <2>4. stamps \in PerArm /\ revs \in PerArm /\ mono \in Nat
    <3>1. stamps \in [settle.arms -> Nat]
      BY <2>3
    <3>2. stamps \in PerArm
      BY <1>1, <3>1 DEF PerArm
    <3> QED
      BY <1>1, <3>2, RevisionsAre, Bounds DEF ClockInv
  <2>5. d \in Dwells /\ d.since = mono /\ d.revs = ArmRevisions(settle.arms) /\ d.stamps = stamps
    <3>1. revs = ArmRevisions(settle.arms)
      OBVIOUS
    <3> HIDE DEF stamps, revs
    <3> QED
      BY <2>4, <3>1 DEF Dwells
  <2> HIDE DEF d
  <2>6. ASSUME NEW a \in settle.arms
        PROVE  Began(d, measured[a], a, settle.stamp)
    <3> DEFINE m == measured[a]
    <3>1. Len(m) \in 1 .. Len(m) /\ Current(a) = m[Len(m)]
      BY <2>2, Newest1
    <3>2. ArmRevision(a) = Current(a).rev
      BY <2>2 DEF ArmRevision
    <3>3. m[Len(m)].at <= mono
      BY <2>2, <3>1 DEF ArmInv
    <3>4. d.stamps[a] = Current(a).stamp /\ d.revs[a] = Current(a).rev
      BY <2>5, <3>2 DEF ArmRevisions
    <3> QED
      BY <2>2, <2>5, <3>1, <3>3, <3>4 DEF Began
  <2> QED
    <3>1. d.since <= mono
      BY <2>4, <2>5
    <3> QED
      BY <2>1, <2>5, <2>6, <3>1
<1> QED
  BY <1>2, <1>3

LEMMA CheckSettledKeeps ==
  ASSUME ClockInv, ArmInv, DwellInv, CheckSettled, UNCHANGED <<mono, measured>>
  PROVE  DwellInv'
<1>1. CASE settle' = settle
  BY <1>1 DEF DwellInv, Began
<1>2. CASE settle' = NoWait
  <2>1. NoWait.waiting = FALSE
    BY DEF NoWait
  <2>2. settle'.waiting = FALSE
    BY <1>2, <2>1
  <2> QED
    BY <1>2, <2>2 DEF DwellInv
<1>3. ASSUME settle.waiting, NewMeasurement, KeepsDwell, settle' = [settle EXCEPT !.stable = DwellFrom]
      PROVE  DwellInv'
  <2> DEFINE d == DwellFrom
  <2>1. d \in Dwells /\ d.since <= mono /\ \A a \in settle.arms : Began(d, measured[a], a, settle.stamp)
    BY <1>3, DwellBegins
  <2> HIDE DEF d
  <2>2. settle \in Waits
    BY <1>3, WaitIs
  <2>3. settle' = [settle EXCEPT !.stable = d]
    BY <1>3 DEF d
  <2>4. settle' \in Waits /\ settle'.stable = d /\ settle'.stamp = settle.stamp /\ settle'.arms = settle.arms
    BY <2>1, <2>2, <2>3 DEF Waits
  <2> QED
    BY <2>1, <2>4 DEF DwellInv, Began
<1>4. ASSUME settle.waiting, settle' = [settle EXCEPT !.stable = NoDwell]
      PROVE  DwellInv'
  <2>1. settle \in Waits
    BY <1>4, WaitIs
  <2>2. settle' \in Waits /\ settle'.stable = NoDwell
    BY <1>4, <2>1 DEF Waits
  <2> QED
    BY <2>2 DEF DwellInv
<1> QED
  BY <1>1, <1>2, <1>3, <1>4 DEF CheckSettled

LEMMA WaitStateKeeps ==
  ASSUME ClockInv, ArmInv, NEW arms \in SUBSET Arms, WaitState(arms)
  PROVE  DwellInv'
<1> DEFINE w == [waiting |-> TRUE, arms |-> arms, stamp |-> now, revs |-> ArmRevisions(arms), stable |-> NoDwell,
                 deadline |-> mono + Timeout]
<1>1. settle' = w
  BY DEF WaitState
<1>2. now \in Nat /\ mono + Timeout \in Nat
  BY Bounds DEF ClockInv
<1>3. ASSUME NEW revs, revs \in PerArm
      PROVE  [waiting |-> TRUE, arms |-> arms, stamp |-> now, revs |-> revs, stable |-> NoDwell,
              deadline |-> mono + Timeout] \in Waits
  BY <1>2, <1>3 DEF Waits
<1>4. w \in Waits /\ w.stable = NoDwell
  BY <1>3, RevisionsAre
<1> HIDE DEF w
<1> QED
  BY <1>1, <1>4 DEF DwellInv

-------------------------------------------------------------------------------
(* The images.                                                               *)

LEMMA FrameFields ==
  /\ \A f \in Frames : f.stamp \in Nat /\ f.seq \in Nat /\ f.wipe \in Nat
  /\ \A d \in Depths : d.stamp \in Nat /\ d.wipe \in Nat
BY DEF Frames, Depths

LEMMA LastSequence ==
  ASSUME NEW s \in Seq(Frames)
  PROVE  (IF s = <<>> THEN 0 ELSE Last(s).seq) \in Nat
<1>1. CASE s # <<>>
  <2>1. Len(s) \in 1 .. Len(s)
    BY <1>1, LenProperties, EmptySeq
  <2>2. Last(s).seq \in Nat
    BY <2>1, ElementOfSeq, FrameFields DEF Last
  <2> QED
    BY <1>1, <2>2
<1> QED
  BY <1>1

LEMMA SequenceIs ==
  ASSUME NEW c \in Cameras
  PROVE  (ImageInv => Sequence(c) \in Nat) /\ (ImageInv' => Sequence(c)' \in Nat)
<1>1. ImageInv => Sequence(c) \in Nat
  BY LastSequence DEF ImageInv, Sequence
<1>2. ImageInv' => Sequence(c)' \in Nat
  BY LastSequence DEF ImageInv, Sequence
<1> QED
  BY <1>1, <1>2

\* A frame that arrives, or is known, leaves the camera's sequence where it is or ahead.
LEMMA FrameKeeps ==
  ASSUME ImageInv, NEW c \in Cameras, NEW stamp \in Nat,
         UNCHANGED <<depth, wipes, calibrated, badPlane>>,
         LET known == \E f \in ToSet(frames[c]) : f.stamp = stamp
             frame == [stamp |-> stamp, seq |-> Sequence(c) + 1, wipe |-> wipes[c]] IN
         frames' = IF known THEN frames
                   ELSE [frames EXCEPT ![c] = Kept(Append(@, frame), BufferSize)]
  PROVE  ImageInv' /\ \A x \in Cameras : Sequence(x) <= Sequence(x)'
<1> DEFINE frame == [stamp |-> stamp, seq |-> Sequence(c) + 1, wipe |-> wipes[c]]
           g == Append(frames[c], frame)
           k == Kept(g, BufferSize)
<1>1. \A x \in Cameras : Sequence(x) \in Nat
  BY SequenceIs
<1>2. CASE frames' = frames
  <2>1. \A x \in Cameras : Sequence(x)' = Sequence(x)
    BY <1>2 DEF Sequence
  <2> QED
    BY <1>1, <1>2, <2>1 DEF ImageInv
<1>3. CASE frames' = [frames EXCEPT ![c] = k]
  <2>1. frame \in Frames /\ frame.wipe = wipes[c] /\ frame.seq = Sequence(c) + 1
    BY <1>1 DEF Frames, ImageInv
  <2> HIDE DEF frame
  <2>2. frames[c] \in Seq(Frames) /\ \A i \in 1 .. Len(frames[c]) : frames[c][i].wipe = wipes[c]
    BY DEF ImageInv
  <2>3. /\ g \in Seq(Frames) /\ g # <<>> /\ Len(g) = Len(frames[c]) + 1 /\ Len(frames[c]) \in Nat
        /\ \A i \in 1 .. Len(frames[c]) : g[i] = frames[c][i]
        /\ g[Len(frames[c]) + 1] = frame
    BY <2>1, <2>2, AppendProperties, LenProperties, EmptySeq
  <2>4. Last(g) = frame /\ \A i \in 1 .. Len(g) : g[i].wipe = wipes[c]
    BY <2>1, <2>2, <2>3 DEF Last
  <2> HIDE DEF g
  <2>5. k \in Seq(Frames) /\ Len(k) <= BufferSize /\ Ends(k, g) /\ k # <<>> /\ Last(k) = frame
    BY <2>3, <2>4, Bounds, KeptOf
  <2>6. \A i \in 1 .. Len(k) : k[i].wipe = wipes[c]
    <3> TAKE i \in 1 .. Len(k)
    <3>1. i + (Len(g) - Len(k)) \in 1 .. Len(g)
      BY <2>3, <2>5, LenProperties DEF Ends
    <3> QED
      BY <2>4, <2>5, <3>1 DEF Ends
  <2> HIDE DEF k
  <2>7. frames' \in [Cameras -> Seq(Frames)] /\ frames'[c] = k /\ \A x \in Cameras \ {c} : frames'[x] = frames[x]
    BY <1>3, <2>5 DEF ImageInv
  <2>8. ImageInv'
    BY <2>5, <2>6, <2>7 DEF ImageInv
  <2>9. ASSUME NEW x \in Cameras
        PROVE  Sequence(x) <= Sequence(x)'
    <3>1. CASE x = c
      <4>1. Sequence(x)' = Sequence(c) + 1
        BY <2>1, <2>5, <2>7, <3>1 DEF Sequence
      <4> QED
        BY <1>1, <3>1, <4>1
    <3>2. CASE x # c
      <4>1. Sequence(x)' = Sequence(x)
        BY <2>7, <3>2 DEF Sequence
      <4> QED
        BY <1>1, <4>1
    <3> QED
      BY <3>1, <3>2
  <2> QED
    BY <2>8, <2>9
<1> QED
  BY <1>2, <1>3

LEMMA DepthKeeps ==
  ASSUME ImageInv, NEW c \in Cameras, NEW stamp \in Nat,
         UNCHANGED <<frames, wipes, calibrated, badPlane>>,
         LET image == [stamp |-> stamp, wipe |-> wipes[c]]
             same == {i \in DOMAIN depth[c] : depth[c][i].stamp = stamp} IN
         depth' = [depth EXCEPT ![c] =
           IF same # {} THEN [i \in DOMAIN @ |-> IF i \in same THEN image ELSE @[i]]
           ELSE Kept(Append(@, image), BufferSize)]
  PROVE  ImageInv' /\ \A x \in Cameras : Sequence(x)' = Sequence(x)
<1> DEFINE image == [stamp |-> stamp, wipe |-> wipes[c]]
           same == {i \in DOMAIN depth[c] : depth[c][i].stamp = stamp}
           s == depth[c]
           replaced == [i \in DOMAIN s |-> IF i \in same THEN image ELSE s[i]]
           g == Append(s, image)
           k == Kept(g, BufferSize)
<1>1. image \in Depths /\ image.wipe = wipes[c]
  BY DEF Depths, ImageInv
<1>2. s \in Seq(Depths) /\ Len(s) \in Nat /\ DOMAIN s = 1 .. Len(s) /\ Len(s) <= BufferSize
      /\ \A i \in 1 .. Len(s) : s[i].wipe = wipes[c] /\ s[i] \in Depths
  <2>1. s \in Seq(Depths)
    BY DEF ImageInv
  <2>2. \A i \in 1 .. Len(s) : s[i] \in Depths
    BY <2>1, ElementOfSeq
  <2> QED
    BY <2>1, <2>2, LenProperties DEF ImageInv
<1>3. depth' = [depth EXCEPT ![c] = replaced] \/ depth' = [depth EXCEPT ![c] = k]
  OBVIOUS
<1> HIDE DEF image, same
<1>4. /\ replaced \in Seq(Depths) /\ Len(replaced) <= BufferSize
      /\ \A i \in 1 .. Len(replaced) : replaced[i].wipe = wipes[c]
  <2> HIDE DEF s
  <2>1. replaced = [i \in 1 .. Len(s) |-> IF i \in same THEN image ELSE s[i]]
    BY <1>2
  <2>2. \A i \in 1 .. Len(s) : (IF i \in same THEN image ELSE s[i]) \in Depths
    BY <1>1, <1>2
  <2>3. replaced \in Seq(Depths) /\ Len(replaced) = Len(s)
    BY <1>2, <2>1, <2>2
  <2>4. \A i \in 1 .. Len(s) : replaced[i].wipe = wipes[c]
    BY <1>1, <1>2, <2>1
  <2> QED
    BY <1>2, <2>3, <2>4
<1>5. /\ k \in Seq(Depths) /\ Len(k) <= BufferSize
      /\ \A i \in 1 .. Len(k) : k[i].wipe = wipes[c]
  <2> HIDE DEF s
  <2>1. /\ g \in Seq(Depths) /\ Len(g) = Len(s) + 1
        /\ \A i \in 1 .. Len(s) : g[i] = s[i]
        /\ g[Len(s) + 1] = image
    BY <1>1, <1>2, AppendProperties
  <2>2. \A i \in 1 .. Len(g) : g[i].wipe = wipes[c]
    BY <1>1, <1>2, <2>1
  <2> HIDE DEF g
  <2>3. k \in Seq(Depths) /\ Len(k) <= BufferSize /\ Ends(k, g)
    BY <2>1, Bounds, KeptOf
  <2>4. \A i \in 1 .. Len(k) : k[i].wipe = wipes[c]
    <3> TAKE i \in 1 .. Len(k)
    <3>1. i + (Len(g) - Len(k)) \in 1 .. Len(g)
      BY <1>2, <2>1, <2>3, LenProperties DEF Ends
    <3> QED
      BY <2>2, <2>3, <3>1 DEF Ends
  <2> QED
    BY <2>3, <2>4
<1> HIDE DEF replaced, k
<1>6. ASSUME NEW t \in Seq(Depths), Len(t) <= BufferSize, \A i \in 1 .. Len(t) : t[i].wipe = wipes[c],
             depth' = [depth EXCEPT ![c] = t]
      PROVE  ImageInv'
  BY <1>6 DEF ImageInv
<1>7. \A x \in Cameras : Sequence(x)' = Sequence(x)
  BY DEF Sequence
<1> QED
  BY <1>3, <1>4, <1>5, <1>6, <1>7

\* The images of the cameras of S are discarded.
LEMMA DiscardKeeps ==
  ASSUME ImageInv, NEW S \in SUBSET Cameras, calibrated' = calibrated, badPlane' \subseteq Planes,
         frames' = [x \in Cameras |-> IF x \in S THEN <<>> ELSE frames[x]],
         depth' = [x \in Cameras |-> IF x \in S THEN <<>> ELSE depth[x]],
         wipes' = [x \in Cameras |-> IF x \in S THEN wipes[x] + 1 ELSE wipes[x]]
  PROVE  ImageInv' /\ \A x \in Cameras \ S : Sequence(x)' = Sequence(x)
<1>1. <<>> \in Seq(Frames) /\ <<>> \in Seq(Depths) /\ Len(<<>>) = 0 /\ BufferSize \in Nat
  BY EmptySeq, Bounds
<1>2. /\ frames' \in [Cameras -> Seq(Frames)] /\ depth' \in [Cameras -> Seq(Depths)] /\ wipes' \in [Cameras -> Nat]
  BY <1>1 DEF ImageInv
<1>3. ASSUME NEW x \in Cameras
      PROVE  /\ Len(frames'[x]) <= BufferSize /\ Len(depth'[x]) <= BufferSize
             /\ \A i \in 1 .. Len(frames'[x]) : frames'[x][i].wipe = wipes'[x]
             /\ \A i \in 1 .. Len(depth'[x]) : depth'[x][i].wipe = wipes'[x]
  <2>1. CASE x \in S
    <3>1. frames'[x] = <<>> /\ depth'[x] = <<>>
      BY <2>1
    <3> QED
      BY <1>1, <3>1
  <2>2. CASE x \notin S
    <3>1. frames'[x] = frames[x] /\ depth'[x] = depth[x] /\ wipes'[x] = wipes[x]
      BY <2>2
    <3> QED
      BY <3>1 DEF ImageInv
  <2> QED
    BY <2>1, <2>2
<1>4. \A x \in Cameras \ S : Sequence(x)' = Sequence(x)
  BY DEF Sequence
<1> QED
  BY <1>2, <1>3, <1>4 DEF ImageInv

-------------------------------------------------------------------------------
(* The requests.                                                             *)

Kinds == {"rgb", "depth", "infos", "changes", "samples", "waits", "motions", "resets", "pauses", "closings"}

\* What is left of an instance is one; only a clock that moves back uses up a reset.
LEMMA SpendKeeps ==
  ASSUME IsInstance(left), NEW what \in Kinds, Spend(what)
  PROVE  /\ IsInstance(left') /\ left.resets \in Nat /\ left'.resets \in Nat
         /\ left'.resets = IF what = "resets" THEN left.resets - 1 ELSE left.resets
<1>1. left[what] \in Nat /\ left[what] > 0 /\ left' = [left EXCEPT ![what] = @ - 1]
  BY DEF IsInstance, Spend, Kinds
<1>2. left[what] - 1 \in Nat
  BY <1>1
<1>3. IsInstance(left')
  BY <1>1, <1>2 DEF IsInstance, Kinds
<1>4. left'.resets = IF what = "resets" THEN left.resets - 1 ELSE left.resets
  BY <1>1 DEF IsInstance, Kinds
<1> QED
  BY <1>3, <1>4 DEF IsInstance

\* The clock has not moved back, or a reset was used up.
TimeGoesOn ==
  /\ left.resets \in Nat /\ left'.resets \in Nat /\ left'.resets <= left.resets
  /\ now \in Nat /\ now' \in Nat /\ (left'.resets = left.resets => now <= now')

LEMMA GatewayKept ==
  ASSUME GatewayInv, UNCHANGED gatewayVars, TimeGoesOn
  PROVE  GatewayInv'
<1>1. UNCHANGED <<http, want, asked, due, posted, dropped>>
  BY DEF gatewayVars
<1>2. \A r \in Requests : want[r].resets \in Nat /\ asked[r] \in Nat
  BY DEF GatewayInv, Wants
<1>3. ASSUME NEW r \in Requests
      PROVE  /\ want[r].resets = left'.resets => asked[r] <= now'
             /\ asked[r] = 0 \/ left'.resets <= want[r].resets
             /\ http[r] \in {"sent", "timeout"} => want[r].camera \in Cameras
  <2>1. /\ want[r].resets = left.resets => asked[r] <= now
        /\ asked[r] = 0 \/ left.resets <= want[r].resets
        /\ http[r] \in {"sent", "timeout"} => want[r].camera \in Cameras
    BY DEF GatewayInv
  <2>2. /\ left.resets \in Nat /\ left'.resets \in Nat /\ left'.resets <= left.resets
        /\ now \in Nat /\ now' \in Nat /\ (left'.resets = left.resets => now <= now')
    BY DEF TimeGoesOn
  <2>3. want[r].resets = left'.resets => asked[r] <= now'
    BY <1>2, <2>1, <2>2
  <2>4. asked[r] = 0 \/ left'.resets <= want[r].resets
    BY <1>2, <2>1, <2>2
  <2> QED
    BY <2>1, <2>3, <2>4
<1> QED
  BY <1>1, <1>3 DEF GatewayInv

\* A request that still waits has lost nothing it waits for.
LEMMA RequestsGo ==
  ASSUME RequestInv, GatewayInv, UNCHANGED <<want, asked>>, TimeGoesOn,
         \A r \in Requests : http'[r] = "idle" => http[r] = "idle",
         motionBusy' \in BOOLEAN, closing' \in BOOLEAN, motionEnd' \in Nat,
         pending' \in [Requests -> {NoRequest} \cup Waiting], reply' = [r \in Requests |-> reply'[r]],
         \A r \in Requests :
           pending'[r].waiting =>
             /\ pending[r].waiting /\ pending'[r] = pending[r] /\ reply'[r] = reply[r]
             /\ \A c \in Cameras : c = pending[r].camera => Sequence(c) <= Sequence(c)',
         ImageInv, ImageInv'
  PROVE  RequestInv'
<1>1. ASSUME NEW r \in Requests, pending'[r].waiting
      PROVE  /\ reply'[r] = NoReply /\ http'[r] # "idle"
             /\ pending'[r].seq <= (IF frames'[pending'[r].camera] = <<>> THEN 0 ELSE Last(frames'[pending'[r].camera]).seq)
             /\ (want'[r].resets = left'.resets => asked'[r] <= pending'[r].stamp)
  <2>1. /\ pending[r].waiting /\ pending'[r] = pending[r] /\ reply'[r] = reply[r]
        /\ \A c \in Cameras : c = pending[r].camera => Sequence(c) <= Sequence(c)'
    BY <1>1
  <2>2. pending[r] \in Waiting
    <3>1. NoRequest.waiting = FALSE
      BY DEF NoRequest
    <3> QED
      BY <2>1, <3>1 DEF RequestInv
  <2>3. pending[r].camera \in Cameras /\ pending[r].seq \in Nat
    BY <2>2 DEF Waiting
  <2>4. reply'[r] = NoReply /\ http'[r] # "idle"
    BY <2>1 DEF RequestInv
  <2>5. PICK c \in Cameras : c = pending[r].camera
    BY <2>3
  <2>6. Sequence(c) <= Sequence(c)' /\ pending[r].seq <= Sequence(c)
    BY <2>1, <2>5 DEF RequestInv
  <2>7. Sequence(c) \in Nat /\ Sequence(c)' \in Nat
    BY SequenceIs
  <2>8. pending[r].seq <= Sequence(c)'
    BY <2>3, <2>6, <2>7
  <2>9. pending'[r].seq <= (IF frames'[pending'[r].camera] = <<>> THEN 0 ELSE Last(frames'[pending'[r].camera]).seq)
    BY <2>1, <2>5, <2>8 DEF Sequence
  <2>10. want'[r].resets = left'.resets => asked'[r] <= pending'[r].stamp
    <3>1. (asked[r] = 0 \/ left.resets <= want[r].resets) /\ want[r].resets \in Nat
      BY DEF GatewayInv, Wants
    <3>2. left.resets \in Nat /\ left'.resets \in Nat /\ left'.resets <= left.resets
      BY DEF TimeGoesOn
    <3>3. want[r].resets = left'.resets => asked[r] = 0 \/ want[r].resets = left.resets
      BY <3>1, <3>2
    <3>4. want[r].resets = left.resets => asked[r] <= pending[r].stamp
      BY <2>1 DEF RequestInv
    <3>5. pending[r].stamp \in Nat
      BY <2>2 DEF Waiting
    <3>6. want[r].resets = left'.resets => asked[r] <= pending[r].stamp
      BY <3>3, <3>4, <3>5
    <3> QED
      BY <2>1, <3>6
  <2> QED
    BY <2>4, <2>9, <2>10
<1> QED
  BY <1>1 DEF RequestInv, Sequence

\* Requests are answered, or go on waiting as they were.
LEMMA Completed ==
  ASSUME RequestInv, NEW answers, Complete(answers)
  PROVE  /\ pending' \in [Requests -> {NoRequest} \cup Waiting] /\ reply' = [r \in Requests |-> reply'[r]]
         /\ \A r \in Requests :
              pending'[r].waiting =>
                answers[r] = NoReply /\ pending[r].waiting /\ pending'[r] = pending[r] /\ reply'[r] = reply[r]
<1>1. /\ pending' = [r \in Requests |-> IF answers[r] = NoReply THEN pending[r] ELSE NoRequest]
      /\ reply' = [r \in Requests |-> IF answers[r] = NoReply THEN reply[r] ELSE answers[r]]
  BY DEF Complete
<1>2. pending' \in [Requests -> {NoRequest} \cup Waiting]
  BY <1>1 DEF RequestInv
<1>3. reply' = [r \in Requests |-> reply'[r]]
  BY <1>1
<1>4. ASSUME NEW r \in Requests, pending'[r].waiting
      PROVE  answers[r] = NoReply /\ pending[r].waiting /\ pending'[r] = pending[r] /\ reply'[r] = reply[r]
  <2>1. CASE answers[r] = NoReply
    BY <1>1, <1>4, <2>1
  <2>2. CASE answers[r] # NoReply
    <3>1. pending'[r] = NoRequest /\ NoRequest.waiting = FALSE
      BY <1>1, <2>2 DEF NoRequest
    <3> QED
      BY <1>4, <3>1
  <2> QED
    BY <2>1, <2>2
<1> QED
  BY <1>2, <1>3, <1>4

LEMMA RequestsAnswered ==
  ASSUME RequestInv, GatewayInv, UNCHANGED gatewayVars, TimeGoesOn,
         motionBusy' \in BOOLEAN, closing' \in BOOLEAN, motionEnd' \in Nat,
         NEW answers, Complete(answers), ImageInv, ImageInv',
         \A r \in Requests : answers[r] = NoReply /\ pending[r].waiting =>
           \A c \in Cameras : c = pending[r].camera => Sequence(c) <= Sequence(c)'
  PROVE  RequestInv' /\ GatewayInv'
<1>1. /\ pending' \in [Requests -> {NoRequest} \cup Waiting] /\ reply' = [r \in Requests |-> reply'[r]]
      /\ \A r \in Requests :
           pending'[r].waiting =>
             answers[r] = NoReply /\ pending[r].waiting /\ pending'[r] = pending[r] /\ reply'[r] = reply[r]
  BY Completed
<1>2. http' = http /\ UNCHANGED <<want, asked>>
  BY DEF gatewayVars
<1>3. \A r \in Requests :
           pending'[r].waiting =>
             /\ pending[r].waiting /\ pending'[r] = pending[r] /\ reply'[r] = reply[r]
             /\ \A c \in Cameras : c = pending[r].camera => Sequence(c) <= Sequence(c)'
  BY <1>1
<1>4. \A r \in Requests : http'[r] = "idle" => http[r] = "idle"
  BY <1>2
<1>5. RequestInv'
  BY <1>1, <1>2, <1>3, <1>4, RequestsGo
<1> QED
  BY <1>5, GatewayKept

LEMMA RequestsStay ==
  ASSUME RequestInv, GatewayInv, ImageInv, ImageInv', UNCHANGED <<gatewayVars, requestVars, frames>>, TimeGoesOn,
         motionBusy' \in BOOLEAN, closing' \in BOOLEAN, motionEnd' \in Nat
  PROVE  RequestInv' /\ GatewayInv'
<1>1. UNCHANGED <<http, want, asked, pending, reply>>
  BY DEF gatewayVars, requestVars
<1>2. \A c \in Cameras : Sequence(c) <= Sequence(c)'
  <2> TAKE c \in Cameras
  <2>1. Sequence(c)' = Sequence(c) /\ Sequence(c) \in Nat
    BY SequenceIs DEF Sequence
  <2> QED
    BY <2>1
<1>3. /\ pending' \in [Requests -> {NoRequest} \cup Waiting] /\ reply' = [r \in Requests |-> reply'[r]]
  BY <1>1 DEF RequestInv
<1>4. \A r \in Requests : http'[r] = "idle" => http[r] = "idle"
  BY <1>1
<1>5. \A r \in Requests :
           pending'[r].waiting =>
             /\ pending[r].waiting /\ pending'[r] = pending[r] /\ reply'[r] = reply[r]
             /\ \A c \in Cameras : c = pending[r].camera => Sequence(c) <= Sequence(c)'
  BY <1>1, <1>2
<1>6. RequestInv'
  BY <1>1, <1>3, <1>4, <1>5, RequestsGo
<1> QED
  BY <1>6, GatewayKept

LEMMA InstanceFields ==
  ASSUME NEW b, IsInstance(b)
  PROVE  /\ b.resets \in Nat /\ b.cameras \subseteq Cameras /\ b.calibrated \subseteq Cameras
         /\ b.moving \subseteq BOOLEAN /\ b.modes \subseteq BOOLEAN /\ b.until \in 0 .. MaxTime
         /\ b.imageLags \subseteq Int /\ b.sampleLags \subseteq Int /\ b.requests \subseteq Requests
BY DEF IsInstance

LEMMA ArmsKept ==
  ASSUME ArmInv, UNCHANGED armVars, mono \in Int, mono' \in Int, mono <= mono'
  PROVE  /\ ArmInv'
         /\ \A a \in Arms : Len(measured[a]) <= Len(measured'[a])
              /\ Len(measured'[a]) \in Nat
              /\ \A i \in 1 .. Len(measured[a]) : measured'[a][i] = measured[a][i]
<1>1. UNCHANGED <<history, measured, revision>>
  BY DEF armVars
<1>2. ASSUME NEW a \in Arms
      PROVE  /\ Len(measured[a]) \in Nat
             /\ \A i \in 1 .. Len(measured[a]) : measured[a][i].at <= mono'
  <2>1. Len(measured[a]) \in Nat
    BY LenProperties DEF ArmInv
  <2>2. ASSUME NEW i \in 1 .. Len(measured[a])
        PROVE  measured[a][i].at <= mono'
    <3>1. measured[a][i].at \in Nat
      BY ElementOfSeq, SampleFields DEF ArmInv
    <3>2. measured[a][i].at <= mono
      BY DEF ArmInv
    <3> QED
      BY <3>1, <3>2
  <2> QED
    BY <2>1, <2>2
<1>3. ArmInv'
  BY <1>1, <1>2 DEF ArmInv
<1> QED
  BY <1>1, <1>2, <1>3

\* Nothing of a step is about the arms, their wait or the images.
LEMMA OthersKept ==
  ASSUME ClockInv, ArmInv, DwellInv, UNCHANGED <<armVars, settle, mono>>
  PROVE  ArmInv' /\ DwellInv'
<1>1. mono \in Int /\ mono' = mono /\ settle' = settle
  BY DEF ClockInv
<1>2. /\ ArmInv'
      /\ \A a \in Arms : Len(measured[a]) <= Len(measured'[a])
           /\ Len(measured'[a]) \in Nat
           /\ \A i \in 1 .. Len(measured[a]) : measured'[a][i] = measured[a][i]
  BY <1>1, ArmsKept
<1> QED
  BY <1>1, <1>2, DwellKept

LEMMA ImagesStay ==
  ASSUME ImageInv, UNCHANGED imageVars
  PROVE  ImageInv'
BY DEF ImageInv, imageVars

-------------------------------------------------------------------------------
(* Every step of the bridge preserves the invariant.                         *)

LEMMA StepTick ==
  ASSUME IInv, Tick, UNCHANGED captureVars, UNCHANGED gatewayVars
  PROVE  IInv'
<1>1. IsInstance(left) /\ ClockInv /\ ArmInv /\ DwellInv /\ ImageInv /\ RequestInv /\ GatewayInv
  BY DEF IInv
<1>2. /\ mono < left.until /\ mono' = mono + 1 /\ UNCHANGED <<lastRos, armVars, settle>>
      /\ \/ now' = now + 1 /\ UNCHANGED left
         \/ now' = now /\ Spend("pauses")
         \/ now > 1 /\ now' = 1 /\ Spend("resets")
  BY DEF Tick
<1>3. UNCHANGED <<imageVars, requestVars, frames, motionBusy, motionEnd, closing>>
  BY DEF captureVars, imageVars, motionVars
<1>4. mono \in 0 .. MaxTime /\ now \in 1 .. mono + 1 /\ MaxTime \in Nat /\ left.until \in 0 .. MaxTime
  BY <1>1, Bounds, InstanceFields DEF ClockInv
<1>5. IsInstance(left') /\ TimeGoesOn
  <2>1. CASE now' = now + 1 /\ UNCHANGED left
    BY <1>1, <1>4, <2>1, InstanceFields DEF TimeGoesOn
  <2>2. CASE now' = now /\ Spend("pauses")
    <3>1. /\ IsInstance(left') /\ left.resets \in Nat /\ left'.resets \in Nat /\ left'.resets = left.resets
      BY <1>1, <2>2, SpendKeeps DEF Kinds
    <3> QED
      BY <1>4, <2>2, <3>1 DEF TimeGoesOn
  <2>3. CASE now > 1 /\ now' = 1 /\ Spend("resets")
    <3>1. /\ IsInstance(left') /\ left.resets \in Nat /\ left'.resets \in Nat /\ left'.resets = left.resets - 1
      BY <1>1, <2>3, SpendKeeps DEF Kinds
    <3> QED
      BY <1>4, <2>3, <3>1 DEF TimeGoesOn
  <2> QED
    BY <1>2, <2>1, <2>2, <2>3
<1>6. ClockInv'
  BY <1>1, <1>2, <1>4 DEF ClockInv
<1>7. /\ ArmInv'
      /\ \A a \in Arms : Len(measured[a]) <= Len(measured'[a])
           /\ Len(measured'[a]) \in Nat
           /\ \A i \in 1 .. Len(measured[a]) : measured'[a][i] = measured[a][i]
  BY <1>1, <1>2, <1>4, ArmsKept
<1>8. DwellInv'
  BY <1>1, <1>2, <1>4, <1>7, DwellKept
<1>9. ImageInv'
  BY <1>1, <1>3, ImagesStay
<1>10. motionBusy' \in BOOLEAN /\ closing' \in BOOLEAN /\ motionEnd' \in Nat
  BY <1>1, <1>3 DEF RequestInv
<1>11. RequestInv' /\ GatewayInv'
  BY <1>1, <1>3, <1>5, <1>9, <1>10, RequestsStay
<1> QED
  BY <1>5, <1>6, <1>7, <1>8, <1>9, <1>11 DEF IInv

\* What a callback that leaves the clocks alone preserves besides its own part.
LEMMA ClockStays ==
  ASSUME IsInstance(left), ClockInv, UNCHANGED clockVars, UNCHANGED left \/ \E what \in Kinds \ {"resets"} : Spend(what)
  PROVE  IsInstance(left') /\ ClockInv' /\ TimeGoesOn /\ mono' = mono /\ mono \in Int
<1>1. UNCHANGED <<mono, now, lastRos>>
  BY DEF clockVars
<1>2. ClockInv' /\ mono \in Int /\ now \in Nat
  BY <1>1 DEF ClockInv
<1>3. IsInstance(left') /\ left.resets \in Nat /\ left'.resets \in Nat /\ left'.resets = left.resets
  <2>1. CASE UNCHANGED left
    BY <2>1, InstanceFields
  <2>2. ASSUME NEW what \in Kinds \ {"resets"}, Spend(what)
        PROVE  IsInstance(left') /\ left.resets \in Nat /\ left'.resets \in Nat /\ left'.resets = left.resets
    BY <2>2, SpendKeeps
  <2> QED
    BY <2>1, <2>2
<1> QED
  BY <1>1, <1>2, <1>3 DEF TimeGoesOn

\* What arrives has a positive stamp.
LEMMA StampsAre == \A lags : Stamps(lags) \subseteq Nat
BY DEF Stamps

LEMMA StepArms ==
  ASSUME IInv, UNCHANGED captureVars, UNCHANGED gatewayVars,
         (\E arms \in SUBSET Arms : WaitState(arms)) \/ \E a \in Arms, stamp \in Stamps(left.sampleLags), moving \in left.moving : ArmState(a, stamp, moving)
  PROVE  IInv'
<1>1. IsInstance(left) /\ ClockInv /\ ArmInv /\ DwellInv /\ ImageInv /\ RequestInv /\ GatewayInv
  BY DEF IInv
<1>2. UNCHANGED <<imageVars, requestVars, frames, motionBusy, motionEnd, closing>>
  BY DEF captureVars, imageVars, motionVars
<1>3. UNCHANGED clockVars /\ \E what \in Kinds \ {"resets"} : Spend(what)
  <2>1. "waits" \in Kinds \ {"resets"} /\ "samples" \in Kinds \ {"resets"}
    BY DEF Kinds
  <2> QED
    BY <2>1 DEF WaitState, ArmState
<1>4. IsInstance(left') /\ ClockInv' /\ TimeGoesOn /\ mono' = mono /\ mono \in Int
  BY <1>1, <1>3, ClockStays
<1>5. ArmInv' /\ DwellInv'
  <2>1. ASSUME NEW arms \in SUBSET Arms, WaitState(arms)
        PROVE  ArmInv' /\ DwellInv'
    <3>1. DwellInv'
      BY <1>1, <2>1, WaitStateKeeps
    <3>2. ArmInv'
      BY <1>1, <1>4, <2>1, ArmsKept DEF WaitState
    <3> QED
      BY <3>1, <3>2
  <2>2. ASSUME NEW a \in Arms, NEW stamp \in Stamps(left.sampleLags), NEW moving \in left.moving, ArmState(a, stamp, moving)
        PROVE  ArmInv' /\ DwellInv'
    <3>1. stamp \in Int /\ moving \in BOOLEAN
      <4>1. left.moving \subseteq BOOLEAN
        BY <1>1, InstanceFields
      <4>2. stamp \in Nat
        BY StampsAre
      <4> QED
        BY <4>1, <4>2
    <3>2. /\ ArmInv'
          /\ \A x \in Arms : Len(measured[x]) <= Len(measured'[x])
               /\ \A i \in 1 .. Len(measured[x]) : measured'[x][i] = measured[x][i]
      BY <1>1, <2>2, <3>1, ArmStateKeeps
    <3>3. \A x \in Arms : Len(measured'[x]) \in Nat
      BY <3>2, LenProperties DEF ArmInv
    <3>4. settle' = settle
      BY <2>2 DEF ArmState
    <3> QED
      BY <1>1, <1>4, <3>2, <3>3, <3>4, DwellKept
  <2> QED
    BY <2>1, <2>2
<1>6. ImageInv'
  BY <1>1, <1>2, ImagesStay
<1>7. motionBusy' \in BOOLEAN /\ closing' \in BOOLEAN /\ motionEnd' \in Nat
  BY <1>1, <1>2 DEF RequestInv
<1>8. RequestInv' /\ GatewayInv'
  BY <1>1, <1>2, <1>4, <1>6, <1>7, RequestsStay
<1> QED
  BY <1>4, <1>5, <1>6, <1>8 DEF IInv

LEMMA StepImages ==
  ASSUME IInv, UNCHANGED gatewayVars, NEW c \in left.cameras, NEW stamp \in Stamps(left.imageLags),
         Image(c, stamp) \/ DepthImage(c, stamp)
  PROVE  IInv'
<1>1. IsInstance(left) /\ ClockInv /\ ArmInv /\ DwellInv /\ ImageInv /\ RequestInv /\ GatewayInv
  BY DEF IInv
<1>2. c \in Cameras /\ stamp \in Nat
  BY <1>1, InstanceFields, StampsAre
<1>3. /\ UNCHANGED <<clockVars, armVars, settle, calibrated, badPlane, wipes, motionVars, closing>>
      /\ \E what \in Kinds \ {"resets"} : Spend(what)
      /\ TryCameras(frames', depth) \/ TryCameras(frames, depth')
  <2>1. "rgb" \in Kinds \ {"resets"} /\ "depth" \in Kinds \ {"resets"}
    BY DEF Kinds
  <2> QED
    BY <2>1 DEF Image, DepthImage
<1>4. IsInstance(left') /\ ClockInv' /\ TimeGoesOn /\ mono' = mono /\ mono \in Int
  BY <1>1, <1>3, ClockStays
<1>5. ArmInv' /\ DwellInv'
  BY <1>1, <1>3, <1>4, OthersKept
<1>6. ImageInv' /\ \A x \in Cameras : Sequence(x) <= Sequence(x)'
  <2>1. CASE Image(c, stamp)
    <3>1. /\ UNCHANGED <<depth, wipes, calibrated, badPlane>>
          /\ LET known == \E f \in ToSet(frames[c]) : f.stamp = stamp
                 frame == [stamp |-> stamp, seq |-> Sequence(c) + 1, wipe |-> wipes[c]] IN
             frames' = IF known THEN frames
                       ELSE [frames EXCEPT ![c] = Kept(Append(@, frame), BufferSize)]
      BY <2>1 DEF Image
    <3> QED
      BY <1>1, <1>2, <3>1, FrameKeeps
  <2>2. CASE DepthImage(c, stamp)
    <3>1. /\ UNCHANGED <<frames, wipes, calibrated, badPlane>>
          /\ LET image == [stamp |-> stamp, wipe |-> wipes[c]]
                 same == {i \in DOMAIN depth[c] : depth[c][i].stamp = stamp} IN
             depth' = [depth EXCEPT ![c] =
               IF same # {} THEN [i \in DOMAIN @ |-> IF i \in same THEN image ELSE @[i]]
               ELSE Kept(Append(@, image), BufferSize)]
      BY <2>2 DEF DepthImage
    <3>2. ImageInv' /\ \A x \in Cameras : Sequence(x)' = Sequence(x)
      BY <1>1, <1>2, <3>1, DepthKeeps
    <3>3. \A x \in Cameras : Sequence(x) \in Nat
      BY <1>1, SequenceIs
    <3>4. \A x \in Cameras : Sequence(x) <= Sequence(x)'
      BY <3>2, <3>3
    <3> QED
      BY <3>2, <3>4
  <2> QED
    BY <2>1, <2>2
<1>7. motionBusy' \in BOOLEAN /\ closing' \in BOOLEAN /\ motionEnd' \in Nat
  BY <1>1, <1>3 DEF RequestInv, motionVars
<1>8. PICK answers : Complete(answers)
  BY <1>3 DEF TryCameras
<1>9. RequestInv' /\ GatewayInv'
  BY <1>1, <1>4, <1>6, <1>7, <1>8, RequestsAnswered
<1> QED
  BY <1>4, <1>5, <1>6, <1>9 DEF IInv

\* When a camera's images are discarded, so are the requests that wait for them.
LEMMA StepCameraInfo ==
  ASSUME IInv, UNCHANGED gatewayVars, NEW c \in left.cameras, CameraInfo(c)
  PROVE  IInv'
<1>1. IsInstance(left) /\ ClockInv /\ ArmInv /\ DwellInv /\ ImageInv /\ RequestInv /\ GatewayInv
  BY DEF IInv
<1>2. c \in Cameras
  BY <1>1, InstanceFields
<1>3. /\ UNCHANGED <<clockVars, armVars, settle, motionVars, closing>>
      /\ \E what \in Kinds \ {"resets"} : Spend(what)
  <2>1. "infos" \in Kinds \ {"resets"} /\ "changes" \in Kinds \ {"resets"}
    BY DEF Kinds
  <2> QED
    BY <2>1 DEF CameraInfo
<1>4. IsInstance(left') /\ ClockInv' /\ TimeGoesOn /\ mono' = mono /\ mono \in Int
  BY <1>1, <1>3, ClockStays
<1>5. ArmInv' /\ DwellInv'
  BY <1>1, <1>3, <1>4, OthersKept
<1>6. motionBusy' \in BOOLEAN /\ closing' \in BOOLEAN /\ motionEnd' \in Nat
  BY <1>1, <1>3 DEF RequestInv, motionVars
<1>7. ImageInv' /\ RequestInv' /\ GatewayInv'
  <2>1. CASE /\ calibrated' = calibrated \cup {c}
             /\ UNCHANGED <<frames, depth, badPlane, wipes, requestVars>>
    <3>1. ImageInv'
      BY <1>1, <1>2, <2>1 DEF ImageInv
    <3> QED
      BY <1>1, <1>4, <1>6, <2>1, <3>1, RequestsStay
  <2>2. CASE /\ badPlane' = badPlane \cup ({c} \cap Planes)
             /\ frames' = [frames EXCEPT ![c] = <<>>]
             /\ depth' = DepthWithout(c)
             /\ wipes' = [wipes EXCEPT ![c] = @ + 1]
             /\ Complete([r \in Requests |-> IF r \in RefusedBy(c) THEN Refused("calibration") ELSE NoReply])
             /\ UNCHANGED calibrated
    <3> DEFINE answers == [r \in Requests |-> IF r \in RefusedBy(c) THEN Refused("calibration") ELSE NoReply]
    <3>1. frames' = [x \in Cameras |-> IF x \in {c} THEN <<>> ELSE frames[x]]
      BY <1>1, <2>2 DEF ImageInv
    <3>2. depth' = [x \in Cameras |-> IF x \in {c} THEN <<>> ELSE depth[x]]
      BY <1>1, <2>2 DEF ImageInv, DepthWithout
    <3>3. wipes' = [x \in Cameras |-> IF x \in {c} THEN wipes[x] + 1 ELSE wipes[x]]
      BY <1>1, <2>2 DEF ImageInv
    <3>4. calibrated' = calibrated /\ badPlane' \subseteq Planes
      BY <1>1, <2>2 DEF ImageInv
    <3>5. {c} \in SUBSET Cameras
      BY <1>2
    <3>6. ImageInv' /\ \A x \in Cameras \ {c} : Sequence(x)' = Sequence(x)
      BY <1>1, <3>1, <3>2, <3>3, <3>4, <3>5, DiscardKeeps
    <3>7. ASSUME NEW r \in Requests, answers[r] = NoReply, pending[r].waiting,
                 NEW x \in Cameras, x = pending[r].camera
          PROVE  Sequence(x) <= Sequence(x)'
      <4>1. r \notin RefusedBy(c)
        <5>1. Refused("calibration") # NoReply
          BY DEF Refused, NoReply
        <5> QED
          BY <3>7, <5>1
      <4>2. x # c
        BY <3>7, <4>1 DEF RefusedBy
      <4>3. Sequence(x)' = Sequence(x) /\ Sequence(x) \in Nat
        BY <1>1, <3>6, <4>2, SequenceIs
      <4> QED
        BY <4>3
    <3>8. Complete(answers)
      BY <2>2
    <3> HIDE DEF answers
    <3>9. RequestInv' /\ GatewayInv'
      BY <1>1, <1>4, <1>6, <3>6, <3>7, <3>8, RequestsAnswered
    <3> QED
      BY <3>6, <3>9
  <2> QED
    BY <2>1, <2>2 DEF CameraInfo
<1> QED
  BY <1>4, <1>5, <1>7 DEF IInv

LEMMA StepMotion ==
  ASSUME IInv, UNCHANGED gatewayVars, Motion
  PROVE  IInv'
<1>1. IsInstance(left) /\ ClockInv /\ ArmInv /\ DwellInv /\ ImageInv /\ RequestInv /\ GatewayInv
  BY DEF IInv
<1>2. UNCHANGED <<clockVars, armVars, settle, imageVars, closing, requestVars>>
  BY DEF Motion
<1>3. UNCHANGED left \/ \E what \in Kinds \ {"resets"} : Spend(what)
  <2>1. "motions" \in Kinds \ {"resets"}
    BY DEF Kinds
  <2> QED
    BY <2>1 DEF Motion
<1>4. IsInstance(left') /\ ClockInv' /\ TimeGoesOn /\ mono' = mono /\ mono \in Int
  BY <1>1, <1>2, <1>3, ClockStays
<1>5. ArmInv' /\ DwellInv'
  BY <1>1, <1>2, <1>4, OthersKept
<1>6. ImageInv'
  BY <1>1, <1>2, ImagesStay
<1>7. motionBusy' \in BOOLEAN /\ closing' \in BOOLEAN /\ motionEnd' \in Nat
  <2>1. now \in Nat
    BY <1>1 DEF ClockInv
  <2> QED
    BY <1>1, <1>2, <2>1 DEF RequestInv, Motion
<1>8. frames' = frames
  BY <1>2 DEF imageVars
<1>9. RequestInv' /\ GatewayInv'
  BY <1>1, <1>2, <1>4, <1>6, <1>7, <1>8, RequestsStay
<1> QED
  BY <1>4, <1>5, <1>6, <1>9 DEF IInv

LEMMA StepReset ==
  ASSUME IInv, UNCHANGED gatewayVars, Reset
  PROVE  IInv'
<1> DEFINE answers == [r \in Requests |-> IF pending[r].waiting THEN Refused("clock") ELSE NoReply]
<1>1. IsInstance(left) /\ ClockInv /\ ArmInv /\ DwellInv /\ ImageInv /\ RequestInv /\ GatewayInv
  BY DEF IInv
<1>2. /\ lastRos' = now /\ ResetArms
      /\ frames' = [c \in Cameras |-> <<>>] /\ depth' = [c \in Cameras |-> <<>>]
      /\ wipes' = [c \in Cameras |-> wipes[c] + 1]
      /\ Complete(answers)
      /\ UNCHANGED <<left, mono, now, calibrated, badPlane, motionVars, closing>>
  BY DEF Reset
<1>3. mono \in 0 .. MaxTime /\ now \in 1 .. mono + 1 /\ MaxTime \in Nat
  BY <1>1, Bounds DEF ClockInv
<1>4. IsInstance(left') /\ ClockInv' /\ TimeGoesOn
  BY <1>1, <1>2, <1>3, InstanceFields DEF ClockInv, TimeGoesOn
<1>5. ArmInv'
  <2>1. /\ history' = [a \in Arms |-> <<>>] /\ measured' = [a \in Arms |-> <<>>] /\ revision' = revision
    BY <1>2 DEF ResetArms
  <2>2. <<>> \in Seq(Samples) /\ Len(<<>>) = 0 /\ HistoryLength \in Nat
    BY EmptySeq, Bounds
  <2>3. history' \in [Arms -> Seq(Samples)] /\ measured' \in [Arms -> Seq(Samples)] /\ revision' \in Nat
    BY <1>1, <2>1, <2>2 DEF ArmInv
  <2>4. \A a \in Arms : history'[a] = <<>> /\ measured'[a] = <<>>
    BY <2>1
  <2>5. Ends(<<>>, <<>>) /\ Ascends(<<>>)
    BY <2>2 DEF Ends, Ascends
  <2> QED
    BY <2>2, <2>3, <2>4, <2>5 DEF ArmInv
<1>6. DwellInv'
  <2>1. settle' = NoWait /\ NoWait.waiting = FALSE
    BY <1>2 DEF ResetArms, NoWait
  <2>2. settle'.waiting = FALSE
    BY <2>1
  <2> QED
    BY <2>1, <2>2 DEF DwellInv
<1>7. ImageInv'
  <2>1. /\ frames' = [x \in Cameras |-> IF x \in Cameras THEN <<>> ELSE frames[x]]
        /\ depth' = [x \in Cameras |-> IF x \in Cameras THEN <<>> ELSE depth[x]]
        /\ wipes' = [x \in Cameras |-> IF x \in Cameras THEN wipes[x] + 1 ELSE wipes[x]]
    BY <1>2
  <2>2. calibrated' = calibrated /\ badPlane' \subseteq Planes /\ Cameras \in SUBSET Cameras
    BY <1>1, <1>2 DEF ImageInv
  <2> QED
    BY <1>1, <2>1, <2>2, DiscardKeeps
<1>8. motionBusy' \in BOOLEAN /\ closing' \in BOOLEAN /\ motionEnd' \in Nat
  BY <1>1, <1>2 DEF RequestInv, motionVars
<1>9. \A r \in Requests : ~(answers[r] = NoReply /\ pending[r].waiting)
  <2>1. Refused("clock") # NoReply
    BY DEF Refused, NoReply
  <2> QED
    BY <2>1
<1> HIDE DEF answers
<1>10. RequestInv' /\ GatewayInv'
  BY <1>1, <1>2, <1>4, <1>7, <1>8, <1>9, RequestsAnswered
<1> QED
  BY <1>4, <1>5, <1>6, <1>7, <1>10 DEF IInv

LEMMA StepExpire ==
  ASSUME IInv, UNCHANGED gatewayVars, Expire
  PROVE  IInv'
<1>1. IsInstance(left) /\ ClockInv /\ ArmInv /\ DwellInv /\ ImageInv /\ RequestInv /\ GatewayInv
  BY DEF IInv
<1>2. /\ lastRos' = now /\ CheckSettled
      /\ UNCHANGED <<left, mono, now, armVars, imageVars, motionVars, closing>>
      /\ \E answers : Complete(answers)
  BY DEF Expire
<1>3. mono \in 0 .. MaxTime /\ now \in 1 .. mono + 1 /\ MaxTime \in Nat
  BY <1>1, Bounds DEF ClockInv
<1>4. IsInstance(left') /\ ClockInv' /\ TimeGoesOn
  BY <1>1, <1>2, <1>3, InstanceFields DEF ClockInv, TimeGoesOn
<1>5. ArmInv'
  BY <1>1, <1>2, <1>3, ArmsKept
<1>6. DwellInv'
  <2>1. UNCHANGED <<mono, measured>>
    BY <1>2 DEF armVars
  <2> QED
    BY <1>1, <1>2, <2>1, CheckSettledKeeps
<1>7. ImageInv'
  BY <1>1, <1>2, ImagesStay
<1>8. motionBusy' \in BOOLEAN /\ closing' \in BOOLEAN /\ motionEnd' \in Nat
  BY <1>1, <1>2 DEF RequestInv, motionVars
<1>9. \A c \in Cameras : Sequence(c) <= Sequence(c)'
  <2> TAKE c \in Cameras
  <2>1. Sequence(c)' = Sequence(c) /\ Sequence(c) \in Nat
    BY <1>1, <1>2, SequenceIs DEF Sequence, imageVars
  <2> QED
    BY <2>1
<1>10. PICK answers : Complete(answers)
  BY <1>2
<1>11. RequestInv' /\ GatewayInv'
  BY <1>1, <1>4, <1>7, <1>8, <1>9, <1>10, RequestsAnswered
<1> QED
  BY <1>4, <1>5, <1>6, <1>7, <1>11 DEF IInv

LEMMA StepClosePending ==
  ASSUME IInv, UNCHANGED gatewayVars, ClosePending
  PROVE  IInv'
<1> DEFINE answers == [r \in Requests |-> IF pending[r].waiting THEN Refused("closing") ELSE NoReply]
<1>1. IsInstance(left) /\ ClockInv /\ ArmInv /\ DwellInv /\ ImageInv /\ RequestInv /\ GatewayInv
  BY DEF IInv
<1>2. /\ Spend("closings") /\ closing' = TRUE /\ settle' = NoWait
      /\ Complete(answers)
      /\ UNCHANGED <<clockVars, armVars, imageVars, motionVars>>
  BY DEF ClosePending
<1>3. "closings" \in Kinds \ {"resets"}
  BY DEF Kinds
<1>4. IsInstance(left') /\ ClockInv' /\ TimeGoesOn /\ mono' = mono /\ mono \in Int
  BY <1>1, <1>2, <1>3, ClockStays
<1>5. ArmInv'
  BY <1>1, <1>2, <1>4, ArmsKept
<1>6. DwellInv'
  <2>1. settle' = NoWait /\ NoWait.waiting = FALSE
    BY <1>2 DEF NoWait
  <2>2. settle'.waiting = FALSE
    BY <2>1
  <2> QED
    BY <2>1, <2>2 DEF DwellInv
<1>7. ImageInv'
  BY <1>1, <1>2, ImagesStay
<1>8. motionBusy' \in BOOLEAN /\ closing' \in BOOLEAN /\ motionEnd' \in Nat
  BY <1>1, <1>2 DEF RequestInv, motionVars
<1>9. \A r \in Requests : ~(answers[r] = NoReply /\ pending[r].waiting)
  <2>1. Refused("closing") # NoReply
    BY DEF Refused, NoReply
  <2> QED
    BY <2>1
<1> HIDE DEF answers
<1>10. RequestInv' /\ GatewayInv'
  BY <1>1, <1>2, <1>4, <1>7, <1>8, <1>9, RequestsAnswered
<1> QED
  BY <1>4, <1>5, <1>6, <1>7, <1>10 DEF IInv

LEMMA StepBridge ==
  ASSUME IInv, BridgeStep
  PROVE  IInv'
<1>1. CapturesNext /\ UNCHANGED gatewayVars
  BY DEF BridgeStep
<1>2. CASE Tick /\ UNCHANGED captureVars
  BY <1>1, <1>2, StepTick
<1>3. CASE UNCHANGED captureVars
           /\ ((\E arms \in SUBSET Arms : WaitState(arms)) \/ \E a \in Arms, stamp \in Stamps(left.sampleLags), moving \in left.moving : ArmState(a, stamp, moving))
  BY <1>1, <1>3, StepArms
<1>4. ASSUME NEW c \in left.cameras, NEW stamp \in Stamps(left.imageLags), Image(c, stamp) \/ DepthImage(c, stamp)
      PROVE  IInv'
  BY <1>1, <1>4, StepImages
<1>5. ASSUME NEW c \in left.cameras, CameraInfo(c)
      PROVE  IInv'
  BY <1>1, <1>5, StepCameraInfo
<1>6. CASE Motion
  BY <1>1, <1>6, StepMotion
<1>7. CASE Reset
  BY <1>1, <1>7, StepReset
<1>8. CASE Expire
  BY <1>1, <1>8, StepExpire
<1>9. CASE ClosePending
  BY <1>1, <1>9, StepClosePending
<1> QED
  BY <1>1, <1>2, <1>3, <1>4, <1>5, <1>6, <1>7, <1>8, <1>9 DEF CapturesNext

-------------------------------------------------------------------------------
(* So does every step of the gateway.                                        *)

\* The gateway's steps do not touch the arms, the clocks and the images.
LEMMA GatewayOnly ==
  ASSUME IInv, UNCHANGED <<clockVars, armVars, settle, imageVars>>
  PROVE  /\ ClockInv' /\ ArmInv' /\ DwellInv' /\ ImageInv'
         /\ now' = now /\ now \in Nat /\ \A c \in Cameras : Sequence(c)' = Sequence(c) /\ Sequence(c) \in Nat
<1>1. IsInstance(left) /\ ClockInv /\ ArmInv /\ DwellInv /\ ImageInv
  BY DEF IInv
<1>2. UNCHANGED <<mono, now, lastRos, frames>>
  BY DEF clockVars, imageVars
<1>3. ClockInv' /\ now \in Nat
  BY <1>1, <1>2 DEF ClockInv
<1>4. \A c \in Cameras : Sequence(c)' = Sequence(c) /\ Sequence(c) \in Nat
  BY <1>1, <1>2, SequenceIs DEF Sequence
<1> QED
  BY <1>1, <1>2, <1>3, <1>4, OthersKept, ImagesStay

LEMMA StepSend ==
  ASSUME IInv, NEW r \in Requests, NEW c \in left.cameras, NEW capture \in left.modes, Send(r, c, capture)
  PROVE  IInv'
<1> DEFINE wanted == [camera |-> c, capture |-> capture, resets |-> left.resets]
<1>1. IsInstance(left) /\ ClockInv /\ ArmInv /\ DwellInv /\ ImageInv /\ RequestInv /\ GatewayInv
  BY DEF IInv
<1>2. /\ http[r] = "idle" /\ left' = [left EXCEPT !.requests = @ \ {r}]
      /\ http' = [http EXCEPT ![r] = "sent"]
      /\ want' = [want EXCEPT ![r] = wanted]
      /\ asked' = [asked EXCEPT ![r] = now]
      /\ due' = [due EXCEPT ![r] = mono + Timeout + Margin]
      /\ UNCHANGED <<clockVars, armVars, settle, captureVars, posted, dropped>>
  BY DEF Send
<1>3. UNCHANGED <<imageVars, frames, pending, reply, motionBusy, motionEnd, closing>>
  BY <1>2 DEF captureVars, imageVars, motionVars, requestVars
<1>4. /\ ClockInv' /\ ArmInv' /\ DwellInv' /\ ImageInv' /\ now' = now /\ now \in Nat
      /\ \A x \in Cameras : Sequence(x)' = Sequence(x) /\ Sequence(x) \in Nat
  BY <1>2, <1>3, GatewayOnly
<1>5. IsInstance(left') /\ left'.resets = left.resets /\ left.resets \in Nat
  BY <1>1, <1>2 DEF IsInstance
<1>6. c \in Cameras /\ capture \in BOOLEAN
  BY <1>1, InstanceFields
<1>7. wanted \in Wants /\ wanted.resets = left.resets /\ wanted.camera \in Cameras
  BY <1>5, <1>6 DEF Wants
<1>8. mono + Timeout + Margin \in Nat
  BY <1>1, Bounds DEF ClockInv
<1> HIDE DEF wanted
<1>9. /\ http' \in [Requests -> {"idle", "sent"} \cup Final] /\ want' \in [Requests -> Wants]
      /\ asked' \in [Requests -> Nat] /\ due' \in [Requests -> Nat]
      /\ http'[r] = "sent" /\ want'[r] = wanted /\ asked'[r] = now
      /\ \A x \in Requests \ {r} : http'[x] = http[x] /\ want'[x] = want[x] /\ asked'[x] = asked[x]
  BY <1>1, <1>2, <1>4, <1>7, <1>8 DEF GatewayInv
<1>10. GatewayInv'
  <2>1. ASSUME NEW x \in Requests
        PROVE  /\ want'[x].resets = left'.resets => asked'[x] <= now'
               /\ asked'[x] = 0 \/ left'.resets <= want'[x].resets
               /\ http'[x] \in {"sent", "timeout"} => want'[x].camera \in Cameras
    <3>1. CASE x = r
      BY <1>4, <1>5, <1>7, <1>9, <3>1
    <3>2. CASE x # r
      <4>1. http'[x] = http[x] /\ want'[x] = want[x] /\ asked'[x] = asked[x]
        BY <1>9, <3>2
      <4> QED
        BY <1>1, <1>4, <1>5, <4>1 DEF GatewayInv
    <3> QED
      BY <3>1, <3>2
  <2> QED
    BY <1>1, <1>2, <1>9, <2>1 DEF GatewayInv
<1>11. RequestInv'
  <2>1. ~pending[r].waiting
    BY <1>1, <1>2 DEF RequestInv
  <2>2. ASSUME NEW x \in Requests, pending[x].waiting
        PROVE  /\ reply[x] = NoReply /\ http'[x] # "idle"
               /\ pending[x].seq <= (IF frames'[pending[x].camera] = <<>> THEN 0 ELSE Last(frames'[pending[x].camera]).seq)
               /\ (want'[x].resets = left'.resets => asked'[x] <= pending[x].stamp)
    <3>1. http'[x] = http[x] /\ want'[x] = want[x] /\ asked'[x] = asked[x]
      BY <1>9, <2>1, <2>2
    <3> QED
      BY <1>1, <1>3, <1>5, <2>2, <3>1 DEF RequestInv, Sequence
  <2>3. reply' = [x \in Requests |-> reply'[x]]
    BY <1>1, <1>3 DEF RequestInv
  <2> QED
    BY <1>1, <1>3, <2>2, <2>3 DEF RequestInv, Sequence
<1> QED
  BY <1>4, <1>5, <1>10, <1>11 DEF IInv

\* A request that is over before it is served is refused; any other waits from now on.
LEMMA StepServe ==
  ASSUME IInv, NEW r \in Requests, Serve(r)
  PROVE  IInv'
<1> DEFINE budget == Min({asked[r] + Timeout - now, Timeout})
<1>1. IsInstance(left) /\ ClockInv /\ ArmInv /\ DwellInv /\ ImageInv /\ RequestInv /\ GatewayInv
  BY DEF IInv
<1>2. budget \in Int
  <2>1. asked[r] + Timeout - now \in Int /\ Timeout \in Int
    BY <1>1, Bounds DEF ClockInv, GatewayInv
  <2> QED
    BY <2>1, MinOfTwo
<1>3. /\ http[r] \in {"sent", "timeout"} /\ pending[r] = NoRequest /\ reply[r] = NoReply
      /\ IF budget <= 0
         THEN /\ reply' = [reply EXCEPT ![r] = Refused("expired")]
              /\ UNCHANGED <<telemetryVars, imageVars, motionVars, closing, pending>>
         ELSE CameraRequest(r, want[r].camera, want[r].capture, budget)
      /\ UNCHANGED gatewayVars
  BY DEF Serve
<1> HIDE DEF budget
<1> DEFINE entry == [waiting |-> TRUE, camera |-> want[r].camera, seq |-> Sequence(want[r].camera), stamp |-> now,
                     capture |-> want[r].capture, deadline |-> mono + budget]
<1>4. /\ UNCHANGED <<telemetryVars, imageVars, motionVars, closing>>
      /\ \/ \E code \in {"expired", "closing"} : reply' = [reply EXCEPT ![r] = Refused(code)] /\ UNCHANGED pending
         \/ pending' = [pending EXCEPT ![r] = entry] /\ UNCHANGED reply
  BY <1>3 DEF CameraRequest
<1>5. UNCHANGED <<http, want, asked, due, posted, dropped, left, clockVars, armVars, settle, motionBusy, motionEnd>>
  BY <1>3, <1>4 DEF gatewayVars, telemetryVars, motionVars
<1>6. /\ ClockInv' /\ ArmInv' /\ DwellInv' /\ ImageInv' /\ now' = now /\ now \in Nat
      /\ \A x \in Cameras : Sequence(x)' = Sequence(x) /\ Sequence(x) \in Nat
  BY <1>4, <1>5, GatewayOnly
<1>7. GatewayInv'
  BY <1>1, <1>5, <1>6 DEF GatewayInv
<1>8. /\ http[r] # "idle" /\ want[r].camera \in Cameras /\ want[r].capture \in BOOLEAN
      /\ (want[r].resets = left.resets => asked[r] <= now)
  BY <1>1, <1>3 DEF GatewayInv, Wants
<1>9. entry \in Waiting /\ entry.camera = want[r].camera /\ entry.seq = Sequence(want[r].camera) /\ entry.stamp = now
  BY <1>1, <1>2, <1>6, <1>8 DEF Waiting, ClockInv
<1>10. ~pending[r].waiting
  <2>1. NoRequest.waiting = FALSE
    BY DEF NoRequest
  <2> QED
    BY <1>3, <2>1
<1> HIDE DEF entry
<1>11. /\ pending' \in [Requests -> {NoRequest} \cup Waiting] /\ reply' = [x \in Requests |-> reply'[x]]
       /\ pending'[r] = pending[r] \/ (pending'[r] = entry /\ reply'[r] = NoReply)
       /\ \A x \in Requests \ {r} : pending'[x] = pending[x] /\ reply'[x] = reply[x]
  <2>1. CASE \E code \in {"expired", "closing"} : reply' = [reply EXCEPT ![r] = Refused(code)] /\ UNCHANGED pending
    BY <1>1, <2>1 DEF RequestInv
  <2>2. CASE pending' = [pending EXCEPT ![r] = entry] /\ UNCHANGED reply
    BY <1>1, <1>3, <1>9, <2>2 DEF RequestInv
  <2> QED
    BY <1>4, <2>1, <2>2
<1>12. ASSUME NEW x \in Requests, pending'[x].waiting
       PROVE  /\ reply'[x] = NoReply /\ http[x] # "idle"
              /\ pending'[x].seq <= (IF frames'[pending'[x].camera] = <<>> THEN 0 ELSE Last(frames'[pending'[x].camera]).seq)
              /\ (want[x].resets = left.resets => asked[x] <= pending'[x].stamp)
  <2>1. frames' = frames
    BY <1>4 DEF imageVars
  <2>2. CASE x = r
    <3>1. pending'[r] = entry /\ reply'[r] = NoReply
      BY <1>10, <1>11, <1>12, <2>2
    <3>2. entry.seq <= Sequence(want[r].camera)
      BY <1>6, <1>8, <1>9
    <3> QED
      BY <1>8, <1>9, <2>1, <2>2, <3>1, <3>2 DEF Sequence
  <2>3. CASE x # r
    <3>1. pending'[x] = pending[x] /\ reply'[x] = reply[x]
      BY <1>11, <2>3
    <3> QED
      BY <1>1, <1>12, <2>1, <3>1 DEF RequestInv, Sequence
  <2> QED
    BY <2>2, <2>3
<1>13. motionBusy' \in BOOLEAN /\ closing' \in BOOLEAN /\ motionEnd' \in Nat
  BY <1>1, <1>4, <1>5 DEF RequestInv
<1>14. RequestInv'
  BY <1>5, <1>11, <1>12, <1>13 DEF RequestInv, Sequence
<1> QED
  BY <1>1, <1>5, <1>6, <1>7, <1>14 DEF IInv

LEMMA StepReply ==
  ASSUME IInv, NEW r \in Requests, Post(r) \/ Deliver(r) \/ GiveUp(r)
  PROVE  IInv'
<1>1. IsInstance(left) /\ ClockInv /\ ArmInv /\ DwellInv /\ ImageInv /\ RequestInv /\ GatewayInv
  BY DEF IInv
<1>2. UNCHANGED <<telemetryVars, captureVars, want, asked, due>>
  BY DEF Post, Deliver, GiveUp
<1>3. UNCHANGED <<left, clockVars, armVars, settle, imageVars, frames, motionBusy, motionEnd, closing, pending, reply>>
  BY <1>2 DEF telemetryVars, captureVars, imageVars, motionVars, requestVars
<1>4. /\ ClockInv' /\ ArmInv' /\ DwellInv' /\ ImageInv' /\ now' = now /\ now \in Nat
      /\ \A x \in Cameras : Sequence(x)' = Sequence(x) /\ Sequence(x) \in Nat
  BY <1>3, GatewayOnly
<1>5. /\ http' \in [Requests -> {"idle", "sent"} \cup Final] /\ posted' \subseteq Requests /\ dropped' \subseteq Requests
      /\ \A x \in Requests :
           /\ http'[x] = "idle" => http[x] = "idle"
           /\ http'[x] \in {"sent", "timeout"} => http[x] \in {"sent", "timeout"}
  <2>1. CASE Post(r)
    BY <1>1, <2>1 DEF Post, GatewayInv
  <2>2. CASE Deliver(r)
    <3>1. PICK outcome \in {"ok", "refused", "failed"} : http' = [http EXCEPT ![r] = outcome]
      BY <2>2 DEF Deliver
    <3> QED
      BY <1>1, <2>2, <3>1 DEF Deliver, GatewayInv, Final
  <2>3. CASE GiveUp(r)
    BY <1>1, <2>3 DEF GiveUp, GatewayInv, Final
  <2> QED
    BY <2>1, <2>2, <2>3
<1>6. GatewayInv'
  BY <1>1, <1>2, <1>3, <1>4, <1>5 DEF GatewayInv
<1>7. RequestInv'
  BY <1>1, <1>2, <1>3, <1>5 DEF RequestInv, Sequence
<1> QED
  BY <1>1, <1>3, <1>4, <1>6, <1>7 DEF IInv

-------------------------------------------------------------------------------
(* The invariant holds, and what it says of a request that waits.            *)

LEMMA InitInv == Init => IInv
<1> SUFFICES ASSUME Init
             PROVE  IInv
  OBVIOUS
<1>1. /\ left \in Budgets /\ mono = 0 /\ now = 1 /\ lastRos = 1
      /\ history = [a \in Arms |-> <<>>] /\ measured = [a \in Arms |-> <<>>]
      /\ revision = 0 /\ settle = NoWait
  BY DEF Init, CapturesInit, TelemetryInit
<1>2. /\ frames = [c \in Cameras |-> <<>>] /\ depth = [c \in Cameras |-> <<>>]
      /\ calibrated = left.calibrated /\ badPlane = {}
      /\ motionBusy = FALSE /\ motionEnd = 0 /\ closing = FALSE
      /\ pending = [r \in Requests |-> NoRequest]
      /\ reply = [r \in Requests |-> NoReply]
      /\ wipes = [c \in Cameras |-> 0]
  BY DEF Init, CapturesInit
<1>3. /\ http = [r \in Requests |-> "idle"] /\ want = [r \in Requests |-> NoWant]
      /\ asked = [r \in Requests |-> 0] /\ due = [r \in Requests |-> 0]
      /\ posted = {} /\ dropped = {}
  BY DEF Init
<1>4. IsInstance(left)
  BY <1>1, InstancesAssumption
<1>5. left.calibrated \subseteq Cameras
  BY <1>4, InstanceFields
<1>6. ClockInv
  BY <1>1, Bounds DEF ClockInv
<1>7. \A T : <<>> \in Seq(T) /\ Len(<<>>) = 0
  BY EmptySeq
<1>8. ArmInv
  <2>1. <<>> \in Seq(Samples) /\ Len(<<>>) = 0 /\ HistoryLength \in Nat
    BY EmptySeq, Bounds
  <2>2. \A a \in Arms : history[a] = <<>> /\ measured[a] = <<>>
    BY <1>1
  <2>3. Ends(<<>>, <<>>) /\ Ascends(<<>>)
    BY <2>1 DEF Ends, Ascends
  <2> QED
    BY <1>1, <2>1, <2>2, <2>3 DEF ArmInv
<1>9. DwellInv
  <2>1. settle.waiting = FALSE
    BY <1>1 DEF NoWait
  <2> QED
    BY <1>1, <2>1 DEF DwellInv
<1>10. ImageInv
  <2>1. <<>> \in Seq(Frames) /\ <<>> \in Seq(Depths) /\ Len(<<>>) = 0 /\ BufferSize \in Nat
    BY EmptySeq, Bounds
  <2> QED
    BY <1>2, <1>5, <2>1 DEF ImageInv
<1>11. RequestInv
  <2>1. \A r \in Requests : pending[r].waiting = FALSE
    BY <1>2 DEF NoRequest
  <2>2. pending \in [Requests -> {NoRequest} \cup Waiting] /\ reply = [r \in Requests |-> reply[r]]
    BY <1>2
  <2> QED
    BY <1>2, <2>1, <2>2 DEF RequestInv
<1>12. GatewayInv
  <2>1. NoWant \in Wants
    BY DEF NoWant, Wants
  <2>2. now \in Nat /\ now >= 0
    BY <1>1
  <2> QED
    BY <1>3, <2>1, <2>2 DEF GatewayInv
<1> QED
  BY <1>4, <1>6, <1>8, <1>9, <1>10, <1>11, <1>12 DEF IInv

LEMMA StepInv == IInv /\ [Next]_vars => IInv'
<1> SUFFICES ASSUME IInv, [Next]_vars
             PROVE  IInv'
  OBVIOUS
<1>1. CASE UNCHANGED vars
  <2>1. /\ UNCHANGED <<left, mono, now, lastRos, history, measured, revision, settle, frames, depth, calibrated,
                       badPlane, wipes, motionBusy, motionEnd, closing, pending, reply>>
        /\ UNCHANGED <<http, want, asked, due, posted, dropped>>
    BY <1>1 DEF vars, telemetryVars, clockVars, armVars, captureVars, imageVars, motionVars, requestVars, gatewayVars
  <2>2. IsInstance(left)' /\ ClockInv' /\ ArmInv' /\ DwellInv'
    BY <2>1 DEF IInv, ClockInv, ArmInv, DwellInv
  <2>3. ImageInv' /\ RequestInv' /\ GatewayInv'
    BY <2>1 DEF IInv, ImageInv, RequestInv, GatewayInv, Sequence
  <2> QED
    BY <2>2, <2>3 DEF IInv
<1>2. CASE Next
  <2>1. CASE BridgeStep
    BY <2>1, StepBridge
  <2>2. ASSUME NEW r \in Requests, NEW c \in left.cameras, NEW capture \in left.modes, Send(r, c, capture)
        PROVE  IInv'
    BY <2>2, StepSend
  <2>3. ASSUME NEW r \in Requests, GatewayStep(r)
        PROVE  IInv'
    BY <2>3, StepServe, StepReply DEF GatewayStep
  <2> QED
    BY <1>2, <2>1, <2>2, <2>3 DEF Next
<1> QED
  BY <1>1, <1>2

LEMMA InvHolds == Spec => []IInv
BY InitInv, StepInv, PTL DEF Spec

\* The caches and the history keep to their bounds, whatever arrives and is discarded,
\* and a request that waits is not waiting for a frame number that its camera's sequence,
\* which starts again when its images are discarded, was already past.
\* (camera_cache.py:31, state.py:53, robot_node.py:139, 307)
THEOREM PendingReachable == Spec => []PendingIsReachable
<1>1. IInv => PendingIsReachable
  <2> SUFFICES ASSUME IInv
               PROVE  PendingIsReachable
    OBVIOUS
  <2>1. IsInstance(left) /\ ClockInv /\ ArmInv /\ DwellInv /\ ImageInv /\ RequestInv /\ GatewayInv
    BY DEF IInv
  <2>2. mono \in 0 .. MaxTime /\ now \in 1 .. MaxTime + 1 /\ lastRos \in 1 .. MaxTime + 1
    BY <2>1, Bounds DEF ClockInv
  <2>3. \A a \in Arms : Len(history[a]) <= HistoryLength /\ IsSuffix(history[a], measured[a])
    <3> TAKE a \in Arms
    <3>1. history[a] \in Seq(Samples) /\ measured[a] \in Seq(Samples) /\ Ends(history[a], measured[a])
          /\ Len(history[a]) <= HistoryLength
      BY <2>1 DEF ArmInv
    <3> QED
      BY <3>1, EndsMeansSuffix
  <2>4. \A c \in Cameras : Len(frames[c]) <= BufferSize /\ Len(depth[c]) <= BufferSize
    BY <2>1 DEF ImageInv
  <2>5. calibrated \subseteq Cameras /\ badPlane \subseteq Planes /\ {motionBusy, closing} \subseteq BOOLEAN
    BY <2>1 DEF ImageInv, RequestInv
  <2>6. http \in [Requests -> {"idle", "sent"} \cup Final] /\ posted \cup dropped \subseteq Requests
    BY <2>1 DEF GatewayInv
  <2>7. \A r \in Requests : pending[r].waiting => reply[r] = NoReply /\ pending[r].seq <= Sequence(pending[r].camera)
    BY <2>1 DEF RequestInv
  <2> QED
    BY <2>2, <2>3, <2>4, <2>5, <2>6, <2>7 DEF PendingIsReachable, TypeOK
<1> QED
  BY <1>1, InvHolds, PTL

-------------------------------------------------------------------------------
(* What may answer a request.                                                *)


\* The frames which may answer a request have a newest one: none is far ahead.
LEMMA NewestIs ==
  ASSUME ClockInv, NEW r \in Requests, NEW F, F \in [Cameras -> Seq(Frames)], pending[r] \in Waiting,
         Fresh(r, F) # {}
  PROVE  Newest(Fresh(r, F)) \in Fresh(r, F)
<1> DEFINE S == Fresh(r, F)  T == {f.stamp : f \in S}
<1>1. \A f \in S : f \in Frames /\ f.stamp <= now + Skew
  <2>1. F[pending[r].camera] \in Seq(Frames)
    BY DEF Waiting
  <2>2. \A f \in ToSet(F[pending[r].camera]) : f \in Frames
    BY <2>1, LenProperties, ElementOfSeq DEF ToSet
  <2> QED
    BY <2>2 DEF Fresh, Recent
<1>2. now + Skew \in Nat
  BY Bounds DEF ClockInv
<1> HIDE DEF S
<1>3. \A f \in S : f.stamp \in 0 .. now + Skew
  BY <1>1, <1>2, FrameFields
<1>4. T \in SUBSET (0 .. now + Skew) /\ T # {}
  BY <1>3 DEF S
<1>5. PICK t \in T : \A x \in T : t >= x
  BY <1>2, <1>4, Greatest
<1>6. PICK f \in S : \A g \in S : f.stamp >= g.stamp
  BY <1>5
<1> QED
  BY <1>6 DEF Newest, S

\* A good answer is a fresh frame, alone or with a depth image it may be paired with.
LEMMA AnswerIs ==
  ASSUME ClockInv, NEW r \in Requests, NEW F, F \in [Cameras -> Seq(Frames)], NEW D, pending[r] \in {NoRequest} \cup Waiting,
         NEW answer \in Outcomes(r, F, D), answer.status = "ok"
  PROVE  /\ pending[r].waiting /\ pending[r] \in Waiting
         /\ \/ answer.rgb \in Fresh(r, F) /\ answer.depth = NoDepth
            \/ \E p \in Pairs(r, F, D) :
                 Usable(pending[r].camera, p) /\ answer.rgb = p.rgb /\ answer.depth = p.depth
<1>1. NoReply.status # "ok" /\ \A code : Refused(code) = [status |-> code]
  BY DEF NoReply, Refused
<1>2. answer # NoReply /\ answer # Refused("geometry") /\ answer # Refused("plane")
  BY <1>1
<1>3. pending[r].waiting /\ Fresh(r, F) # {}
  BY <1>2 DEF Outcomes
<1>4. pending[r] \in Waiting
  <2>1. NoRequest.waiting = FALSE
    BY DEF NoRequest
  <2> QED
    BY <1>3, <2>1
<1>5. \/ answer = Answered(Newest(Fresh(r, F)), NoDepth)
      \/ \E p \in Chosen(r, F, D) : answer = Answered(p.rgb, p.depth)
  BY <1>2 DEF Outcomes
<1>6. CASE answer = Answered(Newest(Fresh(r, F)), NoDepth)
  <2>1. Newest(Fresh(r, F)) \in Fresh(r, F)
    BY <1>3, <1>4, NewestIs
  <2> QED
    BY <1>3, <1>4, <1>6, <2>1 DEF Answered
<1>7. ASSUME NEW p \in Chosen(r, F, D), answer = Answered(p.rgb, p.depth)
      PROVE  \E q \in Pairs(r, F, D) : Usable(pending[r].camera, q) /\ answer.rgb = q.rgb /\ answer.depth = q.depth
  <2>1. p \in Pairs(r, F, D) /\ Usable(pending[r].camera, p)
    BY <1>7 DEF Chosen
  <2> QED
    BY <1>7, <2>1 DEF Answered
<1> QED
  BY <1>3, <1>4, <1>5, <1>6, <1>7

\* Only a try after an image, a depth image or the timer gives a good answer.
LEMMA AnswerSource ==
  ASSUME IInv, [Next]_vars, NEW r \in Requests, NewAnswer(r)
  PROVE  /\ reply'[r] \in Outcomes(r, frames', depth') /\ reply'[r].status = "ok"
         /\ UNCHANGED <<wipes, want, asked>>
<1>1. reply[r].status = "none" /\ reply'[r].status = "ok"
  BY DEF NewAnswer
<1>2. \A code : Refused(code).status = code
  BY DEF Refused
<1>3. reply' # reply
  BY <1>1
<1>4. ASSUME NEW answers, Complete(answers)
      PROVE  answers[r] = reply'[r] /\ answers[r].status = "ok"
  <2>1. reply'[r] = IF answers[r] = NoReply THEN reply[r] ELSE answers[r]
    BY <1>4 DEF Complete
  <2> QED
    BY <1>1, <2>1
<1>5. Next
  <2>1. CASE UNCHANGED vars
    <3>1. reply' = reply
      BY <2>1 DEF vars, captureVars, requestVars
    <3> QED
      BY <1>3, <3>1
  <2> QED
    BY <2>1
<1>6. ASSUME NEW F, NEW D, F = frames', D = depth', TryCameras(F, D), UNCHANGED <<wipes, want, asked>>
      PROVE  reply'[r] \in Outcomes(r, frames', depth') /\ UNCHANGED <<wipes, want, asked>>
  <2>1. PICK answers : (\A x \in Requests : answers[x] \in Outcomes(x, F, D)) /\ Complete(answers)
    BY <1>6 DEF TryCameras
  <2>2. answers[r] \in Outcomes(r, F, D) /\ answers[r] = reply'[r]
    BY <1>4, <2>1
  <2> QED
    BY <1>6, <2>2
<1>7. CASE BridgeStep
  <2>1. CapturesNext /\ UNCHANGED gatewayVars /\ UNCHANGED <<want, asked>>
    BY <1>7 DEF BridgeStep, gatewayVars
  <2>2. ~UNCHANGED captureVars
    BY <1>3 DEF captureVars, requestVars
  <2>3. ASSUME NEW c \in left.cameras, NEW stamp \in Stamps(left.imageLags), Image(c, stamp)
        PROVE  reply'[r] \in Outcomes(r, frames', depth') /\ UNCHANGED <<wipes, want, asked>>
    <3>1. TryCameras(frames', depth) /\ depth' = depth /\ UNCHANGED <<wipes, want, asked>>
      BY <2>1, <2>3 DEF Image
    <3> QED
      BY <1>6, <3>1
  <2>4. ASSUME NEW c \in left.cameras, NEW stamp \in Stamps(left.imageLags), DepthImage(c, stamp)
        PROVE  reply'[r] \in Outcomes(r, frames', depth') /\ UNCHANGED <<wipes, want, asked>>
    <3>1. TryCameras(frames, depth') /\ frames' = frames /\ UNCHANGED <<wipes, want, asked>>
      BY <2>1, <2>4 DEF DepthImage
    <3> QED
      BY <1>6, <3>1
  <2>5. ASSUME NEW c \in left.cameras, CameraInfo(c)
        PROVE  FALSE
    <3>1. PICK answers : /\ answers = [x \in Requests |-> IF x \in RefusedBy(c) THEN Refused("calibration") ELSE NoReply]
                         /\ Complete(answers)
      BY <1>3, <2>5 DEF CameraInfo, requestVars
    <3>2. answers[r].status = "ok" /\ answers[r] \in {Refused("calibration"), NoReply}
      BY <1>4, <3>1
    <3> QED
      BY <1>2, <3>2 DEF NoReply
  <2>6. CASE Motion
    BY <1>3, <2>6 DEF Motion, requestVars
  <2>7. CASE Reset
    <3>1. PICK answers : /\ answers = [x \in Requests |-> IF pending[x].waiting THEN Refused("clock") ELSE NoReply]
                         /\ Complete(answers)
      BY <2>7 DEF Reset
    <3>2. answers[r].status = "ok" /\ answers[r] \in {Refused("clock"), NoReply}
      BY <1>4, <3>1
    <3> QED
      BY <1>2, <3>2 DEF NoReply
  <2>8. CASE ClosePending
    <3>1. PICK answers : /\ answers = [x \in Requests |-> IF pending[x].waiting THEN Refused("closing") ELSE NoReply]
                         /\ Complete(answers)
      BY <2>8 DEF ClosePending
    <3>2. answers[r].status = "ok" /\ answers[r] \in {Refused("closing"), NoReply}
      BY <1>4, <3>1
    <3> QED
      BY <1>2, <3>2 DEF NoReply
  <2>9. CASE Expire
    <3>1. PICK answers : (IF Late(r) THEN answers[r] = Refused("late") ELSE answers[r] \in Outcomes(r, frames, depth))
                         /\ Complete(answers)
      BY <2>9 DEF Expire
    <3>2. answers[r] = reply'[r] /\ answers[r].status = "ok"
      BY <1>4, <3>1
    <3>3. reply'[r] \in Outcomes(r, frames, depth)
      BY <1>2, <3>1, <3>2
    <3>4. frames' = frames /\ depth' = depth /\ wipes' = wipes
      BY <2>9 DEF Expire, imageVars
    <3> QED
      BY <1>1, <2>1, <3>3, <3>4
  <2> QED
    BY <1>1, <2>1, <2>2, <2>3, <2>4, <2>5, <2>6, <2>7, <2>8, <2>9 DEF CapturesNext
<1>8. ASSUME NEW x \in Requests, NEW c \in left.cameras, NEW capture \in left.modes, Send(x, c, capture)
      PROVE  FALSE
  BY <1>3, <1>8 DEF Send, captureVars, requestVars
<1>9. ASSUME NEW x \in Requests, GatewayStep(x)
      PROVE  FALSE
  <2>1. CASE Serve(x)
    <3>1. \/ reply' = reply
          \/ \E code \in {"expired", "closing"} : reply' = [reply EXCEPT ![x] = Refused(code)]
      BY <2>1 DEF Serve, CameraRequest
    <3>2. PICK code \in {"expired", "closing"} : reply' = [reply EXCEPT ![x] = Refused(code)]
      BY <1>3, <3>1
    <3>3. reply = [y \in Requests |-> reply[y]]
      BY DEF IInv, RequestInv
    <3>4. reply'[r] = reply[r] \/ reply'[r] = Refused(code)
      BY <3>2, <3>3
    <3> QED
      BY <1>1, <1>2, <3>4
  <2>2. CASE Post(x) \/ Deliver(x) \/ GiveUp(x)
    BY <1>3, <2>2 DEF Post, Deliver, GiveUp, captureVars, requestVars
  <2> QED
    BY <1>9, <2>1, <2>2 DEF GatewayStep
<1> QED
  BY <1>1, <1>5, <1>7, <1>8, <1>9 DEF Next

-------------------------------------------------------------------------------
(* The evidence of an answer.                                                *)

\* An element of a sequence has a place in it.
LEMMA Place ==
  ASSUME NEW T, NEW s \in Seq(T), NEW x \in ToSet(s)
  PROVE  x \in T /\ \E i \in 1 .. Len(s) : x = s[i]
BY LenProperties, ElementOfSeq DEF ToSet

\* What a good answer contains is kept, and was acquired since the request was served.
LEMMA AnswerIsKept ==
  ASSUME IInv, IInv', [Next]_vars, NEW r \in Requests, NewAnswer(r)
  PROVE  /\ pending[r].waiting /\ pending[r] \in Waiting /\ UNCHANGED <<wipes, want, asked>>
         /\ reply'[r].rgb \in ToSet(frames'[pending[r].camera]) /\ reply'[r].rgb.stamp >= pending[r].stamp
         /\ \/ reply'[r].depth = NoDepth
            \/ /\ reply'[r].depth \in ToSet(depth'[pending[r].camera]) /\ reply'[r].depth.stamp >= pending[r].stamp
               /\ Usable(pending[r].camera, [rgb |-> reply'[r].rgb, depth |-> reply'[r].depth])
<1>1. reply'[r] \in Outcomes(r, frames', depth') /\ reply'[r].status = "ok" /\ UNCHANGED <<wipes, want, asked>>
  BY AnswerSource
<1>2. ClockInv /\ pending[r] \in {NoRequest} \cup Waiting
  BY DEF IInv, RequestInv
<1>3. frames' \in [Cameras -> Seq(Frames)]
  BY DEF IInv, ImageInv
<1> DEFINE F == frames'  D == depth'  answer == reply'[r]
<1>4. F \in [Cameras -> Seq(Frames)] /\ answer \in Outcomes(r, F, D) /\ answer.status = "ok"
  BY <1>1, <1>3
<1> HIDE DEF F, D, answer
<1>5. /\ pending[r].waiting /\ pending[r] \in Waiting
      /\ \/ answer.rgb \in Fresh(r, F) /\ answer.depth = NoDepth
         \/ \E p \in Pairs(r, F, D) :
              Usable(pending[r].camera, p) /\ answer.rgb = p.rgb /\ answer.depth = p.depth
  BY <1>2, <1>4, AnswerIs
<1>6. CASE answer.rgb \in Fresh(r, F) /\ answer.depth = NoDepth
  BY <1>1, <1>5, <1>6 DEF Fresh, F, D, answer
<1>7. ASSUME NEW p \in Pairs(r, F, D), Usable(pending[r].camera, p), answer.rgb = p.rgb, answer.depth = p.depth
      PROVE  /\ answer.rgb \in ToSet(F[pending[r].camera]) /\ answer.rgb.stamp >= pending[r].stamp
             /\ answer.depth \in ToSet(D[pending[r].camera]) /\ answer.depth.stamp >= pending[r].stamp
             /\ Usable(pending[r].camera, [rgb |-> answer.rgb, depth |-> answer.depth])
  <2>1. /\ p \in [rgb : Fresh(r, F), depth : ToSet(D[pending[r].camera])] /\ p.depth.stamp >= pending[r].stamp
    BY DEF Pairs
  <2>2. p = [rgb |-> answer.rgb, depth |-> answer.depth]
    BY <1>7, <2>1
  <2>3. p.rgb \in Fresh(r, F) /\ p.depth \in ToSet(D[pending[r].camera])
    BY <2>1
  <2> QED
    BY <1>7, <2>1, <2>2, <2>3 DEF Fresh
<1> QED
  BY <1>1, <1>5, <1>6, <1>7 DEF F, D, answer

\* An answer contains nothing that was discarded, and nothing acquired before its caller
\* asked for it unless the clock has moved back since: requests go when the images of their
\* camera go, and a deferred one compares with the time at which it was served.
\* (robot_node.py:126, 200, 240, 299)
THEOREM EvidenceCurrent == Spec => EvidenceIsCurrent
<1>1. ASSUME IInv, IInv', [Next]_vars, NEW r \in Requests, NewAnswer(r)
      PROVE  LET images == {reply'[r].rgb, reply'[r].depth} \ {NoDepth} IN
             \A image \in images :
               /\ image.wipe = wipes'[pending[r].camera]
               /\ want[r].resets = left.resets => image.stamp >= asked[r]
  <2> DEFINE rgb == reply'[r].rgb  image == reply'[r].depth
  <2>1. /\ pending[r].waiting /\ pending[r] \in Waiting
        /\ rgb \in ToSet(frames'[pending[r].camera]) /\ rgb.stamp >= pending[r].stamp
        /\ image = NoDepth \/ (image \in ToSet(depth'[pending[r].camera]) /\ image.stamp >= pending[r].stamp)
    BY <1>1, AnswerIsKept
  <2> HIDE DEF rgb, image
  <2>2. PICK c \in Cameras : c = pending[r].camera
    BY <2>1 DEF Waiting
  <2>3. /\ frames'[c] \in Seq(Frames) /\ depth'[c] \in Seq(Depths)
        /\ \A i \in 1 .. Len(frames'[c]) : frames'[c][i].wipe = wipes'[c]
        /\ \A i \in 1 .. Len(depth'[c]) : depth'[c][i].wipe = wipes'[c]
    BY <1>1 DEF IInv, ImageInv
  <2>4. rgb \in Frames /\ rgb.wipe = wipes'[c]
    BY <2>1, <2>2, <2>3, Place
  <2>5. image = NoDepth \/ (image \in Depths /\ image.wipe = wipes'[c])
    BY <2>1, <2>2, <2>3, Place
  <2>6. want[r].resets = left.resets => asked[r] <= pending[r].stamp
    BY <1>1, <2>1 DEF IInv, RequestInv
  <2>7. asked[r] \in Nat /\ pending[r].stamp \in Nat
    BY <1>1, <2>1 DEF IInv, GatewayInv, Waiting
  <2>8. want[r].resets = left.resets => rgb.stamp >= asked[r]
    BY <2>1, <2>4, <2>6, <2>7, FrameFields
  <2>9. image = NoDepth \/ (want[r].resets = left.resets => image.stamp >= asked[r])
    BY <2>1, <2>5, <2>6, <2>7, FrameFields
  <2> QED
    BY <2>2, <2>4, <2>5, <2>8, <2>9 DEF rgb, image
<1>2. IInv /\ IInv' /\ [Next]_vars =>
        [\A r \in Requests : NewAnswer(r) =>
           LET images == {reply'[r].rgb, reply'[r].depth} \ {NoDepth} IN
           \A image \in images :
             /\ image.wipe = wipes'[pending[r].camera]
             /\ want[r].resets = left.resets => image.stamp >= asked[r]]_vars
  BY <1>1
<1> QED
  BY <1>2, InvHolds, PTL DEF Spec, EvidenceIsCurrent

\* Two exposures of a wrist camera at different times only answer a request together if
\* no motion was under way, the last one had ended before the first, and the camera's arm
\* was measured from one to the other without a gap and never moving: also of the samples
\* the history of 512 has forgotten none was taken in between.
\* (robot_node.py:240, state.py:55)
THEOREM WristStillWhenPaired == Spec => WristWasStill
<1>1. ASSUME IInv, IInv', [Next]_vars, NEW r \in Requests, NewAnswer(r), reply'[r].depth # NoDepth
      PROVE  LET p == [rgb |-> reply'[r].rgb, depth |-> reply'[r].depth] IN
             (Delta(p) # 0 /\ pending[r].camera \in Wrist) =>
               /\ ~motionBusy /\ motionEnd < First(p)
               /\ StillFrom(ArmOf[pending[r].camera], First(p), Second(p))
  <2> DEFINE p == [rgb |-> reply'[r].rgb, depth |-> reply'[r].depth]
  <2>1. Usable(pending[r].camera, p) /\ p.rgb = reply'[r].rgb
        /\ p.rgb \in ToSet(frames'[pending[r].camera]) /\ p.depth \in ToSet(depth'[pending[r].camera])
        /\ pending[r] \in Waiting
    BY <1>1, AnswerIsKept
  <2> HIDE DEF p
  <2> SUFFICES ASSUME Delta(p) # 0, pending[r].camera \in Wrist
               PROVE  /\ ~motionBusy /\ motionEnd < First(p)
                      /\ StillFrom(ArmOf[pending[r].camera], First(p), Second(p))
    BY DEF p
  <2>2. WristStill(ArmOf[pending[r].camera], p) /\ ArmOf[pending[r].camera] \in Arms
    BY <2>1, Bounds DEF Usable
  <2>3. ~motionBusy /\ First(p) > motionEnd /\ StationaryInterval(ArmOf[pending[r].camera], First(p), Second(p))
    BY <2>2 DEF WristStill
  <2>4. StillFrom(ArmOf[pending[r].camera], First(p), Second(p))
    BY <1>1, <2>2, <2>3, IntervalIsStill DEF IInv
  <2>5. First(p) \in Nat
    <3>1. frames'[pending[r].camera] \in Seq(Frames) /\ depth'[pending[r].camera] \in Seq(Depths)
      BY <1>1, <2>1 DEF IInv, ImageInv, Waiting
    <3>2. p.rgb \in Frames /\ p.depth \in Depths
      BY <2>1, <3>1, Place
    <3>3. p.rgb.stamp \in Nat /\ p.depth.stamp \in Nat
      BY <3>2, FrameFields
    <3> QED
      BY <3>3 DEF First
  <2>6. motionEnd \in Nat
    BY <1>1 DEF IInv, RequestInv
  <2> QED
    BY <2>3, <2>4, <2>5, <2>6
<1>2. IInv /\ IInv' /\ [Next]_vars =>
        [\A r \in Requests : NewAnswer(r) /\ reply'[r].depth # NoDepth =>
           LET p == [rgb |-> reply'[r].rgb, depth |-> reply'[r].depth] IN
           (Delta(p) # 0 /\ pending[r].camera \in Wrist) =>
             /\ ~motionBusy /\ motionEnd < First(p)
             /\ StillFrom(ArmOf[pending[r].camera], First(p), Second(p))]_vars
  BY <1>1
<1> QED
  BY <1>2, InvHolds, PTL DEF Spec, WristWasStill

-------------------------------------------------------------------------------
(* The end of a wait.                                                        *)

\* Within its time, with the bridge open and the clock going on, a wait only ends because
\* it settled.
LEMMA OnlySettled ==
  ASSUME IInv, [Next]_vars, settle.waiting, ~settle'.waiting, closing' = closing, now >= lastRos, mono < settle.deadline
  PROVE  Settled
<1>1. settle' # settle
  OBVIOUS
<1>2. settle \in Waits /\ closing \in BOOLEAN /\ mono \in Nat /\ now \in Nat /\ lastRos \in Nat
  <2>1. MaxTime \in Nat
    BY Bounds
  <2> QED
    BY <2>1, WaitIs DEF IInv, RequestInv, ClockInv
<1>3. Next
  <2>1. CASE UNCHANGED vars
    BY <1>1, <2>1 DEF vars, telemetryVars
  <2> QED
    BY <2>1
<1>4. Expire
  <2>1. ~UNCHANGED telemetryVars
    BY <1>1 DEF telemetryVars
  <2>2. CASE BridgeStep
    <3>1. ~Reset
      BY <1>2 DEF Reset
    <3>2. ~ClosePending
      <4> SUFFICES ASSUME ClosePending
                   PROVE  FALSE
        OBVIOUS
      <4>1. closing' = TRUE /\ ~closing
        BY DEF ClosePending
      <4> QED
        BY <4>1
    <3>3. /\ ~Tick /\ ~Motion /\ \A arms \in SUBSET Arms : ~WaitState(arms)
          /\ \A a \in Arms, stamp \in Stamps(left.sampleLags), moving \in left.moving : ~ArmState(a, stamp, moving)
      BY <1>1 DEF Tick, Motion, WaitState, ArmState
    <3>4. \A c \in left.cameras : ~CameraInfo(c) /\ \A stamp \in Stamps(left.imageLags) : ~Image(c, stamp) /\ ~DepthImage(c, stamp)
      BY <1>1 DEF CameraInfo, Image, DepthImage
    <3> QED
      BY <2>2, <3>1, <3>2, <3>3, <3>4 DEF BridgeStep, CapturesNext
  <2>3. ASSUME NEW x \in Requests, NEW c \in left.cameras, NEW capture \in left.modes, Send(x, c, capture)
        PROVE  FALSE
    BY <1>1, <2>3 DEF Send
  <2>4. ASSUME NEW x \in Requests, GatewayStep(x)
        PROVE  FALSE
    <3>1. UNCHANGED telemetryVars
      BY <2>4 DEF GatewayStep, Serve, CameraRequest, Post, Deliver, GiveUp
    <3> QED
      BY <2>1, <3>1
  <2> QED
    BY <1>3, <2>2, <2>3, <2>4 DEF Next
<1>5. settle' = IF ~settle.waiting THEN settle
                ELSE IF mono >= settle.deadline \/ Settled THEN NoWait
                ELSE IF ~NewMeasurement THEN settle
                ELSE [settle EXCEPT !.stable = IF KeepsDwell THEN DwellFrom ELSE NoDwell]
  BY <1>4 DEF Expire, CheckSettled
<1>6. ~(mono >= settle.deadline)
  BY <1>2 DEF Waits
<1>7. \A d : [settle EXCEPT !.stable = d].waiting = settle.waiting
  BY <1>2 DEF Waits
<1> QED
  BY <1>1, <1>5, <1>6, <1>7

\* The wait after a command ends in time only if each of its arms was measured at rest, with
\* no large gap, from a sample that is not older than the wait and was received Dwell ago
\* up to a newer one. (state.py:53, robot_node.py:345)
THEOREM SettledStill == Spec => SettledMeansStill
<1>1. ASSUME IInv, [Next]_vars, settle.waiting, ~settle'.waiting, closing' = closing, now >= lastRos, mono < settle.deadline
      PROVE  \A a \in settle.arms : \E i \in DOMAIN measured[a] :
               LET m == measured[a] IN
               /\ m[i].stamp >= settle.stamp /\ m[i].at <= mono - Dwell
               /\ Dwell > 0 => i < Len(m)
               /\ \A k \in i .. Len(m) : ~m[k].moving
               /\ \A k \in i .. Len(m) - 1 : m[k + 1].stamp - m[k].stamp <= MaxGap
  <2> TAKE a \in settle.arms
  <2>1. Settled
    BY <1>1, OnlySettled
  <2>2. PICK i \in 1 .. Len(measured[a]) :
          /\ measured[a][i].stamp >= settle.stamp /\ measured[a][i].at <= mono - Dwell
          /\ Dwell > 0 => i < Len(measured[a])
          /\ Rests(measured[a], i, Len(measured[a]))
    BY <1>1, <2>1, SettledIsMeasured DEF IInv
  <2>3. DOMAIN measured[a] = 1 .. Len(measured[a])
    <3>1. a \in Arms
      BY <1>1, WaitIs DEF Waits, IInv
    <3> QED
      BY <1>1, <3>1, LenProperties DEF IInv, ArmInv
  <2> QED
    BY <2>2, <2>3 DEF Rests
<1>2. IInv /\ [Next]_vars =>
        [SettledIsStill(settle.waiting /\ ~settle'.waiting /\ closing' = closing
                        /\ now >= lastRos /\ mono < settle.deadline)]_vars
  BY <1>1 DEF SettledIsStill
<1> QED
  BY <1>2, InvHolds, PTL DEF Spec, SettledMeansStill
===============================================================================
