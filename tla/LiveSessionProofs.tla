--------------------------- MODULE LiveSessionProofs ---------------------------
(***************************************************************************)
(* What LiveSession guarantees for any batches of tool calls and any       *)
(* instances: the event that keeps heartbeats back means that a blocking   *)
(* tool is in progress, the robot only sits if what the user said asks for *)
(* it, a closed session is quiet, and on the stream of its frame the       *)
(* user's text follows the frame.                                          *)
(*                                                                         *)
(* What all but the second rest on is the order at _stream_lock: a task    *)
(* waits there once, while it says so, and only the first has a write on a *)
(* thread, if it is not a reconnect's setup or was left by its task.       *)
(***************************************************************************)
EXTENDS LiveSession, SequenceTheorems, FiniteSetTheorems, TLAPS

-------------------------------------------------------------------------------
(* The inductive invariant.                                                  *)

Stages == {"none", "posted", "invoke", "frame", "video", "answer", "over"}
Contents == {"setup", "none", "frame", "text", "prompt", "video", "answer"}
Tasks == Batches \cup {"hb", "text"}
Messages == {<<"frame", "text">>, <<"text">>, <<"prompt">>, <<"video">>, <<"answer">>}
Jobs == [by : Tasks, after : Nat, messages : Messages]
Writes == [by : Writers, to : Nat, message : Contents, after : Nat]

BatchInv ==
  /\ calls \in [Batches -> Seq(STRING)]
  /\ stage \in [Batches -> Stages]
  /\ \A b \in Active : calls[b] # <<>>

Pieces == [sit : BOOLEAN, never : BOOLEAN, typed : BOOLEAN]

\* The transcript is what was said since the last text typed, and the authorization is
\* not older than what was said last.
SitInv ==
  /\ transcript \in [sit : BOOLEAN, never : BOOLEAN] /\ authorized \in BOOLEAN
  /\ said \in Seq(Pieces) /\ sitAt \in 0 .. Len(said) /\ sits \in Nat
  /\ transcript.sit <=> \E i \in SaidNow : said[i].sit
  /\ transcript.never <=> \E i \in SaidNow : said[i].never
  /\ authorized => transcript.sit /\ ~transcript.never /\ sitAt < Len(said)

\* B counts the batches of S.
Counts(B, S) ==
  /\ B \in [count : Nat, set : BOOLEAN]
  /\ B.count = Cardinality(S)
  /\ B.set <=> S # {}

StreamInv ==
  /\ streams \in Seq({"live", "ended", "shut"})
  /\ lastWritten \in Seq(Contents) /\ Len(lastWritten) = Len(streams)
  /\ current \in {0, Len(streams)} /\ Len(streams) # 0

InputInv ==
  /\ hb \in {"off", "wait", "gap", "speech", "pause", "frame", "video", "prompt", "dead"}
  /\ text \in {"idle", "frame", "send", "dead", "off"}

MainInv ==
  /\ main \in {"run", "sleep", "setup", "closing", "stopped", "closed"}
  /\ attempt \in 0 .. MaxRetries /\ rapid \in 0 .. MaxRetries
  /\ Ending \/ rapid < MaxRetries
  /\ current = 0 <=> main = "closed"
  /\ main \in {"stopped", "closed"} => hb = "off" /\ text = "off"
  /\ main = "closed" => /\ \A b \in Batches : stage[b] \in {"none", "over"}
                        /\ streams[Len(streams)] = "shut"

\* The tasks that say they are at the lock.
AtLock ==
  {t \in Tasks : \/ t \in Batches /\ stage[t] \in {"video", "answer"}
                 \/ t = "hb" /\ hb \in {"video", "prompt"}
                 \/ t = "text" /\ text = "send"}

\* Streams made after s have had their setup, or nothing yet.
Newest(s, last) == \A t \in DOMAIN last : t > s => last[t] \in {"none", "setup"}

\* What was written last on s is a frame, or the setup of a reconnect that followed.
FrameLast(s, last) == s \in DOMAIN last /\ last[s] \in {"frame", "setup"} /\ Newest(s, last)

\* In the queue q every task of the set at waits once. A task that has written its first
\* message holds the lock, and what it wrote is the last on its stream but for a setup.
Queued(q, at, last) ==
  /\ \A i, j \in 1 .. Len(q) : q[i].by = q[j].by => i = j
  /\ \A i \in 1 .. Len(q) :
       /\ q[i].by \in at
       /\ q[i].messages = <<"frame", "text">> => q[i].by = "text" /\ q[i].after = 0
       /\ q[i].after # 0 => i = 1 /\ q[i].by = "text" /\ FrameLast(q[i].after, last)

QueueInv == lockQueue \in Seq(Jobs) /\ Queued(lockQueue, AtLock, lastWritten)

\* The write w is that of the task that holds the lock in q.
HolderWrites(w, q) ==
  q # <<>> /\ w.by = q[1].by /\ w.message = Head(q[1].messages) /\ w.after = q[1].after

WriteInv ==
  /\ writes \subseteq Writes
  /\ \A w \in writes :
       /\ w.to \in DOMAIN streams
       /\ w.by = "setup" => main = "setup" /\ w.message = "setup"
       /\ w.by = "nobody" => main \in {"stopped", "closed"} \/ (main = "closing" /\ w.message = "setup")
       /\ w.by \in Tasks => HolderWrites(w, lockQueue)
       /\ w.by = "text" => w.after <= w.to /\ Newest(w.to, lastWritten)
  /\ \A v, w \in writes : v.by = w.by /\ v.by # "nobody" => v = w

IInv ==
  /\ IsInstance(left) /\ BatchInv /\ SitInv /\ Counts(blocking, ActiveBlocking)
  /\ StreamInv /\ InputInv /\ MainInv /\ QueueInv /\ WriteInv

LEMMA Names ==
  /\ IsFiniteSet(Batches)
  /\ \A b \in Batches : b \notin {"hb", "text", "setup", "nobody"}
  /\ Writers = Tasks \cup {"setup", "nobody"}
  /\ Batches \subseteq Tasks /\ "hb" \in Tasks /\ "text" \in Tasks
  /\ "setup" \notin Tasks /\ "nobody" \notin Tasks
BY BatchesAssumption DEF Writers, Tasks

Kinds == {"drops", "streams", "failures", "turns", "interrupts", "utterances", "texts", "leaves"}

\* What is left of an instance is one.
LEMMA SpendKeeps ==
  ASSUME IsInstance(left), NEW what \in Kinds, Spend(what)
  PROVE  IsInstance(left') /\ left'.heartbeat = left.heartbeat
<1>1. left[what] \in Nat /\ left[what] > 0 /\ left' = [left EXCEPT ![what] = @ - 1]
  BY DEF IsInstance, Spend, Kinds
<1>2. left[what] - 1 \in Nat
  BY <1>1
<1>3. /\ left'.tools = left.tools /\ left'.heartbeat = left.heartbeat
      /\ left' \in [tools : {left.tools}, heartbeat : {"events", "interval", "none"}, drops : Nat, streams : Nat,
            failures : Nat, turns : Nat, interrupts : Nat, utterances : Nat, texts : Nat, leaves : Nat]
  BY <1>1, <1>2 DEF IsInstance, Kinds
<1> QED
  BY <1>3 DEF IsInstance

-------------------------------------------------------------------------------
(* Counting the blocking tools in progress.                                  *)

LEMMA MaxWithZero ==
  ASSUME NEW k \in Int
  PROVE  Max({0, k}) = IF k >= 0 THEN k ELSE 0
<1> DEFINE m == IF k >= 0 THEN k ELSE 0
<1>1. m \in {0, k} /\ \A x \in {0, k} : m >= x
  OBVIOUS
<1>2. \A y \in {0, k} : (\A x \in {0, k} : y >= x) => y = m
  BY <1>1
<1> QED
  BY <1>1, <1>2 DEF Max

LEMMA CountsOf ==
  ASSUME NEW S, NEW n \in Nat, n = Cardinality(S), NEW p \in BOOLEAN, p = (S # {})
  PROVE  Counts([count |-> n, set |-> p], S)
<1> DEFINE B == [count |-> n, set |-> p]
<1>1. B \in [count : Nat, set : BOOLEAN] /\ B.count = n
  OBVIOUS
<1>2. B.set = p
  OBVIOUS
<1> HIDE DEF B
<1>3. B.set <=> S # {}
  BY <1>2
<1>4. Counts(B, S)
  BY <1>1, <1>3 DEF Counts
<1> QED
  BY <1>4 DEF B

LEMMA LeftNone ==
  ASSUME NEW B
  PROVE  Left(0, B) = B
BY DEF Left

\* One of the batches counted ends its blocking tool.
LEMMA LeftOne ==
  ASSUME NEW S, IsFiniteSet(S), NEW b \in S, NEW B, Counts(B, S)
  PROVE  Counts(Left(1, B), S \ {b})
<1>1. /\ Cardinality(S \ {b}) = Cardinality(S) - 1 /\ IsFiniteSet(S \ {b})
      /\ Cardinality(S) \in Nat /\ Cardinality(S) > 0 /\ Cardinality(S) = B.count
  BY FS_RemoveElement, FS_CardinalityType, FS_EmptySet DEF Counts
<1>2. S \ {b} # {} <=> B.count - 1 # 0
  BY <1>1, FS_EmptySet
<1>3. Max({0, B.count - 1}) = B.count - 1
  BY <1>1, MaxWithZero
<1>4. B.set = TRUE
  BY DEF Counts
<1>5. Left(1, B) = [count |-> B.count - 1, set |-> B.set /\ B.count - 1 # 0]
  <2>1. 1 # 0
    OBVIOUS
  <2> QED
    BY <1>3, <2>1, Zenon DEF Left
<1>6. (B.set /\ B.count - 1 # 0) \in BOOLEAN
  OBVIOUS
<1>7. (B.set /\ B.count - 1 # 0) = (S \ {b} # {})
  BY <1>2, <1>4
<1>8. B.count - 1 \in Nat /\ B.count - 1 = Cardinality(S \ {b})
  BY <1>1
<1> DEFINE p == B.set /\ B.count - 1 # 0
           n == B.count - 1
<1>9. n \in Nat /\ n = Cardinality(S \ {b}) /\ p \in BOOLEAN /\ p = (S \ {b} # {})
  BY <1>6, <1>7, <1>8
<1>10. Left(1, B) = [count |-> n, set |-> p]
  BY <1>5
<1> HIDE DEF n, p
<1>11. Counts([count |-> n, set |-> p], S \ {b})
  BY <1>9, CountsOf
<1> QED
  BY <1>10, <1>11

\* All end.
LEMMA LeftAll ==
  ASSUME NEW S, IsFiniteSet(S), NEW B, Counts(B, S)
  PROVE  Counts(Left(Cardinality(S), B), {})
<1>1. /\ Cardinality(S) \in Nat /\ B.count = Cardinality(S) /\ (Cardinality(S) = 0 <=> S = {})
      /\ Cardinality({}) = 0
  BY FS_CardinalityType, FS_EmptySet DEF Counts
<1>2. CASE Cardinality(S) = 0
  BY <1>1, <1>2, LeftNone
<1>3. CASE Cardinality(S) # 0
  <2>1. Max({0, B.count - Cardinality(S)}) = 0
    BY <1>1, MaxWithZero
  <2>2. Left(Cardinality(S), B) = [count |-> 0, set |-> FALSE]
    BY <1>3, <2>1 DEF Left
  <2> QED
    BY <1>1, <2>2 DEF Counts
<1> QED
  BY <1>2, <1>3

\* A batch not counted starts a tool.
LEMMA EnteredCounts ==
  ASSUME NEW S, IsFiniteSet(S), NEW b, b \notin S, NEW B, Counts(B, S), NEW tool
  PROVE  Counts(Entered(tool, B), IF tool \in BlockingTools THEN S \cup {b} ELSE S)
<1>1. Cardinality(S \cup {b}) = Cardinality(S) + 1 /\ Cardinality(S) \in Nat
  BY FS_AddElement, FS_CardinalityType
<1>2. CASE tool \in BlockingTools
  <2>1. Entered(tool, B) = [count |-> B.count + 1, set |-> TRUE]
    BY <1>2 DEF Entered
  <2>2. B.count + 1 \in Nat /\ B.count + 1 = Cardinality(S \cup {b})
    BY <1>1 DEF Counts
  <2>3. TRUE = (S \cup {b} # {})
    OBVIOUS
  <2>4. Counts([count |-> B.count + 1, set |-> TRUE], S \cup {b})
    BY <2>2, <2>3, CountsOf
  <2> QED
    BY <1>2, <2>1, <2>4
<1>3. CASE tool \notin BlockingTools
  BY <1>3 DEF Entered
<1> QED
  BY <1>2, <1>3

-------------------------------------------------------------------------------
(* The queue at the lock.                                                    *)

LEMMA Popped ==
  ASSUME NEW q \in Seq(Jobs), q # <<>>, NEW at, NEW rest, NEW last, NEW then, Queued(q, at, last),
         \A t \in at : t = q[1].by \/ t \in rest
  PROVE  /\ Tail(q) \in Seq(Jobs) /\ Queued(Tail(q), rest, then)
         /\ \A i \in 1 .. Len(Tail(q)) : Tail(q)[i].by # q[1].by
<1>1. /\ Tail(q) \in Seq(Jobs) /\ Len(q) \in Nat /\ 1 \in 1 .. Len(q)
      /\ Len(Tail(q)) = Len(q) - 1 /\ \A i \in 1 .. Len(Tail(q)) : Tail(q)[i] = q[i + 1]
  BY HeadTailProperties, LenProperties, EmptySeq
<1>2. \A i \in 1 .. Len(Tail(q)) : i + 1 \in 1 .. Len(q) /\ i + 1 # 1
  BY <1>1
<1>3. \A i, j \in 1 .. Len(Tail(q)) : i + 1 = j + 1 => i = j
  BY <1>1
<1>4. \A i \in 1 .. Len(Tail(q)) : q[i + 1].by # q[1].by
  BY <1>1, <1>2 DEF Queued
<1>5. \A i, j \in 1 .. Len(Tail(q)) : q[i + 1].by = q[j + 1].by => i = j
  BY <1>2, <1>3 DEF Queued
<1>6. \A i \in 1 .. Len(Tail(q)) :
        /\ q[i + 1].by \in rest /\ q[i + 1].after = 0
        /\ q[i + 1].messages = <<"frame", "text">> => q[i + 1].by = "text"
  BY <1>2, <1>4 DEF Queued
<1> QED
  BY <1>1, <1>4, <1>5, <1>6 DEF Queued

LEMMA Queuing ==
  ASSUME NEW q \in Seq(Jobs), NEW at, NEW more, NEW last, Queued(q, at, last), NEW t \in Tasks,
         \A i \in 1 .. Len(q) : q[i].by # t, at \subseteq more, t \in more,
         NEW messages \in Messages,
         messages = <<"frame", "text">> => t = "text"
  PROVE  /\ Append(q, Job(t, messages)) \in Seq(Jobs) /\ Queued(Append(q, Job(t, messages)), more, last)
         /\ \A w : HolderWrites(w, q) => HolderWrites(w, Append(q, Job(t, messages)))
<1> DEFINE job == Job(t, messages)
           r == Append(q, job)
<1>1. job \in Jobs /\ job.by = t /\ job.messages = messages /\ job.after = 0
  BY DEF Job, Jobs
<1> HIDE DEF job
<1>2. /\ r \in Seq(Jobs) /\ Len(r) = Len(q) + 1 /\ Len(q) \in Nat
      /\ \A i \in 1 .. Len(q) : r[i] = q[i]
      /\ r[Len(q) + 1] = job
  BY <1>1, AppendProperties, LenProperties
<1> HIDE DEF r
<1>3. \A i \in 1 .. Len(r) : i \in 1 .. Len(q) \/ (i = Len(q) + 1 /\ i \notin 1 .. Len(q))
  BY <1>2
<1>4. \A i, j \in 1 .. Len(r) : r[i].by = r[j].by => i = j
  BY <1>1, <1>2, <1>3 DEF Queued
<1>5. \A i \in 1 .. Len(r) :
       /\ r[i].by \in more
       /\ r[i].messages = <<"frame", "text">> => r[i].by = "text" /\ r[i].after = 0
       /\ r[i].after # 0 => i = 1 /\ r[i].by = "text" /\ FrameLast(r[i].after, last)
  <2> DEFINE Good(x, i) == /\ x.by \in more
                           /\ x.messages = <<"frame", "text">> => x.by = "text" /\ x.after = 0
                           /\ x.after # 0 => i = 1 /\ x.by = "text" /\ FrameLast(x.after, last)
  <2>1. \A i \in 1 .. Len(q) : Good(q[i], i)
    BY DEF Queued
  <2>2. Good(job, Len(q) + 1)
    BY <1>1
  <2> HIDE DEF Good
  <2>3. \A i \in 1 .. Len(r) : Good(r[i], i)
    BY <1>2, <1>3, <2>1, <2>2
  <2> QED
    BY <2>3 DEF Good
<1>6. \A w : HolderWrites(w, q) => HolderWrites(w, r)
  <2>1. q # <<>> => 1 \in 1 .. Len(q)
    BY <1>2, EmptySeq
  <2>2. r # <<>>
    BY <1>2, EmptySeq
  <2> QED
    BY <1>2, <2>1, <2>2 DEF HolderWrites
<1> QED
  BY <1>2, <1>4, <1>5, <1>6 DEF Queued, r, job

LEMMA QueueWidened ==
  ASSUME NEW q, NEW at, NEW more, NEW last, Queued(q, at, last), at \subseteq more
  PROVE  Queued(q, more, last)
<1>1. \A i \in 1 .. Len(q) : q[i].by \in more
  BY DEF Queued
<1> QED
  BY <1>1 DEF Queued

\* Nothing but setups is written, and streams are made.
Settles(last, then) ==
  /\ DOMAIN last \subseteq DOMAIN then
  /\ \A t \in DOMAIN then : \/ then[t] = "setup"
                            \/ IF t \in DOMAIN last THEN then[t] = last[t] ELSE then[t] = "none"

LEMMA FrameKept ==
  ASSUME NEW last, NEW then, Settles(last, then), NEW s
  PROVE  /\ Newest(s, last) => Newest(s, then)
         /\ FrameLast(s, last) => FrameLast(s, then)
<1>1. Newest(s, last) => Newest(s, then)
  BY DEF Newest, Settles
<1> QED
  BY <1>1 DEF FrameLast, Settles

LEMMA QueueKept ==
  ASSUME NEW q, NEW at, NEW more, NEW last, NEW then, Queued(q, at, last), at \subseteq more,
         Settles(last, then)
  PROVE  Queued(q, more, then)
BY FrameKept DEF Queued

-------------------------------------------------------------------------------
(* Tasks that leave the queue.                                               *)

\* A set of numbers has a least one.
LEMMA Least ==
  ASSUME NEW S \in SUBSET Nat, S # {}
  PROVE  \E m \in S : \A x \in S : m <= x
<1> DEFINE R == OpToRel(<, Nat)
<1>1. IsWellFoundedOn(R, Nat)
  BY NatLessThanWellFounded
<1>2. \A x, y \in Nat : x < y => <<x, y>> \in R
  BY DEF OpToRel
<1> HIDE DEF R
<1>3. PICK m \in S : \A x \in S : <<x, m>> \notin R
  BY <1>1, WFMin
<1>4. \A x \in S : x \in Nat
  OBVIOUS
<1>5. \A x \in S : ~(x < m)
  BY <1>2, <1>3, <1>4
<1>6. \A x \in S : m <= x
  BY <1>4, <1>5
<1> QED
  BY <1>6

Up(f, n) == \A i, j \in 1 .. n : i < j => f[i] < f[j]

\* Every finite set of numbers is counted in order.
LEMMA Counted ==
  \A n \in Nat, S \in SUBSET Nat :
    IsFiniteSet(S) /\ Cardinality(S) = n => \E f \in [1 .. n -> S] : Up(f, n)
<1> DEFINE Q(n, S) == IsFiniteSet(S) /\ Cardinality(S) = n => \E f \in [1 .. n -> S] : Up(f, n)
           T == {n \in Nat : \E S \in SUBSET Nat : ~Q(n, S)}
<1> SUFFICES ASSUME T # {}
             PROVE  FALSE
  OBVIOUS
<1>1. PICK n \in T : \A x \in T : n <= x
  BY Least
<1>2. PICK S \in SUBSET Nat : IsFiniteSet(S) /\ Cardinality(S) = n /\ ~\E f \in [1 .. n -> S] : Up(f, n)
  BY <1>1
<1>3. n \in Nat
  BY <1>1
<1>4. CASE n = 0
  <2>1. [i \in 1 .. 0 |-> 0] \in [1 .. n -> S] /\ Up([i \in 1 .. 0 |-> 0], n)
    BY <1>4 DEF Up
  <2> QED
    BY <1>2, <2>1
<1>5. CASE n # 0
  <2>1. S # {}
    BY <1>2, <1>5, FS_EmptySet
  <2>2. PICK m \in S : \A x \in S : m <= x
    BY <2>1, Least
  <2>3. /\ IsFiniteSet(S \ {m}) /\ Cardinality(S \ {m}) = n - 1 /\ n - 1 \in Nat
    BY <1>2, <1>3, <1>5, FS_RemoveElement
  <2>4. Q(n - 1, S \ {m})
    <3>1. n - 1 \notin T
      BY <1>1, <1>3, <2>3
    <3>2. S \ {m} \in SUBSET Nat
      OBVIOUS
    <3> QED
      BY <2>3, <3>1, <3>2
  <2>5. PICK g \in [1 .. (n - 1) -> S \ {m}] : Up(g, n - 1)
    BY <2>3, <2>4
  <2> DEFINE f == [i \in 1 .. n |-> IF i = 1 THEN m ELSE g[i - 1]]
  <2>6. \A i \in 2 .. n : i - 1 \in 1 .. (n - 1) /\ g[i - 1] \in S \ {m}
    BY <1>3
  <2>7. f \in [1 .. n -> S]
    BY <1>3, <2>6
  <2>8. \A i, j \in 1 .. n : i < j => f[i] < f[j]
    <3> SUFFICES ASSUME NEW i \in 1 .. n, NEW j \in 1 .. n, i < j
                 PROVE  f[i] < f[j]
      OBVIOUS
    <3>1. j \in 2 .. n /\ f[j] = g[j - 1] /\ j - 1 \in 1 .. (n - 1)
      BY <1>3
    <3>2. CASE i = 1
      <4>1. g[j - 1] \in S \ {m} /\ g[j - 1] \in Nat /\ m \in Nat /\ m <= g[j - 1] /\ g[j - 1] # m
        BY <2>2, <2>6, <3>1
      <4> QED
        BY <3>1, <3>2, <4>1
    <3>3. CASE i # 1
      <4>1. i - 1 \in 1 .. (n - 1) /\ i - 1 < j - 1 /\ f[i] = g[i - 1]
        BY <1>3, <3>1, <3>3
      <4> QED
        BY <2>5, <3>1, <4>1 DEF Up
    <3> QED
      BY <3>2, <3>3
  <2> HIDE DEF f
  <2> QED
    BY <1>2, <2>7, <2>8 DEF Up
<1> QED
  BY <1>4, <1>5

LEMMA AscendingOrder ==
  ASSUME NEW n \in Nat, NEW S \in SUBSET (1 .. n)
  PROVE  LET k == Cardinality(S) IN
         /\ k \in Nat /\ Ascending(S) \in [1 .. k -> S] /\ DOMAIN Ascending(S) = 1 .. k
         /\ \A i, j \in 1 .. k : Ascending(S)[i] = Ascending(S)[j] => i = j
         /\ \A x \in S : \E i \in 1 .. k : Ascending(S)[i] = x
         /\ \A i \in 1 .. k : Ascending(S)[i] = 1 => i = 1
<1> DEFINE k == Cardinality(S)
           f == Ascending(S)
<1>1. IsFiniteSet(S) /\ k \in Nat /\ S \in SUBSET Nat
  <2>1. IsFiniteSet(1 .. n)
    BY FS_Interval
  <2>2. IsFiniteSet(S)
    BY <2>1, FS_Subset
  <2> QED
    BY <2>2, FS_CardinalityType
<1>2. \E g \in [1 .. k -> S] : Up(g, k)
  BY <1>1, Counted
<1>3. f \in [1 .. k -> S] /\ \A i, j \in 1 .. k : i < j => f[i] < f[j]
  BY <1>2 DEF Ascending, Up
<1>4. IsFiniteSet(1 .. k) /\ Cardinality(1 .. k) = k
  BY <1>1, FS_Interval
<1> HIDE DEF k, f
<1>5. \A i \in 1 .. k : f[i] \in Nat /\ f[i] \in 1 .. n
  BY <1>1, <1>3
<1>6. \A i, j \in 1 .. k : f[i] = f[j] => i = j
  <2> SUFFICES ASSUME NEW i \in 1 .. k, NEW j \in 1 .. k, f[i] = f[j]
               PROVE  i = j
    OBVIOUS
  <2>1. ~(i < j) /\ ~(j < i)
    BY <1>3, <1>5
  <2> QED
    BY <1>1, <2>1
<1>7. f \in Injection(1 .. k, S)
  BY <1>3, <1>6 DEF Injection, IsInjective
<1>8. f \in Surjection(1 .. k, S)
  BY <1>1, <1>4, <1>7, FS_Injection DEF k
<1>9. \A x \in S : \E i \in 1 .. k : f[i] = x
  BY <1>8 DEF Surjection
<1>10. \A i \in 1 .. k : f[i] = 1 => i = 1
  <2> SUFFICES ASSUME NEW i \in 1 .. k, f[i] = 1, i # 1
               PROVE  FALSE
    OBVIOUS
  <2>1. 1 \in 1 .. k /\ 1 < i
    BY <1>1
  <2>2. f[1] < 1 /\ f[1] \in 1 .. n
    BY <1>3, <1>5, <2>1
  <2> QED
    BY <2>2
<1> QED
  BY <1>1, <1>3, <1>6, <1>9, <1>10 DEF k, f

\* Those that stay keep their order; a write left by its task belongs to nobody.
LEMMA Dropped ==
  ASSUME QueueInv, NEW who, Drop(who)
  PROVE  /\ lockQueue' \in Seq(Jobs) /\ Queued(lockQueue', AtLock \ who, lastWritten)
         /\ \A w : HolderWrites(w, lockQueue) /\ w.by \notin who => HolderWrites(w, lockQueue')
<1> DEFINE n == Len(lockQueue)
           S == {i \in DOMAIN lockQueue : lockQueue[i].by \notin who}
           k == Cardinality(S)
           f == Ascending(S)
<1>1. lockQueue \in Seq(Jobs) /\ n \in Nat /\ DOMAIN lockQueue = 1 .. n /\ S \in SUBSET (1 .. n)
  BY LenProperties DEF QueueInv
<1>2. lockQueue' = [i \in DOMAIN f |-> lockQueue[f[i]]]
  BY DEF Drop
<1>3. \A i \in S : lockQueue[i] \in Jobs /\ lockQueue[i].by \notin who /\ i \in 1 .. n
  BY <1>1, ElementOfSeq
<1>4. 1 \in 1 .. n /\ lockQueue[1].by \notin who => 1 \in S
  BY <1>1
<1> HIDE DEF S
<1>5. /\ k \in Nat /\ f \in [1 .. k -> S] /\ DOMAIN f = 1 .. k
      /\ \A i, j \in 1 .. k : f[i] = f[j] => i = j
      /\ \A x \in S : \E i \in 1 .. k : f[i] = x
      /\ \A i \in 1 .. k : f[i] = 1 => i = 1
  BY <1>1, AscendingOrder
<1> HIDE DEF k, f, n
<1>6. /\ lockQueue' \in Seq(Jobs) /\ Len(lockQueue') = k
      /\ \A i \in 1 .. k : lockQueue'[i] = lockQueue[f[i]] /\ f[i] \in 1 .. n /\ lockQueue'[i].by \notin who
  <2>1. lockQueue' = [i \in 1 .. k |-> lockQueue[f[i]]]
    BY <1>2, <1>5
  <2>2. \A i \in 1 .. k : lockQueue[f[i]] \in Jobs /\ f[i] \in 1 .. n /\ lockQueue[f[i]].by \notin who
    BY <1>3, <1>5
  <2> QED
    BY <1>5, <2>1, <2>2
<1>7. Queued(lockQueue, AtLock, lastWritten)
  BY DEF QueueInv
<1>8. Queued(lockQueue', AtLock \ who, lastWritten)
  <2>1. \A i, j \in 1 .. k : lockQueue'[i].by = lockQueue'[j].by => i = j
    BY <1>5, <1>6, <1>7 DEF Queued, n
  <2>2. \A i \in 1 .. k :
       /\ lockQueue'[i].by \in AtLock \ who
       /\ lockQueue'[i].messages = <<"frame", "text">> => lockQueue'[i].by = "text" /\ lockQueue'[i].after = 0
       /\ lockQueue'[i].after # 0 =>
            i = 1 /\ lockQueue'[i].by = "text" /\ FrameLast(lockQueue'[i].after, lastWritten)
    <3> TAKE i \in 1 .. k
    <3>1. lockQueue'[i] = lockQueue[f[i]] /\ f[i] \in 1 .. Len(lockQueue) /\ lockQueue'[i].by \notin who
      BY <1>6 DEF n
    <3> DEFINE j == f[i]
    <3>2. j = 1 => i = 1
      BY <1>5
    <3> HIDE DEF j
    <3>3. lockQueue'[i] = lockQueue[j] /\ j \in 1 .. Len(lockQueue)
      BY <3>1 DEF j
    <3> QED
      BY <1>7, <3>1, <3>2, <3>3 DEF Queued
  <2> QED
    BY <1>6, <2>1, <2>2 DEF Queued
<1>9. ASSUME NEW w, HolderWrites(w, lockQueue), w.by \notin who
      PROVE  HolderWrites(w, lockQueue')
  <2>1. lockQueue # <<>> /\ w.by = lockQueue[1].by /\ 1 \in 1 .. n
    BY <1>1, <1>9, EmptySeq DEF HolderWrites, n
  <2>2. 1 \in S
    BY <1>4, <1>9, <2>1
  <2>3. PICK i \in 1 .. k : f[i] = 1
    BY <1>5, <2>2
  <2>4. i = 1
    BY <1>5, <2>3
  <2>5. lockQueue'[1] = lockQueue[1] /\ lockQueue' # <<>>
    BY <1>6, <2>3, <2>4, EmptySeq
  <2> QED
    BY <1>9, <2>5 DEF HolderWrites
<1> QED
  BY <1>6, <1>8, <1>9

-------------------------------------------------------------------------------
(* The batches.                                                              *)

Working == {"invoke", "frame", "video", "answer"}

\* The batch b goes to its next stage, from the queue q.
Enters(b, q) ==
  \E next \in Working \cup {"over"} :
    /\ stage' = [stage EXCEPT ![b] = next]
    /\ lockQueue' = IF next \in {"video", "answer"} THEN Append(q, Job(b, <<next>>)) ELSE q

LEMMA ActiveFinite == IsFiniteSet(ActiveBlocking) /\ ActiveBlocking \subseteq Batches
<1>1. ActiveBlocking \in SUBSET Batches
  BY DEF ActiveBlocking, Active
<1> QED
  BY <1>1, Names, FS_Subset

LEMMA BatchMoves ==
  ASSUME BatchInv, NEW b \in Batches, NEW next \in Stages, NEW rest \in Seq(STRING),
         stage' = [stage EXCEPT ![b] = next], calls' = [calls EXCEPT ![b] = rest],
         next \in Working => rest # <<>>
  PROVE  /\ BatchInv'
         /\ ActiveBlocking' = IF next \in Working /\ Head(rest) \in BlockingTools
                              THEN (ActiveBlocking \ {b}) \cup {b} ELSE ActiveBlocking \ {b}
<1>1. /\ stage'[b] = next /\ calls'[b] = rest
      /\ \A c \in Batches \ {b} : stage'[c] = stage[c] /\ calls'[c] = calls[c]
  BY DEF BatchInv
<1>2. calls' \in [Batches -> Seq(STRING)] /\ stage' \in [Batches -> Stages]
  BY DEF BatchInv
<1>3. \A c \in Active' : calls'[c] # <<>>
  BY <1>1 DEF BatchInv, Active, Working
<1>4. \A c \in Batches \ {b} : c \in ActiveBlocking' <=> c \in ActiveBlocking
  BY <1>1 DEF ActiveBlocking, Active
<1>5. b \in ActiveBlocking' <=> next \in Working /\ Head(rest) \in BlockingTools
  BY <1>1 DEF ActiveBlocking, Active, Working
<1>6. ActiveBlocking \subseteq Batches /\ ActiveBlocking' \subseteq Batches
  BY DEF ActiveBlocking, Active
<1> QED
  BY <1>2, <1>3, <1>4, <1>5, <1>6 DEF BatchInv

\* The rest of a batch, once its last tool no longer counts.
LEMMA ProceedKeeps ==
  ASSUME BatchInv, SitInv, NEW b \in Batches, NEW rest \in Seq(STRING), NEW B, NEW q,
         Counts(B, ActiveBlocking \ {b}), Proceed(b, rest, B, q)
  PROVE  BatchInv' /\ SitInv' /\ Counts(blocking', ActiveBlocking') /\ Enters(b, q)
<1>1. calls' = [calls EXCEPT ![b] = rest]
  BY DEF Proceed
<1>2. CASE rest = <<>>
  <2>1. stage' = [stage EXCEPT ![b] = "over"] /\ blocking' = B /\ lockQueue' = q /\ UNCHANGED sitVars
    BY <1>2 DEF Proceed
  <2>2. "over" \in Stages /\ "over" \notin Working
    BY DEF Stages, Working
  <2>3. BatchInv' /\ ActiveBlocking' = ActiveBlocking \ {b}
    BY <1>1, <2>1, <2>2, BatchMoves
  <2>4. SitInv'
    BY <2>1 DEF SitInv, SaidNow, sitVars
  <2>5. Enters(b, q)
    <3>1. "over" \in Working \cup {"over"} /\ "over" \notin {"video", "answer"}
      OBVIOUS
    <3> QED
      BY <2>1, <3>1 DEF Enters
  <2> QED
    BY <2>1, <2>3, <2>4, <2>5
<1>3. CASE rest # <<>>
  <2> DEFINE tool == Head(rest)
  <2>1. /\ blocking' = Entered(tool, B)
        /\ IF tool = "sit" /\ authorized
           THEN UsedUp(tool) /\ sits' = sits + 1 /\ sitAt' = Len(said) /\ UNCHANGED <<transcript, said>>
           ELSE UNCHANGED sitVars
    BY <1>3 DEF Proceed
  <2>2. PICK next \in {"invoke"} \cup {AfterTool(tool)} :
          /\ stage' = [stage EXCEPT ![b] = next]
          /\ lockQueue' = IF next = "answer" THEN Append(q, Job(b, <<"answer">>)) ELSE q
    BY <1>3 DEF Proceed
  <2>3. next \in {"invoke", "frame", "answer"}
    BY DEF AfterTool
  <2>4. next \in Working /\ next \in Stages
    BY <2>3 DEF Working, Stages
  <2>5. BatchInv' /\ ActiveBlocking' = IF tool \in BlockingTools
                                       THEN (ActiveBlocking \ {b}) \cup {b} ELSE ActiveBlocking \ {b}
    BY <1>1, <1>3, <2>2, <2>4, BatchMoves
  <2>6. IsFiniteSet(ActiveBlocking \ {b}) /\ b \notin ActiveBlocking \ {b}
    BY ActiveFinite, FS_RemoveElement
  <2>7. Counts(Entered(tool, B), IF tool \in BlockingTools THEN (ActiveBlocking \ {b}) \cup {b}
                                                           ELSE ActiveBlocking \ {b})
    BY <2>6, EnteredCounts
  <2>8. SitInv'
    <3>1. CASE tool = "sit" /\ authorized
      <4>1. authorized' = FALSE /\ sits' = sits + 1 /\ sitAt' = Len(said) /\ UNCHANGED <<transcript, said>>
        BY <2>1, <3>1 DEF UsedUp
      <4>2. sits + 1 \in Nat /\ Len(said) \in 0 .. Len(said)
        BY LenProperties DEF SitInv
      <4>3. authorized' \in BOOLEAN /\ ~authorized'
        BY <4>1
      <4>4. SaidNow' = SaidNow
        BY <4>1 DEF SaidNow
      <4> QED
        BY <4>1, <4>2, <4>3, <4>4 DEF SitInv
    <3>2. CASE UNCHANGED sitVars
      BY <3>2 DEF SitInv, SaidNow, sitVars
    <3> QED
      BY <2>1, <3>1, <3>2
  <2>9. Enters(b, q)
    <3>1. CASE next = "answer"
      BY <2>2, <3>1 DEF Enters, Working
    <3>2. CASE next # "answer"
      BY <2>2, <2>3, <3>2 DEF Enters, Working
    <3> QED
      BY <3>1, <3>2
  <2> QED
    BY <2>1, <2>5, <2>7, <2>8, <2>9
<1> QED
  BY <1>2, <1>3

LEMMA ToolStep ==
  ASSUME BatchInv, SitInv, Counts(blocking, ActiveBlocking), NEW b \in Batches,
         BeginBatch(b) \/ Invoked(b) \/ FrameOrTimeout(b)
  PROVE  /\ BatchInv' /\ SitInv' /\ Counts(blocking', ActiveBlocking')
         /\ Enters(b, lockQueue) /\ stage[b] \notin {"video", "answer"} /\ UNCHANGED <<left, writes>>
<1>1. CASE BeginBatch(b)
  <2>1. stage[b] = "posted" /\ Proceed(b, calls[b], blocking, lockQueue) /\ UNCHANGED <<left, writes>>
    BY <1>1 DEF BeginBatch
  <2>2. ActiveBlocking \ {b} = ActiveBlocking /\ calls[b] \in Seq(STRING)
    BY <2>1 DEF ActiveBlocking, Active, BatchInv
  <2> QED
    BY <2>1, <2>2, ProceedKeeps
<1>2. ASSUME NEW next \in Working, stage[b] \in Working, stage' = [stage EXCEPT ![b] = next],
             UNCHANGED <<calls, blocking, sitVars>>
      PROVE  BatchInv' /\ SitInv' /\ Counts(blocking', ActiveBlocking')
  <2>1. calls' = [calls EXCEPT ![b] = calls[b]] /\ calls[b] \in Seq(STRING) /\ calls[b] # <<>>
    BY <1>2 DEF BatchInv, Active, Working
  <2>2. next \in Stages
    BY DEF Working, Stages
  <2>3. BatchInv' /\ ActiveBlocking' = IF Head(calls[b]) \in BlockingTools
                                       THEN (ActiveBlocking \ {b}) \cup {b} ELSE ActiveBlocking \ {b}
    BY <1>2, <2>1, <2>2, BatchMoves
  <2>4. b \in ActiveBlocking <=> Head(calls[b]) \in BlockingTools
    BY <1>2 DEF ActiveBlocking, Active, Working
  <2>5. ActiveBlocking' = ActiveBlocking
    BY <2>3, <2>4
  <2>6. SitInv'
    BY <1>2 DEF SitInv, SaidNow, sitVars
  <2> QED
    BY <1>2, <2>3, <2>5, <2>6
<1>3. CASE Invoked(b)
  <2>1. PICK next \in {"frame", "answer"} :
          /\ stage[b] = "invoke" /\ stage' = [stage EXCEPT ![b] = next]
          /\ lockQueue' = IF next = "answer" THEN Append(lockQueue, Job(b, <<"answer">>)) ELSE lockQueue
          /\ UNCHANGED <<left, writes, calls, blocking, sitVars>>
    BY <1>3 DEF Invoked, AfterTool
  <2>2. Enters(b, lockQueue)
    BY <2>1 DEF Enters, Working
  <2> QED
    BY <1>2, <2>1, <2>2 DEF Working
<1>4. CASE FrameOrTimeout(b)
  <2>1. PICK next \in {"video", "answer"} :
          /\ stage[b] = "frame" /\ stage' = [stage EXCEPT ![b] = next]
          /\ lockQueue' = Append(lockQueue, Job(b, <<next>>))
          /\ UNCHANGED <<left, writes, calls, blocking, sitVars>>
    BY <1>4 DEF FrameOrTimeout
  <2>2. Enters(b, lockQueue)
    BY <2>1 DEF Enters, Working
  <2> QED
    BY <1>2, <2>1, <2>2 DEF Working
<1> QED
  BY <1>1, <1>3, <1>4

LEMMA SentStep ==
  ASSUME BatchInv, SitInv, Counts(blocking, ActiveBlocking), NEW b \in Batches, NEW ok,
         stage[b] \in {"video", "answer"}, BatchSent(b, ok)
  PROVE  BatchInv' /\ SitInv' /\ Counts(blocking', ActiveBlocking') /\ Enters(b, Tail(lockQueue))
<1>1. calls[b] \in Seq(STRING) /\ calls[b] # <<>> /\ Tail(calls[b]) \in Seq(STRING)
  <2>1. b \in Active
    BY DEF Active
  <2> QED
    BY <2>1, HeadTailProperties DEF BatchInv
<1>2. b \in ActiveBlocking <=> Head(calls[b]) \in BlockingTools
  BY DEF ActiveBlocking, Active
<1>3. CASE stage[b] = "video" /\ ok
  <2>1. /\ stage' = [stage EXCEPT ![b] = "answer"]
        /\ lockQueue' = Append(Tail(lockQueue), Job(b, <<"answer">>))
        /\ UNCHANGED <<calls, blocking, sitVars>>
    BY <1>3 DEF BatchSent
  <2>2. calls' = [calls EXCEPT ![b] = calls[b]]
    BY <2>1 DEF BatchInv
  <2>3. "answer" \in Stages /\ "answer" \in Working
    BY DEF Stages, Working
  <2>4. BatchInv' /\ ActiveBlocking' = ActiveBlocking
    <3>1. BatchInv' /\ ActiveBlocking' = IF Head(calls[b]) \in BlockingTools
                                         THEN (ActiveBlocking \ {b}) \cup {b} ELSE ActiveBlocking \ {b}
      BY <1>1, <2>1, <2>2, <2>3, BatchMoves
    <3> QED
      BY <1>2, <3>1
  <2>5. SitInv'
    BY <2>1 DEF SitInv, SaidNow, sitVars
  <2>6. Enters(b, Tail(lockQueue))
    BY <2>1 DEF Enters, Working
  <2> QED
    BY <2>1, <2>4, <2>5, <2>6
<1>4. CASE Proceed(b, Tail(calls[b]), Left(Blocks(Head(calls[b])), blocking), Tail(lockQueue))
  <2>1. Counts(Left(Blocks(Head(calls[b])), blocking), ActiveBlocking \ {b})
    <3>1. CASE b \in ActiveBlocking
      BY <1>2, <3>1, ActiveFinite, LeftOne DEF Blocks
    <3>2. CASE b \notin ActiveBlocking
      <4>1. Blocks(Head(calls[b])) = 0 /\ ActiveBlocking \ {b} = ActiveBlocking
        BY <1>2, <3>2 DEF Blocks
      <4> QED
        BY <4>1, LeftNone
    <3> QED
      BY <3>1, <3>2
  <2> QED
    BY <1>1, <1>4, <2>1, ProceedKeeps
<1> QED
  BY <1>3, <1>4 DEF BatchSent

-------------------------------------------------------------------------------
(* What the steps have in common.                                            *)

LEMMA AtTheLock ==
  /\ \A b \in Batches : b \in AtLock <=> stage[b] \in {"video", "answer"}
  /\ "hb" \in AtLock <=> hb \in {"video", "prompt"}
  /\ "text" \in AtLock <=> text = "send"
  /\ AtLock \subseteq Tasks
BY Names DEF AtLock

\* A batch enters its next stage from a queue it does not wait in.
LEMMA EntersQueue ==
  ASSUME BatchInv, NEW b \in Batches, NEW q \in Seq(Jobs), NEW at, b \notin at, at \subseteq AtLock, NEW last,
         Queued(q, at, last), Enters(b, q), UNCHANGED <<hb, text>>
  PROVE  /\ lockQueue' \in Seq(Jobs) /\ Queued(lockQueue', AtLock', last)
         /\ \A w : HolderWrites(w, q) => HolderWrites(w, lockQueue')
<1>1. PICK next \in Working \cup {"over"} :
        /\ stage' = [stage EXCEPT ![b] = next]
        /\ lockQueue' = IF next \in {"video", "answer"} THEN Append(q, Job(b, <<next>>)) ELSE q
  BY DEF Enters
<1>2. \A t \in AtLock : t # b => t \in AtLock'
  BY <1>1 DEF AtLock, BatchInv
<1>3. at \subseteq AtLock' /\ b \in Tasks
  BY <1>2, Names
<1>4. \A i \in 1 .. Len(q) : q[i].by # b
  BY DEF Queued
<1>5. CASE next \in {"video", "answer"}
  <2>1. b \in AtLock'
    BY <1>1, <1>5, Names DEF AtLock, BatchInv
  <2> DEFINE messages == <<next>>
             more == AtLock'
  <2>2. lockQueue' = Append(q, Job(b, messages))
    BY <1>1, <1>5
  <2>3. messages \in Messages
    BY <1>5 DEF Messages
  <2>4. messages # <<"frame", "text">>
    OBVIOUS
  <2>5. at \subseteq more /\ b \in more /\ b \in Tasks
    BY <1>3, <2>1
  <2> HIDE DEF messages, more
  <2>6. /\ Append(q, Job(b, messages)) \in Seq(Jobs) /\ Queued(Append(q, Job(b, messages)), more, last)
        /\ \A w : HolderWrites(w, q) => HolderWrites(w, Append(q, Job(b, messages)))
    BY <1>4, <2>3, <2>4, <2>5, Queuing
  <2> QED
    BY <2>2, <2>6 DEF more
<1>6. CASE next \notin {"video", "answer"}
  <2>1. lockQueue' = q
    BY <1>1, <1>6
  <2> QED
    BY <1>3, <2>1, QueueWidened
<1> QED
  BY <1>5, <1>6

LEMMA ToolsKept ==
  ASSUME IInv, UNCHANGED <<calls, stage, blocking>>
  PROVE  BatchInv' /\ Counts(blocking', ActiveBlocking')
<1>1. Active' = Active /\ ActiveBlocking' = ActiveBlocking
  BY DEF Active, ActiveBlocking
<1> QED
  BY <1>1 DEF IInv, BatchInv

LEMMA SitsKept ==
  ASSUME IInv, UNCHANGED sitVars
  PROVE  SitInv'
BY DEF IInv, SitInv, SaidNow, sitVars

LEMMA StreamsKept ==
  ASSUME IInv, UNCHANGED streamVars
  PROVE  StreamInv'
BY DEF IInv, StreamInv, streamVars

LEMMA MainKept ==
  ASSUME IInv, UNCHANGED <<main, attempt, rapid, current, streams>>,
         hb' = hb \/ hb # "off", text' = text \/ text # "off",
         stage' = stage \/ main # "closed"
  PROVE  MainInv'
BY DEF IInv, MainInv, Ending

LEMMA QueueStays ==
  ASSUME IInv, UNCHANGED <<lockQueue, lastWritten>>, AtLock \subseteq AtLock'
  PROVE  QueueInv'
<1>1. Settles(lastWritten, lastWritten)
  BY DEF Settles
<1> DEFINE more == AtLock'
<1>2. AtLock \subseteq more
  OBVIOUS
<1> HIDE DEF more
<1>3. Queued(lockQueue, more, lastWritten)
  BY <1>1, <1>2, QueueKept DEF IInv, QueueInv
<1> QED
  BY <1>3 DEF IInv, QueueInv, more

LEMMA WritesKept ==
  ASSUME WriteInv, writes' \subseteq writes, DOMAIN streams \subseteq DOMAIN streams',
         \A w \in writes' : /\ w.by = "setup" => main' = "setup"
                            /\ w.by = "nobody" => main' = main
                            /\ w.by \in Tasks => HolderWrites(w, lockQueue')
                            /\ w.by = "text" => lastWritten' = lastWritten \/ Settles(lastWritten, lastWritten')
  PROVE  WriteInv'
<1>1. ASSUME NEW w \in writes', w.by = "text"
      PROVE  w.after <= w.to /\ Newest(w.to, lastWritten')
  <2>1. w.after <= w.to /\ Newest(w.to, lastWritten)
    BY <1>1 DEF WriteInv
  <2>2. CASE lastWritten' = lastWritten
    BY <2>1, <2>2
  <2>3. CASE Settles(lastWritten, lastWritten')
    <3> DEFINE then == lastWritten'
    <3>1. Settles(lastWritten, then)
      BY <2>3
    <3> HIDE DEF then
    <3>2. Newest(w.to, then)
      BY <2>1, <3>1, FrameKept
    <3> QED
      BY <2>1, <3>2 DEF then
  <2> QED
    BY <1>1, <2>2, <2>3
<1> QED
  BY <1>1 DEF WriteInv

\* A step at neither the tools, the lock, the streams nor the main loop.
LEMMA Untouched ==
  ASSUME IInv, IsInstance(left'), SitInv', UNCHANGED <<calls, stage, blocking, writerVars, streamVars, mainVars, hb, text>>
  PROVE  IInv'
<1>1. BatchInv' /\ Counts(blocking', ActiveBlocking')
  BY ToolsKept
<1>2. StreamInv' /\ InputInv' /\ MainInv'
  BY MainKept, StreamsKept DEF IInv, InputInv, mainVars, streamVars
<1>3. AtLock' = AtLock
  BY DEF AtLock
<1>4. QueueInv' /\ WriteInv'
  <2>1. UNCHANGED <<lockQueue, writes, lastWritten, streams, main>>
    BY DEF writerVars, streamVars, mainVars
  <2>2. QueueInv'
    BY <1>3, <2>1, QueueStays
  <2>3. WriteInv'
    BY <2>1, WritesKept DEF IInv, WriteInv
  <2> QED
    BY <2>2, <2>3
<1> QED
  BY <1>1, <1>2, <1>4 DEF IInv

\* A task of the input begins to wait at the lock, or does something else.
LEMMA InputStep ==
  ASSUME IInv, IsInstance(left'), InputInv', SitInv',
         UNCHANGED <<calls, stage, blocking, writes, streamVars, mainVars>>,
         NEW t \in {"hb", "text"}, t = "hb" => text' = text /\ hb # "off", t = "text" => hb' = hb /\ text # "off",
         t \notin AtLock,
         \/ lockQueue' = lockQueue
         \/ /\ t \in AtLock'
            /\ \E messages \in {<<"frame", "text">>, <<"text">>, <<"prompt">>, <<"video">>} :
                 /\ messages = <<"frame", "text">> => t = "text"
                 /\ lockQueue' = Append(lockQueue, Job(t, messages))
  PROVE  IInv'
<1>1. BatchInv' /\ Counts(blocking', ActiveBlocking')
  BY ToolsKept
<1>2. UNCHANGED <<streams, current, lastWritten, main, attempt, rapid>>
  BY DEF streamVars, mainVars
<1>3. StreamInv' /\ MainInv'
  BY <1>2, MainKept, StreamsKept
<1>4. AtLock \subseteq AtLock'
  BY Names DEF AtLock
<1>5. \A i \in 1 .. Len(lockQueue) : lockQueue[i].by # t
  BY DEF IInv, QueueInv, Queued
<1>6. QueueInv' /\ \A w : HolderWrites(w, lockQueue) => HolderWrites(w, lockQueue')
  <2>1. CASE lockQueue' = lockQueue
    BY <1>2, <1>4, <2>1, QueueStays
  <2>2. ASSUME NEW messages \in {<<"frame", "text">>, <<"text">>, <<"prompt">>, <<"video">>},
               messages = <<"frame", "text">> => t = "text",
               lockQueue' = Append(lockQueue, Job(t, messages)), t \in AtLock'
        PROVE  QueueInv' /\ \A w : HolderWrites(w, lockQueue) => HolderWrites(w, lockQueue')
    <3>1. t \in Tasks /\ lockQueue \in Seq(Jobs) /\ Queued(lockQueue, AtLock, lastWritten)
      BY Names DEF IInv, QueueInv
    <3>2. /\ lockQueue' \in Seq(Jobs) /\ Queued(lockQueue', AtLock', lastWritten)
          /\ \A w : HolderWrites(w, lockQueue) => HolderWrites(w, lockQueue')
      <4>1. messages \in Messages
        BY DEF Messages
      <4> DEFINE more == AtLock'
      <4>2. AtLock \subseteq more /\ t \in more
        BY <1>4, <2>2
      <4> HIDE DEF more
      <4>3. /\ Append(lockQueue, Job(t, messages)) \in Seq(Jobs)
            /\ Queued(Append(lockQueue, Job(t, messages)), more, lastWritten)
            /\ \A w : HolderWrites(w, lockQueue) => HolderWrites(w, Append(lockQueue, Job(t, messages)))
        BY <1>5, <2>2, <3>1, <4>1, <4>2, Queuing
      <4> QED
        BY <2>2, <4>3 DEF more
    <3> QED
      BY <1>2, <3>2 DEF QueueInv
  <2> QED
    BY <2>1, <2>2
<1>7. WriteInv'
  BY <1>2, <1>6, WritesKept DEF IInv, WriteInv
<1> QED
  BY <1>1, <1>3, <1>6, <1>7 DEF IInv

-------------------------------------------------------------------------------
(* Init and each step.                                                       *)

LEMMA InitInv == Init => IInv
<1> SUFFICES ASSUME Init
             PROVE  IInv
  OBVIOUS
<1>1. IsInstance(left)
  BY InstancesAssumption DEF Init
<1>2. BatchInv /\ Active = {}
  <2>1. <<>> \in Seq(STRING)
    BY EmptySeq
  <2> QED
    BY <2>1 DEF Init, ToolsInit, BatchInv, Stages, Active
<1>3. SitInv
  <2>1. /\ authorized = FALSE /\ said = <<>> /\ sitAt = 0 /\ sits = 0
        /\ transcript = [sit |-> FALSE, never |-> FALSE]
    BY DEF Init, ToolsInit
  <2>2. /\ ~authorized /\ authorized \in BOOLEAN
        /\ transcript \in [sit : BOOLEAN, never : BOOLEAN] /\ transcript.sit = FALSE /\ transcript.never = FALSE
    BY <2>1
  <2>3. said \in Seq(Pieces) /\ Len(said) = 0 /\ DOMAIN said = {}
    BY <2>1, EmptySeq
  <2>4. ~transcript.sit /\ ~transcript.never /\ SaidNow = {}
    BY <2>2, <2>3 DEF SaidNow
  <2> QED
    BY <2>1, <2>2, <2>3, <2>4 DEF SitInv
<1>4. Counts(blocking, ActiveBlocking)
  <2>1. ActiveBlocking = {} /\ Cardinality({}) = 0
    BY <1>2, FS_EmptySet DEF ActiveBlocking
  <2>2. blocking = [count |-> 0, set |-> FALSE]
    BY DEF Init, ToolsInit
  <2>3. blocking.set = FALSE
    BY <2>2
  <2>4. ~blocking.set
    BY <2>3
  <2> QED
    BY <2>1, <2>2, <2>4 DEF Counts
<1>5. StreamInv
  <2>1. streams = <<"live">> /\ current = 1 /\ lastWritten = <<"setup">>
    BY DEF Init
  <2> QED
    BY <2>1 DEF StreamInv, Contents
<1>6. InputInv /\ MainInv
  BY DEF Init, InputInv, MainInv, MaxRetries
<1>7. QueueInv /\ WriteInv
  <2>1. lockQueue = <<>> /\ writes = {} /\ Len(lockQueue) = 0 /\ <<>> \in Seq(Jobs)
    BY EmptySeq DEF Init, ToolsInit
  <2> QED
    BY <2>1 DEF QueueInv, Queued, WriteInv
<1> QED
  BY <1>1, <1>2, <1>3, <1>4, <1>5, <1>6, <1>7 DEF IInv

LEMMA InstructedKeeps ==
  ASSUME SitInv, NEW typed \in BOOLEAN, NEW words \in Words, Instructed(typed, words)
  PROVE  SitInv' /\ UNCHANGED <<calls, stage, blocking>>
<1> DEFINE heard == IF typed THEN words
                    ELSE [sit |-> transcript.sit \/ words.sit, never |-> transcript.never \/ words.never]
<1>0. words \in [sit : BOOLEAN, never : BOOLEAN]
  <2>1. /\ [sit |-> TRUE, never |-> FALSE] \in [sit : BOOLEAN, never : BOOLEAN]
        /\ [sit |-> TRUE, never |-> TRUE] \in [sit : BOOLEAN, never : BOOLEAN]
    OBVIOUS
  <2>2. NotAsked \in [sit : BOOLEAN, never : BOOLEAN]
    BY DEF NotAsked
  <2> QED
    BY <2>1, <2>2, Zenon DEF Words
<1>1. heard \in [sit : BOOLEAN, never : BOOLEAN]
  <2>1. words \in [sit : BOOLEAN, never : BOOLEAN]
    BY <1>0
  <2>2. (transcript.sit \/ words.sit) \in BOOLEAN /\ (transcript.never \/ words.never) \in BOOLEAN
    OBVIOUS
  <2>3. [sit |-> transcript.sit \/ words.sit, never |-> transcript.never \/ words.never]
          \in [sit : BOOLEAN, never : BOOLEAN]
    BY <2>2
  <2> QED
    BY <2>1, <2>3
<1> DEFINE piece == [sit |-> words.sit, never |-> words.never, typed |-> typed]
           n == Len(said) + 1
<1>2. /\ transcript' = heard /\ authorized' = (heard.sit /\ ~heard.never)
      /\ said' = Append(said, piece)
      /\ UNCHANGED <<calls, stage, blocking, sitAt, sits>>
  BY DEF Instructed
<1>3. /\ piece \in Pieces /\ piece.sit = words.sit /\ piece.never = words.never /\ piece.typed = typed
      /\ words.sit \in BOOLEAN /\ words.never \in BOOLEAN
  BY <1>0 DEF Pieces
<1>4. /\ heard.sit = IF typed THEN words.sit ELSE transcript.sit \/ words.sit
      /\ heard.never = IF typed THEN words.never ELSE transcript.never \/ words.never
  OBVIOUS
<1> HIDE DEF heard, piece
<1>5. authorized' \in BOOLEAN /\ (authorized' => heard.sit /\ ~heard.never)
  BY <1>1, <1>2
<1>6. /\ said' \in Seq(Pieces) /\ Len(said') = n /\ Len(said) \in Nat /\ said \in Seq(Pieces)
      /\ DOMAIN said = 1 .. Len(said) /\ DOMAIN said' = 1 .. n
      /\ \A i \in 1 .. Len(said) : said'[i] = said[i]
      /\ said'[n] = piece
  BY <1>2, <1>3, AppendProperties, LenProperties DEF SitInv
<1>7. SaidNow' = IF typed THEN {n} ELSE SaidNow \cup {n}
  <2>1. SaidNow' = {i \in 1 .. n : \A j \in 1 .. n : said'[j].typed => j <= i}
    BY <1>6 DEF SaidNow
  <2>2. SaidNow = {i \in 1 .. Len(said) : \A j \in 1 .. Len(said) : said[j].typed => j <= i}
    BY <1>6 DEF SaidNow
  <2>3. n \in 1 .. n /\ \A i \in 1 .. n : i <= n /\ (i = n \/ i \in 1 .. Len(said))
    BY <1>6
  <2>4. n \in SaidNow'
    BY <2>1, <2>3
  <2>5. \A i \in 1 .. Len(said) : i \in 1 .. n /\ ~(n <= i)
    BY <1>6
  <2>6. CASE typed
    <3>1. \A i \in 1 .. Len(said) : i \notin SaidNow'
      BY <1>3, <1>6, <2>1, <2>3, <2>5, <2>6
    <3>2. SaidNow' \subseteq 1 .. n
      BY <2>1
    <3> QED
      BY <2>3, <2>4, <2>6, <3>1, <3>2
  <2>7. CASE ~typed
    <3>1. \A i \in 1 .. Len(said) : i \in SaidNow' <=> i \in SaidNow
      BY <1>3, <1>6, <2>1, <2>2, <2>3, <2>5, <2>7
    <3>2. SaidNow' \subseteq 1 .. n /\ SaidNow \subseteq 1 .. Len(said)
      BY <2>1, <2>2
    <3> QED
      BY <2>3, <2>4, <2>7, <3>1, <3>2
  <2> QED
    BY <2>6, <2>7
<1>8. SaidNow \subseteq 1 .. Len(said)
  BY <1>6 DEF SaidNow
<1>9. heard.sit <=> \E i \in SaidNow' : said'[i].sit
  BY <1>3, <1>4, <1>6, <1>7, <1>8 DEF SitInv
<1>10. heard.never <=> \E i \in SaidNow' : said'[i].never
  BY <1>3, <1>4, <1>6, <1>7, <1>8 DEF SitInv
<1>11. sitAt \in 0 .. n /\ sitAt < n /\ sits \in Nat
  BY <1>6 DEF SitInv
<1>12. SitInv'
  BY <1>1, <1>2, <1>5, <1>6, <1>9, <1>10, <1>11 DEF SitInv
<1> QED
  BY <1>2, <1>12

LEMMA QuietStep ==
  ASSUME IInv,
         \/ Later \/ Interrupted \/ UNCHANGED vars
         \/ \E hadTools \in BOOLEAN : TurnCompletes(hadTools)
         \/ \E words \in Words : UserSpeaks(words)
  PROVE  IInv'
<1>1. CASE Later \/ UNCHANGED vars
  <2>1. UNCHANGED <<left, writerVars, toolVars, streamVars, mainVars, hb, text>>
    BY <1>1 DEF Later, vars, hbVars
  <2>2. UNCHANGED <<calls, stage, blocking, sitVars>>
    BY <2>1 DEF toolVars
  <2>3. SitInv'
    BY <2>2, SitsKept
  <2> QED
    BY <2>1, <2>2, <2>3, Untouched DEF IInv
<1>2. CASE Interrupted \/ \E hadTools \in BOOLEAN : TurnCompletes(hadTools)
  <2>1. UNCHANGED <<writerVars, toolVars, streamVars, mainVars, hb, text>> /\ (Spend("turns") \/ Spend("interrupts"))
    BY <1>2 DEF Interrupted, TurnCompletes, Quiet
  <2>2. UNCHANGED <<calls, stage, blocking, sitVars>>
    BY <2>1 DEF toolVars
  <2>3. SitInv' /\ IsInstance(left')
    BY <2>1, <2>2, SitsKept, SpendKeeps DEF IInv, Kinds
  <2> QED
    BY <2>1, <2>2, <2>3, Untouched
<1>3. ASSUME NEW words \in Words, UserSpeaks(words)
      PROVE  IInv'
  <2>1. UNCHANGED <<writerVars, streamVars, mainVars, hb, text>> /\ Spend("utterances") /\ Instructed(FALSE, words)
    BY <1>3 DEF UserSpeaks, Quiet, hbVars
  <2>2. SitInv' /\ UNCHANGED <<calls, stage, blocking>> /\ IsInstance(left')
    BY <2>1, InstructedKeeps, SpendKeeps DEF IInv, Kinds
  <2> QED
    BY <2>1, <2>2, Untouched
<1> QED
  BY <1>1, <1>2, <1>3

LEMMA HeartbeatStep ==
  ASSUME IInv, HeartbeatWakes \/ HeartbeatFrame
  PROVE  IInv'
<1>1. UNCHANGED <<left, calls, stage, blocking, writes, streamVars, mainVars, text>> /\ UNCHANGED sitVars
  BY DEF HeartbeatWakes, HeartbeatFrame, toolVars
<1>2. IsInstance(left') /\ SitInv'
  BY <1>1, SitsKept DEF IInv
<1>3. hb \in {"wait", "gap", "speech", "pause", "frame"} /\ "hb" \notin AtLock
  BY AtTheLock DEF HeartbeatWakes, HeartbeatFrame
<1>4. CASE HeartbeatWakes
  <2>1. \/ hb' \in {"wait", "gap", "frame", "speech"} /\ lockQueue' = lockQueue
        \/ hb' = "prompt" /\ lockQueue' = Append(lockQueue, Job("hb", <<"prompt">>))
    BY <1>4 DEF HeartbeatWakes
  <2>2. InputInv'
    BY <1>1, <2>1 DEF IInv, InputInv
  <2>3. hb' = "prompt" => "hb" \in AtLock'
    BY Names DEF AtLock
  <2> QED
    BY <1>1, <1>2, <1>3, <2>1, <2>2, <2>3, InputStep
<1>5. CASE HeartbeatFrame
  <2>1. PICK next \in {"video", "prompt"} : hb' = next /\ lockQueue' = Append(lockQueue, Job("hb", <<next>>))
    BY <1>5 DEF HeartbeatFrame
  <2>2. InputInv'
    BY <1>1, <2>1 DEF IInv, InputInv
  <2>3. "hb" \in AtLock'
    BY <2>1, Names DEF AtLock
  <2> QED
    BY <1>1, <1>2, <1>3, <2>1, <2>2, <2>3, InputStep
<1> QED
  BY <1>4, <1>5

LEMMA TextStep ==
  ASSUME IInv, TextFrame \/ \E words \in Words : UserTypes(words)
  PROVE  IInv'
<1>1. CASE TextFrame
  <2>1. PICK messages \in {<<"frame", "text">>, <<"text">>} :
          /\ text = "frame" /\ text' = "send" /\ lockQueue' = Append(lockQueue, Job("text", messages))
          /\ UNCHANGED <<left, writes, toolVars, streamVars, mainVars, hbVars>>
    BY <1>1 DEF TextFrame
  <2>2. UNCHANGED <<left, calls, stage, blocking, sitVars, writes, streamVars, mainVars, hb>>
    BY <2>1 DEF toolVars, hbVars
  <2>3. IsInstance(left') /\ SitInv' /\ InputInv'
    BY <2>1, <2>2, SitsKept DEF IInv, InputInv
  <2>4. "text" \notin AtLock /\ "text" \in AtLock'
    BY <2>1, Names DEF AtLock
  <2> QED
    BY <2>1, <2>2, <2>3, <2>4, InputStep
<1>2. ASSUME NEW words \in Words, UserTypes(words)
      PROVE  IInv'
  <2>1. /\ text = "idle" /\ text' = "frame" /\ lockQueue' = lockQueue /\ Spend("texts")
        /\ UNCHANGED <<writes, streamVars, mainVars, hb>> /\ Instructed(TRUE, words)
    BY <1>2 DEF UserTypes, writerVars, hbVars
  <2>2. SitInv' /\ UNCHANGED <<calls, stage, blocking>> /\ IsInstance(left') /\ InputInv'
    BY <2>1, InstructedKeeps, SpendKeeps DEF IInv, InputInv, Kinds
  <2>3. "text" \notin AtLock
    BY <2>1, AtTheLock
  <2> QED
    BY <2>1, <2>2, <2>3, InputStep
<1> QED
  BY <1>1, <1>2

-------------------------------------------------------------------------------
(* Writing.                                                                  *)

\* The holder of the lock says that it is there.
LEMMA Holder ==
  ASSUME QueueInv, lockQueue # <<>>
  PROVE  /\ 1 \in 1 .. Len(lockQueue) /\ Head(lockQueue) = lockQueue[1] /\ lockQueue[1] \in Jobs
         /\ lockQueue[1].by \in AtLock /\ lockQueue[1].by \in Tasks
         /\ Tail(lockQueue) \in Seq(Jobs)
<1>1. Len(lockQueue) \in Nat /\ Len(lockQueue) # 0 /\ lockQueue \in Seq(Jobs)
  BY LenProperties, EmptySeq DEF QueueInv
<1>2. 1 \in 1 .. Len(lockQueue)
  BY <1>1
<1>3. lockQueue[1] \in Jobs /\ Head(lockQueue) = lockQueue[1] /\ Tail(lockQueue) \in Seq(Jobs)
  BY <1>1, <1>2, ElementOfSeq, HeadTailProperties
<1>4. lockQueue[1].by \in AtLock
  BY <1>2 DEF QueueInv, Queued
<1> QED
  BY <1>2, <1>3, <1>4 DEF AtLock

LEMMA WriteStep ==
  ASSUME IInv, Write
  PROVE  IInv'
<1> DEFINE job == Head(lockQueue)
           new == [by |-> job.by, to |-> current, message |-> Head(job.messages), after |-> job.after]
<1>1. /\ lockQueue # <<>> /\ current # 0 /\ ~\E w \in writes : w.by = job.by
      /\ writes' = writes \cup {new}
      /\ UNCHANGED <<left, lockQueue, toolVars, streamVars, mainVars, ui, hbVars, text>>
  BY DEF Write
<1>2. job = lockQueue[1] /\ job \in Jobs /\ job.by \in Tasks
  BY <1>1, Holder DEF IInv
<1>3. Head(job.messages) \in Contents
  BY <1>2 DEF Jobs, Messages, Contents
<1>4. current \in DOMAIN streams /\ current \in Nat
  BY <1>1, LenProperties DEF IInv, StreamInv
<1>5. new \in Writes
  BY <1>2, <1>3, <1>4, Names DEF Jobs, Writes
<1>6. HolderWrites(new, lockQueue)
  BY <1>1, <1>2 DEF HolderWrites
<1>7. new.by = job.by /\ new.to = current
  OBVIOUS
<1> HIDE DEF new, job
<1>8. WriteInv'
  <2>1. UNCHANGED <<lockQueue, streams, main>>
    BY <1>1 DEF streamVars, mainVars
  <2>2. new.by # "setup" /\ new.by # "nobody"
    BY <1>2, <1>7, Names
  <2>3. Newest(new.to, lastWritten)
    BY <1>1, <1>7, LenProperties DEF IInv, StreamInv, Newest
  <2>4. new.after <= new.to
    <3>1. 1 \in 1 .. Len(lockQueue) /\ new.after = lockQueue[1].after /\ new.after \in Nat
      BY <1>1, <1>2, <1>6, Holder DEF IInv, HolderWrites, Jobs
    <3>2. new.after = 0 \/ new.after \in DOMAIN lastWritten
      BY <3>1 DEF IInv, QueueInv, Queued, FrameLast
    <3>3. DOMAIN lastWritten = 1 .. Len(streams) /\ new.to = Len(streams) /\ Len(streams) \in Nat
      BY <1>1, <1>7, LenProperties DEF IInv, StreamInv
    <3> QED
      BY <3>1, <3>2, <3>3
  <2>5. lastWritten' = lastWritten
    BY <1>1 DEF streamVars
  <2> QED
    BY <1>1, <1>2, <1>4, <1>5, <1>6, <1>7, <2>1, <2>2, <2>3, <2>4, <2>5 DEF IInv, WriteInv
<1>9. UNCHANGED <<left, calls, stage, blocking, sitVars, hb, text>>
  BY <1>1 DEF toolVars, hbVars
<1>10. BatchInv' /\ Counts(blocking', ActiveBlocking') /\ SitInv' /\ StreamInv' /\ InputInv'
  BY <1>1, <1>9, ToolsKept, SitsKept, StreamsKept DEF IInv, InputInv
<1>11. QueueInv' /\ MainInv'
  <2>1. UNCHANGED <<lockQueue, lastWritten, main, attempt, rapid, current, streams>>
    BY <1>1 DEF streamVars, mainVars
  <2>2. AtLock' = AtLock
    BY <1>9 DEF AtLock
  <2> QED
    BY <1>9, <2>1, <2>2, QueueStays, MainKept
<1> QED
  BY <1>8, <1>9, <1>10, <1>11 DEF IInv

\* A thread that ends has its effect on the streams, whoever waits for it.
LEMMA EndsAt ==
  ASSUME IInv, NEW w \in writes, NEW ok \in BOOLEAN, WriteEnds(w, ok)
  PROVE  /\ IsInstance(left') /\ StreamInv' /\ UNCHANGED <<streams, current, rapid>>
         /\ writes' = writes \ {w} /\ w.to \in DOMAIN lastWritten
         /\ DOMAIN lastWritten' = DOMAIN lastWritten
         /\ \A s \in DOMAIN lastWritten : s # w.to \/ ~ok => lastWritten'[s] = lastWritten[s]
         /\ ok => lastWritten'[w.to] = w.message
<1>1. /\ UNCHANGED <<streams, current, rapid>> /\ writes' = writes \ {w}
      /\ lastWritten' = IF ok THEN [lastWritten EXCEPT ![w.to] = w.message] ELSE lastWritten
      /\ left' = left \/ Spend("failures")
  BY DEF WriteEnds
<1>2. IsInstance(left')
  BY <1>1, SpendKeeps DEF IInv, Kinds
<1>3. w.to \in DOMAIN lastWritten /\ w.message \in Contents
  BY LenProperties DEF IInv, StreamInv, WriteInv, Writes
<1>4. lastWritten' \in Seq(Contents) /\ Len(lastWritten') = Len(lastWritten)
  BY <1>1, <1>3, ExceptSeq DEF IInv, StreamInv
<1>5. StreamInv'
  BY <1>1, <1>4 DEF IInv, StreamInv
<1> QED
  BY <1>1, <1>2, <1>3, <1>4, <1>5, LenProperties DEF IInv, StreamInv

\* A setup is written, and the tasks at the lock do not notice.
LEMMA SetupSettles ==
  ASSUME IInv, NEW w \in writes, NEW ok \in BOOLEAN, WriteEnds(w, ok), w.message = "setup",
         UNCHANGED <<lockQueue, stage, hb, text>>
  PROVE  QueueInv' /\ Settles(lastWritten, lastWritten')
<1> DEFINE then == lastWritten'
<1>1. Settles(lastWritten, then)
  BY EndsAt DEF Settles
<1>2. AtLock' = AtLock
  BY DEF AtLock
<1> HIDE DEF then
<1>3. Queued(lockQueue, AtLock, then)
  BY <1>1, QueueKept DEF IInv, QueueInv
<1> QED
  BY <1>1, <1>2, <1>3 DEF IInv, QueueInv, then

LEMMA SetupEnds ==
  ASSUME IInv, NEW w \in writes, NEW ok \in BOOLEAN, WriteEnds(w, ok), w.by = "setup"
  PROVE  IInv'
<1>1. Retry(ok) /\ UNCHANGED <<lockQueue, toolVars, ui, hbVars, text>>
  BY DEF WriteEnds
<1>2. main = "setup" /\ w.message = "setup"
  BY DEF IInv, WriteInv
<1>3. UNCHANGED <<calls, stage, blocking, sitVars, hb, text>>
  BY <1>1 DEF toolVars, hbVars
<1>4. BatchInv' /\ Counts(blocking', ActiveBlocking') /\ SitInv' /\ InputInv'
  BY <1>3, ToolsKept, SitsKept DEF IInv, InputInv
<1>5. UNCHANGED <<streams, current, rapid>> /\ writes' = writes \ {w}
  BY EndsAt
<1>6. main' \in {"run", "sleep", "closing"} /\ attempt' \in 0 .. MaxRetries
  BY <1>1 DEF Retry, IInv, MainInv, MaxRetries
<1>7. MainInv'
  BY <1>2, <1>5, <1>6 DEF IInv, MainInv, Ending
<1>8. QueueInv' /\ Settles(lastWritten, lastWritten')
  BY <1>1, <1>2, <1>3, SetupSettles
<1>9. WriteInv'
  BY <1>1, <1>2, <1>5, <1>8, WritesKept DEF IInv, WriteInv
<1> QED
  BY <1>4, <1>7, <1>8, <1>9, EndsAt DEF IInv

LEMMA LeftoverEnds ==
  ASSUME IInv, NEW w \in writes, NEW ok \in BOOLEAN, WriteEnds(w, ok), w.by = "nobody"
  PROVE  IInv'
<1>1. UNCHANGED <<lockQueue, toolVars, main, attempt, ui, hbVars, text>>
  BY DEF WriteEnds
<1>2. w.message = "setup" \/ text = "off"
  BY DEF IInv, WriteInv, MainInv
<1>3. UNCHANGED <<calls, stage, blocking, sitVars, hb, text>>
  BY <1>1 DEF toolVars, hbVars
<1>4. BatchInv' /\ Counts(blocking', ActiveBlocking') /\ SitInv' /\ InputInv'
  BY <1>3, ToolsKept, SitsKept DEF IInv, InputInv
<1>5. UNCHANGED <<streams, current, rapid>> /\ writes' = writes \ {w}
  BY EndsAt
<1>6. MainInv'
  BY <1>1, <1>3, <1>5, MainKept
<1>7. QueueInv' /\ (Settles(lastWritten, lastWritten') \/ "text" \notin AtLock)
  <2>1. CASE w.message = "setup"
    BY <1>1, <1>3, <2>1, SetupSettles
  <2>2. CASE text = "off"
    <3>1. AtLock' = AtLock /\ "text" \notin AtLock
      BY <1>3, <2>2, AtTheLock DEF AtLock
    <3>2. Queued(lockQueue, AtLock, lastWritten')
      BY <3>1 DEF IInv, QueueInv, Queued
    <3> QED
      BY <1>1, <3>1, <3>2 DEF IInv, QueueInv
  <2> QED
    BY <1>2, <2>1, <2>2
<1>8. \A v \in writes : v.by = "text" => "text" \in AtLock
  BY Names, Holder DEF IInv, WriteInv, HolderWrites
<1>9. WriteInv'
  BY <1>1, <1>5, <1>7, <1>8, WritesKept DEF IInv, WriteInv
<1> QED
  BY <1>4, <1>6, <1>7, <1>9, EndsAt DEF IInv

\* No other write of a task is left, so the next step of the lock is free.
LEMMA OnlyWrite ==
  ASSUME IInv, NEW w \in writes, w.by \in Tasks
  PROVE  /\ HolderWrites(w, lockQueue) /\ lockQueue # <<>> /\ w.by = lockQueue[1].by
         /\ main \notin {"closed"} /\ \A v \in writes \ {w} : v.by \notin Tasks
<1>1. HolderWrites(w, lockQueue)
  BY DEF IInv, WriteInv
<1>2. lockQueue # <<>> /\ w.by = lockQueue[1].by
  BY <1>1 DEF HolderWrites
<1>3. \A v \in writes \ {w} : v.by \notin Tasks
  BY <1>2, Names DEF IInv, WriteInv, HolderWrites
<1>4. w.by \in AtLock
  BY <1>2, Holder DEF IInv
<1>5. main # "closed"
  BY <1>4 DEF IInv, MainInv, AtLock
<1> QED
  BY <1>1, <1>2, <1>3, <1>5

LEMMA OnlyWriteEnds ==
  ASSUME IInv, NEW w \in writes, w.by \in Tasks, writes' = writes \ {w}, UNCHANGED <<streams, main>>
  PROVE  WriteInv'
BY OnlyWrite, WritesKept, Names DEF IInv, WriteInv

\* The holder goes on to its next message.
LEMMA Continued ==
  ASSUME NEW q \in Seq(Jobs), q # <<>>, NEW at, NEW last, NEW then, Queued(q, at, last),
         NEW job \in Jobs, job.by = "text", q[1].by = "text", job.messages # <<"frame", "text">>,
         FrameLast(job.after, then)
  PROVE  <<job>> \o Tail(q) \in Seq(Jobs) /\ Queued(<<job>> \o Tail(q), at, then)
<1> DEFINE r == <<job>> \o Tail(q)
           rest == Tail(q)
<1>1. /\ rest \in Seq(Jobs) /\ Queued(rest, at, then)
      /\ \A i \in 1 .. Len(rest) : rest[i].by # "text"
  <2>1. \A t \in at : t = q[1].by \/ t \in at
    OBVIOUS
  <2> QED
    BY <2>1, Popped
<1>2. Len(rest) \in Nat /\ <<job>> \in Seq(Jobs) /\ Len(<<job>>) = 1 /\ <<job>>[1] = job
  BY <1>1, LenProperties
<1> HIDE DEF rest
<1>3. /\ r \in Seq(Jobs) /\ Len(r) = Len(rest) + 1 /\ r[1] = job
      /\ \A i \in 2 .. Len(r) : r[i] = rest[i - 1] /\ i - 1 \in 1 .. Len(rest)
  <2>1. r = <<job>> \o rest
    BY DEF rest
  <2>2. r \in Seq(Jobs) /\ Len(r) = 1 + Len(rest)
        /\ \A i \in 1 .. Len(r) : r[i] = IF i <= 1 THEN <<job>>[i] ELSE rest[i - 1]
    BY <1>1, <1>2, <2>1, ConcatProperties
  <2> HIDE DEF r
  <2> QED
    BY <1>2, <2>2
<1> HIDE DEF r
<1>4. \A i \in 1 .. Len(r) : i = 1 \/ i \in 2 .. Len(r)
  BY <1>2, <1>3
<1>5. \A i \in 2 .. Len(r) : r[i].by \in at /\ r[i].by # "text" /\ r[i].after = 0
        /\ r[i].messages # <<"frame", "text">>
  <2>1. \A j \in 1 .. Len(rest) : /\ rest[j].by \in at /\ rest[j].by # "text" /\ rest[j].after = 0
                                 /\ rest[j].messages # <<"frame", "text">>
    <3> TAKE j \in 1 .. Len(rest)
    <3>1. /\ rest[j].by \in at
          /\ rest[j].messages = <<"frame", "text">> => rest[j].by = "text" /\ rest[j].after = 0
          /\ rest[j].after # 0 => rest[j].by = "text"
      BY <1>1 DEF Queued
    <3> QED
      BY <1>1, <3>1
  <2> QED
    BY <1>3, <2>1
<1>6. \A i, j \in 2 .. Len(r) : r[i].by = r[j].by => i = j
  <2> SUFFICES ASSUME NEW i \in 2 .. Len(r), NEW j \in 2 .. Len(r), r[i].by = r[j].by
               PROVE  i = j
    OBVIOUS
  <2>1. \A x, y \in 1 .. Len(rest) : rest[x].by = rest[y].by => x = y
    BY <1>1 DEF Queued
  <2>2. /\ r[i] = rest[i - 1] /\ i - 1 \in 1 .. Len(rest)
        /\ r[j] = rest[j - 1] /\ j - 1 \in 1 .. Len(rest)
    BY <1>3
  <2>3. rest[i - 1].by = rest[j - 1].by
    BY <2>2
  <2>4. i - 1 = j - 1
    BY <2>1, <2>2, <2>3
  <2> QED
    BY <2>4
<1>7. "text" \in at
  <2>1. 1 \in 1 .. Len(q)
    BY LenProperties, EmptySeq
  <2> QED
    BY <2>1 DEF Queued
<1>8. \A i, j \in 1 .. Len(r) : r[i].by = r[j].by => i = j
  BY <1>3, <1>4, <1>5, <1>6
<1>9. \A i \in 1 .. Len(r) :
       /\ r[i].by \in at
       /\ r[i].messages = <<"frame", "text">> => r[i].by = "text" /\ r[i].after = 0
       /\ r[i].after # 0 => i = 1 /\ r[i].by = "text" /\ FrameLast(r[i].after, then)
  BY <1>3, <1>4, <1>5, <1>7
<1> QED
  BY <1>3, <1>8, <1>9 DEF Queued, r, rest

LEMMA FrameTail == Tail(<<"frame", "text">>) = <<"text">>
<1> DEFINE S == {"frame", "text"}
<1>1. <<"frame", "text">> \in Seq(S) /\ <<"frame", "text">> # <<>>
  OBVIOUS
<1>2. Len(<<"frame", "text">>) = 2 /\ <<"frame", "text">>[2] = "text"
  OBVIOUS
<1>3. <<"text">> \in Seq(S) /\ Len(<<"text">>) = 1 /\ <<"text">>[1] = "text"
  OBVIOUS
<1> DEFINE m == <<"frame", "text">>
           r == <<"text">>
<1>4. m \in Seq(S) /\ m # <<>> /\ Len(m) = 2 /\ m[2] = "text" /\ r \in Seq(S) /\ Len(r) = 1 /\ r[1] = "text"
  BY <1>1, <1>2, <1>3
<1> HIDE DEF m, r, S
<1>5. Tail(m) \in Seq(S) /\ Len(Tail(m)) = 1 /\ Tail(m)[1] = "text"
  BY <1>4, HeadTailProperties
<1>6. \A i \in 1 .. Len(r) : r[i] = Tail(m)[i]
  BY <1>4, <1>5
<1>7. Tail(m) = r
  BY <1>4, <1>5, <1>6, SeqEqual
<1> QED
  BY <1>7 DEF m, r

\* The text after its frame, under the same lock.
LEMMA FrameEnds ==
  ASSUME IInv, NEW w \in writes, NEW ok \in BOOLEAN, WriteEnds(w, ok), w.by \in Tasks,
         ok, Len(Head(lockQueue).messages) > 1
  PROVE  IInv'
<1> DEFINE job == Head(lockQueue)
           next == [job EXCEPT !.messages = Tail(@), !.after = w.to]
<1>1. /\ HolderWrites(w, lockQueue) /\ lockQueue # <<>> /\ w.by = lockQueue[1].by
      /\ job = lockQueue[1] /\ job \in Jobs
  BY OnlyWrite, Holder DEF IInv
<1>2. /\ lockQueue' = KeepLock(job, w.to)
      /\ UNCHANGED <<toolVars, ui, hbVars, text, main, attempt>>
  BY <1>1, Names DEF WriteEnds
<1>3. job.messages = <<"frame", "text">>
  BY <1>1 DEF Jobs, Messages
<1>4. job.by = "text" /\ job.after = 0
  <2>1. 1 \in 1 .. Len(lockQueue)
    BY <1>1, Holder DEF IInv
  <2> QED
    BY <1>1, <1>3, <2>1 DEF IInv, QueueInv, Queued
<1>5. w.message = "frame"
  BY <1>1, <1>3 DEF HolderWrites
<1>6. FrameLast(w.to, lastWritten') /\ w.to \in Nat
  <2>1. Newest(w.to, lastWritten) /\ w.to \in Nat
    BY <1>1, <1>4 DEF IInv, WriteInv, Writes
  <2>2. /\ w.to \in DOMAIN lastWritten' /\ lastWritten'[w.to] = "frame" /\ DOMAIN lastWritten' = DOMAIN lastWritten
        /\ \A s \in DOMAIN lastWritten : s # w.to => lastWritten'[s] = lastWritten[s]
    BY <1>5, EndsAt
  <2>3. Newest(w.to, lastWritten')
    BY <2>1, <2>2 DEF Newest
  <2> QED
    BY <2>1, <2>2, <2>3 DEF FrameLast
<1>7. next \in Jobs /\ next.by = "text" /\ next.messages = <<"text">> /\ next.after = w.to
  <2>1. Tail(job.messages) = <<"text">>
    BY <1>3, FrameTail
  <2> QED
    BY <1>1, <1>4, <1>6, <2>1 DEF Jobs, Messages
<1>8. UNCHANGED <<calls, stage, blocking, sitVars, hb, text>>
  BY <1>2 DEF toolVars, hbVars
<1>9. UNCHANGED <<streams, current, rapid, main, attempt>> /\ writes' = writes \ {w}
  BY <1>2, EndsAt
<1>10. BatchInv' /\ Counts(blocking', ActiveBlocking') /\ SitInv' /\ InputInv' /\ MainInv'
  BY <1>8, <1>9, MainKept, ToolsKept, SitsKept DEF IInv, InputInv
<1>11. QueueInv'
  <2>1. lockQueue' = <<next>> \o Tail(lockQueue)
    BY <1>2 DEF KeepLock
  <2> HIDE DEF next, job
  <2>2. AtLock' = AtLock
    BY <1>8 DEF AtLock
  <2>3. <<"text">> # <<"frame", "text">>
    OBVIOUS
  <2>4. lockQueue[1].by = "text" /\ lockQueue \in Seq(Jobs) /\ Queued(lockQueue, AtLock, lastWritten)
    BY <1>1, <1>4 DEF IInv, QueueInv
  <2> DEFINE then == lastWritten'
  <2>5. FrameLast(next.after, then)
    BY <1>6, <1>7
  <2> HIDE DEF then
  <2>6. <<next>> \o Tail(lockQueue) \in Seq(Jobs) /\ Queued(<<next>> \o Tail(lockQueue), AtLock, then)
    BY <1>1, <1>7, <2>3, <2>4, <2>5, Continued
  <2> QED
    BY <2>1, <2>2, <2>6 DEF QueueInv, then
<1>12. WriteInv'
  BY <1>9, OnlyWriteEnds
<1> QED
  BY <1>10, <1>11, <1>12, EndsAt DEF IInv

\* The holder releases the lock: the queue goes on without it.
LEMMA Releases ==
  ASSUME IInv, NEW w \in writes, w.by \in Tasks, NEW rest, NEW then, \A t \in AtLock : t = w.by \/ t \in rest
  PROVE  Tail(lockQueue) \in Seq(Jobs) /\ Queued(Tail(lockQueue), rest, then)
         /\ \A i \in 1 .. Len(Tail(lockQueue)) : Tail(lockQueue)[i].by # w.by
<1>1. lockQueue # <<>> /\ w.by = lockQueue[1].by /\ lockQueue \in Seq(Jobs) /\ Queued(lockQueue, AtLock, lastWritten)
  BY OnlyWrite DEF IInv, QueueInv
<1> QED
  BY <1>1, Popped

LEMMA TextEnds ==
  ASSUME IInv, NEW w \in writes, NEW ok \in BOOLEAN, WriteEnds(w, ok), w.by = "text", TextSent(ok),
         UNCHANGED <<main, attempt>>
  PROVE  IInv'
<1>1. /\ text' \in {"idle", "dead"} /\ lockQueue' = Tail(lockQueue)
      /\ UNCHANGED <<calls, stage, blocking, sitVars, hb>>
  BY DEF TextSent, toolVars, hbVars
<1>2. UNCHANGED <<streams, current, rapid, main, attempt>> /\ writes' = writes \ {w}
  BY EndsAt
<1>3. BatchInv' /\ Counts(blocking', ActiveBlocking') /\ SitInv' /\ InputInv' /\ MainInv'
  <2>1. text # "off" /\ hb' = hb /\ stage' = stage
    BY <1>1, Names, OnlyWrite, Holder, AtTheLock DEF IInv
  <2>2. MainInv'
    BY <1>2, <2>1, MainKept
  <2>3. InputInv'
    BY <1>1 DEF IInv, InputInv
  <2>4. SitInv'
    BY <1>1, SitsKept
  <2> QED
    BY <1>1, <2>2, <2>3, <2>4, ToolsKept
<1>4. QueueInv'
  <2> DEFINE rest == AtLock'
             then == lastWritten'
  <2>1. \A t \in AtLock : t = w.by \/ t \in rest
    BY <1>1 DEF AtLock
  <2> HIDE DEF rest, then
  <2>2. Tail(lockQueue) \in Seq(Jobs) /\ Queued(Tail(lockQueue), rest, then)
    BY <2>1, Names, Releases
  <2> QED
    BY <1>1, <2>2 DEF QueueInv, rest, then
<1>5. WriteInv'
  BY <1>2, Names, OnlyWriteEnds
<1> QED
  BY <1>3, <1>4, <1>5, EndsAt DEF IInv

LEMMA HeartbeatEnds ==
  ASSUME IInv, NEW w \in writes, NEW ok \in BOOLEAN, WriteEnds(w, ok), w.by = "hb", HeartbeatSent(ok),
         UNCHANGED <<main, attempt>>
  PROVE  IInv'
<1>1. UNCHANGED <<calls, stage, blocking, sitVars, text>>
  BY DEF HeartbeatSent, toolVars
<1>2. \/ hb' = "prompt" /\ lockQueue' = Append(Tail(lockQueue), Job("hb", <<"prompt">>))
      \/ hb' \in {"wait", "gap", "pause", "dead"} /\ lockQueue' = Tail(lockQueue)
  BY DEF HeartbeatSent
<1>3. UNCHANGED <<streams, current, rapid, main, attempt>> /\ writes' = writes \ {w}
  BY EndsAt
<1>4. BatchInv' /\ Counts(blocking', ActiveBlocking') /\ SitInv' /\ InputInv' /\ MainInv'
  <2>1. hb # "off" /\ text' = text /\ stage' = stage
    BY <1>1, Names, OnlyWrite, Holder, AtTheLock DEF IInv
  <2>2. MainInv'
    BY <1>3, <2>1, MainKept
  <2>3. InputInv'
    BY <1>1, <1>2 DEF IInv, InputInv
  <2>4. SitInv'
    BY <1>1, SitsKept
  <2> QED
    BY <1>1, <2>2, <2>3, <2>4, ToolsKept
<1>5. QueueInv'
  <2> DEFINE more == AtLock'
             then == lastWritten'
             rest == AtLock \ {"hb"}
             q == Tail(lockQueue)
  <2>1. rest \subseteq more /\ (hb' = "prompt" => "hb" \in more)
    BY <1>1, Names DEF AtLock
  <2>2. \A t \in AtLock : t = w.by \/ t \in rest
    OBVIOUS
  <2> HIDE DEF rest, then, more
  <2>3. q \in Seq(Jobs) /\ Queued(q, rest, then) /\ \A i \in 1 .. Len(q) : q[i].by # "hb"
    BY <2>2, Names, Releases
  <2>4. lockQueue' = q \/ (hb' = "prompt" /\ lockQueue' = Append(q, Job("hb", <<"prompt">>)))
    BY <1>2
  <2> HIDE DEF q
  <2>5. CASE lockQueue' = q
    <3>1. Queued(q, more, then)
      BY <2>1, <2>3, QueueWidened
    <3> QED
      BY <2>3, <2>5, <3>1 DEF QueueInv, more, then
  <2>6. CASE hb' = "prompt" /\ lockQueue' = Append(q, Job("hb", <<"prompt">>))
    <3> DEFINE messages == <<"prompt">>
    <3>1. /\ messages # <<"frame", "text">>
          /\ messages \in Messages
      BY DEF Messages
    <3>2. "hb" \in Tasks /\ "hb" \in more
      BY <2>1, <2>6, Names
    <3>3. lockQueue' = Append(q, Job("hb", messages))
      BY <2>6
    <3> HIDE DEF messages
    <3>4. Append(q, Job("hb", messages)) \in Seq(Jobs) /\ Queued(Append(q, Job("hb", messages)), more, then)
      BY <2>1, <2>3, <3>1, <3>2, Queuing
    <3> QED
      BY <3>3, <3>4 DEF QueueInv, more, then
  <2> QED
    BY <2>4, <2>5, <2>6
<1>6. WriteInv'
  BY <1>3, Names, OnlyWriteEnds
<1> QED
  BY <1>4, <1>5, <1>6, EndsAt DEF IInv

LEMMA BatchEnds ==
  ASSUME IInv, NEW w \in writes, NEW ok \in BOOLEAN, WriteEnds(w, ok), w.by \in Batches, BatchSent(w.by, ok),
         UNCHANGED <<main, attempt, ui, hbVars, text>>
  PROVE  IInv'
<1> DEFINE b == w.by
           q == Tail(lockQueue)
           rest == AtLock \ {b}
           then == lastWritten'
<1>1. stage[b] \in {"video", "answer"} /\ main # "closed"
  <2>1. b \in AtLock
    BY Names, OnlyWrite, Holder DEF IInv
  <2> QED
    BY <2>1, Names, OnlyWrite, AtTheLock
<1>2. BatchInv' /\ SitInv' /\ Counts(blocking', ActiveBlocking') /\ Enters(b, q)
  BY <1>1, SentStep DEF IInv
<1>3. UNCHANGED <<streams, current, rapid, main, attempt, hb, text>> /\ writes' = writes \ {w}
  BY EndsAt DEF hbVars
<1>4. InputInv' /\ MainInv'
  BY <1>1, <1>3, MainKept DEF IInv, InputInv
<1>5. QueueInv'
  <2>1. \A t \in AtLock : t = w.by \/ t \in rest
    OBVIOUS
  <2>2. b \notin rest /\ rest \subseteq AtLock
    OBVIOUS
  <2> HIDE DEF rest, then
  <2>3. q \in Seq(Jobs) /\ Queued(q, rest, then)
    BY <2>1, Names, Releases
  <2> HIDE DEF q, b
  <2>4. b \in Batches
    BY DEF b
  <2>5. lockQueue' \in Seq(Jobs) /\ Queued(lockQueue', AtLock', then)
    BY <1>2, <1>3, <2>2, <2>3, <2>4, EntersQueue DEF IInv
  <2> QED
    BY <2>5 DEF QueueInv, then
<1>6. WriteInv'
  BY <1>3, Names, OnlyWriteEnds
<1> QED
  BY <1>2, <1>4, <1>5, <1>6, EndsAt DEF IInv

\* A write ends, whoever waits for it.
LEMMA WriteEndsStep ==
  ASSUME IInv, NEW w \in writes, NEW ok \in BOOLEAN, WriteEnds(w, ok)
  PROVE  IInv'
<1>1. w.by \in Tasks \cup {"setup", "nobody"}
  BY Names DEF IInv, WriteInv, Writes
<1>2. CASE w.by = "setup" \/ w.by = "nobody"
  BY <1>2, SetupEnds, LeftoverEnds
<1>3. CASE w.by \in Tasks
  <2>1. w.by # "setup" /\ w.by # "nobody"
    BY <1>3, Names
  <2>2. CASE ok /\ Len(Head(lockQueue).messages) > 1
    BY <1>3, <2>2, FrameEnds
  <2>3. CASE ~(ok /\ Len(Head(lockQueue).messages) > 1)
    <3>1. /\ UNCHANGED <<main, attempt>>
          /\ CASE w.by = "text" -> TextSent(ok)
               [] w.by = "hb" -> HeartbeatSent(ok)
               [] OTHER -> BatchSent(w.by, ok) /\ UNCHANGED <<ui, hbVars, text>>
      BY <2>1, <2>3 DEF WriteEnds
    <3>2. CASE w.by = "text"
      <4>1. TextSent(ok)
        BY <3>1, <3>2
      <4> QED
        BY <3>1, <3>2, <4>1, TextEnds
    <3>3. CASE w.by = "hb"
      <4>1. HeartbeatSent(ok)
        BY <3>1, <3>3
      <4> QED
        BY <3>1, <3>3, <4>1, HeartbeatEnds
    <3>4. CASE w.by \in Batches
      <4>1. BatchSent(w.by, ok) /\ UNCHANGED <<ui, hbVars, text>>
        BY <3>1, <3>4, Names
      <4> QED
        BY <3>1, <3>4, <4>1, BatchEnds
    <3> QED
      BY <1>3, <3>2, <3>3, <3>4 DEF Tasks
  <2> QED
    BY <2>2, <2>3
<1> QED
  BY <1>1, <1>2, <1>3

-------------------------------------------------------------------------------
(* The tools, the streams and the main loop.                                 *)

LEMMA BatchStepKeeps ==
  ASSUME IInv, NEW b \in Batches, BatchStep(b)
  PROVE  IInv'
<1>1. /\ BeginBatch(b) \/ Invoked(b) \/ FrameOrTimeout(b)
      /\ UNCHANGED <<streams, current, lastWritten, main, attempt, rapid, hb, text>>
  BY DEF BatchStep, streamVars, mainVars, hbVars
<1>2. /\ BatchInv' /\ SitInv' /\ Counts(blocking', ActiveBlocking')
      /\ Enters(b, lockQueue) /\ stage[b] \notin {"video", "answer"} /\ UNCHANGED <<left, writes>>
  BY <1>1, ToolStep DEF IInv
<1>3. stage[b] \notin {"none", "over"}
  BY <1>1 DEF BeginBatch, Invoked, FrameOrTimeout
<1>4. main # "closed"
  BY <1>3 DEF IInv, MainInv
<1>5. IsInstance(left') /\ StreamInv' /\ InputInv' /\ MainInv'
  <2>1. UNCHANGED <<main, attempt, rapid, current, streams>> /\ hb' = hb /\ text' = text
    BY <1>1
  <2>2. MainInv'
    BY <1>4, <2>1, MainKept
  <2> QED
    BY <1>1, <1>2, <2>2 DEF IInv, InputInv, StreamInv
<1>6. QueueInv' /\ \A w : HolderWrites(w, lockQueue) => HolderWrites(w, lockQueue')
  <2>1. b \notin AtLock
    BY <1>2, AtTheLock
  <2>2. lockQueue \in Seq(Jobs) /\ Queued(lockQueue, AtLock, lastWritten)
    BY DEF IInv, QueueInv
  <2>3. /\ lockQueue' \in Seq(Jobs) /\ Queued(lockQueue', AtLock', lastWritten)
        /\ \A w : HolderWrites(w, lockQueue) => HolderWrites(w, lockQueue')
    BY <1>1, <1>2, <2>1, <2>2, EntersQueue DEF IInv
  <2> QED
    BY <1>1, <2>3 DEF QueueInv
<1>7. WriteInv'
  BY <1>1, <1>2, <1>6, WritesKept DEF IInv, WriteInv
<1> QED
  BY <1>2, <1>5, <1>6, <1>7 DEF IInv

\* Steps of the main loop that leave the tools, the lock and the streams alone.
LEMMA MainMoves ==
  ASSUME IInv, IsInstance(left'), MainInv', main \in {"run", "sleep"},
         UNCHANGED <<calls, stage, blocking, lockQueue, writes, sitVars, streams, current, lastWritten, hb, text>>
  PROVE  IInv'
<1>1. BatchInv' /\ Counts(blocking', ActiveBlocking') /\ SitInv' /\ StreamInv' /\ InputInv'
  <2>1. SitInv'
    BY SitsKept
  <2>2. BatchInv' /\ Counts(blocking', ActiveBlocking')
    BY ToolsKept
  <2> QED
    BY <2>1, <2>2 DEF IInv, StreamInv, InputInv
<1>2. QueueInv'
  <2>1. AtLock' = AtLock
    BY DEF AtLock
  <2> QED
    BY <2>1, QueueStays
<1>3. WriteInv'
  <2>1. \A w \in writes : w.by # "setup" /\ w.by # "nobody"
    BY DEF IInv, WriteInv
  <2> QED
    BY <2>1, WritesKept DEF IInv, WriteInv
<1> QED
  BY <1>1, <1>2, <1>3 DEF IInv

LEMMA ModelCallsKeeps ==
  ASSUME IInv, NEW b \in Batches, ModelCalls(b)
  PROVE  IInv'
<1>1. /\ stage[b] = "none" /\ stage' = [stage EXCEPT ![b] = "posted"] /\ calls' = [calls EXCEPT ![b] = left.tools[b]]
      /\ b \in DOMAIN left.tools
      /\ UNCHANGED <<left, blocking, sitVars, lockQueue, writes, streams, current, lastWritten, main, attempt, rapid, hb, text>>
  BY DEF ModelCalls, Quiet, writerVars, streamVars, mainVars, hbVars
<1>2. main # "closed"
  BY DEF ModelCalls, Heard, Ending
<1>3. left.tools[b] \in Seq(STRING)
  BY <1>1 DEF IInv, IsInstance
<1>4. BatchInv' /\ ActiveBlocking' = ActiveBlocking
  <2>1. "posted" \in Stages /\ "posted" \notin Working
    BY DEF Stages, Working
  <2>2. BatchInv' /\ ActiveBlocking' = ActiveBlocking \ {b}
    BY <1>1, <1>3, <2>1, BatchMoves DEF IInv
  <2>3. b \notin ActiveBlocking
    BY <1>1 DEF ActiveBlocking, Active
  <2> QED
    BY <2>2, <2>3
<1>5. Counts(blocking', ActiveBlocking') /\ SitInv' /\ StreamInv' /\ InputInv' /\ MainInv'
  <2>1. SitInv'
    BY <1>1, SitsKept
  <2>2. MainInv'
    BY <1>1, <1>2, MainKept
  <2> QED
    BY <1>1, <1>4, <2>1, <2>2 DEF IInv, StreamInv, InputInv
<1>6. QueueInv'
  <2>1. AtLock \subseteq AtLock'
    BY <1>1 DEF AtLock, IInv, BatchInv
  <2> QED
    BY <1>1, <2>1, QueueStays
<1>7. WriteInv'
  BY <1>1, WritesKept DEF IInv, WriteInv
<1> QED
  BY <1>1, <1>4, <1>5, <1>6, <1>7 DEF IInv

LEMMA StreamEndsKeeps ==
  ASSUME IInv, NEW s \in DOMAIN streams, StreamEnds(s)
  PROVE  IInv'
<1>1. /\ streams[s] = "live" /\ Spend("drops") /\ streams' = [streams EXCEPT ![s] = "ended"]
      /\ UNCHANGED <<calls, stage, blocking, sitVars, lockQueue, writes, current, lastWritten, main, attempt, rapid, hb, text>>
  BY DEF StreamEnds, writerVars, toolVars, mainVars, hbVars
<1>2. IsInstance(left')
  BY <1>1, SpendKeeps DEF IInv, Kinds
<1>3. /\ streams' \in Seq({"live", "ended", "shut"}) /\ Len(streams') = Len(streams)
      /\ DOMAIN streams' = DOMAIN streams
      /\ \A r \in DOMAIN streams : r # s => streams'[r] = streams[r]
  BY <1>1, ExceptSeq, LenProperties DEF IInv, StreamInv
<1>4. BatchInv' /\ Counts(blocking', ActiveBlocking') /\ SitInv'
  BY <1>1, ToolsKept, SitsKept
<1>5. StreamInv' /\ InputInv' /\ MainInv'
  <2>1. StreamInv' /\ InputInv'
    BY <1>1, <1>3 DEF IInv, StreamInv, InputInv
  <2>2. main = "closed" => streams'[Len(streams')] = "shut"
    <3>1. main = "closed" => streams[Len(streams)] = "shut" /\ Len(streams) \in DOMAIN streams
      BY LenProperties DEF IInv, StreamInv, MainInv
    <3> QED
      BY <1>1, <1>3, <3>1
  <2>3. MainInv'
    BY <1>1, <1>3, <2>2 DEF IInv, MainInv, Ending
  <2> QED
    BY <2>1, <2>3
<1>6. QueueInv'
  <2>1. AtLock' = AtLock
    BY <1>1 DEF AtLock
  <2> QED
    BY <1>1, <2>1, QueueStays
<1>7. WriteInv'
  BY <1>1, <1>3, WritesKept DEF IInv, WriteInv
<1> QED
  BY <1>2, <1>4, <1>5, <1>6, <1>7 DEF IInv

LEMMA ConsumeKeeps ==
  ASSUME IInv, Consume
  PROVE  IInv'
<1>1. /\ main = "run"
      /\ UNCHANGED <<calls, stage, blocking, lockQueue, writes, sitVars, streams, current, lastWritten, hb, text>>
  BY DEF Consume, writerVars, toolVars, streamVars, hbVars
<1>2. IsInstance(left')
  BY DEF IInv, Consume
<1>3. current # 0 /\ rapid < MaxRetries
  BY <1>1 DEF IInv, MainInv, Ending
<1>4. UNCHANGED mainVars \/ \E soon \in BOOLEAN : Reconnect(soon)
  BY DEF Consume
<1>5. MainInv'
  <2>1. CASE UNCHANGED mainVars
    <3>1. UNCHANGED <<main, attempt, rapid, current, streams>> /\ hb' = hb /\ text' = text /\ stage' = stage
      BY <1>1, <2>1 DEF mainVars
    <3> QED
      BY <3>1, MainKept
  <2>2. ASSUME NEW soon \in BOOLEAN, Reconnect(soon)
        PROVE  MainInv'
    <3>1. rapid' \in 0 .. MaxRetries
      BY <1>3, <2>2 DEF Reconnect, IInv, MainInv, MaxRetries
    <3>2. CASE rapid' >= MaxRetries
      <4>1. main' = "closing" /\ UNCHANGED attempt
        BY <2>2, <3>2 DEF Reconnect
      <4> QED
        BY <1>1, <1>3, <3>1, <4>1 DEF IInv, MainInv, Ending
    <3>3. CASE ~(rapid' >= MaxRetries)
      <4>1. main' = "sleep" /\ attempt' = 1 /\ rapid' < MaxRetries
        BY <2>2, <3>1, <3>3 DEF Reconnect, MaxRetries
      <4>2. 1 \in 0 .. MaxRetries
        BY DEF MaxRetries
      <4> QED
        BY <1>1, <1>3, <3>1, <4>1, <4>2 DEF IInv, MainInv, Ending
    <3> QED
      BY <3>2, <3>3
  <2> QED
    BY <1>4, <2>1, <2>2
<1> QED
  BY <1>1, <1>2, <1>5, MainMoves

LEMMA AttemptKeeps ==
  ASSUME IInv, Attempt
  PROVE  IInv'
<1> DEFINE new == [by |-> "setup", to |-> current', message |-> "setup", after |-> 0]
<1>1. main = "sleep" /\ UNCHANGED <<lockQueue, calls, stage, blocking, sitVars, rapid, hb, text>>
  BY DEF Attempt, toolVars, hbVars
<1>2. current # 0 /\ rapid < MaxRetries
  BY <1>1 DEF IInv, MainInv, Ending
<1>3. ASSUME Spend("streams"), streams' = Append(streams, "live"), current' = Len(streams'),
             lastWritten' = Append(lastWritten, "none"), writes' = writes \cup {new},
             main' = "setup", attempt' = attempt
      PROVE  IInv'
  <2>1. IsInstance(left')
    BY <1>3, SpendKeeps DEF IInv, Kinds
  <2>2. /\ streams' \in Seq({"live", "ended", "shut"}) /\ Len(streams') = Len(streams) + 1 /\ Len(streams) \in Nat
        /\ DOMAIN streams \subseteq DOMAIN streams' /\ current' \in DOMAIN streams'
    BY <1>3, AppendProperties, LenProperties DEF IInv, StreamInv
  <2>3. /\ lastWritten' \in Seq(Contents) /\ Len(lastWritten') = Len(lastWritten) + 1
        /\ Settles(lastWritten, lastWritten')
    <3>1. "none" \in Contents /\ lastWritten \in Seq(Contents)
      BY DEF Contents, IInv, StreamInv
    <3>2. /\ lastWritten' \in Seq(Contents) /\ Len(lastWritten') = Len(lastWritten) + 1 /\ Len(lastWritten) \in Nat
          /\ DOMAIN lastWritten = 1 .. Len(lastWritten) /\ DOMAIN lastWritten' = 1 .. Len(lastWritten')
          /\ \A s \in DOMAIN lastWritten : lastWritten'[s] = lastWritten[s]
          /\ lastWritten'[Len(lastWritten')] = "none"
      BY <1>3, <3>1, AppendProperties, LenProperties
    <3>3. \A t \in DOMAIN lastWritten' : t \in DOMAIN lastWritten \/ t = Len(lastWritten')
      BY <3>2
    <3> QED
      BY <3>2, <3>3 DEF Settles
  <2>4. StreamInv'
    BY <1>3, <2>2, <2>3 DEF IInv, StreamInv
  <2>5. BatchInv' /\ Counts(blocking', ActiveBlocking') /\ SitInv' /\ InputInv'
    BY <1>1, ToolsKept, SitsKept DEF IInv, InputInv
  <2>6. MainInv'
    BY <1>1, <1>2, <1>3, <2>2 DEF IInv, MainInv, Ending, StreamInv
  <2>7. QueueInv'
    <3> DEFINE more == AtLock'
               then == lastWritten'
    <3>1. AtLock \subseteq more
      BY <1>1 DEF AtLock
    <3>2. Settles(lastWritten, then)
      BY <2>3
    <3> HIDE DEF more, then
    <3>3. Queued(lockQueue, more, then)
      BY <3>1, <3>2, QueueKept DEF IInv, QueueInv
    <3> QED
      BY <1>1, <3>3 DEF IInv, QueueInv, more, then
  <2>8. WriteInv'
    <3>1. \A w \in writes : w.by # "setup" /\ w.by # "nobody"
      BY <1>1 DEF IInv, WriteInv
    <3>2. new \in Writes
      BY <2>2, Names DEF Writes, Contents
    <3>3. new.by = "setup" /\ new.to = current' /\ new.message = "setup"
      OBVIOUS
    <3> HIDE DEF new
    <3> DEFINE then == lastWritten'
    <3>4. Settles(lastWritten, then)
      BY <2>3
    <3> HIDE DEF then
    <3>5. \A w \in writes : w.by = "text" => w.after <= w.to /\ Newest(w.to, then)
      BY <3>4, FrameKept DEF IInv, WriteInv
    <3> QED
      BY <1>1, <1>3, <2>2, <3>1, <3>2, <3>3, <3>5, Names DEF IInv, WriteInv, then
  <2> QED
    BY <2>1, <2>4, <2>5, <2>6, <2>7, <2>8 DEF IInv
<1>4. CASE Retry(FALSE) /\ UNCHANGED <<left, writes, streamVars>>
  <2>1. main' \in {"sleep", "closing"} /\ attempt' \in 0 .. MaxRetries
    BY <1>4 DEF Retry, IInv, MainInv, MaxRetries
  <2>2. UNCHANGED <<left, writes, streams, current, lastWritten>>
    BY <1>4 DEF streamVars
  <2>3. MainInv'
    BY <1>1, <1>2, <2>1, <2>2 DEF IInv, MainInv, Ending
  <2> QED
    BY <1>1, <2>2, <2>3, MainMoves DEF IInv
<1> QED
  BY <1>3, <1>4 DEF Attempt

\* Writes left by a cancelled task belong to nobody.
LEMMA AbandonedWrites ==
  ASSUME WriteInv, NEW who \in SUBSET (Tasks \cup {"setup"}), writes' = Abandoned(who),
         main' \in {"closing", "stopped", "closed"}, main = "setup" => "setup" \in who,
         main' = "closing" => who = {"setup"} /\ main \notin {"stopped", "closed"},
         \A w : HolderWrites(w, lockQueue) /\ w.by \notin who => HolderWrites(w, lockQueue'),
         DOMAIN streams \subseteq DOMAIN streams', UNCHANGED lastWritten
  PROVE  WriteInv'
<1> DEFINE Then(w) == IF w.by \in who THEN [w EXCEPT !.by = "nobody"] ELSE w
<1>1. writes' = {Then(w) : w \in writes}
  BY DEF Abandoned
<1>2. ASSUME NEW w \in writes
      PROVE  /\ Then(w) \in Writes /\ Then(w).to = w.to /\ Then(w).message = w.message
             /\ Then(w).by \in {w.by, "nobody"} /\ Then(w).by # "setup"
             /\ Then(w).by # "nobody" => Then(w) = w /\ w.by \notin who
             /\ Then(w).by = "nobody" => (main' = "closing" => w.message = "setup")
  <2>1. w \in Writes /\ (w.by = "setup" => "setup" \in who /\ w.message = "setup")
    BY <1>2 DEF WriteInv
  <2>2. [w EXCEPT !.by = "nobody"] \in Writes /\ [w EXCEPT !.by = "nobody"].by = "nobody"
        /\ [w EXCEPT !.by = "nobody"].to = w.to /\ [w EXCEPT !.by = "nobody"].message = w.message
    BY <2>1, Names DEF Writes
  <2>3. w.by \in who \cup {"nobody"} => (main' = "closing" => w.message = "setup")
    BY <1>2, <2>1 DEF WriteInv
  <2> QED
    BY <2>1, <2>2, <2>3, Names
<1> HIDE DEF Then
<1>3. writes' \subseteq Writes
  BY <1>1, <1>2
<1>4. ASSUME NEW v \in writes'
      PROVE  /\ v.to \in DOMAIN streams' /\ v.by # "setup"
             /\ v.by = "nobody" => main' \in {"stopped", "closed"} \/ (main' = "closing" /\ v.message = "setup")
             /\ v.by \in Tasks => HolderWrites(v, lockQueue')
             /\ v.by = "text" => v.after <= v.to /\ Newest(v.to, lastWritten)
  <2>1. PICK w \in writes : v = Then(w)
    BY <1>1, <1>4
  <2>2. v.by # "nobody" => v = w /\ w.by \notin who
    BY <1>2, <2>1
  <2>3. v.by = "text" => v.by # "nobody"
    BY Names
  <2>4. v.by = "text" => v.after <= v.to /\ Newest(v.to, lastWritten)
    BY <2>2, <2>3 DEF WriteInv
  <2> QED
    BY <1>2, <2>1, <2>2, <2>4, Names DEF WriteInv
<1>5. ASSUME NEW u \in writes', NEW v \in writes', u.by = v.by, u.by # "nobody"
      PROVE  u = v
  <2>1. PICK x \in writes : u = Then(x)
    BY <1>1, <1>5
  <2>2. PICK y \in writes : v = Then(y)
    BY <1>1, <1>5
  <2>3. u = x /\ v = y
    BY <1>2, <1>5, <2>1, <2>2
  <2> QED
    BY <1>5, <2>3 DEF WriteInv
<1> QED
  BY <1>3, <1>4, <1>5 DEF WriteInv

LEMMA LeaveKeeps ==
  ASSUME IInv, Leave
  PROVE  IInv'
<1>1. /\ main \in {"run", "sleep", "setup"} /\ main' = "closing" /\ writes' = Abandoned({"setup"})
      /\ UNCHANGED <<lockQueue, calls, stage, blocking, sitVars, streams, current, lastWritten, attempt, rapid, hb, text>>
  BY DEF Leave, toolVars, streamVars, hbVars
<1>2. IsInstance(left')
  BY SpendKeeps DEF IInv, Kinds, Leave
<1>3. BatchInv' /\ Counts(blocking', ActiveBlocking') /\ SitInv' /\ StreamInv' /\ InputInv'
  <2>1. SitInv'
    BY <1>1, SitsKept
  <2>2. BatchInv' /\ Counts(blocking', ActiveBlocking')
    BY <1>1, ToolsKept
  <2> QED
    BY <1>1, <2>1, <2>2 DEF IInv, StreamInv, InputInv
<1>4. MainInv'
  BY <1>1 DEF IInv, MainInv, Ending
<1>5. QueueInv'
  <2>1. AtLock' = AtLock
    BY <1>1 DEF AtLock
  <2> QED
    BY <1>1, <2>1, QueueStays
<1>6. WriteInv'
  <2>1. {"setup"} \in SUBSET (Tasks \cup {"setup"})
    OBVIOUS
  <2> QED
    BY <1>1, <2>1, AbandonedWrites DEF IInv
<1> QED
  BY <1>2, <1>3, <1>4, <1>5, <1>6 DEF IInv

LEMMA StopInputKeeps ==
  ASSUME IInv, StopInput
  PROVE  IInv'
<1>1. /\ main = "closing" /\ main' = "stopped" /\ hb' = "off" /\ text' = "off" /\ Drop({"hb", "text"})
      /\ UNCHANGED <<left, calls, stage, blocking, sitVars, streams, current, lastWritten, attempt, rapid>>
  BY DEF StopInput, InputTasks, toolVars, streamVars
<1>2. BatchInv' /\ Counts(blocking', ActiveBlocking') /\ SitInv'
  BY <1>1, ToolsKept, SitsKept
<1>3. StreamInv' /\ InputInv'
  BY <1>1 DEF IInv, StreamInv, InputInv
<1>4. MainInv'
  BY <1>1 DEF IInv, MainInv, Ending
<1>5. QueueInv'
  <2> DEFINE rest == AtLock \ {"hb", "text"}
             more == AtLock'
  <2>1. rest \subseteq more
    BY <1>1 DEF AtLock
  <2>2. lockQueue' \in Seq(Jobs) /\ Queued(lockQueue', rest, lastWritten)
    BY <1>1, Dropped DEF IInv
  <2> HIDE DEF rest, more
  <2>3. Queued(lockQueue', more, lastWritten)
    BY <2>1, <2>2, QueueWidened
  <2> QED
    BY <1>1, <2>2, <2>3 DEF QueueInv, more
<1>6. WriteInv'
  <2>1. {"hb", "text"} \in SUBSET (Tasks \cup {"setup"})
    BY Names
  <2>2. \A w : HolderWrites(w, lockQueue) /\ w.by \notin {"hb", "text"} => HolderWrites(w, lockQueue')
    BY <1>1, Dropped DEF IInv
  <2>3. writes' = Abandoned({"hb", "text"})
    BY <1>1 DEF Drop
  <2> QED
    BY <1>1, <2>1, <2>2, <2>3, AbandonedWrites DEF IInv
<1> QED
  BY <1>1, <1>2, <1>3, <1>4, <1>5, <1>6 DEF IInv

LEMMA StopBusKeeps ==
  ASSUME IInv, StopBus
  PROVE  IInv'
<1>1. /\ main = "stopped" /\ main' = "closed" /\ CancelBatches(Left(Cardinality(ActiveBlocking), blocking))
      /\ Drop(Batches) /\ streams' = [streams EXCEPT ![current] = "shut"] /\ current' = 0
      /\ UNCHANGED <<left, sitVars, lastWritten, attempt, rapid, hb, text>>
  BY DEF StopBus, hbVars
<1>2. hb = "off" /\ text = "off" /\ current \in DOMAIN streams
  <2>1. current # 0
    BY <1>1 DEF IInv, MainInv
  <2> QED
    BY <1>1, <2>1, LenProperties DEF IInv, MainInv, StreamInv
<1>3. /\ BatchInv' /\ ActiveBlocking' = {} /\ Counts(blocking', ActiveBlocking')
      /\ \A b \in Batches : stage'[b] \in {"none", "over"}
  <2>1. /\ stage' = [b \in Batches |-> IF stage[b] = "none" THEN "none" ELSE "over"]
        /\ calls' = [b \in Batches |-> <<>>] /\ blocking' = Left(Cardinality(ActiveBlocking), blocking)
    BY <1>1 DEF CancelBatches
  <2>2. Active' = {} /\ ActiveBlocking' = {}
    BY <2>1 DEF Active, ActiveBlocking
  <2>3. Counts(Left(Cardinality(ActiveBlocking), blocking), {})
    BY ActiveFinite, LeftAll DEF IInv
  <2>4. BatchInv'
    <3>1. <<>> \in Seq(STRING)
      BY EmptySeq
    <3> QED
      BY <2>1, <2>2, <3>1 DEF BatchInv, Stages
  <2> QED
    BY <2>1, <2>2, <2>3, <2>4
<1>4. SitInv'
  BY <1>1, SitsKept
<1>5. /\ streams' \in Seq({"live", "ended", "shut"}) /\ Len(streams') = Len(streams)
      /\ DOMAIN streams' = DOMAIN streams /\ streams'[current] = "shut"
  BY <1>1, <1>2, ExceptSeq, LenProperties DEF IInv, StreamInv
<1>6. StreamInv' /\ InputInv'
  BY <1>1, <1>5, LenProperties DEF IInv, StreamInv, InputInv
<1>7. MainInv'
  <2>1. streams'[Len(streams')] = "shut"
    BY <1>2, <1>5 DEF IInv, StreamInv, MainInv
  <2> QED
    BY <1>1, <1>2, <1>3, <2>1 DEF IInv, MainInv, Ending
<1>8. QueueInv'
  <2> DEFINE rest == AtLock \ Batches
             more == AtLock'
  <2>1. rest \subseteq more
    BY <1>2 DEF AtLock, Tasks
  <2>2. lockQueue' \in Seq(Jobs) /\ Queued(lockQueue', rest, lastWritten)
    BY <1>1, Dropped DEF IInv
  <2> HIDE DEF rest, more
  <2>3. Queued(lockQueue', more, lastWritten)
    BY <2>1, <2>2, QueueWidened
  <2> QED
    BY <1>1, <2>2, <2>3 DEF QueueInv, more
<1>9. WriteInv'
  <2>1. Batches \in SUBSET (Tasks \cup {"setup"})
    BY Names
  <2>2. \A w : HolderWrites(w, lockQueue) /\ w.by \notin Batches => HolderWrites(w, lockQueue')
    BY <1>1, Dropped DEF IInv
  <2>3. writes' = Abandoned(Batches)
    BY <1>1 DEF Drop
  <2> QED
    BY <1>1, <1>5, <2>1, <2>2, <2>3, AbandonedWrites DEF IInv
<1> QED
  BY <1>1, <1>3, <1>4, <1>6, <1>7, <1>8, <1>9 DEF IInv

LEMMA StepInv == IInv /\ [Next]_vars => IInv'
<1> SUFFICES ASSUME IInv, [Next]_vars
             PROVE  IInv'
  OBVIOUS
<1>1. CASE Write
  BY <1>1, WriteStep
<1>2. CASE Heartbeat
  BY <1>2, HeartbeatStep, QuietStep DEF Heartbeat
<1>3. CASE Main
  BY <1>3, ConsumeKeeps, AttemptKeeps, StopInputKeeps, StopBusKeeps DEF Main
<1>4. CASE TextFrame
  BY <1>4, TextStep
<1>5. CASE Leave
  BY <1>5, LeaveKeeps
<1>6. ASSUME NEW by \in Writers, WriteEndsBy(by)
      PROVE  IInv'
  BY <1>6, WriteEndsStep DEF WriteEndsBy
<1>7. ASSUME NEW b \in Batches, BatchStep(b) \/ ModelCalls(b)
      PROVE  IInv'
  BY <1>7, BatchStepKeeps, ModelCallsKeeps
<1>8. ASSUME NEW s \in DOMAIN streams, StreamEnds(s)
      PROVE  IInv'
  BY <1>8, StreamEndsKeeps
<1>9. CASE (\E hadTools \in BOOLEAN : TurnCompletes(hadTools)) \/ Interrupted
           \/ \E words \in Words : UserSpeaks(words)
  BY <1>9, QuietStep
<1>10. CASE \E words \in Words : UserTypes(words)
  BY <1>10, TextStep
<1>11. CASE UNCHANGED vars
  BY <1>11, QuietStep
<1>12. CASE Next
  BY <1>1, <1>2, <1>3, <1>4, <1>5, <1>6, <1>7, <1>8, <1>9, <1>10, <1>12 DEF Next
<1> QED
  BY <1>11, <1>12

LEMMA InvHolds == Spec => []IInv
<1>1. Init => IInv
  BY InitInv
<1>2. IInv /\ [Next]_vars => IInv'
  BY StepInv
<1> QED
  BY <1>1, <1>2, PTL DEF Spec

-------------------------------------------------------------------------------
(* What follows from it.                                                     *)

LEMMA AtMostOne ==
  ASSUME NEW S, \A x, y \in S : x = y
  PROVE  Cardinality(S) <= 1
<1>1. CASE S = {}
  BY <1>1, FS_EmptySet
<1>2. CASE S # {}
  <2>1. PICK x \in S : S = {x}
    BY <1>2
  <2>2. Cardinality({x}) = 1
    BY FS_Singleton
  <2> QED
    BY <2>1, <2>2
<1> QED
  BY <1>1, <1>2

\* Everything has its type; above all, no task waits at the lock twice.
LEMMA Types == IInv => TypeOK
<1> SUFFICES ASSUME IInv
             PROVE  TypeOK
  OBVIOUS
<1>1. left.heartbeat \in {"events", "interval", "none"}
  BY DEF IInv, IsInstance
<1>2. ToSet(streams) \subseteq {"live", "ended", "shut"}
  BY ElementOfSeq, LenProperties DEF IInv, StreamInv, ToSet
<1>3. \A w \in writes : w.by \in Writers /\ w.to \in DOMAIN streams
  BY DEF IInv, WriteInv, Writes
<1>4. \A by \in Writers : Cardinality({i \in DOMAIN lockQueue : lockQueue[i].by = by}) <= 1
  <2> TAKE by \in Writers
  <2>1. \A x, y \in {i \in DOMAIN lockQueue : lockQueue[i].by = by} : x = y
    BY LenProperties DEF IInv, QueueInv, Queued
  <2> QED
    BY <2>1, AtMostOne
<1>5. blocking.count \in 0 .. Cardinality(Batches) /\ blocking.set \in BOOLEAN
  <2>1. Cardinality(ActiveBlocking) <= Cardinality(Batches) /\ Cardinality(Batches) \in Nat
    BY ActiveFinite, Names, FS_Subset, FS_CardinalityType
  <2>2. blocking.count = Cardinality(ActiveBlocking) /\ blocking.count \in Nat /\ blocking.set \in BOOLEAN
    BY DEF IInv, Counts
  <2> QED
    BY <2>1, <2>2
<1> QED
  BY <1>1, <1>2, <1>3, <1>4, <1>5 DEF TypeOK, IInv, StreamInv, MainInv

\* The event tool_executing, which keeps heartbeats back, is set exactly while a blocking
\* tool of some batch is between its beginning and its answer, for any batches that
\* overlap, fail or are cancelled, and the counter behind it is their number.
\* (tool_call_handler.py:175, 252)
THEOREM FlagIsTool == Spec => []FlagMeansTool
<1>1. IInv => FlagMeansTool
  BY Types DEF FlagMeansTool, IInv, Counts
<1> QED
  BY <1>1, InvHolds, PTL

\* What a step that makes the robot sit has to be.
Wanted ==
  sits' # sits =>
    /\ sits' = sits + 1 /\ sitAt < Len(said)
    /\ \E i \in SaidNow : said[i].sit
    /\ \A i \in SaidNow : ~said[i].never

LEMMA ProceedWanted ==
  ASSUME SitInv, NEW b, NEW rest, NEW B, NEW q, Proceed(b, rest, B, q)
  PROVE  Wanted
<1>1. CASE sits' = sits
  BY <1>1 DEF Wanted
<1>2. CASE authorized /\ sits' = sits + 1
  BY <1>2 DEF Wanted, SitInv
<1> QED
  BY <1>1, <1>2 DEF Proceed, sitVars

LEMMA StepWanted == IInv /\ [Next]_vars => Wanted
<1> SUFFICES ASSUME IInv, [Next]_vars
             PROVE  Wanted
  OBVIOUS
<1>1. CASE sits' = sits
  BY <1>1 DEF Wanted
<1>2. ASSUME NEW w \in writes, NEW ok \in BOOLEAN, WriteEnds(w, ok)
      PROVE  Wanted
  <2>1. \/ UNCHANGED toolVars
        \/ BatchSent(w.by, ok)
        \/ TextSent(ok) \/ HeartbeatSent(ok)
    BY <1>2 DEF WriteEnds
  <2>2. sits' = sits \/ BatchSent(w.by, ok)
    BY <2>1 DEF TextSent, HeartbeatSent, toolVars, sitVars
  <2>3. CASE BatchSent(w.by, ok)
    BY <1>1, <2>3, ProceedWanted DEF BatchSent, IInv, sitVars
  <2> QED
    BY <1>1, <2>2, <2>3
<1>3. ASSUME NEW b \in Batches, BatchStep(b)
      PROVE  Wanted
  <2>1. CASE BeginBatch(b)
    BY <2>1, ProceedWanted DEF BeginBatch, IInv
  <2>2. CASE Invoked(b) \/ FrameOrTimeout(b)
    BY <1>1, <2>2 DEF Invoked, FrameOrTimeout, sitVars
  <2> QED
    BY <1>3, <2>1, <2>2 DEF BatchStep
<1>4. CASE Write \/ Heartbeat \/ Main \/ TextFrame \/ Leave
  <2>1. UNCHANGED sitVars
    BY <1>4 DEF Write, Heartbeat, HeartbeatWakes, HeartbeatFrame, Later, Main, Consume, Attempt, StopInput, StopBus,
                TextFrame, Leave, toolVars
  <2> QED
    BY <1>1, <2>1 DEF sitVars
<1>5. CASE \/ \E b \in Batches : ModelCalls(b)
           \/ \E s \in DOMAIN streams : StreamEnds(s)
           \/ \E hadTools \in BOOLEAN : TurnCompletes(hadTools)
           \/ Interrupted \/ UNCHANGED vars
  <2>1. UNCHANGED sitVars
    BY <1>5 DEF ModelCalls, StreamEnds, TurnCompletes, Interrupted, vars, toolVars
  <2> QED
    BY <1>1, <2>1 DEF sitVars
<1>6. CASE \E words \in Words : UserSpeaks(words) \/ UserTypes(words)
  BY <1>1, <1>6 DEF UserSpeaks, UserTypes, Instructed
<1> QED
  BY <1>2, <1>3, <1>4, <1>5, <1>6 DEF Next, WriteEndsBy

\* The robot only sits down if the user said something since it last did, and if among
\* what was said since the last text typed there is a request to sit and none not to: the
\* transcript the code keeps says so when the authorization is granted, and every later
\* instruction grants or withdraws it anew.  One request may serve several sits.
\* (tool_call_handler.py:262-270, 333)
THEOREM SitsAreWanted == Spec => SitIsWanted
<1>1. IInv /\ [Next]_vars => [Wanted]_vars
  BY StepWanted
<1> QED
  BY <1>1, InvHolds, PTL DEF Spec, SitIsWanted, Wanted

\* After the clean-up of start_session nothing of the session goes on, also if it was
\* closed while it waited to reconnect or while a new stream was being set up: every task
\* left the lock, tools and heartbeat are off and the stream made last is shut.
\* (session_manager.py:345-352, 675)
THEOREM ClosedSessionIsQuiet == Spec => []ClosedIsQuiet
<1>1. IInv => ClosedIsQuiet
  <2> SUFFICES ASSUME IInv, main = "closed"
               PROVE  /\ lockQueue = <<>> /\ Active = {} /\ hb = "off" /\ text = "off"
                      /\ current = 0 /\ streams[Len(streams)] = "shut"
                      /\ \A w \in writes : w.by = "nobody"
    BY DEF ClosedIsQuiet
  <2>1. /\ hb = "off" /\ text = "off" /\ current = 0
        /\ \A b \in Batches : stage[b] \in {"none", "over"}
        /\ streams[Len(streams)] = "shut"
    BY DEF IInv, MainInv
  <2>2. Active = {} /\ AtLock = {}
    BY <2>1, AtTheLock DEF Active, AtLock, Tasks
  <2>3. lockQueue = <<>>
    BY <2>2, Holder DEF IInv
  <2>4. \A w \in writes : w.by \notin Tasks /\ w.by # "setup"
    BY <2>3 DEF IInv, WriteInv, HolderWrites
  <2>5. \A w \in writes : w.by \in Tasks \cup {"setup", "nobody"}
    BY Names DEF IInv, WriteInv, Writes
  <2> QED
    BY <2>1, <2>2, <2>3, <2>4, <2>5
<1> QED
  BY <1>1, InvHolds, PTL

\* The text a user typed, sent after a frame, is written where the frame was the last
\* thing written, or the setup of a reconnect that came between; or a reconnect replaced
\* the stream between the two, and it is the first thing written there, or follows the
\* setup: in no case did another task get the lock. (session_manager.py:169, 192-194, 347)
THEOREM TextAfterFrame == Spec => TextFollowsFrame
<1>1. IInv => \A w \in writes :
        w.by = "text" /\ w.after # 0 => lastWritten[w.to] \in {"setup", IF w.to = w.after THEN "frame" ELSE "none"}
  <2> SUFFICES ASSUME IInv, NEW w \in writes, w.by = "text", w.after # 0
               PROVE  lastWritten[w.to] \in {"setup", IF w.to = w.after THEN "frame" ELSE "none"}
    OBVIOUS
  <2>1. HolderWrites(w, lockQueue) /\ lockQueue # <<>>
    BY Names, OnlyWrite
  <2>2. 1 \in 1 .. Len(lockQueue)
    BY <2>1, Holder DEF IInv
  <2>3. FrameLast(w.after, lastWritten)
    BY <2>1, <2>2 DEF IInv, QueueInv, Queued, HolderWrites
  <2>4. w.after <= w.to /\ w.to \in DOMAIN lastWritten /\ w.to \in Nat /\ w.after \in Nat
    BY LenProperties DEF IInv, WriteInv, StreamInv, Writes
  <2>5. CASE w.to = w.after
    BY <2>3, <2>5 DEF FrameLast
  <2>6. CASE w.to # w.after
    <3>1. w.to > w.after
      BY <2>4, <2>6
    <3> QED
      BY <2>3, <2>4, <2>6, <3>1 DEF FrameLast, Newest
  <2> QED
    BY <2>5, <2>6
<1>2. IInv => [\A w \in writes \ writes' :
       (w.by = "text" /\ w.message = "text" /\ w.after # 0 /\ lastWritten'[w.to] = "text")
         => lastWritten[w.to] \in {"setup", IF w.to = w.after THEN "frame" ELSE "none"}]_vars
  BY <1>1
<1> QED
  BY <1>2, InvHolds, PTL DEF TextFollowsFrame
===============================================================================
