----------------------------- MODULE SpeechProofs -----------------------------
(***************************************************************************)
(* What Speech guarantees for any set of messages and any bounds: the flag *)
(* the heartbeat loop looks at covers every speech under way, handlers     *)
(* that do not overlap never leave a speech nobody refers to, audio is     *)
(* encoded once, turns stay apart, and what a handler awaits was told to   *)
(* stop.                                                                   *)
(*                                                                         *)
(* The order of the events (OrderInv) is what they need: a handler starts  *)
(* once, after all earlier ones, so that it finds no part of its response  *)
(* handled and, unless a response was overtaken, nobody else under way.    *)
(* What is done is then a beginning of all that was received (DoneInOrder),*)
(* and the part a handler is at comes next (HereIsFrontier).               *)
(***************************************************************************)
EXTENDS Speech, SequenceTheorems, FiniteSetTheorems, TLAPS

-------------------------------------------------------------------------------
(* The inductive invariant.                                                  *)

Parts == {"tool", "text", "audio", "note", "turn", "interrupted"}
Events == [type : {"response", "chunk", "turn", "interrupted"}, from : Responses, part : Nat]
SpeechStates == {"none", "created", "doomed", "running", "stopping", "done"}

BusType ==
  /\ bus \in {"running", "stopping", "closed"}
  /\ queue \in Seq(Events)
  /\ log \in Seq(Messages) /\ Len(log) <= MaxResponses

HandlerType ==
  /\ cur \in Responses \cup {0}
  /\ todo \in [Responses -> Seq(Parts)]
  /\ wait \in [Responses -> 0 .. Callback]
  /\ overtaken \in BOOLEAN

SpeechType ==
  /\ speech \in [Speeches -> SpeechStates]
  /\ active \in 0 .. MaxSpeeches

RestType ==
  /\ toolTurn \in BOOLEAN
  /\ reports \in Seq([at : Responses \X Nat, tool : BOOLEAN])
  /\ buffer \subseteq Responses \X Nat
  /\ encoding \subseteq SUBSET (Responses \X Nat) /\ encoded \subseteq SUBSET (Responses \X Nat)

Types == BusType /\ HandlerType /\ SpeechType /\ RestType

\* A handler that has begun and not ended.
Busy(h) == cur = h \/ Suspended(h)

BusyHandlers == {h \in Responses : Busy(h)}

\* The responses in the queue q are some of the first n, oldest first and later than
\* the handlers B.
InOrder(q, n, B) ==
  \A i \in 1 .. Len(q) : q[i].type = "response" =>
    /\ q[i].from <= n
    /\ \A h \in B : h < q[i].from
    /\ \A j \in 1 .. Len(q) : i < j /\ q[j].type = "response" => q[i].from < q[j].from

\* A handler with something left to do has begun, and a suspended one has.
LocalInv ==
  \A h \in Responses :
    /\ todo[h] # <<>> => Busy(h)
    /\ Suspended(h) => cur # h /\ todo[h] # <<>>

\* What a handler has to do is the rest of its response.
EndOf(t, s) == Len(t) <= Len(s) /\ \A i \in 1 .. Len(t) : t[i] = s[i + (Len(s) - Len(t))]
RestInv == \A h \in 1 .. Len(log) : EndOf(todo[h], log[h])

OrderInv ==
  /\ InOrder(queue, Len(log), BusyHandlers)
  /\ \A h \in Responses : Busy(h) => h <= Len(log)
  /\ LocalInv
  /\ RestInv

Started == {s \in Speeches : speech[s] # "none"}

\* Speeches are started in order; the counter is between those under way and those begun.
CountInv ==
  /\ count \in Nat
  /\ \E k \in 0 .. MaxSpeeches : Started = 1 .. k /\ count <= k
  /\ Cardinality(Unfinished) <= count
  /\ speaking = (count > 0)

\* Without overlap one handler is under way, and what it waits for is the active speech.
VoiceInv ==
  ~overtaken =>
    /\ \A g, h \in Responses : Busy(g) /\ Busy(h) => g = h
    /\ \A h \in Responses : wait[h] \in Speeches => wait[h] = active
    /\ Unfinished \subseteq {active}

IInv == Types /\ OrderInv /\ CountInv /\ VoiceInv

LEMMA Bounds ==
  /\ MaxSpeeches \in Nat /\ MaxResponses \in Nat /\ MaxSpeeches > 0
  /\ 0 \notin Speeches /\ 0 \notin Responses
  /\ Callback \notin Speeches /\ Callback # NoSpeech /\ NoSpeech = 0
  /\ NoSpeech \in 0 .. Callback /\ Callback \in 1 .. Callback /\ 1 .. Callback \subseteq 0 .. Callback
  /\ Speeches \subseteq 0 .. MaxSpeeches /\ Speeches \subseteq 0 .. Callback
  /\ Responses \subseteq Nat
BY BoundsAssumption DEF Speeches, Responses, Callback, NoSpeech

-------------------------------------------------------------------------------
(* The order of events.                                                      *)

\* An event that is no response is published by a handler.
LEMMA OrderPublish ==
  ASSUME NEW q \in Seq(Events), NEW e \in Events, e.type # "response", NEW n, NEW B, NEW C \in SUBSET B,
         InOrder(q, n, B)
  PROVE  InOrder(Append(q, e), n, C)
<1>1. /\ Len(Append(q, e)) = Len(q) + 1 /\ Len(q) \in Nat
      /\ \A i \in 1 .. Len(q) : Append(q, e)[i] = q[i]
      /\ Append(q, e)[Len(q) + 1] = e
  BY AppendProperties, LenProperties
<1>2. \A i \in 1 .. Len(Append(q, e)) :
        Append(q, e)[i].type = "response" => i \in 1 .. Len(q) /\ Append(q, e)[i] = q[i]
  BY <1>1
<1> QED
  BY <1>2 DEF InOrder

\* A response is received after all others.
LEMMA OrderReceive ==
  ASSUME NEW q \in Seq(Events), NEW n \in Nat, n + 1 \in Responses, NEW B, \A h \in B : h \in Nat /\ h <= n,
         InOrder(q, n, B)
  PROVE  InOrder(Append(q, [type |-> "response", from |-> n + 1, part |-> 0]), n + 1, B)
<1> DEFINE e == [type |-> "response", from |-> n + 1, part |-> 0]
           r == Append(q, e)
<1>1. /\ Len(r) = Len(q) + 1 /\ Len(q) \in Nat
      /\ \A i \in 1 .. Len(q) : r[i] = q[i]
      /\ r[Len(q) + 1] = e
  BY AppendProperties, LenProperties DEF Events
<1>2. \A i \in 1 .. Len(q) : q[i].from \in Nat
  <2> TAKE i \in 1 .. Len(q)
  <2>1. q[i] \in Events
    BY ElementOfSeq
  <2> QED
    BY <2>1, Bounds DEF Events
<1> SUFFICES ASSUME NEW i \in 1 .. Len(r), r[i].type = "response"
             PROVE  /\ r[i].from <= n + 1
                    /\ \A h \in B : h < r[i].from
                    /\ \A j \in 1 .. Len(r) : i < j /\ r[j].type = "response" => r[i].from < r[j].from
  BY DEF InOrder
<1>3. CASE i \in 1 .. Len(q)
  <2>1. r[i] = q[i] /\ q[i].from <= n /\ q[i].from \in Nat
    BY <1>1, <1>2, <1>3 DEF InOrder
  <2>2. ASSUME NEW j \in 1 .. Len(r), i < j, r[j].type = "response"
        PROVE  r[i].from < r[j].from
    <3>1. CASE j \in 1 .. Len(q)
      BY <1>1, <1>3, <2>1, <2>2, <3>1 DEF InOrder
    <3>2. CASE j = Len(q) + 1
      BY <1>1, <2>1, <3>2
    <3> QED
      BY <1>1, <3>1, <3>2
  <2> QED
    BY <1>3, <2>1, <2>2 DEF InOrder
<1>4. CASE i = Len(q) + 1
  BY <1>1, <1>4
<1> QED
  BY <1>1, <1>3, <1>4

\* The oldest event is taken; a response's handler begins before the later ones.
LEMMA OrderTake ==
  ASSUME NEW q \in Seq(Events), q # <<>>, NEW n, NEW B, NEW C, InOrder(q, n, B),
         \A h \in C : h \in B \/ (Head(q).type = "response" /\ h = Head(q).from)
  PROVE  InOrder(Tail(q), n, C)
<1>1. /\ Head(q) = q[1] /\ Len(q) \in Nat /\ 1 \in 1 .. Len(q)
      /\ Len(Tail(q)) = Len(q) - 1 /\ \A i \in 1 .. Len(Tail(q)) : Tail(q)[i] = q[i + 1]
  BY HeadTailProperties, LenProperties, EmptySeq
<1>2. \A i \in 1 .. Len(Tail(q)) : i + 1 \in 1 .. Len(q) /\ 1 < i + 1
  BY <1>1
<1>3. \A i, j \in 1 .. Len(Tail(q)) : i < j => i + 1 < j + 1
  BY <1>1
<1> SUFFICES ASSUME NEW i \in 1 .. Len(Tail(q)), q[i + 1].type = "response"
             PROVE  /\ q[i + 1].from <= n
                    /\ \A h \in C : h < q[i + 1].from
                    /\ \A j \in 1 .. Len(Tail(q)) :
                         i < j /\ q[j + 1].type = "response" => q[i + 1].from < q[j + 1].from
  BY <1>1 DEF InOrder
<1>4. q[i + 1].from <= n /\ \A h \in B : h < q[i + 1].from
  BY <1>2 DEF InOrder
<1>5. q[1].type = "response" => q[1].from < q[i + 1].from
  BY <1>1, <1>2 DEF InOrder
<1>6. \A j \in 1 .. Len(Tail(q)) :
        i < j /\ q[j + 1].type = "response" => q[i + 1].from < q[j + 1].from
  BY <1>2, <1>3 DEF InOrder
<1> QED
  BY <1>1, <1>4, <1>5, <1>6

-------------------------------------------------------------------------------
(* The handlers.                                                             *)

\* h handles a part, waits, goes on after a wait, or goes from one wait to the next.
Goes(h) ==
  /\ \/ cur = h /\ cur' = h /\ wait' = wait /\ todo' = [todo EXCEPT ![h] = Tail(@)]
     \/ /\ cur = h \/ (cur = 0 /\ Suspended(h))
        /\ cur' = 0 /\ todo' = todo
        /\ \E what \in 1 .. Callback : wait' = [wait EXCEPT ![h] = what]
     \/ /\ cur = 0 /\ Suspended(h)
        /\ cur' = h /\ wait' = [wait EXCEPT ![h] = NoSpeech] /\ todo' = [todo EXCEPT ![h] = Tail(@)]
  /\ todo[h] # <<>>
  /\ overtaken' = overtaken

LEMMA GoesKept ==
  ASSUME HandlerType, LocalInv, NEW h \in Responses, Goes(h)
  PROVE  HandlerType' /\ LocalInv' /\ \A g \in Responses : Busy(g)' <=> Busy(g)
<1>1. Tail(todo[h]) \in Seq(Parts)
  BY HeadTailProperties DEF HandlerType, Goes
<1>2. HandlerType'
  <2>1. cur' \in Responses \cup {0} /\ overtaken' \in BOOLEAN
    BY DEF HandlerType, Goes
  <2>2. todo' \in [Responses -> Seq(Parts)]
    BY <1>1 DEF HandlerType, Goes
  <2>3. wait' \in [Responses -> 0 .. Callback]
    BY Bounds DEF HandlerType, Goes
  <2> QED
    BY <2>1, <2>2, <2>3 DEF HandlerType
<1>3. CASE cur = h /\ cur' = h /\ wait' = wait /\ todo' = [todo EXCEPT ![h] = Tail(@)]
  BY <1>2, <1>3 DEF HandlerType, LocalInv, Busy, Suspended
<1>4. CASE /\ cur = h \/ (cur = 0 /\ Suspended(h))
           /\ cur' = 0 /\ todo' = todo
           /\ \E what \in 1 .. Callback : wait' = [wait EXCEPT ![h] = what]
  <2>1. PICK what \in 1 .. Callback : wait' = [wait EXCEPT ![h] = what]
    BY <1>4
  <2>2. Suspended(h)' /\ \A g \in Responses \ {h} : Suspended(g)' <=> Suspended(g)
    BY <2>1, Bounds DEF Suspended, HandlerType
  <2>3. Busy(h) /\ \A g \in Responses \ {h} : cur # g
    BY <1>4, Bounds DEF Busy
  <2> QED
    BY <1>2, <1>4, <2>2, <2>3, Bounds DEF Goes, LocalInv, Busy
<1>5. CASE /\ cur = 0 /\ Suspended(h)
           /\ cur' = h /\ wait' = [wait EXCEPT ![h] = NoSpeech] /\ todo' = [todo EXCEPT ![h] = Tail(@)]
  <2>1. ~Suspended(h)' /\ \A g \in Responses \ {h} : Suspended(g)' <=> Suspended(g)
    BY <1>5 DEF Suspended, HandlerType
  <2>2. \A g \in Responses \ {h} : todo'[g] = todo[g]
    BY <1>5 DEF HandlerType
  <2> QED
    BY <1>2, <1>5, <2>1, <2>2, Bounds DEF LocalInv, Busy
<1> QED
  BY <1>3, <1>4, <1>5 DEF Goes

\* What a step of handler h does to the handlers.
LEMMA StepGoes ==
  ASSUME HandlerType, SpeechType, NEW h \in Responses, HandlerStep(h), LocalInv
  PROVE  Goes(h) \/ HandlerEnds(h)
<1>1. CASE ToolCall(h) \/ Note(h) \/ AudioPart(h) \/ TurnComplete(h)
  BY <1>1 DEF ToolCall, Note, AudioPart, TurnComplete, NextPart, PartDone, Keep, Goes
<1>2. CASE TextPart(h)
  <2>1. CASE AwaitFor(h, active) /\ todo' = todo /\ MustCancel
    <3>1. active \in 1 .. Callback
      BY <2>1, Bounds DEF MustCancel, Unfinished, Speeches, Callback
    <3> QED
      BY <1>2, <2>1, <3>1 DEF TextPart, NextPart, AwaitFor, Goes
  <2>2. CASE PartDone(h) /\ Keep(h)
    BY <1>2, <2>2 DEF TextPart, NextPart, PartDone, Keep, Goes
  <2> QED
    BY <1>2, <2>1, <2>2 DEF TextPart
<1>3. CASE InterruptedPart(h)
  <2>1. MustCancel => active \in 1 .. Callback
    BY Bounds DEF MustCancel, Unfinished, Speeches, Callback
  <2>2. Callback \in 1 .. Callback
    BY Bounds DEF Callback
  <2> QED
    BY <1>3, <2>1, <2>2 DEF InterruptedPart, NextPart, AwaitFor, Goes
<1>4. CASE TextResumes(h) \/ CallbackEnds(h)
  <2>1. cur = 0 /\ Suspended(h) /\ cur' = h /\ wait' = [wait EXCEPT ![h] = NoSpeech]
        /\ PartDone(h) /\ overtaken' = overtaken
    BY <1>4, Bounds DEF TextResumes, CallbackEnds, Suspended
  <2>2. todo[h] # <<>>
    BY <2>1 DEF LocalInv
  <2> QED
    BY <2>1, <2>2 DEF PartDone, Goes
<1>5. CASE SpeechSilenced(h)
  <2>1. cur = 0 /\ Suspended(h) /\ AwaitFor(h, Callback) /\ todo' = todo
    BY <1>5, Bounds DEF SpeechSilenced, Suspended
  <2>2. todo[h] # <<>> /\ Callback \in 1 .. Callback
    BY <2>1, Bounds DEF LocalInv, Callback
  <2> QED
    BY <2>1, <2>2 DEF AwaitFor, Goes
<1> QED
  BY <1>1, <1>2, <1>3, <1>4, <1>5 DEF HandlerStep

LEMMA LoggedParts ==
  ASSUME BusType, NEW h \in 1 .. Len(log)
  PROVE  h \in Responses /\ log[h] \in Seq(Parts) /\ Len(log[h]) \in Nat
<1>1. Len(log) \in Nat /\ Len(log) <= MaxResponses /\ log \in Seq(Messages)
  BY LenProperties DEF BusType
<1>2. h \in Responses
  BY <1>1, Bounds DEF Responses
<1>3. log[h] \in Messages
  BY <1>1, ElementOfSeq
<1> QED
  BY <1>2, <1>3, MessagesAssumption, LenProperties DEF Parts

LEMMA EndOfItself ==
  ASSUME NEW s \in Seq(Parts)
  PROVE  EndOf(s, s) /\ EndOf(<<>>, s)
<1>1. Len(s) \in Nat /\ Len(<<>>) = 0
  BY LenProperties, EmptySeq
<1>2. \A i \in 1 .. Len(s) : i + (Len(s) - Len(s)) = i
  BY <1>1
<1> QED
  BY <1>1, <1>2 DEF EndOf

LEMMA EndOfNext ==
  ASSUME NEW s \in Seq(Parts), NEW t \in Seq(Parts), EndOf(t, s), t # <<>>
  PROVE  /\ EndOf(Tail(t), s)
         /\ Len(s) - Len(t) + 1 \in 1 .. Len(s) /\ s[Len(s) - Len(t) + 1] = Head(t)
<1>1. /\ Len(s) \in Nat /\ Len(t) \in Nat /\ Len(t) > 0 /\ Len(t) <= Len(s)
      /\ Head(t) = t[1] /\ Tail(t) \in Seq(Parts)
      /\ Len(Tail(t)) = Len(t) - 1 /\ \A i \in 1 .. Len(Tail(t)) : Tail(t)[i] = t[i + 1]
  BY LenProperties, EmptySeq, HeadTailProperties DEF EndOf
<1>2. ASSUME NEW i \in 1 .. Len(t)
      PROVE  t[i] = s[i + (Len(s) - Len(t))]
  BY <1>2 DEF EndOf
<1>3. t[1] = s[Len(s) - Len(t) + 1]
  <2>1. 1 \in 1 .. Len(t) /\ 1 + (Len(s) - Len(t)) = Len(s) - Len(t) + 1
    BY <1>1
  <2> QED
    BY <1>2, <2>1
<1>4. ASSUME NEW i \in 1 .. Len(Tail(t))
      PROVE  Tail(t)[i] = s[i + (Len(s) - Len(Tail(t)))]
  <2>1. i + 1 \in 1 .. Len(t) /\ (i + 1) + (Len(s) - Len(t)) = i + (Len(s) - Len(Tail(t)))
    BY <1>1
  <2> QED
    BY <1>1, <1>2, <2>1
<1> QED
  BY <1>1, <1>3, <1>4 DEF EndOf

LEMMA PlacesAre ==
  ASSUME BusType
  PROVE  /\ \A h, i : <<h, i>> \in Places <=> h \in 1 .. Len(log) /\ i \in 1 .. Len(log[h])
         /\ \A p \in Places : /\ p = <<p[1], p[2]>>
                              /\ p[1] \in 1 .. Len(log) /\ p[2] \in 1 .. Len(log[p[1]])
                              /\ p[1] \in Nat /\ p[2] \in Nat
<1>1. DOMAIN log = 1 .. Len(log) /\ \A h \in 1 .. Len(log) : DOMAIN log[h] = 1 .. Len(log[h])
  BY LoggedParts, LenProperties DEF BusType
<1>2. \A p : p \in Places <=> \E h \in 1 .. Len(log) : p \in {h} \X (1 .. Len(log[h]))
  BY <1>1 DEF Places
<1>3. \A h \in 1 .. Len(log) : h \in Nat /\ \A i \in 1 .. Len(log[h]) : i \in Nat
  OBVIOUS
<1> QED
  BY <1>2, <1>3

\* The part a handler is at is the first of what it has to do.
LEMMA HereIsNext ==
  ASSUME BusType, HandlerType, RestInv, NEW h \in 1 .. Len(log), todo[h] # <<>>
  PROVE  /\ Here(h) \in Places /\ Here(h) \in Responses \X Nat
         /\ Part(Here(h)) = Head(todo[h])
<1> DEFINE k == Len(log[h]) - Len(todo[h]) + 1
<1>1. h \in Responses /\ log[h] \in Seq(Parts) /\ Len(log[h]) \in Nat
  BY LoggedParts
<1>2. todo[h] \in Seq(Parts) /\ EndOf(todo[h], log[h])
  BY <1>1 DEF HandlerType, RestInv
<1>3. /\ Len(log[h]) - Len(todo[h]) + 1 \in 1 .. Len(log[h])
      /\ log[h][Len(log[h]) - Len(todo[h]) + 1] = Head(todo[h])
  BY <1>1, <1>2, EndOfNext
<1>4. Here(h) = <<h, k>> /\ k \in Nat
  BY <1>1, <1>3 DEF Here
<1>5. k \in 1 .. Len(log[h]) /\ log[h][k] = Head(todo[h])
  BY <1>3
<1> HIDE DEF k
<1>6. <<h, k>> \in Places
  BY <1>5, PlacesAre
<1>7. Part(<<h, k>>) = Head(todo[h])
  BY <1>5 DEF Part
<1> QED
  BY <1>1, <1>4, <1>6, <1>7

\* A handler that goes on still has the rest of its response to do.
LEMMA RestKept ==
  ASSUME BusType, HandlerType, RestInv, UNCHANGED log,
         \A h \in Responses : todo'[h] \in {todo[h], Tail(todo[h]), <<>>}
  PROVE  RestInv'
<1> SUFFICES ASSUME NEW h \in 1 .. Len(log)
             PROVE  EndOf(todo'[h], log[h])
  BY DEF RestInv
<1>1. h \in Responses /\ log[h] \in Seq(Parts)
  BY LoggedParts
<1>2. todo[h] \in Seq(Parts) /\ EndOf(todo[h], log[h])
  BY <1>1 DEF HandlerType, RestInv
<1>3. EndOf(<<>>, log[h])
  BY <1>1, EndOfItself
<1>4. Tail(<<>>) = <<>>
  BY DEF Tail
<1> QED
  BY <1>1, <1>2, <1>3, <1>4, EndOfNext

\* What a step of a handler does to the bus: it publishes something at most.
LEMMA StepPublishes ==
  ASSUME BusType, HandlerType, SpeechType, OrderInv, NEW h \in Responses, HandlerStep(h)
  PROVE  /\ UNCHANGED <<bus, log>>
         /\ \/ queue' = queue
            \/ \E e \in Events : e.type # "response" /\ queue' = Append(queue, e)
<1>1. UNCHANGED <<bus, log>>
  BY DEF HandlerStep, HandlerEnds, ToolCall, Note, AudioPart, TurnComplete, TextPart, TextResumes,
         InterruptedPart, SpeechSilenced, CallbackEnds, busVars
<1>2. ASSUME NEW type \in {"chunk", "turn", "interrupted"}, Publish(type, h), Goes(h)
      PROVE  \E e \in Events : e.type # "response" /\ queue' = Append(queue, e)
  <2>1. h \in 1 .. Len(log) /\ todo[h] # <<>>
    BY <1>2, Bounds, LenProperties DEF Goes, OrderInv, Busy, Responses, BusType
  <2>2. Here(h) \in Responses \X Nat
    BY <2>1, HereIsNext DEF OrderInv
  <2>3. [type |-> type, from |-> Here(h)[1], part |-> Here(h)[2]] \in Events
    BY <2>2 DEF Events
  <2> QED
    BY <1>2, <2>3 DEF Publish, Published
<1>3. Goes(h) \/ HandlerEnds(h)
  BY StepGoes DEF OrderInv
<1> QED
  BY <1>1, <1>2, <1>3 DEF HandlerStep, HandlerEnds, ToolCall, Note, AudioPart, TurnComplete, TextPart,
     TextResumes, InterruptedPart, SpeechSilenced, CallbackEnds, busVars

\* The oldest response's handler begins: it has done nothing yet.
LEMMA HandleOrder ==
  ASSUME BusType, HandlerType, OrderInv, Handle
  PROVE  /\ BusType' /\ HandlerType' /\ OrderInv'
         /\ \A g \in Responses : Busy(g)' => g = Head(queue).from \/ (Suspended(g) /\ g < Head(queue).from)
<1> DEFINE h == Head(queue).from
<1>1. /\ queue # <<>> /\ Head(queue).type = "response" /\ queue' = Tail(queue) /\ UNCHANGED <<bus, log, wait>>
      /\ cur = 0 /\ cur' = h /\ todo' = [todo EXCEPT ![h] = log[h]]
      /\ overtaken' = (overtaken \/ \E e \in Responses : e < h /\ Suspended(e))
  BY DEF Handle, Dispatched
<1>2. /\ Head(queue) = queue[1] /\ 1 \in 1 .. Len(queue) /\ queue[1] \in Events
      /\ Tail(queue) \in Seq(Events) /\ queue \in Seq(Events)
  BY <1>1, HeadTailProperties, LenProperties, EmptySeq DEF BusType
<1>3. h \in Responses /\ h <= Len(log) /\ \A g \in BusyHandlers : g < h
  BY <1>1, <1>2 DEF Events, OrderInv, InOrder
<1>4. log[h] \in Seq(Parts)
  <2>1. h \in 1 .. Len(log) /\ log \in Seq(Messages)
    BY <1>3, LenProperties DEF BusType, Responses
  <2>2. log[h] \in Messages
    BY <2>1, ElementOfSeq
  <2> QED
    BY <2>2, MessagesAssumption DEF Parts
<1>5. HandlerType' /\ BusType'
  BY <1>1, <1>2, <1>3, <1>4 DEF HandlerType, BusType
<1>6. \A g \in Responses : (Suspended(g)' <=> Suspended(g)) /\ (Busy(g)' <=> g = h \/ Suspended(g))
  BY <1>1 DEF Suspended, Busy
<1>7. ~Suspended(h)
  <2> HIDE DEF h
  <2>1. h \in Nat /\ ~(h < h)
    BY <1>3 DEF Responses
  <2>2. Suspended(h) => h \in BusyHandlers
    BY <1>3 DEF BusyHandlers, Busy
  <2> QED
    BY <1>3, <2>1, <2>2
<1>8. LocalInv'
  <2>1. \A g \in Responses \ {h} : todo'[g] = todo[g]
    BY <1>1 DEF HandlerType
  <2>2. \A g \in Responses : cur # g
    BY <1>1, Bounds
  <2>3. cur' = h
    BY <1>1
  <2> QED
    BY <1>6, <1>7, <2>1, <2>2, <2>3 DEF OrderInv, LocalInv, Busy
<1>9. \A g \in BusyHandlers' : g \in BusyHandlers \/ (Head(queue).type = "response" /\ g = Head(queue).from)
  BY <1>1, <1>6 DEF BusyHandlers, Busy
<1>10. InOrder(queue', Len(log'), BusyHandlers')
  BY <1>1, <1>2, <1>9, OrderTake DEF OrderInv
<1>11. \A g \in Responses : Busy(g)' => g <= Len(log')
  BY <1>1, <1>3, <1>6 DEF OrderInv, Busy
<1>12. \A g \in Responses : Suspended(g) => g < h
  BY <1>3 DEF BusyHandlers, Busy
<1>13. RestInv'
  <2> SUFFICES ASSUME NEW g \in 1 .. Len(log)
               PROVE  EndOf(todo'[g], log[g])
    BY <1>1 DEF RestInv
  <2>1. g \in Responses /\ log[g] \in Seq(Parts)
    BY LoggedParts
  <2>2. g = h => todo'[g] = log[g]
    BY <1>1, <2>1 DEF HandlerType
  <2>3. g # h => todo'[g] = todo[g]
    BY <1>1, <2>1 DEF HandlerType
  <2> QED
    BY <2>1, <2>2, <2>3, EndOfItself DEF OrderInv, RestInv
<1> QED
  BY <1>5, <1>6, <1>8, <1>10, <1>11, <1>12, <1>13 DEF OrderInv

\* Nobody begins, and the events stay or the oldest goes.
LEMMA QuietOrder ==
  ASSUME BusType, HandlerType, OrderInv, HandlerType', LocalInv', RestInv', UNCHANGED log,
         \A g \in Responses : Busy(g)' => Busy(g),
         bus' \in {"running", "stopping", "closed"},
         queue' = queue \/ (queue # <<>> /\ queue' = Tail(queue))
  PROVE  BusType' /\ OrderInv'
<1>1. BusyHandlers' \subseteq BusyHandlers
  BY DEF BusyHandlers
<1>2. \A g \in Responses : Busy(g)' => g <= Len(log')
  BY DEF OrderInv
<1>3. CASE queue' = queue
  <2>1. InOrder(queue', Len(log'), BusyHandlers')
    BY <1>1, <1>3 DEF OrderInv, InOrder
  <2> QED
    BY <1>2, <1>3, <2>1 DEF OrderInv, BusType
<1>4. CASE queue # <<>> /\ queue' = Tail(queue)
  <2>1. Tail(queue) \in Seq(Events) /\ queue \in Seq(Events)
    BY <1>4, HeadTailProperties DEF BusType
  <2>2. InOrder(queue', Len(log'), BusyHandlers')
    BY <1>1, <1>4, <2>1, OrderTake DEF OrderInv
  <2> QED
    BY <1>2, <1>4, <2>1, <2>2 DEF OrderInv, BusType
<1> QED
  BY <1>3, <1>4

LEMMA OrderStep ==
  ASSUME BusType, HandlerType, SpeechType, OrderInv, [Next]_vars
  PROVE  BusType' /\ HandlerType' /\ OrderInv'
<1>1. ASSUME NEW m \in Messages, Receive(m)
      PROVE  BusType' /\ HandlerType' /\ OrderInv'
  <2>1. /\ UNCHANGED <<bus, cur, todo, wait, overtaken>> /\ Len(log) < MaxResponses
        /\ log' = Append(log, m)
        /\ queue' = Append(queue, [type |-> "response", from |-> Len(log) + 1, part |-> 0])
    BY <1>1 DEF Receive, Published, handlerVars
  <2>2. /\ Len(log) \in Nat /\ log' \in Seq(Messages) /\ Len(log') = Len(log) + 1
    BY <2>1, LenProperties, AppendProperties DEF BusType
  <2>3. Len(log) + 1 \in Responses
    BY <2>1, <2>2, Bounds DEF Responses
  <2>4. BusType'
    <3>1. [type |-> "response", from |-> Len(log) + 1, part |-> 0] \in Events
      BY <2>3 DEF Events
    <3>2. queue' \in Seq(Events)
      BY <2>1, <3>1, AppendProperties DEF BusType
    <3>3. Len(log') <= MaxResponses
      BY <2>1, <2>2, Bounds
    <3> QED
      BY <2>1, <2>2, <3>2, <3>3 DEF BusType
  <2>5. HandlerType' /\ LocalInv' /\ BusyHandlers' = BusyHandlers /\ \A g \in Responses : Busy(g)' <=> Busy(g)
    BY <2>1 DEF HandlerType, OrderInv, LocalInv, BusyHandlers, Busy, Suspended
  <2>6. InOrder(queue', Len(log'), BusyHandlers')
    <3>1. \A g \in BusyHandlers : g \in Nat /\ g <= Len(log)
      BY Bounds DEF OrderInv, BusyHandlers
    <3> QED
      BY <2>1, <2>2, <2>3, <2>5, <3>1, OrderReceive DEF OrderInv, BusType
  <2>7. \A g \in Responses : Busy(g)' => g <= Len(log')
    BY <2>2, <2>5, Bounds DEF OrderInv
  <2>8. RestInv'
    <3> SUFFICES ASSUME NEW g \in 1 .. Len(log')
                 PROVE  EndOf(todo[g], log'[g])
      BY <2>1 DEF RestInv
    <3>1. CASE g \in 1 .. Len(log)
      <4>1. log'[g] = log[g]
        BY <2>1, <3>1, AppendProperties DEF BusType
      <4> QED
        BY <3>1, <4>1 DEF OrderInv, RestInv
    <3>2. CASE g = Len(log) + 1
      <4>1. todo[g] = <<>>
        BY <2>2, <2>3, <3>2 DEF OrderInv, LocalInv
      <4>2. log'[g] \in Seq(Parts)
        BY <2>2, ElementOfSeq, MessagesAssumption DEF Parts
      <4> QED
        BY <4>1, <4>2, EndOfItself
    <3> QED
      BY <2>2, <3>1, <3>2
  <2> QED
    BY <2>4, <2>5, <2>6, <2>7, <2>8 DEF OrderInv
<1>2. ASSUME NEW h \in Responses, HandlerStep(h)
      PROVE  BusType' /\ HandlerType' /\ OrderInv'
  <2>1. CASE Goes(h)
    <3>1. HandlerType' /\ LocalInv' /\ \A g \in Responses : Busy(g)' <=> Busy(g)
      BY <2>1, GoesKept DEF OrderInv
    <3>2. UNCHANGED <<bus, log>>
      BY <1>2, StepPublishes
    <3>5. RestInv'
      BY <2>1, <3>2, RestKept DEF OrderInv, HandlerType, Goes
    <3>3. CASE queue' = queue
      BY <3>1, <3>2, <3>3, <3>5, QuietOrder DEF BusType
    <3>4. ASSUME NEW e \in Events, e.type # "response", queue' = Append(queue, e)
          PROVE  BusType' /\ OrderInv'
      <4>1. queue' \in Seq(Events) /\ queue \in Seq(Events)
        BY <3>4, AppendProperties DEF BusType
      <4>2. BusyHandlers' \in SUBSET BusyHandlers
        BY <3>1 DEF BusyHandlers
      <4>3. InOrder(queue', Len(log'), BusyHandlers')
        BY <3>2, <3>4, <4>1, <4>2, OrderPublish DEF OrderInv
      <4> QED
        BY <3>1, <3>2, <3>5, <4>1, <4>3 DEF OrderInv, BusType
    <3> QED
      BY <1>2, <3>1, <3>3, <3>4, StepPublishes
  <2>2. CASE HandlerEnds(h)
    <3>1. cur = h /\ todo[h] = <<>> /\ cur' = 0 /\ UNCHANGED <<todo, wait, overtaken, bus, queue, log>>
      BY <2>2 DEF HandlerEnds, busVars
    <3>2. HandlerType' /\ \A g \in Responses : Suspended(g)' <=> Suspended(g)
      BY <3>1 DEF HandlerType, Suspended
    <3>3. LocalInv' /\ \A g \in Responses : Busy(g)' => Busy(g)
      BY <3>1, <3>2, Bounds DEF OrderInv, LocalInv, Busy
    <3>4. RestInv'
      BY <3>1 DEF OrderInv, RestInv
    <3> QED
      BY <3>1, <3>2, <3>3, <3>4, QuietOrder DEF BusType
  <2> QED
    BY <1>2, <2>1, <2>2, StepGoes DEF OrderInv
<1>3. CASE CancelHandlers
  <2>1. /\ todo' = [h \in Responses |-> IF wait[h] = Callback THEN <<>> ELSE todo[h]]
        /\ wait' = [h \in Responses |-> IF wait[h] = Callback THEN NoSpeech ELSE wait[h]]
        /\ UNCHANGED <<queue, log, cur, overtaken>> /\ bus' = "closed" /\ cur = 0
    BY <1>3 DEF CancelHandlers
  <2>2. HandlerType'
    <3>1. <<>> \in Seq(Parts)
      BY EmptySeq
    <3> QED
      BY <2>1, <3>1, Bounds DEF HandlerType
  <2>3. LocalInv' /\ \A g \in Responses : Busy(g)' => Busy(g)
    BY <2>1, Bounds DEF HandlerType, OrderInv, LocalInv, Busy, Suspended
  <2>4. RestInv'
    BY <2>1, RestKept DEF OrderInv
  <2> QED
    BY <2>1, <2>2, <2>3, <2>4, QuietOrder
<1>4. CASE Handle
  BY <1>4, HandleOrder
<1>5. ASSUME UNCHANGED <<log, cur, todo, wait, overtaken>>, bus' \in {"running", "stopping", "closed"},
             queue' = queue \/ (queue # <<>> /\ queue' = Tail(queue))
      PROVE  BusType' /\ HandlerType' /\ OrderInv'
  <2>1. HandlerType' /\ LocalInv' /\ \A g \in Responses : Busy(g)' => Busy(g)
    BY <1>5 DEF HandlerType, OrderInv, LocalInv, Busy, Suspended
  <2>2. RestInv'
    BY <1>5 DEF OrderInv, RestInv
  <2> QED
    BY <1>5, <2>1, <2>2, QuietOrder
<1>6. CASE AudioChunk \/ AudioTurn \/ AudioInterrupted
  BY <1>5, <1>6 DEF AudioChunk, AudioTurn, AudioInterrupted, Dispatched, handlerVars, BusType
<1>7. CASE \/ StopLoop \/ UNCHANGED vars
           \/ \E s \in Speeches : Speak(s) \/ SpeechEnds(s) \/ SpeechNeverRan(s)
           \/ \E batch \in encoding : Encoded(batch)
  BY <1>5, <1>7 DEF StopLoop, Speak, SpeechEnds, SpeechNeverRan, Encoded, vars, busVars, handlerVars, BusType
<1> QED
  BY <1>1, <1>2, <1>3, <1>4, <1>6, <1>7 DEF Next, BusStep

-------------------------------------------------------------------------------
(* The speeches.                                                             *)

\* What a step does to the speeches and their counter.
Stays == UNCHANGED <<speech, count, speaking>>

Cancels == speech' = Cancelled(active) /\ UNCHANGED <<count, speaking>>

Ends(s) == SpeechEnds(s) \/ SpeechNeverRan(s)

\* A handler's step at the speeches.
LEMMA CountedHandler ==
  ASSUME NEW h \in Responses, HandlerStep(h)
  PROVE  \/ Stays /\ (active' = active \/ active' = NoSpeech)
         \/ Cancels /\ active' = active
         \/ Launch
<1>1. CASE HandlerEnds(h) \/ ToolCall(h) \/ Note(h) \/ AudioPart(h) \/ TurnComplete(h) \/ CallbackEnds(h)
  BY <1>1 DEF HandlerEnds, ToolCall, Note, AudioPart, TurnComplete, CallbackEnds, speechVars, Stays
<1>2. CASE TextPart(h) \/ TextResumes(h)
  BY <1>2 DEF TextPart, TextResumes, Cancels
<1>3. CASE InterruptedPart(h) \/ SpeechSilenced(h)
  BY <1>3 DEF InterruptedPart, SpeechSilenced, Cancels, Stays
<1> QED
  BY <1>1, <1>2, <1>3 DEF HandlerStep

LEMMA CountedStep ==
  ASSUME [Next]_vars
  PROVE  \/ Stays /\ (active' = active \/ active' = NoSpeech)
         \/ Cancels /\ active' = active
         \/ Launch
         \/ \E s \in Speeches : Speak(s) \/ Ends(s)
<1>1. CASE \/ \E m \in Messages : Receive(m)
           \/ BusStep \/ StopLoop \/ CancelHandlers \/ \E batch \in encoding : Encoded(batch)
  <2>1. UNCHANGED speechVars
    BY <1>1 DEF Receive, BusStep, Handle, AudioChunk, AudioTurn, AudioInterrupted, StopLoop, CancelHandlers,
                Encoded
  <2> QED
    BY <2>1 DEF speechVars, Stays
<1>2. CASE \E s \in Speeches : Speak(s) \/ SpeechEnds(s) \/ SpeechNeverRan(s)
  BY <1>2 DEF Ends
<1>3. ASSUME NEW h \in Responses, HandlerStep(h)
      PROVE  (Stays /\ (active' = active \/ active' = NoSpeech)) \/ (Cancels /\ active' = active) \/ Launch
  BY <1>3, CountedHandler
<1>4. CASE Next
  BY <1>1, <1>2, <1>3, <1>4 DEF Next
<1>5. CASE UNCHANGED vars
  BY <1>5 DEF vars, speechVars, Stays
<1> QED
  BY <1>4, <1>5

LEMMA SpeechSets ==
  ASSUME SpeechType
  PROVE  /\ IsFiniteSet(Unfinished) /\ Cardinality(Unfinished) \in Nat
         /\ Unfinished \subseteq Started /\ Started \subseteq Speeches
<1>1. IsFiniteSet(Speeches) /\ Unfinished \in SUBSET Speeches
  BY Bounds, FS_Interval DEF Speeches, Unfinished
<1>2. IsFiniteSet(Unfinished)
  BY <1>1, FS_Subset
<1> QED
  BY <1>2, FS_CardinalityType DEF Unfinished, Started

LEMMA LaunchCounts ==
  ASSUME SpeechType, CountInv, Launch
  PROVE  /\ SpeechType' /\ CountInv'
         /\ active' \in Speeches /\ Unfinished' = Unfinished \cup {active'}
<1>1. PICK k \in 0 .. MaxSpeeches : Started = 1 .. k /\ count <= k
  BY DEF CountInv
<1>2. Cardinality(Started) = k /\ k \in Nat
  BY <1>1, Bounds, FS_Interval
<1>3. /\ k + 1 \in Speeches /\ speech' = [speech EXCEPT ![k + 1] = "created"]
      /\ active' = k + 1 /\ count' = count + 1 /\ speaking' = TRUE
  BY <1>2 DEF Launch, Started
<1>4. k + 1 \notin Started
  BY <1>1, <1>2
<1>5. speech[k + 1] = "none" /\ k + 1 \notin Unfinished
  BY <1>3, <1>4 DEF Started, Unfinished
<1>6. Unfinished' = Unfinished \cup {k + 1}
  BY <1>3, <1>5 DEF SpeechType, Unfinished
<1>7. Started' = 1 .. (k + 1)
  <2>1. Started' = Started \cup {k + 1}
    BY <1>3, <1>5 DEF SpeechType, Started
  <2> QED
    BY <1>1, <1>2, <2>1
<1>8. SpeechType'
  BY <1>3, Bounds DEF SpeechType, SpeechStates
<1>9. Cardinality(Unfinished') = Cardinality(Unfinished) + 1 /\ Cardinality(Unfinished) \in Nat
  BY <1>5, <1>6, SpeechSets, FS_AddElement
<1>10. k + 1 \in 0 .. MaxSpeeches
  BY <1>3, Bounds
<1>11. count' \in Nat /\ count' <= k + 1 /\ Cardinality(Unfinished') <= count' /\ count' > 0
  BY <1>1, <1>2, <1>3, <1>9 DEF CountInv
<1>12. speaking' = (count' > 0)
  BY <1>3, <1>11
<1> QED
  BY <1>3, <1>6, <1>7, <1>8, <1>10, <1>11, <1>12 DEF CountInv

LEMMA CountStep ==
  ASSUME SpeechType, CountInv, [Next]_vars
  PROVE  SpeechType' /\ CountInv'
<1>1. CASE Stays /\ (active' = active \/ active' = NoSpeech)
  <2>1. SpeechType'
    BY <1>1, Bounds DEF Stays, SpeechType
  <2>2. Started' = Started /\ Unfinished' = Unfinished
    BY <1>1 DEF Stays, Started, Unfinished
  <2> QED
    BY <1>1, <2>1, <2>2 DEF Stays, CountInv
<1>2. ASSUME UNCHANGED <<active, count, speaking>>, NEW s \in 0 .. MaxSpeeches,
             speech' = Cancelled(s) \/ (speech[s] = "created" /\ speech' = [speech EXCEPT ![s] = "running"])
      PROVE  SpeechType' /\ CountInv'
  <2>1. SpeechType'
    BY <1>2 DEF SpeechType, SpeechStates, Cancelled
  <2>2. Started' = Started /\ Unfinished' = Unfinished
    BY <1>2 DEF SpeechType, SpeechStates, Cancelled, Started, Unfinished
  <2> QED
    BY <1>2, <2>1, <2>2 DEF CountInv
<1>3. ASSUME NEW s \in Speeches, Ends(s)
      PROVE  SpeechType' /\ CountInv'
  <2>1. speech' = [speech EXCEPT ![s] = "done"] /\ active' = active /\ speech[s] \notin {"none", "done"}
    BY <1>3 DEF Ends, SpeechEnds, SpeechNeverRan
  <2>2. SpeechType'
    BY <2>1 DEF SpeechType, SpeechStates
  <2>3. Started' = Started /\ Unfinished' = Unfinished \ {s} /\ s \in Unfinished
    BY <2>1 DEF SpeechType, SpeechStates, Started, Unfinished
  <2>4. /\ Cardinality(Unfinished') = Cardinality(Unfinished) - 1
        /\ Cardinality(Unfinished) \in Nat /\ Cardinality(Unfinished) # 0
    BY <2>3, SpeechSets, FS_RemoveElement, FS_EmptySet
  <2>5. count \in Nat /\ count > 0 /\ Cardinality(Unfinished) <= count
    BY <2>4 DEF CountInv
  <2>8. speaking = TRUE
    BY <2>5 DEF CountInv
  <2>9. PICK k \in 0 .. MaxSpeeches : Started = 1 .. k /\ count <= k
    BY DEF CountInv
  <2>6. CASE SpeechEnds(s)
    <3>1. count' = count - 1 /\ speaking' = (speaking /\ ~(count <= 1))
      BY <2>5, <2>6 DEF SpeechEnds, LastSpeech
    <3>2. count' \in Nat /\ count' <= k /\ Cardinality(Unfinished') <= count'
      BY <2>4, <2>5, <2>9, <3>1
    <3>3. count' > 0 <=> ~(count <= 1)
      BY <2>5, <3>1
    <3>4. speaking' = (count' > 0)
      BY <2>8, <3>1, <3>3
    <3> QED
      BY <2>2, <2>3, <2>9, <3>2, <3>4 DEF CountInv
  <2>7. CASE SpeechNeverRan(s)
    <3>1. UNCHANGED <<count, speaking>>
      BY <2>7 DEF SpeechNeverRan
    <3>2. Cardinality(Unfinished') <= count'
      BY <2>4, <2>5, <3>1
    <3> QED
      BY <2>2, <2>3, <2>5, <2>9, <3>1, <3>2 DEF CountInv
  <2> QED
    BY <1>3, <2>6, <2>7 DEF Ends
<1>4. CASE Cancels /\ active' = active
  BY <1>2, <1>4 DEF Cancels, SpeechType
<1>5. ASSUME NEW s \in Speeches, Speak(s)
      PROVE  SpeechType' /\ CountInv'
  BY <1>2, <1>5, Bounds DEF Speak
<1> QED
  BY <1>1, <1>3, <1>4, <1>5, CountedStep, LaunchCounts

-------------------------------------------------------------------------------
(* One voice.                                                                *)

\* Cancelling a speech leaves it under way.
LEMMA CancelKeeps ==
  ASSUME SpeechType, speech' = Cancelled(active)
  PROVE  Unfinished' = Unfinished
BY DEF SpeechType, SpeechStates, Cancelled, Unfinished

OneBusy == \A g, h \in Responses : Busy(g) /\ Busy(h) => g = h
WaitsForActive == \A h \in Responses : wait[h] \in Speeches => wait[h] = active
OneSpeech == Unfinished \subseteq {active}

\* What a handler that is the only one under way does to the speech it may wait for.
LEMMA VoiceOfHandler ==
  ASSUME Types, LocalInv, SpeechType', CountInv, OneBusy, WaitsForActive, OneSpeech,
         NEW h \in Responses, HandlerStep(h)
  PROVE  WaitsForActive' /\ OneSpeech'
<1>1. Busy(h)
  <2>1. CASE HandlerEnds(h)
    BY <2>1 DEF HandlerEnds, Busy
  <2>2. CASE Goes(h)
    BY <2>2 DEF Goes, Busy
  <2> QED
    BY <2>1, <2>2, StepGoes DEF Types
<1>2. \A g \in Responses \ {h} : wait[g] = NoSpeech
  BY <1>1 DEF OneBusy, Busy, Suspended
<1>3. cur = h => wait[h] = NoSpeech
  BY DEF LocalInv, Suspended
<1>4. ASSUME NEW what, wait' = [wait EXCEPT ![h] = what], what \in Speeches => what = active'
      PROVE  WaitsForActive'
  BY <1>2, <1>4, Bounds DEF WaitsForActive, Types, HandlerType
<1>5. ASSUME UNCHANGED <<speech, active>>
      PROVE  OneSpeech'
  BY <1>5 DEF OneSpeech, Unfinished
<1>6. ASSUME Launch, Unfinished = {}
      PROVE  OneSpeech'
  BY <1>6, LaunchCounts DEF OneSpeech, Types
<1>7. ASSUME wait[h] \in Speeches, speech[wait[h]] = "done"
      PROVE  Unfinished = {}
  BY <1>7 DEF WaitsForActive, OneSpeech, Unfinished
<1>8. ~MustCancel => Unfinished = {}
  BY DEF MustCancel, OneSpeech
<1>9. ASSUME cur = h, wait' = wait
      PROVE  WaitsForActive'
  BY <1>2, <1>3, <1>9, Bounds DEF WaitsForActive
<1>10. CASE HandlerEnds(h) \/ ToolCall(h) \/ Note(h) \/ AudioPart(h) \/ TurnComplete(h)
  <2>1. cur = h /\ UNCHANGED <<wait, speech, active>>
    BY <1>10 DEF HandlerEnds, ToolCall, Note, AudioPart, TurnComplete, NextPart, Keep, speechVars
  <2> QED
    BY <1>5, <1>9, <2>1
<1>11. CASE TextPart(h)
  <2>1. CASE MustCancel /\ speech' = Cancelled(active) /\ AwaitFor(h, active) /\ active' = active
    <3>1. OneSpeech'
      BY <2>1, CancelKeeps DEF Types, OneSpeech
    <3> QED
      BY <1>4, <2>1, <3>1 DEF AwaitFor
  <2>2. CASE ~MustCancel /\ Launch /\ Keep(h)
    BY <1>6, <1>8, <1>9, <1>11, <2>2 DEF TextPart, NextPart, Keep
  <2> QED
    BY <1>11, <2>1, <2>2 DEF TextPart
<1>12. CASE TextResumes(h)
  <2>1. Launch /\ wait' = [wait EXCEPT ![h] = NoSpeech] /\ Unfinished = {}
    BY <1>7, <1>12 DEF TextResumes
  <2> QED
    BY <1>4, <1>6, <2>1, Bounds
<1>13. CASE InterruptedPart(h)
  <2>1. CASE MustCancel /\ speech' = Cancelled(active) /\ AwaitFor(h, active) /\ active' = active
    <3>1. OneSpeech'
      BY <2>1, CancelKeeps DEF Types, OneSpeech
    <3> QED
      BY <1>4, <2>1, <3>1 DEF AwaitFor
  <2>2. CASE ~MustCancel /\ AwaitFor(h, Callback) /\ speech' = speech
    <3>1. OneSpeech'
      BY <1>8, <2>2 DEF OneSpeech, Unfinished
    <3> QED
      BY <1>4, <2>2, <3>1, Bounds DEF AwaitFor
  <2> QED
    BY <1>13, <2>1, <2>2 DEF InterruptedPart
<1>14. CASE SpeechSilenced(h)
  <2>1. AwaitFor(h, Callback) /\ speech' = speech /\ Unfinished = {}
    BY <1>7, <1>14 DEF SpeechSilenced
  <2>2. OneSpeech'
    BY <2>1 DEF OneSpeech, Unfinished
  <2> QED
    BY <1>4, <2>1, <2>2, Bounds DEF AwaitFor
<1>15. CASE CallbackEnds(h)
  <2>1. wait' = [wait EXCEPT ![h] = NoSpeech] /\ UNCHANGED <<speech, active>>
    BY <1>15 DEF CallbackEnds, speechVars
  <2> QED
    BY <1>4, <1>5, <2>1, Bounds
<1> QED
  BY <1>10, <1>11, <1>12, <1>13, <1>14, <1>15 DEF HandlerStep

LEMMA VoiceStep ==
  ASSUME IInv, SpeechType', [Next]_vars
  PROVE  VoiceInv'
<1> SUFFICES ASSUME ~overtaken'
             PROVE  OneBusy' /\ WaitsForActive' /\ OneSpeech'
  BY DEF VoiceInv, OneBusy, WaitsForActive, OneSpeech
<1>1. ~overtaken
  BY DEF Next, Receive, BusStep, Handle, AudioChunk, AudioTurn, AudioInterrupted, StopLoop, CancelHandlers,
         HandlerStep, HandlerEnds, ToolCall, Note, AudioPart, TurnComplete, TextPart, TextResumes, Keep, AwaitFor,
         InterruptedPart, SpeechSilenced, CallbackEnds, Speak, SpeechEnds, SpeechNeverRan, Encoded, vars, handlerVars
<1>2. OneBusy /\ WaitsForActive /\ OneSpeech
  BY <1>1 DEF IInv, VoiceInv, OneBusy, WaitsForActive, OneSpeech
<1>3. ASSUME \A g \in Responses : Busy(g)' => Busy(g)
      PROVE  OneBusy'
  BY <1>2, <1>3 DEF OneBusy
<1>4. ASSUME UNCHANGED <<cur, wait>>
      PROVE  \A g \in Responses : Busy(g)' => Busy(g)
  BY <1>4 DEF Busy, Suspended
<1>5. ASSUME UNCHANGED <<wait, active>>
      PROVE  WaitsForActive'
  BY <1>2, <1>5 DEF WaitsForActive
<1>6. ASSUME UNCHANGED <<speech, active>>
      PROVE  OneSpeech'
  BY <1>2, <1>6 DEF OneSpeech, Unfinished
<1>7. CASE \/ \E m \in Messages : Receive(m)
           \/ AudioChunk \/ AudioTurn \/ AudioInterrupted \/ StopLoop
           \/ \E batch \in encoding : Encoded(batch)
           \/ UNCHANGED vars
  <2>1. UNCHANGED <<cur, wait, speech, active>>
    BY <1>7 DEF Receive, AudioChunk, AudioTurn, AudioInterrupted, StopLoop, Encoded, vars, handlerVars, speechVars
  <2> QED
    BY <1>3, <1>4, <1>5, <1>6, <2>1
<1>8. CASE Handle
  <2>1. UNCHANGED <<wait, speech, active>>
    BY <1>8 DEF Handle, speechVars
  <2>2. \A g \in Responses : Busy(g)' => g = Head(queue).from
    <3>1. \A g \in Responses : Suspended(g) => ~(g < Head(queue).from)
      BY <1>8 DEF Handle
    <3> QED
      BY <1>8, <3>1, HandleOrder DEF IInv, Types
  <2>3. OneBusy'
    BY <2>2 DEF OneBusy
  <2> QED
    BY <1>5, <1>6, <2>1, <2>3
<1>9. CASE CancelHandlers
  <2>1. /\ wait' = [h \in Responses |-> IF wait[h] = Callback THEN NoSpeech ELSE wait[h]]
        /\ UNCHANGED <<cur, speech, active>>
    BY <1>9 DEF CancelHandlers, speechVars
  <2>2. \A g \in Responses : Busy(g)' => Busy(g)
    BY <2>1 DEF Busy, Suspended
  <2>3. WaitsForActive'
    BY <1>2, <2>1, Bounds DEF WaitsForActive
  <2> QED
    BY <1>3, <1>6, <2>1, <2>2, <2>3
<1>10. ASSUME NEW s \in Speeches, Speak(s) \/ SpeechEnds(s) \/ SpeechNeverRan(s)
       PROVE  OneBusy' /\ WaitsForActive' /\ OneSpeech'
  <2>1. /\ UNCHANGED <<cur, wait, active>> /\ s \in Unfinished
        /\ \E state \in {"running", "done"} : speech' = [speech EXCEPT ![s] = state]
    BY <1>10 DEF Speak, SpeechEnds, SpeechNeverRan, handlerVars, Unfinished
  <2>2. Unfinished' \subseteq Unfinished
    BY <2>1 DEF Unfinished, IInv, Types, SpeechType
  <2>3. OneSpeech'
    BY <1>2, <2>1, <2>2 DEF OneSpeech
  <2> QED
    BY <1>3, <1>4, <1>5, <2>1, <2>3
<1>11. ASSUME NEW h \in Responses, HandlerStep(h)
       PROVE  OneBusy' /\ WaitsForActive' /\ OneSpeech'
  <2>1. WaitsForActive' /\ OneSpeech'
    BY <1>2, <1>11, VoiceOfHandler DEF IInv, OrderInv
  <2>2. CASE Goes(h)
    <3>1. \A g \in Responses : Busy(g)' <=> Busy(g)
      BY <2>2, GoesKept DEF IInv, Types, OrderInv
    <3> QED
      BY <1>3, <2>1, <3>1
  <2>3. CASE HandlerEnds(h)
    <3>1. cur' = 0 /\ wait' = wait
      BY <2>3 DEF HandlerEnds
    <3>2. \A g \in Responses : Busy(g)' => Busy(g)
      BY <3>1, Bounds DEF Busy, Suspended
    <3> QED
      BY <1>3, <2>1, <3>2
  <2> QED
    BY <1>11, <2>2, <2>3, StepGoes DEF IInv, Types, OrderInv
<1>12. CASE Next
  BY <1>7, <1>8, <1>9, <1>10, <1>11, <1>12 DEF Next, BusStep
<1> QED
  BY <1>7, <1>12

-------------------------------------------------------------------------------
(* The theorems.                                                             *)

LEMMA RestStep ==
  ASSUME Types, OrderInv, [Next]_vars
  PROVE  RestType'
<1>1. CASE UNCHANGED <<turnVars, audioVars>>
  BY <1>1 DEF Types, RestType, turnVars, audioVars
<1>2. ASSUME NEW h \in Responses, HandlerStep(h)
      PROVE  RestType'
  <2>1. CASE ToolCall(h)
    BY <2>1 DEF ToolCall, audioVars, Types, RestType
  <2>2. CASE TurnComplete(h)
    <3>1. [at |-> Here(h), tool |-> toolTurn] \in [at : Responses \X Nat, tool : BOOLEAN]
      <4>1. h \in 1 .. Len(log) /\ todo[h] # <<>>
        BY <2>2, Bounds, LenProperties DEF TurnComplete, NextPart, OrderInv, Busy, Types, BusType, Responses
      <4> QED
        BY <4>1, HereIsNext DEF Types, RestType, OrderInv
    <3>2. reports' \in Seq([at : Responses \X Nat, tool : BOOLEAN])
      BY <2>2, <3>1, AppendProperties DEF TurnComplete, Types, RestType
    <3> QED
      BY <2>2, <3>2 DEF TurnComplete, audioVars, Types, RestType
  <2>3. CASE \/ HandlerEnds(h) \/ Note(h) \/ AudioPart(h) \/ TextPart(h) \/ TextResumes(h) \/ InterruptedPart(h)
             \/ SpeechSilenced(h) \/ CallbackEnds(h)
    BY <1>1, <2>3 DEF HandlerEnds, Note, AudioPart, TextPart, TextResumes, InterruptedPart, SpeechSilenced,
                      CallbackEnds
  <2> QED
    BY <1>2, <2>1, <2>2, <2>3 DEF HandlerStep
<1>3. CASE BusStep
  <2>1. CASE Handle
    BY <1>1, <2>1 DEF Handle
  <2>2. CASE AudioChunk
    <3>1. Head(queue) \in Events
      BY <2>2, HeadTailProperties DEF AudioChunk, Dispatched, Types, BusType
    <3> QED
      BY <2>2, <3>1 DEF AudioChunk, turnVars, Types, RestType, Events
  <2>3. CASE AudioTurn \/ AudioInterrupted
    BY <2>3 DEF AudioTurn, AudioInterrupted, BufferTaken, turnVars, Types, RestType
  <2> QED
    BY <1>3, <2>1, <2>2, <2>3 DEF BusStep
<1>4. CASE CancelHandlers
  BY <1>4 DEF CancelHandlers, turnVars, Types, RestType
<1>5. ASSUME NEW batch \in encoding, Encoded(batch)
      PROVE  RestType'
  BY <1>5 DEF Encoded, turnVars, Types, RestType
<1>6. CASE StopLoop \/ \E m \in Messages : Receive(m)
  BY <1>1, <1>6 DEF StopLoop, Receive
<1>7. ASSUME NEW s \in Speeches, Speak(s) \/ SpeechEnds(s) \/ SpeechNeverRan(s)
      PROVE  RestType'
  BY <1>1, <1>7 DEF Speak, SpeechEnds, SpeechNeverRan
<1>8. CASE Next
  BY <1>2, <1>3, <1>4, <1>5, <1>6, <1>7, <1>8 DEF Next
<1>9. CASE UNCHANGED vars
  BY <1>1, <1>9 DEF vars
<1> QED
  BY <1>8, <1>9

LEMMA InitInv == Init => IInv
<1> SUFFICES ASSUME Init
             PROVE  IInv
  OBVIOUS
<1>1. Types
  <2>1. BusType
    BY Bounds, EmptySeq DEF Init, BusType
  <2>2. HandlerType
    BY Bounds, EmptySeq DEF Init, HandlerType
  <2>3. SpeechType
    BY Bounds DEF Init, SpeechType, SpeechStates, NoSpeech
  <2>4. RestType
    BY EmptySeq DEF Init, RestType
  <2> QED
    BY <2>1, <2>2, <2>3, <2>4 DEF Types
<1>2. \A h \in Responses : ~Busy(h) /\ todo[h] = <<>> /\ wait[h] = NoSpeech
  BY Bounds DEF Init, Busy, Suspended
<1>3. OrderInv
  <2>1. InOrder(queue, Len(log), BusyHandlers)
    <3>1. Len(queue) = 0
      BY EmptySeq DEF Init
    <3> QED
      BY <3>1 DEF InOrder
  <2>2. RestInv
    BY EmptySeq DEF Init, RestInv
  <2> QED
    BY <1>2, <2>1, <2>2 DEF OrderInv, LocalInv, Suspended
<1>4. Started = {} /\ Unfinished = {}
  BY DEF Init, Started, Unfinished
<1>5. CountInv
  <2>1. Started = 1 .. 0 /\ 0 \in 0 .. MaxSpeeches /\ count = 0 /\ speaking = FALSE
    BY <1>4, Bounds DEF Init
  <2>2. Cardinality(Unfinished) = 0
    BY <1>4, FS_EmptySet
  <2>3. speaking = (count > 0)
    <3>1. (count > 0) = FALSE
      BY <2>1
    <3> QED
      BY <2>1, <3>1
  <2> QED
    BY <2>1, <2>2, <2>3 DEF CountInv
<1>6. VoiceInv
  <2>1. \A h \in Responses : wait[h] \notin Speeches
    BY <1>2, Bounds
  <2> QED
    BY <1>2, <1>4, <2>1 DEF VoiceInv
<1> QED
  BY <1>1, <1>3, <1>5, <1>6 DEF IInv

LEMMA StepInv == IInv /\ [Next]_vars => IInv'
<1> SUFFICES ASSUME IInv, [Next]_vars
             PROVE  IInv'
  OBVIOUS
<1>1. BusType' /\ HandlerType' /\ OrderInv'
  BY OrderStep DEF IInv, Types
<1>2. SpeechType' /\ CountInv'
  BY CountStep DEF IInv, Types
<1>3. RestType'
  BY RestStep DEF IInv
<1>4. VoiceInv'
  BY <1>2, VoiceStep
<1> QED
  BY <1>1, <1>2, <1>3, <1>4 DEF IInv, Types

LEMMA InvHolds == Spec => []IInv
BY InitInv, StepInv, PTL DEF Spec

\* Whatever speeches are created, cancelled before or after they run and finished, by handlers
\* in any order: while one is under way the counter covers it and the event speaking is
\* set (_start_tts_task and _run_tts_background in core/decision_making.py), and the
\* variables keep their types.
THEOREM SpeechFlagged == Spec => []SpeechIsFlagged
<1>1. IInv => SpeechIsFlagged
  <2> SUFFICES ASSUME IInv
               PROVE  SpeechIsFlagged
    OBVIOUS
  <2>1. count \in 0 .. MaxSpeeches
    BY Bounds DEF IInv, CountInv
  <2>2. speaking = (count > 0) /\ speaking \in BOOLEAN /\ Cardinality(Unfinished) <= count
    BY DEF IInv, CountInv
  <2>3. \A h \in Responses : Suspended(h) => cur # h /\ todo[h] # <<>>
    BY DEF IInv, OrderInv, LocalInv
  <2>4. TypeOK
    BY <2>1, <2>2, <2>3 DEF IInv, Types, BusType, HandlerType, SpeechType, RestType, TypeOK, Events, Parts,
       SpeechStates
  <2> QED
    BY <2>2, <2>4 DEF SpeechIsFlagged
<1> QED
  BY <1>1, InvHolds, PTL

\* The speech an interruption cancels is the only one under way, as long as no response was
\* handled while an earlier one awaited something (_handle_response, _cancel_active_tts and
\* _start_tts_task in core/decision_making.py).
THEOREM SpeechIsOne == Spec => []OneVoice
<1>1. IInv => OneVoice
  BY DEF IInv, VoiceInv, OneVoice
<1> QED
  BY <1>1, InvHolds, PTL

-------------------------------------------------------------------------------
(* Turns: which part an event is about, and what is done.                    *)

At(e) == <<e.from, e.part>>

\* The parts, or responses, that the events of a kind in the queue q are about.
Of(q, kind) == {At(q[i]) : i \in {i \in 1 .. Len(q) : q[i].type = kind}}

\* A response whose handler has not begun.
Waiting(h) == \E p \in Of(queue, "response") : p[1] = h

\* The parts handled, and those that a cancelled handler gave up.
Done == {p \in Places : ~Waiting(p[1]) /\ p[2] + Len(todo[p[1]]) <= Len(log[p[1]])}

\* Handlers begin in order. Without overlap the one under way is the last.
BegunInv ==
  /\ \A g, h \in 1 .. Len(log) : g < h /\ Waiting(g) => Waiting(h)
  /\ ~overtaken => \A g, h \in 1 .. Len(log) : g < h /\ Busy(g) => Waiting(h)

\* The callback is awaited at an interruption only.
CallbackInv == \A h \in Responses : wait[h] = Callback => Head(todo[h]) = "interrupted"

Batches == encoding \cup encoded \cup {buffer}

\* The chunks in the queue q are about different parts.
OneEach(q) ==
  \A i, j \in 1 .. Len(q) : i < j /\ q[i].type = "chunk" /\ q[j].type = "chunk" => At(q[i]) # At(q[j])

\* The audio of a part is in one place: in an event, in the buffer or in a batch.
ChunkInv ==
  /\ Of(queue, "chunk") \cup UNION Batches \subseteq {p \in Done : Part(p) = "audio"}
  /\ Of(queue, "turn") \subseteq {p \in Done : Part(p) = "turn"}
  /\ Of(queue, "chunk") \cap UNION Batches = {}
  /\ OneEach(queue)
  /\ \A b, c \in encoding \cup encoded : b = c \/ b \cap c = {}
  /\ \A b \in encoding \cup encoded : b \cap buffer = {}

\* A handler is under way or may yet begin.
Going == bus # "closed" \/ \E h \in Responses : Busy(h)

\* The flag says whether a tool was called since the last turn that is complete.
ToolInv ==
  toolTurn = \E p \in Done : Part(p) = "tool" /\ \A r \in Done : Part(r) = "turn" => Before(r, p)

Marks(e) == e.type \in {"chunk", "turn"}

\* The chunks and turns in the queue q are in the order of their parts, after those in b.
PartsInOrder(q, b) ==
  \A i \in 1 .. Len(q) : Marks(q[i]) =>
    /\ \A c \in b : Before(c, At(q[i]))
    /\ \A j \in 1 .. Len(q) : i < j /\ Marks(q[j]) => Before(At(q[i]), At(q[j]))

\* The end of the turn of a chunk that is not in a batch yet is still to come.
TurnAhead(q, b) ==
  \A c \in b \cup Of(q, "chunk"), r \in Done : Part(r) = "turn" /\ Before(c, r) => r \in Of(q, "turn")

\* What holds while handlers may go on.
FlowInv == ToolInv /\ PartsInOrder(queue, buffer) /\ TurnAhead(queue, buffer)

\* A report says whether its turn had a tool call.
Exact(report) ==
  /\ report.at \in Places
  /\ report.tool = \E p \in Places : Part(p) = "tool" /\ Before(p, report.at) /\ SameTurn(p, report.at)

ReportsInv == \A i \in DOMAIN reports : Exact(reports[i])

OneTurn(b) == \A p, q \in b : SameTurn(p, q)

\* A turn that is reported, or whose audio is encoded, stays apart from the others.
TurnInv ==
  ~overtaken =>
    /\ ReportsInv
    /\ \A b \in Batches : OneTurn(b)
    /\ Going => FlowInv

AudioInv == BegunInv /\ CallbackInv /\ ChunkInv /\ TurnInv

-------------------------------------------------------------------------------
(* Events of a kind.                                                         *)

LEMMA OfAppend ==
  ASSUME NEW q \in Seq(Events), NEW e \in Events, NEW kind
  PROVE  Of(Append(q, e), kind) = Of(q, kind) \cup (IF e.type = kind THEN {At(e)} ELSE {})
<1> DEFINE r == Append(q, e)
<1>1. /\ Len(r) = Len(q) + 1 /\ Len(q) \in Nat
      /\ \A i \in 1 .. Len(q) : r[i] = q[i]
      /\ r[Len(q) + 1] = e
  BY AppendProperties, LenProperties
<1> HIDE DEF r
<1>2. 1 .. Len(r) = 1 .. Len(q) \cup {Len(q) + 1} /\ Len(q) + 1 \notin 1 .. Len(q)
  BY <1>1
<1>3. Of(r, kind) = Of(q, kind) \cup (IF e.type = kind THEN {At(e)} ELSE {})
  BY <1>1, <1>2 DEF Of
<1> QED
  BY <1>3 DEF r

LEMMA OfOther ==
  ASSUME NEW q \in Seq(Events), NEW e \in Events, NEW kind, e.type # kind
  PROVE  Of(Append(q, e), kind) = Of(q, kind)
<1>1. Of(Append(q, e), kind) = Of(q, kind) \cup {}
  BY OfAppend
<1> QED
  BY <1>1

LEMMA TailOf ==
  ASSUME NEW q \in Seq(Events), q # <<>>
  PROVE  /\ Len(q) \in Nat /\ 1 \in 1 .. Len(q)
         /\ Head(q) = q[1] /\ Head(q) \in Events /\ Tail(q) \in Seq(Events)
         /\ \A i \in 1 .. Len(Tail(q)) : i + 1 \in 1 .. Len(q) /\ Tail(q)[i] = q[i + 1]
         /\ \A i \in 1 .. Len(q) : i = 1 \/ \E j \in 1 .. Len(Tail(q)) : i = j + 1
<1>1. /\ Len(q) \in Nat /\ Len(q) > 0 /\ Head(q) = q[1] /\ Head(q) \in Events /\ Tail(q) \in Seq(Events)
      /\ Len(Tail(q)) = Len(q) - 1 /\ \A i \in 1 .. Len(Tail(q)) : Tail(q)[i] = q[i + 1]
  BY LenProperties, EmptySeq, HeadTailProperties
<1>2. \A i \in 1 .. Len(q) : i = 1 \/ (i - 1 \in 1 .. Len(Tail(q)) /\ i = (i - 1) + 1)
  BY <1>1
<1>3. \A i \in 1 .. Len(Tail(q)) : i + 1 \in 1 .. Len(q)
  BY <1>1
<1>4. \A i \in 1 .. Len(q) : i = 1 \/ \E j \in 1 .. Len(Tail(q)) : i = j + 1
  BY <1>2
<1> QED
  BY <1>1, <1>3, <1>4

LEMMA OfTail ==
  ASSUME NEW q \in Seq(Events), q # <<>>, NEW kind
  PROVE  Of(q, kind) = Of(Tail(q), kind) \cup (IF Head(q).type = kind THEN {At(Head(q))} ELSE {})
<1> DEFINE t == Tail(q)
<1>1. /\ 1 \in 1 .. Len(q) /\ Head(q) = q[1]
      /\ \A i \in 1 .. Len(t) : i + 1 \in 1 .. Len(q) /\ t[i] = q[i + 1]
      /\ \A i \in 1 .. Len(q) : i = 1 \/ \E j \in 1 .. Len(t) : i = j + 1
  BY TailOf
<1> HIDE DEF t
<1>2. \A i \in 1 .. Len(q) : q[i].type = kind => i = 1 \/ At(q[i]) \in Of(t, kind)
  BY <1>1 DEF Of
<1>3. Of(t, kind) \subseteq Of(q, kind)
  BY <1>1 DEF Of
<1>4. /\ \A p \in Of(q, kind) : \E i \in 1 .. Len(q) : q[i].type = kind /\ p = At(q[i])
      /\ Head(q).type = kind => At(Head(q)) \in Of(q, kind)
  BY <1>1 DEF Of
<1>5. \A p \in Of(q, kind) : p \in Of(t, kind) \/ (Head(q).type = kind /\ p = At(Head(q)))
  BY <1>1, <1>2, <1>4
<1>6. Of(q, kind) = Of(t, kind) \cup (IF Head(q).type = kind THEN {At(Head(q))} ELSE {})
  BY <1>3, <1>4, <1>5
<1> QED
  BY <1>6 DEF t

LEMMA OneEachAppend ==
  ASSUME NEW q \in Seq(Events), NEW e \in Events, OneEach(q), e.type # "chunk" \/ At(e) \notin Of(q, "chunk")
  PROVE  OneEach(Append(q, e))
<1>1. /\ Len(Append(q, e)) = Len(q) + 1 /\ Len(q) \in Nat
      /\ \A i \in 1 .. Len(q) : Append(q, e)[i] = q[i]
      /\ Append(q, e)[Len(q) + 1] = e
  BY AppendProperties, LenProperties
<1> SUFFICES ASSUME NEW i \in 1 .. (Len(q) + 1), NEW j \in 1 .. (Len(q) + 1), i < j,
                    Append(q, e)[i].type = "chunk", Append(q, e)[j].type = "chunk"
             PROVE  At(Append(q, e)[i]) # At(Append(q, e)[j])
  BY <1>1 DEF OneEach
<1>2. i \in 1 .. Len(q) /\ (j \in 1 .. Len(q) \/ j = Len(q) + 1)
  BY <1>1
<1>3. CASE j \in 1 .. Len(q)
  BY <1>1, <1>2, <1>3 DEF OneEach
<1>4. CASE j = Len(q) + 1
  BY <1>1, <1>2, <1>4 DEF Of
<1> QED
  BY <1>2, <1>3, <1>4

LEMMA OneEachTail ==
  ASSUME NEW q \in Seq(Events), q # <<>>, OneEach(q)
  PROVE  /\ OneEach(Tail(q))
         /\ Head(q).type = "chunk" => At(Head(q)) \notin Of(Tail(q), "chunk")
<1>1. /\ 1 \in 1 .. Len(q) /\ Head(q) = q[1]
      /\ \A i \in 1 .. Len(Tail(q)) : i + 1 \in 1 .. Len(q) /\ Tail(q)[i] = q[i + 1]
  BY TailOf
<1>2. \A i, j \in 1 .. Len(Tail(q)) : (i < j => i + 1 < j + 1) /\ 1 < i + 1
  OBVIOUS
<1>3. OneEach(Tail(q))
  BY <1>1, <1>2 DEF OneEach
<1>4. ASSUME Head(q).type = "chunk", NEW i \in 1 .. Len(Tail(q)), Tail(q)[i].type = "chunk"
      PROVE  At(Tail(q)[i]) # At(Head(q))
  BY <1>1, <1>2, <1>4 DEF OneEach
<1> QED
  BY <1>3, <1>4 DEF Of

LEMMA InOrderAppend ==
  ASSUME NEW q \in Seq(Events), NEW e \in Events, NEW b, PartsInOrder(q, b),
         ~Marks(e) \/ \A p \in b \cup Of(q, "chunk") \cup Of(q, "turn") : Before(p, At(e))
  PROVE  PartsInOrder(Append(q, e), b)
<1> DEFINE r == Append(q, e)
<1>1. /\ Len(r) = Len(q) + 1 /\ Len(q) \in Nat
      /\ \A i \in 1 .. Len(q) : r[i] = q[i]
      /\ r[Len(q) + 1] = e
  BY AppendProperties, LenProperties
<1> HIDE DEF r
<1>2. ASSUME NEW i \in 1 .. Len(r), Marks(r[i])
      PROVE  /\ \A c \in b : Before(c, At(r[i]))
             /\ \A j \in 1 .. Len(r) : i < j /\ Marks(r[j]) => Before(At(r[i]), At(r[j]))
  <2>1. CASE i \in 1 .. Len(q)
    <3>1. r[i] = q[i] /\ At(q[i]) \in Of(q, "chunk") \cup Of(q, "turn")
      BY <1>1, <1>2, <2>1 DEF Of, Marks
    <3>2. ASSUME NEW j \in 1 .. Len(r), i < j, Marks(r[j])
          PROVE  Before(At(r[i]), At(r[j]))
      <4>1. CASE j \in 1 .. Len(q)
        BY <1>1, <1>2, <2>1, <3>2, <4>1 DEF PartsInOrder
      <4>2. CASE j = Len(q) + 1
        BY <1>1, <3>1, <3>2, <4>2
      <4> QED
        BY <1>1, <4>1, <4>2
    <3> QED
      BY <1>2, <2>1, <3>1, <3>2 DEF PartsInOrder
  <2>2. CASE i = Len(q) + 1
    <3>1. \A j \in 1 .. Len(r) : ~(i < j)
      BY <1>1, <2>2
    <3> QED
      BY <1>1, <1>2, <2>2, <3>1
  <2> QED
    BY <1>1, <2>1, <2>2
<1>3. PartsInOrder(r, b)
  BY <1>2 DEF PartsInOrder
<1> QED
  BY <1>3 DEF r

LEMMA InOrderTail ==
  ASSUME NEW q \in Seq(Events), q # <<>>, NEW b, NEW c, PartsInOrder(q, b),
         \A p \in c : p \in b \/ (Marks(Head(q)) /\ p = At(Head(q)))
  PROVE  /\ PartsInOrder(Tail(q), c)
         /\ Marks(Head(q)) => \A p \in Of(Tail(q), "chunk") \cup Of(Tail(q), "turn") : Before(At(Head(q)), p)
<1> DEFINE t == Tail(q)
<1>1. /\ 1 \in 1 .. Len(q) /\ Head(q) = q[1]
      /\ \A i \in 1 .. Len(t) : i + 1 \in 1 .. Len(q) /\ t[i] = q[i + 1]
  BY TailOf
<1> HIDE DEF t
<1>2. \A i, j \in 1 .. Len(t) : (i < j => i + 1 < j + 1) /\ 1 < i + 1
  OBVIOUS
<1>3. ASSUME NEW i \in 1 .. Len(t), Marks(t[i])
      PROVE  /\ \A p \in b : Before(p, At(t[i]))
             /\ Marks(Head(q)) => Before(At(Head(q)), At(t[i]))
             /\ \A j \in 1 .. Len(t) : i < j /\ Marks(t[j]) => Before(At(t[i]), At(t[j]))
  BY <1>1, <1>2, <1>3 DEF PartsInOrder
<1>4. PartsInOrder(t, c)
  BY <1>3 DEF PartsInOrder
<1>5. \A p \in Of(t, "chunk") \cup Of(t, "turn") : \E i \in 1 .. Len(t) : Marks(t[i]) /\ p = At(t[i])
  BY DEF Of, Marks
<1>6. Marks(Head(q)) => \A p \in Of(t, "chunk") \cup Of(t, "turn") : Before(At(Head(q)), p)
  BY <1>3, <1>5
<1> QED
  BY <1>4, <1>6 DEF t

-------------------------------------------------------------------------------
(* Parts and the order they are handled in.                                  *)

LEMMA BeforeIsOrder ==
  ASSUME BusType, NEW p \in Places, NEW q \in Places
  PROVE  /\ ~Before(p, p)
         /\ p = q \/ Before(p, q) \/ Before(q, p)
         /\ ~(Before(p, q) /\ Before(q, p))
         /\ \A r \in Places : Before(p, q) /\ Before(q, r) => Before(p, r)
<1>1. \A r \in Places : r = <<r[1], r[2]>> /\ r[1] \in Nat /\ r[2] \in Nat
  BY PlacesAre
<1>2. /\ p = <<p[1], p[2]>> /\ p[1] \in Nat /\ p[2] \in Nat
      /\ q = <<q[1], q[2]>> /\ q[1] \in Nat /\ q[2] \in Nat
  BY <1>1
<1>3. ASSUME NEW r \in Places, Before(p, q), Before(q, r)
      PROVE  Before(p, r)
  BY <1>1, <1>2, <1>3 DEF Before
<1>4. p = q \/ Before(p, q) \/ Before(q, p)
  BY <1>2 DEF Before
<1>5. ~Before(p, p) /\ ~(Before(p, q) /\ Before(q, p))
  BY <1>2 DEF Before
<1> QED
  BY <1>3, <1>4, <1>5

\* A response that waits is received, and nothing of it is to do yet.
LEMMA WaitingIdle ==
  ASSUME BusType, HandlerType, OrderInv, NEW h, Waiting(h)
  PROVE  h \in 1 .. Len(log) /\ h \in Responses /\ ~Busy(h) /\ todo[h] = <<>>
<1>1. PICK i \in 1 .. Len(queue) : queue[i].type = "response" /\ queue[i].from = h
  BY DEF Waiting, Of, At
<1>2. queue[i] \in Events
  BY <1>1, ElementOfSeq DEF BusType
<1>3. h \in Responses /\ h <= Len(log) /\ \A g \in BusyHandlers : g < h
  BY <1>1, <1>2 DEF Events, OrderInv, InOrder
<1>4. h \in Nat /\ ~(h < h) /\ Len(log) \in Nat /\ h > 0
  BY <1>3, LenProperties DEF BusType, Responses
<1>5. ~Busy(h)
  BY <1>3, <1>4 DEF BusyHandlers
<1> QED
  BY <1>3, <1>4, <1>5 DEF OrderInv, LocalInv

LEMMA BusyReceived ==
  ASSUME BusType, HandlerType, OrderInv, NEW h \in Responses, Busy(h)
  PROVE  h \in 1 .. Len(log) /\ ~Waiting(h)
<1>1. h <= Len(log) /\ h \in 1 .. MaxResponses /\ Len(log) \in Nat
  BY LenProperties DEF OrderInv, Responses, BusType
<1> QED
  BY <1>1, Bounds, WaitingIdle

LEMMA LeftOver ==
  ASSUME BusType, HandlerType
  PROVE  /\ \A h \in 1 .. Len(log) :
              Len(todo[h]) \in Nat /\ Len(log[h]) \in Nat /\ (Len(todo[h]) = 0 <=> todo[h] = <<>>)
         /\ \A p : p \in Done <=> /\ p \in Places /\ ~Waiting(p[1])
                                  /\ p[2] + Len(todo[p[1]]) <= Len(log[p[1]])
<1>1. ASSUME NEW h \in 1 .. Len(log)
      PROVE  Len(todo[h]) \in Nat /\ Len(log[h]) \in Nat /\ (Len(todo[h]) = 0 <=> todo[h] = <<>>)
  <2>1. h \in Responses /\ Len(log[h]) \in Nat
    BY LoggedParts
  <2>2. todo[h] \in Seq(Parts)
    BY <2>1 DEF HandlerType
  <2> QED
    BY <2>1, <2>2, LenProperties, EmptySeq
<1> QED
  BY <1>1 DEF Done

\* Without overlap, parts are handled in the order they came in.
LEMMA DoneInOrder ==
  ASSUME BusType, HandlerType, OrderInv, BegunInv, ~overtaken,
         NEW q \in Done, NEW p \in Places, Before(p, q)
  PROVE  p \in Done
<1> DEFINE g == p[1]
           h == q[1]
<1>1. /\ g \in 1 .. Len(log) /\ p[2] \in 1 .. Len(log[g]) /\ g \in Nat /\ p[2] \in Nat
      /\ h \in 1 .. Len(log) /\ q[2] \in 1 .. Len(log[h]) /\ h \in Nat /\ q[2] \in Nat
      /\ ~Waiting(h) /\ q[2] + Len(todo[h]) <= Len(log[h])
  BY PlacesAre, LeftOver
<1>2. /\ Len(todo[g]) \in Nat /\ Len(log[g]) \in Nat /\ (Len(todo[g]) = 0 <=> todo[g] = <<>>)
      /\ Len(todo[h]) \in Nat /\ Len(log[h]) \in Nat
  BY <1>1, LeftOver
<1>3. CASE g = h /\ p[2] < q[2]
  <2>1. \A i, j, m, n \in Nat : i < j /\ j + m <= n => i + m <= n
    OBVIOUS
  <2>2. /\ p[2] \in Nat /\ q[2] \in Nat /\ Len(todo[h]) \in Nat /\ Len(log[h]) \in Nat
        /\ p[2] < q[2] /\ q[2] + Len(todo[h]) <= Len(log[h])
    BY <1>1, <1>2, <1>3, PlacesAre DEF Done
  <2> HIDE DEF g, h
  <2>3. p[2] + Len(todo[h]) <= Len(log[h])
    BY <2>1, <2>2
  <2> QED
    BY <1>1, <1>3, <2>3, LeftOver DEF g
<1>4. CASE g < h
  <2>1. ~Waiting(g)
    BY <1>1, <1>4 DEF BegunInv
  <2>2. ~Busy(g)
    BY <1>1, <1>4 DEF BegunInv
  <2>3. todo[g] = <<>>
    BY <1>1, <2>2, LoggedParts DEF OrderInv, LocalInv
  <2>4. p[2] + Len(todo[g]) <= Len(log[g])
    BY <1>1, <1>2, <2>3
  <2> QED
    BY <2>1, <2>4, LeftOver
<1> QED
  BY <1>3, <1>4 DEF Before

LEMMA FirstLeft ==
  ASSUME NEW n \in Nat, NEW m \in Nat
  PROVE  /\ \A i \in Nat : i < n - m + 1 <=> i + m <= n
         /\ ~((n - m + 1) + m <= n)
OBVIOUS

\* A handler is at a part that is not done; without overlap all before it are.
LEMMA HereIsFrontier ==
  ASSUME BusType, HandlerType, OrderInv, BegunInv, NEW h \in Responses, Busy(h), todo[h] # <<>>
  PROVE  /\ Here(h) \in Places /\ Here(h) \notin Done
         /\ ~overtaken => \A p \in Places : Before(p, Here(h)) <=> p \in Done
<1> DEFINE k == Len(log[h]) - Len(todo[h]) + 1
<1>1. h \in 1 .. Len(log) /\ ~Waiting(h) /\ h \in Nat
  BY BusyReceived
<1>2. Len(todo[h]) \in Nat /\ Len(log[h]) \in Nat /\ k \in Int
  BY <1>1, LeftOver
<1>3. /\ Here(h) \in Places /\ Here(h)[1] = h /\ Here(h)[2] = k
      /\ \A i \in Nat : i < k <=> i + Len(todo[h]) <= Len(log[h])
      /\ ~(k + Len(todo[h]) <= Len(log[h]))
  <2>1. (\A i \in Nat : i < k <=> i + Len(todo[h]) <= Len(log[h])) /\ ~(k + Len(todo[h]) <= Len(log[h]))
    BY <1>2, FirstLeft
  <2>2. Here(h) \in Places /\ Here(h) = <<h, k>>
    BY <1>1, HereIsNext DEF Here, OrderInv
  <2> HIDE DEF k
  <2>3. Here(h)[1] = h /\ Here(h)[2] = k
    BY <2>2
  <2> QED
    BY <2>1, <2>2, <2>3
<1> HIDE DEF k
<1>5. Here(h) \notin Done
  BY <1>3, LeftOver
<1>4. ASSUME ~overtaken, NEW p \in Places
      PROVE  Before(p, Here(h)) <=> p \in Done
  <2> DEFINE g == p[1]
  <2>1. /\ g \in 1 .. Len(log) /\ g \in Responses /\ p[2] \in 1 .. Len(log[g]) /\ g \in Nat /\ p[2] \in Nat
        /\ Len(todo[g]) \in Nat /\ Len(log[g]) \in Nat /\ (Len(todo[g]) = 0 <=> todo[g] = <<>>)
    BY PlacesAre, LeftOver, LoggedParts
  <2>2. Before(p, Here(h)) <=> g < h \/ (g = h /\ p[2] < k)
    BY <1>3 DEF Before
  <2>6. p \in Done <=> ~Waiting(g) /\ p[2] + Len(todo[g]) <= Len(log[g])
    BY LeftOver
  <2> HIDE DEF g
  <2>3. CASE g = h
    <3>1. p[2] < k <=> p[2] + Len(todo[h]) <= Len(log[h])
      BY <1>3, <2>1
    <3>2. p \in Done <=> p[2] < k
      BY <1>1, <2>3, <2>6, <3>1
    <3> QED
      BY <1>1, <2>2, <2>3, <3>2
  <2>4. CASE g < h
    <3>1. ~Waiting(g) /\ ~Busy(g)
      BY <1>1, <1>4, <2>1, <2>4 DEF BegunInv
    <3>2. todo[g] = <<>>
      BY <2>1, <3>1 DEF OrderInv, LocalInv
    <3>3. p[2] + Len(todo[g]) <= Len(log[g])
      BY <2>1, <3>2
    <3> QED
      BY <2>2, <2>4, <2>6, <3>1, <3>3
  <2>5. CASE g > h
    <3>1. Waiting(g)
      BY <1>1, <1>4, <2>1, <2>5 DEF BegunInv
    <3> QED
      BY <1>1, <2>1, <2>2, <2>5, <2>6, <3>1
  <2> QED
    BY <1>1, <2>1, <2>3, <2>4, <2>5
<1> QED
  BY <1>3, <1>4, <1>5

-------------------------------------------------------------------------------
(* What the steps do to the responses that wait and to the parts done.       *)

\* No response is published or begun.
NoneBegins ==
  \/ queue' = queue
  \/ \E e \in Events : e.type # "response" /\ queue' = Append(queue, e)
  \/ queue # <<>> /\ Head(queue).type # "response" /\ queue' = Tail(queue)

LEMMA WaitingKept ==
  ASSUME BusType, NoneBegins
  PROVE  \A g : Waiting(g)' <=> Waiting(g)
<1>1. Of(queue', "response") = Of(queue, "response")
  <2>1. CASE queue' = queue
    BY <2>1
  <2>2. ASSUME NEW e \in Events, e.type # "response", queue' = Append(queue, e)
        PROVE  Of(queue', "response") = Of(queue, "response")
    BY <2>2, OfOther DEF BusType
  <2>3. CASE queue # <<>> /\ Head(queue).type # "response" /\ queue' = Tail(queue)
    <3>1. queue \in Seq(Events) /\ queue # <<>> /\ Head(queue).type # "response"
      BY <2>3 DEF BusType
    <3>2. Of(queue, "response") = Of(Tail(queue), "response") \cup {}
      BY <3>1, OfTail
    <3> QED
      BY <2>3, <3>2
  <2> QED
    BY <2>1, <2>2, <2>3 DEF NoneBegins
<1> QED
  BY <1>1 DEF Waiting

LEMMA WaitingReceived ==
  ASSUME BusType, NEW m \in Messages, Receive(m)
  PROVE  \A g : Waiting(g)' <=> Waiting(g) \/ g = Len(log) + 1
<1> DEFINE e == [type |-> "response", from |-> Len(log) + 1, part |-> 0]
<1>1. Len(log) + 1 \in Responses /\ queue' = Append(queue, e)
  BY Bounds, LenProperties DEF Receive, Published, BusType, Responses
<1>2. e \in Events /\ e.type = "response" /\ At(e) = <<Len(log) + 1, 0>>
  BY <1>1 DEF Events, At
<1> HIDE DEF e
<1>3. Of(queue', "response") = Of(queue, "response") \cup {<<Len(log) + 1, 0>>}
  BY <1>1, <1>2, OfAppend DEF BusType
<1>4. \A g : (\E p \in Of(queue', "response") : p[1] = g)
             <=> (\E p \in Of(queue, "response") : p[1] = g) \/ g = Len(log) + 1
  <2>1. <<Len(log) + 1, 0>>[1] = Len(log) + 1
    OBVIOUS
  <2> QED
    BY <1>3, <2>1, Zenon
<1> QED
  BY <1>4 DEF Waiting

LEMMA WaitingHandled ==
  ASSUME BusType, OrderInv, Handle
  PROVE  /\ Waiting(Head(queue).from)
         /\ \A g : Waiting(g)' <=> Waiting(g) /\ g # Head(queue).from
         /\ \A g : Waiting(g)' => Head(queue).from < g
<1> DEFINE h == Head(queue).from
<1>1. queue # <<>> /\ Head(queue).type = "response" /\ queue' = Tail(queue) /\ queue \in Seq(Events)
  BY DEF Handle, Dispatched, BusType
<1>2. Of(queue, "response") = Of(queue', "response") \cup {At(Head(queue))}
  BY <1>1, OfTail
<1>3. At(Head(queue))[1] = h
  BY DEF At
<1>4. ASSUME NEW p \in Of(queue', "response")
      PROVE  h < p[1] /\ p[1] # h
  <2>1. PICK i \in 1 .. Len(Tail(queue)) : Tail(queue)[i].type = "response" /\ p = At(Tail(queue)[i])
    BY <1>1 DEF Of
  <2>2. /\ i + 1 \in 1 .. Len(queue) /\ 1 < i + 1 /\ Tail(queue)[i] = queue[i + 1]
        /\ Head(queue) = queue[1] /\ 1 \in 1 .. Len(queue) /\ Head(queue) \in Events
    BY <1>1, <2>1, TailOf
  <2>3. queue[1].from < queue[i + 1].from
    BY <1>1, <2>1, <2>2 DEF OrderInv, InOrder
  <2>5. Head(queue).from \in Nat
    BY <2>2, Bounds DEF Events
  <2>4. h \in Nat /\ ~(h < h)
    <3>1. h \in Nat
      BY <2>5
    <3> HIDE DEF h
    <3> QED
      BY <3>1
  <2> QED
    BY <2>1, <2>2, <2>3, <2>4 DEF At
<1> HIDE DEF h
<1>5. /\ Waiting(h) /\ \A g : Waiting(g)' <=> Waiting(g) /\ g # h
      /\ \A g : Waiting(g)' => h < g
  BY <1>2, <1>3, <1>4 DEF Waiting
<1> QED
  BY <1>5 DEF h

LEMMA DoneKept ==
  ASSUME BusType, HandlerType, UNCHANGED log, \A g : Waiting(g)' <=> Waiting(g),
         \A h \in 1 .. Len(log) : ~Waiting(h) => todo'[h] = todo[h]
  PROVE  Done' = Done /\ Places' = Places /\ \A p : Part(p)' = Part(p)
<1>1. Places' = Places /\ \A p : Part(p)' = Part(p)
  BY DEF Places, Part
<1>2. \A p \in Places : p[1] \in 1 .. Len(log)
  BY PlacesAre
<1> QED
  BY <1>1, <1>2 DEF Done

LEMMA DoneHandle ==
  ASSUME BusType, HandlerType, OrderInv, Handle
  PROVE  Done' = Done /\ Places' = Places /\ \A p : Part(p)' = Part(p)
<1> DEFINE h == Head(queue).from
<1>1. UNCHANGED log /\ todo' = [todo EXCEPT ![h] = log[h]]
  BY DEF Handle, Dispatched
<1>2. Waiting(h) /\ \A g : Waiting(g)' <=> Waiting(g) /\ g # h
  BY WaitingHandled
<1>3. h \in 1 .. Len(log) /\ h \in Responses
  BY <1>2, WaitingIdle
<1> HIDE DEF h
<1>4. todo'[h] = log[h] /\ \A g \in Responses : g # h => todo'[g] = todo[g]
  BY <1>1, <1>3 DEF HandlerType
<1>5. Places' = Places /\ \A p : Part(p)' = Part(p)
  BY <1>1 DEF Places, Part
<1>6. ASSUME NEW p \in Places
      PROVE  p \in Done' <=> p \in Done
  <2>1. p[1] \in 1 .. Len(log) /\ p[1] \in Responses /\ p[2] \in 1 .. Len(log[p[1]]) /\ Len(log[p[1]]) \in Nat
    BY PlacesAre, LoggedParts, LeftOver
  <2>2. CASE p[1] = h
    <3>1. ~(p[2] + Len(log[h]) <= Len(log[h]))
      BY <2>1, <2>2
    <3> QED
      BY <1>1, <1>2, <1>4, <2>2, <3>1 DEF Done
  <2>3. CASE p[1] # h
    BY <1>1, <1>2, <1>4, <1>5, <2>1, <2>3 DEF Done
  <2> QED
    BY <2>2, <2>3
<1>7. Done \subseteq Places /\ Done' \subseteq Places'
  BY DEF Done
<1> QED
  BY <1>5, <1>6, <1>7

LEMMA DoneReceive ==
  ASSUME BusType, HandlerType, NEW m \in Messages, Receive(m)
  PROVE  /\ Done' = Done /\ Places \subseteq Places' /\ \A p \in Places : Part(p)' = Part(p)
         /\ \A p \in Places' : p \in Places \/ p[1] = Len(log) + 1
<1>1. log' = Append(log, m) /\ todo' = todo
  BY DEF Receive, handlerVars
<1>2. /\ Len(log') = Len(log) + 1 /\ Len(log) \in Nat /\ log' \in Seq(Messages) /\ log \in Seq(Messages)
      /\ \A h \in 1 .. Len(log) : log'[h] = log[h]
  BY <1>1, AppendProperties, LenProperties DEF BusType
<1>3. DOMAIN log = 1 .. Len(log) /\ DOMAIN log' = 1 .. (Len(log) + 1)
  BY <1>2, LenProperties
<1>4. \A p : p \in Places <=> \E h \in 1 .. Len(log) : p \in {h} \X DOMAIN log[h]
  BY <1>3 DEF Places
<1>5. \A p : p \in Places' <=> \E h \in 1 .. (Len(log) + 1) : p \in {h} \X DOMAIN log'[h]
  BY <1>3 DEF Places
<1>6. 1 .. (Len(log) + 1) = 1 .. Len(log) \cup {Len(log) + 1} /\ Len(log) + 1 \notin 1 .. Len(log)
  BY <1>2
<1>7. Places \subseteq Places' /\ \A p \in Places' : p \in Places \/ p[1] = Len(log) + 1
  BY <1>2, <1>4, <1>5, <1>6
<1>8. \A p \in Places : p[1] \in 1 .. Len(log) /\ p[1] # Len(log) + 1
  BY <1>6, PlacesAre
<1>9. \A p \in Places : Part(p)' = Part(p)
  BY <1>2, <1>8 DEF Part
<1>10. \A p \in Places : p \in Done' <=> p \in Done
  BY <1>1, <1>2, <1>7, <1>8, WaitingReceived DEF Done
<1>11. \A p \in Places' : p[1] = Len(log) + 1 => p \notin Done'
  BY WaitingReceived DEF Done
<1>12. Done \subseteq Places /\ Done' \subseteq Places'
  BY DEF Done
<1> QED
  BY <1>7, <1>9, <1>10, <1>11, <1>12

LEMMA DoneGoes ==
  ASSUME BusType, HandlerType, OrderInv, UNCHANGED log, \A g : Waiting(g)' <=> Waiting(g),
         NEW h \in Responses, Busy(h), todo[h] # <<>>, todo' = [todo EXCEPT ![h] = Tail(@)]
  PROVE  Done' = Done \cup {Here(h)} /\ Places' = Places /\ \A p : Part(p)' = Part(p)
<1> DEFINE k == Len(log[h]) - Len(todo[h]) + 1
<1>1. h \in 1 .. Len(log) /\ ~Waiting(h) /\ h \in Nat
  BY BusyReceived
<1>2. Len(todo[h]) \in Nat /\ Len(log[h]) \in Nat /\ k \in Int /\ Len(todo[h]) > 0
  BY <1>1, LeftOver
<1>3. todo'[h] = Tail(todo[h]) /\ \A g \in Responses : g # h => todo'[g] = todo[g]
  BY DEF HandlerType
<1>4. Len(todo'[h]) = Len(todo[h]) - 1
  BY <1>3, HeadTailProperties DEF HandlerType
<1>5. Places' = Places /\ \A p : Part(p)' = Part(p)
  BY DEF Places, Part
<1>6. Here(h) \in Places /\ Here(h) = <<h, k>>
  BY <1>1, HereIsNext DEF Here, OrderInv
<1>7. \A i \in Nat : i + Len(todo'[h]) <= Len(log[h]) <=> i + Len(todo[h]) <= Len(log[h]) \/ i = k
  <2>1. ASSUME NEW n \in Nat, NEW m \in Nat
        PROVE  \A i \in Nat : i + (m - 1) <= n <=> i + m <= n \/ i = n - m + 1
    OBVIOUS
  <2> QED
    BY <1>2, <1>4, <2>1
<1> HIDE DEF k
<1>8. ASSUME NEW p \in Places
      PROVE  p \in Done' <=> p \in Done \/ p = <<h, k>>
  <2>1. p = <<p[1], p[2]>> /\ p[1] \in 1 .. Len(log) /\ p[1] \in Responses /\ p[2] \in Nat
    BY PlacesAre, LoggedParts
  <2>2. p \in Done <=> ~Waiting(p[1]) /\ p[2] + Len(todo[p[1]]) <= Len(log[p[1]])
    BY DEF Done
  <2>3. p \in Done' <=> ~Waiting(p[1]) /\ p[2] + Len(todo'[p[1]]) <= Len(log[p[1]])
    BY <1>5 DEF Done
  <2>4. CASE p[1] = h
    <3>1. p = <<h, k>> <=> p[2] = k
      BY <2>1, <2>4
    <3> QED
      BY <1>1, <1>7, <2>1, <2>2, <2>3, <2>4, <3>1
  <2>5. CASE p[1] # h
    <3>1. p # <<h, k>>
      BY <2>5
    <3> QED
      BY <1>3, <2>1, <2>2, <2>3, <2>5, <3>1
  <2> QED
    BY <2>4, <2>5
<1>9. Done \subseteq Places /\ Done' \subseteq Places'
  BY DEF Done
<1> QED
  BY <1>5, <1>6, <1>8, <1>9

\* What a cancelled handler had left to do counts as done, if nobody is under way then.
LEMMA DoneCancel ==
  ASSUME BusType, HandlerType, OrderInv, CancelHandlers
  PROVE  /\ Done \subseteq Done' /\ Places' = Places /\ \A p : Part(p)' = Part(p)
         /\ OneBusy /\ Going' => Done' = Done
<1>1. /\ todo' = [h \in Responses |-> IF wait[h] = Callback THEN <<>> ELSE todo[h]]
      /\ wait' = [h \in Responses |-> IF wait[h] = Callback THEN NoSpeech ELSE wait[h]]
      /\ UNCHANGED <<queue, log, cur>> /\ cur = 0 /\ bus' = "closed"
  BY DEF CancelHandlers
<1>2. \A g : Waiting(g)' <=> Waiting(g)
  BY <1>1 DEF Waiting
<1>3. Places' = Places /\ \A p : Part(p)' = Part(p)
  BY <1>1 DEF Places, Part
<1>4. \A p \in Places : p[1] \in 1 .. Len(log) /\ p[1] \in Responses /\ p[2] \in 1 .. Len(log[p[1]])
  BY PlacesAre, LoggedParts
<1>5. ASSUME NEW p \in Done
      PROVE  p \in Done'
  <2>1. p \in Places /\ ~Waiting(p[1]) /\ p[2] + Len(todo[p[1]]) <= Len(log[p[1]])
    BY DEF Done
  <2>2. todo'[p[1]] = todo[p[1]] \/ todo'[p[1]] = <<>>
    BY <1>1, <1>4, <2>1
  <2>3. p[2] + Len(todo'[p[1]]) <= Len(log[p[1]])
    <3>1. Len(<<>>) = 0 /\ Len(log[p[1]]) \in Nat
      BY <1>4, <2>1, LoggedParts, EmptySeq
    <3> QED
      BY <1>4, <2>1, <2>2, <3>1
  <2> QED
    BY <1>1, <1>2, <1>3, <2>1, <2>3 DEF Done
<1>6. ASSUME OneBusy, Going'
      PROVE  Done' = Done
  <2>1. PICK h \in Responses : Busy(h)'
    BY <1>1, <1>6 DEF Going
  <2>2. Busy(h) /\ wait[h] # Callback
    BY <1>1, <2>1, Bounds DEF Busy, Suspended
  <2>3. ASSUME NEW g \in Responses
        PROVE  todo'[g] = todo[g]
    <3>1. wait[g] = Callback => Busy(g)
      BY Bounds DEF Busy, Suspended
    <3>2. wait[g] # Callback
      BY <1>6, <2>2, <3>1 DEF OneBusy
    <3> QED
      BY <1>1, <3>2
  <2>4. \A g \in 1 .. Len(log) : ~Waiting(g) => todo'[g] = todo[g]
    BY <2>3, LoggedParts
  <2> QED
    BY <1>1, <1>2, <2>4, DoneKept
<1> QED
  BY <1>3, <1>5, <1>6

-------------------------------------------------------------------------------
(* Who has begun.                                                            *)

LEMMA OvertakenStays ==
  ASSUME [Next]_vars, ~overtaken'
  PROVE  ~overtaken
BY DEF Next, Receive, BusStep, Handle, AudioChunk, AudioTurn, AudioInterrupted, StopLoop, CancelHandlers,
       HandlerStep, HandlerEnds, ToolCall, Note, AudioPart, TurnComplete, TextPart, TextResumes, Keep, AwaitFor,
       InterruptedPart, SpeechSilenced, CallbackEnds, Speak, SpeechEnds, SpeechNeverRan, Encoded, vars, handlerVars

\* A response is received, its handler begins, or nothing of the kind happens.
LEMMA WhoBegins ==
  ASSUME Types, OrderInv, [Next]_vars
  PROVE  \/ \E m \in Messages : Receive(m)
         \/ Handle
         \/ NoneBegins /\ UNCHANGED log /\ \A g \in Responses : Busy(g)' => Busy(g)
<1>1. ASSUME NEW h \in Responses, HandlerStep(h)
      PROVE  NoneBegins /\ UNCHANGED log /\ \A g \in Responses : Busy(g)' => Busy(g)
  <2>1. NoneBegins /\ UNCHANGED log
    BY <1>1, StepPublishes DEF Types, NoneBegins
  <2>2. CASE Goes(h)
    BY <2>1, <2>2, GoesKept DEF Types, OrderInv
  <2>3. CASE HandlerEnds(h)
    BY <2>1, <2>3, Bounds DEF HandlerEnds, Busy, Suspended
  <2> QED
    BY <1>1, <2>2, <2>3, StepGoes DEF Types, OrderInv
<1>2. CASE AudioChunk \/ AudioTurn \/ AudioInterrupted
  BY <1>2 DEF AudioChunk, AudioTurn, AudioInterrupted, Dispatched, handlerVars, Busy, Suspended, NoneBegins
<1>3. CASE CancelHandlers
  <2>1. /\ wait' = [h \in Responses |-> IF wait[h] = Callback THEN NoSpeech ELSE wait[h]]
        /\ UNCHANGED <<queue, log, cur>>
    BY <1>3 DEF CancelHandlers
  <2> QED
    BY <2>1 DEF Busy, Suspended, NoneBegins
<1>4. CASE \/ StopLoop \/ UNCHANGED vars
           \/ \E s \in Speeches : Speak(s) \/ SpeechEnds(s) \/ SpeechNeverRan(s)
           \/ \E batch \in encoding : Encoded(batch)
  BY <1>4 DEF StopLoop, Speak, SpeechEnds, SpeechNeverRan, Encoded, vars, busVars, handlerVars, Busy, Suspended,
              NoneBegins
<1> QED
  BY <1>1, <1>2, <1>3, <1>4 DEF Next, BusStep

LEMMA BegunStep ==
  ASSUME Types, OrderInv, BegunInv, [Next]_vars
  PROVE  BegunInv'
<1>1. \A h \in 1 .. Len(log) : h \in Responses /\ h \in Nat
  BY LoggedParts DEF Types
<1>2. Len(log) \in Nat
  BY LenProperties DEF Types, BusType
<1>3. ASSUME NEW m \in Messages, Receive(m)
      PROVE  BegunInv'
  <2>1. \A g : Waiting(g)' <=> Waiting(g) \/ g = Len(log) + 1
    BY <1>3, WaitingReceived DEF Types
  <2>2. Len(log') = Len(log) + 1
    BY <1>3, AppendProperties DEF Receive, Types, BusType
  <2>3. UNCHANGED <<cur, wait, overtaken>>
    BY <1>3 DEF Receive, handlerVars
  <2>4. \A g : (Waiting(g) \/ (g \in Responses /\ Busy(g))) => g \in 1 .. Len(log)
    BY WaitingIdle, BusyReceived DEF Types
  <2>5. ASSUME NEW g \in 1 .. (Len(log) + 1), NEW h \in 1 .. (Len(log) + 1), g < h
        PROVE  g \in 1 .. Len(log) /\ (h \in 1 .. Len(log) \/ h = Len(log) + 1)
    BY <1>2, <2>5
  <2>6. \A g : Busy(g)' <=> Busy(g)
    BY <2>3 DEF Busy, Suspended
  <2>7. ASSUME NEW g \in 1 .. (Len(log) + 1), NEW h \in 1 .. (Len(log) + 1), g < h
        PROVE  (Waiting(g)' => Waiting(h)') /\ (~overtaken /\ Busy(g)' => Waiting(h)')
    <3>1. g \in 1 .. Len(log) /\ g # Len(log) + 1 /\ (h \in 1 .. Len(log) \/ h = Len(log) + 1)
      BY <1>2, <2>5, <2>7
    <3> QED
      BY <2>1, <2>6, <2>7, <3>1 DEF BegunInv
  <2> QED
    BY <2>2, <2>3, <2>7 DEF BegunInv
<1>4. CASE Handle
  <2> DEFINE k == Head(queue).from
  <2>1. Waiting(k) /\ \A g : (Waiting(g)' <=> Waiting(g) /\ g # k) /\ (Waiting(g)' => k < g)
    BY <1>4, WaitingHandled DEF Types
  <2>2. k \in 1 .. Len(log) /\ UNCHANGED log
    BY <1>4, <2>1, WaitingIdle DEF Types, Handle, Dispatched
  <2>3. ~overtaken' => \A g \in Responses : Busy(g)' => g = k
    <3>1. \A g \in Responses : Busy(g)' => g = k \/ (Suspended(g) /\ g < k)
      BY <1>4, HandleOrder DEF Types
    <3>2. overtaken' = (overtaken \/ \E e \in Responses : e < k /\ Suspended(e))
      BY <1>4 DEF Handle
    <3> QED
      BY <3>1, <3>2
  <2> HIDE DEF k
  <2>4. ASSUME NEW g \in 1 .. Len(log), NEW h \in 1 .. Len(log), g < h, Waiting(g)'
        PROVE  Waiting(h)'
    <3>1. Waiting(h)
      BY <2>1, <2>4 DEF BegunInv
    <3>2. h # k
      BY <1>1, <2>1, <2>2, <2>4
    <3> QED
      BY <2>1, <3>1, <3>2
  <2>5. ASSUME ~overtaken', NEW g \in 1 .. Len(log), NEW h \in 1 .. Len(log), g < h, Busy(g)'
        PROVE  Waiting(h)'
    <3>1. g = k
      BY <1>1, <2>3, <2>5
    <3>2. Waiting(h) /\ h # k
      BY <1>1, <2>1, <2>5, <3>1 DEF BegunInv
    <3> QED
      BY <2>1, <3>2
  <2> QED
    BY <2>2, <2>4, <2>5 DEF BegunInv
<1>5. CASE NoneBegins /\ UNCHANGED log /\ \A g \in Responses : Busy(g)' => Busy(g)
  <2>1. \A g : Waiting(g)' <=> Waiting(g)
    BY <1>5, WaitingKept DEF Types
  <2>2. ~overtaken' => ~overtaken
    BY OvertakenStays
  <2> QED
    BY <1>1, <1>5, <2>1, <2>2 DEF BegunInv
<1> QED
  BY <1>3, <1>4, <1>5, WhoBegins

LEMMA CallbackStep ==
  ASSUME Types, OrderInv, CallbackInv, [Next]_vars
  PROVE  CallbackInv'
<1>1. CASE UNCHANGED <<wait, todo>>
  BY <1>1 DEF CallbackInv
<1>2. CASE Handle
  <2> DEFINE k == Head(queue).from
  <2>1. Waiting(k)
    BY <1>2, WaitingHandled DEF Types
  <2>2. wait' = wait /\ todo' = [todo EXCEPT ![k] = log[k]]
    BY <1>2 DEF Handle
  <2> HIDE DEF k
  <2>3. wait[k] # Callback
    BY <2>1, WaitingIdle, Bounds DEF Types, Busy, Suspended
  <2> QED
    BY <2>2, <2>3 DEF CallbackInv, Types, HandlerType
<1>3. CASE CancelHandlers
  <2>1. /\ todo' = [h \in Responses |-> IF wait[h] = Callback THEN <<>> ELSE todo[h]]
        /\ wait' = [h \in Responses |-> IF wait[h] = Callback THEN NoSpeech ELSE wait[h]]
    BY <1>3 DEF CancelHandlers
  <2> QED
    BY <2>1, Bounds DEF CallbackInv
<1>4. ASSUME NEW h \in Responses, HandlerStep(h)
      PROVE  CallbackInv'
  <2>1. CASE UNCHANGED todo /\ \E what : /\ wait' = [wait EXCEPT ![h] = what]
                                         /\ what = Callback => Head(todo[h]) = "interrupted"
    BY <2>1 DEF CallbackInv, Types, HandlerType
  <2>2. CASE todo' = [todo EXCEPT ![h] = Tail(@)] /\ wait' = [wait EXCEPT ![h] = NoSpeech]
    BY <2>2, Bounds DEF CallbackInv, Types, HandlerType
  <2>3. CASE cur = h /\ wait' = wait /\ todo' = [todo EXCEPT ![h] = Tail(@)]
    <3>1. wait[h] # Callback
      BY <2>3, Bounds DEF OrderInv, LocalInv, Suspended
    <3> QED
      BY <2>3, <3>1 DEF CallbackInv, Types, HandlerType
  <2>4. MustCancel => active # Callback
    BY Bounds DEF MustCancel, Unfinished
  <2>5. CASE TextPart(h) \/ InterruptedPart(h) \/ SpeechSilenced(h)
    BY <2>1, <2>3, <2>4, <2>5 DEF TextPart, InterruptedPart, SpeechSilenced, NextPart, AwaitFor, PartDone, Keep
  <2>6. CASE TextResumes(h) \/ CallbackEnds(h)
    BY <2>2, <2>6 DEF TextResumes, CallbackEnds, PartDone
  <2>7. CASE HandlerEnds(h) \/ ToolCall(h) \/ Note(h) \/ AudioPart(h) \/ TurnComplete(h)
    BY <1>1, <2>3, <2>7 DEF HandlerEnds, ToolCall, Note, AudioPart, TurnComplete, NextPart, PartDone, Keep
  <2> QED
    BY <1>4, <2>5, <2>6, <2>7 DEF HandlerStep
<1>5. CASE \/ \E m \in Messages : Receive(m)
           \/ AudioChunk \/ AudioTurn \/ AudioInterrupted \/ StopLoop \/ UNCHANGED vars
           \/ \E s \in Speeches : Speak(s) \/ SpeechEnds(s) \/ SpeechNeverRan(s)
           \/ \E batch \in encoding : Encoded(batch)
  BY <1>1, <1>5 DEF Receive, AudioChunk, AudioTurn, AudioInterrupted, StopLoop, Speak, SpeechEnds,
                    SpeechNeverRan, Encoded, vars, handlerVars
<1> QED
  BY <1>2, <1>3, <1>4, <1>5 DEF Next, BusStep

-------------------------------------------------------------------------------
(* What the steps do to the parts.                                           *)

\* No chunk and no turn is published.
Unmarked == queue' = queue \/ \E e \in Events : e.type = "interrupted" /\ queue' = Append(queue, e)

\* A handler is done with the part it was at.
Passes(h) ==
  /\ Busy(h) /\ todo[h] # <<>>
  /\ Done' = Done \cup {Here(h)}
  /\ \/ Part(Here(h)) = "tool" /\ toolTurn' = TRUE /\ UNCHANGED <<queue, reports>>
     \/ Part(Here(h)) = "audio" /\ Publish("chunk", h) /\ UNCHANGED turnVars
     \/ /\ Part(Here(h)) = "turn" /\ Publish("turn", h)
        /\ toolTurn' = FALSE /\ reports' = Append(reports, [at |-> Here(h), tool |-> toolTurn])
     \/ Part(Here(h)) \notin {"tool", "audio", "turn"} /\ Unmarked /\ UNCHANGED turnVars

SameParts == Places' = Places /\ \A p : Part(p)' = Part(p)

LEMMA HandlerMarks ==
  ASSUME Types, OrderInv, CallbackInv, NEW h \in Responses, HandlerStep(h)
  PROVE  /\ SameParts /\ UNCHANGED <<bus, audioVars>>
         /\ Passes(h) \/ (Done' = Done /\ queue' = queue /\ UNCHANGED turnVars)
<1>1. UNCHANGED <<bus, log, audioVars>>
  BY DEF HandlerStep, HandlerEnds, ToolCall, Note, AudioPart, TurnComplete, TextPart, TextResumes,
         InterruptedPart, SpeechSilenced, CallbackEnds, busVars
<1>2. \A g : Waiting(g)' <=> Waiting(g)
  BY StepPublishes, WaitingKept DEF Types, NoneBegins
<1>3. SameParts
  BY <1>1 DEF SameParts, Places, Part
<1>4. CASE UNCHANGED <<todo, queue, turnVars>>
  BY <1>1, <1>2, <1>3, <1>4, DoneKept DEF Types
<1>5. ASSUME PartDone(h), Busy(h), todo[h] # <<>>
      PROVE  Done' = Done \cup {Here(h)} /\ Part(Here(h)) = Head(todo[h]) /\ Here(h) \in Responses \X Nat
  <2>1. Done' = Done \cup {Here(h)}
    BY <1>1, <1>2, <1>5, DoneGoes DEF Types, PartDone
  <2>2. h \in 1 .. Len(log)
    BY <1>5, BusyReceived DEF Types
  <2> QED
    BY <1>5, <2>1, <2>2, HereIsNext DEF Types, OrderInv
<1>6. ASSUME Publish("interrupted", h), Here(h) \in Responses \X Nat
      PROVE  Unmarked
  <2>1. [type |-> "interrupted", from |-> Here(h)[1], part |-> Here(h)[2]] \in Events
    BY <1>6 DEF Events
  <2> QED
    BY <1>6, <2>1 DEF Unmarked, Publish, Published
<1>7. CASE ToolCall(h) \/ Note(h) \/ AudioPart(h) \/ TurnComplete(h)
  <2>1. PartDone(h) /\ Busy(h) /\ todo[h] # <<>>
    BY <1>7 DEF ToolCall, Note, AudioPart, TurnComplete, NextPart, Busy
  <2>2. CASE ToolCall(h) \/ Note(h)
    BY <1>1, <1>3, <1>5, <2>1, <2>2 DEF ToolCall, Note, NextPart, Passes, busVars, turnVars, Unmarked
  <2>3. CASE AudioPart(h)
    BY <1>1, <1>3, <1>5, <2>1, <2>3 DEF AudioPart, NextPart, Passes
  <2>4. CASE TurnComplete(h)
    BY <1>1, <1>3, <1>5, <2>1, <2>4 DEF TurnComplete, NextPart, Passes
  <2> QED
    BY <1>7, <2>2, <2>3, <2>4
<1>8. CASE TextPart(h)
  <2>1. UNCHANGED <<queue, turnVars>> /\ NextPart(h, "text")
    BY <1>8 DEF TextPart, busVars
  <2>2. CASE todo' = todo
    BY <1>4, <2>1, <2>2, <1>1, <1>3
  <2>3. CASE PartDone(h)
    BY <1>1, <1>3, <1>5, <2>1, <2>3 DEF NextPart, Busy, Passes, Unmarked
  <2> QED
    BY <1>8, <2>2, <2>3 DEF TextPart
<1>9. CASE InterruptedPart(h) \/ SpeechSilenced(h) \/ HandlerEnds(h)
  BY <1>1, <1>3, <1>4, <1>9 DEF InterruptedPart, SpeechSilenced, HandlerEnds, busVars
<1>10. CASE TextResumes(h) \/ CallbackEnds(h)
  <2>1. PartDone(h) /\ Publish("interrupted", h) /\ Suspended(h) /\ UNCHANGED turnVars
    BY <1>10, Bounds DEF TextResumes, CallbackEnds, Suspended
  <2>2. Busy(h) /\ todo[h] # <<>>
    BY <2>1 DEF Busy, OrderInv, LocalInv
  <2>3. Head(todo[h]) \in {"text", "interrupted"}
    BY <1>10 DEF TextResumes, CallbackEnds, CallbackInv
  <2> QED
    BY <1>1, <1>3, <1>5, <1>6, <2>1, <2>2, <2>3 DEF Passes
<1> QED
  BY <1>7, <1>8, <1>9, <1>10 DEF HandlerStep

\* Parts are added after all others, and what is done stays so.
Grown ==
  /\ Places \subseteq Places' /\ \A p \in Places : Part(p)' = Part(p)
  /\ \A p \in Places', q \in Places : Before(p, q) => p \in Places
  /\ Done \subseteq Done'

LEMMA PartsGrow ==
  ASSUME Types, OrderInv, CallbackInv, [Next]_vars
  PROVE  Grown
<1>1. CASE SameParts /\ Done \subseteq Done'
  BY <1>1 DEF SameParts, Grown
<1>2. ASSUME NEW m \in Messages, Receive(m)
      PROVE  Grown
  <2>1. /\ Done' = Done /\ Places \subseteq Places' /\ \A p \in Places : Part(p)' = Part(p)
        /\ \A p \in Places' : p \in Places \/ p[1] = Len(log) + 1
    BY <1>2, DoneReceive DEF Types
  <2>2. ASSUME NEW p \in Places', NEW q \in Places, Before(p, q)
        PROVE  p \in Places
    <3>1. q[1] \in 1 .. Len(log) /\ Len(log) \in Nat
      BY PlacesAre, LenProperties DEF Types, BusType
    <3>2. p[1] # Len(log) + 1
      BY <2>2, <3>1 DEF Before
    <3> QED
      BY <2>1, <3>2
  <2> QED
    BY <2>1, <2>2 DEF Grown
<1>3. CASE Handle
  BY <1>1, <1>3, DoneHandle DEF Types, SameParts
<1>4. CASE CancelHandlers
  BY <1>1, <1>4, DoneCancel DEF Types, SameParts
<1>5. ASSUME NEW h \in Responses, HandlerStep(h)
      PROVE  Grown
  BY <1>1, <1>5, HandlerMarks DEF Passes
<1>6. CASE NoneBegins /\ UNCHANGED <<log, todo>>
  BY <1>1, <1>6, WaitingKept, DoneKept DEF Types, SameParts
<1>7. CASE \/ AudioChunk \/ AudioTurn \/ AudioInterrupted \/ StopLoop \/ UNCHANGED vars
           \/ \E s \in Speeches : Speak(s) \/ SpeechEnds(s) \/ SpeechNeverRan(s)
           \/ \E batch \in encoding : Encoded(batch)
  BY <1>6, <1>7 DEF AudioChunk, AudioTurn, AudioInterrupted, Dispatched, StopLoop, Speak, SpeechEnds,
                    SpeechNeverRan, Encoded, vars, handlerVars, busVars, NoneBegins
<1> QED
  BY <1>2, <1>3, <1>4, <1>5, <1>7 DEF Next, BusStep

LEMMA QuietDone ==
  ASSUME Types, NoneBegins, UNCHANGED <<log, todo>>
  PROVE  Done' = Done /\ SameParts
BY WaitingKept, DoneKept DEF Types, SameParts

-------------------------------------------------------------------------------
(* Audio is in one place.                                                    *)

\* No audio comes to the buffer or to a batch, but for what the buffer gives to a batch.
NoAudioComes ==
  \/ buffer' = {} /\ (encoding' \cup encoded') \subseteq Batches
  \/ buffer' = buffer /\ (encoding' \cup encoded') \subseteq (encoding \cup encoded)

LEMMA FewerChunks ==
  ASSUME ChunkInv, Grown, OneEach(queue'), NoAudioComes,
         Of(queue', "chunk") \subseteq Of(queue, "chunk"), Of(queue', "turn") \subseteq Of(queue, "turn")
  PROVE  ChunkInv'
<1>1. (UNION Batches') \subseteq (UNION Batches)
  BY DEF NoAudioComes, Batches
<1>2. \A p \in Done : p \in Done' /\ Part(p)' = Part(p)
  BY DEF Grown, Done
<1>3. /\ \A b, c \in encoding' \cup encoded' : b = c \/ b \cap c = {}
      /\ \A b \in encoding' \cup encoded' : b \cap buffer' = {}
  <2>1. \A b, c \in Batches : b = c \/ b \cap c = {}
    BY DEF ChunkInv, Batches
  <2> QED
    BY <2>1 DEF ChunkInv, NoAudioComes
<1> QED
  BY <1>1, <1>2, <1>3 DEF ChunkInv

LEMMA OfUnmarked ==
  ASSUME BusType, Unmarked
  PROVE  /\ Of(queue', "chunk") = Of(queue, "chunk") /\ Of(queue', "turn") = Of(queue, "turn")
         /\ OneEach(queue) => OneEach(queue')
<1>1. ASSUME NEW e \in Events, e.type = "interrupted"
      PROVE  /\ Of(Append(queue, e), "chunk") = Of(queue, "chunk")
             /\ Of(Append(queue, e), "turn") = Of(queue, "turn")
             /\ OneEach(queue) => OneEach(Append(queue, e))
  BY <1>1, OfOther, OneEachAppend DEF BusType
<1>2. CASE queue' = queue
  BY <1>2
<1>3. ASSUME NEW e \in Events, e.type = "interrupted", queue' = Append(queue, e)
      PROVE  /\ Of(queue', "chunk") = Of(queue, "chunk") /\ Of(queue', "turn") = Of(queue, "turn")
             /\ OneEach(queue) => OneEach(queue')
  BY <1>1, <1>3
<1> QED
  BY <1>2, <1>3 DEF Unmarked

LEMMA OfPublished ==
  ASSUME Types, OrderInv, NEW h \in Responses, Busy(h), todo[h] # <<>>, NEW type \in {"chunk", "turn"},
         Publish(type, h)
  PROVE  \E e \in Events :
           /\ queue' = Append(queue, e) /\ e.type = type /\ At(e) = Here(h)
           /\ \A kind : Of(queue', kind) = Of(queue, kind) \cup IF kind = type THEN {Here(h)} ELSE {}
<1> DEFINE e == [type |-> type, from |-> Here(h)[1], part |-> Here(h)[2]]
<1>1. h \in 1 .. Len(log)
  BY BusyReceived DEF Types
<1>2. Here(h) \in Responses \X Nat
  BY <1>1, HereIsNext DEF Types, OrderInv
<1>3. e \in Events /\ e.type = type /\ At(e) = Here(h)
  BY <1>2 DEF Events, At
<1>4. queue' = Append(queue, e)
  BY DEF Publish, Published
<1> HIDE DEF e
<1>5. \A kind : Of(Append(queue, e), kind) = Of(queue, kind) \cup IF kind = type THEN {Here(h)} ELSE {}
  BY <1>3, OfAppend DEF Types, BusType
<1> QED
  BY <1>3, <1>4, <1>5

LEMMA OfDispatched ==
  ASSUME BusType, NEW type, Dispatched(type)
  PROVE  /\ queue # <<>> /\ queue' = Tail(queue) /\ queue \in Seq(Events)
         /\ Head(queue) \in Events /\ Head(queue).type = type
         /\ \A kind : Of(queue, kind) = Of(queue', kind) \cup IF kind = type THEN {At(Head(queue))} ELSE {}
         /\ OneEach(queue) => /\ OneEach(queue')
                              /\ type = "chunk" => At(Head(queue)) \notin Of(queue', "chunk")
<1>1. queue # <<>> /\ queue' = Tail(queue) /\ queue \in Seq(Events) /\ Head(queue).type = type
  BY DEF Dispatched, BusType
<1>2. Head(queue) \in Events
  BY <1>1, TailOf
<1> QED
  BY <1>1, <1>2, OfTail, OneEachTail

LEMMA ChunkStep ==
  ASSUME Types, OrderInv, BegunInv, CallbackInv, ChunkInv, [Next]_vars
  PROVE  ChunkInv'
<1>0. Grown /\ BusType
  BY PartsGrow DEF Types
<1>1. ASSUME Unmarked, NoAudioComes
      PROVE  ChunkInv'
  BY <1>0, <1>1, OfUnmarked, FewerChunks DEF ChunkInv
<1>2. ASSUME NEW h \in Responses, HandlerStep(h)
      PROVE  ChunkInv'
  <2>1. /\ UNCHANGED <<buffer, encoding, encoded>> /\ Batches' = Batches /\ NoAudioComes
        /\ SameParts /\ (Passes(h) \/ queue' = queue)
    BY <1>2, HandlerMarks DEF audioVars, Batches, NoAudioComes
  <2>2. CASE Unmarked
    BY <1>1, <2>1, <2>2
  <2>3. CASE Passes(h) /\ Part(Here(h)) = "audio" /\ Publish("chunk", h)
    <3>1. Busy(h) /\ todo[h] # <<>> /\ Done' = Done \cup {Here(h)}
      BY <2>3 DEF Passes
    <3>2. Here(h) \notin Done
      BY <3>1, HereIsFrontier DEF Types
    <3>3. PICK e \in Events :
            /\ queue' = Append(queue, e) /\ e.type = "chunk" /\ At(e) = Here(h)
            /\ \A kind : Of(queue', kind) = Of(queue, kind) \cup IF kind = "chunk" THEN {Here(h)} ELSE {}
      BY <2>3, <3>1, OfPublished
    <3>4. OneEach(queue')
      BY <1>0, <3>2, <3>3, OneEachAppend DEF BusType, ChunkInv
    <3>5. Of(queue', "chunk") = Of(queue, "chunk") \cup {Here(h)} /\ Of(queue', "turn") = Of(queue, "turn")
      BY <3>3
    <3>6. \A p : Part(p)' = Part(p)
      BY <2>1 DEF SameParts
    <3>7. Of(queue', "chunk") \cap (UNION Batches') = {}
      BY <2>1, <3>2, <3>5 DEF ChunkInv
    <3>8. /\ Of(queue', "chunk") \cup (UNION Batches') \subseteq {p \in Done' : Part(p)' = "audio"}
          /\ Of(queue', "turn") \subseteq {p \in Done' : Part(p)' = "turn"}
      BY <2>1, <2>3, <3>1, <3>5, <3>6 DEF ChunkInv
    <3> QED
      BY <2>1, <3>4, <3>7, <3>8 DEF ChunkInv
  <2>4. CASE Passes(h) /\ Part(Here(h)) = "turn" /\ Publish("turn", h)
    <3>1. Busy(h) /\ todo[h] # <<>> /\ Done' = Done \cup {Here(h)}
      BY <2>4 DEF Passes
    <3>3. PICK e \in Events :
            /\ queue' = Append(queue, e) /\ e.type = "turn" /\ At(e) = Here(h)
            /\ \A kind : Of(queue', kind) = Of(queue, kind) \cup IF kind = "turn" THEN {Here(h)} ELSE {}
      BY <2>4, <3>1, OfPublished
    <3>4. OneEach(queue')
      BY <1>0, <3>3, OneEachAppend DEF BusType, ChunkInv
    <3>5. Of(queue', "turn") = Of(queue, "turn") \cup {Here(h)} /\ Of(queue', "chunk") = Of(queue, "chunk")
      BY <3>3
    <3>6. \A p : Part(p)' = Part(p)
      BY <2>1 DEF SameParts
    <3>7. Of(queue', "chunk") \cap (UNION Batches') = {}
      BY <2>1, <3>5 DEF ChunkInv
    <3>8. /\ Of(queue', "chunk") \cup (UNION Batches') \subseteq {p \in Done' : Part(p)' = "audio"}
          /\ Of(queue', "turn") \subseteq {p \in Done' : Part(p)' = "turn"}
      BY <2>1, <2>4, <3>1, <3>5, <3>6 DEF ChunkInv
    <3> QED
      BY <2>1, <3>4, <3>7, <3>8 DEF ChunkInv
  <2> QED
    BY <2>1, <2>2, <2>3, <2>4 DEF Passes, Unmarked
<1>3. CASE AudioChunk
  <2> DEFINE p == At(Head(queue))
  <2>1. /\ Of(queue, "chunk") = Of(queue', "chunk") \cup {p} /\ p \notin Of(queue', "chunk")
        /\ Of(queue', "turn") = Of(queue, "turn") /\ OneEach(queue')
    <3>1. Dispatched("chunk") /\ OneEach(queue)
      BY <1>3 DEF AudioChunk, ChunkInv
    <3>2. \A kind : Of(queue, kind) = Of(queue', kind) \cup IF kind = "chunk" THEN {p} ELSE {}
      BY <1>0, <3>1, OfDispatched
    <3>3. OneEach(queue') /\ p \notin Of(queue', "chunk")
      BY <1>0, <3>1, OfDispatched
    <3> QED
      BY <3>2, <3>3
  <2>2. buffer' = buffer \cup {p} /\ UNCHANGED <<encoding, encoded>>
    BY <1>3 DEF AudioChunk, At
  <2> HIDE DEF p
  <2>3. \A q \in Done : q \in Done' /\ Part(q)' = Part(q)
    BY <1>0 DEF Grown, Done
  <2>4. p \notin UNION Batches /\ buffer \in Batches /\ p \in Done /\ Part(p) = "audio"
    BY <2>1 DEF ChunkInv, Batches
  <2>5. \A b \in Batches' : b = buffer \cup {p} \/ b \in Batches
    BY <2>2 DEF Batches
  <2>6. (UNION Batches') \subseteq ((UNION Batches) \cup {p})
    BY <2>4, <2>5
  <2>7. /\ \A b, c \in encoding' \cup encoded' : b = c \/ b \cap c = {}
        /\ \A b \in encoding' \cup encoded' : b \cap buffer' = {}
    <3>1. \A b \in encoding \cup encoded : p \notin b
      BY <2>4 DEF Batches
    <3> QED
      BY <2>2, <3>1 DEF ChunkInv
  <2>8. /\ (Of(queue', "chunk") \cup UNION Batches') \subseteq {q \in Done' : Part(q)' = "audio"}
        /\ Of(queue', "turn") \subseteq {q \in Done' : Part(q)' = "turn"}
        /\ Of(queue', "chunk") \cap (UNION Batches') = {}
    BY <2>1, <2>3, <2>4, <2>6 DEF ChunkInv
  <2> QED
    BY <2>1, <2>7, <2>8 DEF ChunkInv
<1>4. CASE AudioTurn \/ AudioInterrupted
  <2>1. NoAudioComes
    BY <1>4 DEF AudioTurn, AudioInterrupted, BufferTaken, Batches, NoAudioComes
  <2>2. /\ Of(queue', "chunk") \subseteq Of(queue, "chunk") /\ Of(queue', "turn") \subseteq Of(queue, "turn")
        /\ OneEach(queue')
    BY <1>0, <1>4, OfDispatched DEF AudioTurn, AudioInterrupted, ChunkInv
  <2> QED
    BY <1>0, <2>1, <2>2, FewerChunks
<1>5. CASE Handle
  <2>1. NoAudioComes
    BY <1>5 DEF Handle, audioVars, NoAudioComes
  <2>2. /\ Of(queue', "chunk") \subseteq Of(queue, "chunk") /\ Of(queue', "turn") \subseteq Of(queue, "turn")
        /\ OneEach(queue')
    BY <1>0, <1>5, OfDispatched DEF Handle, ChunkInv
  <2> QED
    BY <1>0, <2>1, <2>2, FewerChunks
<1>6. ASSUME NEW m \in Messages, Receive(m)
      PROVE  ChunkInv'
  <2> DEFINE e == [type |-> "response", from |-> Len(log) + 1, part |-> 0]
  <2>1. Len(log) + 1 \in Responses /\ queue' = Append(queue, e) /\ queue \in Seq(Events)
    BY <1>0, <1>6, Bounds, LenProperties DEF Receive, Published, BusType, Responses
  <2>2. e \in Events /\ e.type = "response"
    BY <2>1 DEF Events
  <2>3. NoAudioComes
    BY <1>6 DEF Receive, audioVars, NoAudioComes
  <2> HIDE DEF e
  <2>4. /\ Of(Append(queue, e), "chunk") = Of(queue, "chunk") /\ Of(Append(queue, e), "turn") = Of(queue, "turn")
        /\ OneEach(Append(queue, e))
    BY <2>1, <2>2, OfOther, OneEachAppend DEF ChunkInv
  <2> QED
    BY <1>0, <2>1, <2>3, <2>4, FewerChunks
<1>7. CASE \/ StopLoop \/ CancelHandlers \/ UNCHANGED vars
           \/ \E s \in Speeches : Speak(s) \/ SpeechEnds(s) \/ SpeechNeverRan(s)
           \/ \E batch \in encoding : Encoded(batch)
  BY <1>1, <1>7 DEF StopLoop, CancelHandlers, Speak, SpeechEnds, SpeechNeverRan, Encoded, vars, busVars,
                    audioVars, NoAudioComes, Unmarked
<1> QED
  BY <1>2, <1>3, <1>4, <1>5, <1>6, <1>7 DEF Next, BusStep

-------------------------------------------------------------------------------
(* Turns.                                                                    *)

LEMMA GoingStays ==
  ASSUME Types, OrderInv, [Next]_vars, Going'
  PROVE  Going
<1> SUFFICES ASSUME bus = "closed"
             PROVE  \E h \in Responses : Busy(h)
  BY DEF Going
<1>1. bus' = "closed"
  <2>1. \A h \in Responses : HandlerStep(h) => bus' = bus
    BY StepPublishes DEF Types
  <2> QED
    BY <2>1 DEF Next, BusStep, Receive, Handle, AudioChunk, AudioTurn, AudioInterrupted, Dispatched, StopLoop,
                CancelHandlers, Speak, SpeechEnds, SpeechNeverRan, Encoded, vars, busVars
<1>2. PICK h \in Responses : Busy(h)'
  BY <1>1 DEF Going
<1>3. ~Handle
  BY DEF Handle, Dispatched
<1>4. ASSUME NEW m \in Messages, Receive(m)
      PROVE  Busy(h)' <=> Busy(h)
  BY <1>4 DEF Receive, handlerVars, Busy, Suspended
<1> QED
  BY <1>2, <1>3, <1>4, WhoBegins

LEMMA TurnsOfPlaces ==
  ASSUME Grown, NEW p, NEW q \in Places
  PROVE  SameTurn(p, q)' <=> SameTurn(p, q)
<1>1. \A r : (r \in Places' /\ Before(r, q)) <=> (r \in Places /\ Before(r, q))
  BY DEF Grown
<1>2. \A r \in Places : Part(r)' = Part(r)
  BY DEF Grown
<1>3. SameTurn(p, q)' <=> \A r \in Places' : Part(r)' = "turn" /\ Before(r, q) => Before(r, p)
  BY DEF SameTurn, Before
<1> QED
  BY <1>1, <1>2, <1>3 DEF SameTurn

LEMMA TurnReported ==
  ASSUME Grown, NEW a \in Places
  PROVE  (\E p \in Places' : Part(p)' = "tool" /\ Before(p, a) /\ SameTurn(p, a)')
           <=> (\E p \in Places : Part(p) = "tool" /\ Before(p, a) /\ SameTurn(p, a))
<1>1. \A p : (p \in Places' /\ Before(p, a)) <=> (p \in Places /\ Before(p, a))
  BY DEF Grown
<1>2. \A p \in Places : Part(p)' = Part(p)
  BY DEF Grown
<1> QED
  BY <1>1, <1>2, TurnsOfPlaces

LEMMA ReportsStep ==
  ASSUME Types, Grown, ReportsInv,
         \/ reports' = reports
         \/ \E report \in [at : Responses \X Nat, tool : BOOLEAN] :
              Exact(report) /\ reports' = Append(reports, report)
  PROVE  ReportsInv'
<1>1. ASSUME NEW report, Exact(report)
      PROVE  Exact(report)'
  <2> DEFINE a == report.at
             P == \E p \in Places : Part(p) = "tool" /\ Before(p, a) /\ SameTurn(p, a)
  <2>1. a \in Places /\ a \in Places' /\ report.tool = P
    BY <1>1 DEF Exact, Grown
  <2>2. P' <=> P
    <3>1. P' <=> \E p \in Places' : Part(p)' = "tool" /\ Before(p, a) /\ SameTurn(p, a)'
      BY DEF Before
    <3> QED
      BY <2>1, <3>1, TurnReported
  <2>3. report.tool = P'
    <3>1. P \in BOOLEAN /\ P' \in BOOLEAN
      OBVIOUS
    <3> HIDE DEF P
    <3> QED
      BY <2>1, <2>2, <3>1
  <2> QED
    BY <2>1, <2>3 DEF Exact
<1>2. \A i \in DOMAIN reports : Exact(reports[i])
  BY DEF ReportsInv
<1>3. ASSUME \A i \in DOMAIN reports' : \E report : report = reports'[i] /\ Exact(report)
      PROVE  ReportsInv'
  <2>1. \A i \in DOMAIN reports' : \E report : report = reports'[i] /\ Exact(report)'
    BY <1>1, <1>3
  <2> QED
    BY <2>1 DEF ReportsInv, Exact
<1>4. CASE reports' = reports
  BY <1>2, <1>3, <1>4
<1>5. ASSUME NEW report \in [at : Responses \X Nat, tool : BOOLEAN],
             Exact(report), reports' = Append(reports, report)
      PROVE  ReportsInv'
  <2>1. /\ Len(reports') = Len(reports) + 1 /\ Len(reports) \in Nat
        /\ DOMAIN reports' = 1 .. Len(reports') /\ DOMAIN reports = 1 .. Len(reports)
        /\ \A i \in 1 .. Len(reports) : reports'[i] = reports[i]
        /\ reports'[Len(reports) + 1] = report
    BY <1>5, AppendProperties, LenProperties DEF Types, RestType
  <2>2. ASSUME NEW i \in DOMAIN reports'
        PROVE  Exact(reports'[i])
    <3>1. i \in DOMAIN reports \/ i = Len(reports) + 1
      BY <2>1
    <3> QED
      BY <1>2, <1>5, <2>1, <3>1
  <2> QED
    BY <1>3, <2>2
<1> QED
  BY <1>4, <1>5

LEMMA BatchesStep ==
  ASSUME Grown, ChunkInv, \A b \in Batches : OneTurn(b),
         \A b \in Batches' : b \in Batches \/ b = {} \/ (b \subseteq Places /\ OneTurn(b))
  PROVE  \A b \in Batches' : OneTurn(b)'
<1>1. \A b \in Batches : b \subseteq Places
  BY DEF ChunkInv, Done
<1>2. ASSUME NEW b, b \subseteq Places, OneTurn(b)
      PROVE  OneTurn(b)'
  <2>1. \A p, q \in b : SameTurn(p, q)'
    BY <1>2, TurnsOfPlaces DEF OneTurn
  <2> QED
    BY <2>1 DEF OneTurn
<1>3. OneTurn({})'
  BY DEF OneTurn
<1> QED
  BY <1>1, <1>2, <1>3

\* Nothing is done, and no chunk or turn comes or goes.
LEMMA FlowQuiet ==
  ASSUME FlowInv, Grown, Done' = Done, toolTurn' = toolTurn, buffer' = buffer,
         Of(queue', "chunk") = Of(queue, "chunk"), Of(queue', "turn") = Of(queue, "turn"),
         PartsInOrder(queue', buffer)
  PROVE  FlowInv'
<1>1. \A p \in Done : Part(p)' = Part(p)
  BY DEF Grown, Done
<1>2. ToolInv'
  <2>1. toolTurn' = \E p \in Done : Part(p)' = "tool" /\ \A r \in Done : Part(r)' = "turn" => Before(r, p)
    BY <1>1 DEF FlowInv, ToolInv
  <2> QED
    BY <2>1 DEF ToolInv, Before
<1>3. TurnAhead(queue, buffer)'
  BY <1>1 DEF FlowInv, TurnAhead, Before
<1>4. PartsInOrder(queue, buffer)'
  BY DEF PartsInOrder, Before, Marks, At
<1> QED
  BY <1>2, <1>3, <1>4 DEF FlowInv

\* A handler passes the part it was at: all others that are done come before.
LEMMA FlowPasses ==
  ASSUME Types, OrderInv, BegunInv, ChunkInv, ~overtaken, FlowInv, SameParts, buffer' = buffer,
         NEW h \in Responses, Passes(h)
  PROVE  FlowInv'
<1> SUFFICES ASSUME NEW n, n = Here(h)
             PROVE  FlowInv'
  OBVIOUS
<1>1. n \in Places /\ n \notin Done /\ Done' = Done \cup {n} /\ Done \subseteq Places
  BY HereIsFrontier DEF Types, Passes, Done
<1>2. \A p \in Done : Before(p, n) /\ ~Before(n, p) /\ p # n
  <2> TAKE p \in Done
  <2>1. p \in Places /\ Before(p, n) /\ p # n
    BY <1>1, HereIsFrontier DEF Types, Passes
  <2> QED
    BY <1>1, <2>1, BeforeIsOrder DEF Types
<1>3. ~Before(n, n)
  BY <1>1, BeforeIsOrder DEF Types
<1>4. \A p : Part(p)' = Part(p)
  BY DEF SameParts
<1>5. \A p \in buffer \cup Of(queue, "chunk") \cup Of(queue, "turn") : p \in Done
  BY DEF ChunkInv, Batches
<1>6. queue \in Seq(Events)
  BY DEF Types, BusType
<1>7. ASSUME NEW type \in {"chunk", "turn"}, Publish(type, h)
      PROVE  /\ PartsInOrder(queue', buffer)
             /\ Of(queue', "chunk") = Of(queue, "chunk") \cup IF type = "chunk" THEN {n} ELSE {}
             /\ Of(queue', "turn") = Of(queue, "turn") \cup IF type = "turn" THEN {n} ELSE {}
  <2>1. PICK e \in Events :
          /\ queue' = Append(queue, e) /\ e.type = type /\ At(e) = n
          /\ \A kind : Of(queue', kind) = Of(queue, kind) \cup IF kind = type THEN {n} ELSE {}
    BY <1>7, OfPublished DEF Passes
  <2>2. PartsInOrder(Append(queue, e), buffer)
    BY <1>2, <1>5, <1>6, <2>1, InOrderAppend DEF FlowInv
  <2> QED
    BY <2>1, <2>2
<1>8. CASE Part(n) = "tool" /\ toolTurn' = TRUE /\ queue' = queue
  <2>1. ToolInv'
    <3>1. \A r \in Done' : Part(r)' = "turn" => Before(r, n)
      BY <1>1, <1>2, <1>4, <1>8
    <3>2. n \in Done' /\ Part(n)' = "tool"
      BY <1>1, <1>4, <1>8
    <3>3. \E p \in Done' : Part(p)' = "tool" /\ \A r \in Done' : Part(r)' = "turn" => Before(r, p)
      BY <3>1, <3>2
    <3> QED
      BY <1>8, <3>3 DEF ToolInv, Before
  <2>2. TurnAhead(queue, buffer)'
    BY <1>1, <1>4, <1>8 DEF FlowInv, TurnAhead, Before
  <2>3. PartsInOrder(queue, buffer)'
    BY <1>8 DEF FlowInv, PartsInOrder, Before, Marks, At
  <2> QED
    BY <2>1, <2>2, <2>3 DEF FlowInv
<1>9. ASSUME Part(n) \notin {"tool", "turn"}, toolTurn' = toolTurn
      PROVE  ToolInv'
  <2>1. toolTurn' = \E p \in Done' : Part(p)' = "tool" /\ \A r \in Done' : Part(r)' = "turn" => Before(r, p)
    BY <1>1, <1>4, <1>9 DEF FlowInv, ToolInv
  <2> QED
    BY <2>1 DEF ToolInv, Before
<1>10. CASE Part(n) \notin {"tool", "audio", "turn"} /\ Unmarked /\ UNCHANGED turnVars
  <2>1. /\ Of(queue', "chunk") = Of(queue, "chunk") /\ Of(queue', "turn") = Of(queue, "turn")
    BY <1>10, OfUnmarked DEF Types
  <2>2. PartsInOrder(queue', buffer)
    <3>1. ASSUME NEW e \in Events, e.type = "interrupted"
          PROVE  PartsInOrder(Append(queue, e), buffer)
      BY <1>6, <3>1, InOrderAppend DEF FlowInv, Marks
    <3> QED
      BY <1>10, <3>1 DEF Unmarked, FlowInv
  <2>3. TurnAhead(queue, buffer)'
    BY <1>1, <1>4, <1>10, <2>1 DEF FlowInv, TurnAhead, Before
  <2>4. PartsInOrder(queue, buffer)'
    BY <2>2 DEF PartsInOrder, Before, Marks, At
  <2> QED
    BY <1>9, <1>10, <2>3, <2>4 DEF FlowInv, turnVars
<1>11. CASE Part(n) = "audio" /\ Publish("chunk", h) /\ UNCHANGED turnVars
  <2>1. /\ PartsInOrder(queue', buffer)
        /\ Of(queue', "chunk") = Of(queue, "chunk") \cup {n} /\ Of(queue', "turn") = Of(queue, "turn")
    BY <1>7, <1>11
  <2>2. TurnAhead(queue, buffer)'
    BY <1>1, <1>2, <1>3, <1>4, <1>11, <2>1 DEF FlowInv, TurnAhead, Before
  <2>3. PartsInOrder(queue, buffer)'
    BY <2>1 DEF PartsInOrder, Before, Marks, At
  <2> QED
    BY <1>9, <1>11, <2>2, <2>3 DEF FlowInv, turnVars
<1>12. CASE Part(n) = "turn" /\ Publish("turn", h) /\ toolTurn' = FALSE
  <2>1. /\ PartsInOrder(queue', buffer)
        /\ Of(queue', "turn") = Of(queue, "turn") \cup {n} /\ Of(queue', "chunk") = Of(queue, "chunk")
    BY <1>7, <1>12
  <2>2. TurnAhead(queue, buffer)'
    BY <1>1, <1>4, <2>1 DEF FlowInv, TurnAhead, Before
  <2>3. PartsInOrder(queue, buffer)'
    BY <2>1 DEF PartsInOrder, Before, Marks, At
  <2>4. ToolInv'
    <3>1. n \in Done' /\ Part(n)' = "turn"
      BY <1>1, <1>4, <1>12
    <3>2. \A p \in Done' : Part(p)' = "tool" => ~Before(n, p)
      BY <1>1, <1>2, <1>3
    <3>3. ~\E p \in Done' : Part(p)' = "tool" /\ \A r \in Done' : Part(r)' = "turn" => Before(r, p)
      BY <3>1, <3>2
    <3> QED
      BY <1>12, <3>3 DEF ToolInv, Before
  <2> QED
    BY <2>2, <2>3, <2>4 DEF FlowInv
<1> QED
  BY <1>8, <1>10, <1>11, <1>12 DEF Passes

\* A report is made of what the turn had: the flag covers the parts since the last turn.
LEMMA ReportIsExact ==
  ASSUME Types, OrderInv, BegunInv, ~overtaken, ToolInv, NEW h \in Responses, Busy(h), todo[h] # <<>>
  PROVE  /\ Exact([at |-> Here(h), tool |-> toolTurn])
         /\ [at |-> Here(h), tool |-> toolTurn] \in [at : Responses \X Nat, tool : BOOLEAN]
<1> SUFFICES ASSUME NEW n, n = Here(h)
             PROVE  /\ Exact([at |-> n, tool |-> toolTurn])
                    /\ [at |-> n, tool |-> toolTurn] \in [at : Responses \X Nat, tool : BOOLEAN]
  OBVIOUS
<1>1. n \in Places /\ \A p \in Places : Before(p, n) <=> p \in Done
  BY HereIsFrontier DEF Types
<1>2. n \in Responses \X Nat
  <2>1. h \in 1 .. Len(log)
    BY BusyReceived DEF Types
  <2> QED
    BY <2>1, HereIsNext DEF Types, OrderInv
<1>3. \A p : p \in Done => p \in Places
  BY DEF Done
<1>4. \A p : SameTurn(p, n) <=> \A r \in Done : Part(r) = "turn" => Before(r, p)
  BY <1>1, <1>3 DEF SameTurn
<1>5. toolTurn = \E p \in Places : Part(p) = "tool" /\ Before(p, n) /\ SameTurn(p, n)
  <2>1. (\E p \in Places : Part(p) = "tool" /\ Before(p, n) /\ SameTurn(p, n))
          <=> \E p \in Done : Part(p) = "tool" /\ \A r \in Done : Part(r) = "turn" => Before(r, p)
    BY <1>1, <1>3, <1>4
  <2> QED
    BY <2>1 DEF ToolInv
<1> QED
  BY <1>1, <1>2, <1>5 DEF Exact, Types, RestType

\* A chunk that joins the buffer is of the turn of what is there.
LEMMA ChunkJoins ==
  ASSUME Types, OrderInv, BegunInv, ChunkInv, ~overtaken, FlowInv, OneTurn(buffer), Dispatched("chunk")
  PROVE  OneTurn(buffer \cup {At(Head(queue))}) /\ buffer \cup {At(Head(queue))} \subseteq Places
<1> SUFFICES ASSUME NEW p, p = At(Head(queue))
             PROVE  OneTurn(buffer \cup {p}) /\ buffer \cup {p} \subseteq Places
  OBVIOUS
<1>1. /\ queue # <<>> /\ queue' = Tail(queue) /\ queue \in Seq(Events) /\ Head(queue).type = "chunk"
      /\ Of(queue, "chunk") = Of(queue', "chunk") \cup {p} /\ Of(queue, "turn") = Of(queue', "turn")
  <2>1. \A kind : Of(queue, kind) = Of(queue', kind) \cup IF kind = "chunk" THEN {p} ELSE {}
    BY OfDispatched DEF Types
  <2> QED
    BY <2>1, OfDispatched DEF Types
<1>2. p \in Done /\ \A c \in buffer : c \in Done /\ Part(c) = "audio"
  BY <1>1 DEF ChunkInv, Batches
<1>3. Done \subseteq Places
  BY DEF Done
<1>4. Marks(Head(queue))
  BY <1>1 DEF Marks
<1>5. \A c \in buffer : Before(c, p)
  <2>1. 1 \in 1 .. Len(queue) /\ Head(queue) = queue[1]
    BY <1>1, TailOf
  <2> QED
    BY <1>4, <2>1 DEF FlowInv, PartsInOrder
<1>6. \A r \in Of(queue, "turn") : Before(p, r)
  <2>1. PartsInOrder(queue, buffer)
    BY DEF FlowInv
  <2>2. \A q \in Of(Tail(queue), "chunk") \cup Of(Tail(queue), "turn") : Before(At(Head(queue)), q)
    BY <1>1, <1>4, <2>1, InOrderTail
  <2> QED
    BY <1>1, <2>2
<1>7. ASSUME NEW c \in buffer
      PROVE  SameTurn(c, p) /\ SameTurn(p, c)
  <2>1. c \in Places /\ p \in Places /\ Before(c, p) /\ Part(c) = "audio"
    BY <1>2, <1>3, <1>5
  <2>2. ASSUME NEW r \in Places, Part(r) = "turn", Before(r, c)
        PROVE  Before(r, p)
    BY <2>1, <2>2, BeforeIsOrder DEF Types
  <2>3. ASSUME NEW r \in Places, Part(r) = "turn", Before(r, p)
        PROVE  Before(r, c)
    <3>1. r \in Done
      BY <1>2, <2>3, DoneInOrder DEF Types
    <3>2. r # c
      BY <2>1, <2>3
    <3>3. ASSUME Before(c, r)
          PROVE  FALSE
      <4>1. r \in Of(queue, "turn")
        BY <2>3, <3>1, <3>3 DEF FlowInv, TurnAhead
      <4>2. Before(p, r)
        BY <1>6, <4>1
      <4> QED
        BY <2>1, <2>3, <4>2, BeforeIsOrder DEF Types
    <3> QED
      BY <2>1, <3>2, <3>3, BeforeIsOrder DEF Types
  <2> QED
    BY <2>2, <2>3 DEF SameTurn
<1>8. SameTurn(p, p)
  BY DEF SameTurn
<1> QED
  BY <1>2, <1>3, <1>7, <1>8 DEF OneTurn

\* The audio handler takes an event.
LEMMA FlowTaken ==
  ASSUME Types, ChunkInv, OrderInv, FlowInv, Grown, Done' = Done, toolTurn' = toolTurn,
         AudioChunk \/ AudioTurn \/ AudioInterrupted
  PROVE  FlowInv'
<1>1. \A p \in Done : Part(p)' = Part(p)
  BY DEF Grown, Done
<1>2. ToolInv'
  <2>1. toolTurn' = \E p \in Done : Part(p)' = "tool" /\ \A r \in Done : Part(r)' = "turn" => Before(r, p)
    BY <1>1 DEF FlowInv, ToolInv
  <2> QED
    BY <2>1 DEF ToolInv, Before
<1>3. queue \in Seq(Events) /\ queue # <<>> /\ queue' = Tail(queue)
  BY DEF AudioChunk, AudioTurn, AudioInterrupted, Dispatched, Types, BusType
<1>4. \A p \in buffer' : p \in buffer \/ (Marks(Head(queue)) /\ p = At(Head(queue)))
  BY DEF AudioChunk, AudioTurn, AudioInterrupted, BufferTaken, Dispatched, Marks, At
<1>5. PartsInOrder(queue', buffer')
  <2>1. PartsInOrder(queue, buffer)
    BY DEF FlowInv
  <2> SUFFICES ASSUME NEW c, c = buffer'
               PROVE  PartsInOrder(queue', c)
    OBVIOUS
  <2>2. PartsInOrder(Tail(queue), c)
    BY <1>3, <1>4, <2>1, InOrderTail
  <2> QED
    BY <1>3, <2>2
<1>6. PartsInOrder(queue, buffer)'
  BY <1>5 DEF PartsInOrder, Before, Marks, At
<1>7. TurnAhead(queue, buffer)'
  <2> SUFFICES ASSUME NEW c \in buffer' \cup Of(queue', "chunk"), NEW r \in Done, Part(r) = "turn", Before(c, r)
               PROVE  r \in Of(queue', "turn")
    BY <1>1 DEF TurnAhead, Before
  <2>1. \A kind, type : Dispatched(type) =>
          Of(queue, kind) = Of(queue', kind) \cup IF kind = type THEN {At(Head(queue))} ELSE {}
    BY OfDispatched DEF Types
  <2>2. CASE AudioChunk
    <3>1. /\ Of(queue, "chunk") = Of(queue', "chunk") \cup {At(Head(queue))}
          /\ Of(queue, "turn") = Of(queue', "turn")
      <4>1. Dispatched("chunk")
        BY <2>2 DEF AudioChunk
      <4> QED
        BY <2>1, <4>1
    <3>2. buffer' = buffer \cup {At(Head(queue))}
      BY <2>2 DEF AudioChunk, At
    <3> QED
      BY <3>1, <3>2 DEF FlowInv, TurnAhead
  <2>3. CASE AudioInterrupted
    <3>1. Of(queue, "chunk") = Of(queue', "chunk") /\ Of(queue, "turn") = Of(queue', "turn") /\ buffer' = {}
      <4>1. Dispatched("interrupted") /\ buffer' = {}
        BY <2>3 DEF AudioInterrupted
      <4> QED
        BY <2>1, <4>1
    <3> QED
      BY <3>1 DEF FlowInv, TurnAhead
  <2>4. CASE AudioTurn
    <3>1. /\ Of(queue, "chunk") = Of(queue', "chunk") /\ buffer' = {}
          /\ Of(queue, "turn") = Of(queue', "turn") \cup {At(Head(queue))}
      <4>1. Dispatched("turn") /\ buffer' = {}
        BY <2>4 DEF AudioTurn, BufferTaken
      <4> QED
        BY <2>1, <4>1
    <3>2. c \in Of(queue', "chunk") /\ r \in Of(queue, "turn")
      BY <3>1 DEF FlowInv, TurnAhead
    <3>3. Before(At(Head(queue)), c)
      <4>1. PartsInOrder(queue, buffer) /\ Marks(Head(queue))
        BY <2>4 DEF FlowInv, AudioTurn, Dispatched, Marks
      <4>2. \A q \in Of(Tail(queue), "chunk") : Before(At(Head(queue)), q)
        BY <1>3, <4>1, InOrderTail
      <4> QED
        BY <1>3, <3>2, <4>2
    <3>4. r # At(Head(queue))
      <4>1. c \in Places /\ r \in Places
        BY <3>1, <3>2 DEF ChunkInv, Done
      <4> QED
        BY <3>3, <4>1, BeforeIsOrder DEF Types
    <3> QED
      BY <3>1, <3>2, <3>4
  <2> QED
    BY <2>2, <2>3, <2>4
<1> QED
  BY <1>2, <1>6, <1>7 DEF FlowInv

LEMMA TurnStep ==
  ASSUME IInv, BegunInv, CallbackInv, ChunkInv, TurnInv, [Next]_vars
  PROVE  TurnInv'
<1> SUFFICES ASSUME ~overtaken'
             PROVE  ReportsInv' /\ (\A b \in Batches' : OneTurn(b)') /\ (Going' => FlowInv')
  BY DEF TurnInv
<1>1. ~overtaken /\ Types /\ OrderInv /\ Grown
  BY OvertakenStays, PartsGrow DEF IInv
<1>2. ReportsInv /\ (\A b \in Batches : OneTurn(b)) /\ (Going => FlowInv)
  BY <1>1 DEF TurnInv
<1>3. Going' => Going
  BY <1>1, GoingStays
<1>4. ASSUME NEW h \in Responses, Busy(h)
      PROVE  FlowInv
  BY <1>2, <1>4 DEF Going
<1>5. ReportsInv'
  <2>1. CASE reports' = reports
    BY <1>1, <1>2, <2>1, ReportsStep
  <2>2. ASSUME NEW h \in Responses, HandlerStep(h)
        PROVE  ReportsInv'
    <3>1. CASE /\ Busy(h) /\ todo[h] # <<>>
               /\ reports' = Append(reports, [at |-> Here(h), tool |-> toolTurn])
      <4>1. ToolInv
        BY <1>4, <3>1 DEF FlowInv
      <4> QED
        BY <1>1, <1>2, <3>1, <4>1, ReportIsExact, ReportsStep
    <3> QED
      BY <1>1, <2>1, <2>2, <3>1, HandlerMarks DEF Passes, turnVars
  <2>3. CASE UNCHANGED turnVars
    BY <2>1, <2>3 DEF turnVars
  <2> QED
    BY <2>2, <2>3 DEF Next, Receive, BusStep, Handle, AudioChunk, AudioTurn, AudioInterrupted, StopLoop,
                      CancelHandlers, Speak, SpeechEnds, SpeechNeverRan, Encoded, vars
<1>6. \A b \in Batches' : OneTurn(b)'
  <2>1. CASE AudioChunk
    <3>1. Dispatched("chunk") /\ bus # "closed"
      BY <2>1 DEF AudioChunk, Dispatched
    <3>2. FlowInv /\ OneTurn(buffer)
      BY <1>2, <3>1 DEF Going, Batches
    <3>3. OneTurn(buffer \cup {At(Head(queue))}) /\ buffer \cup {At(Head(queue))} \subseteq Places
      BY <1>1, <3>1, <3>2, ChunkJoins
    <3>4. \A b \in Batches' : b \in Batches \/ b = buffer \cup {At(Head(queue))}
      BY <2>1 DEF AudioChunk, Batches, At
    <3> QED
      BY <1>1, <1>2, <3>3, <3>4, BatchesStep
  <2>2. CASE UNCHANGED audioVars \/ NoAudioComes
    <3>1. \A b \in Batches' : b \in Batches \/ b = {}
      BY <2>2 DEF audioVars, NoAudioComes, Batches
    <3> QED
      BY <1>1, <1>2, <3>1, BatchesStep
  <2>3. ASSUME NEW h \in Responses, HandlerStep(h)
        PROVE  UNCHANGED audioVars
    BY <1>1, <2>3, HandlerMarks
  <2>4. CASE AudioTurn \/ AudioInterrupted \/ CancelHandlers \/ \E batch \in encoding : Encoded(batch)
    BY <2>2, <2>4 DEF AudioTurn, AudioInterrupted, BufferTaken, CancelHandlers, Encoded, NoAudioComes, Batches
  <2>5. CASE \/ \E m \in Messages : Receive(m)
             \/ Handle \/ StopLoop \/ UNCHANGED vars
             \/ \E s \in Speeches : Speak(s) \/ SpeechEnds(s) \/ SpeechNeverRan(s)
    BY <2>2, <2>5 DEF Receive, Handle, StopLoop, Speak, SpeechEnds, SpeechNeverRan, vars
  <2> QED
    BY <2>1, <2>2, <2>3, <2>4, <2>5 DEF Next, BusStep
<1>7. ASSUME Going'
      PROVE  FlowInv'
  <2>1. FlowInv
    BY <1>2, <1>3, <1>7
  <2>2. ASSUME Done' = Done, queue' = queue, toolTurn' = toolTurn, buffer' = buffer
        PROVE  FlowInv'
    <3>1. PartsInOrder(queue', buffer)
      BY <2>1, <2>2 DEF FlowInv
    <3> QED
      BY <1>1, <2>1, <2>2, <3>1, FlowQuiet
  <2>3. ASSUME NEW h \in Responses, HandlerStep(h)
        PROVE  FlowInv'
    <3>1. /\ SameParts /\ buffer' = buffer
          /\ Passes(h) \/ (Done' = Done /\ queue' = queue /\ toolTurn' = toolTurn)
      BY <1>1, <2>3, HandlerMarks DEF audioVars, turnVars
    <3> QED
      BY <1>1, <2>1, <2>2, <3>1, FlowPasses
  <2>4. CASE AudioChunk \/ AudioTurn \/ AudioInterrupted
    <3>1. NoneBegins /\ UNCHANGED <<log, todo, toolTurn>>
      BY <2>4 DEF AudioChunk, AudioTurn, AudioInterrupted, Dispatched, handlerVars, turnVars, NoneBegins
    <3> QED
      BY <1>1, <2>1, <2>4, <3>1, QuietDone, FlowTaken
  <2>5. CASE Handle
    <3>1. Dispatched("response") /\ toolTurn' = toolTurn /\ buffer' = buffer /\ Done' = Done
      BY <1>1, <2>5, DoneHandle DEF Handle, turnVars, audioVars, Types
    <3>2. \A kind : Of(queue, kind) = Of(queue', kind) \cup IF kind = "response" THEN {At(Head(queue))} ELSE {}
      BY <1>1, <3>1, OfDispatched DEF Types
    <3>3. Of(queue, "chunk") = Of(queue', "chunk") \cup {} /\ Of(queue, "turn") = Of(queue', "turn") \cup {}
      BY <3>2
    <3>4. PartsInOrder(queue', buffer)
      <4>1. queue \in Seq(Events) /\ queue # <<>> /\ queue' = Tail(queue) /\ PartsInOrder(queue, buffer)
        BY <1>1, <2>1, <3>1 DEF Dispatched, Types, BusType, FlowInv
      <4> QED
        BY <4>1, InOrderTail
    <3> QED
      BY <1>1, <2>1, <3>1, <3>3, <3>4, FlowQuiet
  <2>6. ASSUME NEW m \in Messages, Receive(m)
        PROVE  FlowInv'
    <3> DEFINE e == [type |-> "response", from |-> Len(log) + 1, part |-> 0]
    <3>1. Len(log) + 1 \in Responses /\ queue' = Append(queue, e) /\ queue \in Seq(Events)
      BY <1>1, <2>6, Bounds, LenProperties DEF Receive, Published, Types, BusType, Responses
    <3>2. e \in Events /\ e.type = "response"
      BY <3>1 DEF Events
    <3> HIDE DEF e
    <3>3. Of(Append(queue, e), "chunk") = Of(queue, "chunk") /\ Of(Append(queue, e), "turn") = Of(queue, "turn")
      BY <3>1, <3>2, OfOther
    <3>4. PartsInOrder(Append(queue, e), buffer)
      BY <2>1, <3>1, <3>2, InOrderAppend DEF FlowInv, Marks
    <3>5. Done' = Done /\ toolTurn' = toolTurn /\ buffer' = buffer
      BY <1>1, <2>6, DoneReceive DEF Receive, turnVars, audioVars, Types
    <3> QED
      BY <1>1, <2>1, <3>1, <3>3, <3>4, <3>5, FlowQuiet
  <2>7. CASE CancelHandlers
    <3>1. OneBusy
      BY <1>1 DEF IInv, VoiceInv, OneBusy
    <3>2. Done' = Done
      BY <1>1, <1>7, <2>7, <3>1, DoneCancel DEF Types
    <3> QED
      BY <2>2, <2>7, <3>2 DEF CancelHandlers, turnVars
  <2>8. CASE \/ StopLoop \/ UNCHANGED vars
             \/ \E s \in Speeches : Speak(s) \/ SpeechEnds(s) \/ SpeechNeverRan(s)
             \/ \E batch \in encoding : Encoded(batch)
    <3>1. NoneBegins /\ UNCHANGED <<log, todo, queue, toolTurn, buffer>>
      BY <2>8 DEF StopLoop, Speak, SpeechEnds, SpeechNeverRan, Encoded, vars, busVars, handlerVars, turnVars,
                  audioVars, NoneBegins
    <3> QED
      BY <1>1, <2>2, <3>1, QuietDone
  <2> QED
    BY <2>3, <2>4, <2>5, <2>6, <2>7, <2>8 DEF Next, BusStep
<1> QED
  BY <1>5, <1>6, <1>7

LEMMA AudioInit == Init => AudioInv
<1> SUFFICES ASSUME Init
             PROVE  AudioInv
  OBVIOUS
<1>1. queue = <<>> /\ log = <<>> /\ Len(queue) = 0 /\ Len(log) = 0 /\ DOMAIN log = {} /\ 1 .. 0 = {}
  BY EmptySeq DEF Init
<1>2. BegunInv
  BY <1>1 DEF BegunInv
<1>3. CallbackInv
  BY Bounds DEF Init, CallbackInv
<1>4. Batches = {{}} /\ \A kind : Of(queue, kind) = {}
  BY <1>1 DEF Init, Batches, Of
<1>5. Places = {} /\ Done = {}
  BY <1>1 DEF Places, Done
<1>6. ChunkInv
  BY <1>1, <1>4 DEF Init, ChunkInv, OneEach
<1>7. TurnInv
  <2>1. ReportsInv
    BY EmptySeq DEF Init, ReportsInv
  <2>2. ToolInv
    BY <1>5 DEF Init, ToolInv
  <2>3. PartsInOrder(queue, buffer) /\ TurnAhead(queue, buffer)
    BY <1>1, <1>5 DEF PartsInOrder, TurnAhead
  <2> QED
    BY <1>4, <2>1, <2>2, <2>3 DEF TurnInv, OneTurn, FlowInv
<1> QED
  BY <1>2, <1>3, <1>6, <1>7 DEF AudioInv

\* The audio of a part is encoded once, in whatever order chunks, turns and interruptions are
\* dispatched (AudioResponseHandler in core/audio_handler.py). As long as no response is handled
\* while an earlier one awaits something, a batch is the audio of one turn, and the
\* had_tool_call of a TURN_COMPLETE (_handle_server_content in core/decision_making.py) is
\* right about its own turn, wherever responses begin and end.
THEOREM TurnsApart == Spec => []TurnsStayApart
<1>1. IInv /\ AudioInv /\ [Next]_vars => AudioInv'
  BY BegunStep, CallbackStep, ChunkStep, TurnStep DEF AudioInv, IInv
<1>2. AudioInv => TurnsStayApart
  <2> SUFFICES ASSUME AudioInv
               PROVE  TurnsStayApart
    OBVIOUS
  <2>1. \A b, c \in encoding \cup encoded \cup {buffer} : b = c \/ b \cap c = {}
    BY DEF AudioInv, ChunkInv
  <2>2. ~overtaken => /\ ReportsInv
                      /\ \A b \in encoding \cup encoded : \A p, q \in b : SameTurn(p, q)
    BY DEF AudioInv, TurnInv, OneTurn, Batches
  <2> QED
    BY <2>1, <2>2 DEF TurnsStayApart, ReportsInv, Exact
<1> QED
  BY <1>1, <1>2, AudioInit, InvHolds, PTL DEF Spec
-------------------------------------------------------------------------------
(* What handlers wait for.                                                   *)

Told == {"doomed", "stopping", "done"}

\* A handler waits for a speech that was told to stop and that it can go on without: it
\* is at a text, which starts the next speech, or at an interruption, which goes on to
\* the callback.
WaitInv ==
  \A h \in Responses : wait[h] \in Speeches =>
    speech[wait[h]] \in Told /\ Head(todo[h]) \in {"text", "interrupted"}

WaitsForAnEnd == WaitInv /\ CallbackInv

\* A speech that was told to stop is never started again.
LEMMA ToldStays ==
  ASSUME IInv, [Next]_vars, NEW s \in Speeches, speech[s] \in Told
  PROVE  speech'[s] \in Told
<1>1. speech \in [Speeches -> SpeechStates]
  BY DEF IInv, Types, SpeechType
<1>2. CASE UNCHANGED speech
  BY <1>2
<1>3. CASE speech' = Cancelled(active)
  BY <1>1, <1>3 DEF Cancelled, Told
<1>4. CASE Launch
  <2>1. PICK k \in 0 .. MaxSpeeches : Started = 1 .. k
    BY DEF IInv, CountInv
  <2>2. Cardinality(Started) = k /\ k \in Nat
    BY <2>1, Bounds, FS_Interval
  <2>3. speech' = [speech EXCEPT ![k + 1] = "created"]
    BY <1>4, <2>2 DEF Launch, Started
  <2>4. s # k + 1
    BY <2>1, <2>2 DEF Started, Told
  <2> QED
    BY <1>1, <2>3, <2>4
<1>5. ASSUME NEW x \in Speeches, Speak(x) \/ SpeechEnds(x) \/ SpeechNeverRan(x)
      PROVE  speech'[s] \in Told
  BY <1>1, <1>5 DEF Speak, SpeechEnds, SpeechNeverRan, Told
<1>6. ASSUME NEW h \in Responses, HandlerStep(h)
      PROVE  speech'[s] \in Told
  BY <1>2, <1>3, <1>4, <1>6 DEF HandlerStep, HandlerEnds, ToolCall, Note, AudioPart, TurnComplete, TextPart,
     TextResumes, InterruptedPart, SpeechSilenced, CallbackEnds, speechVars
<1>7. CASE \/ \E m \in Messages : Receive(m)
           \/ BusStep \/ StopLoop \/ CancelHandlers \/ UNCHANGED vars
           \/ \E batch \in encoding : Encoded(batch)
  BY <1>2, <1>7 DEF Receive, BusStep, Handle, AudioChunk, AudioTurn, AudioInterrupted, StopLoop,
     CancelHandlers, Encoded, vars, speechVars
<1> QED
  BY <1>5, <1>6, <1>7 DEF Next

LEMMA WaitStep ==
  ASSUME IInv, WaitInv, [Next]_vars
  PROVE  WaitInv'
<1>1. \A s \in Speeches : speech[s] \in Told => speech'[s] \in Told
  BY ToldStays
<1>2. wait \in [Responses -> 0 .. Callback] /\ todo \in [Responses -> Seq(Parts)]
  BY DEF IInv, Types, HandlerType
<1>3. CASE UNCHANGED <<wait, todo>>
  BY <1>1, <1>3 DEF WaitInv
<1>4. CASE Handle
  <2> DEFINE k == Head(queue).from
  <2>1. Waiting(k)
    BY <1>4, WaitingHandled DEF IInv, Types
  <2>2. wait' = wait /\ todo' = [todo EXCEPT ![k] = log[k]]
    BY <1>4 DEF Handle
  <2> HIDE DEF k
  <2>3. wait[k] \notin Speeches
    BY <2>1, WaitingIdle, Bounds DEF IInv, Types, Busy, Suspended
  <2> QED
    BY <1>1, <1>2, <2>2, <2>3 DEF WaitInv
<1>5. CASE CancelHandlers
  <2>1. /\ todo' = [h \in Responses |-> IF wait[h] = Callback THEN <<>> ELSE todo[h]]
        /\ wait' = [h \in Responses |-> IF wait[h] = Callback THEN NoSpeech ELSE wait[h]]
    BY <1>5 DEF CancelHandlers
  <2> QED
    BY <1>1, <2>1, Bounds DEF WaitInv
<1>6. ASSUME NEW h \in Responses, HandlerStep(h)
      PROVE  WaitInv'
  <2>1. CASE MustCancel /\ speech' = Cancelled(active) /\ UNCHANGED todo
             /\ wait' = [wait EXCEPT ![h] = active] /\ Head(todo[h]) \in {"text", "interrupted"}
    <3>1. active \in Speeches /\ speech'[active] \in Told
      BY <2>1 DEF MustCancel, Unfinished, Cancelled, Told, IInv, Types, SpeechType, SpeechStates
    <3> QED
      BY <1>1, <1>2, <2>1, <3>1 DEF WaitInv
  <2>2. CASE wait' = [wait EXCEPT ![h] = Callback] /\ UNCHANGED todo
    BY <1>1, <1>2, <2>2, Bounds DEF WaitInv
  <2>3. CASE wait' = [wait EXCEPT ![h] = NoSpeech] /\ todo' = [todo EXCEPT ![h] = Tail(@)]
    BY <1>1, <1>2, <2>3, Bounds DEF WaitInv
  <2>4. CASE cur = h /\ UNCHANGED wait /\ todo' = [todo EXCEPT ![h] = Tail(@)]
    <3>1. wait[h] \notin Speeches
      BY <2>4, Bounds DEF IInv, OrderInv, LocalInv, Suspended
    <3> QED
      BY <1>1, <1>2, <2>4, <3>1 DEF WaitInv
  <2>5. CASE TextPart(h) \/ InterruptedPart(h) \/ SpeechSilenced(h)
    BY <2>1, <2>2, <2>4, <2>5 DEF TextPart, InterruptedPart, SpeechSilenced, NextPart, AwaitFor, PartDone, Keep
  <2>6. CASE TextResumes(h) \/ CallbackEnds(h)
    BY <2>3, <2>6 DEF TextResumes, CallbackEnds, PartDone
  <2>7. CASE HandlerEnds(h) \/ ToolCall(h) \/ Note(h) \/ AudioPart(h) \/ TurnComplete(h)
    BY <1>3, <2>4, <2>7 DEF HandlerEnds, ToolCall, Note, AudioPart, TurnComplete, NextPart, PartDone, Keep
  <2> QED
    BY <1>6, <2>5, <2>6, <2>7 DEF HandlerStep
<1>7. CASE \/ \E m \in Messages : Receive(m)
           \/ AudioChunk \/ AudioTurn \/ AudioInterrupted \/ StopLoop \/ UNCHANGED vars
           \/ \E s \in Speeches : Speak(s) \/ SpeechEnds(s) \/ SpeechNeverRan(s)
           \/ \E batch \in encoding : Encoded(batch)
  BY <1>3, <1>7 DEF Receive, AudioChunk, AudioTurn, AudioInterrupted, StopLoop, Speak, SpeechEnds,
                    SpeechNeverRan, Encoded, vars, handlerVars
<1> QED
  BY <1>4, <1>5, <1>6, <1>7 DEF Next, BusStep

\* What NoHandlerHangs rests on besides fairness: however handlers overlap and the bus shuts
\* down, a suspended handler awaits a speech that was cancelled, which nothing revives, or the
\* callback of an interruption, and is at a part that goes on after it (_cancel_active_tts and
\* _start_tts_task in core/decision_making.py).
THEOREM WaitsEnd == Spec => []WaitsForAnEnd
<1>1. Init => WaitsForAnEnd
  BY Bounds DEF Init, WaitsForAnEnd, WaitInv, CallbackInv
<1>2. IInv /\ WaitsForAnEnd /\ [Next]_vars => WaitsForAnEnd'
  BY WaitStep, CallbackStep DEF WaitsForAnEnd, IInv
<1> QED
  BY <1>1, <1>2, InvHolds, PTL DEF Spec
===============================================================================
