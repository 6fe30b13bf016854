-------------------------------- MODULE Speech --------------------------------
(***************************************************************************)
(* The event bus (core/event_bus.py) with the handlers that turn model     *)
(* responses into speech and audio: DecisionMaking (core/decision_making)  *)
(* and AudioResponseHandler (core/audio_handler.py).  All of them run on   *)
(* one asyncio loop: a handler keeps the loop (cur) until it awaits        *)
(* something that is not there yet.                                        *)
(***************************************************************************)
EXTENDS Naturals, Sequences, FiniteSets

CONSTANTS
  Messages,      \* the model responses: sequences of parts, in the order _handle reads them
  MaxResponses,  \* bound: responses received in a run
  MaxSpeeches    \* bound: speeches started in a run

ASSUME MessagesAssumption ==
  Messages \subseteq Seq({"tool", "text", "audio", "note", "turn", "interrupted"})
ASSUME BoundsAssumption == MaxResponses \in Nat /\ MaxSpeeches \in Nat \ {0}

Responses == 1 .. MaxResponses
Speeches == 1 .. MaxSpeeches
NoSpeech == 0
Callback == MaxSpeeches + 1   \* what a handler in audio_interrupt_callback waits for

VARIABLES
  bus,        \* the dispatch loop: "running", "stopping" (cancelled) or "closed"
  queue,      \* published events whose handlers have not started, oldest first
  log,        \* the responses received, in order; a handler is named by its place
  cur,        \* the handler that has the loop, or 0
  todo,       \* per handler, the parts not handled yet
  wait,       \* per handler, what it awaits: a speech, Callback or NoSpeech
  speech,     \* per speech task: "none", "created", "doomed" (created and
              \* cancelled), "running", "stopping" (running and cancelled), "done"
  active,     \* _active_tts_task
  count,      \* _pending_tts_count
  speaking,   \* the event the heartbeat loop looks at
  toolTurn,   \* _current_turn_has_tool_call
  reports,    \* history: the had_tool_call of each TURN_COMPLETE and the part it is for
  buffer,     \* audio accumulated, as the set of the parts it came from
  encoding,   \* batches of audio in _encode_wav's threads
  encoded,    \* history: batches published as AUDIO_RESPONSE
  overtaken   \* history: a response was handled while an earlier one was suspended

busVars == <<bus, queue, log>>
handlerVars == <<cur, todo, wait, overtaken>>
speechVars == <<speech, active, count, speaking>>
turnVars == <<toolTurn, reports>>
audioVars == <<buffer, encoding, encoded>>
vars == <<busVars, handlerVars, speechVars, turnVars, audioVars>>

\* A part is named by its response and its place there; this is the one h is at.
Here(h) == <<h, Len(log[h]) - Len(todo[h]) + 1>>

Unfinished == {s \in Speeches : speech[s] \notin {"none", "done"}}

Init ==
  /\ bus = "running" /\ queue = <<>> /\ log = <<>>
  /\ cur = 0 /\ overtaken = FALSE
  /\ todo = [h \in Responses |-> <<>>]
  /\ wait = [h \in Responses |-> NoSpeech]
  /\ speech = [s \in Speeches |-> "none"]
  /\ active = NoSpeech /\ count = 0 /\ speaking = FALSE
  /\ toolTurn = FALSE /\ reports = <<>>
  /\ buffer = {} /\ encoding = {} /\ encoded = {}

-------------------------------------------------------------------------------
(* The bus.                                                                  *)

\* publish never suspends: the queue is unbounded.
Published(type, place) == queue' = Append(queue, [type |-> type, from |-> place[1], part |-> place[2]])
Publish(type, h) == Published(type, Here(h))

\* A response of the model is published by the session's reader.
Receive(m) ==
  /\ cur = 0
  /\ Len(log) < MaxResponses
  /\ log' = Append(log, m)
  /\ Published("response", <<Len(log) + 1, 0>>)
  /\ UNCHANGED <<bus, handlerVars, speechVars, turnVars, audioVars>>

\* The oldest event's handler takes its first step. Tasks start in the order they
\* were created in, so the queue and the loop's ready list are one sequence here.
Dispatched(type) ==
  /\ bus = "running"
  /\ cur = 0
  /\ queue # <<>>
  /\ Head(queue).type = type
  /\ queue' = Tail(queue)
  /\ UNCHANGED <<bus, log>>

Suspended(h) == wait[h] # NoSpeech

Handle ==
  /\ Dispatched("response")
  /\ LET h == Head(queue).from IN
     /\ cur' = h
     /\ todo' = [todo EXCEPT ![h] = log[h]]
     /\ overtaken' = (overtaken \/ \E e \in Responses : e < h /\ Suspended(e))
  /\ UNCHANGED <<wait, speechVars, turnVars, audioVars>>

\* shutdown(): the dispatch loop is cancelled, and awaited, before the handlers are.
StopLoop ==
  /\ bus = "running"
  /\ cur = 0
  /\ bus' = "stopping"
  /\ UNCHANGED <<queue, log, handlerVars, speechVars, turnVars, audioVars>>

\* A handler that awaits the speech it cancelled passes its own cancellation on to
\* that speech, catches it and goes on; a handler elsewhere ends.
CancelHandlers ==
  /\ bus = "stopping"
  /\ cur = 0
  /\ bus' = "closed"
  /\ todo' = [h \in Responses |-> IF wait[h] = Callback THEN <<>> ELSE todo[h]]
  /\ wait' = [h \in Responses |-> IF wait[h] = Callback THEN NoSpeech ELSE wait[h]]
  /\ encoding' = {}
  /\ UNCHANGED <<queue, log, cur, overtaken, speechVars, turnVars, buffer, encoded>>

-------------------------------------------------------------------------------
(* DecisionMaking: one part of a response at a time.                         *)

NextPart(h, type) == cur = h /\ todo[h] # <<>> /\ Head(todo[h]) = type
PartDone(h) == todo' = [todo EXCEPT ![h] = Tail(@)]
Keep(h) == cur' = h /\ UNCHANGED <<wait, overtaken>>

AwaitFor(h, what) ==
  /\ wait' = [wait EXCEPT ![h] = what]
  /\ cur' = 0
  /\ UNCHANGED overtaken

HandlerEnds(h) ==
  /\ cur = h
  /\ todo[h] = <<>>
  /\ cur' = 0
  /\ UNCHANGED <<busVars, todo, wait, overtaken, speechVars, turnVars, audioVars>>

ToolCall(h) ==
  /\ NextPart(h, "tool")
  /\ PartDone(h) /\ Keep(h)
  /\ toolTurn' = TRUE
  /\ UNCHANGED <<busVars, speechVars, reports, audioVars>>

\* Thoughts and transcripts are published for the display only.
Note(h) ==
  /\ NextPart(h, "note")
  /\ PartDone(h) /\ Keep(h)
  /\ UNCHANGED <<busVars, speechVars, turnVars, audioVars>>

AudioPart(h) ==
  /\ NextPart(h, "audio")
  /\ PartDone(h) /\ Keep(h)
  /\ Publish("chunk", h)
  /\ UNCHANGED <<bus, log, speechVars, turnVars, audioVars>>

TurnComplete(h) ==
  /\ NextPart(h, "turn")
  /\ PartDone(h) /\ Keep(h)
  /\ reports' = Append(reports, [at |-> Here(h), tool |-> toolTurn])
  /\ toolTurn' = FALSE
  /\ Publish("turn", h)
  /\ UNCHANGED <<bus, log, speechVars, audioVars>>

\* Task.cancel(): a task that has not started will never run, its finally included.
Cancelled(s) ==
  [speech EXCEPT ![s] = CASE @ = "created" -> "doomed"
                          [] @ = "running" -> "stopping"
                          [] OTHER -> @]

\* A new speech is counted, created and remembered without giving up the loop.
Launch ==
  LET s == Cardinality({x \in Speeches : speech[x] # "none"}) + 1 IN
  /\ s \in Speeches
  /\ speech' = [speech EXCEPT ![s] = "created"]
  /\ active' = s
  /\ count' = count + 1
  /\ speaking' = TRUE

\* Mutant: the speech in progress is forgotten instead of cancelled.
ForgetsActive == FALSE

MustCancel == active \in Unfinished

\* _start_tts_task: with a speech in progress, cancel it and wait for its end.
TextPart(h) ==
  /\ NextPart(h, "text")
  /\ IF MustCancel
     THEN /\ speech' = Cancelled(active)
          /\ AwaitFor(h, active)
          /\ UNCHANGED <<todo, active, count, speaking>>
     ELSE Launch /\ PartDone(h) /\ Keep(h)
  /\ UNCHANGED <<busVars, turnVars, audioVars>>

\* The wait is over: tell the listener that the old speech stops, start the new one.
TextResumes(h) ==
  /\ cur = 0
  /\ wait[h] \in Speeches
  /\ speech[wait[h]] = "done"
  /\ Head(todo[h]) = "text"
  /\ Publish("interrupted", h)
  /\ Launch
  /\ PartDone(h)
  /\ cur' = h
  /\ wait' = [wait EXCEPT ![h] = NoSpeech]
  /\ UNCHANGED <<bus, log, overtaken, turnVars, audioVars>>

\* The model was interrupted: cancel the speech, then await the callback.
InterruptedPart(h) ==
  /\ NextPart(h, "interrupted")
  /\ IF MustCancel
     THEN speech' = Cancelled(active) /\ AwaitFor(h, active) /\ UNCHANGED active
     ELSE active' = NoSpeech /\ AwaitFor(h, Callback) /\ UNCHANGED speech
  /\ UNCHANGED <<busVars, todo, count, speaking, turnVars, audioVars>>

\* _cancel_active_tts forgets whatever speech is active now.
SpeechSilenced(h) ==
  /\ cur = 0
  /\ wait[h] \in Speeches
  /\ speech[wait[h]] = "done"
  /\ Head(todo[h]) = "interrupted"
  /\ active' = NoSpeech
  /\ AwaitFor(h, Callback)
  /\ UNCHANGED <<busVars, todo, speech, count, speaking, turnVars, audioVars>>

\* audio_interrupt_callback returned, or failed.
CallbackEnds(h) ==
  /\ cur = 0
  /\ wait[h] = Callback
  /\ cur' = h
  /\ wait' = [wait EXCEPT ![h] = NoSpeech]
  /\ PartDone(h)
  /\ Publish("interrupted", h)
  /\ UNCHANGED <<bus, log, overtaken, speechVars, turnVars, audioVars>>

-------------------------------------------------------------------------------
(* The background speech.                                                    *)

Speak(s) ==
  /\ cur = 0
  /\ speech[s] = "created"
  /\ speech' = [speech EXCEPT ![s] = "running"]
  /\ UNCHANGED <<busVars, handlerVars, active, count, speaking, turnVars, audioVars>>

\* Mutant: the flag is cleared by the first speech that ends.
ClearsAlways == TRUE

LastSpeech == count <= 1

\* Mutant: the speech in progress is cancelled while _state_lock is held.
LockHeldByWaiter == \A h \in Responses : wait[h] \notin Speeches

\* The end of a speech needs _state_lock, which nobody holds across an await.
StateLockFree == TRUE

\* A speech that ran ends by itself or by its cancellation; its finally clause counts.
SpeechEnds(s) ==
  /\ cur = 0
  /\ speech[s] \in {"running", "stopping"}
  /\ StateLockFree
  /\ speech' = [speech EXCEPT ![s] = "done"]
  /\ count' = IF count = 0 THEN 0 ELSE count - 1
  /\ speaking' = (speaking /\ ~LastSpeech)
  /\ UNCHANGED <<busVars, handlerVars, active, turnVars, audioVars>>

\* Cancelled before its first step: nothing of _run_tts_background is executed.
SpeechNeverRan(s) ==
  /\ cur = 0
  /\ speech[s] = "doomed"
  /\ speech' = [speech EXCEPT ![s] = "done"]
  /\ UNCHANGED <<busVars, handlerVars, active, count, speaking, turnVars, audioVars>>

-------------------------------------------------------------------------------
(* AudioResponseHandler.                                                     *)

AudioChunk ==
  /\ Dispatched("chunk")
  /\ buffer' = buffer \cup {<<Head(queue).from, Head(queue).part>>}
  /\ UNCHANGED <<handlerVars, speechVars, turnVars, encoding, encoded>>

\* Mutant: the buffer is encoded but not emptied.
BufferKept == buffer

BufferTaken == {}

AudioTurn ==
  /\ Dispatched("turn")
  /\ encoding' = encoding \cup ({buffer} \ {{}})
  /\ buffer' = BufferTaken
  /\ UNCHANGED <<handlerVars, speechVars, turnVars, encoded>>

AudioInterrupted ==
  /\ Dispatched("interrupted")
  /\ buffer' = {}
  /\ UNCHANGED <<handlerVars, speechVars, turnVars, encoding, encoded>>

Encoded(batch) ==
  /\ cur = 0
  /\ encoding' = encoding \ {batch}
  /\ encoded' = encoded \cup {batch}
  /\ UNCHANGED <<busVars, handlerVars, speechVars, turnVars, buffer>>

-------------------------------------------------------------------------------
HandlerStep(h) ==
  \/ HandlerEnds(h) \/ ToolCall(h) \/ Note(h) \/ AudioPart(h) \/ TurnComplete(h) \/ TextPart(h)
  \/ TextResumes(h) \/ InterruptedPart(h) \/ SpeechSilenced(h) \/ CallbackEnds(h)

BusStep == Handle \/ AudioChunk \/ AudioTurn \/ AudioInterrupted

Next ==
  \/ \E m \in Messages : Receive(m)
  \/ BusStep
  \/ StopLoop \/ CancelHandlers
  \/ \E h \in Responses : HandlerStep(h)
  \/ \E s \in Speeches : Speak(s) \/ SpeechEnds(s) \/ SpeechNeverRan(s)
  \/ \E batch \in encoding : Encoded(batch)

Spec == Init /\ [][Next]_vars

\* The loop runs every ready task; a cancelled speech gives in, the callback ends.
FairSpec ==
  /\ Spec
  /\ WF_vars(BusStep)
  /\ \A h \in Responses : WF_vars(HandlerStep(h))
  /\ \A s \in Speeches : WF_vars(SpeechEnds(s)) /\ WF_vars(SpeechNeverRan(s))

-------------------------------------------------------------------------------
(* Properties.                                                               *)

TypeOK ==
  /\ bus \in {"running", "stopping", "closed"}
  /\ queue \in Seq([type : {"response", "chunk", "turn", "interrupted"}, from : Responses, part : Nat])
  /\ log \in Seq(Messages) /\ Len(log) <= MaxResponses
  /\ cur \in Responses \cup {0}
  /\ todo \in [Responses -> Seq({"tool", "text", "audio", "note", "turn", "interrupted"})]
  /\ wait \in [Responses -> 0 .. Callback]
  /\ \A h \in Responses : Suspended(h) => cur # h /\ todo[h] # <<>>
  /\ speech \in [Speeches -> {"none", "created", "doomed", "running", "stopping", "done"}]
  /\ active \in 0 .. MaxSpeeches /\ count \in 0 .. MaxSpeeches
  /\ speaking \in BOOLEAN /\ toolTurn \in BOOLEAN /\ overtaken \in BOOLEAN
  /\ reports \in Seq([at : Responses \X Nat, tool : BOOLEAN])
  /\ buffer \subseteq Responses \X Nat
  /\ encoding \subseteq SUBSET (Responses \X Nat) /\ encoded \subseteq SUBSET (Responses \X Nat)

\* The variables have their types, and while a speech that DecisionMaking started is
\* under way the counter covers it and the flag is set, whatever was started, cancelled
\* or finished around it.  Whether a heartbeat heeds the flag is not claimed here: only
\* the interval loop tests it, before it waits for the stream. (decision_making.py:48, 109)
SpeechIsFlagged ==
  /\ TypeOK
  /\ Cardinality(Unfinished) <= count
  /\ speaking = (count > 0)

\* As long as responses are handled one after another there is at most one speech,
\* and it is the one an interruption would cancel. Only handlers that overlap in
\* _start_tts_task can leave a speech that nobody refers to.
OneVoice == ~overtaken => Unfinished \subseteq {active}

Places == UNION {{h} \X DOMAIN log[h] : h \in DOMAIN log}
Part(p) == log[p[1]][p[2]]
Before(p, q) == p[1] < q[1] \/ (p[1] = q[1] /\ p[2] < q[2])

\* No turn is complete between p and q, wherever messages begin and end.
SameTurn(p, q) == \A r \in Places : Part(r) = "turn" /\ Before(r, q) => Before(r, p)

\* A part is encoded once. Without overlap turns stay apart: TURN_COMPLETE reports a
\* tool call exactly if its own turn had one, and a batch is the audio of one turn.
TurnsStayApart ==
  /\ \A b, c \in encoding \cup encoded \cup {buffer} : b = c \/ b \cap c = {}
  /\ ~overtaken =>
       /\ \A i \in DOMAIN reports :
            reports[i].tool = \E p \in Places : /\ Part(p) = "tool" /\ Before(p, reports[i].at)
                                               /\ SameTurn(p, reports[i].at)
       /\ \A b \in encoding \cup encoded : \A p, q \in b : SameTurn(p, q)

\* A handler that awaits the end of a speech it cancelled goes on, as the lock that
\* the speech needs to end is not held by it, also when the bus is shut down.
NoHandlerHangs == \A h \in Responses : wait[h] # NoSpeech ~> wait[h] = NoSpeech

\* "The speaking counter is always decremented in the finally block": the counter
\* never exceeds the speeches under way (core/decision_making.py:130).
CounterIsExact == count <= Cardinality(Unfinished)
===============================================================================
