------------------------------ MODULE LiveSession ------------------------------
(***************************************************************************)
(* The session itself (session_manager.py, core/observation.py,            *)
(* model/live_api_client.py): the main loop of start_session, reconnecting *)
(* when a stream ends, both forms of the heartbeat, the task that sends    *)
(* the user's text, and the clean-up.  Between two awaits a task is not    *)
(* interrupted; Send runs on threads.  A bus event whose handlers do not   *)
(* await is handled where it is published.                                 *)
(***************************************************************************)
EXTENDS ToolCalls

CONSTANTS Instances  \* bounds: the instances explored, and in each what may happen

IsInstance(i) ==
  /\ i \in [tools : {i.tools}, heartbeat : {"events", "interval", "none"}, drops : Nat, streams : Nat,
            failures : Nat, turns : Nat, interrupts : Nat, utterances : Nat, texts : Nat, leaves : Nat]
  /\ DOMAIN i.tools \subseteq Batches /\ \A b \in DOMAIN i.tools : i.tools[b] \in Seq(STRING)

ASSUME InstancesAssumption == \A i \in Instances : IsInstance(i)

MaxRetries == 3

VARIABLES
  streams,      \* every stream made: "live", "ended" (its reader called on_done), "shut"
  current,      \* self.stream, 0 for None
  lastWritten,  \* history: per stream, the last message written
  main,         \* the main loop: "run", "sleep", "setup", "closing", "stopped", "closed"
  attempt,      \* of _reconnect
  rapid,        \* _rapid_reconnect_count
  ui,           \* ui_queue
  hb,           \* where the heartbeat's task is
  signal,       \* heartbeat_signal, heartbeat_trigger
  recent,       \* the last prompt is less than 0.5 s old
  interrupted,  \* _interrupted
  text          \* where the task that sends the user's text is

streamVars == <<streams, current, lastWritten>>
mainVars == <<main, attempt, rapid>>
hbVars == <<hb, signal, recent, interrupted>>
vars == <<left, writerVars, toolVars, streamVars, mainVars, ui, hbVars, text>>

Init ==
  /\ left \in Instances
  /\ ToolsInit
  /\ streams = <<"live">> /\ current = 1 /\ lastWritten = <<"setup">>
  /\ main = "run" /\ attempt = 0 /\ rapid = 0
  /\ ui = <<>>
  /\ hb = CASE left.heartbeat = "events" -> "wait" [] left.heartbeat = "interval" -> "gap" [] OTHER -> "off"
  /\ signal = (hb = "wait") /\ recent = FALSE /\ interrupted = FALSE
  /\ text = "idle"

Ending == main \in {"closing", "stopped", "closed"}
Tell(events) == ui' = IF Ending THEN ui ELSE ui \o events

-------------------------------------------------------------------------------
(* Writing.                                                                  *)

\* The holder of the lock hands its next message to a thread.
Write ==
  /\ lockQueue # <<>> /\ current # 0
  /\ LET job == Head(lockQueue) IN
     /\ ~\E w \in writes : w.by = job.by
     /\ writes' = writes \cup {[by |-> job.by, to |-> current,
                                message |-> Head(job.messages), after |-> job.after]}
  /\ UNCHANGED <<left, lockQueue, toolVars, streamVars, mainVars, ui, hbVars, text>>

\* Mutant: each message takes the lock for itself.
KeepTurn(job, to) == Append(Tail(lockQueue), [job EXCEPT !.messages = Tail(@), !.after = to])

\* Several messages are written under one lock.
KeepLock(job, to) == <<[job EXCEPT !.messages = Tail(@), !.after = to]>> \o Tail(lockQueue)

TextSent(ok) ==
  /\ text' = IF ok THEN "idle" ELSE "dead"
  /\ Tell(IF ok THEN <<>> ELSE <<"error">>)
  /\ lockQueue' = Tail(lockQueue)
  /\ UNCHANGED <<toolVars, hbVars>>

\* The event-driven loop pauses after a failure, the other one ends.
HeartbeatSent(ok) ==
  /\ CASE ok /\ hb = "video" ->
            hb' = "prompt" /\ signal' = FALSE /\ lockQueue' = Append(Tail(lockQueue), Job("hb", <<"prompt">>))
       [] OTHER ->
            /\ hb' = IF ok THEN (IF left.heartbeat = "events" THEN "wait" ELSE "gap")
                     ELSE IF left.heartbeat = "events" THEN "pause" ELSE "dead"
            /\ lockQueue' = Tail(lockQueue)
            /\ UNCHANGED signal
  /\ recent' = (recent \/ (ok /\ hb = "prompt"))
  /\ UNCHANGED <<toolVars, ui, interrupted, text>>

\* Mutant: a reconnect whose setup fails is given up without a trace.
RetryForgotten(ok) == main' = "run" /\ UNCHANGED attempt

\* A failed attempt is followed by the next, until they are used up.
Retry(ok) ==
  /\ main' = IF ok THEN "run" ELSE IF attempt < MaxRetries THEN "sleep" ELSE "closing"
  /\ attempt' = IF ok \/ attempt = MaxRetries THEN attempt ELSE attempt + 1

\* A thread ends: it wrote its message, or the stream could not take it.
WriteEnds(w, ok) ==
  /\ w \in writes
  /\ writes' = writes \ {w}
  /\ IF ok THEN streams[w.to] # "shut" /\ UNCHANGED left
     ELSE IF streams[w.to] = "live" THEN Spend("failures") ELSE UNCHANGED left
  /\ lastWritten' = IF ok THEN [lastWritten EXCEPT ![w.to] = w.message] ELSE lastWritten
  /\ CASE w.by = "setup" -> Retry(ok) /\ UNCHANGED <<lockQueue, toolVars, ui, hbVars, text>>
       [] w.by = "nobody" -> UNCHANGED <<lockQueue, toolVars, main, attempt, ui, hbVars, text>>
       [] OTHER ->
            LET job == Head(lockQueue) IN
            /\ UNCHANGED <<main, attempt>>
            /\ IF ok /\ Len(job.messages) > 1
               THEN lockQueue' = KeepLock(job, w.to) /\ UNCHANGED <<toolVars, ui, hbVars, text>>
               ELSE CASE w.by = "text" -> TextSent(ok)
                      [] w.by = "hb" -> HeartbeatSent(ok)
                      [] OTHER -> BatchSent(w.by, ok) /\ UNCHANGED <<ui, hbVars, text>>
  /\ UNCHANGED <<streams, current, rapid>>

\* The numbers of S in increasing order.
Ascending(S) ==
  CHOOSE f \in [1 .. Cardinality(S) -> S] : \A i, j \in 1 .. Cardinality(S) : i < j => f[i] < f[j]

\* The threads of cancelled tasks go on writing, and nobody awaits them.
Abandoned(who) == {IF w.by \in who THEN [w EXCEPT !.by = "nobody"] ELSE w : w \in writes}

\* Cancelled tasks leave the lock.
Drop(who) ==
  /\ LET order == Ascending({i \in DOMAIN lockQueue : lockQueue[i].by \notin who}) IN
     lockQueue' = [i \in DOMAIN order |-> lockQueue[order[i]]]
  /\ writes' = Abandoned(who)

-------------------------------------------------------------------------------
(* What arrives from the model and the user.                                 *)

\* _read_loop ends: on_done publishes SESSION_DONE.
StreamEnds(s) ==
  /\ streams[s] = "live" /\ Spend("drops")
  /\ streams' = [streams EXCEPT ![s] = "ended"]
  /\ Tell(<<"done">>)
  /\ UNCHANGED <<writerVars, toolVars, current, lastWritten, mainVars, hbVars, text>>

Heard == ~Ending /\ \E s \in DOMAIN streams : streams[s] = "live"
Quiet == UNCHANGED <<writerVars, streamVars, mainVars, text>>

ModelCalls(b) ==
  /\ Heard /\ b \in DOMAIN left.tools /\ stage[b] = "none"
  /\ stage' = [stage EXCEPT ![b] = "posted"]
  /\ calls' = [calls EXCEPT ![b] = left.tools[b]]
  /\ UNCHANGED <<left, blocking, sitVars, ui, hbVars>> /\ Quiet

\* TURN_COMPLETE: _on_heartbeat_trigger, and the event for the UI.
TurnCompletes(hadTools) ==
  /\ Heard /\ Spend("turns")
  /\ Tell(<<"turn">>)
  /\ IF left.heartbeat # "events" THEN UNCHANGED <<signal, interrupted>>
     ELSE /\ interrupted' = FALSE
          /\ signal' = (signal \/ (~interrupted /\ ~recent /\ ~hadTools))
  /\ UNCHANGED <<toolVars, hb, recent>> /\ Quiet

Interrupted ==
  /\ Heard /\ Spend("interrupts")
  /\ Tell(<<"interrupted">>)
  /\ interrupted' = (left.heartbeat = "events")
  /\ UNCHANGED <<toolVars, hb, signal, recent>> /\ Quiet

UserSpeaks(words) ==
  /\ Heard /\ Spend("utterances")
  /\ Instructed(FALSE, words)
  /\ UNCHANGED <<ui, hbVars>> /\ Quiet

\* _send_text takes a text, announces it and waits for a frame to send with it.
UserTypes(words) ==
  /\ text = "idle" /\ ~Ending /\ Spend("texts")
  /\ text' = "frame"
  /\ Instructed(TRUE, words)
  /\ UNCHANGED <<writerVars, streamVars, mainVars, ui, hbVars>>

TextFrame ==
  /\ text = "frame"
  /\ text' = "send"
  /\ \E messages \in {<<"frame", "text">>, <<"text">>} : lockQueue' = Append(lockQueue, Job("text", messages))
  /\ UNCHANGED <<left, writes, toolVars, streamVars, mainVars, ui, hbVars>>

-------------------------------------------------------------------------------
(* The heartbeat.                                                            *)

\* The loop wakes: on its signal, or because its timeout or its delay is over.  The
\* interval loop may then wait for a speech to end, and does not look for tools again.
HeartbeatWakes ==
  /\ hb \in {"wait", "gap", "speech", "pause"}
  /\ \/ hb = "pause" /\ hb' = "wait" /\ UNCHANGED <<signal, lockQueue>>
     \/ hb \in {"wait", "gap"} /\ blocking.set /\ hb' = hb /\ signal' = (signal /\ hb = "gap") /\ UNCHANGED lockQueue
     \/ hb = "wait" /\ ~blocking.set /\ hb' = "frame" /\ UNCHANGED <<signal, lockQueue>>
     \/ hb = "gap" /\ ~blocking.set /\ hb' = "speech" /\ UNCHANGED <<signal, lockQueue>>
     \/ /\ hb = "speech" \/ (hb = "gap" /\ ~blocking.set)
        /\ hb' = "prompt" /\ signal' = FALSE /\ lockQueue' = Append(lockQueue, Job("hb", <<"prompt">>))
  /\ UNCHANGED <<left, writes, toolVars, streamVars, mainVars, ui, recent, interrupted, text>>

\* With a poller its frame is sent first; else a frame sent meanwhile is waited for.
HeartbeatFrame ==
  /\ hb = "frame"
  /\ \E next \in {"video", "prompt"} :
       /\ hb' = next
       /\ signal' = (signal /\ next = "video")
       /\ lockQueue' = Append(lockQueue, Job("hb", <<next>>))
  /\ UNCHANGED <<left, writes, toolVars, streamVars, mainVars, ui, recent, interrupted, text>>

Later ==
  /\ recent /\ recent' = FALSE
  /\ UNCHANGED <<left, writerVars, toolVars, streamVars, mainVars, ui, hb, signal, interrupted, text>>

-------------------------------------------------------------------------------
(* The main loop.                                                            *)

\* _reconnect, entered: a stream that is lost soon again and again is given up.  Three
\* attempts take more than the five seconds that count as soon.
Reconnect(soon) ==
  /\ soon => attempt < MaxRetries
  /\ rapid' = IF soon THEN rapid + 1 ELSE 0
  /\ IF rapid' >= MaxRetries THEN main' = "closing" /\ UNCHANGED attempt
                             ELSE main' = "sleep" /\ attempt' = 1

Consume ==
  /\ main = "run" /\ ui # <<>>
  /\ ui' = Tail(ui)
  /\ IF Head(ui) = "done" THEN \E soon \in BOOLEAN : Reconnect(soon) ELSE UNCHANGED mainVars
  /\ signal' = (signal \/ (Head(ui) = "turn" /\ left.heartbeat = "interval"))
  /\ UNCHANGED <<left, writerVars, toolVars, streamVars, hb, recent, interrupted, text>>

\* The attempt, after its delay: the new stream replaces the old one, then it is set up.
Attempt ==
  /\ main = "sleep"
  /\ \/ /\ Spend("streams")
        /\ streams' = Append(streams, "live") /\ current' = Len(streams')
        /\ lastWritten' = Append(lastWritten, "none")
        /\ writes' = writes \cup {[by |-> "setup", to |-> current', message |-> "setup", after |-> 0]}
        /\ main' = "setup"
        /\ UNCHANGED attempt
     \/ Retry(FALSE) /\ UNCHANGED <<left, writes, streamVars>>
  /\ UNCHANGED <<lockQueue, toolVars, rapid, ui, hbVars, text>>

\* The application closes the session: the task that consumes its events is cancelled
\* where it awaits, also within _reconnect, whose setup message may be on its thread.
Leave ==
  /\ main \in {"run", "sleep", "setup"} /\ Spend("leaves")
  /\ main' = "closing"
  /\ writes' = Abandoned({"setup"})
  /\ UNCHANGED <<lockQueue, toolVars, streamVars, attempt, rapid, ui, hbVars, text>>

\* Mutant: the heartbeat is left to itself.
OnlyText == {"text"}

InputTasks == {"hb", "text"}

\* finally: the heartbeat and the input tasks are cancelled,
StopInput ==
  /\ main = "closing"
  /\ main' = "stopped"
  /\ hb' = IF "hb" \in InputTasks THEN "off" ELSE hb
  /\ text' = "off"
  /\ Drop(InputTasks)
  /\ UNCHANGED <<left, toolVars, streamVars, attempt, rapid, ui, signal, recent, interrupted>>

\* then the handlers, and then the stream is shut.
StopBus ==
  /\ main = "stopped"
  /\ main' = "closed"
  /\ CancelBatches(Left(Cardinality(ActiveBlocking), blocking))
  /\ Drop(Batches)
  /\ streams' = [streams EXCEPT ![current] = "shut"]
  /\ current' = 0
  /\ UNCHANGED <<left, sitVars, lastWritten, attempt, rapid, ui, hbVars, text>>

-------------------------------------------------------------------------------
NotAsked == [sit |-> FALSE, never |-> FALSE]
Words == {[sit |-> TRUE, never |-> FALSE], [sit |-> TRUE, never |-> TRUE], NotAsked}

BatchStep(b) ==
  /\ BeginBatch(b) \/ Invoked(b) \/ FrameOrTimeout(b)
  /\ UNCHANGED <<streamVars, mainVars, ui, hbVars, text>>

WriteEndsBy(by) == \E w \in writes, ok \in BOOLEAN : w.by = by /\ WriteEnds(w, ok)
Writers == Batches \cup {"hb", "text", "setup", "nobody"}
Heartbeat == HeartbeatWakes \/ HeartbeatFrame \/ Later
Main == Consume \/ Attempt \/ StopInput \/ StopBus

Next ==
  \/ Write \/ Heartbeat \/ Main \/ TextFrame \/ Leave
  \/ \E by \in Writers : WriteEndsBy(by)
  \/ \E b \in Batches : BatchStep(b) \/ ModelCalls(b)
  \/ \E s \in DOMAIN streams : StreamEnds(s)
  \/ \E hadTools \in BOOLEAN : TurnCompletes(hadTools)
  \/ Interrupted
  \/ \E words \in Words : UserSpeaks(words) \/ UserTypes(words)

Spec == Init /\ [][Next]_vars

\* Tools return, Send returns, frames arrive or time out, and the application asks for
\* the next event.
FairSpec ==
  /\ Spec
  /\ WF_vars(Write) /\ WF_vars(Main) /\ WF_vars(TextFrame) /\ WF_vars(HeartbeatFrame)
  /\ \A by \in Writers : WF_vars(WriteEndsBy(by))
  /\ \A b \in Batches : WF_vars(BatchStep(b))
-------------------------------------------------------------------------------
TypeOK ==
  /\ left.heartbeat \in {"events", "interval", "none"}
  /\ current \in 0 .. Len(streams) /\ ToSet(streams) \subseteq {"live", "ended", "shut"}
  /\ attempt \in 0 .. MaxRetries /\ rapid \in 0 .. MaxRetries
  /\ \A w \in writes : w.by \in Writers /\ w.to \in DOMAIN streams
  /\ \A by \in Writers : Cardinality({i \in DOMAIN lockQueue : lockQueue[i].by = by}) <= 1
  /\ blocking.count \in 0 .. Cardinality(Batches) /\ blocking.set \in BOOLEAN

\* The variables have their types, reconnections their limits, and the event that keeps
\* heartbeats back is set exactly while a blocking tool of some batch is in progress,
\* whatever fails, overlaps or is cancelled. (tool_call_handler.py:175, 252)
FlagMeansTool ==
  /\ TypeOK
  /\ blocking.set <=> ActiveBlocking # {}
  /\ blocking.count = Cardinality(ActiveBlocking)

\* What the user said since, and with, the last text typed.
SaidNow == {i \in DOMAIN said : \A j \in DOMAIN said : said[j].typed => j <= i}

\* The robot only sits down if the user said or typed something since it sat down last,
\* and if somewhere in what counts now a sit is asked for and nowhere forbidden, however
\* batches repeat the call and instructions arrive between them.  It does not say that
\* each sit was asked for anew: see SitPerRequest. (tool_call_handler.py:262-270, 333)
SitIsWanted ==
  [][sits' # sits =>
       /\ sits' = sits + 1 /\ sitAt < Len(said)
       /\ \E i \in SaidNow : said[i].sit
       /\ \A i \in SaidNow : ~said[i].never]_vars

\* "Authorize one sit call only after an explicit user request"
\* (tool_call_handler.py:263): there are no more sits than instructions that ask for one.
SitPerRequest == sits <= Cardinality({i \in DOMAIN said : said[i].sit /\ ~said[i].never})

\* When the session is closed none of its tasks goes on: nobody waits to write, no tool
\* and no heartbeat is left, no Send is awaited, and the stream made last is shut, also
\* if the session was closed while it reconnected.  A Send may still be on its thread.
\* (session_manager.py:345-352, 675-696)
ClosedIsQuiet ==
  main = "closed" =>
    /\ lockQueue = <<>> /\ Active = {} /\ hb = "off" /\ text = "off"
    /\ current = 0 /\ streams[Len(streams)] = "shut"
    /\ \A w \in writes : w.by = "nobody"

\* Under the lock nothing comes between a frame and the user's text but the setup of a
\* reconnect, which does not take the lock: on the stream of its frame the text follows
\* the frame or the setup.  A reconnect between the two sends takes the text to the new
\* stream, which has had nothing but its setup, if that, and no frame; the docstring
\* "Atomically send a current Spot frame followed by user text" (session_manager.py:159)
\* does not hold then. (session_manager.py:192-194, 347)
TextFollowsFrame ==
  [][\A w \in writes \ writes' :
       (w.by = "text" /\ w.message = "text" /\ w.after # 0 /\ lastWritten'[w.to] = "text")
         => lastWritten[w.to] \in {"setup", IF w.to = w.after THEN "frame" ELSE "none"}]_vars

\* A lost stream is replaced or the session is closed, also if attempts fail, other
\* streams end meanwhile or the user leaves. (session_manager.py:319, 636)
LossIsHandled ==
  (current # 0 /\ streams[current] = "ended")
    ~> (main = "closed" \/ (current # 0 /\ streams[current] = "live"))
===============================================================================
