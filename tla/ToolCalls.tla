------------------------------- MODULE ToolCalls -------------------------------
(***************************************************************************)
(* The tools of a Live session (core/tool_call_handler.py) and the one     *)
(* stream all its tasks write to (SessionManager.send_message).  A         *)
(* TOOL_CALL event, here a batch, is handled by a task of its own that     *)
(* executes its calls one after the other; the batches overlap.  The       *)
(* handler's drawings on the UI are left out.                              *)
(***************************************************************************)
EXTENDS Integers, Sequences, FiniteSets, SequencesExt, FiniteSetsExt

CONSTANTS
  Batches,
  BlockingTools,  \* declared BLOCKING
  CameraTools     \* detect, pick and place: refused while the camera is not stable

\* A task has a name of its own.
ASSUME BatchesAssumption ==
  IsFiniteSet(Batches) /\ Batches \cap {"hb", "text", "setup", "nobody"} = {}

VARIABLES
  left,        \* bound: what may still happen in this instance
  lockQueue,   \* the tasks at _stream_lock, its holder first, with what they write
  writes,      \* stream.Send calls running on threads
  calls,       \* per batch, the calls not finished, the one in progress first
  stage,       \* per batch, where its task is
  blocking,    \* _blocking_execution_count and the event tool_executing
  transcript,  \* _user_transcript: whether it asks to sit, and whether it forbids it
  authorized,  \* _sit_authorized
  said,        \* history: everything the user said or typed
  sitAt,       \* history: how much of it was said when the robot last sat down
  sits         \* history: sits executed

writerVars == <<lockQueue, writes>>
sitVars == <<transcript, authorized, said, sitAt, sits>>
toolVars == <<calls, stage, blocking, sitVars>>

Spend(what) == left[what] > 0 /\ left' = [left EXCEPT ![what] = @ - 1]

\* A task that sends waits for the lock; after is the stream its last message went to.
Job(by, messages) == [by |-> by, messages |-> messages, after |-> 0]

ToolsInit ==
  /\ lockQueue = <<>> /\ writes = {}
  /\ calls = [b \in Batches |-> <<>>]
  /\ stage = [b \in Batches |-> "none"]
  /\ blocking = [count |-> 0, set |-> FALSE]
  /\ transcript = [sit |-> FALSE, never |-> FALSE]
  /\ authorized = FALSE /\ said = <<>> /\ sitAt = 0 /\ sits = 0

-------------------------------------------------------------------------------
(* One call.                                                                 *)

Entered(tool, B) == IF tool \in BlockingTools THEN [count |-> B.count + 1, set |-> TRUE] ELSE B

\* Mutant: the first of several blocking tools to end clears the event.
LeftFirst(n, B) == IF n = 0 THEN B ELSE [count |-> Max({0, B.count - n}), set |-> FALSE]

\* n blocking tools end, in the finally clause also when they fail or are cancelled.
Left(n, B) ==
  LET m == Max({0, B.count - n}) IN
  IF n = 0 THEN B ELSE [count |-> m, set |-> B.set /\ m # 0]

Blocks(tool) == IF tool \in BlockingTools THEN 1 ELSE 0

\* A blocking tool shows the model a new frame before its answer.
AfterTool(tool) == IF tool \in BlockingTools THEN "frame" ELSE "answer"

\* Mutant: the authorization is not used up.
UsedLater(tool) == UNCHANGED authorized

UsedUp(tool) == authorized' = FALSE

\* The task goes on with the rest of its batch, up to the first await.
Proceed(b, rest, B, queue) ==
  LET tool == Head(rest) IN
  IF rest = <<>>
  THEN /\ stage' = [stage EXCEPT ![b] = "over"]
       /\ blocking' = B /\ lockQueue' = queue
       /\ calls' = [calls EXCEPT ![b] = rest]
       /\ UNCHANGED sitVars
  ELSE /\ blocking' = Entered(tool, B)
       /\ calls' = [calls EXCEPT ![b] = rest]
       /\ IF tool = "sit" /\ authorized
          THEN /\ UsedUp(tool)
               /\ sits' = sits + 1 /\ sitAt' = Len(said)
               /\ UNCHANGED <<transcript, said>>
          ELSE UNCHANGED sitVars
       /\ \E next \in (IF tool = "sit" /\ ~authorized THEN {} ELSE {"invoke"})
                      \cup (IF tool \in CameraTools \/ (tool = "sit" /\ ~authorized)
                            THEN {AfterTool(tool)} ELSE {}) :
            /\ stage' = [stage EXCEPT ![b] = next]
            /\ lockQueue' = IF next = "answer" THEN Append(queue, Job(b, <<"answer">>)) ELSE queue

\* The task's first step, when the event has reached it.
BeginBatch(b) ==
  /\ stage[b] = "posted"
  /\ Proceed(b, calls[b], blocking, lockQueue)
  /\ UNCHANGED <<left, writes>>

\* execute_action returns or raises: either way there is a result.
Invoked(b) ==
  /\ stage[b] = "invoke"
  /\ LET next == AfterTool(Head(calls[b])) IN
     /\ stage' = [stage EXCEPT ![b] = next]
     /\ lockQueue' = IF next = "answer" THEN Append(lockQueue, Job(b, <<"answer">>)) ELSE lockQueue
  /\ UNCHANGED <<left, writes, calls, blocking, sitVars>>

\* send_latest_video_frame: a frame arrives, or the wait for it times out.
FrameOrTimeout(b) ==
  /\ stage[b] = "frame"
  /\ \E next \in {"video", "answer"} :
       /\ stage' = [stage EXCEPT ![b] = next]
       /\ lockQueue' = Append(lockQueue, Job(b, <<next>>))
  /\ UNCHANGED <<left, writes, calls, blocking, sitVars>>

\* What follows a send of the batch's task; a failed one fails the call, not the batch.
BatchSent(b, ok) ==
  IF stage[b] = "video" /\ ok
  THEN /\ stage' = [stage EXCEPT ![b] = "answer"]
       /\ lockQueue' = Append(Tail(lockQueue), Job(b, <<"answer">>))
       /\ UNCHANGED <<calls, blocking, sitVars>>
  ELSE Proceed(b, Tail(calls[b]), Left(Blocks(Head(calls[b])), blocking), Tail(lockQueue))

Active == {b \in Batches : stage[b] \in {"invoke", "frame", "video", "answer"}}
ActiveBlocking == {b \in Active : Head(calls[b]) \in BlockingTools}

\* bus.shutdown cancels every handler; events not yet handled are lost.
CancelBatches(B) ==
  /\ stage' = [b \in Batches |-> IF stage[b] = "none" THEN "none" ELSE "over"]
  /\ calls' = [b \in Batches |-> <<>>]
  /\ blocking' = B

\* _record_user_instruction: typed text replaces the transcript, speech extends it,
\* and what has once been said asks again with every later utterance.
Instructed(typed, words) ==
  LET heard == IF typed THEN words
               ELSE [sit |-> transcript.sit \/ words.sit, never |-> transcript.never \/ words.never] IN
  /\ transcript' = heard
  /\ authorized' = (heard.sit /\ ~heard.never)
  /\ said' = Append(said, [sit |-> words.sit, never |-> words.never, typed |-> typed])
  /\ UNCHANGED <<calls, stage, blocking, sitAt, sits>>
===============================================================================
