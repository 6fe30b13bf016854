----------------------------- MODULE MCLiveSession -----------------------------
(* Small instances of the session, each aimed at one of the cases. *)
EXTENDS LiveSession

CONSTANTS b1, b2

Kinds == {"drops", "streams", "failures", "turns", "interrupts", "utterances", "texts", "leaves"}
Nothing == [tools |-> <<>>, heartbeat |-> "none"] @@ [k \in Kinds |-> 0]
Both(tools) == [b \in {b1, b2} |-> tools]

SmallInstances == {some @@ Nothing : some \in {
  \* overlapping batches: writes that fail, authorizations, a session that is closed
  [tools |-> Both(<<"pick", "sit">>), texts |-> 1, failures |-> 1],
  [tools |-> Both(<<"sit">>), texts |-> 1, utterances |-> 2],
  [tools |-> Both(<<"pick">>), texts |-> 1, leaves |-> 1],
  \* the event-driven heartbeat around a tool, interruptions and a lost stream
  [tools |-> [b \in {b1, b2} |-> IF b = b1 THEN <<"pick">> ELSE <<>>], heartbeat |-> "events", turns |-> 2, interrupts |-> 1],
  [heartbeat |-> "events", drops |-> 1, streams |-> 1, turns |-> 1],
  \* the other heartbeat, the user's text and a reconnect that may fail
  [tools |-> [b \in {b1} |-> <<"pick">>], heartbeat |-> "interval", texts |-> 1],
  [heartbeat |-> "interval", drops |-> 1, streams |-> 1, texts |-> 1, turns |-> 1],
  \* a reconnection between the user's frame and the text, and sessions closed meanwhile
  [drops |-> 1, streams |-> 2, failures |-> 1, texts |-> 1, leaves |-> 1],
  \* streams lost again and again
  [drops |-> 3, streams |-> 3, failures |-> 1, leaves |-> 1],
  [drops |-> 2, streams |-> 2, failures |-> 1, texts |-> 1]}}

\* A user who asks to sit, once, and goes on talking.
SitInstances == {[tools |-> Both(<<"sit">>), utterances |-> 2] @@ Nothing}
===============================================================================
