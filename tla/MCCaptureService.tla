--------------------------- MODULE MCCaptureService ---------------------------
(* Small instances of the captures, each aimed at one of the cases. *)
EXTENDS CaptureService

CONSTANTS wrist, table, r1, r2

Kinds == {"rgb", "depth", "infos", "changes", "samples", "waits", "motions",
          "resets", "pauses", "closings"}
OneArm == [c \in {wrist} |-> CHOOSE a \in Arms : TRUE]

Nothing == [cameras |-> {wrist}, calibrated |-> {}, requests |-> {}, modes |-> {TRUE},
            until |-> Timeout + Margin, last |-> Timeout - 1,
            imageLags |-> {0}, sampleLags |-> {0}, moving |-> {FALSE}]
           @@ [k \in Kinds |-> 0]

Instances == {some @@ Nothing : some \in {
  \* a pair of wrist images, over samples of which some move or are missing, and of which
  \* more may arrive than are kept
  [calibrated |-> {wrist}, requests |-> {r1}, rgb |-> 1, depth |-> 1, samples |-> 4,
   sampleLags |-> {-1, 0}, moving |-> BOOLEAN],
  \* a pair around the end of a motion
  [calibrated |-> {wrist}, requests |-> {r1}, rgb |-> 1, depth |-> 1, samples |-> 2, motions |-> 1],
  \* images from before the request, which is made later
  [calibrated |-> {wrist}, requests |-> {r1}, rgb |-> 2, depth |-> 1, samples |-> 2,
   imageLags |-> {0, 1}, until |-> MaxTime],
  \* the clock moves back, and images of the old clock arrive late
  [calibrated |-> {wrist}, requests |-> {r1}, modes |-> BOOLEAN, rgb |-> 2, depth |-> 1, resets |-> 1,
   imageLags |-> {-1, 0}, until |-> MaxTime],
  \* the calibration arrives and changes
  [requests |-> {r1}, modes |-> BOOLEAN, rgb |-> 2, depth |-> 1, infos |-> 1, changes |-> 1],
  \* the fixed camera, and a bridge that closes
  [cameras |-> {table}, requests |-> {r1}, modes |-> BOOLEAN, rgb |-> 1, infos |-> 1, changes |-> 1,
   pauses |-> 1, closings |-> 1, last |-> MaxTime],
  \* two requests at once
  [cameras |-> {table}, requests |-> {r1, r2}, modes |-> BOOLEAN, rgb |-> 1, last |-> MaxTime],
  \* the wait for a measured state after a motion
  [sampleLags |-> {0, 1}, moving |-> BOOLEAN, samples |-> 3, waits |-> 1, pauses |-> 1, resets |-> 1,
   closings |-> 1]}}
===============================================================================
