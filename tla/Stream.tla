------------------------------- MODULE Stream -------------------------------
(***************************************************************************)
(* What Pipeline.Launch promises its caller (pipeline.go:71-76): at most   *)
(* one stream at a time, and for every launch that succeeded exactly one   *)
(* end report, made while that stream still holds the pipeline.            *)
(***************************************************************************)
CONSTANT Streams          \* identities of successive launches

VARIABLES
  phase,   \* phase[s]: "unborn", "failed", "live", "ended" or "gone"
  report   \* report[s]: what onEnd was told, "none" before it is called

vars == <<phase, report>>

Results == {"clean", "noAudio", "readError"}

Free == \A s \in Streams : phase[s] \notin {"live", "ended"}

Init ==
  /\ phase = [s \in Streams |-> "unborn"]
  /\ report = [s \in Streams |-> "none"]

\* A launch that succeeds, or fails to start ffmpeg.
Begin(s) ==
  /\ Free
  /\ phase[s] = "unborn"
  /\ \E p \in {"live", "failed"} : phase' = [phase EXCEPT ![s] = p]
  /\ UNCHANGED report

\* onEnd.
End(s) ==
  /\ phase[s] = "live"
  /\ phase' = [phase EXCEPT ![s] = "ended"]
  /\ \E r \in Results : report' = [report EXCEPT ![s] = r]

\* The pipeline is free for the next launch.
Release(s) ==
  /\ phase[s] = "ended"
  /\ phase' = [phase EXCEPT ![s] = "gone"]
  /\ UNCHANGED report

Next == \E s \in Streams : Begin(s) \/ End(s) \/ Release(s)

Spec == Init /\ [][Next]_vars
=============================================================================
