----------------------------- MODULE RequestQueue -----------------------------
(***************************************************************************)
(* What a CASConnection promises the callers of its exchanges, whatever    *)
(* happens to sockets and sessions: requests settle in the order they were *)
(* issued; an answer means the request ran exactly once; a failure leaves  *)
(* open whether it ran, or runs yet; everything else means it never runs.  *)
(***************************************************************************)
EXTENDS Naturals, Sequences

VARIABLES
  told,   \* what the caller of each request was told
  runs    \* how often the server ran each request

Verdicts == {"answered", "failed", "unsent", "none"}

Init == told = <<>> /\ runs = <<>>

Requests == DOMAIN told

\* The requests settle one after another, so this is the one being worked on.
Current(id) ==
  /\ id \in Requests /\ told[id] = "waiting"
  /\ \A earlier \in Requests : earlier < id => told[earlier] # "waiting"

Submit ==
  /\ told' = Append(told, "waiting")
  /\ runs' = Append(runs, 0)

\* At most once: while it is current, or later if its failure was all the
\* client learnt of it.
Run(id) ==
  /\ runs[id] = 0
  /\ Current(id) \/ told[id] = "failed"
  /\ runs' = [runs EXCEPT ![id] = 1]
  /\ UNCHANGED told

Tell(id, verdict) ==
  /\ Current(id)
  /\ verdict = "answered" => runs[id] = 1
  /\ verdict \in {"unsent", "none"} => runs[id] = 0
  /\ told' = [told EXCEPT ![id] = verdict]
  /\ UNCHANGED runs

Next ==
  \/ Submit
  \/ \E id \in Requests : Run(id) \/ \E verdict \in Verdicts : Tell(id, verdict)

Spec == Init /\ [][Next]_<<told, runs>>
=============================================================================
