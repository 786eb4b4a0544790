-------------------------- MODULE ServiceLifecycle --------------------------
(***************************************************************************)
(* What the service promises to whoever runs it: it starts or ends, it     *)
(* serves, it recovers from a fault as often as it takes, it stops for no  *)
(* other reason than a request (or, with a limit on the recoveries, after  *)
(* too many of them), and a request to stop is always honoured.            *)
(***************************************************************************)
CONSTANTS
    MayFault,      \* can serving be interrupted by a fault?
    MayGiveUp      \* is there a limit on the recoveries?

VARIABLES phase, asked

vars == <<phase, asked>>

Init == phase = "starting" /\ asked = FALSE

Move(from, to) == phase \in from /\ phase' = to

(* A request; one that comes early in the start ends the service at once.  *)
Ask == ~asked /\ asked' = TRUE /\ UNCHANGED phase
DieAsked == ~asked /\ asked' = TRUE /\ Move({"starting"}, "ended")

StartFails == Move({"starting"}, "ended") /\ UNCHANGED asked
StartIsUndone == Move({"starting"}, "stopping") /\ UNCHANGED asked
Serve == Move({"starting", "recovering"}, "serving") /\ UNCHANGED asked
Fault == MayFault /\ Move({"serving"}, "recovering") /\ UNCHANGED asked
Stop == (asked \/ MayGiveUp) /\ Move({"serving", "recovering"}, "stopping") /\ UNCHANGED asked
End == Move({"stopping"}, "ended") /\ UNCHANGED asked

Next == Ask \/ DieAsked \/ StartFails \/ StartIsUndone \/ Serve \/ Fault \/ Stop \/ End

Spec == Init /\ [][Next]_vars

(* The start comes to an end, a request to stop is acted on although the   *)
(* service may still fault and recover, and stopping comes to an end.      *)
Fairness ==
    /\ WF_vars(phase = "starting" /\ Next /\ phase' # "starting")
    /\ WF_vars(asked /\ Stop)
    /\ WF_vars(End)

FairSpec == Spec /\ Fairness
=============================================================================
