------------------------------ MODULE Service ------------------------------
(***************************************************************************)
(* The manager as a service: its process together with the requests to     *)
(* stop that are sent to it, of which not all are heard.  sec_policy_apply *)
(* and the irqbalance steps of rt_setup_apply and rt_setup_restore call    *)
(* system(), which ignores SIGINT (and not SIGTERM) in the calling process *)
(* until the command has ended.                                            *)
(***************************************************************************)
EXTENDS Manager

CONSTANT Signals     \* the signals that are used to stop the service

ASSUME SignalAssumption == Signals \subseteq {"SIGINT", "SIGTERM"} /\ Signals # {}

VARIABLE asked       \* has anyone asked the service to stop?

service == <<vars, asked>>

ServiceInit == Init /\ asked = FALSE

(* Any step of the manager; a signal that is heard clears g_running or     *)
(* kills the process.                                                      *)
ManagerStep ==
    /\ Next
    /\ asked' = (asked \/ (g_running /\ ~g_running') \/ exit' = "killed")

(* The calls in which main may be inside system().                         *)
InSystem ==
    \/ pc = "security" /\ config.security
    \/ pc \in {"realtime", "cleanup_rt"} /\ config.realtime

IgnoredSigint ==
    /\ "SIGINT" \in Signals
    /\ InSystem
    /\ ~asked /\ asked' = TRUE
    /\ UNCHANGED vars

ServiceNext == ManagerStep \/ IgnoredSigint

ServiceSpec == ServiceInit /\ [][ServiceNext]_service

(* The fairness of Manager: the program goes on, and a start that is       *)
(* attempted again and again succeeds in the end.                          *)
FairServiceSpec ==
    /\ ServiceSpec
    /\ WF_service(ManagerStep /\ Program)
    /\ SF_service(ManagerStep /\ Restart(PLUG_ALL))

----------------------------------------------------------------------------
(* Properties.                                                             *)

phase ==
    CASE pc \in StartupPc -> "starting"
      [] pc \in LoopPc    -> IF status = "recovering" THEN "recovering" ELSE "serving"
      [] pc = "exited"    -> "ended"
      [] OTHER            -> "stopping"

(* A request that reached signal_handler, or the process itself.           *)
Heard == ~g_running \/ exit = "killed"

Promise == INSTANCE ServiceLifecycle
             WITH asked <- Heard, MayFault <- DeviceMayFault, MayGiveUp <- MAX_RECOVERY_ATTEMPTS > 0

(* For the requests it hears, main keeps to the lifecycle of a service     *)
(* wherever they arrive: it never serves again once it has begun to stop,  *)
(* recovers only from a fault, leaves its loop only when asked or out of   *)
(* attempts, ends its start one way or the other, and lets a request to    *)
(* stop win over any sequence of faults, backoffs and restarts.            *)
ImplementsService == Promise!FairSpec

(* SIGINT and SIGTERM both lead to a graceful shutdown, as the usage text  *)
(* of main.c says.                                                         *)
RequestEndsService == asked ~> phase = "ended"
=============================================================================
