-------------------------- MODULE DeviceLifecycle --------------------------
(***************************************************************************)
(* What io_device.h promises the caller: five states, and a device that is *)
(* attached to a p-net stack or not.  Data exchange is announced only on a *)
(* device whose start succeeded, an ERROR is final until the device is     *)
(* initialised again or cleaned up, and a stack is attached only by        *)
(* io_device_start.                                                        *)
(***************************************************************************)
VARIABLES state, attached

vars == <<state, attached>>

Up == state \in {"CONNECTED", "RUNNING"}

Init == state = "IDLE" /\ ~attached

Initialize == state' = "INITIALIZED" /\ ~attached'
Start      == state = "INITIALIZED" /\ state' = "CONNECTED" /\ attached'
StartFails == state = "INITIALIZED" /\ state' = "ERROR" /\ attached' \in BOOLEAN
Establish  == Up /\ state' = "RUNNING" /\ UNCHANGED attached
Lose       == Up /\ state' = "CONNECTED" /\ UNCHANGED attached
Drop       == state' = "IDLE" /\ ~attached'

Next == Initialize \/ Start \/ StartFails \/ Establish \/ Lose \/ Drop

Spec == Init /\ [][Next]_vars
============================================================================
