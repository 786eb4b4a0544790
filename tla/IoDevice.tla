------------------------------ MODULE IoDevice ------------------------------
(***************************************************************************)
(* src/app/io_device.c under a client that calls its functions in any      *)
(* order.  The program is single-threaded: the stack calls back only from  *)
(* inside pnet_handle_periodic and pnet_factory_reset, so those two calls  *)
(* are split into the call and its return, and the callbacks are actions   *)
(* between them.                                                           *)
(***************************************************************************)
EXTENDS IoDeviceOps

VARIABLES
    dev,        \* the io_device_t of the client
    heap,       \* the stacks pnet_init has allocated, by handle
    allocated,  \* how many there are
    call,       \* the stack function the device is inside of
    ret         \* what the last function returned

vars == <<dev, heap, allocated, call, ret>>

TypeOK ==
    /\ dev \in Device
    /\ heap \in [Handle -> Stack]
    /\ allocated \in 0..MAX_STACKS
    /\ call \in {"none", "periodic", "reset"}
    /\ ret \in {0, -1}

stack == heap[dev.pnet_handle]

Init ==
    /\ dev = CleanedUp
    /\ heap = [h \in Handle |-> NewStack(0)]
    /\ allocated = 0
    /\ call = "none"
    /\ ret = 0

----------------------------------------------------------------------------
(* Lifecycle functions.                                                    *)

io_device_init ==
    /\ call = "none"
    /\ dev' = Initialized
    /\ ret' = 0
    /\ UNCHANGED <<heap, allocated, call>>

io_device_start ==
    /\ call = "none"
    /\ MayStart(dev)
    /\ \E k \in StartOutcome(allocated) :
          /\ dev' = Started(dev, allocated, k)
          /\ heap' = HeapAfterStart(heap, allocated, k)
          /\ allocated' = AllocatedAfterStart(allocated, k)
          /\ ret' = IF k = PLUG_ALL THEN 0 ELSE -1
    /\ UNCHANGED call

io_device_tick ==
    /\ call = "none"
    /\ ~TickRefused(dev)
    /\ call' = "periodic"
    /\ UNCHANGED <<dev, heap, allocated, ret>>

PeriodicReturns ==
    /\ call = "periodic"
    /\ dev' = Ticked(dev)
    /\ call' = "none"
    /\ ret' = 0
    /\ UNCHANGED <<heap, allocated>>

io_device_stop ==
    /\ call = "none"
    /\ MayStop(dev)
    /\ call' = "reset"
    /\ UNCHANGED <<dev, heap, allocated, ret>>

(* A failed reset is only reported; the device is cleaned up all the same. *)
ResetReturns ==
    /\ call = "reset"
    /\ \E ok \in BOOLEAN : heap' = [heap EXCEPT ![dev.pnet_handle] = AfterReset(@, ok)]
    /\ dev' = CleanedUp
    /\ call' = "none"
    /\ ret' = 0
    /\ UNCHANGED allocated

io_device_cleanup ==
    /\ call = "none"
    /\ dev' = CleanedUp
    /\ UNCHANGED <<heap, allocated, call, ret>>

(* The early returns.                                                      *)
Refused ==
    /\ call = "none"
    /\ \/ ~MayStart(dev)
       \/ TickRefused(dev)
       \/ ~MayStop(dev)
       \/ \E len \in 0..BUF_SIZE + 1 : ~MayUpdateInput(dev, len)
    /\ ret' = -1
    /\ UNCHANGED <<dev, heap, allocated, call>>

----------------------------------------------------------------------------
(* Data exchange.                                                          *)

io_device_update_input ==
    /\ call = "none"
    /\ \E data \in Buffer(BUF_SIZE), len \in 0..BUF_SIZE + 1 :
          /\ MayUpdateInput(dev, len)
          /\ dev' = InputCached(dev, data, len)
          /\ heap' = [heap EXCEPT ![dev.pnet_handle] = InputPushed(@, data)]
    /\ ret' = IF InputPlugged(stack) THEN 0 ELSE -1
    /\ UNCHANGED <<allocated, call>>

io_device_read_output ==
    /\ call = "none"
    /\ dev.pnet_handle # NULL
    /\ IF OutputPlugged(stack)
         THEN /\ \E len \in 0..BUF_SIZE + 1 : dev' = OutputCached(dev, stack, len)
              /\ ret' = 0
         ELSE ret' = -1 /\ UNCHANGED dev
    /\ UNCHANGED <<heap, allocated, call>>

----------------------------------------------------------------------------
(* The stack: callbacks, and the controller's process data.                *)

app_state_ind_cb ==
    /\ call # "none"
    /\ \E a \in Arep, e \in Event :
          /\ call = "reset" => e = "ABORT"
          /\ MayIndicate(stack, a, e)
          /\ dev' = StateIndication(dev, a, e)
          /\ heap' = [heap EXCEPT ![dev.pnet_handle] = ArAfter(@, a, e)]
    /\ UNCHANGED <<allocated, call, ret>>

(* The fifteen other callbacks print what they are told and return 0.     *)
PassiveIndications ==
    { "connect", "release", "dcontrol", "ccontrol", "write", "read", "exp_module",
      "exp_submodule", "new_data_status", "alarm_ind", "alarm_cnf", "alarm_ack_cnf",
      "reset", "signal_led", "sm_released" }

PassiveIndication ==
    /\ call # "none"
    /\ \E cb \in PassiveIndications : UNCHANGED vars

ControllerWritesOutput ==
    /\ call = "periodic"
    /\ Exchanging(stack) # {}
    /\ \E v \in Buffer(EXAMPLE_OUTPUT_SIZE) :
          heap' = [heap EXCEPT ![dev.pnet_handle].output = v]
    /\ UNCHANGED <<dev, allocated, call, ret>>

Next ==
    \/ io_device_init \/ io_device_start \/ io_device_tick \/ PeriodicReturns
    \/ io_device_stop \/ ResetReturns \/ io_device_cleanup \/ Refused
    \/ io_device_update_input \/ io_device_read_output
    \/ app_state_ind_cb \/ PassiveIndication \/ ControllerWritesOutput

Spec == Init /\ [][Next]_vars

----------------------------------------------------------------------------
(* Properties.                                                             *)

Up == dev.state \in {"CONNECTED", "RUNNING"}

(* The lifecycle state tells the truth about the stack.  A device that is  *)
(* CONNECTED or RUNNING has a stack with every module plugged; one that is *)
(* not up has no connection behind it and has counted no cycle, whatever   *)
(* calls and callbacks came before: app_state_ind_cb sets the state        *)
(* without looking at it, so this rests on when the stack can call back.   *)
(* While the stack is inside a periodic call the device stays up, and      *)
(* inside a factory reset it keeps its handle.                             *)
LifecycleCoherent ==
    /\ Up => dev.pnet_handle # NULL /\ stack.plugged = PLUG_ALL
    /\ dev.state \in {"IDLE", "INITIALIZED"} => dev.pnet_handle = NULL
    /\ ~Up => dev.active_arep = 0 /\ dev.cycle_count = 0
    /\ ~Up /\ dev.pnet_handle # NULL => Live(stack) = {}
    /\ call = "periodic" => Up
    /\ call = "reset" => dev.pnet_handle # NULL

(* RUNNING is never announced without an AR that exchanges data: the abort *)
(* of any AR takes the device back to CONNECTED before its peers are       *)
(* looked at.                                                              *)
RunningExchanges == dev.state = "RUNNING" => Exchanging(stack) # {}

(* The AREP that app_state_ind_cb saves is never one the stack has already *)
(* torn down.                                                              *)
ActiveArepIsLive == dev.active_arep # 0 => dev.active_arep \in Live(stack)

(* The process data that dev->input_data says was sent is what the stack   *)
(* sends: after any sequence of restarts and updates, accepted and refused *)
(* ones, the cached bytes and the stack's input submodule agree.           *)
InputCacheIsSent ==
    dev.pnet_handle # NULL /\ InputPlugged(stack) =>
        \A i \in 1..EXAMPLE_INPUT_SIZE :
            i <= dev.input_size => stack.input[i] = dev.input_data[i]

(* The device implements the lifecycle that io_device.h promises.          *)
Lifecycle == INSTANCE DeviceLifecycle
    WITH state <- dev.state, attached <- dev.pnet_handle # NULL
ImplementsLifecycle == Lifecycle!Spec
=============================================================================
