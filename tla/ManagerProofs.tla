--------------------------- MODULE ManagerProofs ---------------------------
(***************************************************************************)
(* For every threshold, backoff, clock width and number of ARs: main keeps *)
(* its types; without a fault from outside it never needs its recovery     *)
(* code; it restores what it set up, counts, backs off and reports as it   *)
(* should, is never silent for too long, and, as a process that is sent    *)
(* requests, keeps the safety half of what ServiceLifecycle promises.      *)
(***************************************************************************)
EXTENDS Service, IoDeviceOpsProofs, WellFoundedInduction

USE DEF Goto, ExitWith, device, recovery, clock

(* device_init_and_start leaves a device that is up with its stack, or a   *)
(* cleaned up one.                                                         *)
LEMMA InitAndStart ==
    ASSUME TypeOK, NEW k, device_init_and_start(k)
    PROVE  /\ dev' \in Device /\ heap' \in [Handle -> Stack] /\ allocated' \in 0..MAX_STACKS
           /\ k = PLUG_ALL => dev'.state = "CONNECTED" /\ dev'.pnet_handle = allocated + 1
           /\ k # PLUG_ALL => dev' = CleanedUp
           /\ \/ allocated' = allocated /\ heap' = heap /\ k # PLUG_ALL
              \/ /\ allocated' = allocated + 1 /\ allocated + 1 \in Handle
                 /\ heap' = [heap EXCEPT ![allocated + 1] = NewStack(k)]
                 /\ k \in 0..PLUG_ALL
  <1> USE DEF device_init_and_start, TypeOK
  <1>1. Initialized \in Device /\ CleanedUp \in Device
    BY ResetDeviceType
  <1>2. /\ Started(Initialized, allocated, k) \in Device
        /\ heap' \in [Handle -> Stack] /\ allocated' \in 0..MAX_STACKS
    BY <1>1, StartTypes
  <1>3. k = PLUG_ALL => /\ Started(Initialized, allocated, k).state = "CONNECTED"
                        /\ Started(Initialized, allocated, k).pnet_handle = allocated + 1
    BY <1>1 DEF Started, Device, PLUG_ALL, INIT_FAILED
  <1>4. CASE k = INIT_FAILED
    BY <1>1, <1>2, <1>4, StartTypes DEF INIT_FAILED, PLUG_ALL
  <1>5. CASE k # INIT_FAILED
    BY <1>1, <1>2, <1>3, <1>5, StartTypes
  <1> QED BY <1>4, <1>5

(* The return of pnet_factory_reset leaves a cleaned up device.            *)
LEMMA StopReturnsType ==
    ASSUME TypeOK, StopReturns
    PROVE  /\ dev' = CleanedUp /\ dev' \in Device
           /\ heap' \in [Handle -> Stack] /\ allocated' = allocated
  <1> USE DEF TypeOK, StopReturns
  <1> PICK ok \in BOOLEAN : heap' = [heap EXCEPT ![dev.pnet_handle] = AfterReset(@, ok)]
    OBVIOUS
  <1>1. dev.pnet_handle \in Handle => AfterReset(heap[dev.pnet_handle], ok) \in Stack
    BY AfterResetType, Zenon
  <1> QED BY <1>1, HeapUpdate, ResetDeviceType

(* A sleep keeps the types of the clock, interrupted or not.               *)
LEMMA SleepType ==
    ASSUME TypeOK, NEW full \in Nat, Sleep(full)
    PROVE  /\ now' \in 0..CLOCK_MOD - 1 /\ since_ping' \in 0..GAP_CAP
           /\ last_watchdog_ms' = last_watchdog_ms /\ g_running' \in BOOLEAN
  <1>1. ASSUME NEW d \in Nat, Passed(d)
        PROVE  /\ now' \in 0..CLOCK_MOD - 1 /\ since_ping' \in 0..GAP_CAP
               /\ last_watchdog_ms' = last_watchdog_ms
    <2>1. CLOCK_MOD \in Nat /\ CLOCK_MOD > 0 /\ GAP_CAP \in Nat
      BY TimeAssumption DEF TypeOK
    <2>2. now' = (now + d) % CLOCK_MOD /\ now + d \in Int
      BY <1>1 DEF Passed, TypeOK
    <2>3. now' \in 0..CLOCK_MOD - 1
      BY <2>1, <2>2
    <2> QED BY <1>1, <2>1, <2>3 DEF Passed, TypeOK
  <1>2. CASE Passed(full) /\ UNCHANGED g_running
    BY <1>1, <1>2 DEF TypeOK
  <1>3. CASE (\E d \in 0..full - 1 : Passed(d)) /\ g_running' = FALSE
    <2> PICK d \in 0..full - 1 : Passed(d)
      BY <1>3
    <2>1. d \in Nat
      OBVIOUS
    <2> QED BY <1>1, <1>3, <2>1
  <1> QED BY <1>2, <1>3 DEF Sleep

(* Every variable of main keeps its type: the backoff stays between its    *)
(* base and its maximum, and the counters within their bounds.             *)
THEOREM TypeCorrect == Spec => []TypeOK
  <1>1. Init => TypeOK
    <2> SUFFICES ASSUME Init PROVE TypeOK
      OBVIOUS
    <2>1. NewStack(0) \in Stack
      BY NewStackType DEF PLUG_ALL
    <2>2. /\ dev \in Device /\ heap \in [Handle -> Stack] /\ allocated \in 0..MAX_STACKS
      BY <2>1, ResetDeviceType, StacksAssumption DEF Init
    <2>3. /\ consecutive_errors \in 0..MAX_CONSECUTIVE_ERRORS
          /\ recovery_attempts \in 0..ATTEMPT_CAP
          /\ backoff_us \in RECOVERY_BACKOFF_BASE..RECOVERY_BACKOFF_MAX
          /\ last_watchdog_ms \in 0..CLOCK_MOD - 1
          /\ since_ping \in 0..GAP_CAP
      BY ThresholdAssumption, AttemptAssumption, BackoffAssumption, TimeAssumption DEF Init
    <2> QED BY <2>2, <2>3 DEF Init, TypeOK, Pc, StartupPc, Host
  <1>2. TypeOK /\ [Next]_vars => TypeOK'
    <2> SUFFICES ASSUME TypeOK, [Next]_vars PROVE TypeOK'
      OBVIOUS
    <2> USE DEF TypeOK, Pc, StartupPc, LoopPc, ShutdownPc
    <2>1. CASE ParseOptions \/ LoadConfig \/ install_signal_handlers
      BY <2>1 DEF ParseOptions, LoadConfig, install_signal_handlers
    <2>2. CASE apply_network
      BY <2>2 DEF apply_network, Host
    <2>3. CASE apply_security
      BY <2>3 DEF apply_security, Host
    <2>4. CASE apply_realtime
      BY <2>4 DEF apply_realtime, Host
    <2>5. CASE InitialStart
      <3> PICK k \in -1..PLUG_ALL : device_init_and_start(k)
        BY <2>5 DEF InitialStart
      <3>1. dev' \in Device /\ heap' \in [Handle -> Stack] /\ allocated' \in 0..MAX_STACKS
        BY InitAndStart
      <3> QED BY <2>5, <3>1 DEF InitialStart
    <2>6. CASE TickBegins
      BY <2>6 DEF TickBegins
    <2>7. CASE TickSucceeds
      <3>1. Ticked(dev) \in Device
        BY CountType DEF Ticked, Device
      <3> QED BY <2>7, <3>1, ThresholdAssumption, AttemptAssumption, BackoffAssumption
              DEF TickSucceeds
    <2>8. CASE TickFails
      <3>1. dev' \in Device
        <4>1. [dev EXCEPT !.error_count = Count(@)] \in Device
          BY CountType DEF Device
        <4> QED BY <2>8, <4>1, ResetDeviceType DEF TickFails
      <3>2. consecutive_errors' \in 0..MAX_CONSECUTIVE_ERRORS
        BY <2>8, ThresholdAssumption DEF TickFails, ErrorsAfter
      <3>3. recovery_attempts' \in 0..ATTEMPT_CAP
        BY <2>8, AttemptAssumption DEF TickFails, AttemptsAfter
      <3>4. pc' \in Pc /\ status' \in {"none", "ready", "recovering", "running", "stopping", "stopped"}
        BY <2>8 DEF TickFails
      <3> QED BY <2>8, <3>1, <3>2, <3>3, <3>4 DEF TickFails
    <2>9. CASE RecoverResetReturns
      BY <2>9, StopReturnsType DEF RecoverResetReturns
    <2>10. CASE Backoff
      <3>1. NextBackoff \in RECOVERY_BACKOFF_BASE..RECOVERY_BACKOFF_MAX
        BY BackoffAssumption DEF NextBackoff
      <3>2. backoff_us \in Nat
        BY BackoffAssumption
      <3>3. /\ now' \in 0..CLOCK_MOD - 1 /\ since_ping' \in 0..GAP_CAP
            /\ last_watchdog_ms' = last_watchdog_ms /\ g_running' \in BOOLEAN
        BY <2>10, <3>2, SleepType DEF Backoff
      <3> QED BY <2>10, <3>1, <3>3 DEF Backoff
    <2>11. CASE \E k \in -1..PLUG_ALL : Restart(k)
      <3> PICK k \in -1..PLUG_ALL : Restart(k)
        BY <2>11
      <3>1. dev' \in Device /\ heap' \in [Handle -> Stack] /\ allocated' \in 0..MAX_STACKS
        BY InitAndStart DEF Restart
      <3> QED BY <3>1, ThresholdAssumption DEF Restart
    <2>12. CASE WatchdogPing
      BY <2>12, TimeAssumption DEF WatchdogPing
    <2>13. CASE TickSleep
      <3>1. config.tick \in Nat
        BY TimeAssumption DEF Config
      <3>2. /\ now' \in 0..CLOCK_MOD - 1 /\ since_ping' \in 0..GAP_CAP
            /\ last_watchdog_ms' = last_watchdog_ms /\ g_running' \in BOOLEAN
        BY <2>13, <3>1, SleepType DEF TickSleep
      <3> QED BY <2>13, <3>2 DEF TickSleep
    <2>14. CASE LeaveLoop
      BY <2>14 DEF LeaveLoop
    <2>15. CASE StopDevice
      BY <2>15, ResetDeviceType DEF StopDevice
    <2>16. CASE ShutdownResetReturns
      BY <2>16, StopReturnsType DEF ShutdownResetReturns
    <2>17. CASE CleanupRt
      BY <2>17 DEF CleanupRt, Host
    <2>18. CASE Signal
      BY <2>18 DEF Signal
    <2>19. CASE Callback
      <3> PICK a \in Arep, e \in Event :
                /\ dev' = StateIndication(dev, a, e)
                /\ heap' = [heap EXCEPT ![dev.pnet_handle] = ArAfter(@, a, e)]
        BY <2>19 DEF Callback
      <3>1. dev' \in Device
        BY StateIndicationType
      <3>2. heap' \in [Handle -> Stack]
        BY ArAfterType, HeapUpdate
      <3> QED BY <2>19, <3>1, <3>2 DEF Callback
    <2>20. CASE DeviceFault
      BY <2>20 DEF DeviceFault, Device, State
    <2>21. CASE Terminated \/ UNCHANGED vars
      BY <2>21 DEF Terminated, vars
    <2> QED
      BY <2>1, <2>2, <2>3, <2>4, <2>5, <2>6, <2>7, <2>8, <2>9, <2>10, <2>11, <2>12, <2>13,
         <2>14, <2>15, <2>16, <2>17, <2>18, <2>19, <2>20, <2>21
      DEF Next, Program
  <1> QED BY <1>1, <1>2, PTL DEF Spec

----------------------------------------------------------------------------
(* Without a fault from outside the success branch of the loop is the only *)
(* one taken: the recovery code of main.c cannot be reached, whatever the  *)
(* controllers do and however start-up goes.                               *)
THEOREM RecoveryIsUnreachable == Spec => []RecoveryNeverNeeded
  <1> DEFINE Clean == pc \in StartupPc => consecutive_errors = 0 /\ recovery_attempts = 0
  <1>1. Init => RecoveryNeverNeeded /\ Clean
    BY DEF Init, RecoveryNeverNeeded, LoopPc
  <1>2. TypeOK /\ Clean /\ [Next]_vars => Clean'
    <2> SUFFICES ASSUME TypeOK, Clean, [Next]_vars, pc' \in StartupPc
                 PROVE  consecutive_errors' = 0 /\ recovery_attempts' = 0
      OBVIOUS
    <2> USE DEF StartupPc
    <2>1. pc \in StartupPc /\ UNCHANGED recovery
      BY DEF Next, Program, ParseOptions, LoadConfig, install_signal_handlers, apply_network,
             apply_security, apply_realtime, InitialStart, TickBegins, TickSucceeds, TickFails,
             RecoverResetReturns, Backoff, Restart, WatchdogPing, TickSleep, LeaveLoop,
             StopDevice, ShutdownResetReturns, CleanupRt, Signal, Callback, DeviceFault,
             Terminated, vars
    <2> QED BY <2>1
  <1>3. TypeOK /\ RecoveryNeverNeeded /\ Clean /\ [Next]_vars => RecoveryNeverNeeded'
    <2> SUFFICES ASSUME TypeOK, RecoveryNeverNeeded, Clean, [Next]_vars,
                        ~DeviceMayFault, pc' \in LoopPc
                 PROVE  /\ Up' /\ dev'.pnet_handle # NULL
                        /\ consecutive_errors' = 0 /\ recovery_attempts' = 0
                        /\ pc' \notin {"recover_reset", "backoff", "restart"}
      BY DEF RecoveryNeverNeeded
    <2> USE DEF LoopPc
    <2>0. pc \in LoopPc => /\ Up /\ dev.pnet_handle # NULL /\ ~TickRefused(dev)
                           /\ consecutive_errors = 0 /\ recovery_attempts = 0
                           /\ pc \notin {"recover_reset", "backoff", "restart"}
      BY DEF RecoveryNeverNeeded, TickRefused, Up
    <2>1. CASE ParseOptions \/ LoadConfig \/ install_signal_handlers
               \/ apply_network \/ apply_security \/ apply_realtime
      BY <2>1 DEF ParseOptions, LoadConfig, install_signal_handlers,
                  apply_network, apply_security, apply_realtime
    <2>2. CASE InitialStart
      <3> PICK k \in -1..PLUG_ALL :
                /\ device_init_and_start(k)
                /\ IF k = PLUG_ALL THEN Goto("start", "loop") ELSE Goto("start", "cleanup_rt")
        BY <2>2 DEF InitialStart
      <3>1. k = PLUG_ALL /\ pc = "start" /\ pc' = "loop"
        OBVIOUS
      <3>2. dev'.state = "CONNECTED" /\ dev'.pnet_handle # NULL
        BY <3>1, InitAndStart DEF TypeOK, NULL
      <3>3. consecutive_errors = 0 /\ recovery_attempts = 0
        BY <3>1 DEF StartupPc
      <3> QED BY <2>2, <3>1, <3>2, <3>3 DEF InitialStart, Up
    <2>3. CASE TickBegins
      BY <2>0, <2>3 DEF TickBegins, Up
    <2>4. CASE TickSucceeds
      <3>1. dev'.state = dev.state /\ dev'.pnet_handle = dev.pnet_handle
        BY <2>4 DEF TickSucceeds, Ticked, TypeOK, Device
      <3> QED BY <2>0, <2>4, <3>1 DEF TickSucceeds, Up
    <2>5. CASE TickFails
      BY <2>0, <2>5 DEF TickFails
    <2>6. CASE RecoverResetReturns \/ Backoff \/ (\E k \in -1..PLUG_ALL : Restart(k))
      BY <2>0, <2>6 DEF RecoverResetReturns, Backoff, Restart
    <2>7. CASE WatchdogPing \/ TickSleep
      BY <2>0, <2>7 DEF WatchdogPing, TickSleep, Up
    <2>8. CASE LeaveLoop \/ StopDevice \/ ShutdownResetReturns \/ CleanupRt
      BY <2>8 DEF LeaveLoop, StopDevice, ShutdownResetReturns, CleanupRt
    <2>9. CASE Signal
      BY <2>0, <2>9 DEF Signal, Up
    <2>10. CASE Callback
      <3> PICK a \in Arep, e \in Event : dev' = StateIndication(dev, a, e)
        BY <2>10 DEF Callback
      <3>1. /\ dev'.pnet_handle = dev.pnet_handle
            /\ dev'.state \in {dev.state, "CONNECTED", "RUNNING"}
        BY StateIndicationType DEF TypeOK, Event, ArState
      <3> QED BY <2>0, <2>10, <3>1 DEF Callback, Up
    <2>11. CASE DeviceFault
      BY <2>11 DEF DeviceFault
    <2>12. CASE Terminated \/ UNCHANGED vars
      BY <2>0, <2>12 DEF Terminated, vars, Up
    <2> QED
      BY <2>1, <2>2, <2>3, <2>4, <2>5, <2>6, <2>7, <2>8, <2>9, <2>10, <2>11, <2>12
      DEF Next, Program
  <1> QED BY <1>1, <1>2, <1>3, TypeCorrect, PTL DEF Spec

----------------------------------------------------------------------------
(* Where main has no stack, and that a handle points at an allocated one:  *)
(* with these StacksAreReset is inductive.                                 *)
StackInv ==
    /\ pc \in StartupPc \cup {"backoff", "restart", "cleanup_rt", "exited"} => dev.pnet_handle = NULL
    /\ dev.pnet_handle <= allocated
    /\ StacksAreReset

(* A step that keeps the handle and every abandoned stack keeps the part   *)
(* of the invariant about the heap.                                        *)
LEMMA SameHeap ==
    ASSUME TypeOK, StacksAreReset, dev'.pnet_handle = dev.pnet_handle, allocated' = allocated,
           \A h \in Handle : h # dev.pnet_handle => heap'[h] = heap[h]
    PROVE  StacksAreReset'
  <1> SUFFICES ASSUME NEW h \in 1..allocated, h # dev.pnet_handle, heap'[h].plugged = PLUG_ALL
               PROVE  /\ heap'[h].reset # "no"
                      /\ Live(heap'[h]) # {} => heap'[h].reset = "failed"
    BY DEF StacksAreReset
  <1>1. h \in Handle
    BY StacksAssumption DEF TypeOK, Handle
  <1>2. heap'[h] = heap[h]
    BY <1>1
  <1> QED BY <1>2 DEF StacksAreReset

(* A start from a state without a stack keeps the invariant: what is left  *)
(* behind was never plugged completely.                                    *)
LEMMA StartKeepsStacks ==
    ASSUME TypeOK, StacksAreReset, dev.pnet_handle = NULL, NEW k, device_init_and_start(k)
    PROVE  StacksAreReset' /\ dev'.pnet_handle <= allocated'
  <1> USE DEF TypeOK
  <1>1. CASE allocated' = allocated /\ heap' = heap /\ k # PLUG_ALL
    <2>1. dev'.pnet_handle = NULL
      BY <1>1, InitAndStart, ResetDeviceFields
    <2> QED BY <1>1, <2>1, SameHeap DEF NULL
  <1>2. CASE /\ allocated' = allocated + 1 /\ allocated + 1 \in Handle
             /\ heap' = [heap EXCEPT ![allocated + 1] = NewStack(k)] /\ k \in 0..PLUG_ALL
    <2>1. dev'.pnet_handle = IF k = PLUG_ALL THEN allocated + 1 ELSE NULL
      BY InitAndStart, ResetDeviceFields
    <2> SUFFICES ASSUME NEW h \in 1..allocated', h # dev'.pnet_handle, heap'[h].plugged = PLUG_ALL
                 PROVE  /\ heap'[h].reset # "no"
                        /\ Live(heap'[h]) # {} => heap'[h].reset = "failed"
      BY <1>2, <2>1 DEF StacksAreReset, NULL
    <2>2. h \in Handle
      BY <1>2, StacksAssumption DEF Handle
    <2>3. heap'[h] = IF h = allocated + 1 THEN NewStack(k) ELSE heap[h]
      BY <1>2, <2>2
    <2>4. h # allocated + 1
      BY <1>2, <2>1, <2>3 DEF NewStack
    <2>5. h \in 1..allocated /\ h # dev.pnet_handle
      BY <1>2, <2>4 DEF NULL
    <2> QED BY <2>3, <2>4, <2>5 DEF StacksAreReset
  <1> QED BY <1>1, <1>2, InitAndStart

(* The return of a factory reset keeps the invariant: the stack that is    *)
(* let go of has been reset.                                               *)
LEMMA ResetKeepsStacks ==
    ASSUME TypeOK, StacksAreReset, StopReturns
    PROVE  StacksAreReset' /\ dev'.pnet_handle = NULL
  <1> USE DEF TypeOK
  <1> PICK ok \in BOOLEAN : heap' = [heap EXCEPT ![dev.pnet_handle] = AfterReset(@, ok)]
    BY DEF StopReturns
  <1>1. dev'.pnet_handle = NULL /\ allocated' = allocated
    BY StopReturnsType, ResetDeviceFields
  <1> SUFFICES ASSUME NEW h \in 1..allocated, heap'[h].plugged = PLUG_ALL
               PROVE  /\ heap'[h].reset # "no"
                      /\ Live(heap'[h]) # {} => heap'[h].reset = "failed"
    BY <1>1 DEF StacksAreReset
  <1>2. h \in Handle /\ heap[h] \in Stack
    BY StacksAssumption DEF Handle
  <1>3. CASE h = dev.pnet_handle
    <2>1. heap'[h] = AfterReset(heap[h], ok)
      BY <1>2, <1>3
    <2>2. /\ AfterReset(heap[h], ok).reset # "no"
          /\ Live(AfterReset(heap[h], ok)) # {} => AfterReset(heap[h], ok).reset = "failed"
      BY <1>2, AfterResetType, Zenon
    <2> QED BY <2>1, <2>2
  <1>4. CASE h # dev.pnet_handle
    BY <1>2, <1>4 DEF StacksAreReset
  <1> QED BY <1>3, <1>4

(* StackInv is kept through any sequence of faults, failed restarts and    *)
(* signals.                                                                *)
LEMMA StackInvHolds == Spec => []StackInv
  <1>1. Init => StackInv
    BY ResetDeviceFields DEF Init, StackInv, StacksAreReset, NULL
  <1>2. TypeOK /\ TypeOK' /\ StackInv /\ [Next]_vars => StackInv'
    <2> SUFFICES ASSUME TypeOK, TypeOK', StackInv, [Next]_vars PROVE StackInv'
      OBVIOUS
    <2> USE DEF StackInv, StartupPc
    <2>0. ASSUME dev'.pnet_handle = dev.pnet_handle, UNCHANGED <<heap, allocated>>
          PROVE  StacksAreReset' /\ dev'.pnet_handle <= allocated'
      BY <2>0, SameHeap
    <2>1. CASE ParseOptions \/ LoadConfig \/ install_signal_handlers
               \/ apply_network \/ apply_security \/ apply_realtime
      BY <2>0, <2>1 DEF ParseOptions, LoadConfig, install_signal_handlers,
                  apply_network, apply_security, apply_realtime
    <2>2. CASE InitialStart
      <3> PICK k \in -1..PLUG_ALL :
                /\ device_init_and_start(k)
                /\ IF k = PLUG_ALL THEN Goto("start", "loop") ELSE Goto("start", "cleanup_rt")
        BY <2>2 DEF InitialStart
      <3>1. dev.pnet_handle = NULL /\ (pc' = "loop" \/ (k # PLUG_ALL /\ pc' = "cleanup_rt"))
        OBVIOUS
      <3>2. k # PLUG_ALL => dev'.pnet_handle = NULL
        BY InitAndStart, ResetDeviceFields
      <3> QED BY <3>1, <3>2, StartKeepsStacks
    <2>3. CASE TickBegins \/ LeaveLoop
      BY <2>0, <2>3 DEF TickBegins, LeaveLoop
    <2>4. CASE TickSucceeds
      BY <2>0, <2>4 DEF TickSucceeds, Ticked, TypeOK, Device
    <2>5. CASE TickFails
      <3>1. /\ dev'.pnet_handle = dev.pnet_handle
            /\ pc' = "backoff" => dev'.pnet_handle = NULL
            /\ pc' \in {"watchdog", "shutdown", "recover_reset", "backoff"}
        BY <2>5, ResetDeviceFields DEF TickFails, MayStop, TypeOK, Device
      <3> QED BY <2>0, <2>5, <3>1 DEF TickFails
    <2>6. CASE RecoverResetReturns
      BY <2>6, ResetKeepsStacks DEF RecoverResetReturns, TypeOK, NULL
    <2>7. CASE Backoff
      BY <2>0, <2>7 DEF Backoff
    <2>8. CASE \E k \in -1..PLUG_ALL : Restart(k)
      BY <2>8, StartKeepsStacks DEF Restart
    <2>9. CASE WatchdogPing \/ TickSleep
      BY <2>0, <2>9 DEF WatchdogPing, TickSleep
    <2>10. CASE StopDevice
      <3>1. /\ dev'.pnet_handle = dev.pnet_handle
            /\ pc' = "cleanup_rt" => dev'.pnet_handle = NULL
            /\ pc' \in {"shutdown_reset", "cleanup_rt"}
        BY <2>10, ResetDeviceFields DEF StopDevice, MayStop
      <3> QED BY <2>0, <2>10, <3>1 DEF StopDevice
    <2>11. CASE ShutdownResetReturns
      BY <2>11, ResetKeepsStacks DEF ShutdownResetReturns, TypeOK, NULL
    <2>12. CASE CleanupRt
      BY <2>0, <2>12 DEF CleanupRt
    <2>13. CASE Signal
      BY <2>0, <2>13 DEF Signal
    <2>14. CASE Callback
      <3> PICK a \in Arep, e \in Event :
                /\ dev' = StateIndication(dev, a, e)
                /\ heap' = [heap EXCEPT ![dev.pnet_handle] = ArAfter(@, a, e)]
        BY <2>14 DEF Callback
      <3>1. dev'.pnet_handle = dev.pnet_handle
        BY StateIndicationType DEF TypeOK
      <3>2. \A h \in Handle : h # dev.pnet_handle => heap'[h] = heap[h]
        BY DEF TypeOK
      <3> QED BY <2>14, <3>1, <3>2, SameHeap DEF Callback
    <2>15. CASE DeviceFault
      BY <2>0, <2>15 DEF DeviceFault, TypeOK, Device
    <2>16. CASE Terminated \/ UNCHANGED vars
      BY <2>0, <2>16 DEF Terminated, vars
    <2> QED
      BY <2>1, <2>2, <2>3, <2>4, <2>5, <2>6, <2>7, <2>8, <2>9, <2>10, <2>11, <2>12, <2>13,
         <2>14, <2>15, <2>16
      DEF Next, Program
  <1> QED BY <1>1, <1>2, TypeCorrect, PTL DEF Spec

(* main never lets go of a completely started stack without a factory      *)
(* reset, through any sequence of faults, failed restarts and signals.     *)
THEOREM StacksAreAlwaysReset == Spec => []StacksAreReset
  <1>1. StackInv => StacksAreReset
    BY DEF StackInv
  <1> QED BY <1>1, StackInvHolds, PTL

----------------------------------------------------------------------------
(* What a start, a restart and the end of a factory reset do to the        *)
(* handle: the fact that the invariants of the loop need of the device.    *)
LEMMA HandleAfter ==
    ASSUME TypeOK
    PROVE  /\ \A k : device_init_and_start(k) => (dev'.pnet_handle # NULL <=> k = PLUG_ALL)
           /\ StopReturns => dev'.pnet_handle = NULL
           /\ TickSucceeds \/ Callback \/ DeviceFault => dev'.pnet_handle = dev.pnet_handle
           /\ TickFails => dev'.pnet_handle = dev.pnet_handle
  <1>1. ASSUME NEW k, device_init_and_start(k)
        PROVE  dev'.pnet_handle # NULL <=> k = PLUG_ALL
    BY <1>1, InitAndStart, ResetDeviceFields DEF TypeOK, NULL
  <1>2. ASSUME StopReturns PROVE dev'.pnet_handle = NULL
    BY <1>2, StopReturnsType, ResetDeviceFields
  <1>3. ASSUME TickSucceeds PROVE dev'.pnet_handle = dev.pnet_handle
    BY <1>3 DEF TickSucceeds, Ticked, TypeOK, Device
  <1>4. ASSUME Callback PROVE dev'.pnet_handle = dev.pnet_handle
    BY <1>4, StateIndicationType DEF Callback, TypeOK
  <1>5. ASSUME DeviceFault PROVE dev'.pnet_handle = dev.pnet_handle
    BY <1>5 DEF DeviceFault, TypeOK, Device
  <1>6. ASSUME TickFails PROVE dev'.pnet_handle = dev.pnet_handle
    BY <1>6, ResetDeviceFields DEF TickFails, MayStop, TypeOK, Device
  <1> QED BY <1>1, <1>2, <1>3, <1>4, <1>5, <1>6

(* The count of failed ticks that a device keeps itself: a started device  *)
(* begins with none, a failed tick that leaves it in place adds one up to  *)
(* the cap, and nothing else changes it while the device is in place.      *)
LEMMA ErrorCountAfter ==
    ASSUME TypeOK
    PROVE  /\ dev.error_count \in 0..COUNT_CAP
           /\ TickSucceeds \/ Callback \/ DeviceFault => dev'.error_count = dev.error_count
           /\ TickFails /\ dev.pnet_handle # NULL =>
                 dev'.error_count = Count(dev.error_count)
  <1>1. ASSUME TickSucceeds PROVE dev'.error_count = dev.error_count
    BY <1>1 DEF TickSucceeds, Ticked, TypeOK, Device
  <1>2. ASSUME Callback PROVE dev'.error_count = dev.error_count
    BY <1>2 DEF Callback, StateIndication, TypeOK, Device
  <1>3. ASSUME DeviceFault PROVE dev'.error_count = dev.error_count
    BY <1>3 DEF DeviceFault, TypeOK, Device
  <1>4. ASSUME TickFails, dev.pnet_handle # NULL PROVE dev'.error_count = Count(dev.error_count)
    BY <1>4 DEF TickFails, MayStop, TypeOK, Device
  <1>5. dev.error_count \in 0..COUNT_CAP
    BY DEF TypeOK, Device
  <1> QED BY <1>1, <1>2, <1>3, <1>4, <1>5

(* What start-up has done to the host by the time main is at each place:   *)
(* with it the two properties of the host are inductive.                   *)
HostInv ==
    /\ pc \in StartupPc => allocated = 0
    /\ pc \in StartupPc \ {"start"} => host.rt = "untouched"
    /\ ~config.realtime => host.rt = "untouched"
    /\ pc \notin {"options", "config", "handlers", "network", "exited"} => host.net = 3
    /\ pc \notin {"options", "config", "handlers", "network", "security", "exited"} /\ config.security =>
          host.firewall = "applied"
    /\ RtIsRestored
    /\ DeviceBehindFirewall

(* Every way through start-up, a failed first start, a signal before the   *)
(* handlers are there and the shutdown keep HostInv.                       *)
LEMMA HostInvHolds == Spec => []HostInv
  <1>1. Init => HostInv
    BY DEF Init, HostInv, RtIsRestored, DeviceBehindFirewall
  <1>2. TypeOK /\ HostInv /\ [Next]_vars => HostInv'
    <2> SUFFICES ASSUME TypeOK, HostInv, [Next]_vars PROVE HostInv'
      OBVIOUS
    <2> USE DEF HostInv, RtIsRestored, DeviceBehindFirewall, StartupPc
    <2>0. host \in Host /\ allocated \in Nat
      BY DEF TypeOK
    <2>1. CASE ParseOptions \/ LoadConfig \/ install_signal_handlers
      BY <2>1 DEF ParseOptions, LoadConfig, install_signal_handlers
    <2>2. CASE apply_network
      BY <2>0, <2>2 DEF apply_network, Host
    <2>3. CASE apply_security
      BY <2>0, <2>3 DEF apply_security, Host
    <2>4. CASE apply_realtime
      BY <2>0, <2>4 DEF apply_realtime, Host
    <2>5. CASE InitialStart
      BY <2>5 DEF InitialStart
    <2>6. CASE TickBegins \/ TickSucceeds \/ TickFails \/ LeaveLoop
      BY <2>6 DEF TickBegins, TickSucceeds, TickFails, LeaveLoop
    <2>7. CASE RecoverResetReturns \/ ShutdownResetReturns
      BY <2>7 DEF RecoverResetReturns, ShutdownResetReturns, StopReturns
    <2>8. CASE Backoff \/ WatchdogPing \/ TickSleep \/ StopDevice
      BY <2>8 DEF Backoff, WatchdogPing, TickSleep, StopDevice
    <2>9. CASE \E k \in -1..PLUG_ALL : Restart(k)
      BY <2>9 DEF Restart
    <2>10. CASE CleanupRt
      BY <2>0, <2>10 DEF CleanupRt, Host
    <2>11. CASE Signal
      BY <2>11 DEF Signal
    <2>12. CASE Callback \/ DeviceFault
      BY <2>12 DEF Callback, DeviceFault
    <2>13. CASE Terminated \/ UNCHANGED vars
      BY <2>13 DEF Terminated, vars
    <2> QED
      BY <2>1, <2>2, <2>3, <2>4, <2>5, <2>6, <2>7, <2>8, <2>9, <2>10, <2>11, <2>12, <2>13
      DEF Next, Program
  <1> QED BY <1>1, <1>2, TypeCorrect, PTL DEF Spec

(* Whichever way main ends, the real-time environment that it set up has   *)
(* been restored.                                                          *)
THEOREM RtIsAlwaysRestored == Spec => []RtIsRestored
  <1>1. HostInv => RtIsRestored
    BY DEF HostInv
  <1> QED BY <1>1, HostInvHolds, PTL

(* No stack exists before interface and firewall are as configured, on any *)
(* path through the failures of start-up.                                  *)
THEOREM DeviceIsBehindFirewall == Spec => []DeviceBehindFirewall
  <1>1. HostInv => DeviceBehindFirewall
    BY DEF HostInv
  <1> QED BY <1>1, HostInvHolds, PTL

----------------------------------------------------------------------------
(* The counters and the status that systemd was told: what the branches of *)
(* the loop leave to each other.                                           *)
CountersInv ==
    /\ pc \in StartupPc => consecutive_errors = 0 /\ recovery_attempts = 0
    /\ pc \in LoopPc /\ MAX_RECOVERY_ATTEMPTS > 0 => recovery_attempts <= MAX_RECOVERY_ATTEMPTS
    /\ pc \in LoopPc /\ dev.pnet_handle # NULL => consecutive_errors <= dev.error_count
    /\ pc = "recover_reset" => consecutive_errors = MAX_CONSECUTIVE_ERRORS
    /\ LeavesOnlyWhenAsked

StatusInv == (pc = "recover_reset" => status = "recovering") /\ StatusIsTruthful

LEMMA LoopInvHolds == Spec => [](CountersInv /\ StatusInv)
  <1> USE DEF CountersInv, StatusInv, LeavesOnlyWhenAsked, StatusIsTruthful
  <1>1. Init => CountersInv /\ StatusInv
    BY DEF Init, StartupPc, LoopPc, ShutdownPc
  <1>2. TypeOK /\ StackInv /\ CountersInv /\ StatusInv /\ [Next]_vars => (CountersInv /\ StatusInv)'
    <2> SUFFICES ASSUME TypeOK, StackInv, CountersInv, StatusInv, [Next]_vars
                 PROVE  (CountersInv /\ StatusInv)'
      OBVIOUS
    <2> USE DEF StartupPc, LoopPc, ShutdownPc
    <2>0. /\ consecutive_errors \in 0..MAX_CONSECUTIVE_ERRORS /\ MAX_CONSECUTIVE_ERRORS \in Nat \ {0}
          /\ recovery_attempts \in 0..ATTEMPT_CAP
          /\ MAX_RECOVERY_ATTEMPTS \in Nat /\ ATTEMPT_CAP \in Nat /\ MAX_RECOVERY_ATTEMPTS < ATTEMPT_CAP
          /\ pc \in {"backoff", "restart"} => dev.pnet_handle = NULL
      BY ThresholdAssumption, CapAssumption, AttemptAssumption DEF TypeOK, StackInv
    <2>c. /\ COUNT_CAP \in Nat /\ MAX_CONSECUTIVE_ERRORS <= COUNT_CAP
          /\ dev.error_count \in 0..COUNT_CAP
      BY ThresholdAssumption, CapAssumption, ErrorCountAfter
    <2>s. \A k : device_init_and_start(k) => 0 <= dev'.error_count
      <3>1. \A k : device_init_and_start(k) => dev' \in Device
        BY InitAndStart
      <3> QED BY <3>1, <2>c DEF Device
    <2>1. CASE ParseOptions \/ LoadConfig \/ install_signal_handlers
               \/ apply_network \/ apply_security \/ apply_realtime
      BY <2>1 DEF ParseOptions, LoadConfig, install_signal_handlers,
                  apply_network, apply_security, apply_realtime
    <2>2. CASE InitialStart
      BY <2>0, <2>2, <2>s, HandleAfter DEF InitialStart
    <2>3. CASE TickBegins
      BY <2>3 DEF TickBegins
    <2>4. CASE TickSucceeds
      <3>1. dev'.pnet_handle = dev.pnet_handle /\ dev'.error_count = dev.error_count
        BY <2>4, HandleAfter, ErrorCountAfter
      <3> QED BY <2>0, <2>4, <2>c, <3>1 DEF TickSucceeds
    <2>5. CASE TickFails
      <3>1. /\ dev'.pnet_handle = dev.pnet_handle
            /\ dev.pnet_handle # NULL => dev'.error_count = Count(dev.error_count)
        BY <2>5, HandleAfter, ErrorCountAfter
      <3>2. pc' = "backoff" => dev.pnet_handle = NULL
        BY <2>5 DEF TickFails, MayStop
      <3>3. dev'.pnet_handle # NULL => consecutive_errors' <= dev'.error_count
        BY <2>0, <2>5, <2>c, <3>1 DEF TickFails, ErrorsAfter, Count
      <3> QED BY <2>0, <2>5, <3>1, <3>2, <3>3 DEF TickFails, ErrorsAfter, AttemptsAfter, GiveUp
    <2>6. CASE RecoverResetReturns
      BY <2>6, HandleAfter DEF RecoverResetReturns
    <2>7. CASE Backoff
      BY <2>7 DEF Backoff
    <2>8. CASE \E k \in -1..PLUG_ALL : Restart(k)
      BY <2>0, <2>8, <2>s, HandleAfter DEF Restart
    <2>9. CASE WatchdogPing \/ TickSleep
      BY <2>9 DEF WatchdogPing, TickSleep
    <2>10. CASE LeaveLoop
      BY <2>10 DEF LeaveLoop
    <2>11. CASE StopDevice
      BY <2>11 DEF StopDevice
    <2>12. CASE ShutdownResetReturns \/ CleanupRt
      BY <2>12 DEF ShutdownResetReturns, CleanupRt
    <2>13. CASE Signal
      BY <2>13 DEF Signal
    <2>14. CASE Callback \/ DeviceFault
      <3>1. dev'.pnet_handle = dev.pnet_handle /\ dev'.error_count = dev.error_count
        BY <2>14, HandleAfter, ErrorCountAfter
      <3> QED BY <2>14, <3>1 DEF Callback, DeviceFault
    <2>15. CASE Terminated \/ UNCHANGED vars
      BY <2>15 DEF Terminated, vars
    <2> QED
      BY <2>1, <2>2, <2>3, <2>4, <2>5, <2>6, <2>7, <2>8, <2>9, <2>10, <2>11, <2>12, <2>13,
         <2>14, <2>15
      DEF Next, Program
  <1> QED BY <1>1, <1>2, TypeCorrect, StackInvHolds, PTL DEF Spec

(* systemd is told "recovering" exactly while there is no device, however  *)
(* often restarts fail.                                                    *)
THEOREM StatusIsAlwaysTruthful == Spec => []StatusIsTruthful
  <1>1. StatusInv => StatusIsTruthful
    BY DEF StatusInv
  <1> QED BY <1>1, LoopInvHolds, PTL

(* For every threshold: the loop never counts more errors than the device  *)
(* that it has now has made, so that none of a predecessor's counts, and   *)
(* it tears a device down only after that many failed ticks of its own.    *)
THEOREM ThresholdIsAlwaysPerDevice == Spec => []ThresholdIsPerDevice
  <1>1. CountersInv => ThresholdIsPerDevice
    BY DEF CountersInv, ThresholdIsPerDevice
  <1> QED BY <1>1, LoopInvHolds, PTL

(* The loop ends for a signal or after exactly one attempt more than the   *)
(* limit, for every limit; without a limit, for a signal only.             *)
THEOREM AlwaysLeavesOnlyWhenAsked == Spec => []LeavesOnlyWhenAsked
  <1>1. CountersInv => LeavesOnlyWhenAsked
    BY DEF CountersInv
  <1> QED BY <1>1, LoopInvHolds, PTL

----------------------------------------------------------------------------
(* Induction over the natural numbers, on a set instead of a predicate.    *)
LEMMA NatSetInduction ==
    ASSUME NEW T, 0 \in T, \A n \in Nat : n \in T => n + 1 \in T
    PROVE  Nat \subseteq T
  <1> DEFINE R == OpToRel(<, Nat)
             U == {n \in Nat : n \notin T}
  <1>1. ASSUME U # {}
        PROVE  FALSE
    <2>1. PICK m \in U : \A k \in U : ~(<<k, m>> \in R)
      <3>1. IsWellFoundedOn(R, Nat) /\ U \subseteq Nat
        BY NatLessThanWellFounded
      <3> HIDE DEF R, U
      <3> QED BY <1>1, <3>1, WFMin
    <2>2. m \in Nat /\ m \notin T
      BY <2>1
    <2>3. m # 0 /\ m - 1 \in Nat /\ m - 1 < m
      BY <2>2
    <2> DEFINE k == m - 1
    <2>4. <<k, m>> \in Nat \X Nat /\ <<k, m>>[1] < <<k, m>>[2]
      BY <2>2, <2>3
    <2>5. <<k, m>> \in R
      BY <2>4 DEF OpToRel
    <2>6. k \in T
      <3> HIDE DEF R
      <3> QED BY <2>1, <2>3, <2>5
    <2>7. k + 1 = m
      BY <2>2
    <2> HIDE DEF k
    <2> QED BY <2>2, <2>3, <2>6, <2>7 DEF k
  <1> QED BY <1>1

(* The doublings, step by step.                                            *)
DoublesTo(F, m) == F = [n \in 0..m |-> IF n = 0 THEN RECOVERY_BACKOFF_BASE ELSE 2 * F[n - 1]]

LEMMA DoubledIs == DoublesTo(Doubled, ATTEMPT_CAP)
  <1> DEFINE T == {k \in Nat : \E F : DoublesTo(F, k)}
  <1>1. 0 \in T
    <2>1. DoublesTo([n \in 0..0 |-> RECOVERY_BACKOFF_BASE], 0)
      BY DEF DoublesTo
    <2> QED BY <2>1
  <1>2. ASSUME NEW k \in Nat, k \in T
        PROVE  k + 1 \in T
    <2>1. PICK F : DoublesTo(F, k)
      BY <1>2
    <2> DEFINE G == [n \in 0..k + 1 |-> IF n <= k THEN F[n] ELSE 2 * F[k]]
    <2>2. \A n \in 0..k : F[n] = IF n = 0 THEN RECOVERY_BACKOFF_BASE ELSE 2 * F[n - 1]
      BY <2>1 DEF DoublesTo
    <2>3. \A n \in 0..k + 1 : G[n] = IF n = 0 THEN RECOVERY_BACKOFF_BASE ELSE 2 * G[n - 1]
      <3>1. (\A n \in 0..k : G[n] = F[n]) /\ G[k + 1] = 2 * F[k]
        OBVIOUS
      <3> HIDE DEF G
      <3>2. \A n \in 1..k : n - 1 \in 0..k /\ G[n - 1] = F[n - 1]
        BY <3>1
      <3>3. G[(k + 1) - 1] = F[k]
        BY <3>1
      <3> QED BY <2>2, <3>1, <3>2, <3>3
    <2>4. G = [n \in 0..k + 1 |-> G[n]]
      OBVIOUS
    <2> HIDE DEF G
    <2>5. DoublesTo(G, k + 1)
      BY <2>3, <2>4 DEF DoublesTo
    <2> QED BY <2>5
  <1>3. ATTEMPT_CAP \in T
    <2>1. ATTEMPT_CAP \in Nat
      BY AttemptAssumption
    <2> HIDE DEF T
    <2> QED BY <1>1, <1>2, <2>1, NatSetInduction
  <1>4. Doubled = CHOOSE F : DoublesTo(F, ATTEMPT_CAP)
    BY DEF Doubled, DoublesTo
  <1> QED BY <1>3, <1>4

(* One recovery more doubles the backoff, up to its maximum.               *)
LEMMA BackoffSteps ==
    /\ BackoffOf(0) = RECOVERY_BACKOFF_BASE
    /\ \A n \in 0..ATTEMPT_CAP - 1 : BackoffOf(n + 1) =
          IF 2 * BackoffOf(n) > RECOVERY_BACKOFF_MAX THEN RECOVERY_BACKOFF_MAX ELSE 2 * BackoffOf(n)
  <1>0. /\ ATTEMPT_CAP \in Nat /\ RECOVERY_BACKOFF_MAX \in Nat
        /\ RECOVERY_BACKOFF_BASE \in Nat \ {0} /\ RECOVERY_BACKOFF_BASE <= RECOVERY_BACKOFF_MAX
    BY AttemptAssumption, BackoffAssumption
  <1>1. \A n \in 0..ATTEMPT_CAP : Doubled[n] = IF n = 0 THEN RECOVERY_BACKOFF_BASE ELSE 2 * Doubled[n - 1]
    <2>1. DoublesTo(Doubled, ATTEMPT_CAP)
      BY DoubledIs
    <2> QED BY <2>1 DEF DoublesTo
  <1>2. Doubled[0] = RECOVERY_BACKOFF_BASE /\ \A n \in 0..ATTEMPT_CAP - 1 : Doubled[n + 1] = 2 * Doubled[n]
    BY <1>0, <1>1
  <1> DEFINE T == {n \in Nat : n <= ATTEMPT_CAP => Doubled[n] \in Nat}
  <1>3. Nat \subseteq T
    <2>1. 0 \in T
      BY <1>0, <1>2
    <2>2. ASSUME NEW n \in Nat, n \in T
          PROVE  n + 1 \in T
      BY <1>0, <1>2, <2>2
    <2> HIDE DEF T
    <2> QED BY <2>1, <2>2, NatSetInduction
  <1>4. \A n \in 0..ATTEMPT_CAP : Doubled[n] \in Nat
    BY <1>0, <1>3
  <1>5. BackoffOf(0) = RECOVERY_BACKOFF_BASE
    BY <1>0, <1>2 DEF BackoffOf
  <1>6. ASSUME NEW n \in 0..ATTEMPT_CAP - 1
        PROVE  BackoffOf(n + 1) =
                  IF 2 * BackoffOf(n) > RECOVERY_BACKOFF_MAX THEN RECOVERY_BACKOFF_MAX ELSE 2 * BackoffOf(n)
    <2>1. Doubled[n + 1] = 2 * Doubled[n] /\ Doubled[n] \in Nat
      BY <1>0, <1>2, <1>4
    <2> QED BY <1>0, <2>1 DEF BackoffOf
  <1> QED BY <1>5, <1>6

(* The count of recoveries is exact up to ATTEMPT_CAP, which is a bound of *)
(* the model: either there is a limit, which lies below it, or the backoff *)
(* has reached its maximum when the count stops.                           *)
BoundIsLarge == MAX_RECOVERY_ATTEMPTS > 0 \/ BackoffOf(ATTEMPT_CAP - 1) = RECOVERY_BACKOFF_MAX

BackoffInv ==
    /\ pc \in StartupPc => backoff_us = RECOVERY_BACKOFF_BASE
    /\ pc \in {"recover_reset", "backoff"} => recovery_attempts > 0
    /\ BackoffTracksAttempts

(* The backoff follows the recoveries, for every base, maximum, limit and  *)
(* threshold.                                                              *)
THEOREM BackoffAlwaysTracksAttempts ==
    ASSUME BoundIsLarge
    PROVE  Spec => []BackoffTracksAttempts
  <1> USE DEF BackoffInv, BackoffTracksAttempts, StartupPc, LoopPc, ShutdownPc
  <1>1. Init => BackoffInv
    BY DEF Init
  <1>2. TypeOK /\ CountersInv /\ BackoffInv /\ [Next]_vars => BackoffInv'
    <2> SUFFICES ASSUME TypeOK, CountersInv, BackoffInv, [Next]_vars
                 PROVE  BackoffInv'
      OBVIOUS
    <2>0. /\ recovery_attempts \in 0..ATTEMPT_CAP /\ ATTEMPT_CAP \in Nat /\ MAX_RECOVERY_ATTEMPTS \in Nat
          /\ MAX_RECOVERY_ATTEMPTS < ATTEMPT_CAP
          /\ RECOVERY_BACKOFF_MAX \in Nat
      BY AttemptAssumption, BackoffAssumption DEF TypeOK
    <2>1. CASE ParseOptions \/ LoadConfig \/ install_signal_handlers
               \/ apply_network \/ apply_security \/ apply_realtime
      BY <2>1 DEF ParseOptions, LoadConfig, install_signal_handlers,
                  apply_network, apply_security, apply_realtime
    <2>2. CASE InitialStart
      BY <2>2, BackoffSteps DEF InitialStart, CountersInv
    <2>3. CASE TickBegins
      BY <2>3 DEF TickBegins
    <2>4. CASE TickSucceeds
      BY <2>4, BackoffSteps DEF TickSucceeds
    <2>5. CASE TickFails
      <3>1. CASE pc' \in {"watchdog", "shutdown"}
        BY <2>5, <3>1 DEF TickFails
      <3>2. CASE pc' \in {"recover_reset", "backoff"}
        <4>1. /\ pc = "loop" /\ backoff_us' = backoff_us /\ recovery_attempts' = AttemptsAfter
              /\ backoff_us = BackoffOf(recovery_attempts)
          BY <2>5, <3>2 DEF TickFails
        <4>2. CASE recovery_attempts < ATTEMPT_CAP
          <5>1. AttemptsAfter = recovery_attempts + 1 /\ AttemptsAfter - 1 = recovery_attempts /\ AttemptsAfter > 0
            BY <2>0, <4>2 DEF AttemptsAfter
          <5> QED BY <3>2, <4>1, <5>1
        <4>3. CASE ~(recovery_attempts < ATTEMPT_CAP)
          <5>1. AttemptsAfter = ATTEMPT_CAP /\ recovery_attempts = ATTEMPT_CAP /\ ATTEMPT_CAP > 0
            BY <2>0, <4>3 DEF AttemptsAfter
          <5>2. BackoffOf(ATTEMPT_CAP - 1) = RECOVERY_BACKOFF_MAX
            BY <2>0, <4>1, <5>1 DEF CountersInv, BoundIsLarge
          <5> DEFINE n == ATTEMPT_CAP - 1
          <5>3. n \in 0..ATTEMPT_CAP - 1 /\ n + 1 = ATTEMPT_CAP
            BY <2>0, <5>1
          <5>4. BackoffOf(n + 1) = IF 2 * BackoffOf(n) > RECOVERY_BACKOFF_MAX
                                     THEN RECOVERY_BACKOFF_MAX ELSE 2 * BackoffOf(n)
            BY <5>3, BackoffSteps
          <5>5. BackoffOf(ATTEMPT_CAP) = RECOVERY_BACKOFF_MAX
            BY <2>0, <5>2, <5>3, <5>4, BackoffAssumption
          <5> QED BY <3>2, <4>1, <5>1, <5>2, <5>5
        <4> QED BY <4>2, <4>3
      <3> QED BY <2>5, <3>1, <3>2 DEF TickFails
    <2>6. CASE RecoverResetReturns
      BY <2>6 DEF RecoverResetReturns
    <2>7. CASE Backoff
      <3>1. /\ pc = "backoff" /\ pc' = "restart" /\ recovery_attempts' = recovery_attempts
            /\ backoff_us' = NextBackoff /\ recovery_attempts > 0
        BY <2>7 DEF Backoff
      <3> DEFINE n == recovery_attempts - 1
      <3>2. n \in 0..ATTEMPT_CAP - 1 /\ n + 1 = recovery_attempts /\ backoff_us = BackoffOf(n)
        BY <2>0, <3>1
      <3> HIDE DEF n
      <3>3. backoff_us' = BackoffOf(n + 1)
        BY <3>1, <3>2, BackoffSteps DEF NextBackoff
      <3> QED BY <3>1, <3>2, <3>3
    <2>8. CASE \E k \in -1..PLUG_ALL : Restart(k)
      BY <2>8 DEF Restart
    <2>9. CASE WatchdogPing \/ TickSleep
      BY <2>9 DEF WatchdogPing, TickSleep
    <2>10. CASE LeaveLoop
      BY <2>10 DEF LeaveLoop
    <2>11. CASE StopDevice
      BY <2>11 DEF StopDevice
    <2>12. CASE ShutdownResetReturns \/ CleanupRt
      BY <2>12 DEF ShutdownResetReturns, CleanupRt
    <2>13. CASE Signal
      BY <2>13 DEF Signal
    <2>14. CASE Callback \/ DeviceFault
      BY <2>14 DEF Callback, DeviceFault
    <2>15. CASE Terminated \/ UNCHANGED vars
      BY <2>15 DEF Terminated, vars
    <2> QED
      BY <2>1, <2>2, <2>3, <2>4, <2>5, <2>6, <2>7, <2>8, <2>9, <2>10, <2>11, <2>12, <2>13,
         <2>14, <2>15
      DEF Next, Program
  <1> QED BY <1>1, <1>2, TypeCorrect, LoopInvHolds, PTL DEF Spec

----------------------------------------------------------------------------
(* What the unsigned difference of now and last_watchdog_ms says of the    *)
(* silence at each place of the loop.  Before the first ping it may be     *)
(* anything, but then no time has passed, and the first tick is not        *)
(* refused.                                                                *)
Elapsed == (now - last_watchdog_ms) % CLOCK_MOD

ClockInv ==
    /\ pc \in StartupPc => since_ping = 0
    /\ pc \in LoopPc => since_ping <= Elapsed
    /\ pc = "sleep" => Elapsed < WATCHDOG_PING
    /\ pc = "loop" => Elapsed < WATCHDOG_PING + config.tick \/ (since_ping = 0 /\ ~TickRefused(dev))
    /\ pc = "periodic" => Elapsed < WATCHDOG_PING + config.tick \/ since_ping = 0
    /\ pc \in {"recover_reset", "backoff"} => Elapsed < WATCHDOG_PING + config.tick
    /\ pc \in {"restart", "watchdog"} => since_ping = 0 \/ Elapsed <= SilenceBound(config.tick)

(* The types and bounds that arithmetic on the clock needs.                *)
LEMMA ClockTypes ==
    ASSUME TypeOK
    PROVE  /\ config.tick \in TickChoices /\ config.tick \in Nat \ {0}
           /\ WATCHDOG_PING \in Nat \ {0} /\ RECOVERY_BACKOFF_MAX \in Nat /\ WATCHDOG_SEC \in Nat
           /\ CLOCK_MOD \in Nat /\ since_ping \in Nat
           /\ backoff_us \in Nat /\ backoff_us <= RECOVERY_BACKOFF_MAX
           /\ WATCHDOG_PING + RECOVERY_BACKOFF_MAX + config.tick < CLOCK_MOD
           /\ Elapsed \in Nat
  <1>1. config.tick \in TickChoices
    BY DEF TypeOK, Config
  <1>2. /\ config.tick \in Nat \ {0} /\ WATCHDOG_PING \in Nat \ {0} /\ WATCHDOG_SEC \in Nat
        /\ CLOCK_MOD \in Nat /\ WATCHDOG_PING + RECOVERY_BACKOFF_MAX + config.tick < CLOCK_MOD
    BY <1>1, TimeAssumption
  <1>3. /\ RECOVERY_BACKOFF_MAX \in Nat /\ backoff_us \in Nat /\ backoff_us <= RECOVERY_BACKOFF_MAX
    BY BackoffAssumption DEF TypeOK
  <1>4. Elapsed \in Nat /\ since_ping \in Nat
    BY <1>2, TimeAssumption DEF TypeOK, Elapsed
  <1> QED BY <1>1, <1>2, <1>3, <1>4

(* The unsigned difference follows the time that passes, also when now     *)
(* wraps around, as long as it stays within the width of the clock.        *)
LEMMA ElapsedAfter ==
    ASSUME TypeOK, NEW d \in Nat, Passed(d), Elapsed + d < CLOCK_MOD, since_ping <= Elapsed
    PROVE  Elapsed' = Elapsed + d /\ since_ping' <= Elapsed'
  <1>1. /\ now \in 0..CLOCK_MOD - 1 /\ last_watchdog_ms \in 0..CLOCK_MOD - 1 /\ since_ping \in Nat
        /\ CLOCK_MOD \in Nat /\ CLOCK_MOD > 0 /\ GAP_CAP \in Nat
    BY TimeAssumption DEF TypeOK
  <1>2. /\ now' = (now + d) % CLOCK_MOD /\ last_watchdog_ms' = last_watchdog_ms
        /\ since_ping' <= since_ping + d
    BY <1>1 DEF Passed
  <1>3. (((now + d) % CLOCK_MOD) - last_watchdog_ms) % CLOCK_MOD
           = ((now - last_watchdog_ms) % CLOCK_MOD) + d
    BY <1>1 DEF Elapsed
  <1>4. Elapsed' = Elapsed + d
    BY <1>2, <1>3 DEF Elapsed
  <1>5. Elapsed \in Nat /\ since_ping' \in Int
    BY <1>1 DEF Elapsed, Passed
  <1> QED BY <1>1, <1>2, <1>4, <1>5

(* A sleep, whole or cut short by a signal, adds at most its length.       *)
LEMMA ElapsedAfterSleep ==
    ASSUME TypeOK, NEW full \in Nat, Sleep(full), Elapsed + full < CLOCK_MOD, since_ping <= Elapsed
    PROVE  Elapsed' \in Nat /\ Elapsed' <= Elapsed + full /\ since_ping' <= Elapsed'
  <1>0. Elapsed \in Nat /\ CLOCK_MOD \in Nat
    BY TimeAssumption DEF Elapsed, TypeOK
  <1>1. PICK d \in 0..full : Passed(d)
    BY DEF Sleep
  <1>2. d \in Nat /\ d <= full /\ Elapsed + d < CLOCK_MOD
    BY <1>0
  <1>3. Elapsed' = Elapsed + d /\ since_ping' <= Elapsed'
    BY <1>1, <1>2, ElapsedAfter
  <1> QED BY <1>0, <1>2, <1>3

LEMMA ClockInvHolds == Spec => []ClockInv
  <1> USE DEF ClockInv
  <1>1. Init => ClockInv
    BY DEF Init, StartupPc, LoopPc
  <1>2. TypeOK /\ RecoveryNeverNeeded /\ ClockInv /\ [Next]_vars => ClockInv'
    <2> SUFFICES ASSUME TypeOK, RecoveryNeverNeeded, ClockInv, [Next]_vars PROVE ClockInv'
      OBVIOUS
    <2> USE DEF StartupPc, LoopPc
    <2>0. /\ config.tick \in Nat \ {0} /\ WATCHDOG_PING \in Nat \ {0} /\ RECOVERY_BACKOFF_MAX \in Nat
          /\ CLOCK_MOD \in Nat /\ since_ping \in Nat /\ backoff_us \in Nat
          /\ backoff_us <= RECOVERY_BACKOFF_MAX
          /\ WATCHDOG_PING + RECOVERY_BACKOFF_MAX + config.tick < CLOCK_MOD
          /\ Elapsed \in Nat
      BY ClockTypes
    <2>1. CASE ParseOptions \/ LoadConfig \/ install_signal_handlers
               \/ apply_network \/ apply_security \/ apply_realtime
      BY <2>1 DEF ParseOptions, LoadConfig, install_signal_handlers,
                  apply_network, apply_security, apply_realtime
    <2>2. CASE InitialStart
      <3> PICK k \in -1..PLUG_ALL :
                /\ device_init_and_start(k)
                /\ IF k = PLUG_ALL THEN Goto("start", "loop") ELSE Goto("start", "cleanup_rt")
        BY <2>2 DEF InitialStart
      <3>1. k = PLUG_ALL => ~TickRefused(dev')
        BY InitAndStart DEF TickRefused, NULL, TypeOK
      <3>2. Elapsed' = Elapsed /\ since_ping' = 0 /\ pc = "start"
        BY <2>2 DEF InitialStart, Elapsed
      <3> QED BY <2>0, <3>1, <3>2
    <2>3. CASE TickBegins
      BY <2>0, <2>3 DEF TickBegins, Elapsed
    <2>4. CASE TickSucceeds
      BY <2>0, <2>4 DEF TickSucceeds, Elapsed, SilenceBound
    <2>5. CASE TickFails
      <3>1. DeviceMayFault
        BY <2>5, FaultAssumption DEF RecoveryNeverNeeded, TickFails, TickRefused, Up
      <3>2. Elapsed < WATCHDOG_PING + config.tick
        BY <2>5 DEF TickFails
      <3>3. pc' \in {"watchdog", "shutdown", "recover_reset", "backoff"} /\ pc = "loop"
        BY <2>5 DEF TickFails
      <3>4. Elapsed' = Elapsed /\ UNCHANGED <<since_ping, config>>
        BY <2>5 DEF TickFails, Elapsed
      <3> QED BY <2>0, <3>1, <3>2, <3>3, <3>4 DEF SilenceBound
    <2>6. CASE RecoverResetReturns
      BY <2>6 DEF RecoverResetReturns, Elapsed
    <2>7. CASE Backoff
      <3>1. DeviceMayFault
        BY <2>7, FaultAssumption DEF RecoveryNeverNeeded, Backoff
      <3>2. Sleep(backoff_us) /\ pc = "backoff" /\ pc' = "restart" /\ config' = config
        BY <2>7 DEF Backoff
      <3>3. Elapsed < WATCHDOG_PING + config.tick /\ since_ping <= Elapsed
        BY <3>2
      <3>4. Elapsed' \in Nat /\ Elapsed' <= Elapsed + backoff_us /\ since_ping' <= Elapsed'
        BY <2>0, <3>2, <3>3, ElapsedAfterSleep
      <3>5. Elapsed' <= SilenceBound(config.tick)
        BY <2>0, <3>1, <3>3, <3>4 DEF SilenceBound
      <3> QED BY <3>2, <3>4, <3>5
    <2>8. CASE \E k \in -1..PLUG_ALL : Restart(k)
      BY <2>8 DEF Restart, Elapsed
    <2>9. CASE WatchdogPing
      <3>1. CASE PingDue
        <4>1. Elapsed' = 0 /\ since_ping' = 0
          BY <2>0, <2>9, <3>1 DEF WatchdogPing, Elapsed, TypeOK
        <4> QED BY <2>0, <2>9, <4>1 DEF WatchdogPing
      <3>2. CASE ~PingDue
        <4>1. Elapsed' = Elapsed /\ since_ping' = since_ping /\ Elapsed < WATCHDOG_PING
          BY <2>0, <2>9, <3>2 DEF WatchdogPing, PingDue, Elapsed
        <4> QED BY <2>0, <2>9, <4>1 DEF WatchdogPing
      <3> QED BY <3>1, <3>2
    <2>10. CASE TickSleep
      <3>1. Sleep(config.tick) /\ pc = "sleep" /\ pc' = "loop" /\ config' = config
        BY <2>10 DEF TickSleep
      <3>2. Elapsed < WATCHDOG_PING /\ since_ping <= Elapsed
        BY <3>1
      <3>3. Elapsed' \in Nat /\ Elapsed' <= Elapsed + config.tick /\ since_ping' <= Elapsed'
        BY <2>0, <3>1, <3>2, ElapsedAfterSleep
      <3> QED BY <2>0, <3>1, <3>2, <3>3
    <2>11. CASE LeaveLoop \/ StopDevice \/ ShutdownResetReturns \/ CleanupRt
      BY <2>11 DEF LeaveLoop, StopDevice, ShutdownResetReturns, CleanupRt
    <2>12. CASE Signal
      BY <2>12 DEF Signal, Elapsed
    <2>13. CASE Callback \/ DeviceFault
      BY <2>13 DEF Callback, DeviceFault, Elapsed
    <2>14. CASE Terminated \/ UNCHANGED vars
      BY <2>14 DEF Terminated, vars, Elapsed
    <2> QED
      BY <2>1, <2>2, <2>3, <2>4, <2>5, <2>6, <2>7, <2>8, <2>9, <2>10, <2>11, <2>12, <2>13, <2>14
      DEF Next, Program
  <1> QED BY <1>1, <1>2, TypeCorrect, RecoveryIsUnreachable, PTL DEF Spec

(* The time for which systemd hears nothing is at most one ping interval,  *)
(* a tick and the longest backoff, for every clock width and wherever the  *)
(* clock wraps around.                                                     *)
THEOREM SilenceIsAlwaysBounded == Spec => []SilenceIsBounded
  <1>1. TypeOK /\ ClockInv => SilenceIsBounded
    <2> SUFFICES ASSUME TypeOK, ClockInv, pc \in LoopPc PROVE since_ping <= SilenceBound(config.tick)
      BY DEF SilenceIsBounded
    <2>1. /\ config.tick \in Nat \ {0} /\ WATCHDOG_PING \in Nat \ {0} /\ RECOVERY_BACKOFF_MAX \in Nat
          /\ since_ping \in Nat /\ Elapsed \in Nat
      BY ClockTypes
    <2>2. since_ping = 0 \/ (since_ping <= Elapsed /\ Elapsed <= SilenceBound(config.tick))
      BY <2>1 DEF ClockInv, LoopPc, SilenceBound
    <2>3. SilenceBound(config.tick) \in Nat
      BY <2>1 DEF SilenceBound
    <2> QED BY <2>1, <2>2, <2>3
  <1> QED BY <1>1, TypeCorrect, ClockInvHolds, PTL

(* systemd is fed whenever WatchdogSec allows for that silence, whatever   *)
(* the tick.                                                               *)
THEOREM WatchdogIsAlwaysFed ==
    ASSUME \A t \in TickChoices : SilenceBound(t) <= WATCHDOG_SEC
    PROVE  Spec => []WatchdogIsFed
  <1>1. TypeOK /\ SilenceIsBounded => WatchdogIsFed
    <2> SUFFICES ASSUME TypeOK, SilenceIsBounded, pc \in LoopPc PROVE since_ping <= WATCHDOG_SEC
      BY DEF WatchdogIsFed
    <2>1. /\ config.tick \in TickChoices /\ config.tick \in Nat /\ WATCHDOG_PING \in Nat
          /\ RECOVERY_BACKOFF_MAX \in Nat /\ since_ping \in Nat /\ WATCHDOG_SEC \in Nat
      BY ClockTypes
    <2>2. since_ping <= SilenceBound(config.tick) /\ SilenceBound(config.tick) <= WATCHDOG_SEC
      BY <2>1 DEF SilenceIsBounded
    <2>3. SilenceBound(config.tick) \in Int
      BY <2>1 DEF SilenceBound
    <2> QED BY <2>1, <2>2, <2>3
  <1> QED BY <1>1, TypeCorrect, SilenceIsAlwaysBounded, PTL

----------------------------------------------------------------------------
(* The manager as a service.                                               *)
ExitInv == pc # "exited" => exit = "none"

(* An exit status is set by the step that ends the process.                *)
LEMMA ExitInvHolds == Spec => []ExitInv
  <1>1. Init => ExitInv
    BY DEF Init, ExitInv
  <1>2. ExitInv /\ [Next]_vars => ExitInv'
    BY DEF ExitInv, Next, Program, ParseOptions, LoadConfig, install_signal_handlers, apply_network,
           apply_security, apply_realtime, InitialStart, TickBegins, TickSucceeds, TickFails,
           RecoverResetReturns, Backoff, Restart, WatchdogPing, TickSleep, LeaveLoop,
           StopDevice, ShutdownResetReturns, CleanupRt, Signal, Callback, DeviceFault,
           Terminated, vars
  <1> QED BY <1>1, <1>2, PTL DEF Spec

(* The phase of the service, by where main is.                             *)
LEMMA PhaseIs ==
    /\ pc \in StartupPc => phase = "starting"
    /\ pc \in LoopPc => phase = IF status = "recovering" THEN "recovering" ELSE "serving"
    /\ pc = "exited" => phase = "ended"
    /\ pc \in ShutdownPc \cup {"cleanup_rt"} => phase = "stopping"
    /\ pc' \in StartupPc => phase' = "starting"
    /\ pc' \in LoopPc => phase' = IF status' = "recovering" THEN "recovering" ELSE "serving"
    /\ pc' = "exited" => phase' = "ended"
    /\ pc' \in ShutdownPc \cup {"cleanup_rt"} => phase' = "stopping"
  BY DEF phase, StartupPc, LoopPc, ShutdownPc

(* Every step of main is one of the lifecycle of a service, or none.       *)
LEMMA StepKeepsPromise ==
    ASSUME TypeOK, ExitInv, StatusInv, RecoveryNeverNeeded, [Next]_vars
    PROVE  [Promise!Next]_(Promise!vars)
  <1> USE DEF Promise!vars, Promise!Next, Promise!Move, Promise!Ask, Promise!DieAsked,
              Promise!StartFails, Promise!StartIsUndone, Promise!Serve, Promise!Fault,
              Promise!Stop, Promise!End, Heard, ExitInv
  <1>1. CASE ParseOptions \/ LoadConfig \/ install_signal_handlers
             \/ apply_network \/ apply_security \/ apply_realtime
    <2>1. /\ pc \in StartupPc /\ pc' \in StartupPc \cup {"exited"}
          /\ pc # "exited" /\ exit' # "killed" /\ g_running' = g_running
      BY <1>1 DEF ParseOptions, LoadConfig, install_signal_handlers,
                  apply_network, apply_security, apply_realtime, StartupPc, ExitInv
    <2> QED BY <2>1, PhaseIs
  <1>2. CASE InitialStart
    <2>1. /\ pc = "start" /\ UNCHANGED <<exit, g_running>>
          /\ (pc' = "loop" /\ status' = "ready") \/ pc' = "cleanup_rt"
      BY <1>2 DEF InitialStart
    <2> QED BY <2>1, PhaseIs DEF StartupPc, LoopPc
  <1>3. CASE TickBegins \/ TickSucceeds \/ WatchdogPing \/ RecoverResetReturns
    <2>1. pc \in LoopPc /\ pc' \in LoopPc /\ UNCHANGED <<status, exit, g_running>>
      BY <1>3 DEF TickBegins, TickSucceeds, WatchdogPing, RecoverResetReturns, LoopPc
    <2> QED BY <2>1, PhaseIs
  <1>4. CASE TickFails
    <2>1. pc = "loop" /\ UNCHANGED <<exit, g_running>>
      BY <1>4 DEF TickFails
    <2>2. DeviceMayFault
      BY <1>4, FaultAssumption DEF RecoveryNeverNeeded, TickFails, TickRefused, Up, LoopPc
    <2>3. \/ pc' = "watchdog" /\ status' = status
          \/ pc' = "shutdown" /\ MAX_RECOVERY_ATTEMPTS > 0
          \/ pc' \in {"recover_reset", "backoff"} /\ status' = "recovering"
      BY <1>4 DEF TickFails, GiveUp
    <2> QED BY <2>1, <2>2, <2>3, PhaseIs DEF LoopPc, ShutdownPc
  <1>5. CASE Backoff \/ TickSleep
    <2>1. /\ pc \in LoopPc /\ pc' \in LoopPc /\ pc # "exited" /\ UNCHANGED <<status, exit>>
          /\ UNCHANGED g_running \/ ~g_running'
      BY <1>5 DEF Backoff, TickSleep, Sleep, LoopPc
    <2>2. phase' = phase
      BY <2>1, PhaseIs
    <2>3. CASE UNCHANGED g_running
      BY <2>1, <2>2, <2>3
    <2>4. CASE g_running /\ ~g_running'
      BY <2>1, <2>2, <2>4
    <2>5. CASE ~g_running /\ ~g_running'
      <3>1. Heard /\ Heard'
        BY <2>5
      <3>2. Heard' = Heard
        BY <3>1, Zenon
      <3> QED BY <2>2, <3>2
    <2> QED BY <2>1, <2>3, <2>4, <2>5
  <1>6. CASE \E k \in -1..PLUG_ALL : Restart(k)
    <2>1. /\ pc = "restart" /\ pc' = "watchdog" /\ UNCHANGED <<exit, g_running>>
          /\ status' \in {status, "running"}
      BY <1>6 DEF Restart
    <2> QED BY <2>1, PhaseIs DEF LoopPc
  <1>7. CASE LeaveLoop
    <2>1. pc = "loop" /\ pc' = "shutdown" /\ ~g_running /\ UNCHANGED <<exit, g_running>>
      BY <1>7 DEF LeaveLoop
    <2> QED BY <2>1, PhaseIs DEF LoopPc, ShutdownPc
  <1>8. CASE StopDevice \/ ShutdownResetReturns
    <2>1. /\ pc \in ShutdownPc /\ pc' \in ShutdownPc \cup {"cleanup_rt"}
          /\ UNCHANGED <<exit, g_running>>
      BY <1>8 DEF StopDevice, ShutdownResetReturns, ShutdownPc
    <2> QED BY <2>1, PhaseIs
  <1>9. CASE CleanupRt
    <2>1. /\ pc = "cleanup_rt" /\ pc' = "exited" /\ g_running' = g_running
          /\ exit' = "success"
      BY <1>9 DEF CleanupRt
    <2> QED BY <2>1, PhaseIs
  <1>10. CASE Signal
    <2>1. CASE pc \in {"options", "config", "handlers"}
      <3>1. /\ g_running /\ pc' = "exited" /\ exit' = "killed" /\ pc \in StartupPc /\ pc # "exited"
        BY <1>10, <2>1 DEF Signal, StartupPc
      <3> QED BY <3>1, PhaseIs
    <2>2. CASE pc \notin {"options", "config", "handlers"}
      <3>1. /\ g_running /\ pc # "exited" /\ ~g_running' /\ UNCHANGED <<pc, exit, status>>
        BY <1>10, <2>2 DEF Signal
      <3>2. phase' = phase
        BY <3>1 DEF phase
      <3> QED BY <3>1, <3>2
    <2> QED BY <2>1, <2>2
  <1>11. CASE Callback \/ DeviceFault \/ Terminated \/ UNCHANGED vars
    <2>1. UNCHANGED <<pc, status, exit, g_running>>
      BY <1>11 DEF Callback, DeviceFault, Terminated, vars
    <2> QED BY <2>1 DEF phase
  <1> QED
    BY <1>1, <1>2, <1>3, <1>4, <1>5, <1>6, <1>7, <1>8, <1>9, <1>10, <1>11 DEF Next, Program

(* The steps of main, of its environment and of a SIGINT that system()     *)
(* ignores keep to the lifecycle of a service, whatever the limit on the   *)
(* recoveries: it serves only after a start or a recovery, recovers only   *)
(* when a fault is possible, leaves only when asked or out of attempts,    *)
(* and never comes back.                                                   *)
THEOREM ServiceKeepsPromise == ServiceSpec => Promise!Spec
  <1>1. ServiceSpec => Spec
    <2>1. ServiceInit => Init
      BY DEF ServiceInit
    <2>2. [ServiceNext]_service => [Next]_vars
      BY DEF ServiceNext, service, ManagerStep, IgnoredSigint
    <2> QED BY <2>1, <2>2, PTL DEF ServiceSpec, Spec
  <1>2. Init => Promise!Init
    <2> SUFFICES ASSUME Init PROVE phase = "starting" /\ ~Heard
      BY Zenon DEF Promise!Init, Heard
    <2>1. pc \in StartupPc /\ g_running /\ exit = "none"
      BY DEF Init, StartupPc
    <2> QED BY <2>1, PhaseIs DEF Heard
  <1>3. TypeOK /\ ExitInv /\ StatusInv /\ RecoveryNeverNeeded /\ [Next]_vars
           => [Promise!Next]_(Promise!vars)
    BY StepKeepsPromise
  <1> QED
    BY <1>1, <1>2, <1>3, TypeCorrect, ExitInvHolds, LoopInvHolds, RecoveryIsUnreachable, PTL
    DEF Spec, Promise!Spec
============================================================================
