--------------------------- MODULE IoDeviceProofs ---------------------------
(***************************************************************************)
(* For every number of AREPs, buffer size and client: the device record    *)
(* keeps its type and its lifecycle state is true of the stack.            *)
(***************************************************************************)
EXTENDS IoDevice, IoDeviceOpsProofs

(* The type of every variable is kept by every call and callback; the      *)
(* lengths that io_device_update_input and io_device_read_output store     *)
(* never exceed the buffers.                                               *)
THEOREM TypeCorrect == Spec => []TypeOK
  <1>1. Init => TypeOK
    <2> SUFFICES ASSUME Init PROVE TypeOK
      OBVIOUS
    <2>1. NewStack(0) \in Stack
      BY NewStackType DEF PLUG_ALL
    <2> QED BY <2>1, ResetDeviceType, StacksAssumption DEF Init, TypeOK
  <1>2. TypeOK /\ [Next]_vars => TypeOK'
    <2> SUFFICES ASSUME TypeOK, [Next]_vars PROVE TypeOK'
      OBVIOUS
    <2> USE DEF TypeOK
    <2>1. CASE io_device_init
      BY <2>1, ResetDeviceType DEF io_device_init
    <2>2. CASE io_device_start
      BY <2>2, StartTypes DEF io_device_start
    <2>3. CASE io_device_tick
      BY <2>3 DEF io_device_tick
    <2>4. CASE PeriodicReturns
      <3>1. Ticked(dev) \in Device
        BY CountType DEF Ticked, Device
      <3> QED BY <2>4, <3>1 DEF PeriodicReturns
    <2>5. CASE io_device_stop
      BY <2>5 DEF io_device_stop
    <2>6. CASE ResetReturns
      <3> PICK ok \in BOOLEAN : heap' = [heap EXCEPT ![dev.pnet_handle] = AfterReset(@, ok)]
        BY <2>6 DEF ResetReturns
      <3>0. dev.pnet_handle \in Handle => AfterReset(heap[dev.pnet_handle], ok) \in Stack
        BY AfterResetType, Zenon
      <3>1. heap' \in [Handle -> Stack]
        BY <3>0, HeapUpdate
      <3> QED BY <2>6, <3>1, ResetDeviceType DEF ResetReturns
    <2>7. CASE io_device_cleanup
      BY <2>7, ResetDeviceType DEF io_device_cleanup
    <2>8. CASE Refused
      BY <2>8 DEF Refused
    <2>9. CASE io_device_update_input
      <3> PICK data \in Buffer(BUF_SIZE), len \in 0..BUF_SIZE + 1 :
                /\ MayUpdateInput(dev, len)
                /\ dev' = InputCached(dev, data, len)
                /\ heap' = [heap EXCEPT ![dev.pnet_handle] = InputPushed(@, data)]
        BY <2>9 DEF io_device_update_input
      <3>1. len \in 0..BUF_SIZE /\ dev.pnet_handle \in Handle
        BY SizeAssumption DEF MayUpdateInput, Device, NULL
      <3>2. Memcpy(dev.input_data, data, len) \in Buffer(BUF_SIZE)
        BY <3>1, SizeAssumption, MemcpyType DEF Device
      <3>3. InputCached(dev, data, len) \in Device
        BY <3>1, <3>2 DEF InputCached, Device
      <3>4. ASSUME NEW s \in Stack PROVE InputPushed(s, data) \in Stack
        <4>1. Memcpy(s.input, data, EXAMPLE_INPUT_SIZE) \in Buffer(EXAMPLE_INPUT_SIZE)
          BY SizeAssumption, MemcpyType DEF Stack
        <4> QED BY <4>1 DEF InputPushed, Stack
      <3> QED BY <2>9, <3>1, <3>3, <3>4 DEF io_device_update_input
    <2>10. CASE io_device_read_output
      <3>1. stack \in Stack
        BY <2>10 DEF io_device_read_output, stack, Device, NULL
      <3>2. ASSUME NEW len \in 0..BUF_SIZE + 1 PROVE OutputCached(dev, stack, len) \in Device
        <4>1. OutputLen(len) \in 0..BUF_SIZE /\ OutputLen(len) <= EXAMPLE_OUTPUT_SIZE
          BY SizeAssumption DEF OutputLen
        <4>2. Memcpy(dev.output_data, stack.output, OutputLen(len)) \in Buffer(BUF_SIZE)
          BY <3>1, <4>1, SizeAssumption, MemcpyType DEF Device, Stack
        <4> QED BY <4>1, <4>2 DEF OutputCached, Device
      <3> QED BY <2>10, <3>2 DEF io_device_read_output
    <2>11. CASE app_state_ind_cb
      <3> PICK a \in Arep, e \in Event :
                /\ dev' = StateIndication(dev, a, e)
                /\ heap' = [heap EXCEPT ![dev.pnet_handle] = ArAfter(@, a, e)]
        BY <2>11 DEF app_state_ind_cb
      <3>1. dev' \in Device
        BY StateIndicationType
      <3>2. heap' \in [Handle -> Stack]
        BY ArAfterType, HeapUpdate
      <3> QED BY <2>11, <3>1, <3>2 DEF app_state_ind_cb
    <2>12. CASE PassiveIndication
      BY <2>12 DEF PassiveIndication, vars
    <2>13. CASE ControllerWritesOutput
      <3>1. ASSUME NEW s \in Stack, NEW v \in Buffer(EXAMPLE_OUTPUT_SIZE)
            PROVE  [s EXCEPT !.output = v] \in Stack
        BY DEF Stack
      <3> PICK v \in Buffer(EXAMPLE_OUTPUT_SIZE) :
                heap' = [heap EXCEPT ![dev.pnet_handle].output = v]
        BY <2>13 DEF ControllerWritesOutput
      <3>2. heap' \in [Handle -> Stack]
        BY <3>1, HeapUpdate
      <3> QED BY <2>13, <3>2 DEF ControllerWritesOutput
    <2>14. CASE UNCHANGED vars
      BY <2>14 DEF vars
    <2> QED
      BY <2>1, <2>2, <2>3, <2>4, <2>5, <2>6, <2>7, <2>8, <2>9, <2>10, <2>11, <2>12, <2>13, <2>14
      DEF Next
  <1> QED BY <1>1, <1>2, PTL DEF Spec

----------------------------------------------------------------------------
(* The inductive invariant.  LifecycleCoherent alone is not inductive: an  *)
(* abort may only be indicated on a live AR, and that there is none behind *)
(* a device in ERROR is what keeps the callback from reviving it.          *)
Inv == TypeOK /\ LifecycleCoherent /\ RunningExchanges /\ ActiveArepIsLive

(* A step that leaves the state, the AREP, the handle and the connections  *)
(* of the stack alone keeps the invariant's three parts, if it enters a    *)
(* call of the stack only on a device fit for it.                          *)
LEMMA SameView ==
    ASSUME Inv, TypeOK',
           dev'.state = dev.state, dev'.pnet_handle = dev.pnet_handle,
           dev'.active_arep = dev.active_arep,
           dev'.cycle_count = dev.cycle_count \/ Up,
           dev.pnet_handle # NULL =>
               /\ stack'.plugged = stack.plugged
               /\ Live(stack)' = Live(stack)
               /\ Exchanging(stack)' = Exchanging(stack),
           call' = "periodic" => Up,
           call' = "reset" => dev.pnet_handle # NULL
    PROVE  Inv'
  <1> USE DEF Inv, Up
  <1>1. LifecycleCoherent'
    BY DEF LifecycleCoherent
  <1>2. RunningExchanges'
    BY DEF LifecycleCoherent, RunningExchanges
  <1>3. ActiveArepIsLive'
    BY DEF LifecycleCoherent, ActiveArepIsLive
  <1> QED BY <1>1, <1>2, <1>3

(* A step that leaves the device without a stack keeps the invariant.      *)
LEMMA DroppedView ==
    ASSUME TypeOK', call' = "none", dev' = CleanedUp \/ dev' = Initialized
    PROVE  Inv'
  <1>1. /\ dev'.state \in {"IDLE", "INITIALIZED"} /\ dev'.pnet_handle = NULL
        /\ dev'.active_arep = 0 /\ dev'.cycle_count = 0
    BY ResetDeviceFields
  <1> QED BY <1>1 DEF Inv, LifecycleCoherent, RunningExchanges, ActiveArepIsLive, Up

(* A callback on the device's stack keeps the invariant: this is where the *)
(* order of the events of an AR is used.                                   *)
LEMMA CallbackView ==
    ASSUME Inv, TypeOK', app_state_ind_cb
    PROVE  Inv'
  <1> PICK a \in Arep, e \in Event :
            /\ call = "reset" => e = "ABORT"
            /\ MayIndicate(stack, a, e)
            /\ dev' = StateIndication(dev, a, e)
            /\ heap' = [heap EXCEPT ![dev.pnet_handle] = ArAfter(@, a, e)]
    BY DEF app_state_ind_cb
  <1> USE DEF Inv
  <1>1. call \in {"periodic", "reset"} /\ call' = call /\ a \in Nat \ {0}
    BY ArepAssumption DEF app_state_ind_cb, TypeOK
  <1>2. dev.pnet_handle \in Handle
    BY <1>1 DEF LifecycleCoherent, TypeOK, Device, NULL, Up
  <1>3. stack \in Stack /\ stack.ar \in [Arep -> ArState]
    BY <1>2 DEF stack, TypeOK, Stack
  <1>4. Up
    <2>1. CASE call = "periodic"
      BY <2>1 DEF LifecycleCoherent
    <2>2. CASE call = "reset"
      <3>1. a \in Live(stack)
        BY <2>2 DEF MayIndicate, Live
      <3> QED BY <1>2, <3>1 DEF LifecycleCoherent, NULL, Handle
    <2> QED BY <1>1, <2>1, <2>2
  <1>5. /\ dev'.pnet_handle = dev.pnet_handle
        /\ e = "STARTUP" => dev'.active_arep = a /\ dev'.state = dev.state
        /\ e = "ABORT" => dev'.active_arep = 0 /\ dev'.state = "CONNECTED"
        /\ e = "DATA" => dev'.active_arep = dev.active_arep /\ dev'.state = "RUNNING"
        /\ e \in {"PRMEND", "APPLRDY"} =>
               dev'.active_arep = dev.active_arep /\ dev'.state = dev.state
    BY StateIndicationType DEF TypeOK
  <1>6. e \in {"STARTUP", "ABORT", "DATA", "PRMEND", "APPLRDY"}
    BY DEF Event, ArState
  <1>7. /\ stack'.plugged = stack.plugged
        /\ stack'.ar = [stack.ar EXCEPT ![a] = IF e = "ABORT" THEN "none" ELSE e]
    BY <1>2, <1>3, <1>5, ArAfterType DEF stack, TypeOK
  <1>8. Up'
    BY <1>4, <1>5, <1>6 DEF Up
  <1>9. LifecycleCoherent'
    BY <1>1, <1>2, <1>4, <1>5, <1>7, <1>8 DEF LifecycleCoherent, Up, NULL, Handle
  <1>10. RunningExchanges'
    <2> SUFFICES ASSUME dev'.state = "RUNNING" PROVE Exchanging(stack)' # {}
      BY DEF RunningExchanges
    <2>1. CASE e = "DATA"
      BY <1>3, <1>7, <2>1 DEF Exchanging
    <2>2. CASE e # "DATA"
      <3>1. e # "ABORT" /\ dev.state = "RUNNING"
        BY <1>5, <1>6, <2>2
      <3> PICK x \in Arep : stack.ar[x] = "DATA"
        BY <3>1 DEF RunningExchanges, Exchanging
      <3>2. stack.ar[a] # "DATA"
        BY <1>6, <3>1 DEF MayIndicate, Predecessor
      <3>3. stack'.ar[x] = "DATA"
        BY <1>3, <1>7, <3>2
      <3> QED BY <3>3 DEF Exchanging
    <2> QED BY <2>1, <2>2
  <1>11. ActiveArepIsLive'
    <2> SUFFICES ASSUME dev'.active_arep # 0 PROVE dev'.active_arep \in Live(stack)'
      BY DEF ActiveArepIsLive
    <2>1. CASE e = "STARTUP"
      BY <1>3, <1>5, <1>7, <2>1 DEF Live
    <2>2. CASE e # "STARTUP"
      <3>1. e # "ABORT" /\ dev'.active_arep = dev.active_arep
        BY <1>5, <1>6, <2>2
      <3>2. dev.active_arep \in Arep /\ stack.ar[dev.active_arep] # "none"
        BY <3>1 DEF ActiveArepIsLive, Live
      <3>3. stack'.ar[dev.active_arep] # "none"
        BY <1>3, <1>6, <1>7, <3>1, <3>2
      <3> QED BY <3>1, <3>2, <3>3 DEF Live
    <2> QED BY <2>1, <2>2
  <1> QED BY <1>9, <1>10, <1>11

(* Every step of the device keeps the invariant.                           *)
LEMMA NextKeepsInv == ASSUME Inv, TypeOK', [Next]_vars PROVE Inv'
  <1> USE DEF Inv
  <1>1. CASE io_device_init
    BY <1>1, DroppedView DEF io_device_init
  <1>2. CASE io_device_start
    <2> PICK k \in StartOutcome(allocated) :
              /\ dev' = Started(dev, allocated, k)
              /\ heap' = HeapAfterStart(heap, allocated, k)
      BY <1>2 DEF io_device_start
    <2>1. /\ call' = "none" /\ dev.state = "INITIALIZED"
          /\ dev.active_arep = 0 /\ dev.cycle_count = 0
      BY <1>2 DEF io_device_start, MayStart, LifecycleCoherent, Up
    <2>2. /\ dev'.active_arep = 0 /\ dev'.cycle_count = 0
          /\ dev'.state = IF k = PLUG_ALL THEN "CONNECTED" ELSE "ERROR"
      BY <2>1 DEF Started, TypeOK, Device
    <2>3. CASE k = INIT_FAILED
      <3>1. dev'.pnet_handle = NULL
        BY <2>3, StartTypes DEF TypeOK
      <3> QED BY <2>1, <2>2, <2>3, <3>1
              DEF LifecycleCoherent, RunningExchanges, ActiveArepIsLive, Up, INIT_FAILED, PLUG_ALL
    <2>4. CASE k # INIT_FAILED
      <3>1. /\ dev'.pnet_handle = allocated + 1 /\ allocated + 1 \in Handle
            /\ heap' = [heap EXCEPT ![allocated + 1] = NewStack(k)]
        BY <2>4, StartTypes DEF TypeOK
      <3>2. stack' = NewStack(k) /\ dev'.pnet_handle # NULL
        BY <3>1 DEF stack, TypeOK, Handle, NULL
      <3>3. Live(stack)' = {} /\ stack'.plugged = k
        BY <3>2, NewStackIsQuiet DEF NewStack
      <3> QED BY <2>1, <2>2, <3>2, <3>3
              DEF LifecycleCoherent, RunningExchanges, ActiveArepIsLive, Up
    <2> QED BY <2>3, <2>4
  <1>3. CASE io_device_tick
    <2>1. Up
      BY <1>3 DEF io_device_tick, TickRefused, LifecycleCoherent, Up, TypeOK, Device, State
    <2> QED BY <1>3, <2>1, SameView DEF io_device_tick, stack
  <1>4. CASE PeriodicReturns
    <2>1. Up
      BY <1>4 DEF PeriodicReturns, LifecycleCoherent
    <2>2. /\ dev'.state = dev.state /\ dev'.pnet_handle = dev.pnet_handle
          /\ dev'.active_arep = dev.active_arep
      BY <1>4 DEF PeriodicReturns, Ticked, TypeOK, Device
    <2>3. stack' = stack
      BY <1>4, <2>2 DEF PeriodicReturns, stack
    <2> QED BY <1>4, <2>1, <2>2, <2>3, SameView DEF PeriodicReturns, Live, Exchanging
  <1>5. CASE io_device_stop
    BY <1>5, SameView DEF io_device_stop, MayStop, stack
  <1>6. CASE ResetReturns
    BY <1>6, DroppedView DEF ResetReturns
  <1>7. CASE io_device_cleanup
    BY <1>7, DroppedView DEF io_device_cleanup
  <1>8. CASE Refused
    BY <1>8, SameView DEF Refused, stack
  <1>9. CASE io_device_update_input
    <2> PICK data \in Buffer(BUF_SIZE), len \in 0..BUF_SIZE + 1 :
              /\ MayUpdateInput(dev, len)
              /\ dev' = InputCached(dev, data, len)
              /\ heap' = [heap EXCEPT ![dev.pnet_handle] = InputPushed(@, data)]
      BY <1>9 DEF io_device_update_input
    <2>1. dev.pnet_handle \in Handle
      BY DEF MayUpdateInput, TypeOK, Device, NULL
    <2>2. /\ dev'.state = dev.state /\ dev'.pnet_handle = dev.pnet_handle
          /\ dev'.active_arep = dev.active_arep /\ dev'.cycle_count = dev.cycle_count
      BY DEF InputCached, TypeOK, Device
    <2>3. stack \in Stack /\ stack' = InputPushed(stack, data)
      BY <2>1, <2>2 DEF stack, TypeOK
    <2>4. stack'.ar = stack.ar /\ stack'.plugged = stack.plugged
      BY <2>3 DEF InputPushed, Stack
    <2> QED BY <1>9, <2>2, <2>4, SameView DEF io_device_update_input, Live, Exchanging
  <1>10. CASE io_device_read_output
    <2>1. /\ dev'.state = dev.state /\ dev'.pnet_handle = dev.pnet_handle
          /\ dev'.active_arep = dev.active_arep /\ dev'.cycle_count = dev.cycle_count
      BY <1>10 DEF io_device_read_output, OutputCached, TypeOK, Device
    <2>2. stack' = stack
      BY <1>10, <2>1 DEF io_device_read_output, stack
    <2> QED BY <1>10, <2>1, <2>2, SameView DEF io_device_read_output, Live, Exchanging
  <1>11. CASE app_state_ind_cb
    BY <1>11, CallbackView
  <1>12. CASE PassiveIndication
    BY <1>12, SameView DEF PassiveIndication, vars, stack, LifecycleCoherent
  <1>13. CASE ControllerWritesOutput
    <2> PICK v \in Buffer(EXAMPLE_OUTPUT_SIZE) :
              heap' = [heap EXCEPT ![dev.pnet_handle].output = v]
      BY <1>13 DEF ControllerWritesOutput
    <2>1. dev' = dev /\ call' = call /\ Up
      BY <1>13 DEF ControllerWritesOutput, LifecycleCoherent
    <2>2. dev.pnet_handle \in Handle
      BY <2>1 DEF LifecycleCoherent, TypeOK, Device, NULL
    <2>3. stack \in Stack /\ stack' = [stack EXCEPT !.output = v]
      BY <2>1, <2>2 DEF stack, TypeOK
    <2>4. stack'.ar = stack.ar /\ stack'.plugged = stack.plugged
      BY <2>3 DEF Stack
    <2> QED BY <2>1, <2>2, <2>4, SameView DEF Live, Exchanging, Handle, NULL
  <1>14. CASE UNCHANGED vars
    BY <1>14, SameView DEF vars, stack, LifecycleCoherent
  <1> QED
    BY <1>1, <1>2, <1>3, <1>4, <1>5, <1>6, <1>7, <1>8, <1>9, <1>10, <1>11, <1>12, <1>13, <1>14
    DEF Next

(* The invariant holds in every reachable state.                           *)
THEOREM InvHolds == Spec => []Inv
  <1>1. Init /\ TypeOK => Inv
    BY ResetDeviceFields DEF Init, Inv, LifecycleCoherent, RunningExchanges, ActiveArepIsLive, Up
  <1>2. Inv /\ TypeOK' /\ [Next]_vars => Inv'
    BY NextKeepsInv
  <1> QED BY <1>1, <1>2, TypeCorrect, PTL DEF Spec

(* Whatever a client calls and a controller does, the lifecycle state that *)
(* io_device_get_state reports is true of the stack behind the handle.     *)
THEOREM LifecycleIsCoherent == Spec => []LifecycleCoherent
  BY InvHolds, PTL DEF Inv

(* RUNNING is reported only while some AR of the stack exchanges data, for *)
(* any number of ARs.                                                      *)
THEOREM RunningMeansExchanging == Spec => []RunningExchanges
  BY InvHolds, PTL DEF Inv

(* The saved AREP is never one that the stack has torn down.               *)
THEOREM SavedArepIsLive == Spec => []ActiveArepIsLive
  BY InvHolds, PTL DEF Inv

----------------------------------------------------------------------------
(* The device implements the lifecycle of DeviceLifecycle: each step of a  *)
(* client, the stack or a controller is a step of the abstract lifecycle   *)
(* or leaves it alone.                                                     *)
THEOREM DeviceImplementsLifecycle == Spec => ImplementsLifecycle
  <1> USE DEF Inv
  <1>1. Init => Lifecycle!Init
    BY ResetDeviceFields DEF Init, Lifecycle!Init
  <1>2. Inv /\ TypeOK' /\ [Next]_vars => [Lifecycle!Next]_(Lifecycle!vars)
    <2> SUFFICES ASSUME Inv, TypeOK', [Next]_vars PROVE [Lifecycle!Next]_(Lifecycle!vars)
      OBVIOUS
    <2>0. ASSUME dev'.state = dev.state, dev'.pnet_handle = dev.pnet_handle
          PROVE  [Lifecycle!Next]_(Lifecycle!vars)
      BY <2>0 DEF Lifecycle!vars
    <2>1. CASE io_device_init
      BY <2>1, ResetDeviceFields DEF io_device_init, Lifecycle!Next, Lifecycle!Initialize
    <2>2. CASE io_device_start
      <3> PICK k \in StartOutcome(allocated) : dev' = Started(dev, allocated, k)
        BY <2>2 DEF io_device_start
      <3>1. /\ dev.state = "INITIALIZED"
            /\ dev'.state = IF k = PLUG_ALL THEN "CONNECTED" ELSE "ERROR"
        BY <2>2 DEF io_device_start, MayStart, Started, TypeOK, Device
      <3>2. k = PLUG_ALL => dev'.pnet_handle # NULL
        BY StartTypes DEF TypeOK, INIT_FAILED, PLUG_ALL, Handle, NULL
      <3> QED BY <3>1, <3>2 DEF Lifecycle!Next, Lifecycle!Start, Lifecycle!StartFails
    <2>3. CASE ResetReturns \/ io_device_cleanup
      BY <2>3, ResetDeviceFields DEF ResetReturns, io_device_cleanup, Lifecycle!Next, Lifecycle!Drop
    <2>4. CASE app_state_ind_cb
      <3> PICK a \in Arep, e \in Event :
                /\ call = "reset" => e = "ABORT"
                /\ MayIndicate(stack, a, e)
                /\ dev' = StateIndication(dev, a, e)
        BY <2>4 DEF app_state_ind_cb
      <3>1. e \in {"STARTUP", "ABORT", "DATA", "PRMEND", "APPLRDY"}
        BY DEF Event, ArState
      <3>2. /\ dev'.pnet_handle = dev.pnet_handle
            /\ e = "ABORT" => dev'.state = "CONNECTED"
            /\ e = "DATA" => dev'.state = "RUNNING"
            /\ e \in {"STARTUP", "PRMEND", "APPLRDY"} => dev'.state = dev.state
        BY StateIndicationType DEF TypeOK
      <3>3. Up
        <4>1. CASE call = "periodic"
          BY <4>1 DEF LifecycleCoherent
        <4>2. CASE call = "reset"
          <5>1. a \in Live(stack) /\ dev.pnet_handle # NULL
            BY <4>2 DEF MayIndicate, Live, LifecycleCoherent
          <5> QED BY <5>1 DEF LifecycleCoherent
        <4> QED BY <2>4, <4>1, <4>2 DEF app_state_ind_cb, TypeOK
      <3> QED
        BY <2>0, <3>1, <3>2, <3>3
        DEF Up, Lifecycle!Up, Lifecycle!Next, Lifecycle!Establish, Lifecycle!Lose
    <2>5. CASE io_device_tick \/ io_device_stop \/ Refused \/ ControllerWritesOutput
      BY <2>0, <2>5 DEF io_device_tick, io_device_stop, Refused, ControllerWritesOutput
    <2>6. CASE PeriodicReturns
      BY <2>0, <2>6 DEF PeriodicReturns, Ticked, TypeOK, Device
    <2>7. CASE io_device_update_input
      BY <2>0, <2>7 DEF io_device_update_input, InputCached, TypeOK, Device
    <2>8. CASE io_device_read_output
      BY <2>0, <2>8 DEF io_device_read_output, OutputCached, TypeOK, Device
    <2>9. CASE PassiveIndication \/ UNCHANGED vars
      BY <2>0, <2>9 DEF PassiveIndication, vars
    <2> QED
      BY <2>1, <2>2, <2>3, <2>4, <2>5, <2>6, <2>7, <2>8, <2>9 DEF Next
  <1> QED BY <1>1, <1>2, InvHolds, TypeCorrect, PTL DEF Spec, ImplementsLifecycle, Lifecycle!Spec

----------------------------------------------------------------------------
(* What the device says it sent is what the stack sends, for every buffer  *)
(* and submodule size and every sequence of starts and updates.            *)
THEOREM InputCacheIsAlwaysSent == Spec => []InputCacheIsSent
  <1> DEFINE Fresh == dev.state = "INITIALIZED" => dev.input_data = Zeros(BUF_SIZE)
             CacheInv == InputCacheIsSent /\ Fresh
  <1>1. Init => CacheInv
    BY ResetDeviceFields DEF Init, InputCacheIsSent
  <1>2. Inv /\ TypeOK' /\ CacheInv /\ [Next]_vars => CacheInv'
    <2> SUFFICES ASSUME Inv, TypeOK', CacheInv, [Next]_vars PROVE CacheInv'
      OBVIOUS
    <2> USE DEF Inv
    <2>0. ASSUME dev'.state = dev.state \/ dev'.state # "INITIALIZED",
                 dev'.pnet_handle = dev.pnet_handle,
                 dev'.input_data = dev.input_data, dev'.input_size = dev.input_size,
                 dev.pnet_handle # NULL => /\ stack'.plugged = stack.plugged
                                           /\ stack'.input = stack.input
          PROVE  CacheInv'
      BY <2>0 DEF InputCacheIsSent, InputPlugged
    <2>1. CASE io_device_init \/ io_device_cleanup \/ ResetReturns
      BY <2>1, ResetDeviceFields
      DEF io_device_init, io_device_cleanup, ResetReturns, InputCacheIsSent
    <2>2. CASE io_device_start
      <3> PICK k \in StartOutcome(allocated) :
                /\ dev' = Started(dev, allocated, k)
                /\ heap' = HeapAfterStart(heap, allocated, k)
        BY <2>2 DEF io_device_start
      <3>1. /\ dev.state = "INITIALIZED" /\ dev'.state # "INITIALIZED"
            /\ dev'.input_data = Zeros(BUF_SIZE)
        BY <2>2 DEF io_device_start, MayStart, Started, TypeOK, Device
      <3>2. CASE k = INIT_FAILED
        BY <3>1, <3>2, StartTypes DEF TypeOK, InputCacheIsSent
      <3>3. CASE k # INIT_FAILED
        <4>1. /\ dev'.pnet_handle = allocated + 1 /\ allocated + 1 \in Handle
              /\ heap' = [heap EXCEPT ![allocated + 1] = NewStack(k)]
          BY <3>3, StartTypes DEF TypeOK
        <4>2. stack' = NewStack(k)
          BY <4>1 DEF stack, TypeOK
        <4>3. stack'.input = Zeros(EXAMPLE_INPUT_SIZE)
          BY <4>2 DEF NewStack
        <4>4. \A i \in 1..EXAMPLE_INPUT_SIZE : stack'.input[i] = dev'.input_data[i]
          BY <3>1, <4>3, SizeAssumption DEF Zeros
        <4> QED BY <3>1, <4>4 DEF InputCacheIsSent
      <3> QED BY <3>2, <3>3
    <2>3. CASE io_device_tick \/ io_device_stop \/ Refused
      BY <2>0, <2>3 DEF io_device_tick, io_device_stop, Refused, stack
    <2>4. CASE PeriodicReturns
      <3>1. /\ dev'.state = dev.state /\ dev'.pnet_handle = dev.pnet_handle
            /\ dev'.input_data = dev.input_data /\ dev'.input_size = dev.input_size
        BY <2>4 DEF PeriodicReturns, Ticked, TypeOK, Device
      <3> QED BY <2>0, <2>4, <3>1 DEF PeriodicReturns, stack
    <2>5. CASE io_device_update_input
      <3> PICK data \in Buffer(BUF_SIZE), len \in 0..BUF_SIZE + 1 :
                /\ MayUpdateInput(dev, len)
                /\ dev' = InputCached(dev, data, len)
                /\ heap' = [heap EXCEPT ![dev.pnet_handle] = InputPushed(@, data)]
        BY <2>5 DEF io_device_update_input
      <3>1. dev.pnet_handle \in Handle
        BY DEF MayUpdateInput, TypeOK, Device, NULL
      <3>2. /\ dev'.state = dev.state /\ dev'.pnet_handle = dev.pnet_handle
            /\ dev'.input_data = Memcpy(dev.input_data, data, len) /\ dev'.input_size = len
        BY DEF InputCached, TypeOK, Device
      <3>3. dev'.state # "INITIALIZED"
        BY <3>1, <3>2 DEF LifecycleCoherent, NULL, Handle
      <3>4. stack \in Stack /\ stack' = InputPushed(stack, data)
        BY <3>1, <3>2 DEF stack, TypeOK
      <3>5. CASE InputPlugged(stack)
        <4>1. stack'.input = Memcpy(stack.input, data, EXAMPLE_INPUT_SIZE)
          BY <3>4, <3>5 DEF InputPushed, Stack
        <4>2. ASSUME NEW i \in 1..EXAMPLE_INPUT_SIZE, i <= len
              PROVE  stack'.input[i] = dev'.input_data[i]
          <5>0. DOMAIN stack.input = 1..EXAMPLE_INPUT_SIZE
            BY <3>4 DEF Stack, Buffer
          <5>1. stack'.input[i] = data[i]
            BY <4>1, <5>0, SizeAssumption DEF Memcpy
          <5>2. dev'.input_data[i] = data[i]
            BY <3>2, <4>2, SizeAssumption DEF Memcpy, TypeOK, Device, Buffer
          <5> QED BY <5>1, <5>2
        <4> QED BY <3>2, <3>3, <4>2 DEF InputCacheIsSent
      <3>6. CASE ~InputPlugged(stack)
        BY <3>3, <3>4, <3>6 DEF InputPushed, InputCacheIsSent
      <3> QED BY <3>5, <3>6
    <2>6. CASE io_device_read_output
      <3>1. /\ dev'.state = dev.state /\ dev'.pnet_handle = dev.pnet_handle
            /\ dev'.input_data = dev.input_data /\ dev'.input_size = dev.input_size
        BY <2>6 DEF io_device_read_output, OutputCached, TypeOK, Device
      <3> QED BY <2>0, <2>6, <3>1 DEF io_device_read_output, stack
    <2>7. CASE app_state_ind_cb
      <3> PICK a \in Arep, e \in Event :
                /\ dev' = StateIndication(dev, a, e)
                /\ heap' = [heap EXCEPT ![dev.pnet_handle] = ArAfter(@, a, e)]
        BY <2>7 DEF app_state_ind_cb
      <3>1. /\ dev'.state = dev.state \/ dev'.state # "INITIALIZED"
            /\ dev'.pnet_handle = dev.pnet_handle
            /\ dev'.input_data = dev.input_data /\ dev'.input_size = dev.input_size
        BY StateIndicationType DEF TypeOK, Event, ArState
      <3>2. dev.pnet_handle # NULL => /\ stack'.plugged = stack.plugged
                                      /\ stack'.input = stack.input
        <4> SUFFICES ASSUME dev.pnet_handle # NULL
                     PROVE  stack'.plugged = stack.plugged /\ stack'.input = stack.input
          OBVIOUS
        <4>1. dev.pnet_handle \in Handle
          BY DEF TypeOK, Device
        <4>2. stack \in Stack /\ stack' = ArAfter(stack, a, e)
          BY <3>1, <4>1 DEF stack, TypeOK
        <4> QED BY <4>2, ArAfterType
      <3> QED BY <2>0, <3>1, <3>2
    <2>8. CASE ControllerWritesOutput
      <3>1. dev.pnet_handle # NULL => /\ stack'.plugged = stack.plugged
                                      /\ stack'.input = stack.input
        BY <2>8 DEF ControllerWritesOutput, stack, TypeOK, Device, Stack
      <3> QED BY <2>0, <2>8, <3>1 DEF ControllerWritesOutput
    <2>9. CASE PassiveIndication \/ UNCHANGED vars
      BY <2>0, <2>9 DEF PassiveIndication, vars, stack
    <2> QED
      BY <2>1, <2>2, <2>3, <2>4, <2>5, <2>6, <2>7, <2>8, <2>9 DEF Next
  <1> QED BY <1>1, <1>2, InvHolds, TypeCorrect, PTL DEF Spec
=============================================================================
