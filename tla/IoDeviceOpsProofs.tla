------------------------- MODULE IoDeviceOpsProofs -------------------------
(***************************************************************************)
(* What the operators of IoDeviceOps return: the facts that the proofs     *)
(* about IoDevice and Manager share.                                       *)
(***************************************************************************)
EXTENDS IoDeviceOps, TLAPS

(* A zeroed buffer is a buffer.                                            *)
LEMMA ZerosType == ASSUME NEW n \in Nat PROVE Zeros(n) \in Buffer(n)
  BY ByteAssumption DEF Zeros, Buffer

(* memcpy from a source at least as long as the copy stays in the type of  *)
(* the destination.                                                        *)
LEMMA MemcpyType ==
    ASSUME NEW n \in Nat, NEW m \in Nat, NEW len \in Nat,
           NEW dst \in Buffer(n), NEW src \in Buffer(m), n <= m \/ len <= m
    PROVE  Memcpy(dst, src, len) \in Buffer(n)
  BY DEF Memcpy, Buffer

(* io_device_cleanup and io_device_init leave a device record.             *)
LEMMA ResetDeviceType == CleanedUp \in Device /\ Initialized \in Device
  <1>1. Zeros(BUF_SIZE) \in Buffer(BUF_SIZE)
    BY ZerosType, SizeAssumption
  <1>2. CleanedUp \in Device
    BY <1>1, SizeAssumption, CapAssumption DEF CleanedUp, Device, State, NULL
  <1>3. Initialized \in Device
    <2>1. EXAMPLE_INPUT_SIZE \in 0..BUF_SIZE /\ EXAMPLE_OUTPUT_SIZE \in 0..BUF_SIZE
      BY SizeAssumption
    <2>2. ASSUME NEW d \in Device
          PROVE  [ d EXCEPT !.state = "INITIALIZED", !.input_size = EXAMPLE_INPUT_SIZE,
                            !.output_size = EXAMPLE_OUTPUT_SIZE ] \in Device
      BY <2>1 DEF Device, State
    <2> QED BY <1>2, <2>2 DEF Initialized
  <1> QED BY <1>2, <1>3

(* The fields of a device that was cleaned up or initialised.              *)
LEMMA ResetDeviceFields ==
    /\ CleanedUp.state = "IDLE" /\ Initialized.state = "INITIALIZED"
    /\ CleanedUp.pnet_handle = NULL /\ Initialized.pnet_handle = NULL
    /\ CleanedUp.active_arep = 0 /\ Initialized.active_arep = 0
    /\ CleanedUp.cycle_count = 0 /\ Initialized.cycle_count = 0
    /\ Initialized.input_data = Zeros(BUF_SIZE)
    /\ Initialized.input_size = EXAMPLE_INPUT_SIZE
  <1>1. /\ CleanedUp.state = "IDLE" /\ CleanedUp.pnet_handle = NULL
        /\ CleanedUp.active_arep = 0 /\ CleanedUp.cycle_count = 0
        /\ CleanedUp.input_data = Zeros(BUF_SIZE)
    BY DEF CleanedUp
  <1>2. CleanedUp \in Device
    BY ResetDeviceType
  <1> QED BY <1>1, <1>2 DEF Initialized, Device

(* pnet_init allocates a stack record.                                     *)
LEMMA NewStackType == ASSUME NEW k \in 0..PLUG_ALL PROVE NewStack(k) \in Stack
  <1>1. /\ Zeros(EXAMPLE_INPUT_SIZE) \in Buffer(EXAMPLE_INPUT_SIZE)
        /\ Zeros(EXAMPLE_OUTPUT_SIZE) \in Buffer(EXAMPLE_OUTPUT_SIZE)
    BY ZerosType, SizeAssumption
  <1> QED BY <1>1 DEF NewStack, Stack, ArState

(* A new stack has no connection.                                          *)
LEMMA NewStackIsQuiet == ASSUME NEW k PROVE Live(NewStack(k)) = {}
  BY DEF Live, NewStack

(* An indicated event keeps the stack a stack, and concerns one AR only.   *)
LEMMA ArAfterType ==
    ASSUME NEW s \in Stack, NEW a \in Arep, NEW e \in Event
    PROVE  /\ ArAfter(s, a, e) \in Stack
           /\ ArAfter(s, a, e).plugged = s.plugged
           /\ ArAfter(s, a, e).input = s.input
           /\ ArAfter(s, a, e).reset = s.reset
           /\ ArAfter(s, a, e).ar = [s.ar EXCEPT ![a] = IF e = "ABORT" THEN "none" ELSE e]
  BY DEF ArAfter, Stack, Event, ArState

(* A factory reset keeps the stack a stack.                                *)
LEMMA AfterResetType ==
    ASSUME NEW s \in Stack, NEW ok \in BOOLEAN
    PROVE  /\ AfterReset(s, ok) \in Stack
           /\ AfterReset(s, ok).plugged = s.plugged
           /\ AfterReset(s, ok).reset # "no"
           /\ Live(AfterReset(s, ok)) # {} => AfterReset(s, ok).reset = "failed"
  <1>1. CASE ok
    <2>1. AfterReset(s, ok) = [s EXCEPT !.ar = [a \in Arep |-> "none"], !.reset = "ok"]
      BY <1>1 DEF AfterReset
    <2>2. [a \in Arep |-> "none"] \in [Arep -> ArState]
      BY DEF ArState
    <2>3. /\ AfterReset(s, ok) \in Stack
          /\ AfterReset(s, ok).plugged = s.plugged
          /\ AfterReset(s, ok).reset = "ok"
          /\ AfterReset(s, ok).ar = [a \in Arep |-> "none"]
      BY <2>1, <2>2 DEF Stack
    <2>4. Live(AfterReset(s, ok)) = {}
      BY <2>3 DEF Live
    <2> QED BY <2>3, <2>4
  <1>2. CASE ~ok
    <2>1. AfterReset(s, ok) = [s EXCEPT !.reset = "failed"]
      BY <1>2 DEF AfterReset
    <2> QED BY <2>1 DEF Stack, Live
  <1> QED BY <1>1, <1>2

(* The indication of a state event changes the state and the AREP only.    *)
LEMMA StateIndicationType ==
    ASSUME NEW d \in Device, NEW a \in Arep, NEW e \in Event
    PROVE  LET n == StateIndication(d, a, e)
           IN  /\ n \in Device
               /\ n.pnet_handle = d.pnet_handle
               /\ n.cycle_count = d.cycle_count
               /\ n.input_data = d.input_data
               /\ n.input_size = d.input_size
               /\ e = "STARTUP" => n.active_arep = a /\ n.state = d.state
               /\ e = "ABORT" => n.active_arep = 0 /\ n.state = "CONNECTED"
               /\ e = "DATA" => n.active_arep = d.active_arep /\ n.state = "RUNNING"
               /\ e \in {"PRMEND", "APPLRDY"} => n.active_arep = d.active_arep /\ n.state = d.state
  <1>1. e \in {"STARTUP", "ABORT", "DATA", "PRMEND", "APPLRDY"}
    BY DEF Event, ArState
  <1>2. CASE e = "STARTUP"
    BY <1>2 DEF StateIndication, Device, State
  <1>3. CASE e = "ABORT"
    BY <1>3 DEF StateIndication, Device, State
  <1>4. CASE e = "DATA"
    BY <1>4 DEF StateIndication, Device, State
  <1>5. CASE e \in {"PRMEND", "APPLRDY"}
    BY <1>5 DEF StateIndication, Device, State
  <1> QED BY <1>1, <1>2, <1>3, <1>4, <1>5

(* What io_device_start leaves behind, for each of its outcomes.           *)
LEMMA StartTypes ==
    ASSUME NEW d \in Device, NEW n \in 0..MAX_STACKS, NEW heap \in [Handle -> Stack],
           NEW k \in StartOutcome(n)
    PROVE  /\ Started(d, n, k) \in Device
           /\ HeapAfterStart(heap, n, k) \in [Handle -> Stack]
           /\ AllocatedAfterStart(n, k) \in 0..MAX_STACKS
           /\ k = INIT_FAILED => /\ Started(d, n, k).pnet_handle = NULL
                                 /\ HeapAfterStart(heap, n, k) = heap
                                 /\ AllocatedAfterStart(n, k) = n
           /\ k # INIT_FAILED => /\ Started(d, n, k).pnet_handle = n + 1
                                 /\ n + 1 \in Handle
                                 /\ HeapAfterStart(heap, n, k) = [heap EXCEPT ![n + 1] = NewStack(k)]
                                 /\ AllocatedAfterStart(n, k) = n + 1
                                 /\ k \in 0..PLUG_ALL
  <1>1. CASE k = INIT_FAILED
    BY <1>1, StacksAssumption
    DEF Started, HeapAfterStart, AllocatedAfterStart, Device, State, NULL, INIT_FAILED, PLUG_ALL
  <1>2. CASE k # INIT_FAILED
    <2>1. n < MAX_STACKS /\ k \in 0..PLUG_ALL
      BY <1>2 DEF StartOutcome, INIT_FAILED, PLUG_ALL
    <2>2. n + 1 \in Handle
      BY <2>1, StacksAssumption DEF Handle
    <2>3. NewStack(k) \in Stack
      BY <2>1, NewStackType
    <2>4. Started(d, n, k) = [d EXCEPT !.pnet_handle = n + 1,
                                       !.state = IF k = PLUG_ALL THEN "CONNECTED" ELSE "ERROR"]
      BY <1>2 DEF Started
    <2>5. Started(d, n, k) \in Device /\ Started(d, n, k).pnet_handle = n + 1
      BY <2>2, <2>4 DEF Device, State
    <2>6. HeapAfterStart(heap, n, k) = [heap EXCEPT ![n + 1] = NewStack(k)]
      BY <1>2 DEF HeapAfterStart
    <2>7. AllocatedAfterStart(n, k) = n + 1
      BY <1>2 DEF AllocatedAfterStart
    <2> QED BY <1>2, <2>1, <2>2, <2>3, <2>5, <2>6, <2>7, StacksAssumption DEF Handle
  <1> QED BY <1>1, <1>2

(* io_device_tick and the error counter of the loop change a counter only. *)
LEMMA CountType == ASSUME NEW n \in 0..COUNT_CAP PROVE Count(n) \in 0..COUNT_CAP
  BY CapAssumption DEF Count

(* Writing a stack into the heap through a handle, NULL or not.            *)
LEMMA HeapUpdate ==
    ASSUME NEW heap \in [Handle -> Stack], NEW h, NEW s, h \in Handle => s \in Stack
    PROVE  /\ [heap EXCEPT ![h] = s] \in [Handle -> Stack]
           /\ h \in Handle => [heap EXCEPT ![h] = s][h] = s
           /\ \A g \in Handle : g # h => [heap EXCEPT ![h] = s][g] = heap[g]
  OBVIOUS
============================================================================
