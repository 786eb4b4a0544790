---------------------------- MODULE IoDeviceOps ----------------------------
(***************************************************************************)
(* The io_device_t record of include/io_device.h, the p-net stack behind   *)
(* its handle, and what every function of src/app/io_device.c computes     *)
(* from them, as operators.  IoDevice.tla lets an arbitrary client call    *)
(* them; Manager.tla calls them in the order main.c does.                  *)
(*                                                                         *)
(* A handle is the index of a stack in the heap of stacks that pnet_init   *)
(* has allocated (nothing ever frees one), and NULL is 0.                  *)
(***************************************************************************)
EXTENDS Integers

CONSTANTS
    Arep,                  \* AREPs the stack can hand out (PNET_MAX_AR of them)
    Byte,                  \* process data values, 0 among them
    BUF_SIZE,              \* sizeof(dev->input_data), 256 in the code
    EXAMPLE_INPUT_SIZE,    \* bytes of the input submodule
    EXAMPLE_OUTPUT_SIZE,   \* bytes of the output submodule
    MAX_STACKS,            \* stacks that fit in memory
    COUNT_CAP              \* the 64-bit counters are exact up to this value

ASSUME ArepAssumption   == Arep \subseteq Nat \ {0}
ASSUME ByteAssumption   == 0 \in Byte
ASSUME SizeAssumption   == /\ BUF_SIZE \in Nat
                           /\ EXAMPLE_INPUT_SIZE \in 1..BUF_SIZE
                           /\ EXAMPLE_OUTPUT_SIZE \in 1..BUF_SIZE
ASSUME StacksAssumption == MAX_STACKS \in Nat
ASSUME CapAssumption    == COUNT_CAP \in Nat \ {0}

NULL == 0
Handle == 1..MAX_STACKS

State == {"IDLE", "INITIALIZED", "CONNECTED", "RUNNING", "ERROR"}

Buffer(n) == [1..n -> Byte]
Zeros(n) == [i \in 1..n |-> 0]

(* memcpy of the first n bytes of src over dst.                            *)
Memcpy(dst, src, n) == [i \in DOMAIN dst |-> IF i <= n THEN src[i] ELSE dst[i]]

(* A counter that stays at its cap instead of growing without bound.       *)
Count(n) == IF n < COUNT_CAP THEN n + 1 ELSE n

Device ==
    [ state       : State,
      pnet_handle : Handle \cup {NULL},
      active_arep : Arep \cup {0},
      cycle_count : 0..COUNT_CAP,
      error_count : 0..COUNT_CAP,
      input_data  : Buffer(BUF_SIZE),
      output_data : Buffer(BUF_SIZE),
      input_size  : 0..BUF_SIZE,
      output_size : 0..BUF_SIZE ]

----------------------------------------------------------------------------
(* The p-net stack.  plug_all_modules makes seven calls in this order: the *)
(* DAP module, its whole-module, interface and port submodules, the user   *)
(* module, the input submodule, the output submodule.  The number that     *)
(* succeeded says which are plugged.                                       *)

PLUG_INPUT == 6
PLUG_ALL == 7

(* Progress of an application relation, by the last event indicated.       *)
ArState == {"none", "STARTUP", "PRMEND", "APPLRDY", "DATA"}
Event == (ArState \ {"none"}) \cup {"ABORT"}

(* reset remembers what pnet_factory_reset returned for this stack.        *)
Stack ==
    [ plugged : 0..PLUG_ALL,
      ar      : [Arep -> ArState],
      reset   : {"no", "ok", "failed"},
      input   : Buffer(EXAMPLE_INPUT_SIZE),
      output  : Buffer(EXAMPLE_OUTPUT_SIZE) ]

(* What pnet_init allocates (calloc), with the first k plug calls made.    *)
NewStack(k) ==
    [ plugged |-> k,
      ar      |-> [a \in Arep |-> "none"],
      reset   |-> "no",
      input   |-> Zeros(EXAMPLE_INPUT_SIZE),
      output  |-> Zeros(EXAMPLE_OUTPUT_SIZE) ]

Live(s) == {a \in Arep : s.ar[a] # "none"}
Exchanging(s) == {a \in Arep : s.ar[a] = "DATA"}

(* An AR is established step by step and can be aborted at any of them.    *)
Predecessor(e) ==
    CASE e = "STARTUP" -> "none"
      [] e = "PRMEND"  -> "STARTUP"
      [] e = "APPLRDY" -> "PRMEND"
      [] OTHER         -> "APPLRDY"
MayIndicate(s, a, e) ==
    IF e = "ABORT" THEN s.ar[a] # "none" ELSE s.ar[a] = Predecessor(e)
ArAfter(s, a, e) == [s EXCEPT !.ar[a] = IF e = "ABORT" THEN "none" ELSE e]

(* pnet_factory_reset: on success "the stack is in a clean state".         *)
AfterReset(s, ok) ==
    IF ok THEN [s EXCEPT !.ar = [a \in Arep |-> "none"], !.reset = "ok"]
          ELSE [s EXCEPT !.reset = "failed"]

----------------------------------------------------------------------------
(* The functions of io_device.c.                                           *)

(* io_device_cleanup: memset to 0, IO_DEVICE_STATE_IDLE.                   *)
CleanedUp ==
    [ state |-> "IDLE", pnet_handle |-> NULL, active_arep |-> 0,
      cycle_count |-> 0, error_count |-> 0,
      input_data |-> Zeros(BUF_SIZE), output_data |-> Zeros(BUF_SIZE),
      input_size |-> 0, output_size |-> 0 ]

(* io_device_init.                                                         *)
Initialized ==
    [ CleanedUp EXCEPT !.state = "INITIALIZED",
                       !.input_size = EXAMPLE_INPUT_SIZE,
                       !.output_size = EXAMPLE_OUTPUT_SIZE ]

(* How io_device_start can end once its state guard has passed: pnet_init  *)
(* returns NULL, or the first k plug calls succeed and the next fails, or  *)
(* all of them succeed (k = PLUG_ALL).  With no memory left pnet_init      *)
(* returns NULL.                                                           *)
INIT_FAILED == -1
StartOutcome(allocated) ==
    IF allocated < MAX_STACKS THEN -1..PLUG_ALL ELSE {INIT_FAILED}

(* Mutant: a device that was never initialised may be started.             *)
MayStart_FromIdle(d) == d.state \in {"IDLE", "INITIALIZED"}

MayStart(d) == d.state = "INITIALIZED"

(* The stack allocated by the call that ended with outcome k is allocated + 1. *)
Started(d, allocated, k) ==
    [ d EXCEPT !.pnet_handle = IF k = INIT_FAILED THEN NULL ELSE allocated + 1,
               !.state = IF k = PLUG_ALL THEN "CONNECTED" ELSE "ERROR" ]
HeapAfterStart(heap, allocated, k) ==
    IF k = INIT_FAILED THEN heap ELSE [heap EXCEPT ![allocated + 1] = NewStack(k)]
AllocatedAfterStart(allocated, k) ==
    IF k = INIT_FAILED THEN allocated ELSE allocated + 1

(* Mutant: the state is not checked.                                       *)
TickRefused_HandleOnly(d) == d.pnet_handle = NULL

(* io_device_tick returns -1 without calling the stack.                    *)
TickRefused(d) == d.pnet_handle = NULL \/ d.state = "ERROR"
Ticked(d) == [d EXCEPT !.cycle_count = Count(@)]

(* Mutant: the abort of an AR that is not the active one is ignored.       *)
StateIndication_OwnAbort(d, a, e) ==
    [ d EXCEPT !.active_arep = CASE e = "STARTUP" -> a [] e = "ABORT" /\ @ = a -> 0 [] OTHER -> @,
               !.state = CASE e = "DATA" -> "RUNNING"
                           [] e = "ABORT" /\ d.active_arep = a -> "CONNECTED" [] OTHER -> @ ]

(* Mutant: the active AREP is not cleared on an abort.                     *)
StateIndication_KeepsArep(d, a, e) ==
    [ d EXCEPT !.active_arep = IF e = "STARTUP" THEN a ELSE @,
               !.state = CASE e = "DATA" -> "RUNNING" [] e = "ABORT" -> "CONNECTED" [] OTHER -> @ ]

(* Mutant: an abort puts the device into ERROR.                            *)
StateIndication_AbortIsError(d, a, e) ==
    [ d EXCEPT !.active_arep = CASE e = "STARTUP" -> a [] e = "ABORT" -> 0 [] OTHER -> @,
               !.state = CASE e = "DATA" -> "RUNNING" [] e = "ABORT" -> "ERROR" [] OTHER -> @ ]

(* app_state_ind_cb, the one callback that changes the device.             *)
StateIndication(d, a, e) ==
    [ d EXCEPT !.active_arep = CASE e = "STARTUP" -> a [] e = "ABORT" -> 0 [] OTHER -> @,
               !.state = CASE e = "DATA" -> "RUNNING" [] e = "ABORT" -> "CONNECTED" [] OTHER -> @ ]

(* io_device_stop calls the stack only through a handle.                   *)
MayStop(d) == d.pnet_handle # NULL

(* Mutant: the length check is off by one.                                 *)
MayUpdateInput_OffByOne(d, len) == d.pnet_handle # NULL /\ len <= BUF_SIZE + 1

(* Mutant: input_size is not updated.                                      *)
InputCached_KeepsSize(d, data, len) == [d EXCEPT !.input_data = Memcpy(@, data, len)]

(* io_device_update_input, the guard, the device's copy and the stack's.   *)
(* The mock copies the submodule's input_len bytes whatever len is, and    *)
(* finds no submodule to copy to when it is not plugged.                   *)
MayUpdateInput(d, len) == d.pnet_handle # NULL /\ len <= BUF_SIZE
InputCached(d, data, len) ==
    [d EXCEPT !.input_data = Memcpy(@, data, len), !.input_size = len]
InputPlugged(s) == s.plugged >= PLUG_INPUT
InputPushed(s, data) ==
    IF InputPlugged(s) THEN [s EXCEPT !.input = Memcpy(@, data, EXAMPLE_INPUT_SIZE)] ELSE s

(* io_device_read_output: the stack gives at most the submodule's          *)
(* output_len bytes, and they are cached.                                  *)
OutputPlugged(s) == s.plugged = PLUG_ALL
OutputLen(len) == IF EXAMPLE_OUTPUT_SIZE < len THEN EXAMPLE_OUTPUT_SIZE ELSE len
OutputCached(d, s, len) ==
    [d EXCEPT !.output_data = Memcpy(@, s.output, OutputLen(len)), !.output_size = OutputLen(len)]
============================================================================
