------------------------------ MODULE Manager ------------------------------
(***************************************************************************)
(* src/main.c: start-up, the production loop with its error counting,      *)
(* recovery with exponential backoff and watchdog pings, and shutdown,     *)
(* around the device of IoDeviceOps.                                       *)
(*                                                                         *)
(* Time is counted in units of the constants (seconds, or any other) and   *)
(* passes in the two calls of usleep only.  A signal may arrive at any     *)
(* moment; one that arrives inside a sleep ends it, because the handlers   *)
(* are installed without SA_RESTART and usleep is not restarted.           *)
(***************************************************************************)
EXTENDS IoDeviceOps

CONSTANTS
    MAX_CONSECUTIVE_ERRORS,
    RECOVERY_BACKOFF_BASE,
    RECOVERY_BACKOFF_MAX,
    MAX_RECOVERY_ATTEMPTS,   \* 0 = unlimited
    WATCHDOG_PING,           \* WATCHDOG_PING_MS
    WATCHDOG_SEC,            \* WatchdogSec of deploy/pnet-manager.service
    TickChoices,             \* values of tick_us that a configuration may give
    CLOCK_MOD,               \* unsigned long milliseconds wrap here
    ATTEMPT_CAP,             \* recovery_attempts is exact up to this value
    GAP_CAP,                 \* since_ping is exact up to this value
    DeviceMayFault           \* may a tick put a started device into ERROR?

ASSUME ThresholdAssumption == MAX_CONSECUTIVE_ERRORS \in 1..COUNT_CAP
ASSUME BackoffAssumption ==
    /\ RECOVERY_BACKOFF_BASE \in Nat \ {0}
    /\ RECOVERY_BACKOFF_MAX \in Nat
    /\ RECOVERY_BACKOFF_BASE <= RECOVERY_BACKOFF_MAX
ASSUME AttemptAssumption ==
    /\ MAX_RECOVERY_ATTEMPTS \in Nat
    /\ ATTEMPT_CAP \in Nat
    /\ MAX_RECOVERY_ATTEMPTS < ATTEMPT_CAP
ASSUME TimeAssumption ==
    /\ WATCHDOG_PING \in Nat \ {0}
    /\ WATCHDOG_SEC \in Nat
    /\ TickChoices \subseteq Nat \ {0}
    /\ CLOCK_MOD \in Nat /\ GAP_CAP \in Nat
    /\ \A t \in TickChoices : /\ WATCHDOG_PING + RECOVERY_BACKOFF_MAX + t < CLOCK_MOD
                              /\ WATCHDOG_PING + RECOVERY_BACKOFF_MAX + t < GAP_CAP
ASSUME FaultAssumption == DeviceMayFault \in BOOLEAN

VARIABLES
    pc,                  \* where main is
    g_running,           \* cleared by signal_handler
    config,              \* the loaded configuration
    host,                \* what start-up has done to the host
    dev, heap, allocated,
    consecutive_errors, recovery_attempts, backoff_us,
    now,                 \* CLOCK_MONOTONIC, as the unsigned long now_ms
    last_watchdog_ms,
    since_ping,          \* time since systemd last heard of the service
    status,              \* what systemd was last told
    exit                 \* the exit status

device == <<dev, heap, allocated>>
recovery == <<consecutive_errors, recovery_attempts, backoff_us>>
clock == <<now, last_watchdog_ms, since_ping>>
vars == <<pc, g_running, config, host, device, recovery, clock, status, exit>>

StartupPc == {"options", "config", "handlers", "network", "security", "realtime", "start"}
LoopPc == {"loop", "periodic", "recover_reset", "backoff", "restart", "watchdog", "sleep"}
ShutdownPc == {"shutdown", "shutdown_reset"}
Pc == StartupPc \cup LoopPc \cup ShutdownPc \cup {"cleanup_rt", "exited"}

Config == [realtime : BOOLEAN, security : BOOLEAN, tick : TickChoices]
Host == [ net      : 0..3,    \* address, netmask, interface up: steps done
          firewall : {"untouched", "partial", "applied"},
          rt       : {"untouched", "failed", "applied", "restored"} ]

TypeOK ==
    /\ pc \in Pc
    /\ g_running \in BOOLEAN
    /\ config \in Config
    /\ host \in Host
    /\ dev \in Device
    /\ heap \in [Handle -> Stack]
    /\ allocated \in 0..MAX_STACKS
    /\ consecutive_errors \in 0..MAX_CONSECUTIVE_ERRORS
    /\ recovery_attempts \in 0..ATTEMPT_CAP
    /\ backoff_us \in RECOVERY_BACKOFF_BASE..RECOVERY_BACKOFF_MAX
    /\ now \in 0..CLOCK_MOD - 1
    /\ last_watchdog_ms \in 0..CLOCK_MOD - 1
    /\ since_ping \in 0..GAP_CAP
    /\ status \in {"none", "ready", "recovering", "running", "stopping", "stopped"}
    /\ exit \in {"none", "success", "failure", "killed"}

stack == heap[dev.pnet_handle]

Init ==
    /\ pc = "options"
    /\ g_running = TRUE
    /\ config \in Config
    /\ host = [net |-> 0, firewall |-> "untouched", rt |-> "untouched"]
    /\ dev = CleanedUp
    /\ heap = [h \in Handle |-> NewStack(0)]
    /\ allocated = 0
    /\ consecutive_errors = 0
    /\ recovery_attempts = 0
    /\ backoff_us = RECOVERY_BACKOFF_BASE
    /\ now \in 0..CLOCK_MOD - 1
    /\ last_watchdog_ms = 0
    /\ since_ping = 0
    /\ status = "none"
    /\ exit = "none"

Goto(from, to) == pc = from /\ pc' = to

ExitWith(from, code) == Goto(from, "exited") /\ exit' = code

----------------------------------------------------------------------------
(* Start-up.                                                               *)

(* -h, an unknown option, or go on.                                        *)
ParseOptions ==
    /\ \/ \E code \in {"success", "failure"} : ExitWith("options", code)
       \/ Goto("options", "config") /\ UNCHANGED exit
    /\ UNCHANGED <<g_running, config, host, device, recovery, clock, status>>

(* A file that cannot be read gives the defaults, so loading cannot fail;  *)
(* validation can.                                                         *)
LoadConfig ==
    /\ \/ ExitWith("config", "failure")
       \/ Goto("config", "handlers") /\ UNCHANGED exit
    /\ UNCHANGED <<g_running, config, host, device, recovery, clock, status>>

install_signal_handlers ==
    /\ \/ ExitWith("handlers", "failure")
       \/ Goto("handlers", "network") /\ UNCHANGED exit
    /\ UNCHANGED <<g_running, config, host, device, recovery, clock, status>>

(* Each of the three steps may fail, and what was done before stays done.  *)
apply_network ==
    /\ \E n \in 0..3 :
          /\ host' = [host EXCEPT !.net = n]
          /\ IF n = 3 THEN Goto("network", "security") /\ UNCHANGED exit
                      ELSE ExitWith("network", "failure")
    /\ UNCHANGED <<g_running, config, device, recovery, clock, status>>

(* Mutant: a failure is only logged, as apply_realtime's is.               *)
apply_security_GoesOn ==
    /\ Goto("security", "realtime")
    /\ IF config.security
         THEN \E f \in {"untouched", "partial", "applied"} : host' = [host EXCEPT !.firewall = f]
         ELSE UNCHANGED host
    /\ UNCHANGED <<g_running, config, device, recovery, clock, status, exit>>

(* The script runs with set -e: a failing rule leaves the ones before it.  *)
apply_security ==
    /\ \/ /\ ~config.security
          /\ Goto("security", "realtime")
          /\ UNCHANGED <<host, exit>>
       \/ /\ config.security
          /\ Goto("security", "realtime")
          /\ host' = [host EXCEPT !.firewall = "applied"]
          /\ UNCHANGED exit
       \/ /\ config.security
          /\ ExitWith("security", "failure")
          /\ \E f \in {"untouched", "partial"} : host' = [host EXCEPT !.firewall = f]
    /\ UNCHANGED <<g_running, config, device, recovery, clock, status>>

(* A failure is only logged.  rt_setup_init cannot fail, the priority was  *)
(* validated; rt_setup_apply fails when the scheduler refuses, before it   *)
(* has changed anything.                                                   *)
apply_realtime ==
    /\ Goto("realtime", "start")
    /\ IF config.realtime
         THEN \E r \in {"failed", "applied"} : host' = [host EXCEPT !.rt = r]
         ELSE UNCHANGED host
    /\ UNCHANGED <<g_running, config, device, recovery, clock, status, exit>>

(* device_init_and_start: memset, io_device_init, io_device_start; when    *)
(* that fails the device is cleaned up without a factory reset.            *)
device_init_and_start(k) ==
    /\ k \in StartOutcome(allocated)
    /\ dev' = IF k = PLUG_ALL THEN Started(Initialized, allocated, k) ELSE CleanedUp
    /\ heap' = HeapAfterStart(heap, allocated, k)
    /\ allocated' = AllocatedAfterStart(allocated, k)

(* Mutant: a failed first start returns at once.                           *)
InitialStart_ReturnsAtOnce ==
    /\ \E k \in -1..PLUG_ALL :
          /\ device_init_and_start(k)
          /\ IF k = PLUG_ALL
               THEN Goto("start", "loop") /\ status' = "ready" /\ UNCHANGED exit
               ELSE ExitWith("start", "failure") /\ UNCHANGED status
    /\ UNCHANGED <<g_running, config, host, recovery, clock>>

InitialStart ==
    /\ \E k \in -1..PLUG_ALL :
          /\ device_init_and_start(k)
          /\ IF k = PLUG_ALL
               THEN Goto("start", "loop") /\ status' = "ready"
               ELSE Goto("start", "cleanup_rt") /\ UNCHANGED status
    /\ UNCHANGED <<g_running, config, host, recovery, clock, exit>>

----------------------------------------------------------------------------
(* The production loop.                                                    *)

(* io_device_tick calls the stack; the callbacks come before it returns.   *)
TickBegins ==
    /\ g_running
    /\ ~TickRefused(dev)
    /\ Goto("loop", "periodic")
    /\ UNCHANGED <<g_running, config, host, device, recovery, clock, status, exit>>

(* Mutant: the backoff is not reset.                                       *)
TickSucceeds_KeepsBackoff ==
    /\ Goto("periodic", "watchdog")
    /\ dev' = Ticked(dev)
    /\ consecutive_errors' = 0
    /\ recovery_attempts' = 0
    /\ UNCHANGED <<g_running, config, host, heap, allocated, backoff_us, clock, status, exit>>

TickSucceeds ==
    /\ Goto("periodic", "watchdog")
    /\ dev' = Ticked(dev)
    /\ consecutive_errors' = 0
    /\ recovery_attempts' = 0
    /\ backoff_us' = RECOVERY_BACKOFF_BASE
    /\ UNCHANGED <<g_running, config, host, heap, allocated, clock, status, exit>>

(* Mutant: a limit of 0 attempts is taken literally.                       *)
GiveUp_ZeroIsALimit(attempts) == attempts > MAX_RECOVERY_ATTEMPTS

(* Mutant: the limit is off by one.                                        *)
GiveUp_OffByOne(attempts) == MAX_RECOVERY_ATTEMPTS > 0 /\ attempts >= MAX_RECOVERY_ATTEMPTS

(* The error counters after a failed tick.                                 *)
ErrorsAfter == IF consecutive_errors < MAX_CONSECUTIVE_ERRORS
                 THEN consecutive_errors + 1 ELSE consecutive_errors
AttemptsAfter == IF recovery_attempts < ATTEMPT_CAP
                   THEN recovery_attempts + 1 ELSE recovery_attempts
GiveUp(attempts) == MAX_RECOVERY_ATTEMPTS > 0 /\ attempts > MAX_RECOVERY_ATTEMPTS

TickFails ==
    /\ g_running
    /\ TickRefused(dev)
    /\ consecutive_errors' = ErrorsAfter
    /\ \/ /\ ErrorsAfter < MAX_CONSECUTIVE_ERRORS
          /\ Goto("loop", "watchdog")
          /\ dev' = [dev EXCEPT !.error_count = Count(@)]
          /\ UNCHANGED <<recovery_attempts, status>>
       \/ /\ ErrorsAfter >= MAX_CONSECUTIVE_ERRORS
          /\ recovery_attempts' = AttemptsAfter
          /\ GiveUp(AttemptsAfter)
          /\ Goto("loop", "shutdown")
          /\ dev' = [dev EXCEPT !.error_count = Count(@)]
          /\ status' = "stopping"
       \/ /\ ErrorsAfter >= MAX_CONSECUTIVE_ERRORS
          /\ recovery_attempts' = AttemptsAfter
          /\ ~GiveUp(AttemptsAfter)
          /\ status' = "recovering"
          /\ IF MayStop(dev)
               THEN Goto("loop", "recover_reset") /\ dev' = [dev EXCEPT !.error_count = Count(@)]
               ELSE Goto("loop", "backoff") /\ dev' = CleanedUp
    /\ UNCHANGED <<g_running, config, host, heap, allocated, backoff_us, clock, exit>>

(* Mutant: the factory reset is left out.                                  *)
StopReturns_NoReset == dev' = CleanedUp /\ UNCHANGED <<heap, allocated>>

(* The return of pnet_factory_reset, whatever it returns, and the two      *)
(* calls of io_device_cleanup after it.                                    *)
StopReturns ==
    /\ \E ok \in BOOLEAN : heap' = [heap EXCEPT ![dev.pnet_handle] = AfterReset(@, ok)]
    /\ dev' = CleanedUp
    /\ UNCHANGED allocated

RecoverResetReturns ==
    /\ Goto("recover_reset", "backoff")
    /\ StopReturns
    /\ UNCHANGED <<g_running, config, host, recovery, clock, status, exit>>

(* usleep(full): cut short only by a signal.                               *)
Passed(d) ==
    /\ now' = (now + d) % CLOCK_MOD
    /\ since_ping' = IF since_ping + d < GAP_CAP THEN since_ping + d ELSE GAP_CAP
    /\ UNCHANGED last_watchdog_ms
Sleep(full) ==
    \/ Passed(full) /\ UNCHANGED g_running
    \/ (\E d \in 0..full - 1 : Passed(d)) /\ g_running' = FALSE

(* Mutant: the backoff is not capped.                                      *)
NextBackoff_Uncapped == 2 * backoff_us

NextBackoff == IF 2 * backoff_us > RECOVERY_BACKOFF_MAX
                 THEN RECOVERY_BACKOFF_MAX ELSE 2 * backoff_us

(* Mutant: the loop goes on after the backoff, without a restart.          *)
Backoff_NoRestart ==
    /\ Goto("backoff", "watchdog")
    /\ Sleep(backoff_us)
    /\ backoff_us' = NextBackoff
    /\ UNCHANGED <<config, host, device, consecutive_errors, recovery_attempts, status, exit>>

Backoff ==
    /\ Goto("backoff", "restart")
    /\ Sleep(backoff_us)
    /\ backoff_us' = NextBackoff
    /\ UNCHANGED <<config, host, device, consecutive_errors, recovery_attempts, status, exit>>

(* Mutant: a successful recovery does not reset the error count.           *)
Restart_KeepsErrors(k) ==
    /\ Goto("restart", "watchdog")
    /\ device_init_and_start(k)
    /\ status' = IF k = PLUG_ALL THEN "running" ELSE status
    /\ UNCHANGED <<g_running, config, host, recovery, clock, exit>>

(* Mutant: a successful recovery is not reported.                          *)
Restart_Silent(k) ==
    /\ Goto("restart", "watchdog")
    /\ device_init_and_start(k)
    /\ consecutive_errors' = IF k = PLUG_ALL THEN 0 ELSE consecutive_errors
    /\ UNCHANGED <<g_running, config, host, recovery_attempts, backoff_us, clock, status, exit>>

(* Mutant: a failed restart is retried on the spot, without a look at g_running. *)
Restart_RetriesOnTheSpot(k) ==
    /\ device_init_and_start(k)
    /\ IF k = PLUG_ALL
         THEN Goto("restart", "watchdog") /\ consecutive_errors' = 0 /\ status' = "running"
         ELSE Goto("restart", "backoff") /\ UNCHANGED <<consecutive_errors, status>>
    /\ UNCHANGED <<g_running, config, host, recovery_attempts, backoff_us, clock, exit>>

Restart(k) ==
    /\ Goto("restart", "watchdog")
    /\ device_init_and_start(k)
    /\ IF k = PLUG_ALL THEN consecutive_errors' = 0 /\ status' = "running"
                       ELSE UNCHANGED <<consecutive_errors, status>>
    /\ UNCHANGED <<g_running, config, host, recovery_attempts, backoff_us, clock, exit>>

(* Mutant: the difference is taken as a signed one.                        *)
PingDue_Signed == now - last_watchdog_ms >= WATCHDOG_PING

(* The difference of two unsigned longs.                                   *)
PingDue == (now - last_watchdog_ms) % CLOCK_MOD >= WATCHDOG_PING

WatchdogPing ==
    /\ Goto("watchdog", "sleep")
    /\ IF PingDue THEN last_watchdog_ms' = now /\ since_ping' = 0
                  ELSE UNCHANGED <<last_watchdog_ms, since_ping>>
    /\ UNCHANGED <<g_running, config, host, device, recovery, now, status, exit>>

TickSleep ==
    /\ Goto("sleep", "loop")
    /\ Sleep(config.tick)
    /\ UNCHANGED <<config, host, device, recovery, status, exit>>

----------------------------------------------------------------------------
(* Shutdown.                                                               *)

LeaveLoop ==
    /\ ~g_running
    /\ Goto("loop", "shutdown")
    /\ status' = "stopping"
    /\ UNCHANGED <<g_running, config, host, device, recovery, clock, exit>>

StopDevice ==
    /\ IF MayStop(dev) THEN Goto("shutdown", "shutdown_reset") /\ UNCHANGED dev
                       ELSE Goto("shutdown", "cleanup_rt") /\ dev' = CleanedUp
    /\ UNCHANGED <<g_running, config, host, heap, allocated, recovery, clock, status, exit>>

ShutdownResetReturns ==
    /\ Goto("shutdown_reset", "cleanup_rt")
    /\ StopReturns
    /\ UNCHANGED <<g_running, config, host, recovery, clock, status, exit>>

CleanupRt ==
    /\ ExitWith("cleanup_rt", "success")
    /\ host' = IF config.realtime THEN [host EXCEPT !.rt = "restored"] ELSE host
    /\ status' = "stopped"
    /\ UNCHANGED <<g_running, config, device, recovery, clock>>

----------------------------------------------------------------------------
(* The environment.                                                        *)

(* SIGINT or SIGTERM outside a sleep: before the handlers are installed it *)
(* kills the process.                                                      *)
Signal ==
    /\ g_running
    /\ pc # "exited"
    /\ IF pc \in {"options", "config", "handlers"}
         THEN ExitWith(pc, "killed") /\ UNCHANGED g_running
         ELSE g_running' = FALSE /\ UNCHANGED <<pc, exit>>
    /\ UNCHANGED <<config, host, device, recovery, clock, status>>

(* Callbacks from inside the two calls of the stack.                       *)
Callback ==
    /\ pc \in {"periodic", "recover_reset", "shutdown_reset"}
    /\ \E a \in Arep, e \in Event :
          /\ pc # "periodic" => e = "ABORT"
          /\ MayIndicate(stack, a, e)
          /\ dev' = StateIndication(dev, a, e)
          /\ heap' = [heap EXCEPT ![dev.pnet_handle] = ArAfter(@, a, e)]
    /\ UNCHANGED <<pc, g_running, config, host, allocated, recovery, clock, status, exit>>

(* Nothing in the repository puts a started device into ERROR, which is    *)
(* what the recovery code waits for.  With DeviceMayFault the stack or the *)
(* application does so from inside a tick.                                 *)
DeviceFault ==
    /\ DeviceMayFault
    /\ pc = "periodic"
    /\ dev' = [dev EXCEPT !.state = "ERROR"]
    /\ UNCHANGED <<pc, g_running, config, host, heap, allocated, recovery, clock, status, exit>>

Terminated == pc = "exited" /\ UNCHANGED vars

Program ==
    \/ ParseOptions \/ LoadConfig \/ install_signal_handlers
    \/ apply_network \/ apply_security \/ apply_realtime \/ InitialStart
    \/ TickBegins \/ TickSucceeds \/ TickFails
    \/ RecoverResetReturns \/ Backoff \/ (\E k \in -1..PLUG_ALL : Restart(k))
    \/ WatchdogPing \/ TickSleep
    \/ LeaveLoop \/ StopDevice \/ ShutdownResetReturns \/ CleanupRt

Next == Program \/ Signal \/ Callback \/ DeviceFault \/ Terminated

Spec == Init /\ [][Next]_vars

(* The program is never stopped for ever: usleep and the stack return.     *)
(* A start that is attempted again and again succeeds in the end, as long  *)
(* as there is memory for a stack.                                         *)
Fairness == WF_vars(Program) /\ SF_vars(Restart(PLUG_ALL))

FairSpec == Spec /\ Fairness

----------------------------------------------------------------------------
(* Properties.                                                             *)

Up == dev.state \in {"CONNECTED", "RUNNING"}

(* No stack that was started completely is let go of without a factory     *)
(* reset, on any path through recovery and shutdown, and a controller's    *)
(* connection outlives its device only where that reset failed.            *)
StacksAreReset ==
    \A h \in 1..allocated : h # dev.pnet_handle /\ heap[h].plugged = PLUG_ALL =>
        /\ heap[h].reset # "no"
        /\ Live(heap[h]) # {} => heap[h].reset = "failed"

(* The backoff is the base doubled n times, capped, for the n recoveries   *)
(* since the last tick that succeeded: the resets in the success branch of *)
(* the loop and the doubling after usleep stay in step.                    *)
Doubled[n \in 0..ATTEMPT_CAP] == IF n = 0 THEN RECOVERY_BACKOFF_BASE ELSE 2 * Doubled[n - 1]
BackoffOf(n) == IF Doubled[n] > RECOVERY_BACKOFF_MAX THEN RECOVERY_BACKOFF_MAX ELSE Doubled[n]
BackoffTracksAttempts ==
    pc \in LoopPc =>
        backoff_us = BackoffOf(IF pc \in {"recover_reset", "backoff"}
                                 THEN recovery_attempts - 1 ELSE recovery_attempts)

(* Every error that counts against a device is its own: the loop's count   *)
(* is at most the number of ticks that failed since this device was        *)
(* started, so a restart hands over a new one with a count of 0, and a     *)
(* device is torn down only when the full number of its own ticks failed.  *)
ThresholdIsPerDevice ==
    pc \in LoopPc /\ dev.pnet_handle # NULL =>
        /\ consecutive_errors <= dev.error_count
        /\ pc = "recover_reset" => dev.error_count >= MAX_CONSECUTIVE_ERRORS

(* systemd is told "recovering" exactly while there is no device.          *)
StatusIsTruthful ==
    pc \in LoopPc \ {"recover_reset"} => (status = "recovering" <=> dev.pnet_handle = NULL)

(* The loop ends without a signal only when the permitted number of        *)
(* recovery attempts is exceeded; with MAX_RECOVERY_ATTEMPTS = 0, never.   *)
LeavesOnlyWhenAsked ==
    pc \in ShutdownPc /\ g_running =>
        MAX_RECOVERY_ATTEMPTS > 0 /\ recovery_attempts = MAX_RECOVERY_ATTEMPTS + 1

(* Whichever way main ends, a real-time environment that was set up has    *)
(* been restored: a failed first start too goes through cleanup_rt.        *)
RtIsRestored == pc = "exited" => host.rt \in {"untouched", "restored"}

(* No stack is created before the interface is configured completely and   *)
(* the firewall, when it is enabled, has been loaded completely.           *)
DeviceBehindFirewall ==
    allocated > 0 => /\ host.net = 3
                     /\ config.security => host.firewall = "applied"

(* The longest silence towards systemd: one ping interval, a tick and the  *)
(* longest backoff, also when the unsigned clock wraps around.             *)
SilenceBound(tick) ==
    WATCHDOG_PING - 1 + tick + (IF DeviceMayFault THEN RECOVERY_BACKOFF_MAX ELSE 0)
SilenceIsBounded == pc \in LoopPc => since_ping <= SilenceBound(config.tick)

(* As the code stands (no DeviceFault) io_device_tick never fails once the *)
(* device has been started, whatever the controllers do: main never leaves *)
(* the success branch, and its recovery code is unreachable.               *)
RecoveryNeverNeeded ==
    ~DeviceMayFault /\ pc \in LoopPc =>
        /\ Up /\ dev.pnet_handle # NULL
        /\ consecutive_errors = 0 /\ recovery_attempts = 0
        /\ pc \notin {"recover_reset", "backoff", "restart"}

(* A signal is followed by the end of the process, wherever main is when   *)
(* it arrives, also inside a recovery.                                     *)
ShutdownCompletes == ~g_running ~> pc = "exited"

(* A device that is down comes up again, unless the process ends or the    *)
(* stacks left behind by earlier recoveries have used up the memory.       *)
RecoveryProgress ==
    (pc \in LoopPc /\ ~Up) ~> (Up \/ pc = "exited" \/ allocated = MAX_STACKS)

(* systemd hears from the service within WatchdogSec while it is in its    *)
(* loop.                                                                   *)
WatchdogIsFed == pc \in LoopPc => since_ping <= WATCHDOG_SEC
============================================================================
