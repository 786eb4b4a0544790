------------------------------ MODULE RtSetup ------------------------------
(***************************************************************************)
(* src/realtime/rt_setup.c on a host that outlives the process.  Each      *)
(* process of the service runs rt_setup_init and rt_setup_apply when it    *)
(* starts and rt_setup_restore when it stops, as main.c does with          *)
(* realtime_enabled; it may be killed at any point, and systemd starts     *)
(* another one (Restart=always).  Scheduling, memory locks and affinity    *)
(* belong to the process; the governors and irqbalance belong to the host. *)
(***************************************************************************)
EXTENDS Integers

CONSTANTS
    NCPU,            \* sysconf(_SC_NPROCESSORS_ONLN)
    Governor,        \* scaling governors, "performance" among them
    MayCrash         \* may the process be killed?

ASSUME CpuAssumption      == NCPU \in Nat \ {0}
ASSUME GovernorAssumption == "performance" \in Governor /\ "" \notin Governor
ASSUME CrashAssumption    == MayCrash \in BOOLEAN

Cpu == 0..NCPU - 1

(* NCPU stands for a CPU number that the host does not have.               *)
rt_config_t ==
    [ use_rt_scheduling : BOOLEAN, lock_memory : BOOLEAN, disable_cpu_freq : BOOLEAN,
      isolate_cpu : -1..NCPU, disable_irq_balance : BOOLEAN ]

(* How the service unit starts a process, and what rt_setup_apply sets.    *)
BornSched == {"SCHED_OTHER", "SCHED_FIFO of the unit"}
Sched == BornSched \cup {"SCHED_FIFO"}

EMPTY == ""     \* g_saved_governor[0] == '\0'

VARIABLES
    step,                 \* the next step of rt_setup_apply or rt_setup_restore
    cpu,                  \* the loop index of the governor loops
    proc,                 \* scheduling, lock and affinity of the process
    host,                 \* governors, their files, irqbalance
    g_rt_config, g_rt_initialized,
    g_saved_policy, g_saved_governor,
    failures,             \* the calls of rt_setup_restore that failed
    born, first,          \* proc when the process began, host at the beginning
    crashed,              \* has any process been killed?
    unread                \* could any process not read CPU 0's governor?

saved == <<g_saved_policy, g_saved_governor>>
history == <<born, first, crashed, unread>>
vars == <<step, cpu, proc, host, g_rt_config, g_rt_initialized, saved, failures, history>>

ApplyStep == {"init", "sched", "mlock", "freq", "affinity", "irq"}
RestoreStep == {"r_mlock", "r_freq", "r_affinity", "r_irq"}

Proc == [sched : Sched, locked : BOOLEAN, affinity : SUBSET Cpu]
NewProc == [sched : BornSched, locked : {FALSE}, affinity : (SUBSET Cpu) \ {{}}]
Host == [ governor   : [Cpu -> Governor],
          writable   : SUBSET Cpu,     \* CPUs whose scaling_governor can be written
          irqbalance : {"absent", "stopped", "running"} ]

TypeOK ==
    /\ step \in ApplyStep \cup RestoreStep \cup {"serving", "exited"}
    /\ cpu \in 0..NCPU
    /\ proc \in Proc
    /\ host \in Host
    /\ g_rt_config \in rt_config_t
    /\ g_rt_initialized \in BOOLEAN
    /\ g_saved_policy \in Sched
    /\ g_saved_governor \in Governor \cup {EMPTY}
    /\ failures \subseteq {"scheduler", "memory", "affinity", "irqbalance"}
    /\ born \in NewProc
    /\ first \in Host
    /\ crashed \in BOOLEAN
    /\ unread \in BOOLEAN

(* Static variables of a new process.                                      *)
FreshStatics ==
    /\ g_rt_initialized' = FALSE
    /\ g_saved_policy' = "SCHED_OTHER"
    /\ g_saved_governor' = EMPTY

Init ==
    /\ step = "init"
    /\ cpu = 0
    /\ proc \in NewProc
    /\ host \in Host
    /\ g_rt_config \in rt_config_t
    /\ g_rt_initialized = FALSE
    /\ g_saved_policy = "SCHED_OTHER"
    /\ g_saved_governor = EMPTY
    /\ failures = {}
    /\ born = proc
    /\ first = host
    /\ crashed = FALSE
    /\ unread = FALSE

Goto(from, to) == step = from /\ step' = to

----------------------------------------------------------------------------
(* rt_setup_init; main has validated the priority.                         *)
rt_setup_init ==
    /\ Goto("init", "sched")
    /\ g_rt_initialized' = TRUE
    /\ UNCHANGED <<cpu, proc, host, g_rt_config, saved, failures, history>>

(* Mutant: the policy is saved after it was changed.                       *)
ApplyScheduler_SavesLate ==
    /\ IF g_rt_config.use_rt_scheduling
         THEN \/ /\ Goto("sched", "mlock")
                 /\ proc' = [proc EXCEPT !.sched = "SCHED_FIFO"]
                 /\ g_saved_policy' = "SCHED_FIFO"
              \/ Goto("sched", "serving") /\ UNCHANGED <<g_saved_policy, proc>>
         ELSE Goto("sched", "mlock") /\ UNCHANGED <<g_saved_policy, proc>>
    /\ UNCHANGED <<cpu, host, g_rt_config, g_rt_initialized, g_saved_governor, failures, history>>

(* rt_setup_apply, step by step.  A refused scheduler ends it, and main    *)
(* goes on without a real-time environment.  sched_getscheduler and        *)
(* sched_getparam are called for the calling process (pid 0), for which    *)
(* they cannot fail: what the code does after such a failure, which is to  *)
(* save SCHED_OTHER and a zero parameter, is not modelled.                 *)
ApplyScheduler ==
    /\ IF g_rt_config.use_rt_scheduling
         THEN /\ g_saved_policy' = proc.sched
              /\ \/ Goto("sched", "mlock") /\ proc' = [proc EXCEPT !.sched = "SCHED_FIFO"]
                 \/ Goto("sched", "serving") /\ UNCHANGED proc
         ELSE Goto("sched", "mlock") /\ UNCHANGED <<g_saved_policy, proc>>
    /\ UNCHANGED <<cpu, host, g_rt_config, g_rt_initialized, g_saved_governor, failures, history>>

ApplyMemoryLock ==
    /\ Goto("mlock", "freq")
    /\ \E ok \in BOOLEAN :
          proc' = [proc EXCEPT !.locked = (g_rt_config.lock_memory /\ ok) \/ @]
    /\ cpu' = 0
    /\ UNCHANGED <<host, g_rt_config, g_rt_initialized, saved, failures, history>>

(* The governor of the CPU the loop is at, if its file can be opened.      *)
WithGovernor(c, g) ==
    IF c \in host.writable THEN [host EXCEPT !.governor[c] = g] ELSE host

(* CPU 0's governor is read before any is written.  When its file is       *)
(* missing or the read fails, the buffer stays as it is, and the loop goes *)
(* on with the CPUs whose files can be written.                            *)
SaveGovernor ==
    \/ g_saved_governor' = host.governor[0] /\ UNCHANGED unread
    \/ unread' = TRUE /\ UNCHANGED g_saved_governor

(* Mutant: the governor of every CPU is saved, into the one buffer.        *)
ApplyGovernor_SavesEach ==
    /\ step = "freq"
    /\ IF g_rt_config.disable_cpu_freq /\ cpu < NCPU
         THEN /\ g_saved_governor' = host.governor[cpu]
              /\ host' = WithGovernor(cpu, "performance")
              /\ cpu' = cpu + 1
              /\ UNCHANGED step
         ELSE step' = "affinity" /\ UNCHANGED <<g_saved_governor, host, cpu>>
    /\ UNCHANGED <<proc, g_rt_config, g_rt_initialized, g_saved_policy, failures, history>>

ApplyGovernor ==
    /\ step = "freq"
    /\ IF g_rt_config.disable_cpu_freq /\ cpu < NCPU
         THEN /\ IF cpu = 0 THEN SaveGovernor ELSE UNCHANGED <<g_saved_governor, unread>>
              /\ host' = WithGovernor(cpu, "performance")
              /\ cpu' = cpu + 1
              /\ UNCHANGED step
         ELSE step' = "affinity" /\ UNCHANGED <<g_saved_governor, unread, host, cpu>>
    /\ UNCHANGED <<proc, g_rt_config, g_rt_initialized, g_saved_policy, failures>>
    /\ UNCHANGED <<born, first, crashed>>

ApplyAffinity ==
    /\ Goto("affinity", "irq")
    /\ \/ /\ g_rt_config.isolate_cpu \in Cpu
          /\ proc' = [proc EXCEPT !.affinity = {g_rt_config.isolate_cpu}]
       \/ UNCHANGED proc     \* not asked for, or refused: logged only
    /\ UNCHANGED <<cpu, host, g_rt_config, g_rt_initialized, saved, failures, history>>

(* systemctl on a unit that is installed and does as it is told.           *)
MayControl == g_rt_config.disable_irq_balance /\ host.irqbalance # "absent"

ApplyIrqBalance ==
    /\ Goto("irq", "serving")
    /\ \/ MayControl /\ host' = [host EXCEPT !.irqbalance = "stopped"]
       \/ UNCHANGED host     \* not asked for, not installed, or refused: logged only
    /\ UNCHANGED <<cpu, proc, g_rt_config, g_rt_initialized, saved, failures, history>>

----------------------------------------------------------------------------
(* rt_setup_restore, step by step, by the flags of the configuration and   *)
(* not by what was applied.                                                *)
RestoreScheduler ==
    /\ \/ Goto("serving", "r_mlock") /\ ~g_rt_config.use_rt_scheduling /\ UNCHANGED <<proc, failures>>
       \/ /\ Goto("serving", "r_mlock")
          /\ g_rt_config.use_rt_scheduling
          /\ proc' = [proc EXCEPT !.sched = g_saved_policy]
          /\ UNCHANGED failures
       \/ /\ Goto("serving", "r_mlock")
          /\ g_rt_config.use_rt_scheduling
          /\ failures' = failures \cup {"scheduler"}
          /\ UNCHANGED proc
    /\ UNCHANGED <<cpu, host, g_rt_config, g_rt_initialized, saved, history>>

RestoreMemoryLock ==
    /\ Goto("r_mlock", "r_freq")
    /\ \/ proc' = [proc EXCEPT !.locked = @ /\ ~g_rt_config.lock_memory] /\ UNCHANGED failures
       \/ /\ g_rt_config.lock_memory
          /\ failures' = failures \cup {"memory"}
          /\ UNCHANGED proc
    /\ cpu' = 0
    /\ UNCHANGED <<host, g_rt_config, g_rt_initialized, saved, history>>

(* Mutant: the last CPU is left out.                                       *)
RestoreGovernor_AllButLast ==
    /\ step = "r_freq"
    /\ IF g_rt_config.disable_cpu_freq /\ g_saved_governor # EMPTY /\ cpu < NCPU - 1
         THEN /\ host' = WithGovernor(cpu, g_saved_governor)
              /\ cpu' = cpu + 1
              /\ UNCHANGED step
         ELSE step' = "r_affinity" /\ UNCHANGED <<host, cpu>>
    /\ UNCHANGED <<proc, g_rt_config, g_rt_initialized, saved, failures, history>>

RestoreGovernor ==
    /\ step = "r_freq"
    /\ IF g_rt_config.disable_cpu_freq /\ g_saved_governor # EMPTY /\ cpu < NCPU
         THEN /\ host' = WithGovernor(cpu, g_saved_governor)
              /\ cpu' = cpu + 1
              /\ UNCHANGED step
         ELSE step' = "r_affinity" /\ UNCHANGED <<host, cpu>>
    /\ UNCHANGED <<proc, g_rt_config, g_rt_initialized, saved, failures, history>>

RestoreAffinity ==
    /\ Goto("r_affinity", "r_irq")
    /\ IF g_rt_config.isolate_cpu >= 0
         THEN \/ proc' = [proc EXCEPT !.affinity = Cpu] /\ UNCHANGED failures
              \/ failures' = failures \cup {"affinity"} /\ UNCHANGED proc
         ELSE UNCHANGED <<proc, failures>>
    /\ UNCHANGED <<cpu, host, g_rt_config, g_rt_initialized, saved, history>>

RestoreIrqBalance ==
    /\ Goto("r_irq", "exited")
    /\ \/ MayControl /\ host' = [host EXCEPT !.irqbalance = "running"] /\ UNCHANGED failures
       \/ MayControl /\ failures' = failures \cup {"irqbalance"} /\ UNCHANGED host
       \/ ~MayControl /\ UNCHANGED <<host, failures>>
    /\ g_rt_initialized' = FALSE
    /\ UNCHANGED <<cpu, proc, g_rt_config, saved, history>>

----------------------------------------------------------------------------
(* rt_setup_check, which changes nothing: what it reports of the process   *)
(* and the host.  The isolation it reports is that of a process that may   *)
(* run on one CPU only, whichever that is; the latency it measures is left *)
(* out.                                                                    *)

(* Mutant: any CPU will do.                                                *)
cpu_isolated_AnyNumber ==
    /\ g_rt_initialized
    /\ g_rt_config.isolate_cpu >= 0
    /\ proc.affinity # {}

cpu_isolated ==
    /\ g_rt_initialized
    /\ g_rt_config.isolate_cpu >= 0
    /\ \E c \in Cpu : proc.affinity = {c}

rt_setup_check ==
    [ rt_scheduling_ok     |-> proc.sched \in {"SCHED_FIFO", "SCHED_FIFO of the unit"},
      memory_locked        |-> proc.locked,
      cpu_isolated         |-> cpu_isolated,
      irq_balance_disabled |-> host.irqbalance # "running" ]

----------------------------------------------------------------------------
(* The service manager: kill a process, start the next one.                *)
NewProcess ==
    /\ step' = "init"
    /\ cpu' = 0
    /\ proc' = born
    /\ FreshStatics
    /\ failures' = {}
    /\ UNCHANGED <<host, g_rt_config, born, first, unread>>

Crash == MayCrash /\ step # "exited" /\ NewProcess /\ crashed' = TRUE
StartAgain == step = "exited" /\ NewProcess /\ UNCHANGED crashed

Next ==
    \/ rt_setup_init \/ ApplyScheduler \/ ApplyMemoryLock \/ ApplyGovernor
    \/ ApplyAffinity \/ ApplyIrqBalance
    \/ RestoreScheduler \/ RestoreMemoryLock \/ RestoreGovernor
    \/ RestoreAffinity \/ RestoreIrqBalance
    \/ Crash \/ StartAgain

Spec == Init /\ [][Next]_vars

----------------------------------------------------------------------------
(* Properties.                                                             *)

(* The host that restoring by flags is right for: the process began with   *)
(* every CPU, all CPUs had one governor and irqbalance was running.        *)
OrdinaryHost ==
    /\ born.affinity = Cpu
    /\ \A c, d \in Cpu : first.governor[c] = first.governor[d]
    /\ first.irqbalance = "running"

(* A process that could not read CPU 0's governor did not change another   *)
(* one, because none can be written.  Where some can, rt_setup_restore has *)
(* nothing to write back and they stay at "performance".                   *)
GovernorWasRead == unread => first.writable = {}

(* On an ordinary host, as long as no process has been killed and each     *)
(* that changed governors could first read CPU 0's, a process that stops   *)
(* without a failure leaves itself and the host as they were before the    *)
(* service first ran, for every configuration, also when apply failed      *)
(* half-way or some governor files cannot be written.                      *)
RestoreUndoesApply ==
    step = "exited" /\ failures = {} /\ ~crashed /\ GovernorWasRead /\ OrdinaryHost =>
        proc = born /\ host = first

(* Crashes or not, a restore that reports no failure gives the process     *)
(* back the scheduling policy it was started with.                         *)
SchedulerIsRestored ==
    step = "exited" /\ "scheduler" \notin failures => proc.sched = born.sched

(* After any number of crashes between saving, setting and restoring, in   *)
(* the middle of the per-CPU loops too, a CPU runs with its own original   *)
(* governor, with CPU 0's, or with "performance".                          *)
GovernorsStayKnown ==
    \A c \in Cpu : host.governor[c] \in {first.governor[c], first.governor[0], "performance"}

(* g_saved_governor holds the original governor of CPU 0, as the comment   *)
(* where it is read says.                                                  *)
SavedGovernorIsOriginal ==
    g_saved_governor # EMPTY => g_saved_governor = first.governor[0]

(* Everything that was asked for and that rt_setup_check finds in place.   *)
CheckedReady ==
    /\ g_rt_config.use_rt_scheduling => rt_setup_check.rt_scheduling_ok
    /\ g_rt_config.lock_memory => rt_setup_check.memory_locked
    /\ g_rt_config.isolate_cpu >= 0 => rt_setup_check.cpu_isolated
    /\ g_rt_config.disable_irq_balance => rt_setup_check.irq_balance_disabled

(* When rt_setup_check finds all that was asked for, rt_setup_apply did it *)
(* or the process was born with it: for a process that began with the      *)
(* default policy and more than one CPU, a good report between apply and   *)
(* restore means that the scheduler was not refused and that the process   *)
(* runs on the CPU it was configured for.                                  *)
GoodReportIsEarned ==
    step = "serving" /\ CheckedReady /\ born.sched = "SCHED_OTHER" /\ (\A c \in Cpu : born.affinity # {c}) =>
        /\ g_rt_config.use_rt_scheduling => proc.sched = "SCHED_FIFO"
        /\ g_rt_config.isolate_cpu >= 0 => proc.affinity = {g_rt_config.isolate_cpu}
============================================================================
