--------------------------- MODULE RtSetupProofs ---------------------------
(***************************************************************************)
(* Proofs about the real-time environment, for every number of CPUs, every *)
(* set of governors, and any number of processes, killed or not.           *)
(***************************************************************************)
EXTENDS RtSetup, TLAPS

USE DEF Goto, saved, history

(* Opening one governor file changes that CPU's governor, or nothing.      *)
LEMMA WithGovernorIs ==
    ASSUME NEW c \in Cpu, NEW g \in Governor, host \in Host
    PROVE  /\ WithGovernor(c, g) \in Host
           /\ WithGovernor(c, g).writable = host.writable
           /\ WithGovernor(c, g).irqbalance = host.irqbalance
           /\ \A d \in Cpu : WithGovernor(c, g).governor[d] =
                 IF d = c /\ c \in host.writable THEN g ELSE host.governor[d]
  <1>1. CASE c \in host.writable
    <2>1. WithGovernor(c, g) = [host EXCEPT !.governor[c] = g]
      BY <1>1 DEF WithGovernor
    <2>2. [host.governor EXCEPT ![c] = g] \in [Cpu -> Governor]
      BY DEF Host
    <2>3. /\ WithGovernor(c, g).governor = [host.governor EXCEPT ![c] = g]
          /\ WithGovernor(c, g).writable = host.writable
          /\ WithGovernor(c, g).irqbalance = host.irqbalance
          /\ WithGovernor(c, g) \in Host
      BY <2>1, <2>2 DEF Host
    <2> QED BY <1>1, <2>3 DEF Host
  <1>2. CASE c \notin host.writable
    BY <1>2 DEF WithGovernor, Host
  <1> QED BY <1>1, <1>2

(* A step of either governor loop: what it does to the host.               *)
LEMMA GovernorLoops ==
    ASSUME TypeOK
    PROVE  /\ ApplyGovernor =>
                \/ /\ cpu \in Cpu /\ cpu' = cpu + 1 /\ step' = "freq" /\ g_rt_config.disable_cpu_freq
                   /\ host' = WithGovernor(cpu, "performance")
                   /\ g_saved_governor' = g_saved_governor \/ g_saved_governor' = host.governor[0]
                \/ step' = "affinity" /\ UNCHANGED <<g_saved_governor, unread, host, cpu>>
           /\ RestoreGovernor =>
                \/ /\ cpu \in Cpu /\ cpu' = cpu + 1 /\ step' = "r_freq" /\ g_saved_governor \in Governor
                   /\ host' = WithGovernor(cpu, g_saved_governor)
                \/ step' = "r_affinity" /\ UNCHANGED <<host, cpu>>
  <1>1. cpu \in 0..NCPU /\ NCPU \in Nat
    BY CpuAssumption DEF TypeOK
  <1>2. cpu < NCPU => cpu \in Cpu
    BY <1>1 DEF Cpu
  <1>3. g_saved_governor # EMPTY => g_saved_governor \in Governor
    BY DEF TypeOK
  <1> QED BY <1>2, <1>3 DEF ApplyGovernor, RestoreGovernor, SaveGovernor

(* Every step of apply and restore, a kill and a new process keep the      *)
(* types.                                                                  *)
LEMMA TypeIsKept == TypeOK /\ [Next]_vars => TypeOK'
  <1> SUFFICES ASSUME TypeOK, [Next]_vars PROVE TypeOK'
    OBVIOUS
  <1>0. /\ 0 \in 0..NCPU /\ 0 \in Cpu /\ NCPU \in Nat /\ Cpu \in SUBSET Cpu
        /\ \A c \in Cpu : c + 1 \in 0..NCPU /\ {c} \in SUBSET Cpu
    BY CpuAssumption DEF Cpu
  <1>p. proc \in Proc /\ host \in Host /\ g_rt_config \in rt_config_t
    BY DEF TypeOK
  <1>1. CASE rt_setup_init
    BY <1>1 DEF rt_setup_init, TypeOK, ApplyStep
  <1>2. CASE ApplyScheduler
    <2>1. proc' \in Proc /\ g_saved_policy' \in Sched
      BY <1>2, <1>p DEF ApplyScheduler, Proc, Sched, TypeOK
    <2> QED BY <1>2, <2>1 DEF ApplyScheduler, TypeOK, ApplyStep
  <1>3. CASE ApplyMemoryLock
    <2>1. proc' \in Proc
      BY <1>3, <1>p DEF ApplyMemoryLock, Proc, rt_config_t
    <2> QED BY <1>0, <1>3, <2>1 DEF ApplyMemoryLock, TypeOK, ApplyStep
  <1>4. CASE ApplyGovernor
    <2>1. host.governor[0] \in Governor
      BY <1>0, <1>p DEF Host
    <2>2. host' \in Host /\ cpu' \in 0..NCPU /\ g_saved_governor' \in Governor \cup {EMPTY}
      BY <1>0, <1>4, <1>p, <2>1, GovernorLoops, WithGovernorIs, GovernorAssumption DEF TypeOK
    <2>3. unread' \in BOOLEAN
      BY <1>4 DEF ApplyGovernor, SaveGovernor, TypeOK
    <2> QED BY <1>4, <2>2, <2>3 DEF ApplyGovernor, TypeOK, ApplyStep
  <1>5. CASE ApplyAffinity
    <2>1. proc' \in Proc
      BY <1>0, <1>5, <1>p DEF ApplyAffinity, Proc
    <2> QED BY <1>5, <2>1 DEF ApplyAffinity, TypeOK, ApplyStep
  <1>6. CASE ApplyIrqBalance
    <2>1. host' \in Host
      BY <1>6, <1>p DEF ApplyIrqBalance, Host
    <2> QED BY <1>6, <2>1 DEF ApplyIrqBalance, TypeOK
  <1>7. CASE RestoreScheduler
    <2>1. proc' \in Proc
      BY <1>7, <1>p DEF RestoreScheduler, Proc, TypeOK
    <2> QED BY <1>7, <2>1 DEF RestoreScheduler, TypeOK, RestoreStep
  <1>8. CASE RestoreMemoryLock
    <2>1. proc' \in Proc
      BY <1>8, <1>p DEF RestoreMemoryLock, Proc, rt_config_t
    <2> QED BY <1>0, <1>8, <2>1 DEF RestoreMemoryLock, TypeOK, RestoreStep
  <1>9. CASE RestoreGovernor
    <2>1. host' \in Host /\ cpu' \in 0..NCPU
      BY <1>0, <1>9, <1>p, GovernorLoops, WithGovernorIs DEF TypeOK
    <2> QED BY <1>9, <2>1 DEF RestoreGovernor, TypeOK, RestoreStep
  <1>10. CASE RestoreAffinity
    <2>1. proc' \in Proc
      BY <1>0, <1>10, <1>p DEF RestoreAffinity, Proc
    <2> QED BY <1>10, <2>1 DEF RestoreAffinity, TypeOK, RestoreStep
  <1>11. CASE RestoreIrqBalance
    <2>1. host' \in Host
      BY <1>11, <1>p DEF RestoreIrqBalance, Host
    <2> QED BY <1>11, <2>1 DEF RestoreIrqBalance, TypeOK
  <1>12. CASE Crash \/ StartAgain
    <2>1. born \in Proc
      BY DEF TypeOK, NewProc, Proc, Sched
    <2> QED BY <1>0, <1>12, <2>1
            DEF Crash, StartAgain, NewProcess, FreshStatics, TypeOK, ApplyStep, Sched, BornSched
  <1>13. CASE UNCHANGED vars
    BY <1>13 DEF vars, TypeOK
  <1> QED
    BY <1>1, <1>2, <1>3, <1>4, <1>5, <1>6, <1>7, <1>8, <1>9, <1>10, <1>11, <1>12, <1>13 DEF Next

(* TypeOK is an invariant: the loop index stays within the CPUs, and what  *)
(* is saved is a governor or nothing.                                      *)
THEOREM TypeCorrect == Spec => []TypeOK
  <1>1. Init => TypeOK
    <2> SUFFICES ASSUME Init PROVE TypeOK
      OBVIOUS
    <2>1. proc \in Proc
      BY DEF Init, NewProc, Proc, Sched
    <2>2. /\ cpu \in 0..NCPU /\ g_saved_policy \in Sched /\ g_saved_governor \in Governor \cup {EMPTY}
      BY CpuAssumption DEF Init, Sched, BornSched
    <2> QED BY <2>1, <2>2 DEF Init, TypeOK, ApplyStep
  <1> QED BY <1>1, TypeIsKept, PTL DEF Spec

----------------------------------------------------------------------------
(* What holds of the scheduling policy at each step.  The saved policy is  *)
(* the one the process was born with from the moment it is needed.         *)
SchedInv ==
    /\ step \in {"init", "sched"} \/ ~g_rt_config.use_rt_scheduling => proc.sched = born.sched
    /\ g_rt_config.use_rt_scheduling /\ step \notin {"init", "sched"} => g_saved_policy = born.sched
    /\ step \in RestoreStep \cup {"exited"} /\ "scheduler" \notin failures => proc.sched = born.sched
    /\ step \in ApplyStep \cup {"serving"} => proc.sched \in {born.sched, "SCHED_FIFO"}

(* Memory is locked only if that was asked for, and not after a munlockall *)
(* that did not fail.                                                      *)
LockInv ==
    /\ ~g_rt_config.lock_memory => ~proc.locked
    /\ step \in {"r_freq", "r_affinity", "r_irq", "exited"} /\ "memory" \notin failures => ~proc.locked

(* The CPUs of a process are its own or the isolated one until the         *)
(* restore, and all of them after it.                                      *)
AffinityInv ==
    /\ g_rt_config.isolate_cpu < 0 => proc.affinity = born.affinity
    /\ step \in ApplyStep \cup {"serving"} => proc.affinity \in {born.affinity, {g_rt_config.isolate_cpu}}
    /\ step \in {"r_irq", "exited"} /\ g_rt_config.isolate_cpu >= 0 /\ "affinity" \notin failures =>
          proc.affinity = Cpu

ProcInv == SchedInv /\ LockInv /\ AffinityInv

LEMMA ProcInvHolds == Spec => []ProcInv
  <1> USE DEF ProcInv, SchedInv, LockInv, AffinityInv, ApplyStep, RestoreStep
  <1>1. Init => ProcInv
    BY DEF Init, NewProc
  <1>2. TypeOK /\ ProcInv /\ [Next]_vars => ProcInv'
    <2> SUFFICES ASSUME TypeOK, ProcInv, [Next]_vars PROVE ProcInv'
      OBVIOUS
    <2>0. proc \in Proc /\ g_rt_config \in rt_config_t /\ born \in NewProc
      BY DEF TypeOK
    <2>1. CASE rt_setup_init
      BY <2>1 DEF rt_setup_init
    <2>2. CASE ApplyScheduler
      BY <2>0, <2>2 DEF ApplyScheduler, Proc
    <2>3. CASE ApplyMemoryLock
      BY <2>0, <2>3 DEF ApplyMemoryLock, Proc, rt_config_t
    <2>4. CASE ApplyGovernor \/ RestoreGovernor
      BY <2>4 DEF ApplyGovernor, RestoreGovernor
    <2>5. CASE ApplyAffinity
      BY <2>0, <2>5 DEF ApplyAffinity, Proc, rt_config_t, Cpu
    <2>6. CASE ApplyIrqBalance \/ RestoreIrqBalance
      BY <2>6 DEF ApplyIrqBalance, RestoreIrqBalance
    <2>7. CASE RestoreScheduler
      BY <2>0, <2>7 DEF RestoreScheduler, Proc
    <2>8. CASE RestoreMemoryLock
      BY <2>0, <2>8 DEF RestoreMemoryLock, Proc, rt_config_t
    <2>9. CASE RestoreAffinity
      BY <2>0, <2>9 DEF RestoreAffinity, Proc, rt_config_t
    <2>10. CASE Crash \/ StartAgain
      BY <2>0, <2>10 DEF Crash, StartAgain, NewProcess, FreshStatics, NewProc
    <2>11. CASE UNCHANGED vars
      BY <2>11 DEF vars
    <2> QED
      BY <2>1, <2>2, <2>3, <2>4, <2>5, <2>6, <2>7, <2>8, <2>9, <2>10, <2>11 DEF Next
  <1> HIDE DEF ProcInv
  <1> QED BY <1>1, <1>2, TypeCorrect, PTL DEF Spec

(* A restore whose call of the scheduler did not fail gives the process    *)
(* the policy it was born with, whatever happened to the processes before. *)
THEOREM SchedulerIsAlwaysRestored == Spec => []SchedulerIsRestored
  <1>1. ProcInv => SchedulerIsRestored
    BY DEF ProcInv, SchedInv, SchedulerIsRestored
  <1> QED BY <1>1, ProcInvHolds, PTL

(* A good report of rt_setup_check on a process born with neither real-    *)
(* time scheduling nor a single CPU is the work of rt_setup_apply.         *)
THEOREM GoodReportIsAlwaysEarned == Spec => []GoodReportIsEarned
  <1>1. ProcInv => GoodReportIsEarned
    BY DEF ProcInv, SchedInv, AffinityInv, GoodReportIsEarned, CheckedReady, rt_setup_check,
           cpu_isolated
  <1> QED BY <1>1, ProcInvHolds, PTL

----------------------------------------------------------------------------
(* The governors over any number of kills: what is saved is the original   *)
(* governor of CPU 0 or the one that apply sets.                           *)
KnownInv == g_saved_governor \in {EMPTY, first.governor[0], "performance"} /\ GovernorsStayKnown

LEMMA KnownInvHolds == Spec => []KnownInv
  <1>0. 0 \in Cpu
    BY CpuAssumption DEF Cpu
  <1>1. Init => KnownInv
    BY DEF Init, KnownInv, GovernorsStayKnown
  <1>2. TypeOK /\ KnownInv /\ [Next]_vars => KnownInv'
    <2> SUFFICES ASSUME TypeOK, KnownInv, [Next]_vars PROVE KnownInv'
      OBVIOUS
    <2> USE DEF KnownInv, GovernorsStayKnown
    <2>0. host \in Host /\ first' = first
      BY DEF TypeOK, Next, vars, rt_setup_init, ApplyScheduler, ApplyMemoryLock, ApplyGovernor,
             ApplyAffinity, ApplyIrqBalance, RestoreScheduler, RestoreMemoryLock, RestoreGovernor,
             RestoreAffinity, RestoreIrqBalance, Crash, StartAgain, NewProcess
    <2>1. CASE UNCHANGED <<host.governor, g_saved_governor>>
      BY <2>0, <2>1
    <2>2. CASE ApplyGovernor
      <3>1. CASE UNCHANGED <<g_saved_governor, host>>
        BY <2>0, <3>1
      <3>2. CASE /\ cpu \in Cpu /\ host' = WithGovernor(cpu, "performance")
                 /\ g_saved_governor' \in {g_saved_governor, host.governor[0]}
        BY <1>0, <2>0, <3>2, WithGovernorIs, GovernorAssumption
      <3> QED BY <2>2, <3>1, <3>2, GovernorLoops
    <2>3. CASE RestoreGovernor
      <3>1. g_saved_governor' = g_saved_governor
        BY <2>3 DEF RestoreGovernor
      <3>2. CASE UNCHANGED host
        BY <2>0, <3>1, <3>2
      <3>3. CASE cpu \in Cpu /\ g_saved_governor \in Governor /\ host' = WithGovernor(cpu, g_saved_governor)
        <4>1. g_saved_governor \in {first.governor[0], "performance"}
          BY <3>3, GovernorAssumption DEF EMPTY
        <4> QED BY <2>0, <3>1, <3>3, <4>1, WithGovernorIs
      <3> QED BY <2>3, <3>2, <3>3, GovernorLoops
    <2>4. CASE ApplyIrqBalance \/ RestoreIrqBalance
      <3>1. UNCHANGED <<host.governor, g_saved_governor>>
        BY <2>0, <2>4 DEF ApplyIrqBalance, RestoreIrqBalance, Host
      <3> QED BY <2>1, <3>1
    <2>5. CASE Crash \/ StartAgain
      BY <2>0, <2>5 DEF Crash, StartAgain, NewProcess, FreshStatics
    <2> QED
      BY <2>1, <2>2, <2>3, <2>4, <2>5
      DEF Next, vars, rt_setup_init, ApplyScheduler, ApplyMemoryLock, ApplyAffinity,
          RestoreScheduler, RestoreMemoryLock, RestoreAffinity
  <1> QED BY <1>1, <1>2, TypeCorrect, PTL DEF Spec

(* However often the process is killed, and wherever in the loops over the *)
(* CPUs, no CPU runs with a governor from nowhere.                         *)
THEOREM GovernorsAlwaysStayKnown == Spec => []GovernorsStayKnown
  <1>1. KnownInv => GovernorsStayKnown
    BY DEF KnownInv
  <1> QED BY <1>1, KnownInvHolds, PTL

----------------------------------------------------------------------------
(* The host while no process has been killed, none has changed governors   *)
(* without having read CPU 0's, and its CPUs had one governor: what is     *)
(* saved is that governor, the loops change the writable CPUs only, and    *)
(* the restoring loop leaves the original governor behind.                 *)
Uniform ==
    ~crashed /\ GovernorWasRead /\ \A c, d \in Cpu : first.governor[c] = first.governor[d]

GovernorInv ==
    /\ host.writable = first.writable
    /\ Uniform =>
        /\ g_saved_governor \in {EMPTY, first.governor[0]}
        /\ ~g_rt_config.disable_cpu_freq => g_saved_governor = EMPTY
        /\ \/ g_saved_governor = EMPTY
           \/ step \in {"init", "sched", "mlock", "r_affinity", "r_irq", "exited"}
           \/ step = "freq" /\ cpu = 0
           => host.governor = first.governor
        /\ step = "freq" /\ cpu > 0 /\ g_saved_governor = EMPTY => host.writable = {}
        /\ \A c \in Cpu : c \notin host.writable \/ (step = "r_freq" /\ c < cpu) =>
              host.governor[c] = first.governor[c]

(* irqbalance is touched only where it is installed and asked for.         *)
IrqInv ==
    /\ host.irqbalance = "absent" <=> first.irqbalance = "absent"
    /\ ~g_rt_config.disable_irq_balance => host.irqbalance = first.irqbalance
    /\ step = "exited" /\ MayControl /\ "irqbalance" \notin failures => host.irqbalance = "running"

LEMMA IrqInvHolds == Spec => []IrqInv
  <1>1. Init => IrqInv
    BY DEF Init, IrqInv
  <1>2. TypeOK /\ IrqInv /\ [Next]_vars => IrqInv'
    <2> SUFFICES ASSUME TypeOK, IrqInv, [Next]_vars PROVE IrqInv'
      OBVIOUS
    <2> USE DEF IrqInv, MayControl
    <2>0. host \in Host
      BY DEF TypeOK
    <2>1. CASE ApplyGovernor \/ RestoreGovernor
      <3>1. host'.irqbalance = host.irqbalance
        BY <2>0, <2>1, GovernorLoops, WithGovernorIs, GovernorAssumption
      <3>2. step' # "exited" /\ UNCHANGED <<g_rt_config, first>>
        BY <2>1 DEF ApplyGovernor, RestoreGovernor
      <3> QED BY <3>1, <3>2
    <2>2. CASE ApplyIrqBalance
      BY <2>0, <2>2 DEF ApplyIrqBalance, Host
    <2>3. CASE RestoreIrqBalance
      BY <2>0, <2>3 DEF RestoreIrqBalance, Host
    <2>4. CASE Crash \/ StartAgain
      BY <2>4 DEF Crash, StartAgain, NewProcess
    <2>5. CASE \/ rt_setup_init \/ ApplyScheduler \/ ApplyMemoryLock \/ ApplyAffinity
               \/ RestoreScheduler \/ RestoreMemoryLock \/ RestoreAffinity
      BY <2>5 DEF rt_setup_init, ApplyScheduler, ApplyMemoryLock, ApplyAffinity,
                  RestoreScheduler, RestoreMemoryLock, RestoreAffinity
    <2>6. CASE UNCHANGED vars
      BY <2>6 DEF vars
    <2> QED BY <2>1, <2>2, <2>3, <2>4, <2>5, <2>6 DEF Next
  <1> QED BY <1>1, <1>2, TypeCorrect, PTL DEF Spec

LEMMA GovernorInvHolds == Spec => []GovernorInv
  <1>0. 0 \in Cpu /\ NCPU \in Nat
    BY CpuAssumption DEF Cpu
  <1>1. Init => GovernorInv
    BY DEF Init, GovernorInv
  <1>2. TypeOK /\ GovernorInv /\ [Next]_vars => GovernorInv'
    <2> SUFFICES ASSUME TypeOK, GovernorInv, [Next]_vars PROVE GovernorInv'
      OBVIOUS
    <2> USE DEF GovernorInv
    <2>0. /\ host \in Host /\ first \in Host /\ cpu \in 0..NCPU
          /\ host.governor \in [Cpu -> Governor] /\ first.governor \in [Cpu -> Governor]
          /\ \A c \in Cpu : first.governor[c] # EMPTY
      <3>1. host \in Host /\ first \in Host /\ cpu \in 0..NCPU
        BY DEF TypeOK
      <3>2. host.governor \in [Cpu -> Governor] /\ first.governor \in [Cpu -> Governor]
        BY <3>1 DEF Host
      <3> QED BY <3>1, <3>2, GovernorAssumption DEF EMPTY
    <2>1. CASE ApplyGovernor
      <3>1. UNCHANGED <<first, crashed, g_rt_config>> /\ (Uniform' => Uniform) /\ step = "freq"
        BY <2>1 DEF ApplyGovernor, SaveGovernor, Uniform, GovernorWasRead
      <3>2. CASE step' = "affinity" /\ UNCHANGED <<g_saved_governor, unread, host, cpu>>
        BY <3>1, <3>2
      <3>3. CASE /\ cpu \in Cpu /\ cpu' = cpu + 1 /\ step' = "freq" /\ g_rt_config.disable_cpu_freq
                 /\ host' = WithGovernor(cpu, "performance")
        <4>1. /\ host'.writable = host.writable
              /\ \A d \in Cpu : host'.governor[d] =
                    IF d = cpu /\ cpu \in host.writable THEN "performance" ELSE host.governor[d]
          BY <2>0, <3>3, WithGovernorIs, GovernorAssumption
        <4> SUFFICES ASSUME Uniform, Uniform'
                     PROVE  /\ g_saved_governor' \in {EMPTY, first.governor[0]}
                            /\ g_saved_governor' = EMPTY => host.writable = {}
                            /\ g_saved_governor' = EMPTY => host.governor = first.governor
          <5>1. host.writable = {} => host' = host
            BY <3>3 DEF WithGovernor
          <5>2. cpu' # 0 /\ cpu' > 0
            BY <2>0, <3>3
          <5> QED BY <3>1, <3>3, <4>1, <5>1, <5>2
        <4>2. CASE cpu = 0
          <5>1. host.governor = first.governor
            BY <3>1, <4>2
          <5>2. \/ g_saved_governor' = host.governor[0]
                \/ host.writable = {} /\ g_saved_governor' = g_saved_governor
            BY <2>1, <3>1, <3>3, <4>2 DEF ApplyGovernor, SaveGovernor, Uniform, GovernorWasRead
          <5> QED BY <1>0, <2>0, <5>1, <5>2
        <4>3. CASE cpu # 0
          <5>1. g_saved_governor' = g_saved_governor
            BY <2>1, <3>3, <4>3 DEF ApplyGovernor
          <5>2. cpu > 0
            BY <2>0, <4>3
          <5> QED BY <3>1, <5>1, <5>2
        <4> QED BY <4>2, <4>3
      <3> QED BY <2>1, <3>2, <3>3, GovernorLoops
    <2>2. CASE RestoreGovernor
      <3>1. /\ UNCHANGED <<first, crashed, g_rt_config, g_saved_governor>> /\ Uniform' = Uniform
            /\ step = "r_freq"
        BY <2>2 DEF RestoreGovernor, Uniform, GovernorWasRead
      <3>2. CASE step' = "r_affinity" /\ UNCHANGED <<host, cpu>>
        <4> SUFFICES ASSUME Uniform PROVE host.governor = first.governor
          BY <3>1, <3>2
        <4>1. CASE ~g_rt_config.disable_cpu_freq \/ g_saved_governor = EMPTY
          BY <4>1
        <4>2. CASE ~(cpu < NCPU)
          <5>1. \A c \in Cpu : c < cpu
            BY <1>0, <2>0, <4>2 DEF Cpu
          <5>2. \A c \in Cpu : host.governor[c] = first.governor[c]
            BY <3>1, <5>1
          <5> QED BY <2>0, <5>2
        <4> QED BY <2>2, <3>2, <4>1, <4>2 DEF RestoreGovernor
      <3>3. CASE /\ cpu \in Cpu /\ cpu' = cpu + 1 /\ step' = "r_freq" /\ g_saved_governor \in Governor
                 /\ host' = WithGovernor(cpu, g_saved_governor)
        <4>1. /\ host'.writable = host.writable
              /\ \A d \in Cpu : host'.governor[d] =
                    IF d = cpu /\ cpu \in host.writable THEN g_saved_governor ELSE host.governor[d]
          BY <2>0, <3>3, WithGovernorIs
        <4>2. g_saved_governor # EMPTY
          BY <3>3, GovernorAssumption DEF EMPTY
        <4>3. ASSUME Uniform, NEW c \in Cpu, c \notin host.writable \/ c < cpu + 1
              PROVE  host'.governor[c] = first.governor[c]
          <5>1. g_saved_governor = first.governor[c]
            BY <1>0, <4>2, <4>3 DEF Uniform
          <5>2. CASE c = cpu
            BY <3>1, <4>1, <4>3, <5>1, <5>2
          <5>3. CASE c # cpu
            <6>1. c < cpu \/ c \notin host.writable
              BY <2>0, <4>3, <5>3 DEF Cpu
            <6> QED BY <3>1, <4>1, <4>3, <5>3, <6>1
          <5> QED BY <5>2, <5>3
        <4> QED BY <3>1, <3>3, <4>1, <4>2, <4>3
      <3> QED BY <2>2, <3>2, <3>3, GovernorLoops
    <2>3. CASE ApplyIrqBalance \/ RestoreIrqBalance
      <3>1. /\ UNCHANGED <<host.governor, host.writable, g_saved_governor, cpu, first, crashed, unread, g_rt_config>>
            /\ step \in {"irq", "r_irq"} /\ step' \in {"serving", "exited"}
            /\ step = "irq" => step' = "serving"
        BY <2>0, <2>3 DEF ApplyIrqBalance, RestoreIrqBalance, Host
      <3> QED BY <3>1 DEF Uniform, GovernorWasRead
    <2>4. CASE Crash
      BY <2>4 DEF Crash, NewProcess, Uniform
    <2>5. CASE StartAgain
      BY <2>5 DEF StartAgain, NewProcess, FreshStatics, Uniform, GovernorWasRead
    <2>6. CASE \/ rt_setup_init \/ ApplyScheduler \/ ApplyMemoryLock \/ ApplyAffinity
               \/ RestoreScheduler \/ RestoreMemoryLock \/ RestoreAffinity
      <3>1. /\ UNCHANGED <<host, g_saved_governor, first, crashed, unread, g_rt_config>>
            /\ \/ step \in {"init", "sched", "mlock"} /\ step' \in {"sched", "mlock", "freq", "serving"}
               \/ step = "affinity" /\ step' = "irq"
               \/ step \in {"serving", "r_mlock"} /\ step' \in {"r_mlock", "r_freq"}
               \/ step = "r_affinity" /\ step' = "r_irq"
            /\ step' \in {"freq", "r_freq"} => cpu' = 0
        BY <2>6 DEF rt_setup_init, ApplyScheduler, ApplyMemoryLock, ApplyAffinity,
                    RestoreScheduler, RestoreMemoryLock, RestoreAffinity
      <3>2. Uniform' = Uniform /\ \A c \in Cpu : ~(c < 0)
        BY <3>1 DEF Uniform, GovernorWasRead, Cpu
      <3> QED BY <3>1, <3>2
    <2>7. CASE UNCHANGED vars
      BY <2>7 DEF vars, Uniform, GovernorWasRead
    <2> QED BY <2>1, <2>2, <2>3, <2>4, <2>5, <2>6, <2>7 DEF Next
  <1> QED BY <1>1, <1>2, TypeCorrect, PTL DEF Spec

(* On an ordinary host, and as long as every process that changes          *)
(* governors can read CPU 0's, a process that stops without a failure      *)
(* leaves itself and the host as they were before the service first ran,   *)
(* for every configuration, number of CPUs and set of writable governors.  *)
THEOREM RestoreAlwaysUndoesApply == Spec => []RestoreUndoesApply
  <1>1. TypeOK /\ ProcInv /\ GovernorInv /\ IrqInv => RestoreUndoesApply
    <2> SUFFICES ASSUME TypeOK, ProcInv, GovernorInv, IrqInv,
                        step = "exited", failures = {}, ~crashed, GovernorWasRead, OrdinaryHost
                 PROVE  proc = born /\ host = first
      BY DEF RestoreUndoesApply
    <2>1. proc \in Proc /\ born \in NewProc /\ host \in Host /\ first \in Host /\ g_rt_config \in rt_config_t
      BY DEF TypeOK
    <2>2. proc.sched = born.sched /\ proc.locked = born.locked
      BY <2>1 DEF ProcInv, SchedInv, LockInv, NewProc, Proc
    <2>3. proc.affinity = born.affinity
      BY <2>1 DEF ProcInv, AffinityInv, OrdinaryHost, rt_config_t
    <2>4. proc = born
      BY <2>1, <2>2, <2>3 DEF Proc, NewProc
    <2>5. host.governor = first.governor /\ host.writable = first.writable
      BY DEF GovernorInv, Uniform, OrdinaryHost
    <2>6. host.irqbalance = first.irqbalance
      BY DEF IrqInv, MayControl, OrdinaryHost
    <2> QED BY <2>1, <2>4, <2>5, <2>6 DEF Host
  <1> QED BY <1>1, TypeCorrect, ProcInvHolds, GovernorInvHolds, IrqInvHolds, PTL
=============================================================================
