# Verification of the p-net IO device manager

This directory holds TLA+ models of the PROFINET IO device manager, the TLC
configurations that check them and TLAPS proofs about them. Paths such as
`src/app/io_device.c` are relative to the root of the repository
(`PROJECT.json` gives them with the checkout's own `src/` in front).

## 1. Inventory of the system

The program is one single-threaded process. It reads a configuration, prepares
the host (network interface, firewall, real-time environment), starts a PROFINET
IO device on top of the p-net stack, calls the stack periodically, recovers from
errors, and undoes the real-time settings when it is told to stop. systemd
supervises it.

| Component | State | Operations | Interacts with |
|---|---|---|---|
| IO device, `src/app/io_device.c` | `io_device_t`: state, stack handle, active AREP, counters, data buffers | init, start, tick, stop, cleanup, update_input, read_output, sixteen callbacks | calls the stack; is called back from inside `pnet_handle_periodic` and `pnet_factory_reset` |
| Manager, `src/main.c` | `g_running`, error count, recovery attempts, backoff, last ping | start-up, production loop, recovery, watchdog, signals, shutdown | calls everything else; signals; systemd notifications |
| Real-time environment, `src/realtime/rt_setup.c` | configuration, saved policy and governor | init, apply, restore, check, measure_latency | kernel, cpufreq files and irqbalance, which outlive the process |
| Stack: `tests/mock/pnet_api_mock.c`, or the real p-net (a submodule) | one record per `pnet_init`, never freed | init, periodic, plug, set input, get output, factory reset | calls the device back |
| Configuration, `src/config/app_config.c` | `app_config_t`, which keeps interface and addresses twice; the file | default, load, save, validate | read by the manager; the file is edited by others and survives kills |
| Network, `src/net/network_config.c` | the kernel's interface and `/proc/sys` | set address, mask, up, down; get; conversions; TCP tuning | called by the manager (set address, mask and up); other programs change flags |
| Security, `src/security/security_policy.c` | rule table; the host's chains; IPSec files | add, remove, flush, apply, generate, audit; tunnels | called by the manager (init and apply); iptables; chains and files outlive the process |
| Service process | the manager with the requests sent to it | SIGINT and SIGTERM at any moment | systemd or a terminal; `system()` |
| Platform headers, deployment, build, tests | none | | the service unit gives `WatchdogSec`, `Restart`, the scheduling policy |

What is hard in it:

* **Callbacks.** `app_state_ind_cb` writes the device's state unconditionally,
  from inside a call that the device itself made, for any of several ARs.
* **Partial failure.** A start has eight places to fail, start-up of the
  manager has seven, and the real-time environment five, each leaving something behind.
* **Counters in step.** Error count, recovery attempts, backoff and status are
  reset in different branches.
* **Signals and sleeps.** A signal may come at any moment and cuts a sleep short;
  no ping is sent while the process sleeps.
* **Crashes.** Host settings, firewall chains and files outlive a killed process
  and the saved originals do not.
* **Several calls for one effect.** An address, a mask and flags are set by
  separate ioctls, a policy by separate commands, a tunnel by two files, TCP
  tuning by five: each can stop in the middle.
* **Two copies, two encodings.** Addresses are kept twice and have a byte order.

What makes each component correct: the device's state is true of its stack, and
its cached data are the ones sent; the manager tears no stack down without a
reset, reports the truth, backs off as specified, ends only when asked, and ends
whenever asked; the real-time environment is put back as it was; what a file
says is what is loaded, in both copies, and what is saved is loaded back; what is
configured is what the interface has; the rule table is a list, and the host has
a prefix of it, all of it after success; a tunnel has both its files or is gone.
`PROJECT.json` lists each hazard at its line, with the properties that watch it.

## 2. Plan

Done, in this order:

1. `IoDeviceOps`, `IoDevice`: the device under an arbitrary client;
   `DeviceLifecycle` as its abstract specification; proofs.
2. `Manager`: main.c composed with the device of `IoDeviceOps`; proofs.
3. `RtSetup`: the real-time environment over several processes with crashes, and
   the report of `rt_setup_check`.
4. `AppConfig`: key table, load line by line, save, validation, kills.
5. `NetworkConfig`, `TcpTuning`: the interface ioctl by ioctl, byte order, tuning.
6. `SecurityPolicy` with `RuleList`, and `IpsecTunnel`; proofs of the latter.
7. `Service` with `ServiceLifecycle`: the manager with the requests to stop it,
   against an abstract specification with its progress.

8. Proofs of `Manager` (all its invariants) and of the safety half of
   `ImplementsService`.
9. Proofs of `RtSetup`, `NetworkConfig` with `TcpTuning`, `AppConfig`.
10. Proofs of `SecurityPolicy`, and that it implements `RuleList`.

Every invariant, action property and safety refinement of the passing runs is
now proved. What is left is liveness, which stays with TLC (section 5).

## 3. Modules

### IoDeviceOps

The device record, the stack record, and what each function of `io_device.c`
computes from them, as operators, so that two specifications can share them. A
handle is the index of a stack among those `pnet_init` has allocated; `NULL` is
0. A stack records how many of the seven plug calls of `plug_all_modules`
succeeded, the progress of each AR, its input and output data, and the result of
the last factory reset. The data side follows the mock; the order of events of
an AR (STARTUP, PRMEND, APPLRDY, DATA, and ABORT at any of them) is the real
stack's, seen from how the callback uses it, and is marked external.
`pnet_factory_reset` ends all ARs when it succeeds, as the comment in
`io_device_cleanup` says, and may fail.

### IoDevice and DeviceLifecycle

`IoDevice` has one action per function, under a client that calls them in any
order with any arguments. The calls of `pnet_handle_periodic` and
`pnet_factory_reset` are two actions each, the call and the return, with the
callbacks between; every other function is atomic, as it is in the code.
`Refused` stands for the early returns. The fifteen callbacks that only print are one
action that changes nothing. NULL arguments are left out.

Two things the model shows about the mock build: an update with `len` 0 still
sends the submodule's byte, because the mock's API has no length; and `cleanup`
or `init` on a device with a stack simply forgets the stack.

`DeviceLifecycle` is the promise of `io_device.h`: state and attachment only.
`IoDevice` implements it with `state <- dev.state` and
`attached <- dev.pnet_handle # NULL`.

### Manager

`pc` says where `main` is; the other variables are its locals, the host's
settings, the device, and what systemd knows. Every statement of the loop that
changes state belongs to one action: `TickBegins`/`TickSucceeds` or `TickFails`,
then `RecoverResetReturns`, `Backoff`, `Restart`, `WatchdogPing`, `TickSleep`. Both
calls of `device_stop_and_cleanup` are split around the factory reset, because
the stack may call back there.

Time passes in `usleep` only, in the units of the constants; other calls take no
time. `Signal` may come anywhere. It kills the process before the handlers are
installed; inside a sleep it ends the sleep (`Sleep`), since the handlers are
installed without `SA_RESTART`. The clock is an unsigned number that wraps at
`CLOCK_MOD` and starts anywhere.

Nothing in the repository puts a device whose start succeeded into ERROR, which
is what the recovery code waits for. `DeviceMayFault = FALSE` is the code as it
stands. `DeviceMayFault = TRUE` adds one external action that does so inside a
tick, so that the recovery code can be checked at all. A state
indication after such a fault overwrites the ERROR, as in the code.

`dev.error_count` counts the failed ticks of the device that is there, next to
`consecutive_errors` of the loop. `ThresholdIsPerDevice` relates the two: the loop
never counts more errors than its own device has had, and a recovery begins only
when that device has had the full number, so no failure of a predecessor counts
against a new device.

A failed first start leaves through `cleanup_rt` with the exit status of success,
as the code does.

### RtSetup

`rt_setup_init`, the five steps of `rt_setup_apply` and the five of
`rt_setup_restore`, with the per-CPU loops one CPU at a time. Each step may fail
where the code handles it, with one exception: `sched_getscheduler` and
`sched_getparam` of the calling process (`rt_setup.c:99` and `:105`) do not fail
on Linux, and their error branches are left out. CPU 0's governor may be unreadable
whether or not the files of any CPU can be written. Nothing is then saved, restore passes the
governors over (`rt_setup.c:249`), and CPUs that apply could write stay at
performance; `unread` remembers this, and `RestoreUndoesApply` asks
(`GovernorWasRead`) that the governor was read or none could be written. Scheduling, memory lock and affinity belong to the process;
governors and irqbalance to the host. `Crash` kills the process between any two
steps; `NewProcess` is the next one, with fresh static variables. A process starts with
the scheduling the service unit gives it, or the ordinary one. `failures`
collects failed calls of the restore, so that a property can speak of a restore
that had none. `rt_setup_check` is the report as a function of the state; it
counts the CPUs of the process and does not look at which they are, so
`GoodReportIsEarned` can promise the right CPU only to a process that was not
born on a single one.

### AppConfig

An `app_config_t` is its strings, addresses, numbers and switches by key, the
second copy of the addresses and of the interface (`net`, `if_name`), and one
field for all that no key names. A line of the file is a key and a text; a text
is a record of what the parsers make of it: as a number, as a dotted quad, as a
word (one of `Words`), and whether something follows. `strncpy` cuts (`Cut`), `strip` strips
(`Strip`), numbers are cast to the width of their field (`Stored`, with `U16` and
`U32` as small moduli). `Scanned` is what `sscanf` makes of a dotted text: the first
four numbers, each in the width of an unsigned, whatever follows; fewer than four
or an octet out of range makes the address 0. Loading is one
action per line, from defaults; saving truncates the file and writes it at
`fclose`, so a kill in between leaves it empty, and a full disk, which the code
does not notice, leaves its first lines (`Kept`) although the result is 0. An
administrator adds lines or replaces the file, and a client changes strings that
have no second copy; one that changes a mirrored field in one place only, as
`tests/test_config.c:34` does, breaks `MirrorsAgree` by itself.

`LoadedIsLastLine` says for each type of key what a well-formed line of the file
means (`WellFormed`, `Holds`), without reference to the parser of the model.

### NetworkConfig and TcpTuning

A `uint32_t` is four bytes; `InMemory` is its order on the host, which is also what
`htonl` does. `link` is the interface in the kernel, whose rules (a new address
brings the mask of its class; a mask with holes, a mask without an address and a
multicast address are refused) are external. `apply_network` of main.c is
followed ioctl by ioctl, each of which may fail, while another program toggles a
flag of its own. `little` is the byte order of the host, chosen at the start.
The conversions `net_ip_*` are operators; what is no address becomes 0, and a
buffer without room gets "0.0.0.0".

`TcpTuning` is the state machine of the five tuning files: `net_tcp_tuning_apply`
and `net_tcp_tuning_read_current` with any set of files that can be opened, and
another program that writes a switch. `applied` and `current` remember what the two
functions last reported with result 0, until something is written again. A value
that the kernel refuses is refused at `fclose`, whose result the code ignores.
`NetworkConfig` composes both halves, which share no state.

### SecurityPolicy, RuleList and IpsecTunnel

`SecurityPolicy` has the table with its shifting loop, the script with the size
of its buffer (a comment is its length), the script's commands one by one on the
host's chains, the audit's warnings or its ENOSPC for a report that does not fit,
and kills. The loop that writes the script is
`Appended`, a recursive function that gives what there is after each round; `Lines`
is that loop over the rules, and `Of` the same over the commands of one chain.
iptables' refusal of `--dport` for all protocols is external. `RuleList` is what `security_policy.h` offers: a
bounded list with add, delete by index, change and clear; the table implements it
with `list <- List`.

`IpsecTunnel` follows the two files of each tunnel call by call: open (which
empties), write and close, chmod, and the two removes with `errno` as they leave
it. `ignored` remembers failures that the code does not look at.

### Service and ServiceLifecycle

`Service` adds to `Manager` the requests that are sent: a signal that is heard is
`Manager`'s `Signal`; a SIGINT that arrives in a call that may be inside
`system()` changes nothing (`IgnoredSigint`) except that someone has asked.
`ServiceLifecycle` is what a service promises: phases, requests, and progress.
The refinement maps `pc` and the last status to a phase and takes the requests
that were heard; `RequestEndsService` is about those that were sent.

### MC modules and proof modules

The modules whose names begin with `MC` are the instances for TLC. The proof
modules are `IoDeviceOpsProofs` (lemmas on the operators), `IoDeviceProofs`,
`ManagerProofs` (`Manager` and `Service`), `RtSetupProofs`, `AppConfigProofs`,
`NetworkConfigProofs` (with `TcpTuning`), `SecurityPolicyProofs` and
`IpsecTunnelProofs`. Definitions named `X_Y`, with a comment that begins "Mutant",
are faulty versions of `X`; nothing in the specifications uses them. Each property
of a passing run is violated when the one `PROJECT.json` names replaces its
original.

## 4. Runs

| Run | Question | Result |
|---|---|---|
| `device` | is the device's state true of its stack, with two ARs; are buffers and cached data right for every length; does it implement `DeviceLifecycle`? | holds |
| `manager_recovery` | are recovery, reporting, backoff, giving up, start-up order, cleanup and silence right when everything may fail? | holds |
| `manager_faultfree` | the code as it stands, with its real numbers in seconds: is recovery ever needed, is systemd fed? | never needed; fed |
| `service_liveness` | with no limit on attempts: does a heard signal end the process, does a lost device come back, does the process implement `ServiceLifecycle`? | holds |
| `service_sigint` | does every request to stop end the service? | violated |
| `rt_restore` | does restore undo apply, over crashes and restarts, and is a good report earned? | holds |
| `rt_crash` | is the saved governor the original one? | violated after a crash |
| `config_load` | is what is loaded what the file says, in both copies; is it loaded back; is what is accepted usable? | holds |
| `network` | does the interface get what is configured (big-endian), do set, get and conversions agree, is a tuning that is reported the kernel's? | holds |
| `network_byteorder` | the default configuration on a little-endian host | reversed address |
| `policy_table` | is the table a list, does the audit warn before it is full, and what does the host have after success, failure or a kill? | holds |
| `tunnel_files` | are tunnels complete when reported created, and gone when reported removed? | holds |

The three violations are the findings of `PROJECT.json`; section 6 has the other
disagreements, which the properties of the passing runs leave open.

**Bounds.** Two ARs are what the build allows (`PNET_MAX_AR` 2) and are needed
for the interleavings of `device`; the manager's runs use one, because
its properties do not tell ARs apart. `device` has one stack, so that it can have
two ARs and every length; in the manager's runs two stacks let a device be
abandoned and replaced, and let memory run out, and the proofs of section 5
cover any number. A buffer of two
bytes over a submodule of one, with lengths up to three, has every case of
shorter, equal, longer and too long. The counters of the device are capped at the threshold of
errors (`ThresholdAssumption`), since properties ask whether they are 0 or have
reached it. In `manager_recovery` the threshold of 2
and the backoff 1, 2, 3 (capped) have a first, a middle and a capped step, and
the limit of two attempts is reached after them;
`ATTEMPT_CAP` is past the limit, so the capped count loses nothing.
`service_liveness` has the program's own limit, none, and the smallest
threshold and backoff: its properties do not depend on how long a sleep is.
`CLOCK_MOD` exceeds ping, backoff and tick together, which the real width does
by far, and all start values of the clock are explored, so the wrap happens at
every point. Two CPUs give `RtSetup` a first CPU and another one, in a loop that can be cut
in between; a CPU number that does not exist is among the values of
`isolate_cpu`. Files of two lines give `config_load` a repeated key in both
orders and an interleaved one; the lines include every kind of value, malformed,
overlong, empty, out of width, and with a comment behind. `network` has an address
with the mask of its class, one with another, a multicast one, and masks with holes;
the five tuning files fail in every combination, for tunings that the kernel
accepts and that it refuses. `MCSpec` explores the calls for the interface and those for the tuning
one beside the other instead of multiplying their states, which are disjoint; the
proofs are about the product. A table of three rules has a first, a
middle and a last place, and the buffer of `policy_table` is one that two long
rules fit and three do not; two applications show what the second does to the
first. Two tunnels, which may be permuted, show that one does not touch the other.

**Silence.** `SilenceIsBounded` gives the exact bound on the time systemd waits
for a ping: one interval, one tick and the longest backoff. With the program's
constants, 14 s + tick + 30 s, this is more than `WatchdogSec=30`: a service
in a long recovery would be killed by systemd. As the code stands it
cannot come to that, because no recovery ever happens; a long tick interval,
of which `app_config_validate` only asks that it is not 0, has the same effect
and needs no fault. `manager_faultfree` has tick intervals up to the ping
interval, for which systemd is fed.

**Deadlock** is checked in every run; a process that has ended stutters
(`Terminated`).

**Fairness.** It is stated in `FairServiceSpec`. `WF(Program)`: the process is scheduled and its calls return. For
`RecoveryProgress` also `SF(Restart(PLUG_ALL))`: a start attempted again and
again succeeds at last, an assumption on the stack and the host without which no retry
can promise anything. Memory that earlier stacks have used up is an
exception in the property itself: nothing frees a stack. No
fairness is assumed of signals, callbacks or faults.

## 5. Proofs

For every value of the constants that satisfies the `ASSUME`s of the modules (a
non-empty buffer that holds the submodules, positive backoff and threshold,
a clock wider than one silence, a host whose governors have names, words that
the program writes itself and that need no cutting or stripping, and the like):

* `IoDeviceProofs!TypeCorrect`, `ManagerProofs!TypeCorrect`: the type
  invariants, by one step per action, from the operator lemmas of
  `IoDeviceOpsProofs`.
* `LifecycleIsCoherent`, `RunningMeansExchanging`, `SavedArepIsLive`. None
  is inductive alone. The invariant `Inv` joins them with the types: the abort
  of an AR needs that the device is up whenever the stack can call back in a
  tick, which needs that a device that is not up has no live AR, which needs
  that stacks start without one.
* `DeviceImplementsLifecycle`: each step of `IoDevice` is a step or a stutter of
  `DeviceLifecycle`, under `Inv`. The callback inside a factory reset is the
  step that needs it: without a live AR there is no abort, so a device in
  ERROR is not taken to CONNECTED.
* `InputCacheIsAlwaysSent`: strengthened by "an INITIALIZED device has a zeroed
  input buffer", which is what a fresh stack holds, and by `Inv`.
* `RecoveryIsUnreachable`: without external faults, the device of the loop is
  always up and has a handle, so no tick is refused. It says of the code at
  this commit that its recovery branch is dead.
* `StacksAreAlwaysReset`: strengthened (`StackInv`) by: the current handle is
  among the allocated ones, and main holds no handle where it starts a device or
  has stopped one, so that a start abandons no stack.
* `RtIsAlwaysRestored`, `DeviceIsBehindFirewall`: `HostInv` says at each place of
  start-up and shutdown what has been done to the host so far, so that every way
  out is seen to pass `cleanup_rt` and every start to come after the firewall.
* `ThresholdIsAlwaysPerDevice`, `AlwaysLeavesOnlyWhenAsked`,
  `StatusIsAlwaysTruthful`: `CountersInv` and `StatusInv`. They need `StackInv`
  (no handle while main backs off), that the counters are 0 until the loop begins,
  and that attempts stay within the limit while in the loop.
* `BackoffAlwaysTracksAttempts`: `BackoffInv` adds that the attempt is already
  counted where main backs off. `BackoffSteps` proves by induction what the
  recursive function `Doubled` computes. The count of attempts stops at
  `ATTEMPT_CAP`, which is a bound of the model and not of the code; the theorem asks
  (`BoundIsLarge`) that this is past the limit on attempts or past the point where
  the backoff has reached its maximum.
* `SilenceIsAlwaysBounded`: `ClockInv` says for each place of the loop how far the
  unsigned difference `Elapsed` may have got, and that the silence is never more
  than that difference, which needs that the difference never reaches `CLOCK_MOD`.
  `WatchdogIsAlwaysFed` is the corollary for tick intervals whose bound is within
  `WATCHDOG_SEC`. With the program's numbers that is so without faults for
  intervals up to 16 s, and for no interval when recoveries happen.
* `ServiceKeepsPromise`: every step of `Service` is a step or a stutter of
  `ServiceLifecycle`. It rests on `StatusInv` (the phase is what systemd was told),
  on `ExitInv` (only the step that ends the process sets its exit status) and on the other invariants
  of `Manager`.
* `RtSetupProofs`: `SchedulerIsAlwaysRestored` and `GoodReportIsAlwaysEarned` from
  `ProcInv`, which follows policy, lock and affinity of the process step by
  step; `GovernorsAlwaysStayKnown` from `KnownInv`, which adds what may be saved;
  `RestoreAlwaysUndoesApply` from these with `GovernorInv`, which follows both
  per-CPU loops, the CPUs that cannot be written and whether CPU 0's governor was
  read, and `IrqInv`.
* `NetworkConfigProofs`: `AppliedInv` says after which ioctl address and mask are in
  place (`ConfiguredIsAlwaysSetOnBigEndian`); `AddressInv` says that the interface has
  the given address as it is in memory, and `InMemoryTwice` that two conversions
  cancel out (`ReadBackAlwaysAgrees`); `FlagsInv`, that the flags that were read
  are current until somebody interferes (`OtherFlagsAreAlwaysKept`).
  `IsValidIsAlwaysDotted` is about operators, for all numbers in the place of an
  octet. `TuningIsAlwaysReal` rests on what the five writes and reads do together
  (`WriteAllIs`, `ReadAllIs`) and on `TuningInv`, which adds that an applied switch
  is 0 or 1, so that reading it back does not change it.
* `AppConfigProofs`: `LoadInv` says of every key that the configuration follows
  the lines read so far, and `OneMoreLine` that a line of one key leaves the others
  alone; with it `MirrorsAlwaysAgree`, `LoadedIsAlwaysLastLine` and
  `AcceptedIsAlwaysUsable` hold for files of any length. `SavedIsAlwaysLoadedBack`
  adds `SaveInv` (the file is what was saved last) and `FormatIsReadBack`.
* `SecurityPolicyProofs`: `RunInv` says that the script is the rest of the commands
  and that the others have run; `DoneInv`
  keeps this after the call. `HostAlwaysHasAPrefix` follows at once;
  `CleanAuditAlwaysLeavesRoom` needs `AuditInv`: a count of 0 is an empty set of
  warnings, so the table was less than three quarters full, and it is the same
  table until the next call. `TableImplementsList` rests on three
  lemmas on the table as a list: writing behind its end appends, the shifting loop
  is `RemoveAt`, writing in place is `ReplaceAt`.
* `CreatedIsComplete`, `RemovedKeyIsGone`, `WholeTunnelGoes`: the tunnel files.
  The invariant `FilesInv` adds what a creation in progress has already written
  (`CreationInv`), since the report comes only after the last of five calls, and
  how the first remove left the configuration and `errno` (`RemovalInv`), since
  both removes are judged after the second.

What a recursive function (`Appended`, `Doubled`) computes is proved by induction
over a set instead of a predicate: `NatSetInduction` follows from the
well-foundedness of < on the natural numbers and the existence of minimal
elements (`WFMin`), both of the library.

Model-checked only, because the prover has no support for fairness here:
`ShutdownCompletes`, `RecoveryProgress`, and the progress half of
`ImplementsService`.

## 6. Where code and documentation disagree

Three disagreements have a run of their own: `service_sigint`, `rt_crash` and
`network_byteorder`. The models made the following ones visible too. No property of a passing run
asserts the code's side of them: each is stated so that it also holds of code that does as the documentation says, or it
excludes the case.

* `io_device.c:124`: the ABORT of any AR clears `active_arep`, which line 111
  says is kept "for later use", while another AR may be established.
  `ActiveArepIsLive` says the half that holds.
* `main.c:436`: a tick interval longer than `WatchdogSec` starves systemd, which
  according to `main.c:42` "expects a ping every WatchdogSec/2".
* `rt_setup.c:285`: "Re-enable irqbalance" starts it also where it did not run
  before; `RestoreUndoesApply` therefore asks for a host on which it ran.
* `rt_setup.c:367`: `rt_setup_check` reports "isolated" for a process that is
  confined to another CPU than `isolate_cpu`.
* `app_config.c:214`: an empty string is saved as a key without a value, which the
  loader passes over, and what no key names (TCP tuning, firewall rules,
  `disable_cpu_freq`, `disable_irq_balance`) is not saved, although
  `tests/test_config.c:42` speaks of a round trip. `SavedIsLoadedBack` has the
  exceptions (`Storable`).
* `app_config.c:117`: `README.md:163` has a comment behind a value; the
  comparison of a switch takes in the whole rest of the line, so
  `lock_memory = 1         # mlockall` turns the lock off, and behind a string the
  comment becomes part of it. `LoadedIsLastLine` excludes such lines
  (`WellFormed`).
* `app_config.c:42`: `sscanf` reads `10.0.0.1.5`, or an address with text behind
  it, as 10.0.0.1, and a number too long for an unsigned modulo 2^32, where `inet_pton` of
  `net_ip_from_string` refuses them. `AcceptedIsUsable` speaks of the first four
  numbers in their width.
* `app_config.c:276`: a save on a full disk returns 0.
* `rt_setup.c:145`: "Save original governor from CPU 0"; when that file cannot be
  read, the governors of the others are set all the same and never restored.
  `RestoreUndoesApply` excludes the case by `GovernorWasRead`.
* `network_config.c:521`: "-1 on first failure", but all five files are written;
  and what `fclose` returns, where the kernel's refusal shows, is ignored
  (line 65). `TuningIsReal` is about calls that returned 0, says nothing of the files
  behind a failed one and excludes refused values.
* `security_policy.c:202`: "Flush existing PROFINET chain"; the rules go to
  INPUT, OUTPUT and FORWARD, which are not flushed, so each application adds its
  rules to those of the one before. `HostHasAPrefix` allows either.
* `security_policy.c:410`: "Policy is disabled - no rules are enforced", but
  `sec_policy_apply` does not look at `enabled`.
* `security_policy.c:421`: the catch-all rule that the audit asks for, with the
  protocol that `security_policy.h:33` calls "all", becomes `-p all --dport 0`,
  which iptables refuses, so a policy with such a rule is not applied; an inactive
  one satisfies the audit too, and then nothing is denied. No property depends on either.
* `security_policy.c:366`: the failure of the first `remove` is judged by the
  `errno` of the second, so a tunnel without a secrets file can be reported as
  removed with its configuration still there. `WholeTunnelIsRemoved` and
  `RemovedSecretIsGone` say what can be relied on.
* `security_policy.c:324, 339, 342`: results of `fclose` and `chmod` are
  ignored; `CreatedTunnelIsComplete` excepts such failures by `ignored`.

## 7. Not modelled

`rt_setup_measure_latency` measures time that the models do not have. Lines
longer than the buffer of `fgets`, paths longer than theirs, the MAC address
(a query that may fail), the text of the audit's report, a line that a full disk
cuts in the middle, the
contents of `pnet_cfg_t`, log output, `io_device_show` and platforms other than
Linux are left out. The mock's `pnet_pull_*`, alarms and `pnet_show` are not called
by the device. NULL arguments are refused at the head of every function and are
left out. `sec_policy_audit` advances its offset past a report that is too small and
writes behind it before it returns ENOSPC (`security_policy.c:410` to `:476`); the
model has the result and not the memory behind the report.

The manager of this commit applies an empty policy (the configuration file has
no key for a rule) and never calls `app_config_save`, `sec_policy_audit`, the
tunnel functions, `net_if_set_down` or the TCP tuning; those are modelled under a
client that calls them in any order. In `Manager` the calls of configuration,
network, security and real-time modules appear with the outcomes they can have;
what happens inside them is the subject of their own modules.

The platform headers (`include/pnal_*.h`) have type names and constants only;
build files, installation scripts and the unit tests have no behaviour of the
running system, except the service unit, whose settings appear in `Manager`,
`RtSetup` and `ServiceLifecycle`.
