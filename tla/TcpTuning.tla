----------------------------- MODULE TcpTuning -----------------------------
(***************************************************************************)
(* TCP tuning of src/net/network_config.c: five files under /proc/sys that *)
(* net_tcp_tuning_apply writes one after the other and                     *)
(* net_tcp_tuning_read_current reads, in any order of calls and of writes  *)
(* by other programs.  In each call some files may fail to open; the       *)
(* kernel refuses values that are out of its range, which is known only    *)
(* when the stream is flushed by fclose.  A memory triple is one number.   *)
(***************************************************************************)
EXTENDS Integers

CONSTANT Mem         \* values of a memory triple; 0 has a zero in it

ASSUME MemAssumption == 0 \in Mem /\ Mem \subseteq Nat

(* The PROC_TCP_ paths.                                                    *)
SwitchFile == {"tcp_timestamps", "tcp_window_scaling", "tcp_sack"}
File == SwitchFile \cup {"tcp_rmem", "tcp_wmem"}

(* tcp_tuning_config_t; a switch is 0 or 1.                                *)
tcp_tuning_config_t == {t \in [File -> {0, 1} \cup Mem] :
                           \A f \in File : t[f] \in IF f \in SwitchFile THEN {0, 1} ELSE Mem}

(* What the kernel accepts: tcp_timestamps has a third mode, and no part   *)
(* of a memory triple may be zero.  External.                              *)
Accepts(f, v) == CASE f = "tcp_timestamps" -> v \in 0..2
                   [] f \in SwitchFile     -> v \in 0..1
                   [] OTHER                -> v # 0

Kernel == {p \in [File -> 0..2 \cup Mem] :
              \A f \in File : Accepts(f, p[f]) /\ (f \notin SwitchFile => p[f] \in Mem)}

(* Mutant: the result of the last file is the result of the call.          *)
Or_Last(acc, r) == r

(* ret |= r, with acc the ret so far.                                      *)
Or(acc, r) == IF r = 0 THEN acc ELSE -1

(* proc_write_int and proc_write_u32_triple, and the ret of their caller:  *)
(* an open that fails is seen, a value that the kernel refuses at fclose   *)
(* is not.                                                                 *)
proc_write(s, f, v, open) ==
    [ proc |-> IF f \in open /\ Accepts(f, v) THEN [s.proc EXCEPT ![f] = v] ELSE s.proc,
      ret  |-> Or(s.ret, IF f \in open THEN 0 ELSE -1) ]

WriteAll(p, open, tuning) ==
    LET Write(s, f) == proc_write(s, f, tuning[f], open)
        switches == Write(Write(Write([proc |-> p, ret |-> 0], "tcp_timestamps"),
                                "tcp_window_scaling"), "tcp_sack")
    IN  Write(Write(switches, "tcp_rmem"), "tcp_wmem")

ReadSwitch(v) == IF v # 0 THEN 1 ELSE 0

(* proc_read_int and proc_read_u32_triple.                                 *)
proc_read(s, f, p, open) ==
    [ tuning |-> IF f \in open
                   THEN [s.tuning EXCEPT ![f] = IF f \in SwitchFile THEN ReadSwitch(p[f]) ELSE p[f]]
                   ELSE s.tuning,
      ret    |-> Or(s.ret, IF f \in open THEN 0 ELSE -1) ]

(* memset, then file by file; a file that cannot be read leaves a zero.    *)
ReadAll(p, open) ==
    LET Read(s, f) == proc_read(s, f, p, open)
        switches == Read(Read(Read([tuning |-> [f \in File |-> 0], ret |-> 0], "tcp_timestamps"),
                              "tcp_window_scaling"), "tcp_sack")
    IN  Read(Read(switches, "tcp_rmem"), "tcp_wmem")

----------------------------------------------------------------------------
VARIABLES
    proc,        \* the kernel's values
    applied,     \* the tuning last applied with result 0, if nothing was written since
    current      \* the tuning last read with result 0, if nothing was written since

tuning == <<proc, applied, current>>

Unknown == [is |-> FALSE]
Known(t) == [is |-> TRUE, of |-> t]
Reported(ret, t) == IF ret = 0 THEN Known(t) ELSE Unknown

TuningTypeOK ==
    /\ proc \in Kernel
    /\ applied.is \in BOOLEAN /\ (applied.is => applied.of \in tcp_tuning_config_t)
    /\ current.is \in BOOLEAN /\ (current.is => current.of \in tcp_tuning_config_t)

(* A host as Linux boots it: all three switches on.                        *)
TuningInit ==
    /\ proc \in {p \in Kernel : \A f \in SwitchFile : p[f] = 1}
    /\ applied = Unknown
    /\ current = Unknown

net_tcp_tuning_apply(open, t) ==
    LET r == WriteAll(proc, open, t)
    IN  /\ proc' = r.proc
        /\ applied' = Reported(r.ret, t)
        /\ current' = Unknown

net_tcp_tuning_read_current(open) ==
    LET r == ReadAll(proc, open)
    IN  /\ current' = Reported(r.ret, r.tuning)
        /\ UNCHANGED <<proc, applied>>

(* Another program, such as sysctl, writes one of the files.               *)
OtherTunes(f, v) ==
    /\ Accepts(f, v)
    /\ proc' = [proc EXCEPT ![f] = v]
    /\ applied' = Unknown
    /\ current' = Unknown

TuningNext ==
    \/ \E open \in SUBSET File, t \in tcp_tuning_config_t : net_tcp_tuning_apply(open, t)
    \/ \E open \in SUBSET File : net_tcp_tuning_read_current(open)
    \/ \E f \in SwitchFile, v \in 0..2 : OtherTunes(f, v)

----------------------------------------------------------------------------
(* A result of 0 is real, whichever files failed in this call and in those *)
(* before it: a tuning that net_tcp_tuning_apply reported as applied is in *)
(* the kernel, all of it, if the kernel accepts its values (the refusal of *)
(* a value goes unseen), and one that net_tcp_tuning_read_current returned *)
(* is what the kernel has, its switches on or off, without the zeros of a  *)
(* file that could not be read; until another write, both are the same.    *)
TuningIsReal ==
    /\ applied.is /\ (\A f \in File : Accepts(f, applied.of[f])) =>
          /\ proc = applied.of
          /\ current.is => current.of = applied.of
    /\ current.is => \A f \in File :
          current.of[f] = IF f \in SwitchFile /\ proc[f] # 0 THEN 1 ELSE proc[f]
=============================================================================
