------------------------ MODULE NetworkConfigProofs ------------------------
(***************************************************************************)
(* Proofs about the network configuration, for every configuration, every  *)
(* address and every kernel value, on hosts of either byte order.          *)
(***************************************************************************)
EXTENDS NetworkConfig, TLAPS

USE DEF Goto, Fails

(* Reversing the bytes of a number twice gives it back.                    *)
LEMMA InMemoryTwice ==
    ASSUME NEW is_little \in BOOLEAN, NEW n \in Address
    PROVE  /\ InMemory(is_little, n) \in Address
           /\ InMemory(is_little, InMemory(is_little, n)) = n
  BY DEF InMemory, Address

(* The parts of the state that every step keeps well formed, and what the  *)
(* two ioctls on the flags rely on: until another program interferes, the  *)
(* flags that were read are those of the interface.                        *)
Link == [addr : Address, mask : Address \cup {Mask(n) : n \in 0..32}, flags : SUBSET Flag]

ShapeInv ==
    /\ little \in BOOLEAN
    /\ link \in Link
    /\ ifr_flags \subseteq Flag
    /\ cfg \in Config

FlagsInv == pc \in {"up write", "down write"} /\ ~raced => ifr_flags = link.flags

(* What ConfiguredIsSet says, with the mask before the flags are written.  *)
AppliedInv ==
    ~little =>
        /\ pc \in {"mask", "up", "up write"} => link.addr = cfg.ip
        /\ pc \in {"up", "up write"} => link.mask = cfg.mask
        /\ ret = "apply" /\ pc = "idle" =>
              link.addr = cfg.ip /\ link.mask = cfg.mask /\ "UP" \in link.flags

(* The address of the interface is the one that was given, in the order of *)
(* memory, and what was read since is that address.                        *)
AddressInv ==
    given.is =>
        /\ given.ip \in Address
        /\ link.addr = InMemory(little, given.ip)
        /\ got.is => got.ip = InMemory(little, link.addr)

(* SIOCSIFADDR changes the address and the mask only.                      *)
LEMMA WithAddressIs ==
    ASSUME ShapeInv, NEW a \in Address
    PROVE  /\ WithAddress(link, a) \in Link
           /\ WithAddress(link, a).addr = a
           /\ WithAddress(link, a).flags = link.flags
  <1>1. CASE a = link.addr
    BY <1>1 DEF ShapeInv, WithAddress
  <1>2. CASE a # link.addr
    <2> DEFINE m == IF a = ZeroAddress THEN ZeroAddress ELSE ClassMask(a)
    <2>1. m \in Address \cup {Mask(n) : n \in 0..32}
      <3>1. ZeroAddress \in Address
        BY DEF ZeroAddress, Address, Byte
      <3>2. \E n \in 0..32 : ClassMask(a) = Mask(n)
        <4> DEFINE n == CASE a[1] = 0 -> 0 [] a[1] \in 1..127 -> 8 [] a[1] \in 128..191 -> 16
                          [] a[1] \in 192..223 -> 24 [] OTHER -> 32
        <4>1. n \in 0..32
          OBVIOUS
        <4> HIDE DEF n
        <4> QED BY <4>1 DEF ClassMask, n
      <3> QED BY <3>1, <3>2
    <2>2. WithAddress(link, a) = [link EXCEPT !.addr = a, !.mask = m]
      BY <1>2 DEF WithAddress
    <2> HIDE DEF m
    <2> QED BY <2>1, <2>2 DEF ShapeInv, Link
  <1> QED BY <1>1, <1>2

(* What each step does to the link, the configuration and the program      *)
(* counter.                                                                *)
LEMMA LinkSteps ==
    ASSUME ShapeInv, [Next]_vars
    PROVE  \/ \E c \in Config :
                /\ pc = "idle" /\ pc' = "ip" /\ cfg' = c
                /\ UNCHANGED <<little, link, ifr_flags, ret, got, given, raced>>
           \/ /\ pc = "ip" /\ pc' = "mask"
              /\ link' \in Link /\ link'.addr = InMemory(little, cfg.ip) /\ link'.flags = link.flags
              /\ given' = [is |-> TRUE, ip |-> cfg.ip] /\ got' = None
              /\ UNCHANGED <<little, cfg, ifr_flags, ret, raced>>
           \/ /\ pc = "mask" /\ pc' = "up"
              /\ link' \in Link /\ link'.addr = link.addr /\ link'.flags = link.flags
              /\ link'.mask = InMemory(little, cfg.mask)
              /\ UNCHANGED <<little, cfg, ifr_flags, ret, got, given, raced>>
           \/ /\ <<pc, pc'>> \in {<<"up", "up write">>, <<"down", "down write">>}
              /\ ifr_flags' = link.flags /\ raced' = FALSE
              /\ UNCHANGED <<little, link, cfg, ret, got, given>>
           \/ /\ \/ pc = "up write" /\ ret' = "apply" /\ link'.flags = ifr_flags \cup {"UP"}
                 \/ pc = "down write" /\ ret' = "down" /\ link'.flags = ifr_flags \ {"UP"}
              /\ pc' = "idle"
              /\ link' \in Link /\ link'.addr = link.addr /\ link'.mask = link.mask
              /\ UNCHANGED <<little, cfg, ifr_flags, got, given, raced>>
           \/ /\ pc # "idle" /\ pc' = "idle" /\ ret' = "failed"
              /\ UNCHANGED <<little, link, cfg, ifr_flags, got, given, raced>>
           \/ /\ pc = "idle" /\ pc' \in {"idle", "down"}
              /\ got' = got \/ (got'.is => got'.ip = InMemory(little, link.addr))
              /\ UNCHANGED <<little, link, cfg, ifr_flags, ret, given, raced>>
           \/ /\ link' \in Link /\ link'.addr = link.addr /\ link'.mask = link.mask
              /\ "UP" \in link.flags => "UP" \in link'.flags
              /\ raced' = TRUE
              /\ UNCHANGED <<little, cfg, pc, ifr_flags, ret, got, given>>
           \/ UNCHANGED interface
  <1>0. /\ cfg.ip \in Address /\ InMemory(little, cfg.ip) \in Address
        /\ InMemory(little, cfg.mask) \in Address
    BY ConfigAssumption, InMemoryTwice DEF ShapeInv
  <1>1. CASE \E c \in Config : apply_network(c)
    BY <1>1 DEF apply_network
  <1>2. CASE net_if_set_ip
    BY <1>0, <1>2, WithAddressIs DEF net_if_set_ip
  <1>3. CASE net_if_set_netmask
    BY <1>0, <1>3 DEF net_if_set_netmask, ShapeInv, Link
  <1>4. CASE net_if_set_up \/ net_if_set_down
    BY <1>4 DEF net_if_set_up, net_if_set_down, ReadFlags, WriteFlags, ShapeInv, Link, Flag
  <1>5. CASE net_if_get_config
    BY <1>5 DEF net_if_get_config, net_if_get_ip
  <1>6. CASE OtherChangesFlags
    BY <1>6 DEF OtherChangesFlags, ShapeInv, Link, Flag
  <1> QED BY <1>1, <1>2, <1>3, <1>4, <1>5, <1>6 DEF Next, InterfaceNext, vars

(* The four parts together are inductive.                                  *)
LEMMA InvHolds == Spec => [](ShapeInv /\ FlagsInv /\ AppliedInv /\ AddressInv)
  <1>1. Init => ShapeInv /\ FlagsInv /\ AppliedInv /\ AddressInv
    BY HostAssumption, ConfigAssumption, 24 \in 0..32
       DEF Init, None, ShapeInv, FlagsInv, AppliedInv, AddressInv, Link, ZeroAddress, Address, Byte
  <1>2. ShapeInv /\ FlagsInv /\ AppliedInv /\ AddressInv /\ [Next]_vars
          => (ShapeInv /\ FlagsInv /\ AppliedInv /\ AddressInv)'
    <2> SUFFICES ASSUME ShapeInv, FlagsInv, AppliedInv, AddressInv, [Next]_vars
                 PROVE  ShapeInv' /\ FlagsInv' /\ AppliedInv' /\ AddressInv'
      OBVIOUS
    <2>1. cfg.ip \in Address /\ \A n : little = FALSE => InMemory(little, n) = n
      BY ConfigAssumption DEF ShapeInv, InMemory
    <2>2. ShapeInv'
      BY LinkSteps DEF ShapeInv, Link, interface
    <2>3. FlagsInv'
      BY LinkSteps DEF FlagsInv, interface
    <2>4. AppliedInv'
      BY <2>1, LinkSteps DEF ShapeInv, AppliedInv, interface
    <2>5. AddressInv'
      <3>1. \/ /\ link'.addr = InMemory(little, cfg.ip)
               /\ given' = [is |-> TRUE, ip |-> cfg.ip] /\ got' = None /\ UNCHANGED little
            \/ /\ got' = got \/ (got'.is => got'.ip = InMemory(little, link.addr))
               /\ UNCHANGED <<little, link.addr, given>>
        BY LinkSteps DEF interface
      <3>2. ~None.is
        BY DEF None
      <3>3. CASE given' = [is |-> TRUE, ip |-> cfg.ip] /\ got' = None /\ UNCHANGED little
                 /\ link'.addr = InMemory(little, cfg.ip)
        BY <2>1, <3>2, <3>3 DEF AddressInv
      <3>4. CASE /\ got' = got \/ (got'.is => got'.ip = InMemory(little, link.addr))
                 /\ UNCHANGED <<little, link.addr, given>>
        BY <3>4 DEF AddressInv
      <3> QED BY <3>1, <3>3, <3>4
    <2> QED BY <2>2, <2>3, <2>4, <2>5
  <1> QED BY <1>1, <1>2, PTL DEF Spec

(* On a big-endian host the interface has what apply_network was given,    *)
(* for every configuration, whatever the interface had and whatever flags  *)
(* another program changes.                                                *)
THEOREM ConfiguredIsAlwaysSetOnBigEndian == Spec => []ConfiguredIsSetOnBigEndian
  <1>1. AppliedInv => ConfiguredIsSetOnBigEndian
    BY DEF AppliedInv, ConfiguredIsSetOnBigEndian, ConfiguredIsSet
  <1> QED BY <1>1, InvHolds, PTL

(* net_if_get_config reads the number that net_if_set_ip was given, for    *)
(* every address and either byte order.                                    *)
THEOREM ReadBackAlwaysAgrees == Spec => []ReadBackAgrees
  <1>1. ShapeInv /\ AddressInv => ReadBackAgrees
    BY InMemoryTwice DEF ShapeInv, AddressInv, ReadBackAgrees
  <1> QED BY <1>1, InvHolds, PTL

(* net_if_set_up and net_if_set_down change no flag but UP, unless another *)
(* program changed flags between their two ioctls.                         *)
THEOREM OtherFlagsAreAlwaysKept == Spec => OtherFlagsKept
  <1> DEFINE Kept == link'.flags # link.flags /\ ~raced /\ ~raced' =>
                       link'.flags \ {"UP"} = link.flags \ {"UP"}
  <1>1. ShapeInv /\ FlagsInv /\ [Next]_vars => [Kept]_vars
    <2> SUFFICES ASSUME ShapeInv, FlagsInv, [Next]_vars, ~raced, ~raced', link'.flags # link.flags
                 PROVE  link'.flags \ {"UP"} = link.flags \ {"UP"}
      OBVIOUS
    <2> QED BY LinkSteps DEF FlagsInv, interface
  <1> QED BY <1>1, InvHolds, PTL DEF Spec, OtherFlagsKept

(* The test of an address and the string conversions are right for every   *)
(* four numbers, octets or not, on hosts of either byte order.             *)
THEOREM IsValidIsAlwaysDotted == Spec => []IsValidIsDotted
  <1>1. ASSUME NEW is_little \in BOOLEAN, NEW q \in Octet \X Octet \X Octet \X Octet
        PROVE  /\ net_ip_is_valid(is_little, net_ip_from_string(is_little, q))
                    <=> q \in Address /\ q[1] \in 1..239
               /\ net_ip_to_string(is_little, net_ip_from_string(is_little, q), TRUE)
                    = IF q \in Address THEN q ELSE ZeroAddress
    <2> DEFINE a == IF q \in Address THEN q ELSE ZeroAddress
    <2>1. a \in Address /\ a[1] \in 0..255 /\ (q \notin Address => a[1] = 0)
      BY DEF Address, Byte, ZeroAddress
    <2>2. InMemory(is_little, ZeroAddress) = ZeroAddress
      BY DEF InMemory, ZeroAddress
    <2>3. net_ip_from_string(is_little, q) = InMemory(is_little, a)
      BY <2>2 DEF net_ip_from_string
    <2>4. q \in Address => a = q
      OBVIOUS
    <2>5. ZeroAddress[1] = 0 /\ <<255, 255, 255, 255>>[1] = 255
      BY DEF ZeroAddress
    <2>6. InMemory(is_little, InMemory(is_little, a)) = a
      BY <2>1, InMemoryTwice
    <2>7. net_ip_to_string(is_little, net_ip_from_string(is_little, q), TRUE) = a
      BY <2>3, <2>6 DEF net_ip_to_string
    <2>8. net_ip_is_valid(is_little, net_ip_from_string(is_little, q)) <=>
            a \notin {ZeroAddress, <<255, 255, 255, 255>>} /\ a[1] # 0 /\ a[1] < 240
      BY <2>3, <2>6 DEF net_ip_is_valid
    <2>9. (a \notin {ZeroAddress, <<255, 255, 255, 255>>} /\ a[1] # 0 /\ a[1] < 240)
            <=> q \in Address /\ q[1] \in 1..239
      <3> HIDE DEF a
      <3> QED BY <2>1, <2>4, <2>5
    <2> QED BY <2>7, <2>8, <2>9
  <1>2. ShapeInv => IsValidIsDotted
    BY <1>1 DEF ShapeInv, IsValidIsDotted, JudgedRight
  <1> QED BY <1>2, InvHolds, PTL

----------------------------------------------------------------------------
(* TCP tuning.  One write, from r to s, changes one file, and fails if it  *)
(* is not open.                                                            *)
Written(s, r, f, v, open) ==
    /\ s.proc \in [File -> Int] /\ s.ret \in {0, -1}
    /\ s.ret = 0 <=> r.ret = 0 /\ f \in open
    /\ \A g \in File : s.proc[g] = IF g = f /\ f \in open /\ Accepts(f, v) THEN v ELSE r.proc[g]

LEMMA WriteIs ==
    ASSUME NEW r, r.proc \in [File -> Int], r.ret \in {0, -1}, NEW f \in File, NEW v \in Int,
           NEW open \in SUBSET File
    PROVE  Written(proc_write(r, f, v, open), r, f, v, open)
  BY DEF Written, proc_write, Or

(* One read, from r to s, sets one field of the tuning.                    *)
There(p, f) == IF f \in SwitchFile /\ p[f] # 0 THEN 1 ELSE p[f]

WasRead(s, r, f, p, open) ==
    /\ s.tuning \in [File -> Int] /\ s.ret \in {0, -1}
    /\ s.ret = 0 <=> r.ret = 0 /\ f \in open
    /\ \A g \in File : s.tuning[g] = IF g = f /\ f \in open THEN There(p, f) ELSE r.tuning[g]

LEMMA ReadIs ==
    ASSUME NEW r, r.tuning \in [File -> Int], r.ret \in {0, -1}, NEW f \in File,
           NEW p \in [File -> Int], NEW open \in SUBSET File
    PROVE  WasRead(proc_read(r, f, p, open), r, f, p, open)
  BY DEF WasRead, There, proc_read, Or, ReadSwitch

(* Five of them in a row.                                                  *)
LEMMA WriteAllIs ==
    ASSUME NEW p \in [File -> Int], NEW t \in [File -> Int], NEW open \in SUBSET File
    PROVE  LET r == WriteAll(p, open, t)
           IN  /\ r.proc \in [File -> Int]
               /\ r.ret = 0 <=> open = File
               /\ \A f \in File : r.proc[f] = IF f \in open /\ Accepts(f, t[f]) THEN t[f] ELSE p[f]
  <1> DEFINE s0 == [proc |-> p, ret |-> 0]
             s1 == proc_write(s0, "tcp_timestamps", t["tcp_timestamps"], open)
             s2 == proc_write(s1, "tcp_window_scaling", t["tcp_window_scaling"], open)
             s3 == proc_write(s2, "tcp_sack", t["tcp_sack"], open)
             s4 == proc_write(s3, "tcp_rmem", t["tcp_rmem"], open)
             s5 == proc_write(s4, "tcp_wmem", t["tcp_wmem"], open)
  <1>0. /\ File = {"tcp_timestamps", "tcp_window_scaling", "tcp_sack", "tcp_rmem", "tcp_wmem"}
        /\ \A f \in File : t[f] \in Int
    BY DEF File, SwitchFile
  <1>1. Written(s1, s0, "tcp_timestamps", t["tcp_timestamps"], open)
    BY <1>0, WriteIs
  <1>2. Written(s2, s1, "tcp_window_scaling", t["tcp_window_scaling"], open)
    <2> HIDE DEF s1
    <2> QED BY <1>0, <1>1, WriteIs DEF Written
  <1>3. Written(s3, s2, "tcp_sack", t["tcp_sack"], open)
    <2> HIDE DEF s2
    <2> QED BY <1>0, <1>2, WriteIs DEF Written
  <1>4. Written(s4, s3, "tcp_rmem", t["tcp_rmem"], open)
    <2> HIDE DEF s3
    <2> QED BY <1>0, <1>3, WriteIs DEF Written
  <1>5. Written(s5, s4, "tcp_wmem", t["tcp_wmem"], open)
    <2> HIDE DEF s4
    <2> QED BY <1>0, <1>4, WriteIs DEF Written
  <1>6. WriteAll(p, open, t) = s5
    BY DEF WriteAll
  <1>7. s0.proc = p /\ s0.ret = 0
    OBVIOUS
  <1> HIDE DEF s0, s1, s2, s3, s4, s5
  <1>8. s5.ret = 0 <=> open = File
    BY <1>0, <1>1, <1>2, <1>3, <1>4, <1>5, <1>7 DEF Written
  <1>9. ASSUME NEW f \in File
        PROVE  s5.proc[f] = IF f \in open /\ Accepts(f, t[f]) THEN t[f] ELSE p[f]
    BY <1>0, <1>1, <1>2, <1>3, <1>4, <1>5, <1>7 DEF Written
  <1> QED BY <1>5, <1>6, <1>8, <1>9 DEF Written

LEMMA ReadAllIs ==
    ASSUME NEW p \in [File -> Int], NEW open \in SUBSET File
    PROVE  LET r == ReadAll(p, open)
           IN  /\ r.tuning \in [File -> Int]
               /\ r.ret = 0 <=> open = File
               /\ \A f \in open : r.tuning[f] = IF f \in SwitchFile /\ p[f] # 0 THEN 1 ELSE p[f]
  <1> DEFINE s0 == [tuning |-> [f \in File |-> 0], ret |-> 0]
             s1 == proc_read(s0, "tcp_timestamps", p, open)
             s2 == proc_read(s1, "tcp_window_scaling", p, open)
             s3 == proc_read(s2, "tcp_sack", p, open)
             s4 == proc_read(s3, "tcp_rmem", p, open)
             s5 == proc_read(s4, "tcp_wmem", p, open)
  <1>0. File = {"tcp_timestamps", "tcp_window_scaling", "tcp_sack", "tcp_rmem", "tcp_wmem"}
    BY DEF File, SwitchFile
  <1>1. WasRead(s1, s0, "tcp_timestamps", p, open)
    BY <1>0, ReadIs
  <1>2. WasRead(s2, s1, "tcp_window_scaling", p, open)
    <2> HIDE DEF s1
    <2> QED BY <1>0, <1>1, ReadIs DEF WasRead
  <1>3. WasRead(s3, s2, "tcp_sack", p, open)
    <2> HIDE DEF s2
    <2> QED BY <1>0, <1>2, ReadIs DEF WasRead
  <1>4. WasRead(s4, s3, "tcp_rmem", p, open)
    <2> HIDE DEF s3
    <2> QED BY <1>0, <1>3, ReadIs DEF WasRead
  <1>5. WasRead(s5, s4, "tcp_wmem", p, open)
    <2> HIDE DEF s4
    <2> QED BY <1>0, <1>4, ReadIs DEF WasRead
  <1>6. ReadAll(p, open) = s5
    BY DEF ReadAll
  <1>7. s0.ret = 0
    OBVIOUS
  <1> HIDE DEF s0, s1, s2, s3, s4, s5
  <1>8. s5.ret = 0 <=> open = File
    BY <1>0, <1>1, <1>2, <1>3, <1>4, <1>5, <1>7 DEF WasRead
  <1>9. ASSUME NEW f \in open
        PROVE  s5.tuning[f] = There(p, f)
    BY <1>0, <1>1, <1>2, <1>3, <1>4, <1>5 DEF WasRead
  <1> QED BY <1>5, <1>6, <1>8, <1>9 DEF WasRead, There

(* TuningIsReal, with what its steps need: the kernel's values are numbers *)
(* and the tunings are functions on the files, of switches that are 0 or 1 *)
(* if applied.                                                             *)
TuningInv ==
    /\ proc \in [File -> Int]
    /\ applied.is => /\ applied.of \in [File -> Int]
                     /\ \A f \in SwitchFile : applied.of[f] \in {0, 1}
                     /\ \A f \in File : Accepts(f, applied.of[f]) => proc[f] = applied.of[f]
    /\ current.is => current.of \in [File -> Int] /\ \A f \in File : current.of[f] = There(proc, f)

LEMMA NumbersOnly ==
    /\ \A p \in Kernel : p \in [File -> Int]
    /\ \A t \in tcp_tuning_config_t : t \in [File -> Int] /\ \A f \in SwitchFile : t[f] \in {0, 1}
  <1>1. 0..2 \cup Mem \subseteq Int /\ {0, 1} \cup Mem \subseteq Int
    BY MemAssumption
  <1>2. \A S : S \subseteq Int => \A g \in [File -> S] : g \in [File -> Int]
    OBVIOUS
  <1>3. \A f \in SwitchFile : f \in File
    BY DEF File
  <1>4. ASSUME NEW t \in tcp_tuning_config_t, NEW f \in SwitchFile
        PROVE  t[f] \in {0, 1}
    BY <1>3, Zenon DEF tcp_tuning_config_t
  <1>5. /\ \A p \in Kernel : p \in [File -> 0..2 \cup Mem]
        /\ \A t \in tcp_tuning_config_t : t \in [File -> {0, 1} \cup Mem]
    BY Zenon DEF Kernel, tcp_tuning_config_t
  <1> QED BY <1>1, <1>2, <1>4, <1>5

LEMMA TuningSteps ==
    ASSUME TuningInv, TuningNext
    PROVE  TuningInv'
  <1>1. ASSUME NEW open \in SUBSET File, NEW t \in tcp_tuning_config_t, net_tcp_tuning_apply(open, t)
        PROVE  TuningInv'
    <2> DEFINE r == WriteAll(proc, open, t)
    <2>1. t \in [File -> Int] /\ \A f \in SwitchFile : t[f] \in {0, 1}
      BY NumbersOnly
    <2>2. /\ r.proc \in [File -> Int]
          /\ r.ret = 0 <=> open = File
          /\ \A f \in File : r.proc[f] = IF f \in open /\ Accepts(f, t[f]) THEN t[f] ELSE proc[f]
      BY <2>1, WriteAllIs DEF TuningInv
    <2>3. proc' = r.proc /\ applied' = Reported(r.ret, t) /\ current' = Unknown
      BY <1>1 DEF net_tcp_tuning_apply
    <2> HIDE DEF r
    <2>4. applied'.is => open = File /\ applied'.of = t
      BY <2>2, <2>3 DEF Reported, Known, Unknown
    <2>5. ~current'.is
      BY <2>3 DEF Unknown
    <2> QED BY <2>1, <2>2, <2>3, <2>4, <2>5 DEF TuningInv
  <1>2. ASSUME NEW open \in SUBSET File, net_tcp_tuning_read_current(open)
        PROVE  TuningInv'
    <2> DEFINE r == ReadAll(proc, open)
    <2>1. /\ r.tuning \in [File -> Int]
          /\ r.ret = 0 <=> open = File
          /\ \A f \in open : r.tuning[f] = There(proc, f)
      BY ReadAllIs DEF TuningInv, There
    <2>2. UNCHANGED <<proc, applied>> /\ current' = Reported(r.ret, r.tuning)
      BY <1>2 DEF net_tcp_tuning_read_current
    <2> HIDE DEF r
    <2>3. current'.is => open = File /\ current'.of = r.tuning
      BY <2>1, <2>2 DEF Reported, Known, Unknown
    <2> QED BY <2>1, <2>2, <2>3 DEF TuningInv, There
  <1>3. ASSUME NEW f \in SwitchFile, NEW v \in 0..2, OtherTunes(f, v)
        PROVE  TuningInv'
    <2>1. proc' \in [File -> Int]
      BY <1>3, v \in Int DEF OtherTunes, TuningInv, File
    <2>2. ~applied'.is /\ ~current'.is
      BY <1>3 DEF OtherTunes, Unknown
    <2> QED BY <2>1, <2>2 DEF TuningInv
  <1> QED BY <1>1, <1>2, <1>3 DEF TuningNext

(* For all values of the memory triples and every order of calls, failing  *)
(* files and writes by other programs: a tuning reported as applied is in  *)
(* the kernel if the kernel accepts it, and one reported as read is what   *)
(* the kernel has.                                                         *)
THEOREM TuningIsAlwaysReal == Spec => []TuningIsReal
  <1>1. Init => TuningInv
    BY NumbersOnly DEF Init, TuningInit, TuningInv, Unknown
  <1>2. TuningInv /\ [Next]_vars => TuningInv'
    <2> SUFFICES ASSUME TuningInv, [Next]_vars
                 PROVE  TuningInv'
      OBVIOUS
    <2>1. CASE TuningNext
      BY <2>1, TuningSteps
    <2>2. CASE UNCHANGED tuning
      BY <2>2 DEF tuning, TuningInv, There
    <2> QED BY <2>1, <2>2 DEF Next, vars
  <1>3. TuningInv => TuningIsReal
    <2> SUFFICES ASSUME TuningInv
                 PROVE  TuningIsReal
      OBVIOUS
    <2>1. ASSUME applied.is, \A f \in File : Accepts(f, applied.of[f])
          PROVE  proc = applied.of
      BY <2>1 DEF TuningInv
    <2>2. ASSUME applied.is, \A f \in File : Accepts(f, applied.of[f]), current.is
          PROVE  current.of = applied.of
      <3>1. \A f \in File : current.of[f] = applied.of[f]
        BY <2>1, <2>2 DEF TuningInv, There
      <3> QED BY <3>1, <2>2 DEF TuningInv
    <2> QED BY <2>1, <2>2 DEF TuningInv, TuningIsReal, There
  <1> QED BY <1>1, <1>2, <1>3, PTL DEF Spec
=============================================================================
