--------------------------- MODULE NetworkConfig ---------------------------
(***************************************************************************)
(* src/net/network_config.c and apply_network of main.c on a Linux host:   *)
(* the address, the mask and the flags of one interface, set one ioctl     *)
(* after the other from a configuration, while other programs change       *)
(* flags.  A uint32_t is its four bytes, the most significant first, as in *)
(* AppConfig; what the kernel sees is the bytes in the order of memory.    *)
(***************************************************************************)
EXTENDS Integers, TcpTuning

CONSTANTS
    Config,          \* configurations [ip, mask] that passed app_config_validate
    Octet,           \* numbers that dotted texts are made from in IsValidIsDotted
    LittleEndian,    \* byte orders of the hosts: is it little-endian?
    MayFail          \* may an ioctl fail for want of privileges or a device?

Byte == 0..255
Address == Byte \X Byte \X Byte \X Byte
ZeroAddress == <<0, 0, 0, 0>>

ASSUME ConfigAssumption == Config # {} /\ \A c \in Config : c.ip \in Address /\ c.mask \in Address
ASSUME OctetAssumption  == Octet \subseteq Nat
ASSUME HostAssumption   == LittleEndian \subseteq BOOLEAN /\ MayFail \in BOOLEAN

(* The bytes of a uint32_t in the memory of a host, which is also the      *)
(* number that has these bytes in memory, and what htonl and ntohl return. *)
InMemory(is_little, n) == IF is_little THEN <<n[4], n[3], n[2], n[1]>> ELSE n

----------------------------------------------------------------------------
(* The kernel.  External.                                                  *)
MaskByte(k) == 256 - 2^(8 - k)
Mask(n) ==
    [i \in 1..4 |-> MaskByte(IF n >= 8 * i THEN 8 ELSE IF n <= 8 * (i - 1) THEN 0 ELSE n - 8 * (i - 1))]
Contiguous(m) == \E n \in 0..32 : m = Mask(n)

IsMulticast(a) == a[1] \in 224..239
ClassMask(a) == Mask(CASE a[1] = 0 -> 0 [] a[1] \in 1..127 -> 8 [] a[1] \in 128..191 -> 16
                       [] a[1] \in 192..223 -> 24 [] OTHER -> 32)

(* SIOCSIFADDR: a new address gets the mask of its class.                  *)
WithAddress(l, a) ==
    IF a = l.addr THEN l
    ELSE [l EXCEPT !.addr = a, !.mask = IF a = ZeroAddress THEN ZeroAddress ELSE ClassMask(a)]

RefusesMask(l, m) == l.addr = ZeroAddress \/ ~Contiguous(m)

----------------------------------------------------------------------------
VARIABLES
    little,      \* is the host little-endian?
    link,        \* the interface: addr, mask, flags
    cfg,         \* the configuration that apply_network works from
    pc,
    ifr_flags,   \* flags read by SIOCGIFFLAGS
    ret,         \* what the last call returned: apply, down, get or failed
    got,         \* what net_if_get_config last read: config.configured and ip_addr
    given,       \* the number last given to net_if_set_ip, if it succeeded
    raced        \* were the flags changed by another program since they were read?

interface == <<little, link, cfg, pc, ifr_flags, ret, got, given, raced>>
vars == <<interface, tuning>>

Flag == {"UP", "PROMISC"}
None == [is |-> FALSE, ip |-> ZeroAddress]

TypeOK ==
    /\ little \in LittleEndian
    /\ link.addr \in Address /\ link.mask \in Address /\ link.flags \subseteq Flag
    /\ cfg \in Config
    /\ pc \in {"idle", "ip", "mask", "up", "up write", "down", "down write"}
    /\ ifr_flags \subseteq Flag
    /\ ret \in {"none", "apply", "down", "failed"}
    /\ got.is \in BOOLEAN /\ got.ip \in Address
    /\ given.is \in BOOLEAN /\ given.ip \in Address
    /\ raced \in BOOLEAN
    /\ TuningTypeOK

Init ==
    /\ little \in LittleEndian
    /\ \E a \in {ZeroAddress} \cup {c.ip : c \in Config}, f \in SUBSET Flag :
          link = [addr |-> a, mask |-> IF a = ZeroAddress THEN a ELSE Mask(24), flags |-> f]
    /\ cfg \in Config
    /\ pc = "idle"
    /\ ifr_flags = {}
    /\ ret = "none"
    /\ got = None
    /\ given = None
    /\ raced = FALSE
    /\ TuningInit

Goto(from, to) == pc = from /\ pc' = to

Fails(from, refused) == (MayFail \/ refused) /\ Goto(from, "idle") /\ ret' = "failed"

(* apply_network of main.c, called with a configuration.                   *)
apply_network(c) ==
    /\ Goto("idle", "ip")
    /\ cfg' = c
    /\ UNCHANGED <<little, link, ifr_flags, ret, got, given, raced>>

net_if_set_ip ==
    /\ LET a == InMemory(little, cfg.ip) IN
       \/ /\ ~IsMulticast(a)
          /\ Goto("ip", "mask")
          /\ link' = WithAddress(link, a)
          /\ given' = [is |-> TRUE, ip |-> cfg.ip] /\ got' = None
          /\ UNCHANGED ret
       \/ Fails("ip", IsMulticast(a)) /\ UNCHANGED <<link, given, got>>
    /\ UNCHANGED <<little, cfg, ifr_flags, raced>>

(* Mutant: the mask is set before the address, which brings its own.       *)
net_if_set_netmask_First ==
    /\ Goto("mask", "up")
    /\ link' = WithAddress([link EXCEPT !.addr = ZeroAddress, !.mask = InMemory(little, cfg.mask)], link.addr)
    /\ UNCHANGED <<little, cfg, ifr_flags, ret, got, given, raced>>

net_if_set_netmask ==
    /\ LET m == InMemory(little, cfg.mask) IN
       \/ /\ ~RefusesMask(link, m)
          /\ Goto("mask", "up")
          /\ link' = [link EXCEPT !.mask = m]
          /\ UNCHANGED ret
       \/ Fails("mask", RefusesMask(link, m)) /\ UNCHANGED link
    /\ UNCHANGED <<little, cfg, ifr_flags, got, given, raced>>

(* SIOCGIFFLAGS of net_if_set_up and net_if_set_down.                      *)
ReadFlags(from, to) ==
    /\ \/ /\ Goto(from, to)
          /\ ifr_flags' = link.flags
          /\ raced' = FALSE
          /\ UNCHANGED ret
       \/ Fails(from, FALSE) /\ UNCHANGED <<ifr_flags, raced>>
    /\ UNCHANGED <<little, link, cfg, got, given>>

WriteFlags(from, flags, what) ==
    /\ \/ Goto(from, "idle") /\ link' = [link EXCEPT !.flags = flags] /\ ret' = what
       \/ Fails(from, FALSE) /\ UNCHANGED link
    /\ UNCHANGED <<little, cfg, ifr_flags, got, given, raced>>

(* Mutant: the flags are written without having been read.                 *)
net_if_set_up_Blind == ReadFlags("up", "up write") \/ WriteFlags("up write", {"UP"}, "apply")

net_if_set_up ==
    ReadFlags("up", "up write") \/ WriteFlags("up write", ifr_flags \cup {"UP"}, "apply")

(* Called by a client of the library; the manager never does.              *)
net_if_set_down ==
    \/ pc = "idle" /\ pc' = "down" /\ UNCHANGED <<little, link, cfg, ifr_flags, ret, got, given, raced>>
    \/ ReadFlags("down", "down write")
    \/ WriteFlags("down write", ifr_flags \ {"UP"}, "down")

(* Mutant: the address is converted to host byte order.                    *)
net_if_get_ip_Host == InMemory(little, InMemory(little, link.addr))

net_if_get_ip == InMemory(little, link.addr)

(* Both queries are made, and either may fail; an interface without an     *)
(* address has none to give.                                               *)
net_if_get_config ==
    /\ pc = "idle" /\ UNCHANGED pc
    /\ \E ip_ok, mac_ok \in BOOLEAN :
          /\ ip_ok => link.addr # ZeroAddress
          /\ ~MayFail => mac_ok /\ (ip_ok \/ link.addr = ZeroAddress)
          /\ got' = [is |-> ip_ok /\ mac_ok, ip |-> IF ip_ok THEN net_if_get_ip ELSE ZeroAddress]
    /\ UNCHANGED <<little, link, cfg, ifr_flags, ret, given, raced>>

(* Another program, such as a packet sniffer, changes a flag of its own.   *)
OtherChangesFlags ==
    /\ link' = [link EXCEPT !.flags = IF "PROMISC" \in @ THEN @ \ {"PROMISC"} ELSE @ \cup {"PROMISC"}]
    /\ raced' = TRUE
    /\ UNCHANGED <<little, cfg, pc, ifr_flags, ret, got, given>>

InterfaceNext ==
    \/ \E c \in Config : apply_network(c)
    \/ net_if_set_ip \/ net_if_set_netmask \/ net_if_set_up \/ net_if_set_down
    \/ net_if_get_config
    \/ OtherChangesFlags

(* The functions for the interface and for the tuning are called one after *)
(* the other, in any order.                                                *)
Next ==
    \/ InterfaceNext /\ UNCHANGED tuning
    \/ pc = "idle" /\ TuningNext /\ UNCHANGED interface

Spec == Init /\ [][Next]_vars

----------------------------------------------------------------------------
(* inet_pton of numbers with dots between them, inet_ntop, and the test of *)
(* an address, on a host of the given byte order.  What is no address gives *)
(* 0, and a buffer without room for the text gets "0.0.0.0".               *)
net_ip_from_string(is_little, q) == IF q \in Address THEN InMemory(is_little, q) ELSE ZeroAddress
net_ip_to_string(is_little, n, room) == IF room THEN InMemory(is_little, n) ELSE ZeroAddress

(* Mutant: the number is tested as it is.                                  *)
net_ip_is_valid_NoNtohl(is_little, n) ==
    n \notin {ZeroAddress, <<255, 255, 255, 255>>} /\ n[1] # 0 /\ n[1] < 240

net_ip_is_valid(is_little, n) ==
    LET host_ip == InMemory(is_little, n)
    IN  host_ip \notin {ZeroAddress, <<255, 255, 255, 255>>} /\ host_ip[1] # 0 /\ host_ip[1] < 240

----------------------------------------------------------------------------
(* Properties.                                                             *)

(* What the configuration says, first octet first, is what the interface   *)
(* has: its address once net_if_set_ip returned, and all of it once        *)
(* apply_network did, whatever the interface had before.  On a             *)
(* little-endian host it is violated: app_config.c does not give the       *)
(* number the byte order that net_if_set_ip expects.                       *)
ConfiguredIsSet ==
    /\ pc \in {"mask", "up", "up write"} => link.addr = cfg.ip
    /\ ret = "apply" /\ pc = "idle" =>
          link.addr = cfg.ip /\ link.mask = cfg.mask /\ "UP" \in link.flags

(* On a big-endian host it is, in spite of the mask that comes with a new  *)
(* address, of an address and flags from before, of failed attempts and of *)
(* another program that changes flags.                                     *)
ConfiguredIsSetOnBigEndian == ~little => ConfiguredIsSet

(* net_if_get_config reads the number that net_if_set_ip was given, on     *)
(* hosts of either byte order.                                             *)
ReadBackAgrees == got.is /\ given.is => got.ip = given.ip

(* Bringing the interface up or down keeps its other flags, unless another *)
(* program changes them between the two ioctls.                            *)
OtherFlagsKept ==
    [][link'.flags # link.flags /\ ~raced /\ ~raced' =>
          link'.flags \ {"UP"} = link.flags \ {"UP"}]_vars

(* The byte orders on which the test of an address and the two conversions *)
(* are right for every text q of four numbers, octets or not.              *)
JudgedRight ==
    { is_little \in BOOLEAN : \A q \in Octet \X Octet \X Octet \X Octet :
        LET n == net_ip_from_string(is_little, q)
        IN  /\ net_ip_is_valid(is_little, n) <=> q \in Address /\ q[1] \in 1..239
            /\ net_ip_to_string(is_little, n, TRUE) = IF q \in Address THEN q ELSE ZeroAddress }

(* net_ip_is_valid judges the dotted address, whatever the byte order of   *)
(* the host, and never lets a malformed one pass; the string conversions   *)
(* are inverse to each other on addresses.                                 *)
IsValidIsDotted == little \in JudgedRight
=============================================================================
