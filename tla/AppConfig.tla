----------------------------- MODULE AppConfig -----------------------------
(***************************************************************************)
(* src/config/app_config.c: a configuration that is loaded line by line    *)
(* from a file, edited by its owner, and saved to the file again.  The     *)
(* administrator edits the file at any time; the process may be killed     *)
(* while it saves, after fopen has emptied the file, or what it writes may *)
(* not reach the file, which app_config_save does not look at.  A uint32_t *)
(* address is its four bytes, the most significant first.                  *)
(***************************************************************************)
EXTENDS Integers, Sequences

CONSTANTS
    Line,            \* lines that the administrator writes
    EditKey, EditText, \* strings that the owner of a configuration writes itself
    Words,           \* words that a text may begin with, "number" and "quad" for the two formats
    Cut, Strip,      \* words too long for their field, and words with outer blanks
    U16, U32,        \* moduli of uint16_t and uint32_t
    MaxLines,        \* bound: lines of a file written by the administrator
    Kept             \* bound: how many lines of a save may be left on a full disk

ASSUME WidthAssumption == U16 \in Nat \ {0, 1} /\ U32 \in Nat /\ U32 > 255
ASSUME WordAssumption  == \A w \in DOMAIN Cut : Cut[w] \in Words \ DOMAIN Cut
ASSUME StripAssumption == \A w \in DOMAIN Strip : Strip[w] \in Words \ DOMAIN Strip

(* What app_config.c writes itself fits its field and has no outer blanks. *)
Token == {"number", "quad", "true", "false", "default", ""}
ASSUME TokenAssumption == Token \subseteq Words \ (DOMAIN Cut \cup DOMAIN Strip)

(* The keys of apply_kv, in the order in which app_config_save writes them. *)
Keys == << "product_name", "station_name", "interface", "ip_addr", "netmask", "gateway",
           "vendor_id", "device_id", "tick_us", "send_hello", "file_directory", "log_level",
           "log_file", "security_enabled", "realtime_enabled", "rt_priority",
           "rt_scheduling", "lock_memory", "isolate_cpu" >>

ASSUME KeptAssumption == Kept \subseteq 0..Len(Keys) - 1

StringKey == {"product_name", "station_name", "interface", "file_directory", "log_file"}
AddrKey   == {"ip_addr", "netmask", "gateway"}
NumberKey == {"vendor_id", "device_id", "tick_us", "log_level", "rt_priority", "isolate_cpu"}
FlagKey   == {"send_hello", "security_enabled", "realtime_enabled", "rt_scheduling", "lock_memory"}

----------------------------------------------------------------------------
(* A text is a word, a number or numbers with dots between them, of which  *)
(* an address has four; tail says that something more follows it on its    *)
(* line, as a comment does.                                                *)
Text == [word : Words, num : Int, quad : Seq(Int), tail : BOOLEAN]

Word(w)   == [word |-> w, num |-> 0, quad |-> <<>>, tail |-> FALSE]
Number(n) == [word |-> "number", num |-> n, quad |-> <<>>, tail |-> FALSE]
Quad(q)   == [word |-> "quad", num |-> 0, quad |-> q, tail |-> FALSE]
Empty     == Word("")

ASSUME LineAssumption == /\ \A l \in Line : l.text \in Text
                         /\ EditText \subseteq Text
ASSUME EditAssumption == EditKey \subseteq StringKey \ {"interface"}

(* strncpy to a field: a long word leaves no room for what follows it.     *)
strncpy(t) == IF t.word \in DOMAIN Cut THEN Word(Cut[t.word]) ELSE t

strip(t) == IF t.word \in DOMAIN Strip /\ ~t.tail THEN Word(Strip[t.word]) ELSE t

(* atoi and strtoul stop at the first character that is not a digit.       *)
ParseNumber(t) == CASE t.word = "number" -> t.num
                    [] t.word = "quad" /\ t.quad # <<>> -> t.quad[1]
                    [] OTHER -> 0

ParseFlag(t) == t \in {Word("true"), Number(1)}

Byte == 0..255
Address == Byte \X Byte \X Byte \X Byte
ZeroAddress == <<0, 0, 0, 0>>

(* sscanf("%u.%u.%u.%u"): four numbers are needed, each is taken to the    *)
(* width of an unsigned, and what follows the fourth is not looked at.     *)
Scanned(q) == <<q[1] % U32, q[2] % U32, q[3] % U32, q[4] % U32>>
parse_ip(t) ==
    IF t.word = "quad" /\ Len(t.quad) >= 4 /\ Scanned(t.quad) \in Address
      THEN Scanned(t.quad) ELSE ZeroAddress

(* Mutant: the value is stored without a cast to the width of its field.   *)
Stored_Wide(k, n) == n

(* The number as its field holds it.                                       *)
Stored(k, n) == CASE k \in {"vendor_id", "device_id"} -> n % U16
                  [] k = "tick_us" -> n % U32
                  [] OTHER -> n

----------------------------------------------------------------------------
(* app_config_t.  unkeyed stands for the settings that no key names: the   *)
(* TCP tuning, the firewall policy, disable_cpu_freq, disable_irq_balance. *)
InWidth(k) == CASE k \in {"vendor_id", "device_id"} -> 0..U16 - 1
                [] k = "tick_us" -> 0..U32 - 1
                [] OTHER -> Int

IsConfig(c) ==
    /\ \A k \in StringKey : c.string[k] \in Text
    /\ \A k \in AddrKey : c.addr[k] \in Address
    /\ \A k \in NumberKey : c.number[k] \in InWidth(k)
    /\ \A k \in FlagKey : c.flag[k] \in BOOLEAN
    /\ c.if_name \in Text
    /\ \A k \in AddrKey : c.net[k] \in Address
    /\ c.unkeyed \in {"default", "edited"}

DefaultAddr ==
    [ip_addr |-> <<192, 168, 0, 100>>, netmask |-> <<255, 255, 255, 0>>, gateway |-> <<192, 168, 0, 1>>]

app_config_default ==
    [ string  |-> [k \in StringKey |-> Word("default")],
      addr    |-> DefaultAddr,
      number  |-> [ vendor_id |-> 1, device_id |-> 1, tick_us |-> 1000 % U32, log_level |-> 2,
                    rt_priority |-> 80, isolate_cpu |-> -1 ],
      flag    |-> [k \in FlagKey |-> TRUE],
      if_name |-> Word("default"),     \* network.if_name
      net     |-> DefaultAddr,         \* network.ip_addr, netmask and gateway
      unkeyed |-> "default" ]

(* Mutant: the copy in the network settings is forgotten.                  *)
apply_kv_DeviceOnly(c, key, val) ==
    CASE key \in StringKey -> [c EXCEPT !.string[key] = strncpy(val)]
      [] key \in AddrKey   -> [c EXCEPT !.addr[key] = parse_ip(val)]
      [] key \in NumberKey -> [c EXCEPT !.number[key] = Stored(key, ParseNumber(val))]
      [] key \in FlagKey   -> [c EXCEPT !.flag[key] = ParseFlag(val)]
      [] OTHER -> c

apply_kv(c, key, val) ==
    CASE key = "interface" -> [c EXCEPT !.string[key] = strncpy(val), !.if_name = strncpy(val)]
      [] key \in StringKey \ {"interface"} -> [c EXCEPT !.string[key] = strncpy(val)]
      [] key \in AddrKey   -> [c EXCEPT !.addr[key] = parse_ip(val), !.net[key] = parse_ip(val)]
      [] key \in NumberKey -> [c EXCEPT !.number[key] = Stored(key, ParseNumber(val))]
      [] key \in FlagKey   -> [c EXCEPT !.flag[key] = ParseFlag(val)]
      [] OTHER -> c

Reserved == {ZeroAddress, <<255, 255, 255, 255>>}

(* Mutant: the address is not looked at.                                   *)
app_config_validate_AnyAddress(c) ==
    /\ c.string["interface"] # Empty
    /\ c.number["tick_us"] # 0 /\ c.number["vendor_id"] # 0 /\ c.number["device_id"] # 0
    /\ c.number["log_level"] \in 0..3
    /\ c.flag["realtime_enabled"] => c.number["rt_priority"] \in 1..99

app_config_validate(c) ==
    /\ c.string["interface"] # Empty
    /\ c.addr["ip_addr"] \notin Reserved
    /\ c.number["tick_us"] # 0 /\ c.number["vendor_id"] # 0 /\ c.number["device_id"] # 0
    /\ c.number["log_level"] \in 0..3
    /\ c.flag["realtime_enabled"] => c.number["rt_priority"] \in 1..99

(* How app_config_save writes the value of a key.                          *)
Format(c, k) == CASE k \in StringKey -> c.string[k]
                  [] k \in AddrKey   -> Quad(c.addr[k])
                  [] k \in NumberKey -> Number(c.number[k])
                  [] k \in FlagKey   -> Word(IF c.flag[k] THEN "true" ELSE "false")

(* Mutant: the last key is not written.                                    *)
SavedLines_NoLast(c) ==
    [i \in 1..Len(Keys) - 1 |-> [key |-> Keys[i], text |-> Format(c, Keys[i])]]

SavedLines(c) == [i \in 1..Len(Keys) |-> [key |-> Keys[i], text |-> Format(c, Keys[i])]]

----------------------------------------------------------------------------
VARIABLES
    file,        \* the lines of the file
    present,     \* does the file exist?
    cfg,
    pc,          \* idle, load or save
    rest,        \* lines that app_config_load has still to read
    loaded,      \* the file that the last app_config_load read, if cfg is as it left it
    saved        \* the configuration that was saved last, if the file is as it was left

vars == <<file, present, cfg, pc, rest, loaded, saved>>

None == [is |-> FALSE]
Some(x) == [is |-> TRUE, of |-> x]

TypeOK ==
    /\ present \in BOOLEAN
    /\ IsConfig(cfg)
    /\ pc \in {"idle", "load", "save"}

Init ==
    /\ file = <<>>
    /\ present \in BOOLEAN
    /\ cfg = app_config_default
    /\ pc = "idle"
    /\ rest = <<>>
    /\ loaded = None
    /\ saved = None

(* The administrator adds a line or starts a new file.                     *)
AdminAdds(l) ==
    /\ pc # "save" /\ present /\ Len(file) < MaxLines
    /\ file' = Append(file, l)
    /\ saved' = None
    /\ UNCHANGED <<present, cfg, pc, rest, loaded>>

AdminReplaces ==
    /\ pc # "save"
    /\ file' = <<>>
    /\ present' \in BOOLEAN
    /\ saved' = None
    /\ UNCHANGED <<cfg, pc, rest, loaded>>

(* The owner of the configuration writes to its fields, as the tests do.   *)
EditString(k, t) ==
    /\ pc = "idle"
    /\ cfg' = [cfg EXCEPT !.string[k] = strncpy(t)]
    /\ loaded' = None
    /\ UNCHANGED <<file, present, pc, rest, saved>>

EditUnkeyed ==
    /\ pc = "idle"
    /\ cfg' = [cfg EXCEPT !.unkeyed = "edited"]
    /\ loaded' = None
    /\ UNCHANGED <<file, present, pc, rest, saved>>

(* A file that is not there leaves cfg alone; main then takes the defaults. *)
LoadFails ==
    /\ pc = "idle" /\ ~present
    /\ cfg' = app_config_default
    /\ loaded' = None
    /\ UNCHANGED <<file, present, pc, rest, saved>>

(* Mutant: a configuration that is loaded again keeps its old values.      *)
app_config_load_OverOld ==
    /\ pc = "idle" /\ present
    /\ pc' = "load"
    /\ rest' = file
    /\ loaded' = Some(file)
    /\ UNCHANGED <<file, present, cfg, saved>>

app_config_load ==
    /\ pc = "idle" /\ present
    /\ pc' = "load"
    /\ cfg' = app_config_default
    /\ rest' = file
    /\ loaded' = Some(file)
    /\ UNCHANGED <<file, present, saved>>

(* One line: without a key or a value it is passed over.                   *)
Takes(l) == l.key # "" /\ strip(l.text) # Empty

LoadLine ==
    /\ pc = "load" /\ rest # <<>>
    /\ cfg' = IF Takes(Head(rest)) THEN apply_kv(cfg, Head(rest).key, strip(Head(rest).text)) ELSE cfg
    /\ rest' = Tail(rest)
    /\ UNCHANGED <<file, present, pc, loaded, saved>>

LoadEnds ==
    /\ pc = "load" /\ rest = <<>>
    /\ pc' = "idle"
    /\ UNCHANGED <<file, present, cfg, rest, loaded, saved>>

(* fopen empties the file; the lines are buffered until fclose.            *)
app_config_save ==
    /\ pc = "idle"
    /\ pc' = "save"
    /\ file' = <<>> /\ present' = TRUE /\ saved' = None
    /\ UNCHANGED <<cfg, rest, loaded>>

(* The results of fprintf and fclose are ignored: on a full disk the file  *)
(* keeps the first lines only, and 0 is returned all the same.             *)
SaveEnds ==
    /\ pc = "save"
    /\ pc' = "idle"
    /\ \/ file' = SavedLines(cfg) /\ saved' = Some(cfg)
       \/ /\ \E n \in Kept : file' = SubSeq(SavedLines(cfg), 1, n)
          /\ UNCHANGED saved
    /\ UNCHANGED <<present, cfg, rest, loaded>>

(* The process is killed; the next one has not loaded anything yet.        *)
Crash ==
    /\ pc # "idle" /\ pc' = "idle"
    /\ cfg' = app_config_default /\ rest' = <<>> /\ loaded' = None
    /\ UNCHANGED <<file, present, saved>>

Next ==
    \/ \E l \in Line : AdminAdds(l)
    \/ \E k \in EditKey, t \in EditText : EditString(k, t)
    \/ AdminReplaces \/ EditUnkeyed
    \/ LoadFails \/ app_config_load \/ LoadLine \/ LoadEnds
    \/ app_config_save \/ SaveEnds
    \/ Crash

Spec == Init /\ [][Next]_vars

----------------------------------------------------------------------------
(* What app_config_validate checks is what main applies: it looks at the   *)
(* device settings only, and net_if_set_ip is called with the copies in    *)
(* the network settings.  They agree after every line, whatever the order  *)
(* of the lines, with repeated, malformed and overlong values.             *)
MirrorsAgree == cfg.if_name = cfg.string["interface"] /\ cfg.net = cfg.addr

AgreeOn(c, d, k) == CASE k \in StringKey -> c.string[k] = d.string[k]
                      [] k \in AddrKey   -> c.addr[k] = d.addr[k]
                      [] k \in NumberKey -> c.number[k] = d.number[k]
                      [] k \in FlagKey   -> c.flag[k] = d.flag[k]

Key == {Keys[i] : i \in DOMAIN Keys}

(* The last lines of f that give key k a value: none, or one.              *)
LastLine(f, k) ==
    {i \in DOMAIN f : /\ f[i].key = k /\ Takes(f[i])
                      /\ \A j \in i + 1..Len(f) : f[j].key = k => ~Takes(f[j])}

(* The values that the documented format has for a key.  A comment behind  *)
(* the value is left out where the code takes it for a part of the value:  *)
(* behind a string, and behind a flag, which is then loaded as off although *)
(* the example in the repository's README has one behind lock_memory.      *)
WellFormed(k, t) ==
    CASE k \in StringKey -> ~t.tail
      [] k \in AddrKey   -> t.word = "quad" /\ t.quad \in Address
      [] k \in NumberKey -> t.word = "number" /\ t.num \in InWidth(k)
      [] k \in FlagKey   -> t \in {Word("true"), Number(1), Word("false"), Number(0)}

(* The field of k holds what t says, a string up to the room it has.       *)
Holds(c, k, t) ==
    CASE k \in StringKey -> c.string[k] = strncpy(strip(t))
      [] k \in AddrKey   -> c.addr[k] = t.quad
      [] k \in NumberKey -> c.number[k] = t.num
      [] k \in FlagKey   -> c.flag[k] <=> t \in {Word("true"), Number(1)}

(* "Start from defaults so missing keys keep sane values": after a load    *)
(* every key holds what its last line says, if that is well formed, and    *)
(* the default without a line; the order of other lines, malformed lines   *)
(* of other keys, a previous load into the same configuration and a file   *)
(* that a failed save has left empty or cut off make no difference.        *)
LoadedIsLastLine ==
    pc = "idle" /\ loaded.is => \A k \in Key :
        LET l == LastLine(loaded.of, k)
        IN  /\ l = {} => AgreeOn(cfg, app_config_default, k)
            /\ \A i \in l : WellFormed(k, loaded.of[i].text) => Holds(cfg, k, loaded.of[i].text)

(* Validation reads one copy of the address and main applies the other: of *)
(* a configuration that app_config_validate accepts, the address that      *)
(* apply_network sets is not a reserved one, and it is made of the first   *)
(* four numbers of the file's last ip_addr line, each in the width of an   *)
(* unsigned: a line with fewer numbers, or with one that is no octet, is   *)
(* never accepted, nor an address from before the load.                    *)
AcceptedIsUsable ==
    pc = "idle" /\ app_config_validate(cfg) =>
        /\ cfg.net["ip_addr"] \notin Reserved
        /\ loaded.is => \A i \in LastLine(loaded.of, "ip_addr") :
              LET q == loaded.of[i].text.quad
              IN  Len(q) >= 4 /\ \A n \in 1..4 : cfg.net["ip_addr"][n] = q[n] % U32

(* A configuration whose lines all reached the file is loaded back, up to  *)
(* its strings that are empty or begin or end with blanks and the settings *)
(* that no key names.                                                      *)
Storable(c, k) == k \in StringKey => c.string[k] # Empty /\ strip(c.string[k]) = c.string[k]

SavedIsLoadedBack ==
    pc = "idle" /\ loaded.is /\ saved.is /\ loaded = Some(file) =>
        \A k \in Key : Storable(saved.of, k) => AgreeOn(cfg, saved.of, k)
=============================================================================
