-------------------------- MODULE AppConfigProofs --------------------------
(***************************************************************************)
(* Proofs about the application configuration, for every set of lines,     *)
(* files of every length, all widths of the numbers and any order of       *)
(* loads, saves, edits and crashes.                                        *)
(***************************************************************************)
EXTENDS AppConfig, TLAPS

(* The configurations as a set of records, and the lines of a file.        *)
ConfigRecord ==
    [ string : [StringKey -> Text], addr : [AddrKey -> Address], number : [NumberKey -> Int],
      flag : [FlagKey -> BOOLEAN], if_name : Text, net : [AddrKey -> Address],
      unkeyed : {"default", "edited"} ]

Fits(c) == \A k \in NumberKey : c.number[k] \in InWidth(k)

(* A configuration that the code may hold: its numbers and strings fit     *)
(* their fields, and the two copies of the network settings agree.         *)
Good(c) ==
    /\ c \in ConfigRecord
    /\ Fits(c)
    /\ \A k \in StringKey : c.string[k].word \notin DOMAIN Cut
    /\ c.if_name = c.string["interface"]
    /\ c.net = c.addr

AnyLine == Line \cup [key : Key, text : Text]

----------------------------------------------------------------------------
LEMMA WordIs == \A w \in Words : Word(w) \in Text /\ Word(w).word = w
  BY DEF Word, Text

(* An address is its own four numbers: sscanf takes it as it is written.   *)
LEMMA AddressIsScanned ==
    ASSUME NEW q \in Address
    PROVE  q \in Seq(Int) /\ Len(q) = 4 /\ Scanned(q) = q
  <1>1. PICK a \in Byte, b \in Byte, c \in Byte, d \in Byte : q = <<a, b, c, d>>
    BY DEF Address
  <1>2. \A n \in Byte : n \in Int /\ n % U32 = n
    BY WidthAssumption DEF Byte
  <1>3. q \in Seq(Int) /\ Len(q) = 4 /\ q[1] = a /\ q[2] = b /\ q[3] = c /\ q[4] = d
    BY <1>1, <1>2
  <1> QED BY <1>1, <1>2, <1>3 DEF Scanned

(* A line with an address gives that address.                              *)
LEMMA AddressIsParsed ==
    ASSUME NEW t, t.word = "quad", t.quad \in Address
    PROVE  parse_ip(t) = t.quad
  <1>1. Len(t.quad) = 4 /\ Scanned(t.quad) = t.quad
    BY AddressIsScanned
  <1>2. Len(t.quad) >= 4
    BY <1>1
  <1>3. Scanned(t.quad) \in Address
    BY <1>1
  <1> QED BY <1>1, <1>2, <1>3, Zenon DEF parse_ip

(* What the parsers return.                                                *)
LEMMA TextTypes ==
    ASSUME NEW t \in Text
    PROVE  /\ strncpy(t) \in Text /\ strip(t) \in Text
           /\ parse_ip(t) \in Address
           /\ ParseNumber(t) \in Int
           /\ ParseFlag(t) \in BOOLEAN
           /\ strncpy(t).word \notin DOMAIN Cut
  <1>2. strncpy(t) \in Text /\ strip(t) \in Text /\ strncpy(t).word \notin DOMAIN Cut
    BY WordIs, WordAssumption, StripAssumption DEF strncpy, strip
  <1>3. parse_ip(t) \in Address
    BY DEF parse_ip, ZeroAddress, Address, Byte
  <1>4. ParseNumber(t) \in Int
    BY DEF ParseNumber, Text
  <1>5. ParseFlag(t) \in BOOLEAN
    BY DEF ParseFlag
  <1> QED BY <1>2, <1>3, <1>4, <1>5

(* A number is stored in the width of its field, and kept if it fits.      *)
LEMMA StoredFits ==
    ASSUME NEW k \in NumberKey, NEW n \in Int
    PROVE  /\ Stored(k, n) \in InWidth(k) /\ Stored(k, n) \in Int
           /\ n \in InWidth(k) => Stored(k, n) = n
  <1>1. \A m \in Nat \ {0, 1} : n % m \in 0..m - 1 /\ n % m \in Int /\ (n \in 0..m - 1 => n % m = n)
    OBVIOUS
  <1>2. CASE k \in {"vendor_id", "device_id"}
    BY <1>1, <1>2, WidthAssumption DEF Stored, InWidth
  <1>3. CASE k = "tick_us"
    BY <1>1, <1>3, WidthAssumption DEF Stored, InWidth
  <1>4. CASE k \notin {"vendor_id", "device_id", "tick_us"}
    BY <1>4 DEF Stored, InWidth
  <1> QED BY <1>2, <1>3, <1>4

(* The sorts of keys are disjoint.                                         *)
LEMMA KeySorts ==
    /\ \A k \in StringKey : k \notin AddrKey /\ k \notin NumberKey /\ k \notin FlagKey
    /\ \A k \in AddrKey : k \notin StringKey /\ k \notin NumberKey /\ k \notin FlagKey
    /\ \A k \in NumberKey : k \notin StringKey /\ k \notin AddrKey /\ k \notin FlagKey
    /\ \A k \in FlagKey : k \notin StringKey /\ k \notin AddrKey /\ k \notin NumberKey
    /\ "interface" \in StringKey
  BY DEF StringKey, AddrKey, NumberKey, FlagKey

(* They are all the keys that app_config_save writes, each once.           *)
LEMMA KeyIs == Key = StringKey \cup AddrKey \cup NumberKey \cup FlagKey
  BY DEF Key, Keys, StringKey, AddrKey, NumberKey, FlagKey

LEMMA KeysAreDistinct ==
    /\ Len(Keys) = 19 /\ DOMAIN Keys = 1..19
    /\ \A i \in 1..19 : Keys[i] \in Key
    /\ \A i, j \in 1..19 : Keys[i] = Keys[j] => i = j
  <1>1. Len(Keys) = 19 /\ DOMAIN Keys = 1..19
    BY DEF Keys
  <1>2. ASSUME NEW i \in 1..19, NEW j \in 1..19, Keys[i] = Keys[j]
        PROVE  i = j
    <2>1. /\ Keys[1] = "product_name" /\ Keys[2] = "station_name" /\ Keys[3] = "interface"
          /\ Keys[4] = "ip_addr" /\ Keys[5] = "netmask" /\ Keys[6] = "gateway"
          /\ Keys[7] = "vendor_id" /\ Keys[8] = "device_id" /\ Keys[9] = "tick_us"
          /\ Keys[10] = "send_hello" /\ Keys[11] = "file_directory" /\ Keys[12] = "log_level"
          /\ Keys[13] = "log_file" /\ Keys[14] = "security_enabled" /\ Keys[15] = "realtime_enabled"
          /\ Keys[16] = "rt_priority" /\ Keys[17] = "rt_scheduling" /\ Keys[18] = "lock_memory"
          /\ Keys[19] = "isolate_cpu"
      BY DEF Keys
    <2>2. \A n \in 1..19 : n \in {1, 2, 3, 4, 5, 6, 7, 8, 9, 10, 11, 12, 13, 14, 15, 16, 17, 18, 19}
      OBVIOUS
    <2> QED BY <1>2, <2>1, <2>2
  <1> QED BY <1>1, <1>2 DEF Key

(* app_config_default gives such a configuration.                          *)
LEMMA DefaultIs == Good(app_config_default)
  <1> DEFINE d == app_config_default
  <1>1. Word("default") \in Text /\ Word("default").word = "default"
    BY WordIs, TokenAssumption DEF Token
  <1>2. DefaultAddr \in [AddrKey -> Address]
    BY DEF DefaultAddr, AddrKey, Address, Byte
  <1>3. d.number \in [NumberKey -> Int] /\ Fits(d)
    <2> DEFINE n == d.number
    <2>1. /\ n = [ vendor_id |-> 1, device_id |-> 1, tick_us |-> 1000 % U32, log_level |-> 2,
                   rt_priority |-> 80, isolate_cpu |-> -1 ]
          /\ 1000 % U32 \in 0..U32 - 1 /\ 1 \in 0..U16 - 1
      BY WidthAssumption DEF app_config_default
    <2> HIDE DEF n
    <2>2. n \in [NumberKey -> Int]
      BY <2>1, WidthAssumption DEF NumberKey
    <2>3. \A k \in NumberKey : n[k] \in InWidth(k)
      BY <2>1, WidthAssumption DEF NumberKey, InWidth
    <2> QED BY <2>2, <2>3 DEF Fits, n
  <1>4. d = [ string |-> d.string, addr |-> DefaultAddr, number |-> d.number, flag |-> d.flag,
              if_name |-> Word("default"), net |-> DefaultAddr, unkeyed |-> "default" ]
    BY DEF app_config_default
  <1>5. d.string = [k \in StringKey |-> Word("default")] /\ d.flag = [k \in FlagKey |-> TRUE]
    BY DEF app_config_default
  <1> HIDE DEF d
  <1>6. d \in ConfigRecord
    <2>1. d.string \in [StringKey -> Text] /\ d.flag \in [FlagKey -> BOOLEAN]
      BY <1>1, <1>5
    <2> QED BY <1>1, <1>2, <1>3, <1>4, <2>1 DEF ConfigRecord
  <1>7. /\ d.if_name = d.string["interface"] /\ d.net = d.addr
        /\ \A k \in StringKey : d.string[k].word \notin DOMAIN Cut
    <2>1. "default" \notin DOMAIN Cut
      BY TokenAssumption DEF Token
    <2> QED BY <1>1, <1>4, <1>5, <2>1, KeySorts
  <1> QED BY <1>3, <1>6, <1>7 DEF d, Good

----------------------------------------------------------------------------
(* apply_kv changes the fields of its key and no others.                   *)
LEMMA ApplyKvIs ==
    ASSUME NEW c \in ConfigRecord, NEW key, NEW t \in Text
    PROVE  /\ apply_kv(c, key, t) \in ConfigRecord
           /\ \A k \in StringKey : apply_kv(c, key, t).string[k] = IF k = key THEN strncpy(t) ELSE c.string[k]
           /\ \A k \in AddrKey :
                 /\ apply_kv(c, key, t).addr[k] = IF k = key THEN parse_ip(t) ELSE c.addr[k]
                 /\ apply_kv(c, key, t).net[k] = IF k = key THEN parse_ip(t) ELSE c.net[k]
           /\ \A k \in NumberKey : apply_kv(c, key, t).number[k] =
                 IF k = key THEN Stored(k, ParseNumber(t)) ELSE c.number[k]
           /\ \A k \in FlagKey : apply_kv(c, key, t).flag[k] = IF k = key THEN ParseFlag(t) ELSE c.flag[k]
           /\ apply_kv(c, key, t).if_name = IF key = "interface" THEN strncpy(t) ELSE c.if_name
  <1> DEFINE d == apply_kv(c, key, t)
  <1>0. /\ strncpy(t) \in Text /\ parse_ip(t) \in Address /\ ParseFlag(t) \in BOOLEAN
        /\ \A k \in NumberKey : Stored(k, ParseNumber(t)) \in Int
    BY TextTypes, StoredFits
  <1>1. CASE key = "interface"
    <2>1. d = [c EXCEPT !.string[key] = strncpy(t), !.if_name = strncpy(t)]
      BY <1>1, KeySorts DEF apply_kv
    <2> DEFINE string == [c.string EXCEPT ![key] = strncpy(t)]
    <2>2. d = [c EXCEPT !.string = string, !.if_name = strncpy(t)]
      BY <2>1
    <2>3. string \in [StringKey -> Text] /\ \A k \in StringKey : string[k] = IF k = key THEN strncpy(t) ELSE c.string[k]
      BY <1>0 DEF ConfigRecord
    <2> HIDE DEF d, string
    <2>4. /\ d \in ConfigRecord /\ d.string = string /\ d.if_name = strncpy(t)
          /\ d.addr = c.addr /\ d.net = c.net /\ d.number = c.number /\ d.flag = c.flag
      BY <1>0, <2>2, <2>3 DEF ConfigRecord
    <2> QED BY <1>1, <2>3, <2>4, KeySorts DEF d
  <1>2. CASE key \in StringKey \ {"interface"}
    <2>1. d = [c EXCEPT !.string[key] = strncpy(t)]
      BY <1>2, KeySorts DEF apply_kv
    <2> HIDE DEF d
    <2> QED BY <1>0, <1>2, <2>1, KeySorts DEF ConfigRecord, d
  <1>3. CASE key \in AddrKey
    <2>1. d = [c EXCEPT !.addr[key] = parse_ip(t), !.net[key] = parse_ip(t)]
      BY <1>3, KeySorts DEF apply_kv
    <2> DEFINE addr == [c.addr EXCEPT ![key] = parse_ip(t)]
               net  == [c.net EXCEPT ![key] = parse_ip(t)]
    <2>2. d = [c EXCEPT !.addr = addr, !.net = net]
      BY <2>1
    <2>3. /\ addr \in [AddrKey -> Address] /\ net \in [AddrKey -> Address]
          /\ \A k \in AddrKey : /\ addr[k] = IF k = key THEN parse_ip(t) ELSE c.addr[k]
                                /\ net[k] = IF k = key THEN parse_ip(t) ELSE c.net[k]
      BY <1>0 DEF ConfigRecord
    <2> HIDE DEF d, addr, net
    <2>4. /\ d \in ConfigRecord /\ d.addr = addr /\ d.net = net
          /\ d.string = c.string /\ d.if_name = c.if_name /\ d.number = c.number /\ d.flag = c.flag
      BY <2>2, <2>3 DEF ConfigRecord
    <2> QED BY <1>3, <2>3, <2>4, KeySorts DEF d
  <1>4. CASE key \in NumberKey
    <2>1. d = [c EXCEPT !.number[key] = Stored(key, ParseNumber(t))]
      BY <1>4, KeySorts DEF apply_kv
    <2> HIDE DEF d
    <2> QED BY <1>0, <1>4, <2>1, KeySorts DEF ConfigRecord, d
  <1>5. CASE key \in FlagKey
    <2>1. d = [c EXCEPT !.flag[key] = ParseFlag(t)]
      BY <1>5, KeySorts DEF apply_kv
    <2> HIDE DEF d
    <2> QED BY <1>0, <1>5, <2>1, KeySorts DEF ConfigRecord, d
  <1>6. CASE key \notin StringKey /\ key \notin AddrKey /\ key \notin NumberKey /\ key \notin FlagKey
    <2>1. d = c
      BY <1>6, KeySorts DEF apply_kv
    <2> HIDE DEF d
    <2> QED BY <1>6, <2>1, KeySorts DEF d
  <1> QED BY <1>1, <1>2, <1>3, <1>4, <1>5, <1>6

(* Whatever the line says, the configuration stays one that the code may   *)
(* hold.                                                                   *)
LEMMA ApplyKvKeepsGood ==
    ASSUME NEW c, Good(c), NEW key, NEW t \in Text
    PROVE  Good(apply_kv(c, key, t))
  <1> DEFINE d == apply_kv(c, key, t)
  <1>1. d \in ConfigRecord
    BY ApplyKvIs DEF Good
  <1>2. Fits(d)
    BY ApplyKvIs, TextTypes, StoredFits DEF Good, Fits
  <1>3. \A k \in StringKey : d.string[k].word \notin DOMAIN Cut
    BY ApplyKvIs, TextTypes DEF Good
  <1>4. d.if_name = d.string["interface"]
    BY ApplyKvIs, KeySorts DEF Good
  <1>5. d.net = d.addr
    <2>1. \A k \in AddrKey : d.net[k] = d.addr[k]
      BY ApplyKvIs DEF Good
    <2> HIDE DEF d
    <2> QED BY <1>1, <2>1 DEF ConfigRecord
  <1> QED BY <1>1, <1>2, <1>3, <1>4, <1>5 DEF Good

(* Two configurations agree on a key if its field is the same in both.     *)
LEMMA AgreeOnIs ==
    ASSUME NEW c, NEW d, NEW k
    PROVE  /\ k \in StringKey => (AgreeOn(c, d, k) <=> c.string[k] = d.string[k])
           /\ k \in AddrKey => (AgreeOn(c, d, k) <=> c.addr[k] = d.addr[k])
           /\ k \in NumberKey => (AgreeOn(c, d, k) <=> c.number[k] = d.number[k])
           /\ k \in FlagKey => (AgreeOn(c, d, k) <=> c.flag[k] = d.flag[k])
  BY KeySorts, Zenon DEF AgreeOn

(* The fields of other keys stay as they are, and those of the key do not  *)
(* depend on what they were.                                               *)
LEMMA ApplyKvAgrees ==
    ASSUME NEW c \in ConfigRecord, NEW e \in ConfigRecord, NEW key, NEW t \in Text, NEW k \in Key
    PROVE  /\ k # key => AgreeOn(apply_kv(c, key, t), c, k)
           /\ AgreeOn(apply_kv(c, k, t), apply_kv(e, k, t), k)
  <1>1. CASE k \in StringKey
    BY <1>1, KeySorts, ApplyKvIs, AgreeOnIs
  <1>2. CASE k \in AddrKey
    BY <1>2, KeySorts, ApplyKvIs, AgreeOnIs
  <1>3. CASE k \in NumberKey
    BY <1>3, KeySorts, ApplyKvIs, AgreeOnIs
  <1>4. CASE k \in FlagKey
    BY <1>4, KeySorts, ApplyKvIs, AgreeOnIs
  <1> QED BY <1>1, <1>2, <1>3, <1>4, KeyIs

(* Agreement on a key can be passed on.                                    *)
LEMMA AgreeOnTransitive ==
    ASSUME NEW c, NEW d, NEW e, NEW k \in Key
    PROVE  /\ AgreeOn(c, c, k)
           /\ AgreeOn(c, d, k) /\ AgreeOn(d, e, k) => AgreeOn(c, e, k)
  BY KeyIs, AgreeOnIs

----------------------------------------------------------------------------
(* LastLine and LoadedIsLastLine for the first n lines of f.               *)
LastUpTo(f, n, k) ==
    {i \in 1..n : /\ f[i].key = k /\ Takes(f[i])
                  /\ \A j \in i + 1..n : f[j].key = k => ~Takes(f[j])}

Follows(c, f, n, k) ==
    /\ LastUpTo(f, n, k) = {} => AgreeOn(c, app_config_default, k)
    /\ \A i \in LastUpTo(f, n, k) : AgreeOn(c, apply_kv(app_config_default, k, strip(f[i].text)), k)

(* What LoadLine does to one key.                                          *)
LEMMA OneMoreLine ==
    ASSUME NEW f \in Seq(AnyLine), NEW n \in Nat, n < Len(f), NEW c \in ConfigRecord, NEW k \in Key,
           Follows(c, f, n, k)
    PROVE  Follows(IF Takes(f[n + 1]) THEN apply_kv(c, f[n + 1].key, strip(f[n + 1].text)) ELSE c, f, n + 1, k)
  <1> DEFINE l == f[n + 1]
             d == IF Takes(l) THEN apply_kv(c, l.key, strip(l.text)) ELSE c
  <1>0. l.text \in Text /\ strip(l.text) \in Text
    BY LineAssumption, TextTypes DEF AnyLine
  <1>1. CASE Takes(l) /\ l.key = k
    <2>1. LastUpTo(f, n + 1, k) = {n + 1}
      BY <1>1 DEF LastUpTo
    <2>2. AgreeOn(d, apply_kv(app_config_default, k, strip(l.text)), k)
      BY <1>0, <1>1, DefaultIs, ApplyKvAgrees DEF Good
    <2> QED BY <2>1, <2>2 DEF Follows
  <1>2. CASE ~(Takes(l) /\ l.key = k)
    <2>1. LastUpTo(f, n + 1, k) = LastUpTo(f, n, k)
      <3>1. ASSUME NEW i \in LastUpTo(f, n + 1, k)
            PROVE  i \in LastUpTo(f, n, k)
        BY <1>2 DEF LastUpTo
      <3>2. ASSUME NEW i \in LastUpTo(f, n, k)
            PROVE  i \in LastUpTo(f, n + 1, k)
        <4>1. \A j \in i + 1..n + 1 : j \in i + 1..n \/ j = n + 1
          BY DEF LastUpTo
        <4> QED BY <1>2, <4>1 DEF LastUpTo
      <3> QED BY <3>1, <3>2
    <2>2. AgreeOn(d, c, k)
      BY <1>0, <1>2, ApplyKvAgrees, AgreeOnTransitive
    <2> HIDE DEF d
    <2>3. \A e : AgreeOn(c, e, k) => AgreeOn(d, e, k)
      BY <2>2, AgreeOnTransitive
    <2> QED BY <2>1, <2>3 DEF Follows, d
  <1> QED BY <1>1, <1>2

----------------------------------------------------------------------------
(* The inductive invariant: well-formed state; what has been read of the   *)
(* file that is being loaded, or of the one that was; what was saved last. *)
ShapeInv ==
    /\ present \in BOOLEAN
    /\ pc \in {"idle", "load", "save"}
    /\ Good(cfg)
    /\ file \in Seq(AnyLine)
    /\ rest \in Seq(AnyLine)
    /\ loaded = None \/ \E f \in Seq(AnyLine) : loaded = Some(f)

LoadInv ==
    /\ pc = "load" => loaded # None
    /\ pc # "load" => rest = <<>>
    /\ loaded # None =>
          /\ Len(rest) <= Len(loaded.of)
          /\ \A i \in 1..Len(rest) : rest[i] = loaded.of[Len(loaded.of) - Len(rest) + i]
          /\ \A k \in Key : Follows(cfg, loaded.of, Len(loaded.of) - Len(rest), k)

SaveInv ==
    \/ saved = None
    \/ /\ pc # "save"
       /\ saved = Some(saved.of) /\ Good(saved.of)
       /\ file = SavedLines(saved.of)

(* What app_config_save writes for a key is a text.                        *)
LEMMA FormatIsText ==
    ASSUME NEW c, Good(c), NEW k \in Key
    PROVE  Format(c, k) \in Text
  <1>0. "quad" \in Words /\ "number" \in Words
    BY TokenAssumption DEF Token
  <1>1. \A q \in Address : Quad(q) \in Text
    <2>1. ASSUME NEW q \in Address
          PROVE  q \in Seq(Int)
      BY AddressIsScanned
    <2> QED BY <1>0, <2>1 DEF Quad, Text
  <1>2. \A n \in Int : Number(n) \in Text
    BY <1>0 DEF Number, Text
  <1>3. Word("true") \in Text /\ Word("false") \in Text
    BY TokenAssumption, WordIs DEF Token
  <1>4. CASE k \in StringKey
    BY <1>4, KeySorts DEF Format, Good, ConfigRecord
  <1>5. CASE k \in AddrKey
    BY <1>1, <1>5, KeySorts DEF Format, Good, ConfigRecord
  <1>6. CASE k \in NumberKey
    BY <1>2, <1>6, KeySorts DEF Format, Good, ConfigRecord
  <1>7. CASE k \in FlagKey
    BY <1>3, <1>7, KeySorts DEF Format
  <1> QED BY <1>4, <1>5, <1>6, <1>7, KeyIs

(* What is saved is a file of lines.                                       *)
LEMMA SavedLinesIs ==
    ASSUME NEW c, Good(c)
    PROVE  /\ SavedLines(c) \in Seq(AnyLine)
           /\ Len(SavedLines(c)) = 19
           /\ \A i \in 1..19 : SavedLines(c)[i] = [key |-> Keys[i], text |-> Format(c, Keys[i])]
           /\ \A n \in Kept : SubSeq(SavedLines(c), 1, n) \in Seq(AnyLine)
  <1>2. \A i \in 1..19 : [key |-> Keys[i], text |-> Format(c, Keys[i])] \in AnyLine
    BY FormatIsText, KeysAreDistinct DEF AnyLine
  <1>3. SavedLines(c) = [i \in 1..19 |-> [key |-> Keys[i], text |-> Format(c, Keys[i])]]
    BY KeysAreDistinct DEF SavedLines
  <1>4. SavedLines(c) \in Seq(AnyLine) /\ Len(SavedLines(c)) = 19
    BY <1>2, <1>3
  <1>5. ASSUME NEW n \in Kept
        PROVE  SubSeq(SavedLines(c), 1, n) \in Seq(AnyLine)
    <2>1. n \in 0..18
      BY KeptAssumption, KeysAreDistinct
    <2>2. \A i \in 1..n : SavedLines(c)[i] \in AnyLine
      BY <1>2, <1>3, <2>1
    <2> QED BY <1>4, <2>1, <2>2
  <1> QED BY <1>2, <1>3, <1>4, <1>5

(* A configuration is loaded line by line as LoadInv says.                 *)
LEMMA ShapeInvHolds == Spec => []ShapeInv
  <1>1. Init => ShapeInv
    BY DefaultIs DEF Init, ShapeInv
  <1>2. ShapeInv /\ [Next]_vars => ShapeInv'
    <2> SUFFICES ASSUME ShapeInv, [Next]_vars
                 PROVE  ShapeInv'
      OBVIOUS
    <2> USE DEF ShapeInv
    <2>1. ASSUME NEW l \in Line, AdminAdds(l)
          PROVE  ShapeInv'
      BY <2>1 DEF AdminAdds, AnyLine
    <2>2. ASSUME NEW k \in EditKey, NEW t \in EditText, EditString(k, t)
          PROVE  ShapeInv'
      <3>1. k \in StringKey /\ k # "interface" /\ t \in Text
        BY EditAssumption, LineAssumption
      <3>2. cfg' = apply_kv(cfg, k, t)
        BY <2>2, <3>1, KeySorts DEF EditString, apply_kv
      <3>3. Good(cfg)'
        BY <3>1, <3>2, ApplyKvKeepsGood
      <3> QED BY <2>2, <3>3 DEF EditString
    <2>3. CASE EditUnkeyed
      <3>1. cfg' = [cfg EXCEPT !.unkeyed = "edited"]
        BY <2>3 DEF EditUnkeyed
      <3>2. Good(cfg)'
        BY <3>1 DEF Good, ConfigRecord, Fits
      <3> QED BY <2>3, <3>2 DEF EditUnkeyed
    <2>4. CASE LoadLine
      <3>1. Head(rest) \in AnyLine /\ Tail(rest) \in Seq(AnyLine)
        BY <2>4 DEF LoadLine
      <3>2. strip(Head(rest).text) \in Text
        BY <3>1, LineAssumption, TextTypes DEF AnyLine
      <3>3. Good(cfg)'
        BY <2>4, <3>2, ApplyKvKeepsGood DEF LoadLine
      <3> QED BY <2>4, <3>1, <3>3 DEF LoadLine
    <2>5. CASE SaveEnds
      BY <2>5, SavedLinesIs DEF SaveEnds
    <2>6. CASE AdminReplaces \/ LoadFails \/ app_config_load \/ LoadEnds \/ app_config_save \/ Crash
      <3>1. <<>> \in Seq(AnyLine)
        OBVIOUS
      <3>2. /\ cfg' = cfg \/ cfg' = app_config_default
            /\ file' = file \/ file' = <<>>
            /\ rest' = rest \/ rest' = <<>> \/ rest' = file
            /\ loaded' = loaded \/ loaded' = None \/ loaded' = Some(file)
            /\ present' \in BOOLEAN /\ pc' \in {"idle", "load", "save"}
        BY <2>6 DEF AdminReplaces, LoadFails, app_config_load, LoadEnds, app_config_save, Crash
      <3> QED BY <3>1, <3>2, DefaultIs
    <2>7. CASE UNCHANGED vars
      BY <2>7 DEF vars
    <2> QED BY <2>1, <2>2, <2>3, <2>4, <2>5, <2>6, <2>7 DEF Next
  <1> QED BY <1>1, <1>2, PTL DEF Spec

LEMMA LoadInvHolds == Spec => []LoadInv
  <1>1. Init => LoadInv
    BY DEF Init, LoadInv
  <1>2. ShapeInv /\ LoadInv /\ [Next]_vars => LoadInv'
    <2> SUFFICES ASSUME ShapeInv, LoadInv, [Next]_vars
                 PROVE  LoadInv'
      OBVIOUS
    <2>0. \A x : None # Some(x) /\ Some(x).of = x
      BY DEF None, Some
    <2>1. CASE LoadLine
      <3>1. PICK f \in Seq(AnyLine) : loaded = Some(f)
        BY <2>1 DEF LoadLine, LoadInv, ShapeInv
      <3> DEFINE n == Len(f) - Len(rest)
      <3>2. /\ loaded # None /\ loaded.of = f
            /\ rest \in Seq(AnyLine) /\ rest # <<>>
        BY <2>0, <2>1, <3>1 DEF LoadLine, ShapeInv
      <3>3. /\ Len(rest) <= Len(f)
            /\ \A i \in 1..Len(rest) : rest[i] = f[n + i]
            /\ \A k \in Key : Follows(cfg, f, n, k)
        BY <3>2 DEF LoadInv
      <3>4. /\ Len(rest) \in Nat \ {0} /\ Len(f) \in Nat /\ n \in Nat /\ n < Len(f)
            /\ Head(rest) = rest[1] /\ Len(Tail(rest)) = Len(rest) - 1
            /\ \A i \in 1..Len(rest) - 1 : Tail(rest)[i] = rest[i + 1]
        BY <3>2, <3>3
      <3>5. /\ cfg' = IF Takes(f[n + 1]) THEN apply_kv(cfg, f[n + 1].key, strip(f[n + 1].text)) ELSE cfg
            /\ rest' = Tail(rest) /\ loaded' = loaded /\ pc' = "load"
        <4>1. Head(rest) = f[n + 1]
          BY <3>3, <3>4
        <4> QED BY <2>1, <4>1 DEF LoadLine
      <3>6. \A k \in Key : Follows(cfg', f, n + 1, k)
        <4> HIDE DEF n
        <4> QED BY <3>3, <3>4, <3>5, OneMoreLine DEF ShapeInv, Good
      <3>7. Len(f) - Len(rest') = n + 1
        BY <3>4, <3>5
      <3>8. \A i \in 1..Len(rest') : rest'[i] = f[n + 1 + i]
        BY <3>3, <3>4, <3>5
      <3>9. Len(rest') <= Len(f)
        BY <3>4, <3>5
      <3> HIDE DEF n
      <3> QED BY <3>2, <3>5, <3>6, <3>7, <3>8, <3>9 DEF LoadInv
    <2>2. CASE app_config_load
      <3>1. \A k \in Key : Follows(app_config_default, file, 0, k)
        BY AgreeOnTransitive DEF Follows, LastUpTo
      <3>2. cfg' = app_config_default /\ rest' = file /\ loaded' = Some(file) /\ pc' = "load"
        BY <2>2 DEF app_config_load
      <3>3. Len(file) \in Nat
        BY DEF ShapeInv
      <3> QED BY <2>0, <3>1, <3>2, <3>3 DEF LoadInv
    <2>3. CASE \E k \in EditKey, t \in EditText : EditString(k, t)
      BY <2>3 DEF EditString, LoadInv
    <2>4. CASE EditUnkeyed \/ LoadFails \/ Crash
      BY <2>4 DEF EditUnkeyed, LoadFails, Crash, LoadInv
    <2>5. CASE \/ \E l \in Line : AdminAdds(l)
               \/ AdminReplaces \/ LoadEnds \/ app_config_save \/ SaveEnds \/ UNCHANGED vars
      <3>1. UNCHANGED <<cfg, rest, loaded>> /\ (pc' # "load" => pc # "load" \/ rest = <<>>)
            /\ (pc' = "load" => pc = "load")
        BY <2>5 DEF AdminAdds, AdminReplaces, LoadEnds, app_config_save, SaveEnds, vars
      <3> QED BY <3>1 DEF LoadInv
    <2> QED BY <2>1, <2>2, <2>3, <2>4, <2>5 DEF Next
  <1> QED BY <1>1, <1>2, ShapeInvHolds, PTL DEF Spec

LEMMA SaveInvHolds == Spec => []SaveInv
  <1>1. Init => SaveInv
    BY DEF Init, SaveInv
  <1>2. ShapeInv /\ SaveInv /\ [Next]_vars => SaveInv'
    <2> SUFFICES ASSUME ShapeInv, SaveInv, [Next]_vars
                 PROVE  SaveInv'
      OBVIOUS
    <2>1. CASE SaveEnds
      BY <2>1 DEF SaveEnds, SaveInv, ShapeInv, Some
    <2>2. CASE \/ \E l \in Line : AdminAdds(l)
               \/ AdminReplaces \/ app_config_save
      BY <2>2 DEF AdminAdds, AdminReplaces, app_config_save, SaveInv
    <2>3. CASE \/ \E k \in EditKey, t \in EditText : EditString(k, t)
               \/ EditUnkeyed \/ LoadFails \/ app_config_load \/ LoadLine \/ LoadEnds \/ Crash
               \/ UNCHANGED vars
      <3>1. UNCHANGED <<file, saved>> /\ (pc' = "save" => pc = "save")
        BY <2>3 DEF EditString, EditUnkeyed, LoadFails, app_config_load, LoadLine, LoadEnds, Crash, vars
      <3> QED BY <3>1 DEF SaveInv
    <2> QED BY <2>1, <2>2, <2>3 DEF Next
  <1> QED BY <1>1, <1>2, ShapeInvHolds, PTL DEF Spec

----------------------------------------------------------------------------
(* The configuration is well formed in every state, its numbers in the     *)
(* width of their fields.                                                  *)
THEOREM TypeCorrect == Spec => []TypeOK
  <1>1. ShapeInv => TypeOK
    <2> SUFFICES ASSUME ShapeInv
                 PROVE  IsConfig(cfg)
      BY DEF ShapeInv, TypeOK
    <2> QED BY DEF ShapeInv, Good, Fits, ConfigRecord, IsConfig
  <1> QED BY <1>1, ShapeInvHolds, PTL

(* The network settings are the same in both of their copies, whatever is  *)
(* loaded.                                                                 *)
THEOREM MirrorsAlwaysAgree == Spec => []MirrorsAgree
  <1>1. ShapeInv => MirrorsAgree
    BY DEF ShapeInv, Good, MirrorsAgree
  <1> QED BY <1>1, ShapeInvHolds, PTL

(* When nothing is being loaded, every key follows the whole file.         *)
LEMMA IdleFollows ==
    ASSUME ShapeInv, LoadInv, pc = "idle", loaded.is
    PROVE  /\ loaded.of \in Seq(AnyLine)
           /\ \A k \in Key : /\ LastLine(loaded.of, k) = LastUpTo(loaded.of, Len(loaded.of), k)
                              /\ Follows(cfg, loaded.of, Len(loaded.of), k)
  <1>1. ~None.is /\ \A x : Some(x).of = x
    BY DEF None, Some
  <1>2. loaded # None /\ loaded.of \in Seq(AnyLine) /\ Len(loaded.of) \in Nat
    BY <1>1 DEF ShapeInv
  <1>3. Len(loaded.of) - Len(rest) = Len(loaded.of)
    BY <1>2 DEF LoadInv
  <1>4. \A k \in Key : Follows(cfg, loaded.of, Len(loaded.of), k)
    BY <1>2, <1>3 DEF LoadInv
  <1>5. \A k : LastLine(loaded.of, k) = LastUpTo(loaded.of, Len(loaded.of), k)
    BY <1>2 DEF LastLine, LastUpTo
  <1> QED BY <1>2, <1>4, <1>5

(* What a line gives the field of its key.                                 *)
LEMMA AppliedValue ==
    ASSUME NEW t \in Text, NEW k
    PROVE  /\ k \in StringKey => apply_kv(app_config_default, k, t).string[k] = strncpy(t)
           /\ k \in AddrKey => apply_kv(app_config_default, k, t).addr[k] = parse_ip(t)
           /\ k \in NumberKey => apply_kv(app_config_default, k, t).number[k] = Stored(k, ParseNumber(t))
           /\ k \in FlagKey => apply_kv(app_config_default, k, t).flag[k] = ParseFlag(t)
  <1>1. app_config_default \in ConfigRecord
    BY DefaultIs DEF Good
  <1> QED BY <1>1, ApplyKvIs

(* What the code writes itself is neither empty nor has blanks.            *)
LEMMA TokensAreTaken ==
    ASSUME NEW t, t.word \in {"quad", "number", "true", "false"}
    PROVE  strip(t) = t /\ t # Empty
  <1>1. t.word \notin DOMAIN Strip
    BY TokenAssumption DEF Token
  <1>2. Empty.word = ""
    BY DEF Empty, Word
  <1> QED BY <1>1, <1>2 DEF strip

(* A configuration holds what a line says if the field of its key does.    *)
LEMMA HoldsIs ==
    ASSUME NEW c, NEW t, NEW k
    PROVE  /\ k \in StringKey => (Holds(c, k, t) <=> c.string[k] = strncpy(strip(t)))
           /\ k \in AddrKey => (Holds(c, k, t) <=> c.addr[k] = t.quad)
           /\ k \in NumberKey => (Holds(c, k, t) <=> c.number[k] = t.num)
           /\ k \in FlagKey => (Holds(c, k, t) <=> (c.flag[k] <=> t \in {Word("true"), Number(1)}))
  BY KeySorts, Zenon DEF Holds

(* A well-formed line gives its key the value that it says.                *)
LEMMA WellFormedIsHeld ==
    ASSUME NEW c, NEW t \in Text, NEW k \in Key, WellFormed(k, t),
           AgreeOn(c, apply_kv(app_config_default, k, strip(t)), k)
    PROVE  Holds(c, k, t)
  <1>0. strip(t) \in Text
    BY TextTypes
  <1>1. CASE k \in StringKey
    BY <1>0, <1>1, AppliedValue, AgreeOnIs, HoldsIs
  <1>2. CASE k \in AddrKey
    <2>1. t.word = "quad" /\ t.quad \in Address
      BY <1>2, KeySorts DEF WellFormed
    <2>2. parse_ip(t) = t.quad /\ strip(t) = t
      BY <2>1, AddressIsParsed, TokensAreTaken
    <2>3. c.addr[k] = t.quad
      BY <1>2, <2>2, AppliedValue, AgreeOnIs
    <2> QED BY <1>2, <2>3, HoldsIs
  <1>3. CASE k \in NumberKey
    <2>1. t.word = "number" /\ t.num \in InWidth(k) /\ t.num \in Int
      BY <1>3, KeySorts DEF WellFormed, Text
    <2>2. ParseNumber(t) = t.num /\ strip(t) = t
      BY <2>1, TokensAreTaken DEF ParseNumber
    <2>3. c.number[k] = t.num
      BY <1>3, <2>1, <2>2, StoredFits, AppliedValue, AgreeOnIs
    <2> QED BY <1>3, <2>3, HoldsIs
  <1>4. CASE k \in FlagKey
    <2>1. t \in {Word("true"), Number(1), Word("false"), Number(0)}
      BY <1>4, KeySorts DEF WellFormed
    <2>2. t.word \in {"number", "true", "false"}
      BY <2>1 DEF Word, Number
    <2>3. strip(t) = t
      BY <2>2, TokensAreTaken
    <2>4. c.flag[k] = ParseFlag(t)
      BY <1>4, <2>3, AppliedValue, AgreeOnIs
    <2> QED BY <1>4, <2>4, HoldsIs DEF ParseFlag
  <1> QED BY <1>1, <1>2, <1>3, <1>4, KeyIs

(* After a load every key holds what its last line says, if that is well   *)
(* formed, and the default if it has no line, for files of every length.   *)
THEOREM LoadedIsAlwaysLastLine == Spec => []LoadedIsLastLine
  <1>1. ShapeInv /\ LoadInv => LoadedIsLastLine
    <2> SUFFICES ASSUME ShapeInv, LoadInv, pc = "idle", loaded.is, NEW k \in Key
                 PROVE  /\ LastLine(loaded.of, k) = {} => AgreeOn(cfg, app_config_default, k)
                        /\ \A i \in LastLine(loaded.of, k) :
                              WellFormed(k, loaded.of[i].text) => Holds(cfg, k, loaded.of[i].text)
      BY Zenon DEF LoadedIsLastLine
    <2>1. loaded.of \in Seq(AnyLine) /\ Follows(cfg, loaded.of, Len(loaded.of), k)
          /\ LastLine(loaded.of, k) = LastUpTo(loaded.of, Len(loaded.of), k)
      BY IdleFollows
    <2>2. ASSUME NEW i \in LastLine(loaded.of, k), WellFormed(k, loaded.of[i].text)
          PROVE  Holds(cfg, k, loaded.of[i].text)
      <3> DEFINE t == loaded.of[i].text
      <3>1. AgreeOn(cfg, apply_kv(app_config_default, k, strip(t)), k)
        BY <2>1, <2>2 DEF Follows
      <3>2. t \in Text
        BY <2>1, <2>2, LineAssumption DEF AnyLine, LastLine
      <3>3. WellFormed(k, t)
        BY <2>2
      <3> HIDE DEF t
      <3>4. Holds(cfg, k, t)
        BY <3>1, <3>2, <3>3, WellFormedIsHeld
      <3> QED BY <3>4 DEF t
    <2>3. LastLine(loaded.of, k) = {} => AgreeOn(cfg, app_config_default, k)
      BY <2>1 DEF Follows
    <2> QED BY <2>2, <2>3
  <1> QED BY <1>1, ShapeInvHolds, LoadInvHolds, PTL

(* The address of a configuration that app_config_validate accepts is not  *)
(* a reserved one, and it is made of the first four numbers of the last    *)
(* ip_addr line of the file, as sscanf takes them.                         *)
THEOREM AcceptedIsAlwaysUsable == Spec => []AcceptedIsUsable
  <1>1. ShapeInv /\ LoadInv => AcceptedIsUsable
    <2> SUFFICES ASSUME ShapeInv, LoadInv, pc = "idle", app_config_validate(cfg)
                 PROVE  /\ cfg.net["ip_addr"] \notin Reserved
                        /\ loaded.is => \A i \in LastLine(loaded.of, "ip_addr") :
                              /\ Len(loaded.of[i].text.quad) >= 4
                              /\ \A n \in 1..4 : cfg.net["ip_addr"][n] = loaded.of[i].text.quad[n] % U32
      BY Zenon DEF AcceptedIsUsable
    <2>1. "ip_addr" \in AddrKey /\ "ip_addr" \in Key
      BY KeyIs DEF AddrKey
    <2>2. cfg.net = cfg.addr /\ cfg.addr["ip_addr"] \notin Reserved
      BY DEF ShapeInv, Good, app_config_validate
    <2>3. ASSUME loaded.is, NEW i \in LastLine(loaded.of, "ip_addr")
          PROVE  /\ Len(loaded.of[i].text.quad) >= 4
                 /\ \A n \in 1..4 : cfg.addr["ip_addr"][n] = loaded.of[i].text.quad[n] % U32
      <3> DEFINE t == loaded.of[i].text
      <3>1. /\ loaded.of \in Seq(AnyLine) /\ i \in DOMAIN loaded.of
            /\ AgreeOn(cfg, apply_kv(app_config_default, "ip_addr", strip(t)), "ip_addr")
        BY <2>1, <2>3, IdleFollows DEF Follows, LastLine
      <3>2. t \in Text
        BY <3>1, LineAssumption DEF AnyLine
      <3> HIDE DEF t
      <3>3. cfg.addr["ip_addr"] = parse_ip(strip(t))
        BY <2>1, <3>1, <3>2, TextTypes, DefaultIs, ApplyKvIs, AgreeOnIs DEF Good
      <3>4. Len(strip(t).quad) >= 4 /\ cfg.addr["ip_addr"] = Scanned(strip(t).quad)
        BY <2>2, <3>3 DEF parse_ip, Reserved
      <3>5. \A w : Word(w).quad = <<>>
        BY DEF Word
      <3>6. strip(t) = t
        BY <3>4, <3>5 DEF strip
      <3>7. \A n \in 1..4 : Scanned(t.quad)[n] = t.quad[n] % U32
        BY DEF Scanned
      <3> QED BY <3>4, <3>6, <3>7 DEF t
    <2> QED BY <2>2, <2>3
  <1> QED BY <1>1, ShapeInvHolds, LoadInvHolds, PTL

(* What app_config_save writes for a key is read back as it was.           *)
LEMMA FormatIsReadBack ==
    ASSUME NEW c, Good(c), NEW k \in Key, Storable(c, k)
    PROVE  /\ strip(Format(c, k)) = Format(c, k) /\ Format(c, k) # Empty
           /\ AgreeOn(apply_kv(app_config_default, k, Format(c, k)), c, k)
  <1> DEFINE t == Format(c, k)
  <1>0. t \in Text
    BY FormatIsText
  <1>1. CASE k \in StringKey
    <2>1. t = c.string[k] /\ strncpy(c.string[k]) = c.string[k]
      BY <1>1, KeySorts DEF Format, Good, strncpy
    <2> HIDE DEF t
    <2>2. AgreeOn(apply_kv(app_config_default, k, t), c, k)
      BY <1>0, <1>1, <2>1, AppliedValue, AgreeOnIs
    <2> QED BY <1>1, <2>1, <2>2 DEF Storable, t
  <1>2. CASE k \in AddrKey
    <2>1. t = Quad(c.addr[k]) /\ c.addr[k] \in Address
      BY <1>2, KeySorts DEF Format, Good, ConfigRecord
    <2> HIDE DEF t
    <2>2. t.word = "quad" /\ parse_ip(t) = c.addr[k]
      <3>1. t.word = "quad" /\ t.quad = c.addr[k]
        BY <2>1 DEF Quad
      <3> QED BY <2>1, <3>1, AddressIsParsed
    <2>3. AgreeOn(apply_kv(app_config_default, k, t), c, k)
      BY <1>0, <1>2, <2>2, AppliedValue, AgreeOnIs
    <2> QED BY <2>2, <2>3, TokensAreTaken DEF t
  <1>3. CASE k \in NumberKey
    <2>1. t = Number(c.number[k]) /\ c.number[k] \in Int /\ c.number[k] \in InWidth(k)
      BY <1>3, KeySorts DEF Format, Good, ConfigRecord, Fits
    <2> HIDE DEF t
    <2>2. t.word = "number" /\ ParseNumber(t) = c.number[k]
      BY <2>1 DEF ParseNumber, Number
    <2>3. AgreeOn(apply_kv(app_config_default, k, t), c, k)
      BY <1>0, <1>3, <2>1, <2>2, StoredFits, AppliedValue, AgreeOnIs
    <2> QED BY <2>2, <2>3, TokensAreTaken DEF t
  <1>4. CASE k \in FlagKey
    <2>1. t = Word(IF c.flag[k] THEN "true" ELSE "false") /\ c.flag[k] \in BOOLEAN
      BY <1>4, KeySorts DEF Format, Good, ConfigRecord
    <2> HIDE DEF t
    <2>2. t.word = IF c.flag[k] THEN "true" ELSE "false"
      BY <2>1 DEF Word
    <2>3. ParseFlag(t) = c.flag[k]
      <3>1. CASE c.flag[k] = TRUE
        BY <2>1, <3>1 DEF ParseFlag
      <3>2. CASE c.flag[k] = FALSE
        <4>1. t.word = "false" /\ Word("true").word = "true" /\ Number(1).word = "number"
          BY <2>2, <3>2 DEF Word, Number
        <4>2. t # Word("true") /\ t # Number(1)
          BY <4>1
        <4>3. ~ParseFlag(t)
          BY <4>2 DEF ParseFlag
        <4> QED BY <1>0, <3>2, <4>3, TextTypes
      <3> QED BY <2>1, <3>1, <3>2
    <2>4. AgreeOn(apply_kv(app_config_default, k, t), c, k)
      BY <1>0, <1>4, <2>3, AppliedValue, AgreeOnIs
    <2>5. t.word \in {"true", "false"}
      BY <2>2
    <2> QED BY <2>4, <2>5, TokensAreTaken DEF t
  <1> QED BY <1>1, <1>2, <1>3, <1>4, KeyIs

(* In a saved file each key has one line, and it is taken if the value can *)
(* be stored.                                                              *)
LEMMA SavedLineIsLast ==
    ASSUME NEW c, Good(c), NEW i \in 1..19, Storable(c, Keys[i])
    PROVE  LastLine(SavedLines(c), Keys[i]) = {i}
  <1>1. /\ DOMAIN SavedLines(c) = 1..19 /\ Len(SavedLines(c)) = 19
        /\ \A j \in 1..19 : SavedLines(c)[j].key = Keys[j] /\ SavedLines(c)[j].text = Format(c, Keys[j])
    <2> DEFINE f == SavedLines(c)
    <2>1. /\ f \in Seq(AnyLine) /\ Len(f) = 19
          /\ \A j \in 1..19 : f[j] = [key |-> Keys[j], text |-> Format(c, Keys[j])]
      BY SavedLinesIs
    <2> HIDE DEF f
    <2>2. DOMAIN f = 1..19
      BY <2>1
    <2>3. ASSUME NEW j \in 1..19
          PROVE  f[j].key = Keys[j] /\ f[j].text = Format(c, Keys[j])
      <3>1. f[j] = [key |-> Keys[j], text |-> Format(c, Keys[j])]
        BY <2>1
      <3> QED BY <3>1
    <2> QED BY <2>1, <2>2, <2>3 DEF f
  <1>2. \A j \in 1..19 : SavedLines(c)[j].key = Keys[i] <=> j = i
    BY <1>1, KeysAreDistinct
  <1>3. "" \notin Key
    BY KeyIs DEF StringKey, AddrKey, NumberKey, FlagKey
  <1>4. Takes(SavedLines(c)[i])
    <2>1. Keys[i] \in Key /\ Keys[i] # ""
      BY <1>3, KeysAreDistinct
    <2>2. strip(Format(c, Keys[i])) # Empty
      BY <2>1, FormatIsReadBack
    <2> QED BY <1>1, <2>1, <2>2 DEF Takes
  <1> QED BY <1>1, <1>2, <1>4 DEF LastLine

(* A configuration that was saved and loaded again is the one that was     *)
(* saved, in every key whose string can be stored, for every configuration *)
(* that the code may hold.                                                 *)
THEOREM SavedIsAlwaysLoadedBack == Spec => []SavedIsLoadedBack
  <1>1. ShapeInv /\ LoadInv /\ SaveInv => SavedIsLoadedBack
    <2> SUFFICES ASSUME ShapeInv, LoadInv, SaveInv,
                        pc = "idle", loaded.is, saved.is, loaded = Some(file),
                        NEW k \in Key, Storable(saved.of, k)
                 PROVE  AgreeOn(cfg, saved.of, k)
      BY Zenon DEF SavedIsLoadedBack
    <2> DEFINE c == saved.of
    <2>1. PICK i \in 1..19 : k = Keys[i]
      BY KeysAreDistinct DEF Key
    <2>2. ~None.is /\ Some(file).of = file
      BY DEF None, Some
    <2>3. Good(c) /\ file = SavedLines(c) /\ loaded.of = SavedLines(c)
      BY <2>2 DEF SaveInv
    <2> HIDE DEF c
    <2>4. LastLine(SavedLines(c), k) = {i} /\ SavedLines(c)[i].text = Format(c, k)
      <3>1. Storable(c, Keys[i])
        BY <2>1 DEF c
      <3>2. LastLine(SavedLines(c), Keys[i]) = {i}
        BY <2>3, <3>1, SavedLineIsLast
      <3>3. SavedLines(c)[i] = [key |-> Keys[i], text |-> Format(c, Keys[i])]
        BY <2>3, SavedLinesIs
      <3> QED BY <2>1, <3>2, <3>3
    <2>5. AgreeOn(cfg, apply_kv(app_config_default, k, strip(Format(c, k))), k)
      BY <2>3, <2>4, IdleFollows DEF Follows
    <2>6. AgreeOn(apply_kv(app_config_default, k, strip(Format(c, k))), c, k)
      BY <2>3, FormatIsReadBack DEF c
    <2> QED BY <2>5, <2>6, AgreeOnTransitive DEF c
  <1> QED BY <1>1, ShapeInvHolds, LoadInvHolds, SaveInvHolds, PTL
=============================================================================
