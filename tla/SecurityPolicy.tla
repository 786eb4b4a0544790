--------------------------- MODULE SecurityPolicy ---------------------------
(***************************************************************************)
(* The firewall half of src/security/security_policy.c: the rule table of  *)
(* a sec_policy_t, the script generated from it, and the script running    *)
(* line by line (set -e) on a host whose chains outlive the process.  A    *)
(* client calls the operations in any order; the process may be killed     *)
(* between any two lines, and the next one starts from a new policy.       *)
(***************************************************************************)
EXTENDS Integers, SequencesExt

CONSTANTS
    MAX_FW_RULES,
    Rule,            \* the rules the client adds
    SCRIPT_SIZE,     \* the script buffer of sec_policy_apply
    HEADER, FOOTER,  \* bytes of the script's head and tail
    LINE,            \* bytes of a rule's section, its comment apart
    MayFail,         \* may an iptables command fail for reasons of the host?
    MayCrash,        \* may the process be killed?
    MaxApplies       \* bound: calls of sec_policy_apply

sec_action_t == {"ACCEPT", "DROP", "REJECT"}
sec_chain_t  == {"INPUT", "OUTPUT", "FORWARD"}

(* The comment is its length.  priority is stored and never read.          *)
sec_rule_t ==
    [ chain : sec_chain_t, src_ip : Nat, src_mask : Nat, dst_port : Nat, protocol : Nat,
      action : sec_action_t, active : BOOLEAN, comment : Nat ]

ZeroRule ==
    [ chain |-> "INPUT", src_ip |-> 0, src_mask |-> 0, dst_port |-> 0, protocol |-> 0,
      action |-> "ACCEPT", active |-> FALSE, comment |-> 0 ]

ASSUME MaxAssumption    == MAX_FW_RULES \in Nat \ {0}
ASSUME RuleAssumption   == Rule \subseteq sec_rule_t
ASSUME SizeAssumption   == /\ SCRIPT_SIZE \in Nat /\ HEADER \in Nat
                           /\ FOOTER \in Nat /\ LINE \in Nat
ASSUME FaultAssumption  == MayFail \in BOOLEAN /\ MayCrash \in BOOLEAN
ASSUME AppliesAssumption == MaxApplies \in Nat

EIO == -5
ENOSPC == -28
ERANGE == -34

VARIABLES
    rules, rule_count, enabled,   \* the sec_policy_t
    pc,                           \* idle, flush or script: where sec_policy_apply is
    script,                       \* the generated commands that are still to run
    chains,                       \* the host's chains
    last,                         \* the last operation that returned, and its value
    before,                       \* chains when sec_policy_apply was called
    applies                       \* calls of sec_policy_apply so far

policy == <<rules, rule_count, enabled>>
vars == <<policy, pc, script, chains, last, before, applies>>

Slot == 0..MAX_FW_RULES - 1
Table == [Slot -> sec_rule_t]
List == [k \in 1..rule_count |-> rules[k - 1]]

Entry == [source : Nat \X Nat, proto : {"tcp", "udp", "all"}, dport : Nat, target : sec_action_t]
Command == [chain : sec_chain_t, rule : Entry]

TypeOK ==
    /\ rules \in Table
    /\ rule_count \in 0..MAX_FW_RULES
    /\ enabled \in BOOLEAN
    /\ pc \in {"idle", "flush", "script"}
    /\ script \in Seq(Command)
    /\ chains \in [sec_chain_t -> Seq(Entry)]
    /\ before \in [sec_chain_t -> Seq(Entry)]
    /\ last \in [op : {"init", "add", "remove", "flush", "edit", "audit", "apply"}, ret : Int]
    /\ applies \in 0..MaxApplies

NewPolicy == [i \in Slot |-> ZeroRule]

Init ==
    /\ rules = NewPolicy
    /\ rule_count = 0
    /\ enabled = FALSE
    /\ pc = "idle"
    /\ script = <<>>
    /\ chains = [c \in sec_chain_t |-> <<>>]
    /\ before = chains
    /\ last = [op |-> "init", ret |-> 0]
    /\ applies = 0

Return(op, ret) == last' = [op |-> op, ret |-> ret]
Idle == pc = "idle" /\ UNCHANGED <<pc, script, chains, before, applies>>

----------------------------------------------------------------------------
(* The rule table.                                                         *)
sec_policy_init ==
    /\ Idle
    /\ rules' = NewPolicy /\ rule_count' = 0 /\ enabled' = FALSE
    /\ Return("init", 0)

sec_policy_add_rule(r) ==
    /\ Idle
    /\ IF rule_count >= MAX_FW_RULES
         THEN UNCHANGED policy /\ Return("add", ENOSPC)
         ELSE /\ rules' = [rules EXCEPT ![rule_count] = [r EXCEPT !.active = TRUE]]
              /\ rule_count' = rule_count + 1
              /\ UNCHANGED enabled
              /\ Return("add", 0)

(* Mutant: the loop ends one rule early.                                   *)
Shifted_ShortLoop(index) ==
    [i \in Slot |-> IF i = rule_count - 1 THEN ZeroRule
                    ELSE IF i >= index /\ i < rule_count - 2 THEN rules[i + 1]
                    ELSE rules[i]]

(* The table after the loop that moves the rules behind index down, and    *)
(* after the last slot is cleared.                                         *)
Shifted(index) ==
    [i \in Slot |-> IF i = rule_count - 1 THEN ZeroRule
                    ELSE IF i >= index /\ i < rule_count - 1 THEN rules[i + 1]
                    ELSE rules[i]]

sec_policy_remove_rule(index) ==
    /\ Idle
    /\ IF index < 0 \/ index >= rule_count
         THEN UNCHANGED policy /\ Return("remove", ERANGE)
         ELSE /\ rules' = Shifted(index)
              /\ rule_count' = rule_count - 1
              /\ UNCHANGED enabled
              /\ Return("remove", 0)

sec_policy_flush ==
    /\ Idle
    /\ rules' = NewPolicy /\ rule_count' = 0
    /\ UNCHANGED enabled
    /\ Return("flush", 0)

(* The client owns the structure: it switches the policy on or off and     *)
(* rules off by writing their fields.                                      *)
SetEnabled(b) ==
    /\ Idle
    /\ enabled' = b
    /\ UNCHANGED <<rules, rule_count>>
    /\ Return("edit", 0)

Deactivate(i) ==
    /\ Idle
    /\ i < rule_count
    /\ rules' = [rules EXCEPT ![i].active = FALSE]
    /\ UNCHANGED <<rule_count, enabled>>
    /\ Return("edit", 0)

----------------------------------------------------------------------------
(* The script.                                                             *)
proto_to_str(p) == CASE p = 6 -> "tcp" [] p = 17 -> "udp" [] OTHER -> "all"

HOST == 32      \* a mask is its length; this one is of a single address

(* An iptables command: the source is left out when src_ip is zero, and is *)
(* a single host when src_mask is.                                         *)
generate_rule_line(r) ==
    [ chain |-> r.chain,
      rule  |-> [ source |-> IF r.src_ip = 0 THEN <<0, 0>>
                             ELSE IF r.src_mask = 0 THEN <<r.src_ip, HOST>>
                             ELSE <<r.src_ip, r.src_mask>>,
                  proto  |-> proto_to_str(r.protocol),
                  dport  |-> r.dst_port,
                  target |-> r.action ] ]

(* Bytes of the head of the script and its first n rules.                  *)
Offset(n) == HEADER + SumFunction([k \in 1..n |-> LINE + List[k].comment])

(* A loop over 1..m that appends e[k] for the k in S: what there is after  *)
(* each round.                                                             *)
Appended(S, e, m) ==
    LET F[n \in 0..m] == IF n = 0 THEN <<>> ELSE IF n \in S THEN Append(F[n - 1], e[n]) ELSE F[n - 1]
    IN  F

(* Lines[n]: the commands of the first n rules; an inactive one leaves a   *)
(* comment.                                                                *)
Lines == Appended({k \in 1..MAX_FW_RULES : rules[k - 1].active},
                  [k \in 1..MAX_FW_RULES |-> generate_rule_line(rules[k - 1])], MAX_FW_RULES)

(* Mutant: the buffer is not watched, and snprintf cuts the script off.    *)
sec_policy_generate_script_CutOff ==
    LET fit == {n \in 0..rule_count : Offset(n) < SCRIPT_SIZE}
    IN  [ret |-> 0, script |-> Lines[CHOOSE n \in fit : \A k \in fit : k <= n]]

(* What sec_policy_generate_script leaves: ENOSPC, or the whole script.    *)
sec_policy_generate_script ==
    IF Offset(rule_count) + FOOTER >= SCRIPT_SIZE
    THEN [ret |-> ENOSPC, script |-> <<>>]
    ELSE [ret |-> 0, script |-> Lines[rule_count]]

(* iptables: --dport needs a protocol that has ports.  External.           *)
iptables_refuses(c) == c.rule.proto = "all"

(* sec_policy_apply: generate, flush, run, and the value it returns.  It   *)
(* never looks at enabled.                                                 *)
sec_policy_apply ==
    /\ pc = "idle" /\ applies < MaxApplies
    /\ applies' = applies + 1
    /\ before' = chains
    /\ LET g == sec_policy_generate_script IN
       IF g.ret < 0
         THEN Return("apply", g.ret) /\ UNCHANGED <<pc, script>>
         ELSE pc' = "flush" /\ script' = g.script /\ UNCHANGED last
    /\ UNCHANGED <<policy, chains>>

(* iptables -F PNET_CHAIN: no rule is ever put into that chain, so the     *)
(* chains that have the rules stay as they are.                            *)
FlushChain ==
    /\ pc = "flush" /\ pc' = "script"
    /\ UNCHANGED <<policy, script, chains, last, before, applies>>

ApplyReturns(ret) == pc' = "idle" /\ script' = <<>> /\ Return("apply", ret)

RunLine ==
    /\ pc = "script" /\ script # <<>>
    /\ ~iptables_refuses(Head(script))
    /\ chains' = [chains EXCEPT ![Head(script).chain] = Append(@, Head(script).rule)]
    /\ script' = Tail(script)
    /\ UNCHANGED <<policy, pc, last, before, applies>>

(* set -e: the first command that fails ends the script.                   *)
LineFails ==
    /\ pc = "script" /\ script # <<>>
    /\ MayFail \/ iptables_refuses(Head(script))
    /\ ApplyReturns(EIO)
    /\ UNCHANGED <<policy, chains, before, applies>>

ScriptEnds ==
    /\ pc = "script" /\ script = <<>>
    /\ ApplyReturns(0)
    /\ UNCHANGED <<policy, chains, before, applies>>

----------------------------------------------------------------------------
(* What sec_policy_audit looks for.                                        *)
IsDefaultDeny(r) ==
    /\ r.chain = "INPUT" /\ r.protocol = 0 /\ r.dst_port = 0 /\ r.src_ip = 0
    /\ r.action \in {"DROP", "REJECT"}

IsIpsec(r) == r.protocol = 17 /\ r.dst_port \in {500, 4500}

(* Mutant: the table is nearly full when it is more than full.             *)
NearlyFull_Over == rule_count > MAX_FW_RULES

NearlyFull == rule_count > (MAX_FW_RULES * 3) \div 4

(* The warnings; inactive rules count as rules.                            *)
Warnings ==
    {w \in {"disabled", "empty", "no default deny", "no IPSec", "nearly full"} :
        \/ w = "disabled"        /\ ~enabled
        \/ w = "empty"           /\ rule_count = 0
        \/ w = "no default deny" /\ \A k \in DOMAIN List : ~IsDefaultDeny(List[k])
        \/ w = "no IPSec"        /\ \A k \in DOMAIN List : ~IsIpsec(List[k])
        \/ w = "nearly full"     /\ NearlyFull}

(* The number of warnings, or ENOSPC if the whole report does not fit in   *)
(* the caller's buffer.  What is then written behind the buffer, once the  *)
(* offset has passed its end, is not modelled.                             *)
sec_policy_audit(fits) ==
    /\ Idle
    /\ UNCHANGED policy
    /\ Return("audit", IF fits THEN Cardinality(Warnings) ELSE ENOSPC)

(* The process is killed, with the shell it waits for; the next one begins *)
(* with sec_policy_init.                                                   *)
Crash ==
    /\ MayCrash
    /\ rules' = NewPolicy /\ rule_count' = 0 /\ enabled' = FALSE
    /\ pc' = "idle" /\ script' = <<>>
    /\ Return("init", 0)
    /\ UNCHANGED <<chains, before, applies>>

Next ==
    \/ sec_policy_init \/ sec_policy_flush \/ sec_policy_apply
    \/ \E fits \in BOOLEAN : sec_policy_audit(fits)
    \/ \E r \in Rule : sec_policy_add_rule(r)
    \/ \E i \in -1..MAX_FW_RULES : sec_policy_remove_rule(i)
    \/ \E b \in BOOLEAN : SetEnabled(b)
    \/ \E i \in Slot : Deactivate(i)
    \/ FlushChain \/ RunLine \/ LineFails \/ ScriptEnds
    \/ Crash

Spec == Init /\ [][Next]_vars

----------------------------------------------------------------------------
(* Of(s, c)[n]: the rules of the first n commands of s that go to chain c. *)
Of(s, c) == Appended({k \in DOMAIN s : s[k].chain = c}, [k \in DOMAIN s |-> s[k].rule], Len(s))

(* Whatever ends sec_policy_apply, success, failure or a kill between two  *)
(* commands, the host has the rules of a prefix of the table, never a      *)
(* later rule without the earlier ones (a DROP without the ACCEPTs before  *)
(* it).  After success it is the whole table, in order: a script that does *)
(* not fit its buffer is never run in part, and a command that fails is    *)
(* never passed over.  Whether the rules that were there before stay in    *)
(* front of it or have been flushed is left open.                          *)
HostHasAPrefix ==
    LET all == Lines[rule_count]
        Has(n) == \/ \A c \in sec_chain_t : chains[c] = before[c] \o Of(all, c)[n]
                  \/ \A c \in sec_chain_t : chains[c] = Of(all, c)[n]
    IN  /\ pc = "script" => Has(Len(all) - Len(script))
        /\ last.op = "apply" /\ pc = "idle" =>
              /\ last.ret = ENOSPC => chains = before
              /\ last.ret # ENOSPC => \E n \in 0..Len(all) :
                    Has(n) /\ (last.ret = 0 => n = Len(all))

(* The audit warns of a table that fills up before it is full: a policy    *)
(* that passed it without a warning can take another rule.                 *)
CleanAuditLeavesRoom ==
    [][last = [op |-> "audit", ret |-> 0] => last' # [op |-> "add", ret |-> ENOSPC]]_vars

(* The table with its shifting is the list that security_policy.h offers.  *)
Stored == {[r EXCEPT !.active = b] : r \in Rule, b \in BOOLEAN}

Abstract == INSTANCE RuleList WITH MaxLen <- MAX_FW_RULES, Rules <- Stored, list <- List

ImplementsRuleList == Abstract!Spec
=============================================================================
