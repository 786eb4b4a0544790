------------------------ MODULE SecurityPolicyProofs ------------------------
(***************************************************************************)
(* Proofs about the firewall policy, for tables of every size, all rules   *)
(* and buffers, any number of calls, failing commands and kills.           *)
(***************************************************************************)
EXTENDS SecurityPolicy, FiniteSetTheorems, SequenceTheorems, WellFoundedInduction, TLAPS

----------------------------------------------------------------------------
(* Induction over the natural numbers, on a set instead of a predicate.    *)
LEMMA NatSetInduction ==
    ASSUME NEW T, 0 \in T, \A n \in Nat : n \in T => n + 1 \in T
    PROVE  Nat \subseteq T
  <1> DEFINE R == OpToRel(<, Nat)
             U == {n \in Nat : n \notin T}
  <1>1. ASSUME U # {}
        PROVE  FALSE
    <2>1. PICK m \in U : \A k \in U : ~(<<k, m>> \in R)
      <3>1. IsWellFoundedOn(R, Nat) /\ U \subseteq Nat
        BY NatLessThanWellFounded
      <3> HIDE DEF R, U
      <3> QED BY <1>1, <3>1, WFMin
    <2>2. m \in Nat /\ m \notin T
      BY <2>1
    <2>3. m # 0 /\ m - 1 \in Nat /\ m - 1 < m
      BY <2>2
    <2> DEFINE k == m - 1
    <2>4. <<k, m>> \in Nat \X Nat /\ <<k, m>>[1] < <<k, m>>[2]
      BY <2>2, <2>3
    <2>5. <<k, m>> \in R
      BY <2>4 DEF OpToRel
    <2>6. k \in T
      <3> HIDE DEF R
      <3> QED BY <2>1, <2>3, <2>5
    <2>7. k + 1 = m
      BY <2>2
    <2> HIDE DEF k
    <2> QED BY <2>2, <2>3, <2>6, <2>7 DEF k
  <1> QED BY <1>1

(* The loop that appends can be read round by round.                       *)
Rounds(F, S, e, m) ==
    F = [n \in 0..m |-> IF n = 0 THEN <<>> ELSE IF n \in S THEN Append(F[n - 1], e[n]) ELSE F[n - 1]]

LEMMA AppendedIs ==
    ASSUME NEW S, NEW e, NEW m \in Nat
    PROVE  Rounds(Appended(S, e, m), S, e, m)
  <1> DEFINE T == {k \in Nat : \E F : Rounds(F, S, e, k)}
  <1>1. 0 \in T
    <2>1. Rounds([n \in 0..0 |-> <<>>], S, e, 0)
      BY DEF Rounds
    <2> QED BY <2>1
  <1>2. ASSUME NEW k \in Nat, k \in T
        PROVE  k + 1 \in T
    <2>1. PICK F : Rounds(F, S, e, k)
      BY <1>2
    <2> DEFINE G == [n \in 0..k + 1 |-> IF n <= k THEN F[n]
                                        ELSE IF n \in S THEN Append(F[k], e[n]) ELSE F[k]]
    <2>2. \A n \in 0..k : F[n] = IF n = 0 THEN <<>> ELSE IF n \in S THEN Append(F[n - 1], e[n]) ELSE F[n - 1]
      BY <2>1 DEF Rounds
    <2>3. \A n \in 0..k + 1 : G[n] = IF n = 0 THEN <<>> ELSE IF n \in S THEN Append(G[n - 1], e[n]) ELSE G[n - 1]
      <3>1. \A n \in 0..k : G[n] = F[n]
        OBVIOUS
      <3>2. ASSUME NEW n \in 1..k
            PROVE  n - 1 \in 0..k /\ G[n - 1] = F[n - 1]
        BY <3>1
      <3>3. G[k + 1] = IF k + 1 \in S THEN Append(F[k], e[k + 1]) ELSE F[k]
        OBVIOUS
      <3> HIDE DEF G
      <3>4. G[(k + 1) - 1] = F[k]
        BY <3>1
      <3> QED BY <2>2, <3>1, <3>2, <3>3, <3>4
    <2>4. G = [n \in 0..k + 1 |-> G[n]]
      OBVIOUS
    <2> HIDE DEF G
    <2>5. Rounds(G, S, e, k + 1)
      BY <2>3, <2>4 DEF Rounds
    <2> QED BY <2>5
  <1>3. m \in T
    <2> HIDE DEF T
    <2> QED BY <1>1, <1>2, NatSetInduction
  <1>4. Appended(S, e, m) = CHOOSE F : Rounds(F, S, e, m)
    BY DEF Appended, Rounds
  <1> QED BY <1>3, <1>4

LEMMA AppendedRounds ==
    ASSUME NEW S, NEW e, NEW m \in Nat
    PROVE  /\ Appended(S, e, m)[0] = <<>>
           /\ \A n \in 1..m : Appended(S, e, m)[n] =
                 IF n \in S THEN Append(Appended(S, e, m)[n - 1], e[n]) ELSE Appended(S, e, m)[n - 1]
  <1> DEFINE F == Appended(S, e, m)
  <1>1. Rounds(F, S, e, m)
    BY AppendedIs
  <1> HIDE DEF F
  <1>2. \A n \in 0..m : F[n] = IF n = 0 THEN <<>> ELSE IF n \in S THEN Append(F[n - 1], e[n]) ELSE F[n - 1]
    BY <1>1 DEF Rounds
  <1> QED BY <1>2 DEF F

(* It gives a sequence of what it appends.                                 *)
LEMMA AppendedType ==
    ASSUME NEW S, NEW e, NEW m \in Nat, NEW V, \A n \in 1..m : e[n] \in V
    PROVE  \A n \in 0..m : Appended(S, e, m)[n] \in Seq(V)
  <1> DEFINE F == Appended(S, e, m)
             T == {n \in Nat : n <= m => F[n] \in Seq(V)}
  <1> HIDE DEF F
  <1>0. /\ F[0] = <<>>
        /\ \A n \in 1..m : F[n] = IF n \in S THEN Append(F[n - 1], e[n]) ELSE F[n - 1]
    BY AppendedRounds DEF F
  <1>1. 0 \in T
    <2>1. F[0] \in Seq(V)
      BY <1>0, EmptySeq
    <2> QED BY <2>1
  <1>2. ASSUME NEW n \in Nat, n \in T
        PROVE  n + 1 \in T
    <2> SUFFICES ASSUME n + 1 <= m
                 PROVE  F[n + 1] \in Seq(V)
      OBVIOUS
    <2>1. F[n] \in Seq(V) /\ e[n + 1] \in V
      BY <1>2
    <2>2. F[n + 1] = IF n + 1 \in S THEN Append(F[n], e[n + 1]) ELSE F[n]
      BY <1>0
    <2> QED BY <2>1, <2>2
  <1>3. Nat \subseteq T
    <2> HIDE DEF T
    <2> QED BY <1>1, <1>2, NatSetInduction
  <1> QED BY <1>3 DEF F

----------------------------------------------------------------------------
(* The commands of the rules.                                              *)
ShapeInv ==
    /\ rules \in Table
    /\ rule_count \in 0..MAX_FW_RULES
    /\ pc \in {"idle", "flush", "script"}
    /\ script \in Seq(Command)
    /\ chains \in [sec_chain_t -> Seq(Entry)]
    /\ before \in [sec_chain_t -> Seq(Entry)]

LEMMA CommandType ==
    ASSUME NEW r \in sec_rule_t
    PROVE  generate_rule_line(r) \in Command
  <1>1. proto_to_str(r.protocol) \in {"tcp", "udp", "all"}
    BY DEF proto_to_str
  <1> QED BY <1>1 DEF generate_rule_line, Command, Entry, sec_rule_t, HOST

LEMMA LinesType ==
    ASSUME rules \in Table
    PROVE  \A n \in 0..MAX_FW_RULES : Lines[n] \in Seq(Command)
  <1> DEFINE e == [k \in 1..MAX_FW_RULES |-> generate_rule_line(rules[k - 1])]
             S == {k \in 1..MAX_FW_RULES : rules[k - 1].active}
  <1>2. \A k \in 1..MAX_FW_RULES : e[k] \in Command
    BY CommandType, MaxAssumption DEF Table, Slot
  <1>3. Lines = Appended(S, e, MAX_FW_RULES)
    BY DEF Lines
  <1> HIDE DEF e, S
  <1> QED BY <1>2, <1>3, AppendedType, MaxAssumption

(* The rules of a script that go to one chain, command by command.         *)
LEMMA OfIs ==
    ASSUME NEW s \in Seq(Command), NEW c
    PROVE  /\ Of(s, c)[0] = <<>>
           /\ \A n \in 0..Len(s) : Of(s, c)[n] \in Seq(Entry)
           /\ \A n \in 1..Len(s) : Of(s, c)[n] =
                 IF s[n].chain = c THEN Append(Of(s, c)[n - 1], s[n].rule) ELSE Of(s, c)[n - 1]
  <1> DEFINE e == [k \in DOMAIN s |-> s[k].rule]
             S == {k \in DOMAIN s : s[k].chain = c}
  <1>1. /\ Len(s) \in Nat
        /\ \A k \in 1..Len(s) : e[k] = s[k].rule /\ e[k] \in Entry /\ (k \in S <=> s[k].chain = c)
    <2>1. Len(s) \in Nat /\ DOMAIN s = 1..Len(s) /\ \A k \in 1..Len(s) : s[k] \in Command
      OBVIOUS
    <2>2. \A x \in Command : x.rule \in Entry
      BY DEF Command
    <2> QED BY <2>1, <2>2
  <1>2. Of(s, c) = Appended(S, e, Len(s))
    BY DEF Of
  <1> HIDE DEF e, S
  <1>3. \A n \in 0..Len(s) : Of(s, c)[n] \in Seq(Entry)
    BY <1>1, <1>2, AppendedType
  <1>4. /\ Of(s, c)[0] = <<>>
        /\ \A n \in 1..Len(s) : Of(s, c)[n] = IF n \in S THEN Append(Of(s, c)[n - 1], e[n]) ELSE Of(s, c)[n - 1]
    BY <1>1, <1>2, AppendedRounds
  <1> QED BY <1>1, <1>3, <1>4

(* The tables that the operations leave.                                   *)
LEMMA NewPolicyIs == ZeroRule \in sec_rule_t /\ NewPolicy \in Table
  BY DEF NewPolicy, Table, ZeroRule, sec_rule_t, sec_chain_t, sec_action_t

LEMMA AddedIs ==
    ASSUME ShapeInv, NEW i \in Slot, NEW r \in sec_rule_t, NEW b \in BOOLEAN
    PROVE  [rules EXCEPT ![i] = [r EXCEPT !.active = b]] \in Table
  <1>1. [r EXCEPT !.active = b] \in sec_rule_t
    BY DEF sec_rule_t
  <1> QED BY <1>1 DEF ShapeInv, Table

LEMMA ShiftedIs ==
    ASSUME ShapeInv, NEW i \in 0..rule_count - 1
    PROVE  Shifted(i) \in Table
  BY NewPolicyIs, MaxAssumption DEF Shifted, Table, Slot, ShapeInv

(* The policy, the script and the chains are well formed in every state.   *)
LEMMA ShapeInvHolds == Spec => []ShapeInv
  <1>1. Init => ShapeInv
    BY NewPolicyIs, MaxAssumption DEF Init, ShapeInv
  <1>2. ShapeInv /\ [Next]_vars => ShapeInv'
    <2> SUFFICES ASSUME ShapeInv, [Next]_vars
                 PROVE  ShapeInv'
      OBVIOUS
    <2>0. MAX_FW_RULES \in Nat /\ rule_count \in Nat /\ <<>> \in Seq(Command)
      BY MaxAssumption, EmptySeq DEF ShapeInv
    <2>1. CASE sec_policy_init \/ sec_policy_flush \/ Crash
      <3>1. /\ rules' = NewPolicy /\ rule_count' = 0 /\ pc' = "idle"
            /\ script' = script \/ script' = <<>>
            /\ UNCHANGED <<chains, before>>
        BY <2>1 DEF sec_policy_init, sec_policy_flush, Crash, Idle
      <3>2. rules' \in Table
        BY <3>1, NewPolicyIs
      <3>3. script' \in Seq(Command)
        BY <2>0, <3>1 DEF ShapeInv
      <3>4. rule_count' \in 0..MAX_FW_RULES
        BY <2>0, <3>1
      <3> QED BY <3>1, <3>2, <3>3, <3>4 DEF ShapeInv
    <2>2. ASSUME NEW r \in Rule, sec_policy_add_rule(r)
          PROVE  ShapeInv'
      <3>1. CASE rule_count >= MAX_FW_RULES
        BY <2>2, <3>1 DEF sec_policy_add_rule, Idle, policy, ShapeInv
      <3>2. CASE ~(rule_count >= MAX_FW_RULES)
        <4>1. /\ rules' = [rules EXCEPT ![rule_count] = [r EXCEPT !.active = TRUE]]
              /\ rule_count' = rule_count + 1 /\ UNCHANGED <<pc, script, chains, before>>
          BY <2>2, <3>2 DEF sec_policy_add_rule, Idle
        <4>2. r \in sec_rule_t /\ rule_count \in Slot
          BY <2>0, <3>2, RuleAssumption DEF Slot
        <4>3. rules' \in Table
          BY <4>1, <4>2, AddedIs
        <4> QED BY <2>0, <3>2, <4>1, <4>3 DEF ShapeInv
      <3> QED BY <3>1, <3>2
    <2>3. ASSUME NEW i \in -1..MAX_FW_RULES, sec_policy_remove_rule(i)
          PROVE  ShapeInv'
      <3>1. CASE i < 0 \/ i >= rule_count
        BY <2>3, <3>1 DEF sec_policy_remove_rule, Idle, policy, ShapeInv
      <3>2. CASE ~(i < 0 \/ i >= rule_count)
        <4>1. /\ rules' = Shifted(i)
              /\ rule_count' = rule_count - 1 /\ UNCHANGED <<pc, script, chains, before>>
          BY <2>3, <3>2 DEF sec_policy_remove_rule, Idle
        <4>2. rules' \in Table
          BY <2>0, <3>2, <4>1, ShiftedIs
        <4> QED BY <2>0, <3>2, <4>1, <4>2 DEF ShapeInv
      <3> QED BY <3>1, <3>2
    <2>4. ASSUME NEW i \in Slot, Deactivate(i)
          PROVE  ShapeInv'
      <3>1. /\ rules' = [rules EXCEPT ![i] = [rules[i] EXCEPT !.active = FALSE]]
            /\ UNCHANGED <<rule_count, pc, script, chains, before>>
        BY <2>4 DEF Deactivate, Idle
      <3>2. rules[i] \in sec_rule_t
        BY DEF ShapeInv, Table
      <3>3. rules' \in Table
        BY <3>1, <3>2, AddedIs
      <3> QED BY <3>1, <3>3 DEF ShapeInv
    <2>5. CASE sec_policy_apply
      <3>1. Lines[rule_count] \in Seq(Command)
        BY LinesType DEF ShapeInv
      <3>2. script' = script \/ script' = Lines[rule_count] \/ script' = <<>>
        BY <2>5 DEF sec_policy_apply, sec_policy_generate_script, ENOSPC
      <3>3. before' = chains /\ pc' \in {"idle", "flush"} /\ UNCHANGED <<rules, rule_count, chains>>
        BY <2>5 DEF sec_policy_apply, policy
      <3> QED BY <2>0, <3>1, <3>2, <3>3 DEF ShapeInv
    <2>6. CASE RunLine
      <3> DEFINE h == Head(script)
      <3>1. h \in Command /\ Tail(script) \in Seq(Command)
        BY <2>6 DEF RunLine, ShapeInv
      <3>2. h.chain \in sec_chain_t /\ h.rule \in Entry
        BY <3>1 DEF Command
      <3>3. chains' = [chains EXCEPT ![h.chain] = Append(chains[h.chain], h.rule)]
        BY <2>6 DEF RunLine
      <3> HIDE DEF h
      <3>4. chains' \in [sec_chain_t -> Seq(Entry)]
        BY <3>2, <3>3 DEF ShapeInv
      <3> QED BY <2>6, <3>1, <3>4 DEF RunLine, policy, ShapeInv
    <2>7. CASE \/ \E b \in BOOLEAN : SetEnabled(b)
               \/ (\E fits \in BOOLEAN : sec_policy_audit(fits)) \/ FlushChain \/ LineFails \/ ScriptEnds \/ UNCHANGED vars
      <3>1. /\ script' = script \/ script' = <<>>
            /\ pc' \in {"idle", "flush", "script"}
            /\ UNCHANGED <<rules, rule_count, chains, before>>
        BY <2>7 DEF SetEnabled, sec_policy_audit, FlushChain, LineFails, ScriptEnds, ApplyReturns,
                    Idle, policy, vars, ShapeInv
      <3> QED BY <2>0, <3>1 DEF ShapeInv
    <2> QED BY <2>1, <2>2, <2>3, <2>4, <2>5, <2>6, <2>7 DEF Next
  <1> QED BY <1>1, <1>2, PTL DEF Spec

----------------------------------------------------------------------------
(* The chains are those of before with the first n commands of all behind  *)
(* them.                                                                   *)
All == Lines[rule_count]

Ran(now, then, all, n) == \A c \in sec_chain_t : now[c] = then[c] \o Of(all, c)[n]

(* While sec_policy_apply runs, the script is the rest of the commands; the *)
(* others have run.  After it, as many have run as its result says.         *)
RunInv ==
    pc # "idle" =>
        /\ Len(script) <= Len(All)
        /\ \A i \in 1..Len(script) : script[i] = All[Len(All) - Len(script) + i]
        /\ Ran(chains, before, All, Len(All) - Len(script))

DoneInv ==
    last.op = "apply" /\ pc = "idle" =>
        /\ last.ret \in {0, EIO, ENOSPC}
        /\ \E n \in 0..Len(All) :
              /\ Ran(chains, before, All, n)
              /\ last.ret = 0 => n = Len(All)
              /\ last.ret = ENOSPC => chains = before

(* A clean audit has found the table less than three quarters full.        *)
AuditInv == last = [op |-> "audit", ret |-> 0] => rule_count < MAX_FW_RULES

LEMMA AllType == ShapeInv => All \in Seq(Command) /\ Len(All) \in Nat
  BY LinesType DEF ShapeInv, All

(* The commands change only when the table does.                           *)
LEMMA AllStays == UNCHANGED <<rules, rule_count>> => All' = All
  BY DEF All, Lines

(* Before the first command nothing has changed.                           *)
LEMMA NothingHasRun ==
    ASSUME NEW now \in [sec_chain_t -> Seq(Entry)], NEW all \in Seq(Command)
    PROVE  Ran(now, now, all, 0)
  <1>1. \A c \in sec_chain_t : Of(all, c)[0] = <<>>
    BY OfIs
  <1>2. \A c \in sec_chain_t : now[c] = now[c] \o <<>>
    BY ConcatEmptySeq
  <1> QED BY <1>1, <1>2 DEF Ran

LEMMA AppendBehind ==
    \A s, t \in Seq(Entry), x \in Entry : Append(s \o t, x) = s \o Append(t, x)
  OBVIOUS

(* What the next command adds to a chain.                                  *)
LEMMA OfNext ==
    ASSUME NEW all \in Seq(Command), NEW n \in 0..Len(all) - 1, NEW c
    PROVE  /\ Of(all, c)[n] \in Seq(Entry)
           /\ Of(all, c)[n + 1] =
                 IF all[n + 1].chain = c THEN Append(Of(all, c)[n], all[n + 1].rule) ELSE Of(all, c)[n]
  <1> DEFINE j == n + 1
  <1>1. n \in 0..Len(all) /\ j \in 1..Len(all) /\ j - 1 = n
    OBVIOUS
  <1>2. /\ \A i \in 0..Len(all) : Of(all, c)[i] \in Seq(Entry)
        /\ \A i \in 1..Len(all) : Of(all, c)[i] =
              IF all[i].chain = c THEN Append(Of(all, c)[i - 1], all[i].rule) ELSE Of(all, c)[i - 1]
    BY OfIs
  <1> HIDE DEF j
  <1>3. Of(all, c)[j] = IF all[j].chain = c THEN Append(Of(all, c)[n], all[j].rule) ELSE Of(all, c)[n]
    BY <1>1, <1>2
  <1> QED BY <1>1, <1>2, <1>3 DEF j

(* A command that runs is the next one.                                    *)
LEMMA OneMoreHasRun ==
    ASSUME NEW now \in [sec_chain_t -> Seq(Entry)], NEW then \in [sec_chain_t -> Seq(Entry)],
           NEW all \in Seq(Command), NEW n \in 0..Len(all) - 1, Ran(now, then, all, n),
           NEW h, h = all[n + 1]
    PROVE  Ran([now EXCEPT ![h.chain] = Append(@, h.rule)], then, all, n + 1)
  <1> DEFINE next == [now EXCEPT ![h.chain] = Append(@, h.rule)]
  <1> HIDE DEF next
  <1>1. h \in Command /\ h.chain \in sec_chain_t /\ h.rule \in Entry
    <2>1. h \in Command
      OBVIOUS
    <2> QED BY <2>1 DEF Command
  <1>2. ASSUME NEW c \in sec_chain_t
        PROVE  next[c] = then[c] \o Of(all, c)[n + 1]
    <2> DEFINE o == Of(all, c)[n]
               b == then[c]
               x == h.rule
    <2>1. /\ o \in Seq(Entry)
          /\ Of(all, c)[n + 1] = IF h.chain = c THEN Append(o, x) ELSE o
      BY OfNext
    <2>2. now[c] = b \o o /\ b \in Seq(Entry)
      BY DEF Ran
    <2>3. next[c] = IF h.chain = c THEN Append(now[c], x) ELSE now[c]
      BY <1>1 DEF next
    <2>4. x \in Entry
      BY <1>1
    <2> HIDE DEF o, b, x
    <2>5. Append(b \o o, x) = b \o Append(o, x)
      BY <2>1, <2>2, <2>4, AppendBehind
    <2> QED BY <2>1, <2>2, <2>3, <2>5 DEF b
  <1>3. Ran(next, then, all, n + 1)
    BY <1>2 DEF Ran
  <1> QED BY <1>3 DEF next

LEMMA RunInvHolds == Spec => [](RunInv /\ DoneInv)
  <1>1. Init => RunInv /\ DoneInv
    BY DEF Init, RunInv, DoneInv
  <1>2. ShapeInv /\ ShapeInv' /\ RunInv /\ DoneInv /\ [Next]_vars => RunInv' /\ DoneInv'
    <2> SUFFICES ASSUME ShapeInv, ShapeInv', RunInv, DoneInv, [Next]_vars
                 PROVE  RunInv' /\ DoneInv'
      OBVIOUS
    <2>0. /\ All \in Seq(Command) /\ Len(All) \in Nat /\ script \in Seq(Command) /\ Len(script) \in Nat
          /\ chains \in [sec_chain_t -> Seq(Entry)] /\ before \in [sec_chain_t -> Seq(Entry)]
      BY AllType DEF ShapeInv
    <2>1. CASE sec_policy_apply
      <3>1. UNCHANGED <<rules, rule_count, chains>> /\ before' = chains /\ pc = "idle"
        BY <2>1 DEF sec_policy_apply, policy
      <3>2. Ran(chains', before', All', 0) /\ All' = All
        BY <2>0, <3>1, NothingHasRun, AllStays
      <3>3. \/ pc' = "idle" /\ last' = [op |-> "apply", ret |-> ENOSPC]
            \/ pc' = "flush" /\ script' = All
        BY <2>1 DEF sec_policy_apply, sec_policy_generate_script, Return, All, ENOSPC
      <3>4. CASE pc' = "idle" /\ last' = [op |-> "apply", ret |-> ENOSPC]
        BY <2>0, <3>1, <3>2, <3>4 DEF RunInv, DoneInv, ENOSPC
      <3>5. CASE pc' = "flush" /\ script' = All
        <4>1. Len(All) - Len(All) = 0
          BY <2>0
        <4> QED BY <2>0, <3>2, <3>5, <4>1 DEF RunInv, DoneInv
      <3> QED BY <3>3, <3>4, <3>5
    <2>2. CASE RunLine
      <3>1. /\ script # <<>> /\ pc = "script" /\ pc' = "script" /\ script' = Tail(script)
            /\ UNCHANGED <<rules, rule_count, before>>
            /\ chains' = [chains EXCEPT ![Head(script).chain] = Append(@, Head(script).rule)]
        BY <2>2 DEF RunLine, policy
      <3> DEFINE n == Len(All) - Len(script)
      <3>2. /\ Len(script) <= Len(All) /\ Ran(chains, before, All, n)
            /\ \A i \in 1..Len(script) : script[i] = All[n + i]
        BY <3>1 DEF RunInv
      <3>3. /\ Len(script) \in Nat \ {0} /\ n \in 0..Len(All) - 1 /\ Head(script) = script[1]
            /\ Len(Tail(script)) = Len(script) - 1
            /\ \A i \in 1..Len(script) - 1 : Tail(script)[i] = script[i + 1]
        BY <2>0, <3>1, <3>2
      <3>4. Head(script) = All[n + 1]
        BY <3>2, <3>3
      <3>5. Ran(chains', before', All, n + 1)
        <4> DEFINE h == Head(script)
        <4>1. /\ h = All[n + 1]
              /\ chains' = [chains EXCEPT ![h.chain] = Append(@, h.rule)] /\ before' = before
          BY <3>1, <3>4
        <4> HIDE DEF n, h
        <4>2. Ran([chains EXCEPT ![h.chain] = Append(@, h.rule)], before, All, n + 1)
          BY <2>0, <3>2, <3>3, <4>1, OneMoreHasRun
        <4> QED BY <4>1, <4>2
      <3>6. All' = All /\ Len(All) - Len(script') = n + 1
        BY <2>0, <3>1, <3>3, AllStays
      <3>7. /\ Len(script') <= Len(All)
            /\ \A i \in 1..Len(script') : script'[i] = All[(n + 1) + i]
        BY <2>0, <3>1, <3>2, <3>3
      <3> HIDE DEF n
      <3>8. RunInv'
        BY <3>5, <3>6, <3>7 DEF RunInv
      <3> QED BY <3>1, <3>8 DEF DoneInv
    <2>3. CASE LineFails \/ ScriptEnds
      <3>1. /\ pc = "script" /\ pc' = "idle" /\ UNCHANGED <<rules, rule_count, chains, before>>
            /\ \/ last' = [op |-> "apply", ret |-> EIO]
               \/ last' = [op |-> "apply", ret |-> 0] /\ script = <<>>
        BY <2>3 DEF LineFails, ScriptEnds, ApplyReturns, Return, policy
      <3>2. All' = All
        BY <3>1, AllStays
      <3> DEFINE n == Len(All) - Len(script)
      <3>3. Ran(chains, before, All, n) /\ n \in 0..Len(All) /\ (script = <<>> => n = Len(All))
        BY <2>0, <3>1 DEF RunInv
      <3> HIDE DEF n
      <3>4. last'.ret \in {0, EIO, ENOSPC} /\ last'.ret # ENOSPC /\ (last'.ret = 0 => n = Len(All))
        BY <3>1, <3>3 DEF EIO, ENOSPC
      <3>5. DoneInv'
        BY <3>1, <3>2, <3>3, <3>4 DEF DoneInv
      <3> QED BY <3>1, <3>5 DEF RunInv
    <2>4. CASE FlushChain \/ UNCHANGED vars
      <3>1. CASE FlushChain
        <4>1. /\ UNCHANGED <<rules, rule_count, chains, before, script>>
              /\ pc = "flush" /\ pc' = "script"
          BY <3>1 DEF FlushChain, policy
        <4> QED BY <4>1, AllStays DEF RunInv, DoneInv
      <3>2. CASE UNCHANGED vars
        <4>1. UNCHANGED <<rules, rule_count, chains, before, script, last, pc>>
          BY <3>2 DEF policy, vars
        <4> QED BY <4>1, AllStays DEF RunInv, DoneInv
      <3> QED BY <2>4, <3>1, <3>2
    <2>5. CASE \/ sec_policy_init \/ sec_policy_flush \/ (\E fits \in BOOLEAN : sec_policy_audit(fits)) \/ Crash
               \/ \E r \in Rule : sec_policy_add_rule(r)
               \/ \E i \in -1..MAX_FW_RULES : sec_policy_remove_rule(i)
               \/ \E b \in BOOLEAN : SetEnabled(b)
               \/ \E i \in Slot : Deactivate(i)
      <3>1. pc' = "idle" /\ last'.op # "apply"
        BY <2>5 DEF sec_policy_init, sec_policy_flush, sec_policy_audit, Crash, sec_policy_add_rule,
                    sec_policy_remove_rule, SetEnabled, Deactivate, Idle, Return
      <3> QED BY <3>1 DEF RunInv, DoneInv
    <2> QED BY <2>1, <2>2, <2>3, <2>4, <2>5 DEF Next
  <1> QED BY <1>1, <1>2, ShapeInvHolds, PTL DEF Spec

(* However sec_policy_apply ends, the host has the rules of a prefix of    *)
(* the table, and of the whole table after success.                        *)
THEOREM HostAlwaysHasAPrefix == Spec => []HostHasAPrefix
  <1>1. ShapeInv /\ RunInv /\ DoneInv => HostHasAPrefix
    BY DEF RunInv, DoneInv, HostHasAPrefix, All, Ran
  <1> QED BY <1>1, ShapeInvHolds, RunInvHolds, PTL

(* The audit that returns 0 found no warning, and so a table that is less  *)
(* than three quarters full.                                               *)
LEMMA CleanIsNotFull ==
    ASSUME Cardinality(Warnings) = 0, rule_count \in 0..MAX_FW_RULES
    PROVE  rule_count < MAX_FW_RULES
  <1> DEFINE kinds == {"disabled", "empty", "no default deny", "no IPSec", "nearly full"}
  <1>1. IsFiniteSet(kinds)
    <2>1. kinds = {"disabled"} \cup {"empty"} \cup {"no default deny"} \cup {"no IPSec"} \cup {"nearly full"}
      OBVIOUS
    <2> HIDE DEF kinds
    <2> QED BY <2>1, FS_Singleton, FS_Union
  <1>2. Warnings \subseteq kinds
    BY Zenon DEF Warnings
  <1> HIDE DEF kinds
  <1>3. Warnings = {}
    BY <1>1, <1>2, FS_Subset, FS_EmptySet
  <1>4. ~NearlyFull
    BY <1>3, Zenon DEF Warnings
  <1> QED BY <1>4, MaxAssumption DEF NearlyFull

LEMMA AuditInvHolds == Spec => []AuditInv
  <1>1. Init => AuditInv
    BY DEF Init, AuditInv
  <1>2. ShapeInv /\ AuditInv /\ [Next]_vars => AuditInv'
    <2> SUFFICES ASSUME ShapeInv, AuditInv, [Next]_vars, last' = [op |-> "audit", ret |-> 0]
                 PROVE  rule_count' < MAX_FW_RULES
      BY DEF AuditInv
    <2>1. CASE \E fits \in BOOLEAN : sec_policy_audit(fits)
      <3>1. Cardinality(Warnings) = 0 /\ rule_count' = rule_count
        BY <2>1 DEF sec_policy_audit, Return, policy, ENOSPC
      <3> QED BY <3>1, CleanIsNotFull DEF ShapeInv
    <2>2. CASE UNCHANGED <<last, rule_count>>
      BY <2>2 DEF AuditInv
    <2>3. CASE last'.op # "audit"
      BY <2>3
    <2>4. (\E fits \in BOOLEAN : sec_policy_audit(fits)) \/ UNCHANGED <<last, rule_count>> \/ last'.op # "audit"
      BY DEF Next, sec_policy_init, sec_policy_flush, sec_policy_apply, Crash, sec_policy_add_rule,
             sec_policy_remove_rule, SetEnabled, Deactivate, FlushChain, RunLine, LineFails, ScriptEnds,
             ApplyReturns, Return, policy, vars
    <2> QED BY <2>1, <2>2, <2>3, <2>4
  <1> QED BY <1>1, <1>2, ShapeInvHolds, PTL DEF Spec

(* For tables of every size: after an audit without a warning the next     *)
(* rule is not refused for want of room.                                   *)
THEOREM CleanAuditAlwaysLeavesRoom == Spec => CleanAuditLeavesRoom
  <1>1. ShapeInv /\ AuditInv /\ [Next]_vars =>
           [last = [op |-> "audit", ret |-> 0] => last' # [op |-> "add", ret |-> ENOSPC]]_vars
    <2> SUFFICES ASSUME ShapeInv, AuditInv, [Next]_vars, last = [op |-> "audit", ret |-> 0],
                        last' = [op |-> "add", ret |-> ENOSPC]
                 PROVE  FALSE
      OBVIOUS
    <2>1. rule_count < MAX_FW_RULES /\ rule_count \in Nat /\ MAX_FW_RULES \in Nat
      BY MaxAssumption DEF AuditInv, ShapeInv
    <2>2. last'.op # last.op /\ last'.op = "add" /\ last'.ret = ENOSPC
      OBVIOUS
    <2>3. PICK r \in Rule : sec_policy_add_rule(r)
      BY <2>2 DEF Next, sec_policy_init, sec_policy_flush, sec_policy_apply, sec_policy_audit, Crash,
                  sec_policy_remove_rule, SetEnabled, Deactivate, FlushChain, RunLine, LineFails,
                  ScriptEnds, ApplyReturns, Return, vars
    <2> QED BY <2>1, <2>2, <2>3 DEF sec_policy_add_rule, Return, ENOSPC
  <1> QED BY <1>1, ShapeInvHolds, AuditInvHolds, PTL DEF Spec, CleanAuditLeavesRoom

----------------------------------------------------------------------------
(* The table is the list of its first n slots.                             *)
ListOf(t, n) == [k \in 1..n |-> t[k - 1]]

LEMMA ListOfType ==
    ASSUME NEW t \in Table, NEW n \in 0..MAX_FW_RULES
    PROVE  /\ ListOf(t, n) \in Seq(sec_rule_t) /\ Len(ListOf(t, n)) = n
           /\ \A k \in 1..n : ListOf(t, n)[k] = t[k - 1]
  <1>1. \A k \in 1..n : t[k - 1] \in sec_rule_t
    BY MaxAssumption DEF Table, Slot
  <1>2. n \in Nat
    BY MaxAssumption
  <1> QED BY <1>1, <1>2 DEF ListOf

(* Two lists of the same length with the same rules are the same.          *)
LEMMA SameRules ==
    ASSUME NEW s \in Seq(sec_rule_t), NEW t \in Seq(sec_rule_t), NEW n \in Nat, Len(s) = n, Len(t) = n,
           \A k \in 1..n : s[k] = t[k]
    PROVE  s = t
  BY SeqEqual

(* A rule written behind the last one is appended.                         *)
LEMMA AddedIsAppended ==
    ASSUME NEW t \in Table, NEW n \in 0..MAX_FW_RULES - 1, NEW r \in sec_rule_t
    PROVE  ListOf([t EXCEPT ![n] = r], n + 1) = Append(ListOf(t, n), r)
  <1> DEFINE u == [t EXCEPT ![n] = r]
  <1>1. /\ n \in Slot /\ n \in 0..MAX_FW_RULES /\ n + 1 \in 0..MAX_FW_RULES /\ n + 1 \in Nat
        /\ u \in Table /\ u[n] = r /\ \A i \in Slot : i # n => u[i] = t[i]
    BY MaxAssumption DEF Slot, Table
  <1> HIDE DEF u
  <1>2. /\ ListOf(u, n + 1) \in Seq(sec_rule_t) /\ Len(ListOf(u, n + 1)) = n + 1
        /\ \A k \in 1..n + 1 : ListOf(u, n + 1)[k] = u[k - 1]
    BY <1>1, ListOfType
  <1>3. /\ ListOf(t, n) \in Seq(sec_rule_t) /\ Len(ListOf(t, n)) = n
        /\ \A k \in 1..n : ListOf(t, n)[k] = t[k - 1]
    BY <1>1, ListOfType
  <1> DEFINE a == ListOf(t, n)
             b == Append(a, r)
  <1>4. /\ b \in Seq(sec_rule_t) /\ Len(b) = n + 1 /\ b[n + 1] = r
        /\ \A k \in 1..n : b[k] = t[k - 1]
    <2> HIDE DEF a
    <2> QED BY <1>3 DEF a
  <1>5. \A k \in 1..n : k - 1 \in Slot /\ k - 1 # n
    BY MaxAssumption DEF Slot
  <1> HIDE DEF b
  <1>6. \A k \in 1..n + 1 : ListOf(u, n + 1)[k] = b[k]
    <2> TAKE k \in 1..n + 1
    <2>1. CASE k = n + 1
      BY <1>1, <1>2, <1>4, <2>1
    <2>2. CASE k # n + 1
      <3>1. k \in 1..n
        BY <2>2
      <3> QED BY <1>1, <1>2, <1>4, <1>5, <3>1
    <2> QED BY <2>1, <2>2
  <1>7. ListOf(u, n + 1) = b
    BY <1>1, <1>2, <1>4, <1>6, SameRules
  <1> QED BY <1>7 DEF u, b

(* A rule written in its place is replaced.                                *)
LEMMA ChangedIsReplaced ==
    ASSUME NEW t \in Table, NEW n \in 0..MAX_FW_RULES, NEW i \in 0..n - 1, NEW r \in sec_rule_t
    PROVE  ListOf([t EXCEPT ![i] = r], n) = ReplaceAt(ListOf(t, n), i + 1, r)
  <1>1. n \in Nat /\ i \in Slot /\ \A k \in 1..n : k - 1 \in Slot /\ (k - 1 = i <=> k = i + 1)
    BY MaxAssumption DEF Slot
  <1> QED BY <1>1 DEF ListOf, ReplaceAt, Table

(* The loop that moves the rules behind a place down deletes that rule.    *)
LEMMA ShiftedIsRemoved ==
    ASSUME ShapeInv, NEW i \in 0..rule_count - 1
    PROVE  ListOf(Shifted(i), rule_count - 1) = RemoveAt(ListOf(rules, rule_count), i + 1)
  <1> DEFINE n == rule_count
             l == ListOf(rules, n)
             u == ListOf(Shifted(i), n - 1)
             p == SubSeq(l, 1, i)
             q == SubSeq(l, i + 2, n)
  <1>1. n \in Nat /\ n >= 1 /\ n - 1 \in Nat /\ n - 1 \in 0..MAX_FW_RULES /\ n \in 0..MAX_FW_RULES
    BY MaxAssumption DEF ShapeInv
  <1>2. l \in Seq(sec_rule_t) /\ Len(l) = n /\ \A k \in 1..n : l[k] = rules[k - 1]
    BY <1>1, ListOfType DEF ShapeInv
  <1>3. u \in Seq(sec_rule_t) /\ Len(u) = n - 1 /\ \A k \in 1..n - 1 : u[k] = Shifted(i)[k - 1]
    <2>1. Shifted(i) \in Table
      BY ShiftedIs
    <2> QED BY <1>1, <2>1, ListOfType
  <1>4. \A k \in 1..n - 1 : Shifted(i)[k - 1] = IF k >= i + 1 THEN rules[k] ELSE rules[k - 1]
    BY <1>1, MaxAssumption DEF Shifted, Slot
  <1> HIDE DEF u, l
  <1>5. /\ p \in Seq(sec_rule_t) /\ Len(p) = i
        /\ \A k \in 1..i : p[k] = l[k]
    <2>1. i \in Int /\ \A k \in 1..i : l[k] \in sec_rule_t
      BY <1>1, <1>2
    <2> QED BY <2>1, SubSeqProperties
  <1>6. /\ q \in Seq(sec_rule_t) /\ Len(q) = n - 1 - i
        /\ \A k \in 1..n - 1 - i : q[k] = l[k + i + 1]
    <2>1. i + 2 \in Int /\ n \in Int /\ \A k \in i + 2..n : l[k] \in sec_rule_t
      BY <1>1, <1>2
    <2>2. /\ q \in Seq(sec_rule_t) /\ Len(q) = IF i + 2 <= n THEN n - (i + 2) + 1 ELSE 0
          /\ \A k \in 1..n - (i + 2) + 1 : q[k] = l[i + 2 + k - 1]
      BY <2>1, SubSeqProperties
    <2>3. \A k \in 1..n - 1 - i : k \in 1..n - (i + 2) + 1 /\ i + 2 + k - 1 = k + i + 1
      BY <1>1
    <2> HIDE DEF q
    <2>4. Len(q) = n - 1 - i
      BY <1>1, <2>2
    <2> QED BY <2>2, <2>3, <2>4
  <1> HIDE DEF p, q
  <1>7. /\ p \o q \in Seq(sec_rule_t) /\ Len(p \o q) = n - 1
        /\ \A k \in 1..n - 1 : (p \o q)[k] = IF k <= i THEN p[k] ELSE q[k - i]
    BY <1>1, <1>5, <1>6
  <1>8. \A k \in 1..n - 1 : u[k] = (p \o q)[k]
    <2> TAKE k \in 1..n - 1
    <2>1. CASE k <= i
      <3>1. k \in 1..i /\ k \in 1..n /\ ~(k >= i + 1)
        BY <1>1, <2>1
      <3>2. u[k] = rules[k - 1]
        BY <1>3, <1>4, <3>1
      <3>3. p[k] = rules[k - 1]
        BY <1>2, <1>5, <3>1
      <3> QED BY <1>7, <2>1, <3>2, <3>3
    <2>2. CASE k > i
      <3>1. k - i \in 1..n - 1 - i /\ (k - i) + i + 1 = k + 1 /\ k + 1 \in 1..n /\ (k + 1) - 1 = k
        BY <1>1, <2>2
      <3>2. q[k - i] = l[k + 1]
        BY <1>6, <3>1
      <3>3. l[k + 1] = rules[k]
        BY <1>2, <3>1
      <3>4. u[k] = rules[k]
        BY <1>1, <1>3, <1>4, <2>2
      <3>5. ~(k <= i)
        BY <1>1, <2>2
      <3>6. (p \o q)[k] = q[k - i]
        BY <1>7, <3>5
      <3> QED BY <3>2, <3>3, <3>4, <3>6
    <2>3. k <= i \/ k > i
      BY <1>1
    <2> QED BY <2>1, <2>2, <2>3, Zenon
  <1>9. u = p \o q
    BY <1>1, <1>3, <1>7, <1>8, SameRules
  <1>10. RemoveAt(l, i + 1) = p \o q
    <2>1. (i + 1) - 1 = i /\ (i + 1) + 1 = i + 2
      OBVIOUS
    <2> QED BY <1>2, <2>1 DEF RemoveAt, p, q
  <1> QED BY <1>9, <1>10 DEF u, l

(* What a step may do to the table.                                        *)
LEMMA TableSteps ==
    ASSUME ShapeInv, [Next]_vars
    PROVE  \/ sec_policy_init \/ sec_policy_flush \/ Crash
           \/ \E r \in Rule : sec_policy_add_rule(r) /\ rule_count < MAX_FW_RULES
           \/ \E i \in 0..rule_count - 1 : sec_policy_remove_rule(i)
           \/ \E i \in Slot : Deactivate(i)
           \/ UNCHANGED <<rules, rule_count>>
  <1>0. MAX_FW_RULES \in Nat /\ rule_count \in Nat
    BY MaxAssumption DEF ShapeInv
  <1>1. ASSUME NEW r \in Rule, sec_policy_add_rule(r), ~(rule_count < MAX_FW_RULES)
        PROVE  UNCHANGED <<rules, rule_count>>
    BY <1>0, <1>1 DEF sec_policy_add_rule, policy
  <1>2. ASSUME NEW i \in -1..MAX_FW_RULES, sec_policy_remove_rule(i), i \notin 0..rule_count - 1
        PROVE  UNCHANGED <<rules, rule_count>>
    BY <1>0, <1>2 DEF sec_policy_remove_rule, policy
  <1>3. CASE \/ sec_policy_apply \/ (\E fits \in BOOLEAN : sec_policy_audit(fits)) \/ (\E b \in BOOLEAN : SetEnabled(b))
             \/ FlushChain \/ RunLine \/ LineFails \/ ScriptEnds \/ UNCHANGED vars
    BY <1>3 DEF sec_policy_apply, sec_policy_audit, SetEnabled, FlushChain, RunLine, LineFails, ScriptEnds,
                policy, vars
  <1> QED BY <1>1, <1>2, <1>3 DEF Next

(* Every rule of the list is one that the client has added, with its       *)
(* active flag.                                                            *)
StoredInv == \A i \in 0..rule_count - 1 : rules[i] \in Stored

LEMMA StoredIs ==
    /\ \A r \in Rule, b \in BOOLEAN : [r EXCEPT !.active = b] \in Stored
    /\ \A r \in Stored : r \in sec_rule_t /\ [r EXCEPT !.active = FALSE] \in Stored
  <1>1. \A r \in Rule, b \in BOOLEAN : [r EXCEPT !.active = b] \in Stored
    BY DEF Stored
  <1>2. ASSUME NEW r \in Stored
        PROVE  r \in sec_rule_t /\ [r EXCEPT !.active = FALSE] \in Stored
    <2>1. PICK s \in Rule, b \in BOOLEAN : r = [s EXCEPT !.active = b]
      BY DEF Stored
    <2>2. s \in sec_rule_t
      BY RuleAssumption
    <2>3. r \in sec_rule_t /\ [r EXCEPT !.active = FALSE] = [s EXCEPT !.active = FALSE]
      BY <2>1, <2>2 DEF sec_rule_t
    <2> QED BY <1>1, <2>3
  <1> QED BY <1>1, <1>2

LEMMA StoredInvHolds == Spec => []StoredInv
  <1>1. Init => StoredInv
    BY DEF Init, StoredInv
  <1>2. ShapeInv /\ StoredInv /\ [Next]_vars => StoredInv'
    <2> SUFFICES ASSUME ShapeInv, StoredInv, [Next]_vars
                 PROVE  StoredInv'
      OBVIOUS
    <2>0. MAX_FW_RULES \in Nat /\ rule_count \in Nat /\ rule_count <= MAX_FW_RULES /\ rules \in Table
      BY MaxAssumption DEF ShapeInv
    <2>1. CASE sec_policy_init \/ sec_policy_flush \/ Crash
      <3>1. rule_count' = 0
        BY <2>1 DEF sec_policy_init, sec_policy_flush, Crash
      <3> QED BY <3>1 DEF StoredInv
    <2>2. ASSUME NEW r \in Rule, sec_policy_add_rule(r), rule_count < MAX_FW_RULES
          PROVE  StoredInv'
      <3> DEFINE s == [r EXCEPT !.active = TRUE]
      <3>1. s \in Stored
        BY StoredIs
      <3>2. rules' = [rules EXCEPT ![rule_count] = s] /\ rule_count' = rule_count + 1
        BY <2>0, <2>2 DEF sec_policy_add_rule
      <3> HIDE DEF s
      <3> QED BY <2>0, <2>2, <3>1, <3>2 DEF StoredInv, Table, Slot
    <2>3. ASSUME NEW i \in 0..rule_count - 1, sec_policy_remove_rule(i)
          PROVE  StoredInv'
      <3>1. rules' = Shifted(i) /\ rule_count' = rule_count - 1
        BY <2>0, <2>3 DEF sec_policy_remove_rule
      <3>2. \A j \in 0..rule_count - 2 : rules'[j] = rules[j] \/ rules'[j] = rules[j + 1]
        BY <2>0, <3>1 DEF Shifted, Slot
      <3>3. \A j \in 0..rule_count - 2 : j \in 0..rule_count - 1 /\ j + 1 \in 0..rule_count - 1
        BY <2>0
      <3>4. \A j \in 0..rule_count - 2 : rules'[j] \in Stored
        BY <3>2, <3>3 DEF StoredInv
      <3> QED BY <2>0, <3>1, <3>4 DEF StoredInv
    <2>4. ASSUME NEW i \in Slot, Deactivate(i)
          PROVE  StoredInv'
      <3> DEFINE s == [rules[i] EXCEPT !.active = FALSE]
      <3>1. rules' = [rules EXCEPT ![i] = s] /\ rule_count' = rule_count /\ i \in 0..rule_count - 1
        BY <2>0, <2>4 DEF Deactivate, Slot
      <3>2. s \in Stored
        BY <3>1, StoredIs DEF StoredInv
      <3> HIDE DEF s
      <3> QED BY <2>0, <3>1, <3>2 DEF StoredInv, Table, Slot
    <2>5. CASE UNCHANGED <<rules, rule_count>>
      BY <2>5 DEF StoredInv
    <2> QED BY <2>1, <2>2, <2>3, <2>4, <2>5, TableSteps
  <1> QED BY <1>1, <1>2, ShapeInvHolds, PTL DEF Spec

(* The table implements the list: sec_policy_add_rule appends, the shifting *)
(* of sec_policy_remove_rule deletes in order, a cleared flag is a change   *)
(* in place, and the other operations empty the list or leave it.           *)
THEOREM TableImplementsList == Spec => ImplementsRuleList
  <1>1. Init => Abstract!Init
    BY DEF Init, Abstract!Init, List
  <1>2. ShapeInv /\ StoredInv /\ [Next]_vars => [Abstract!Next]_List
    <2> SUFFICES ASSUME ShapeInv, StoredInv, [Next]_vars
                 PROVE  Abstract!Next \/ List' = List
      OBVIOUS
    <2>0. /\ MAX_FW_RULES \in Nat /\ rule_count \in 0..MAX_FW_RULES /\ rules \in Table
          /\ List = ListOf(rules, rule_count) /\ List' = ListOf(rules', rule_count')
          /\ List \in Seq(sec_rule_t) /\ Len(List) = rule_count /\ DOMAIN List = 1..rule_count
      BY MaxAssumption, ListOfType DEF ShapeInv, List, ListOf
    <2>1. CASE sec_policy_init \/ sec_policy_flush \/ Crash
      <3>1. rule_count' = 0
        BY <2>1 DEF sec_policy_init, sec_policy_flush, Crash
      <3>2. List' = <<>>
        BY <3>1 DEF List
      <3> QED BY <3>2 DEF Abstract!Next, Abstract!Clear
    <2>2. ASSUME NEW r \in Rule, sec_policy_add_rule(r), rule_count < MAX_FW_RULES
          PROVE  Abstract!Next
      <3> DEFINE s == [r EXCEPT !.active = TRUE]
      <3>1. s \in Stored /\ s \in sec_rule_t
        BY StoredIs
      <3>2. rules' = [rules EXCEPT ![rule_count] = s] /\ rule_count' = rule_count + 1
        BY <2>0, <2>2 DEF sec_policy_add_rule
      <3> HIDE DEF s
      <3>3. rule_count \in 0..MAX_FW_RULES - 1
        BY <2>0, <2>2
      <3>4. List' = Append(List, s)
        BY <2>0, <3>1, <3>2, <3>3, AddedIsAppended
      <3>5. Abstract!Add(s)
        BY <2>0, <2>2, <3>4 DEF Abstract!Add
      <3> QED BY <3>1, <3>5 DEF Abstract!Next
    <2>3. ASSUME NEW i \in 0..rule_count - 1, sec_policy_remove_rule(i)
          PROVE  Abstract!Next
      <3>1. rules' = Shifted(i) /\ rule_count' = rule_count - 1
        BY <2>0, <2>3 DEF sec_policy_remove_rule
      <3>2. List' = RemoveAt(List, i + 1)
        BY <2>0, <3>1, ShiftedIsRemoved
      <3>3. i + 1 \in 1..MAX_FW_RULES /\ i + 1 \in DOMAIN List
        BY <2>0
      <3>4. Abstract!Delete(i + 1)
        BY <3>2, <3>3 DEF Abstract!Delete, RemoveAt, Abstract!RemoveAt
      <3> QED BY <3>3, <3>4 DEF Abstract!Next
    <2>4. ASSUME NEW i \in Slot, Deactivate(i)
          PROVE  Abstract!Next
      <3> DEFINE s == [rules[i] EXCEPT !.active = FALSE]
      <3>1. rules' = [rules EXCEPT ![i] = s] /\ rule_count' = rule_count /\ i \in 0..rule_count - 1
        BY <2>0, <2>4 DEF Deactivate, Slot
      <3>2. s \in Stored /\ s \in sec_rule_t
        BY <3>1, StoredIs DEF StoredInv
      <3> HIDE DEF s
      <3>3. List' = ReplaceAt(List, i + 1, s)
        BY <2>0, <3>1, <3>2, ChangedIsReplaced
      <3>4. i + 1 \in 1..MAX_FW_RULES /\ i + 1 \in DOMAIN List
        BY <2>0, <3>1
      <3>5. Abstract!Change(i + 1, s)
        BY <3>3, <3>4 DEF Abstract!Change, ReplaceAt, Abstract!ReplaceAt
      <3> QED BY <3>2, <3>4, <3>5 DEF Abstract!Next
    <2>5. CASE UNCHANGED <<rules, rule_count>>
      BY <2>5 DEF List
    <2> QED BY <2>1, <2>2, <2>3, <2>4, <2>5, TableSteps
  <1> QED BY <1>1, <1>2, ShapeInvHolds, StoredInvHolds, PTL DEF Spec, ImplementsRuleList, Abstract!Spec
=============================================================================
