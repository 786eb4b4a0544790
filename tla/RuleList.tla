------------------------------ MODULE RuleList ------------------------------
(***************************************************************************)
(* What security_policy.h promises of a policy: an ordered list of at most *)
(* MaxLen rules that grows at its end, loses the rule at a given place and *)
(* keeps the order of the others, has a rule marked, and can be emptied.   *)
(***************************************************************************)
EXTENDS Naturals, SequencesExt

CONSTANTS MaxLen, Rules

VARIABLE list

Init == list = <<>>

Add(r)    == Len(list) < MaxLen /\ list' = Append(list, r)
Delete(k) == k \in DOMAIN list /\ list' = RemoveAt(list, k)
Change(k, r) == k \in DOMAIN list /\ list' = ReplaceAt(list, k, r)
Clear     == list' = <<>>

Next ==
    \/ \E r \in Rules : Add(r)
    \/ \E k \in 1..MaxLen : Delete(k) \/ \E r \in Rules : Change(k, r)
    \/ Clear

Spec == Init /\ [][Next]_list
=============================================================================
