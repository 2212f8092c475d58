----------------------------- MODULE RuleMatch -----------------------------
(***************************************************************************)
(* Which rule of a policy serves a model (findPolicyRuleV4 and             *)
(* ruleMatchScoreV4, v4_routing.go).  The code packs the kind of the       *)
(* matching pattern, its literal length and the position of the rule into  *)
(* one number and keeps the rule with the first strict maximum.            *)
(*                                                                         *)
(* A pattern is a record: its kind, the length that counts in its score    *)
(* and the models it covers, whatever their case.                          *)
(***************************************************************************)
EXTENDS Integers, Sequences, FiniteSets

CONSTANTS
  Models,      \* the models that clients ask for
  MaxLength,   \* bound on the length of a pattern
  MaxRules     \* bound on the rules of a policy

ASSUME RuleMatchAssumption ==
  /\ MaxLength \in Nat /\ MaxLength < 99000
  /\ MaxRules \in Nat /\ MaxRules <= 1000

Kinds == {"exact", "glob", "star"}

\* "*" has no literal part and matches everything.
Pattern ==
  {p \in [kind : Kinds, length : 0 .. MaxLength, covers : SUBSET Models] :
     p.kind = "star" => p.length = 0 /\ p.covers = Models}

\* Faulty variant: the base of the exact patterns is lower than a long glob's score.
PatternScore_Flat(p) ==
  CASE p.kind = "exact" -> 1000 + p.length
    [] p.kind = "glob"  -> 1000 + p.length
    [] p.kind = "star"  -> 0

PatternScore(p) ==
  CASE p.kind = "exact" -> 100000 + p.length
    [] p.kind = "glob"  -> 1000 + p.length
    [] p.kind = "star"  -> 0

Covering(rule, model) == {p \in rule.patterns : model \in p.covers}

\* An earlier rule wins among equal scores.
Weight(rules, i, p) == PatternScore(p) * 1000 + (Len(rules) - i + 1)

\* The rules with the greatest weight for the model: one, or none.
BestRules(rules, model) ==
  {i \in DOMAIN rules :
     \E p \in Covering(rules[i], model) :
       \A j \in DOMAIN rules : \A q \in Covering(rules[j], model) :
         Weight(rules, j, q) <= Weight(rules, i, p)}

\* The position of the rule that serves the model, 0 if there is none.
FindRule(rules, model) ==
  IF BestRules(rules, model) = {} THEN 0
  ELSE CHOOSE i \in BestRules(rules, model) : TRUE

----------------------------------------------------------------------------
(* What the README promises: exact model > glob > "*"; the code adds that  *)
(* the longer glob precedes the shorter, and the earlier rule the later.   *)

Precedence(p) == CASE p.kind = "exact" -> 2 [] p.kind = "glob" -> 1 [] p.kind = "star" -> 0

\* Pattern p of rule i wins over pattern q of rule j, or is the same choice.
Prevails(p, i, q, j) ==
  \/ Precedence(p) > Precedence(q)
  \/ Precedence(p) = Precedence(q) /\ p.length > q.length
  \/ Precedence(p) = Precedence(q) /\ p.length = q.length /\ i <= j

MostSpecific(rules, model, i) ==
  \E p \in Covering(rules[i], model) :
    \A j \in DOMAIN rules : \A q \in Covering(rules[j], model) : Prevails(p, i, q, j)
=============================================================================
