-------------------------- MODULE MCRuleLearning --------------------------
(***************************************************************************)
(* Instances of RuleLearning for TLC.  A known-good domain kg, another     *)
(* domain x of the same TLD, a third of another TLD; two formats.  Regex   *)
(* "old" reads the old format only; regex "epoch" takes a sentinel date    *)
(* from the old format and a number out of range from the new one.  The    *)
(* table holds an epoch rule of an earlier life.                           *)
(***************************************************************************)
EXTENDS RuleLearning, TLC

MCTldOf == [d \in Domain |-> IF d = "y" THEN "org" ELSE "com"]
MCStatic == [t \in Tld |-> {}]
MCKnownGood == [t \in Tld |-> IF "kg" \in Domain THEN "kg" ELSE None]
MCOutcome == [p \in Regex \X Format |->
                 CASE p = <<"old", "before">>   -> "good"
                   [] p = <<"old", "after">>    -> "none"
                   [] p = <<"epoch", "before">> -> "sentinel"
                   [] p = <<"epoch", "after">>  -> "raises"]

NoRules == <<>>
OneRule == <<[tld |-> "com", regex |-> "epoch", disabled |-> FALSE,
              sample |-> "x", revalidated |-> None]>>

Symm == Permutations(Learner)
===========================================================================
