---------------------------- MODULE MCRuleStore ----------------------------
(* Symmetry for the safety runs of RuleStore: every constant set holds model
   values that the module only compares with one another. *)
EXTENDS RuleStore, TLC

Symmetric ==
  UNION {Permutations(S) : S \in {RuleIds, GroupIds, Txns, Clients, Endpoints,
                                  Signatures, Algorithms, Values, Priorities}}

=============================================================================
