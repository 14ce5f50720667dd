-------------------------- MODULE MCGameDirectory --------------------------
(* Sessions differ in nothing but their names.  Three configurations: the   *)
(* one in locid.conf, one without a check, one that takes no suggestions.   *)
EXTENDS GameDirectory, TLC

Symmetry == Permutations(Session)

MCConfigs == {[suggestions |-> "APPROVED", minProtocol |-> TRUE],
              [suggestions |-> "NO_ANSWER", minProtocol |-> FALSE],
              [suggestions |-> "BANNED", minProtocol |-> TRUE]}

=============================================================================
