CONSTANTS
  Labels = {"a", "A", "b"}
  Lower <- MCLower
  MaxLabels = 3
  MaxRules = 2
SPECIFICATION MatcherSpec
INVARIANTS
  MatcherTypeOK
  TrieMatchesRules
PROPERTY RulesOnlyAdd
