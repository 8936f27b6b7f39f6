--------------------------- MODULE DomainMatcher ---------------------------
(***************************************************************************)
(* The domain side of a routing rule's matcher (conf/rule/matcher.go and   *)
(* domain_full_suffix_matcher.go): SetupRulesData adds domain rules one by *)
(* one to a trie of labels, and MatchDomain walks it.                      *)
(*                                                                         *)
(* A domain is the sequence of its labels from the top-level one down, the *)
(* order in which the trie is walked, without the dot of the DNS root,     *)
(* which rules and domains lose before anything else.  Labels are as       *)
(* written, Lower is strings.ToLower.  A regex is represented by a keyword *)
(* that is one whole label.                                                *)
(***************************************************************************)
EXTENDS Integers, Sequences, FiniteSets

CONSTANTS
  Labels,     \* the labels of domains and rules, as they are written
  Lower,      \* per label: its lower case
  MaxLabels,  \* bound: labels of a domain
  MaxRules    \* bound: rules added in a behaviour

ASSUME LowerAssumption ==
  /\ Lower \in [Labels -> Labels]
  /\ \A l \in Labels : Lower[Lower[l]] = Lower[l]

ASSUME BoundAssumption == MaxLabels \in Nat /\ MaxRules \in Nat

VARIABLES
  trie,     \* per node, named by the labels that lead to it: its match
  regexes,  \* domainRegexMatcher, as keywords
  added     \* history: the full and suffix rules that were added

matcherVars == <<trie, regexes, added>>

Matches == {"none", "full", "suffix"}

Paths == UNION {[1 .. n -> Labels] : n \in 1 .. MaxLabels}

Prefix(path, n) == SubSeq(path, 1, n)

ToLower(path) == [i \in 1 .. Len(path) |-> Lower[path[i]]]

MatcherTypeOK ==
  /\ DOMAIN trie \subseteq Paths
  /\ \A p \in DOMAIN trie : trie[p] \in Matches
  /\ regexes \subseteq Labels
  /\ added \subseteq [path: Paths, kind: {"full", "suffix"}]

MatcherInit ==
  /\ trie = [p \in {} |-> "none"]
  /\ regexes = {}
  /\ added = {}

----------------------------------------------------------------------------
(* Adding rules.                                                           *)

Node(p) == p \in DOMAIN trie

IsSuffix(p) == Node(p) /\ trie[p] = "suffix"

(* Mutated form: the match of a node that exists is never raised.          *)
FirstMatchStays(p, kind) ==
  IF Node(p) /\ trie[p] # "none" THEN trie[p] ELSE kind

(* Mutated form: a later rule replaces the match of the node.              *)
LatestMatch(p, kind) == kind

(* The node of the whole domain: a suffix rule there is kept.              *)
LastMatch(p, kind) == IF IsSuffix(p) THEN "suffix" ELSE kind

(* A node on the way to it.                                                *)
WayMatch(p) == IF Node(p) THEN trie[p] ELSE "none"

(* A node above that is a suffix rule ends the walk: the rule is covered.  *)
CoveredAbove(path) == \E n \in 1 .. (Len(path) - 1) : IsSuffix(Prefix(path, n))

(* Mutated form: the walk goes one label too far, to the root.             *)
AddWithRoot(path, kind) ==
  IF CoveredAbove(path) THEN trie
  ELSE [p \in DOMAIN trie \cup {Prefix(path, n) : n \in 0 .. Len(path)} |->
          IF p = path THEN LastMatch(p, kind) ELSE WayMatch(p)]

(* addDomainFullOrSuffixRule.                                              *)
AddToTrie(path, kind) ==
  IF CoveredAbove(path) THEN trie
  ELSE [p \in DOMAIN trie \cup {Prefix(path, n) : n \in 1 .. Len(path)} |->
          IF p = path THEN LastMatch(p, kind) ELSE WayMatch(p)]

(* A domain-full or domain-suffix rule of the config or of a tag.          *)
AddDomainRule(path, kind) ==
  /\ Cardinality(added) < MaxRules
  /\ trie' = AddToTrie(ToLower(path), kind)
  /\ added' = added \cup {[path |-> ToLower(path), kind |-> kind]}
  /\ UNCHANGED regexes

(* A domain-regex rule, or a keyword of a tag; its case is kept.           *)
AddRegex(l) ==
  /\ regexes' = regexes \cup {l}
  /\ UNCHANGED <<trie, added>>

MatcherNext ==
  \/ \E path \in Paths, kind \in {"full", "suffix"} : AddDomainRule(path, kind)
  \/ \E l \in Labels : AddRegex(l)

MatcherSpec == MatcherInit /\ [][MatcherNext]_matcherVars

----------------------------------------------------------------------------
(* Matching a domain.                                                      *)

(* The walk gets to the n-th node of path.                                 *)
Reaches(path, n) == \A m \in 1 .. n : Node(Prefix(path, m))

(* The walk ends with true at a suffix rule, else at the node of the whole *)
(* domain if that is a full rule.                                          *)
Walk(path) ==
  \/ \E n \in 1 .. Len(path) :
       Reaches(path, n) /\ trie[Prefix(path, n)] = "suffix"
  \/ Reaches(path, Len(path)) /\ trie[path] = "full"

(* domainFullAndSuffixMatcher.match.                                       *)
MatchTrie(path) == Walk(ToLower(path))

MatchRegexes(path) == \E i \in 1 .. Len(path) : path[i] \in regexes

MatchDomain(path) == MatchTrie(path) \/ MatchRegexes(path)

----------------------------------------------------------------------------
(* Properties.                                                             *)

(* What the rules say: a domain is one of the full rules, or it lies at or *)
(* below one of the suffix rules.                                          *)
Covered(path) ==
  \E r \in added :
    \/ r.kind = "full" /\ r.path = ToLower(path)
    \/ /\ r.kind = "suffix" /\ Len(r.path) <= Len(path)
       /\ r.path = Prefix(ToLower(path), Len(r.path))

(* The trie matches exactly the domains its rules cover, in whatever order *)
(* overlapping full and suffix rules were added.                           *)
TrieMatchesRules == \A path \in Paths : MatchTrie(path) <=> Covered(path)

(* A rule added later never takes a domain away from an earlier one,       *)
(* though it may rewrite the nodes they share.                             *)
RulesOnlyAdd ==
  [][\A path \in Paths : MatchDomain(path) => MatchDomain(path)']_matcherVars

============================================================================
