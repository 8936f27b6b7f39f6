CONSTANTS
  Systems = {"unix", "windows"}
  Dialers = {d1, d2}
  Domains <- MCDomains
  IPs <- MCIPs
  Outbounds = {"node"}
  Policies <- MCPolicies
  DomainMatches <- MCDomainMatches
  IPMatches <- MCIPMatches
  Final = "direct"
  MaxVersion = 2
  MaxCrashes = 1
SPECIFICATION Spec
INVARIANTS
  DecidedByOneVersion
  OneClientPerOutbound
  FileIsARelease
PROPERTY EveryDialDecided
