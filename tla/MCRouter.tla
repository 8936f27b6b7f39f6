------------------------------ MODULE MCRouter ------------------------------
(* A router with an IP address, an IP address sent as a domain, and three  *)
(* rules whose data differs between versions.  A plain domain would behave *)
(* as the latter does where a rule matches it in the first pass.           *)
EXTENDS Router

MCDomains == {"ipName"}
MCIPs == {"ip", "ipName"}

MCPolicies == <<"final", "node", "reject">>

(* The two versions decide ipName in different passes.                     *)
MCDomainMatches ==
  << <<{}, {}, {}>>,
     <<{"ipName"}, {}, {}>> >>

MCIPMatches ==
  << <<{}, {"ipName"}, {"ip"}>>,
     <<{}, {"ip"}, {"ipName"}>> >>

============================================================================
