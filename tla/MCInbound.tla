----------------------------- MODULE MCInbound -----------------------------
(* The kinds of connections the program forwards: on a client, a TCP or a  *)
(* net.Pipe source and a direct target or a carrier; on a server, a source *)
(* that is the stream of a carrier and a direct target.                    *)
EXTENDS Inbound

MCSetups == {s \in AllSetups : s.dstHalfClose}

(* A NaiveProxy server's stream; the streams of the other carriers can be  *)
(* half closed, as the connection of a tunnelling client.                  *)
MCCarrierSetups == {s \in MCSetups : ~ s.srcHalfClose}

Login(u, p) == [username |-> u, password |-> p]

(* No credentials, and ones of which a part is empty.                      *)
MCAuthInfos == {Login("", ""), Login("user", "")}
MCCredentials == {Login(u, p) : u \in {"", "user"}, p \in {"", "pass"}}

Host(n, b, p) == [name |-> n, bracket |-> b, port |-> p]

MCHosts ==
  {Host("domain", FALSE, "good"), Host("domain", FALSE, "none"),
   Host("v4", FALSE, "good"), Host("v4", TRUE, "none"),
   Host("v6", TRUE, "good"), Host("v6", TRUE, "none"),
   Host("v6", FALSE, "good"), Host("junk", TRUE, "none"),
   Host("domain", FALSE, "bad"), Host("empty", FALSE, "good"),
   Host("empty", TRUE, "good")}

============================================================================
