---- MODULE MCProcess ----
(* Small instance: a desktop with both listeners and the system proxy, a   *)
(* machine on Unix that updates the program, and one on Windows that does. *)
EXTENDS Process

MCConfigs ==
  {[os |-> "unix", dualStack |-> TRUE, systemProxy |-> TRUE, autoUpdate |-> FALSE],
   [os |-> "unix", dualStack |-> FALSE, systemProxy |-> FALSE, autoUpdate |-> TRUE],
   [os |-> "windows", dualStack |-> FALSE, systemProxy |-> FALSE, autoUpdate |-> TRUE]}
====
