---------------------------- MODULE DemoEvidence ----------------------------
(***************************************************************************)
(* What tp_demo and ep_demo conclude about the parallel sizes before they  *)
(* load the deployment.  A size is "none" (not stated), "one", "many"      *)
(* (more than one) or "text" (JSON that is not an integer); where the      *)
(* server may answer with a flag it is "true" or "false".                  *)
(***************************************************************************)
EXTENDS Integers, FiniteSets, FiniteSetsExt

CONSTANT LogFiles   \* bound: launch logs looked at (three in the code)

ASSUME EvidenceAssumption == LogFiles \in Nat

\* /get_server_args; one that fails states nothing.
ServerArgs == [tp : {"none", "one", "many", "text"},
               ep : {"none", "one", "many", "text", "true", "false"}]

\* A launch log; one that is not there, or cannot be read, states nothing.
Logs == [tp : {"none", "one", "many"}, ep : {"none", "one", "many"}]

LogLists == [1 .. LogFiles -> Logs]

\* Mutant: only the first launch log is looked at.
check_tp_active_OneLog(api, logs, info) ==
  LET stating == {i \in DOMAIN logs : i = 1 /\ logs[i].tp # "none"}
  IN  CASE api.tp # "none" -> api.tp
        [] api.tp = "none" /\ stating # {} -> logs[Min(stating)].tp
        [] OTHER -> info

\* The first source that states a size: the server's arguments, the launch
\* logs in their order, the model info.
check_tp_active(api, logs, info) ==
  LET stating == {i \in DOMAIN logs : logs[i].tp # "none"}
  IN  CASE api.tp # "none" -> api.tp
        [] api.tp = "none" /\ stating # {} -> logs[Min(stating)].tp
        [] OTHER -> info

\* The EP size: the server's, or that of the first log that states one.  (The TP
\* size found on the way is printed.)
check_ep_active(api, logs) ==
  LET ep0     == CASE api.ep = "true"  -> api.tp
                   [] api.ep = "false" -> "one"
                   [] api.ep = "text"  -> "none"
                   [] OTHER            -> api.ep
      stating == {i \in DOMAIN logs : logs[i].ep # "none"}
  IN  IF ep0 # "none" \/ stating = {} THEN ep0 ELSE logs[Min(stating)].ep
=============================================================================
