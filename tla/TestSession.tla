----------------------------- MODULE TestSession -----------------------------
(***************************************************************************)
(* What the iperf3 control protocol promises, without its messages: the    *)
(* server serves one client at a time, results are exchanged only with the *)
(* client being served, and a call of iperf_run_client that nobody stopped *)
(* reports success only if the results were exchanged.                     *)
(***************************************************************************)
CONSTANTS Tests, NoTest

VARIABLES
  holder,      \* the client being served, NoTest when the server is free
  exchanged,   \* the clients that gave the server their results and got its own
  stopped,     \* the clients somebody stopped
  outcome      \* what each call returned

vars == <<holder, exchanged, stopped, outcome>>

Init ==
  /\ holder = NoTest
  /\ exchanged = {}
  /\ stopped = {}
  /\ outcome = [t \in Tests |-> "none"]

Admit(t) == holder = NoTest /\ holder' = t /\ UNCHANGED <<exchanged, stopped, outcome>>

Exchange(t) ==
  /\ holder = t
  /\ exchanged' = exchanged \cup {t}
  /\ UNCHANGED <<holder, stopped, outcome>>

Release == holder' = NoTest /\ UNCHANGED <<exchanged, stopped, outcome>>

Stop(t) == stopped' = stopped \cup {t} /\ UNCHANGED <<holder, exchanged, outcome>>

Return(t, result) ==
  /\ outcome[t] = "none"
  /\ result = "ok" => t \in exchanged \cup stopped
  /\ outcome' = [outcome EXCEPT ![t] = result]
  /\ UNCHANGED <<holder, exchanged, stopped>>

Next ==
  \/ Release
  \/ \E t \in Tests : Admit(t) \/ Exchange(t) \/ Stop(t)
  \/ \E t \in Tests, result \in {"ok", "fail"} : Return(t, result)

Spec == Init /\ [][Next]_vars
=============================================================================
