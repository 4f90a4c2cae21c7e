----------------------------- MODULE ExpLifecycle -----------------------------
(* What one experiment promises its user (README.md of the repository, steps   *)
(* 5 and 7): the master takes the experiment for running only when the server  *)
(* of every slave has been started, and for finished only when all of them     *)
(* have been stopped.  Anything else is a failed experiment.                   *)
CONSTANT Workers

VARIABLES
  state,  \* where the master is
  server  \* the server process of each slave

vars == <<state, server>>

Init ==
  /\ state = "idle"
  /\ server = [w \in Workers |-> "none"]

Begin ==
  /\ state = "idle"
  /\ state' = "starting"
  /\ UNCHANGED server

\* A slave that was too slow may still start its server after the failure.
ServerUp(w) ==
  /\ state \in {"starting", "failed"} /\ server[w] = "none"
  /\ server' = [server EXCEPT ![w] = "up"]
  /\ UNCHANGED state

ServerDown(w) ==
  /\ server[w] = "up"
  /\ server' = [server EXCEPT ![w] = "down"]
  /\ UNCHANGED state

Run ==
  /\ state = "starting"
  /\ \A w \in Workers : server[w] # "none"
  /\ state' = "running"
  /\ UNCHANGED server

Stop ==
  /\ state = "running"
  /\ state' = "ending"
  /\ UNCHANGED server

Finish ==
  /\ state = "ending"
  /\ \A w \in Workers : server[w] = "down"
  /\ state' = "finished"
  /\ UNCHANGED server

Fail ==
  /\ state \in {"starting", "running", "ending"}
  /\ state' = "failed"
  /\ UNCHANGED server

Next ==
  \/ Begin \/ Run \/ Stop \/ Finish \/ Fail
  \/ \E w \in Workers : ServerUp(w) \/ ServerDown(w)

Spec == Init /\ [][Next]_vars
===============================================================================
