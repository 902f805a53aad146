-------------------------- MODULE AdmissionControl --------------------------
(***************************************************************************)
(* What a worker promises whatever happens to its clients: it processes at *)
(* most Permits jobs at a time ("the maximum number of concurrent requests *)
(* a worker's gRPC server will process", README.md), never one job twice   *)
(* at once, and a restarted worker processes nothing.                      *)
(***************************************************************************)
EXTENDS Integers, FiniteSets

CONSTANTS Workers, Jobs, Permits

VARIABLE running  \* running[w]: the jobs worker w is processing

Init == running = [w \in Workers |-> {}]

Admit(w, j) ==
  /\ Cardinality(running[w]) < Permits
  /\ \A v \in Workers : j \notin running[v]
  /\ running' = [running EXCEPT ![w] = @ \cup {j}]

Leave(w, j) ==
  /\ j \in running[w]
  /\ running' = [running EXCEPT ![w] = @ \ {j}]

Restart(w) == running' = [running EXCEPT ![w] = {}]

Next ==
  \E w \in Workers : Restart(w) \/ \E j \in Jobs : Admit(w, j) \/ Leave(w, j)

Spec == Init /\ [][Next]_running
=============================================================================
