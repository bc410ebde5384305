--------------------------- MODULE MCDevRouter ---------------------------
(* Instances of DevRouter for TLC. *)
EXTENDS DevRouter, TLC

\* portless.yaml without services.
NoConfig == [n \in ConfigNames |-> CHOOSE d \in Domains : TRUE]

\* Every service of portless.yaml has the same domain.
SharedDomain == NoConfig

\* Ports, commands and requests are interchangeable: the code compares them
\* only for equality.
Symmetry == Permutations(Ports) \cup Permutations(Cmds) \cup Permutations(Handlers)
==========================================================================
