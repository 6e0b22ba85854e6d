---------------------------- MODULE MCDispatcher ----------------------------
(* Small instances of Dispatcher for TLC. *)
EXTENDS Dispatcher

CONSTANTS n1, n2, n3, s1

\* One slot range served by n1, replicated on n2 and n3.
OneRange == [s \in {s1} |-> [write |-> n1, replicas |-> {n2, n3}]]
=============================================================================
