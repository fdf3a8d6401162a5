---------------------------- MODULE MCDiscovery ----------------------------
(***************************************************************************)
(* An instance of Discovery for TLC: a host with two services, and another *)
(* one that sends no USN.                                                  *)
(***************************************************************************)
EXTENDS Discovery

CONSTANTS a1, a2, n1, n2, None

Answers == {[address |-> a1, usn |-> n1], [address |-> a1, usn |-> n2],
            [address |-> a2, usn |-> None]}
=============================================================================
