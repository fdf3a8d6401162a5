------------------------------- MODULE Search -------------------------------
(***************************************************************************)
(* What the API takes dial.discover for (api.py:309): one step that finds  *)
(* some of the devices there are, each one once, or raises.  The actions   *)
(* Search and Merge of Yttv.tla use it like this.                          *)
(***************************************************************************)
EXTENDS Naturals, Sequences

CONSTANT Replies   \* the DIAL devices a search may find

VARIABLES outcome, found

vars == <<outcome, found>>

Init == outcome = "busy" /\ found = <<>>

Find ==
  /\ outcome = "busy" /\ outcome' = "returned"
  /\ \A i \in DOMAIN found' : found'[i] \in Replies
  /\ \A i, j \in DOMAIN found' : found'[i] = found'[j] => i = j

Raise == outcome = "busy" /\ outcome' = "raised" /\ UNCHANGED found

Next == Find \/ Raise

Spec == Init /\ [][Next]_vars
=============================================================================
