----------------------------- MODULE AtomicFile -----------------------------
(***************************************************************************)
(* What the rest of yttv takes devices.json to be: one value that a save   *)
(* replaces at once and a load reads at once (Yttv.tla).                   *)
(***************************************************************************)
CONSTANTS
  Procs,   \* processes using the file
  Values,  \* device lists worth telling apart
  None     \* there is no file

VARIABLES
  value,   \* what the file holds
  seen     \* what each process read last

avars == <<value, seen>>

AtomicInit ==
  /\ value \in Values \cup {None}
  /\ seen = [p \in Procs |-> None]

Write == \E v \in Values : value' = v /\ UNCHANGED seen

Read(p) == seen' = [seen EXCEPT ![p] = value] /\ UNCHANGED value

AtomicNext == Write \/ \E p \in Procs : Read(p)

AtomicSpec == AtomicInit /\ [][AtomicNext]_avars
============================================================================
