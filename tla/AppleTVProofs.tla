---------------------------- MODULE AppleTVProofs ----------------------------
(***************************************************************************)
(* Proofs about AppleTV.tla, for any number of jobs with one television:   *)
(* what a return promises and what a helper closes.                        *)
(***************************************************************************)
EXTENDS AppleTV, TLAPS

\* Where helper and caller can be at the same time; what the helper has done
\* and has open at each of its steps.
JobInv(j) ==
  /\ caller[j] = "start" => helper[j] = "none"
  /\ caller[j] = "returned" => helper[j] = "ended" /\ result[j] = "ok"
  /\ helper[j] \in Working => caller[j] \in {"waiting", "gave up"}
  /\ helper[j] \in (Working \ {"close"}) \cup {"none"} => result[j] = "none"
  /\ helper[j] = "settle" => front[j]
  /\ helper[j] \in {"none", "scan", "connect"} => link[j] = "none"
  /\ helper[j] = "ended" => link[j] # "open"
  /\ helper[j] = "ended" /\ result[j] = "ok" => link[j] \in {"none", "closed"}
  /\ result[j] = "ok" => IF kind[j] = "launch" THEN front[j] ELSE stored

Inv == TypeOK /\ \A j \in Jobs : JobInv(j)

LEMMA InitInv == Init => Inv
<1> SUFFICES ASSUME Init PROVE Inv
  OBVIOUS
<1>1. TypeOK
  BY DEF Init, TypeOK, Working, LaunchSteps, PairSteps, Done
<1>2. ASSUME NEW j \in Jobs PROVE JobInv(j)
  BY <1>2 DEF Init, JobInv, Working, LaunchSteps, PairSteps
<1> QED
  BY <1>1, <1>2 DEF Inv

LEMMA TypeStep ==
  ASSUME TypeOK, NEW j \in Jobs, Start(j) \/ Join(j) \/ GiveUp(j) \/ Exit(j) \/ Helper(j)
  PROVE  TypeOK'
<1> USE DEF TypeOK
<1>1. CASE Start(j)
  BY <1>1 DEF Start, Done, Working, LaunchSteps, PairSteps
<1>2. CASE Join(j) \/ GiveUp(j)
  BY <1>2 DEF Join, GiveUp, Done
<1>3. CASE Exit(j)
  BY <1>3 DEF Exit, Working, LaunchSteps, PairSteps
<1>4. CASE Scan(j) \/ Connect(j)
  BY <1>4 DEF Scan, Connect, GoTo, End, Working, LaunchSteps, PairSteps
<1>5. CASE Power(j) \/ LaunchApp(j) \/ Settle(j)
  BY <1>5 DEF Power, LaunchApp, Settle, Try, GoTo, End, Working, LaunchSteps, PairSteps
<1>6. CASE Begin(j) \/ AskPin(j) \/ Finish(j)
  BY <1>6 DEF Begin, AskPin, Finish, Try, GoTo, End, Working, LaunchSteps, PairSteps
<1>7. CASE Save(j)
  <2>1. stored' \in BOOLEAN
    BY <1>7 DEF Save
  <2> QED
    BY <1>7, <2>1 DEF Save, End, Working, LaunchSteps, PairSteps
<1>8. CASE Close(j)
  BY <1>8 DEF Close, GoTo, End, Working, LaunchSteps, PairSteps
<1> QED
  BY <1>1, <1>2, <1>3, <1>4, <1>5, <1>6, <1>7, <1>8 DEF Helper

\* A step of one job leaves the others alone; credentials once stored stay.
LEMMA OtherJobs ==
  ASSUME Inv, NEW j \in Jobs, Start(j) \/ Join(j) \/ GiveUp(j) \/ Exit(j) \/ Helper(j),
         NEW i \in Jobs \ {j}
  PROVE  JobInv(i)'
<1>1. /\ caller'[i] = caller[i] /\ helper'[i] = helper[i] /\ result'[i] = result[i]
      /\ link'[i] = link[i] /\ front'[i] = front[i] /\ kind' = kind
  BY DEF Inv, TypeOK, Start, Join, GiveUp, Exit, Helper, Scan, Connect, Power, LaunchApp, Settle,
         Begin, AskPin, Finish, Save, Close, Try, GoTo, End
<1>2. stored => stored'
  BY DEF Start, Join, GiveUp, Exit, Helper, Scan, Connect, Power, LaunchApp, Settle, Begin, AskPin,
         Finish, Save, Close, Try
<1> QED
  BY <1>1, <1>2 DEF Inv, JobInv

LEMMA OwnJob ==
  ASSUME Inv, NEW j \in Jobs, Start(j) \/ Join(j) \/ GiveUp(j) \/ Exit(j) \/ Helper(j)
  PROVE  JobInv(j)'
<1>0. JobInv(j) /\ TypeOK
  BY DEF Inv
<1> USE DEF JobInv, TypeOK, Working, LaunchSteps, PairSteps
<1>1. CASE Start(j)
  BY <1>0, <1>1 DEF Start
<1>2. CASE Join(j)
  BY <1>0, <1>2 DEF Join
<1>3. CASE GiveUp(j)
  BY <1>0, <1>3 DEF GiveUp
<1>4. CASE Exit(j)
  BY <1>0, <1>4 DEF Exit
<1>5. CASE Scan(j)
  BY <1>0, <1>5 DEF Scan, GoTo, End
<1>6. CASE Connect(j)
  BY <1>0, <1>6 DEF Connect, GoTo, End
<1>7. CASE Power(j)
  BY <1>0, <1>7 DEF Power, Try, GoTo, End
<1>8. CASE LaunchApp(j)
  BY <1>0, <1>8 DEF LaunchApp, Try, GoTo, End
<1>9. CASE Settle(j)
  BY <1>0, <1>9 DEF Settle, End
<1>10. CASE Begin(j) \/ AskPin(j) \/ Finish(j)
  BY <1>0, <1>10 DEF Begin, AskPin, Finish, Try, GoTo, End
<1>11. CASE Save(j)
  BY <1>0, <1>11 DEF Save, End
<1>12. CASE Close(j)
  BY <1>0, <1>12 DEF Close, GoTo, End
<1> QED
  BY <1>1, <1>2, <1>3, <1>4, <1>5, <1>6, <1>7, <1>8, <1>9, <1>10, <1>11, <1>12 DEF Helper

LEMMA NextKeepsInv ==
  ASSUME Inv, [Next]_vars
  PROVE  Inv'
<1>1. CASE Next
  <2>1. PICK j \in Jobs : Start(j) \/ Join(j) \/ GiveUp(j) \/ Exit(j) \/ Helper(j)
    BY <1>1 DEF Next
  <2>2. TypeOK'
    BY <2>1, TypeStep DEF Inv
  <2>3. \A i \in Jobs : JobInv(i)'
    BY <2>1, OwnJob, OtherJobs
  <2> QED
    BY <2>2, <2>3 DEF Inv
<1>2. CASE UNCHANGED vars
  BY <1>2 DEF vars, Inv, TypeOK, JobInv
<1> QED
  BY <1>1, <1>2

LEMMA Invariance == Spec => []Inv
BY InitInv, NextKeepsInv, PTL DEF Spec

\* Type correctness of the callers and their helpers.
THEOREM TypeCorrect == Spec => []TypeOK
<1>1. Inv => TypeOK
  BY DEF Inv
<1> QED
  BY <1>1, Invariance, PTL

\* A launch that returned has the app in front, a pairing that returned is in
\* the storage, and neither has left anything open, whatever other jobs do.
THEOREM ReturnsAreTrue == Spec => []DoneWhenReturned
<1>1. Inv => DoneWhenReturned
  BY DEF Inv, JobInv, DoneWhenReturned
<1> QED
  BY <1>1, Invariance, PTL

\* A helper that came to its end has closed its connection or its pairing, or
\* tried to, whichever of its steps failed.
THEOREM HelpersClose == Spec => []Closes
<1>1. Inv => Closes
  BY DEF Inv, JobInv, Closes
<1> QED
  BY <1>1, Invariance, PTL
=============================================================================
