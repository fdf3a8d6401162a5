------------------------- MODULE DialLauncherProofs -------------------------
(***************************************************************************)
(* Proofs about DialLauncher.tla, for all times and timeouts: how late a   *)
(* launch can be, that it is patient, what it returns, and that it is the  *)
(* one step Launcher.tla describes.                                        *)
(***************************************************************************)
EXTENDS DialLauncher, TLAPS

\* What the steps can see of the times.
LEMMA Times ==
  /\ Timeout \in Nat /\ RequestTimeout \in Nat /\ Settle \in Nat
  /\ PollInterval \in Nat
  /\ Late \in Nat
  /\ Timeout <= Late
  /\ RequestTimeout <= Late
  /\ Never \in Nat
BY TimesAssumption DEF Late, Never, Worst

LEMMA RequestTakes ==
  ASSUME now \in Nat, Request
  PROVE  now' \in Nat /\ now <= now' /\ now' <= now + RequestTimeout
<1>1. PICK t \in 0 .. RequestTimeout : now' = now + t
  BY DEF Request
<1> QED
  BY <1>1, Times

LEMMA InitInv == Init => Inv
<1> SUFFICES ASSUME Init PROVE Inv
  OBVIOUS
<1>1. TypeOK
  BY DEF Init, TypeOK, Steps, Errors, NoInfo, AppInfo, State
<1>2. InTime /\ Patient /\ Known /\ Answering
  BY Times DEF Init, InTime, Worst, Patient, Known, Answering
<1> QED
  BY <1>1, <1>2 DEF Inv

\* Time does not go back.
LEMMA Clock ==
  ASSUME TypeOK, Next
  PROVE  now \in Nat /\ now' \in Nat /\ now <= now'
<1>1. now \in Nat
  BY DEF TypeOK
<1>2. CASE Request \/ UNCHANGED now
  BY <1>1, <1>2, RequestTakes
<1>3. CASE Sleep(PollInterval) \/ Sleep(Settle)
  BY <1>1, <1>3, Times DEF Sleep
<1> QED
  BY <1>1, <1>2, <1>3
     DEF Next, Step, Start, Reach, Wake, Doze, Poll, Launch, Pause, Await, Settled, Check

LEMMA TypeStep ==
  ASSUME TypeOK, Next
  PROVE  TypeOK'
<1> USE DEF TypeOK, Steps, Done, Errors, GoTo, Raise, Next, television
<1>1. CASE Start \/ Wake
  BY <1>1 DEF Start, Wake
<1>2. CASE Doze \/ Pause \/ Settled
  BY <1>2, Clock DEF Doze, Pause, Settled
<1>3. CASE Reach
  BY <1>3, Clock DEF Reach, Reached, Answers
<1>4. CASE Poll
  BY <1>4, Clock DEF Poll, Reached, Answers
<1>5. CASE Launch
  BY <1>5, Clock DEF Launch
<1>6. CASE Await
  BY <1>6, Clock DEF Await, Seen, Answers
<1>7. CASE Check
  <2>1. CASE info.id = None /\ Raise("screenless")
    BY <1>7, <2>1 DEF Check
  <2>2. CASE /\ info.id # None
             /\ screen' = IF screen # None /\ screen.id = info.id THEN screen
                          ELSE [id |-> info.id, token |-> None]
             /\ pc' = "returned"
             /\ UNCHANGED <<info, mac, why>>
    BY <1>7, <2>2 DEF Check, AppInfo, Screen
  <2> QED
    BY <1>7, <2>1, <2>2 DEF Check
<1> QED
  BY <1>1, <1>2, <1>3, <1>4, <1>5, <1>6, <1>7 DEF Next, Step

LEMMA TimeStep ==
  ASSUME TypeOK, InTime, Next
  PROVE  InTime'
<1> USE Times, Clock DEF InTime, Worst, GoTo, Raise
<1>1. CASE Start \/ Wake \/ Check
  <2>1. CASE Start
    <3>1. now = 0 /\ now' = now /\ pc' \in {"raised", "reach"}
      BY <2>1 DEF Start
    <3> QED
      BY <3>1
  <2>2. CASE Wake
    BY <2>2 DEF Wake
  <2>3. CASE Check
    <3>1. now' = now /\ pc' \in Done
      BY <2>3 DEF Check, Done
    <3> QED
      BY <3>1 DEF Done
  <2> QED
    BY <1>1, <2>1, <2>2, <2>3
<1>2. CASE Doze \/ Pause \/ Settled
  <2>1. CASE Doze
    BY <2>1 DEF Doze, Sleep
  <2>2. CASE Pause
    BY <2>2 DEF Pause, Sleep
  <2>3. CASE Settled
    BY <2>3 DEF Settled, Sleep
  <2> QED
    BY <1>2, <2>1, <2>2, <2>3
<1>3. CASE Reach
  <2>1. now = 0 /\ now' \in Nat /\ now' <= RequestTimeout
    <3>1. pc = "reach" /\ now = 0 /\ Request
      BY <1>3 DEF Reach
    <3> QED
      BY <3>1, RequestTakes
  <2>2. pc' \in {"check", "launch", "raised", "wake"}
    BY <1>3 DEF Reach, Reached
  <2> QED
    BY <2>1, <2>2
<1>4. CASE Poll
  BY <1>4, RequestTakes DEF Poll, Reached
<1>5. CASE Launch
  BY <1>5, RequestTakes DEF Launch
<1>6. CASE Await
  BY <1>6, RequestTakes DEF Await, Seen
<1> QED
  BY <1>1, <1>2, <1>3, <1>4, <1>5, <1>6 DEF Next, Step

LEMMA PatientStep ==
  ASSUME TypeOK, Patient, Answering, Next
  PROVE  Patient'
<1> USE DEF Patient, GoTo, Raise
<1>0. UNCHANGED <<awake, up, steady>> /\ awake \in Nat /\ up \in Nat
  BY Times DEF Next, television, TypeOK
<1>1. CASE Start \/ Wake \/ Check \/ Doze \/ Pause \/ Settled
  BY <1>0, <1>1 DEF Start, Wake, Check, Doze, Pause, Settled
<1>2. CASE Reach
  <2>1. why' \in {why, "uninstalled", "unreachable"}
    BY <1>2 DEF Reach, Reached
  <2> QED
    BY <1>0, <2>1
<1>3. CASE Poll
  <2>1. \/ why' = why
        \/ why' = "asleep" /\ now < awake /\ now' >= Timeout
    BY <1>3 DEF Poll, Reached, Fails
  <2>2. now \in Nat /\ now' \in Nat /\ now' <= now + RequestTimeout
    BY <1>3, RequestTakes DEF Poll, TypeOK
  <2> QED
    BY <1>0, <2>1, <2>2, Times
<1>4. CASE Launch
  <2>1. why' = why \/ (why' = "refused" /\ now < awake)
    BY <1>4 DEF Launch, Fails
  <2>2. steady => awake <= now
    BY <1>4 DEF Launch, Answering
  <2>3. ~ (why' = "refused" /\ why' # why /\ steady)
    BY <1>0, <2>1, <2>2 DEF TypeOK
  <2> QED
    BY <1>0, <2>1, <2>3
<1>5. CASE Await
  <2>1. \/ why' = why
        \/ why' = "late" /\ NotUp /\ now' >= Timeout
        \/ why' = "lost" /\ now < awake
    BY <1>5 DEF Await, Seen, Fails
  <2>2. now \in Nat /\ now' \in Nat /\ now' <= now + RequestTimeout
    BY <1>5, RequestTakes DEF Await, TypeOK
  <2>3. NotUp => now < up
    BY <1>0, <2>2 DEF NotUp, Answers
  <2>4. why' = "late" /\ why' # why => up + RequestTimeout > Timeout
    BY <1>0, <2>1, <2>2, <2>3, Times
  <2>5. steady => awake <= now
    BY <1>5 DEF Await, Answering
  <2>6. ~ (why' = "lost" /\ why' # why /\ steady)
    BY <1>0, <2>1, <2>2, <2>5
  <2> QED
    BY <1>0, <2>1, <2>4, <2>6
<1> QED
  BY <1>1, <1>2, <1>3, <1>4, <1>5 DEF Next, Step

\* An answer of a steady television comes when it is awake, and time goes on.
LEMMA AnsweringStep ==
  ASSUME TypeOK, Answering, Next
  PROVE  Answering'
<1> USE DEF Answering, GoTo, Raise
<1>0. UNCHANGED <<awake, steady>> /\ awake \in Nat /\ now \in Nat /\ now' \in Nat /\ now <= now'
  BY Times, Clock DEF Next, television, TypeOK
<1>1. CASE Start \/ Wake \/ Check \/ Doze \/ Settled
  BY <1>1 DEF Start, Wake, Check, Doze, Settled, Done
<1>2. CASE Reach \/ Poll
  BY <1>0, <1>2 DEF Reach, Poll, Reached, Answers
<1>3. CASE Pause \/ Launch \/ Await
  BY <1>0, <1>3 DEF Pause, Launch, Await, Seen
<1> QED
  BY <1>1, <1>2, <1>3 DEF Next, Step

LEMMA KnownStep ==
  ASSUME TypeOK, Known, Next
  PROVE  Known'
<1> USE DEF Known, GoTo, Raise
<1>1. CASE Start \/ Wake \/ Doze \/ Pause \/ Settled \/ Launch
  BY <1>1 DEF Start, Wake, Doze, Pause, Settled, Launch
<1>2. CASE Reach \/ Poll
  BY <1>2 DEF Reach, Poll, Reached
<1>3. CASE Await
  BY <1>3 DEF Await, Seen, Up
<1>4. CASE Check
  <2>1. CASE info.id = None /\ Raise("screenless")
    BY <2>1
  <2>2. CASE /\ info.id # None
             /\ screen' = IF screen # None /\ screen.id = info.id THEN screen
                          ELSE [id |-> info.id, token |-> None]
             /\ pc' = "returned"
             /\ UNCHANGED <<info, mac, why>>
    <3>1. screen' \in Screen /\ screen'.id = info.id
      BY <2>2 DEF TypeOK, AppInfo, Screen
    <3>2. screen' # None
      BY <3>1, NoneAssumption
    <3> QED
      BY <1>4, <2>2, <3>1, <3>2 DEF Check
  <2> QED
    BY <1>4, <2>1, <2>2 DEF Check
<1> QED
  BY <1>1, <1>2, <1>3, <1>4 DEF Next, Step

LEMMA NextKeepsInv ==
  ASSUME Inv, [Next]_vars
  PROVE  Inv'
<1>1. CASE Next
  BY <1>1, TypeStep, TimeStep, PatientStep, AnsweringStep, KnownStep DEF Inv
<1>2. CASE UNCHANGED vars
  BY <1>2 DEF vars, television, Inv, TypeOK, InTime, Patient, Known, Answering
<1> QED
  BY <1>1, <1>2

LEMMA Invariance == Spec => []Inv
BY InitInv, NextKeepsInv, PTL DEF Spec

\* Type correctness of a launch.
THEOREM TypeCorrect == Spec => []TypeOK
<1>1. Inv => TypeOK
  BY DEF Inv
<1> QED
  BY <1>1, Invariance, PTL

\* A launch is over, whatever the television does, after the timeout (or the
\* first request, should that take longer), two pauses, three requests and the
\* settling time.
THEOREM LaunchTimeIsBounded == Spec => []TimeBound
<1>1. Inv => TimeBound
  BY Times DEF Inv, TimeBound, InTime
<1> QED
  BY <1>1, Invariance, PTL

\* A television that answers, or whose app is up, a request's time before the
\* deadline is not given up for being late, and one that goes on answering is
\* neither lost nor refused, for all times, timeouts and durations of requests.
THEOREM LaunchIsPatient == Spec => []Patient
<1>1. Inv => Patient
  BY DEF Inv
<1> QED
  BY <1>1, Invariance, PTL

\* A launch that returned leaves the device with the screen id of an app that
\* was seen running.
THEOREM LaunchReportsScreen == Spec => []ScreenIsReported
<1>1. Inv => ScreenIsReported
  BY DEF Inv, Known, ScreenIsReported
<1> QED
  BY <1>1, Invariance, PTL

-----------------------------------------------------------------------------
LEMMA InitImplements == Init => Abstract!LaunchInit
BY DEF Init, Screen, Done, Abstract!LaunchInit

LEMMA NextImplements ==
  ASSUME Inv, [Next]_vars
  PROVE  [Abstract!LaunchNext]_(Abstract!lvars)
<1> USE DEF Abstract!LaunchNext, Abstract!Succeed, Abstract!GiveUp, Abstract!lvars, Done
<1>1. CASE UNCHANGED vars
  BY <1>1 DEF vars
<1>2. CASE Start \/ Wake \/ Doze \/ Pause \/ Settled \/ Launch
  BY <1>2 DEF Start, Wake, Doze, Pause, Settled, Launch, GoTo, Raise
<1>3. CASE Reach \/ Poll
  BY <1>3 DEF Reach, Poll, Reached, GoTo, Raise
<1>4. CASE Await
  BY <1>4 DEF Await, Seen, GoTo, Raise
<1>5. CASE Check
  BY <1>5 DEF Check, Raise, Inv, TypeOK, AppInfo
<1> QED
  BY <1>1, <1>2, <1>3, <1>4, <1>5 DEF Next, Step

\* DialLauncher.launch does for cast what Launcher.tla says.
THEOREM DialImplementsLauncher == Spec => IsLauncher
BY InitImplements, Invariance, NextImplements, PTL
   DEF Spec, IsLauncher, Abstract!LaunchSpec
============================================================================
