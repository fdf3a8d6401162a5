------------------------- MODULE CastLauncherProofs -------------------------
(***************************************************************************)
(* Proofs about CastLauncher.tla, for any screen ids and tokens: however   *)
(* its three threads interleave, what a launch or a probe leaves behind,   *)
(* that its answer is the receiver's, and that it is the one step          *)
(* Launcher.tla describes.                                                 *)
(***************************************************************************)
EXTENDS CastLauncher, TLAPS

\* An id that is stored or was read is one the receiver reported.
Reported ==
  /\ screenId # None => screenId \in told
  /\ answer # None => answer \in told
  /\ pc = "check" => job = "launch" /\ answer # None
  /\ job = "launch" /\ pc = "returned" => answer # None

\* What is running at each step of the caller.
Resources ==
  /\ pc = "start" => browser = "none" /\ cast = "none"
  /\ pc \in {"find", "pick", "connect"} => cast = "none"
  /\ pc = "stop" => cast = "closed"
  /\ pc = "check" => browser = "stopped" /\ cast = "closed"

Inv == TypeOK /\ Reported /\ Resources

-----------------------------------------------------------------------------
LEMMA InitInv == Init => Inv
BY DEF Init, Inv, TypeOK, Reported, Resources, Steps, Done

\* The flags of the events and of the other threads.
Flags == {present, adding, found, receiving, gotStatus} \subseteq BOOLEAN

LEMMA FlagStep ==
  ASSUME Flags, Next
  PROVE  Flags'
<1>1. CASE Caller
  BY <1>1 DEF Flags, Caller, Start, Stopping, Find, Pick, Connect, Ask, Send, Wait, Read,
              Disconnect, Stop, Check, discovery, messages
<1>2. CASE Threads
  BY <1>2 DEF Flags, Threads, Appear, Added, Vanish, Receive, Signal, discovery, messages
<1> QED
  BY <1>1, <1>2 DEF Next

LEMMA TypeStep ==
  ASSUME TypeOK, Reported, Next
  PROVE  TypeOK'
<1>1. Flags'
  BY FlagStep DEF TypeOK, Flags
<1>2. job' \in {"launch", "probe"} /\ pc' \in Steps
  BY DEF TypeOK, Next, Caller, Threads, Start, Stopping, Find, Pick, Connect, Ask, Send, Wait,
         Read, Disconnect, Stop, Check, Appear, Added, Vanish, Receive, Signal, Steps, Done
<1>3. /\ browser' \in {"none", "running", "stopped", "stuck"}
      /\ cast' \in {"none", "open", "closed", "stuck"}
  BY DEF TypeOK, Next, Caller, Threads, Start, Stopping, Find, Pick, Connect, Ask, Send, Wait,
         Read, Disconnect, Stop, Check, Appear, Added, Vanish, Receive, Signal
<1>4. {screenId, answer}' \subseteq ScreenId \cup {None} /\ told' \subseteq ScreenId
  BY DEF TypeOK, Next, Caller, Threads, Start, Stopping, Find, Pick, Connect, Ask, Send, Wait,
         Read, Disconnect, Stop, Check, Appear, Added, Vanish, Receive, Signal, messages
<1>5. screen' \in Screen \cup {None}
  <2>1. CASE Check
    BY <2>1 DEF TypeOK, Reported, Check, Screen
  <2>2. CASE ~ Check
    BY <2>2 DEF TypeOK, Next, Caller, Threads, Start, Stopping, Find, Pick, Connect, Ask, Send,
                Wait, Read, Disconnect, Stop, Appear, Added, Vanish, Receive, Signal
  <2> QED
    BY <2>1, <2>2
<1> QED
  BY <1>1, <1>2, <1>3, <1>4, <1>5 DEF TypeOK, Flags

LEMMA ReportedStep ==
  ASSUME TypeOK, Reported, Next
  PROVE  Reported'
<1> USE DEF Reported
<1>1. CASE Start \/ Find \/ Pick \/ Connect \/ Ask \/ Send \/ Wait
  BY <1>1 DEF Start, Stopping, Find, Pick, Connect, Ask, Send, Wait, messages
<1>2. CASE Read
  BY <1>2 DEF Read, messages
<1>3. CASE (Disconnect \/ Stop) /\ UNCHANGED job
  BY <1>3 DEF Disconnect, Stop, messages, TypeOK
<1>4. CASE Check
  BY <1>4 DEF Check, messages
<1>5. CASE Threads
  BY <1>5 DEF Threads, Appear, Added, Vanish, Receive, Signal, messages
<1> QED
  BY <1>1, <1>2, <1>3, <1>4, <1>5 DEF Next, Caller

LEMMA ResourcesStep ==
  ASSUME TypeOK, Resources, Next
  PROVE  Resources'
<1> USE DEF Resources
<1>1. CASE Caller
  BY <1>1 DEF Caller, Start, Stopping, Find, Pick, Connect, Ask, Send, Wait, Read, Disconnect,
              Stop, Check
<1>2. CASE Threads
  BY <1>2 DEF Threads, Appear, Added, Vanish, Receive, Signal
<1> QED
  BY <1>1, <1>2 DEF Next

LEMMA NextKeepsInv ==
  ASSUME Inv, [Next]_vars
  PROVE  Inv'
<1>1. CASE Next
  BY <1>1, TypeStep, ReportedStep, ResourcesStep DEF Inv
<1>2. CASE UNCHANGED vars
  BY <1>2 DEF vars, Inv, TypeOK, Reported, Resources
<1> QED
  BY <1>1, <1>2

LEMMA Invariance == Spec => []Inv
BY InitInv, NextKeepsInv, PTL DEF Spec

\* Type correctness of launches and probes.
THEOREM TypeCorrect == Spec => []TypeOK
<1>1. Inv => TypeOK
  BY DEF Inv
<1> QED
  BY <1>1, Invariance, PTL

\* The answer of a launch is an id the receiver reported.
THEOREM AnswersAreReported == Spec => []Told
<1>1. Inv => Told
  BY DEF Inv, Reported, Told
<1> QED
  BY <1>1, Invariance, PTL

-----------------------------------------------------------------------------
\* Only the ways out that CleansUp names end without trying to stop the browser
\* and to close the connection.
THEOREM LaunchCleansUp == Spec => CleansUp
<1> DEFINE Tidy == pc \notin Done /\ pc' \in Done =>
                     /\ browser' = "running" => pc \in {"start", "pick", "disconnect"}
                     /\ cast' = "open" => pc = "connect"
<1>1. ASSUME Inv, [Next]_vars PROVE [Tidy]_vars
  <2>1. CASE UNCHANGED vars
    BY <2>1
  <2>2. CASE Caller
    BY <1>1, <2>2 DEF Inv, Resources, Caller, Start, Stopping, Find, Pick, Connect, Ask, Send,
                      Wait, Read, Disconnect, Stop, Check, Done
  <2>3. CASE Threads
    BY <2>3 DEF Threads, Appear, Added, Vanish, Receive, Signal
  <2> QED
    BY <1>1, <2>1, <2>2, <2>3 DEF Next
<1> QED
  BY <1>1, Invariance, PTL DEF Spec, CleansUp

-----------------------------------------------------------------------------
LEMMA InitImplements == Init => Abstract!LaunchInit
BY DEF Init, Screen, Done, Abstract!LaunchInit

LEMMA NextImplements ==
  ASSUME Inv, [Next]_vars
  PROVE  [Abstract!LaunchNext]_(Abstract!lvars)
<1> USE DEF Abstract!LaunchNext, Abstract!Succeed, Abstract!GiveUp, Abstract!lvars, Done
<1>1. CASE UNCHANGED vars
  BY <1>1 DEF vars
<1>2. CASE Start \/ Find \/ Pick \/ Connect \/ Ask \/ Send \/ Wait \/ Read
  BY <1>2 DEF Start, Stopping, Find, Pick, Connect, Ask, Send, Wait, Read
<1>3. CASE Disconnect \/ Stop
  BY <1>3 DEF Disconnect, Stop
<1>4. CASE Check
  BY <1>4 DEF Check, Inv, TypeOK, Reported
<1>5. CASE Threads
  BY <1>5 DEF Threads, Appear, Added, Vanish, Receive, Signal
<1> QED
  BY <1>1, <1>2, <1>3, <1>4, <1>5 DEF Next, Caller

\* CastLauncher.launch does for cast what Launcher.tla says.
THEOREM CastImplementsLauncher == Spec => IsLauncher
BY InitImplements, Invariance, NextImplements, PTL
   DEF Spec, IsLauncher, Abstract!LaunchSpec
=============================================================================
