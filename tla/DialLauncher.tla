---------------------------- MODULE DialLauncher ----------------------------
(***************************************************************************)
(* DialLauncher.launch (src/yttv/backends/dial.py): ask the television for *)
(* the state of its YouTube app, wake the television when it does not      *)
(* answer, start the app when it does not run, wait for it to come up, and *)
(* take over the screen id it reports.  Time is counted in ticks from the  *)
(* start of the launch; a request takes any time up to its timeout and has *)
(* any outcome the code tells apart, as far as the television allows: it   *)
(* answers every request from some time on, and has the app up from some   *)
(* later time on, or never.                                                *)
(***************************************************************************)
EXTENDS Naturals

CONSTANTS
  ScreenId,        \* the ids the app may report
  Token,           \* lounge tokens
  Mac,             \* MAC addresses
  None,            \* no screen, no token, no id, no address
  Timeout,         \* the timeout of the launch
  RequestTimeout,  \* how long one HTTP request takes at most
  PollInterval,    \* pause before each poll
  Settle           \* pause between a started app's first answer and its use

ASSUME TimesAssumption ==
  /\ {Timeout, RequestTimeout, Settle} \subseteq Nat
  /\ PollInterval \in Nat \ {0}

Screen == [id : ScreenId, token : Token \cup {None}]

Errors == {"none", "unaddressed", "uninstalled", "unreachable", "unwakeable", "asleep",
           "refused", "lost", "late", "screenless"}

ASSUME NoneAssumption == None \notin ScreenId \cup Token \cup Mac \cup Screen

\* What app_info makes of an answer, and how a request fails: a status of 404
\* is told apart from everything else.
State == {"running", "stopped"}  \* or hidden, or installable
AppInfo == [state : State, id : ScreenId \cup {None}]
NoInfo == [state |-> "stopped", id |-> None]

\* What _await_running waits for.
Up(a) == a.state = "running" /\ a.id # None

\* How late a launch can be.  The deadline is only compared after a request
\* failed, so that one more poll, the launch request, a poll of the app and the
\* settling time may all come after it: more than the timeout seconds that
\* README.md:56 speaks of.
Late == IF Timeout >= RequestTimeout THEN Timeout ELSE RequestTimeout
Worst == Late + 2 * PollInterval + 3 * RequestTimeout + Settle
Never == Worst + 1

VARIABLES
  pc,      \* where the launch is
  now,     \* the clock
  info,    \* the AppInfo launch goes by
  screen,  \* what device.screen holds
  mac,     \* the wake_mac of the device, or None
  why,     \* the error the launch raised
  awake,   \* the time from which on the television answers every request
  up,      \* the time from which on the app runs and reports its screen
  steady   \* whether the television answers no request before it is awake

television == <<awake, up, steady>>
vars == <<pc, now, info, screen, mac, why, television>>

Done == {"returned", "raised"}
Steps == Done \cup {"start", "reach", "wake", "doze", "poll",
                    "launch", "pause", "await", "settle", "check"}

TypeOK ==
  /\ pc \in Steps
  /\ now \in Nat
  /\ info \in AppInfo
  /\ screen \in Screen \cup {None}
  /\ mac \in Mac \cup {None}
  /\ why \in Errors
  /\ awake \in 0 .. Never /\ up \in awake .. Never /\ steady \in BOOLEAN

Init ==
  /\ pc = "start" /\ now = 0 /\ info = NoInfo /\ why = "none"
  /\ screen \in Screen \cup {None}
  /\ mac \in Mac \cup {None}
  /\ awake \in 0 .. Never /\ up \in awake .. Never /\ steady \in BOOLEAN

GoTo(step) == pc' = step /\ UNCHANGED <<info, screen, mac, why>>
Raise(error) ==
  pc' = "raised" /\ why' = error /\ UNCHANGED <<info, screen, mac>>

Request == \E t \in 0 .. RequestTimeout : now' = now + t
Sleep(t) == now' = now + t

\* What the television answers to a request that began at now, and whether the
\* request can fail.
Answers ==
  {a \in AppInfo : (now >= up => Up(a)) /\ (steady => now' >= awake)}
Fails == now < awake

-----------------------------------------------------------------------------
Start ==
  /\ pc = "start"
  /\ Raise("unaddressed") \/ GoTo("reach")
  /\ UNCHANGED now

\* _reach returned the answer a.
Reached(a) ==
  /\ info' = a
  /\ pc' = IF a.state = "running" THEN "check" ELSE "launch"
  /\ UNCHANGED <<screen, mac, why>>

\* The first request.  Only a television that may be asleep is worth waking.
Reach ==
  /\ pc = "reach"
  /\ Request
  /\ \/ \E a \in Answers : Reached(a)
     \/ Fails /\ Raise("uninstalled")
     \/ Fails /\ mac # None /\ GoTo("wake")
     \/ Fails /\ mac = None /\ Raise("unreachable")

\* The packet is sent, or the MAC address is not one, or the socket fails.
Wake ==
  /\ pc = "wake"
  /\ GoTo("doze") \/ Raise("unwakeable")
  /\ UNCHANGED now

\* Mutant of Doze: the loop does not sleep.
Doze_Busy == pc = "doze" /\ GoTo("poll") /\ UNCHANGED now

Doze == pc = "doze" /\ GoTo("poll") /\ Sleep(PollInterval)

\* Mutant of Poll: no deadline.
Poll_Forever ==
  /\ pc = "poll"
  /\ Request
  /\ (\E a \in Answers : Reached(a)) \/ (Fails /\ GoTo("doze"))

\* From now on every error, a 404 included, means: not awake yet.
Poll ==
  /\ pc = "poll"
  /\ Request
  /\ \/ \E a \in Answers : Reached(a)
     \/ Fails /\ now' >= Timeout /\ Raise("asleep")
     \/ Fails /\ now' < Timeout /\ GoTo("doze")

\* launch_app.
Launch ==
  /\ pc = "launch"
  /\ Request
  /\ GoTo("pause") \/ (Fails /\ Raise("refused"))

\* _await_running.
Pause == pc = "pause" /\ GoTo("await") /\ Sleep(PollInterval)

\* The app is up, and launch goes by the answer a; or it is not.
Seen(a) ==
  pc' = "settle" /\ info' = a /\ UNCHANGED <<screen, mac, why>>
NotUp == \E a \in Answers : ~ Up(a)

\* Mutants of Await: one poll only; the state of the app is not looked at.
Await_Once ==
  /\ pc = "await"
  /\ Request
  /\ \/ \E a \in Answers : Up(a) /\ Seen(a)
     \/ NotUp /\ Raise("late")
     \/ Fails /\ Raise("lost")
Await_AnyState ==
  /\ pc = "await"
  /\ Request
  /\ \/ \E a \in Answers : a.id # None /\ Seen(a)
     \/ NotUp /\ now' >= Timeout /\ Raise("late")
     \/ NotUp /\ now' < Timeout /\ GoTo("pause")
     \/ Fails /\ Raise("lost")

Await ==
  /\ pc = "await"
  /\ Request
  /\ \/ \E a \in Answers : Up(a) /\ Seen(a)
     \/ NotUp /\ now' >= Timeout /\ Raise("late")
     \/ NotUp /\ now' < Timeout /\ GoTo("pause")
     \/ Fails /\ Raise("lost")

Settled == pc = "settle" /\ GoTo("check") /\ Sleep(Settle)

\* Mutants of Check: a missing id is not noticed; the token goes even when the
\* id is the same.
Check_Unseen ==
  /\ pc = "check"
  /\ screen' = IF screen # None /\ screen.id = info.id THEN screen
               ELSE [id |-> info.id, token |-> None]
  /\ pc' = "returned"
  /\ UNCHANGED <<now, info, mac, why>>
Check_Renews ==
  /\ pc = "check"
  /\ info.id # None
  /\ screen' = [id |-> info.id, token |-> None]
  /\ pc' = "returned"
  /\ UNCHANGED <<now, info, mac, why>>

\* Another screen id makes a new Screen, without a token.
Check ==
  /\ pc = "check"
  /\ \/ info.id = None /\ Raise("screenless")
     \/ /\ info.id # None
        /\ screen' = IF screen # None /\ screen.id = info.id THEN screen
                     ELSE [id |-> info.id, token |-> None]
        /\ pc' = "returned"
        /\ UNCHANGED <<info, mac, why>>
  /\ UNCHANGED now

Step ==
  \/ Start \/ Reach \/ Wake \/ Doze \/ Poll
  \/ Launch \/ Pause \/ Await \/ Settled \/ Check

Next == Step /\ UNCHANGED television

Spec == Init /\ [][Next]_vars

\* Requests time out and sleeps end.
FairSpec == Spec /\ WF_vars(Next)

-----------------------------------------------------------------------------
(* Properties.                                                              *)

\* A launch never gives a television up before its time: one that answers, or
\* whose app is up, a request's time before the deadline is not told to have
\* been too late, and one that goes on answering once it answered is neither
\* lost nor refused (_reach, _await_running).  One failed request after the first
\* answer does end the launch at once (dial.py:236).
Patient ==
  /\ why = "asleep" => awake + RequestTimeout > Timeout
  /\ why = "late" => up + RequestTimeout > Timeout
  /\ why \in {"refused", "lost"} => ~ steady

\* A launch is not later than Worst (_reach, _await_running).
TimeBound == now <= Worst

\* A launch that returned saw the app running under the id the device now has.
ScreenIsReported ==
  pc = "returned" => info.state = "running" /\ screen # None /\ screen.id = info.id

\* To cast a launch is one step (Launcher.tla).
Abstract == INSTANCE Launcher WITH
  outcome <- IF pc \in Done THEN pc ELSE "busy"
IsLauncher == Abstract!LaunchSpec

\* A launch ends, whatever the television does.
Ends == <>(pc \in Done)

\* Why TimeBound holds: how much time has passed at most before each step.
InTime ==
  /\ pc \in {"start", "reach"} => now = 0
  /\ pc = "wake" => now <= RequestTimeout
  /\ pc = "doze" => now <= Late
  /\ pc = "poll" => now <= Late + PollInterval
  /\ pc = "launch" => now <= Late + PollInterval + RequestTimeout
  /\ pc = "pause" => now <= Late + PollInterval + 2 * RequestTimeout
  /\ pc = "await" => now <= Late + 2 * PollInterval + 2 * RequestTimeout
  /\ pc = "settle" => now <= Late + 2 * PollInterval + 3 * RequestTimeout
  /\ now <= Worst

\* Why ScreenIsReported holds: what is known of info at each step.
Known ==
  /\ pc \in {"settle", "check", "returned"} => info.state = "running"
  /\ pc = "settle" => info.id # None
  /\ pc = "returned" => screen # None /\ screen.id = info.id

\* Why Patient holds: a steady television that answered is awake.
Answering ==
  steady /\ pc \in {"launch", "pause", "await"} => now >= awake

Inv == TypeOK /\ InTime /\ Patient /\ Known /\ Answering
============================================================================
