------------------------------- MODULE AppleTV -------------------------------
(***************************************************************************)
(* The Apple TV backend (src/yttv/backends/appletv.py): launch and         *)
(* ensure_paired hand their work to a helper thread and wait for it with a *)
(* timeout (_run).  A caller that gives up leaves its helper behind, which *)
(* goes on with the television until the process ends.                     *)
(*                                                                         *)
(* The callers reach one television.  Steps of pyatv, of the television    *)
(* and of the person typing the PIN succeed, fail, or never happen.        *)
(***************************************************************************)
CONSTANT Jobs  \* calls of launch and ensure_paired

VARIABLES
  kind,    \* what each job is: "launch" or "pair"
  caller,  \* where its caller is
  helper,  \* where its helper thread is
  result,  \* what the helper's coroutine came to
  link,    \* its connection or pairing with the television; "stuck" when
           \* closing it failed
  stored,  \* whether the stored credentials include Companion's
  front    \* whether it brought the YouTube app to the front

vars == <<kind, caller, helper, result, link, stored, front>>

LaunchSteps == {"scan", "connect", "power", "app", "settle", "close"}
PairSteps == {"scan", "connect", "begin", "pin", "finish", "save", "close"}
Working == LaunchSteps \cup PairSteps
Done == {"returned", "raised", "gave up"}

TypeOK ==
  /\ kind \in [Jobs -> {"launch", "pair"}]
  /\ caller \in [Jobs -> Done \cup {"start", "waiting"}]
  /\ helper \in [Jobs -> Working \cup {"none", "ended", "killed"}]
  /\ \A j \in Jobs : helper[j] \in Working =>
       helper[j] \in IF kind[j] = "launch" THEN LaunchSteps ELSE PairSteps
  /\ result \in [Jobs -> {"none", "ok", "failed"}]
  /\ link \in [Jobs -> {"none", "open", "closed", "stuck"}]
  /\ stored \in BOOLEAN
  /\ front \in [Jobs -> BOOLEAN]

Init ==
  /\ kind \in [Jobs -> {"launch", "pair"}]
  /\ caller = [j \in Jobs |-> "start"]
  /\ helper = [j \in Jobs |-> "none"]
  /\ result = [j \in Jobs |-> "none"]
  /\ link = [j \in Jobs |-> "none"]
  /\ stored \in BOOLEAN
  /\ front = [j \in Jobs |-> FALSE]

-----------------------------------------------------------------------------
(* The caller: _run.                                                        *)

\* A launch without an address raises before there is a helper.
Start(j) ==
  /\ caller[j] = "start"
  /\ \/ /\ caller' = [caller EXCEPT ![j] = "waiting"]
        /\ helper' = [helper EXCEPT ![j] = "scan"]
     \/ /\ kind[j] = "launch"
        /\ caller' = [caller EXCEPT ![j] = "raised"]
        /\ UNCHANGED helper
  /\ UNCHANGED <<kind, result, link, stored, front>>

Join(j) ==
  /\ caller[j] = "waiting" /\ helper[j] = "ended"
  /\ caller' = [caller EXCEPT ![j] = IF result[j] = "ok" THEN "returned" ELSE "raised"]
  /\ UNCHANGED <<kind, helper, result, link, stored, front>>

\* Mutant of GiveUp: join without a timeout.
GiveUp_Never(j) == FALSE

\* The timeout passed and the thread is alive.
GiveUp(j) ==
  /\ caller[j] = "waiting" /\ helper[j] \in Working
  /\ caller' = [caller EXCEPT ![j] = "gave up"]
  /\ UNCHANGED <<kind, helper, result, link, stored, front>>

\* The helper is a daemon thread: it ends with the process of its caller.
Exit(j) ==
  /\ caller[j] \in Done /\ helper[j] \in Working
  /\ helper' = [helper EXCEPT ![j] = "killed"]
  /\ UNCHANGED <<kind, caller, result, link, stored, front>>

-----------------------------------------------------------------------------
(* The helper: _launch and _pair.                                           *)

GoTo(j, step) ==
  helper' = [helper EXCEPT ![j] = step] /\ UNCHANGED <<kind, caller, result>>
End(j, outcome, step) ==
  /\ helper' = [helper EXCEPT ![j] = step]
  /\ result' = [result EXCEPT ![j] = outcome]
  /\ UNCHANGED <<kind, caller>>

\* _storage, _find and _companion_paired.  A launch needs the credentials, a
\* pairing is done when they are there.
Scan(j) ==
  /\ helper[j] = "scan"
  /\ \/ End(j, "failed", "ended")
     \/ kind[j] = "launch" /\ stored /\ GoTo(j, "connect")
     \/ kind[j] = "pair" /\ stored /\ End(j, "ok", "ended")
     \/ kind[j] = "pair" /\ ~stored /\ GoTo(j, "connect")
  /\ UNCHANGED <<link, stored, front>>

\* Mutant of Connect: a pairing goes the way of a launch.
Connect_AsLaunch(j) ==
  /\ helper[j] = "connect"
  /\ link' = [link EXCEPT ![j] = "open"]
  /\ GoTo(j, "power")
  /\ UNCHANGED <<stored, front>>

\* pyatv.connect or pyatv.pair: outside the try statement.
Connect(j) ==
  /\ helper[j] = "connect"
  /\ \/ /\ link' = [link EXCEPT ![j] = "open"]
        /\ GoTo(j, IF kind[j] = "launch" THEN "power" ELSE "begin")
     \/ End(j, "failed", "ended") /\ UNCHANGED link
  /\ UNCHANGED <<stored, front>>

\* Mutant of Try: there is no finally clause.
Try_Unguarded(j, step, next) ==
  /\ helper[j] = step
  /\ GoTo(j, next) \/ End(j, "failed", "ended")
  /\ UNCHANGED link

\* A step of the try statement: it is done, or the finally clause follows.
Try(j, step, next) ==
  /\ helper[j] = step
  /\ GoTo(j, next) \/ End(j, "failed", "close")
  /\ UNCHANGED link

Power(j) == Try(j, "power", "app") /\ UNCHANGED <<stored, front>>

LaunchApp(j) ==
  /\ Try(j, "app", "settle")
  /\ front' = [front EXCEPT ![j] = helper'[j] = "settle"]
  /\ UNCHANGED stored

Settle(j) ==
  /\ helper[j] = "settle"
  /\ End(j, "ok", "close") /\ UNCHANGED <<link, stored, front>>

Begin(j) == Try(j, "begin", "pin") /\ UNCHANGED <<stored, front>>
AskPin(j) == Try(j, "pin", "finish") /\ UNCHANGED <<stored, front>>

\* Mutant of Finish: the credentials are not written to the storage.
Finish_Unsaved(j) ==
  /\ helper[j] = "finish"
  /\ End(j, "ok", "close") \/ End(j, "failed", "close")
  /\ UNCHANGED <<link, stored, front>>

Finish(j) == Try(j, "finish", "save") /\ UNCHANGED <<stored, front>>

\* storage.save.
Save(j) ==
  /\ helper[j] = "save"
  /\ \/ End(j, "ok", "close") /\ stored' = TRUE
     \/ End(j, "failed", "close") /\ UNCHANGED stored
  /\ UNCHANGED <<link, front>>

\* The finally clauses: an error of close is the outcome of the job.
Close(j) ==
  /\ helper[j] = "close"
  /\ \/ link' = [link EXCEPT ![j] = "closed"] /\ GoTo(j, "ended")
     \/ link' = [link EXCEPT ![j] = "stuck"] /\ End(j, "failed", "ended")
  /\ UNCHANGED <<stored, front>>

Helper(j) ==
  \/ Scan(j) \/ Connect(j) \/ Power(j) \/ LaunchApp(j) \/ Settle(j)
  \/ Begin(j) \/ AskPin(j) \/ Finish(j) \/ Save(j) \/ Close(j)

Next == \E j \in Jobs : Start(j) \/ Join(j) \/ GiveUp(j) \/ Exit(j) \/ Helper(j)

Spec == Init /\ [][Next]_vars

\* A join has a timeout; of the helper nothing is asked.
FairSpec == Spec /\ \A j \in Jobs : WF_vars(Join(j) \/ GiveUp(j))

-----------------------------------------------------------------------------
(* Properties.                                                              *)

\* A launch that returned has brought the app to the front, and a pairing that
\* returned is in the storage for every later launch, with nothing left open.
DoneWhenReturned ==
  \A j \in Jobs : caller[j] = "returned" =>
    /\ IF kind[j] = "launch" THEN front[j] ELSE stored
    /\ link[j] \in {"none", "closed"}

\* A helper that came to its end has closed what it opened, or at least tried.
Closes == \A j \in Jobs : helper[j] = "ended" => link[j] # "open"

\* No caller waits for ever, not even for the PIN.
CallersEnd == \A j \in Jobs : caller[j] = "waiting" ~> caller[j] \in Done
============================================================================
