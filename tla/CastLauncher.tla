---------------------------- MODULE CastLauncher ----------------------------
(***************************************************************************)
(* CastLauncher.launch and probe (src/yttv/backends/cast.py): find the     *)
(* device at an address with a CastBrowser, connect, and, to launch, ask   *)
(* its YouTube receiver for the screen id and take the id over.  Three     *)
(* threads take part: the caller, the browser, which adds and removes      *)
(* devices and calls added, and the connection, which calls                *)
(* receive_message.  They meet in two events, found and _got_status.       *)
(***************************************************************************)
CONSTANTS
  ScreenId,  \* the ids the receiver may report
  Token,     \* lounge tokens
  None       \* no screen, no token, no id

Screen == [id : ScreenId, token : Token \cup {None}]

ASSUME NoneAssumption == None \notin ScreenId \cup Token \cup Screen

VARIABLES
  job,        \* what the caller wants
  pc,         \* where the caller is
  browser,    \* the CastBrowser; "stuck" when stopping it failed
  present,    \* whether browser.devices has a device at the address
  adding,     \* whether a call of added for it is under way
  found,      \* the event of _connect
  cast,       \* the connection; "stuck" when closing it failed
  receiving,  \* whether receive_message has stored an id and not yet set
  gotStatus,  \* the event of the MdxController
  screenId,   \* its screen_id
  told,       \* the ids the receiver reported so far
  answer,     \* what request_screen_id returned
  screen      \* what device.screen holds

vars == <<job, pc, browser, present, adding, found, cast, receiving, gotStatus,
          screenId, told, answer, screen>>
discovery == <<present, adding, found>>
messages == <<receiving, gotStatus, screenId, told>>

Done == {"returned", "raised"}
Steps == Done \cup {"start", "find", "pick", "connect", "ask", "send", "wait",
                    "read", "disconnect", "stop", "check"}

TypeOK ==
  /\ job \in {"launch", "probe"}
  /\ pc \in Steps
  /\ browser \in {"none", "running", "stopped", "stuck"}
  /\ cast \in {"none", "open", "closed", "stuck"}
  /\ {present, adding, found, receiving, gotStatus} \subseteq BOOLEAN
  /\ {screenId, answer} \subseteq ScreenId \cup {None}
  /\ told \subseteq ScreenId
  /\ screen \in Screen \cup {None}

Init ==
  /\ job \in {"launch", "probe"}
  /\ pc = "start" /\ browser = "none" /\ cast = "none"
  /\ present = FALSE /\ adding = FALSE /\ found = FALSE
  /\ receiving = FALSE /\ gotStatus = FALSE
  /\ screenId = None /\ answer = None /\ told = {}
  /\ screen \in Screen \cup {None}

-----------------------------------------------------------------------------
(* The caller: CastLauncher.launch, screen_id, probe, _connect.             *)

\* A launch without an address has nothing to look for.  start_discovery may
\* fail before or after its threads were started.
Start ==
  /\ pc = "start"
  /\ \/ job = "launch" /\ pc' = "raised" /\ UNCHANGED browser
     \/ pc' = "raised" /\ browser' \in {"none", "running"}
     \/ pc' = "find" /\ browser' = "running"
  /\ UNCHANGED <<cast, answer, screen, discovery, messages>>

\* What stop_discovery makes of the browser: stopped, unless it fails.
Stopping == browser' \in {"stopped", "stuck"}

\* found.wait(timeout).
Find ==
  /\ pc = "find"
  /\ \/ found /\ pc' = "pick" /\ UNCHANGED browser
     \/ ~found /\ pc' = "raised" /\ Stopping
  /\ UNCHANGED <<cast, answer, screen, discovery, messages>>

\* next(...): a device that went away meanwhile is a StopIteration, and any
\* other device that the browser adds or removes just then is a RuntimeError.
Pick ==
  /\ pc = "pick"
  /\ \/ present /\ pc' = "connect"
     \/ pc' = "raised"
  /\ UNCHANGED <<browser, cast, answer, screen, discovery, messages>>

\* Connecting may fail before or after its thread was started.  A handler
\* for the receiver's messages is registered at once.  A probe is done with it.
Connect ==
  /\ pc = "connect"
  /\ \/ /\ pc' = IF job = "probe" THEN "disconnect" ELSE "ask"
        /\ cast' = "open" /\ UNCHANGED browser
     \/ pc' = "raised" /\ cast' \in {"none", "open"} /\ Stopping
  /\ UNCHANGED <<answer, screen, discovery, messages>>

\* request_screen_id: clear the event,
Ask ==
  /\ pc = "ask" /\ pc' = "send"
  /\ gotStatus' = FALSE
  /\ UNCHANGED <<browser, cast, answer, screen, discovery, receiving, screenId, told>>

\* Mutant of Send: its errors pass the finally clause by.
Send_Escapes ==
  /\ pc = "send" /\ pc' \in {"wait", "raised"}
  /\ UNCHANGED <<browser, cast, answer, screen, discovery, messages>>

\* send the request, which may fail,
Send ==
  /\ pc = "send" /\ pc' \in {"wait", "disconnect"}
  /\ UNCHANGED <<browser, cast, answer, screen, discovery, messages>>

\* Mutant of Wait: no timeout.
Wait_Forever ==
  /\ pc = "wait" /\ gotStatus /\ pc' = "read"
  /\ UNCHANGED <<browser, cast, answer, screen, discovery, messages>>

\* wait for the event or for the timeout,
Wait ==
  /\ pc = "wait"
  /\ pc' = IF gotStatus THEN "read" ELSE "disconnect"
  /\ UNCHANGED <<browser, cast, answer, screen, discovery, messages>>

\* and read the id that is there by now.
Read ==
  /\ pc = "read" /\ pc' = "disconnect"
  /\ answer' = screenId
  /\ UNCHANGED <<browser, cast, screen, discovery, messages>>

\* The finally clauses of screen_id and probe: cast.disconnect, whose error
\* passes the browser by,
Disconnect ==
  /\ pc = "disconnect"
  /\ \/ pc' = "stop" /\ cast' = "closed"
     \/ pc' = "raised" /\ cast' = "stuck"
  /\ UNCHANGED <<browser, answer, screen, discovery, messages>>

\* Mutant of Stop: an answer without an id is not told apart.
Stop_Unchecked ==
  /\ pc = "stop"
  /\ \/ pc' = (IF job = "probe" THEN "returned" ELSE "check") /\ browser' = "stopped"
     \/ pc' = "raised" /\ browser' = "stuck"
  /\ UNCHANGED <<cast, answer, screen, discovery, messages>>

\* then browser.stop_discovery, after which a launch goes on with its answer or
\* with the error it had.
Stop ==
  /\ pc = "stop"
  /\ \/ /\ pc' = IF job = "probe" THEN "returned"
                 ELSE IF answer = None THEN "raised" ELSE "check"
        /\ browser' = "stopped"
     \/ pc' = "raised" /\ browser' = "stuck"
  /\ UNCHANGED <<cast, answer, screen, discovery, messages>>

\* Mutant of Check: the id is assigned to the Screen that is there.
Check_KeepsToken ==
  /\ pc = "check" /\ pc' = "returned"
  /\ screen' = [id |-> answer, token |-> IF screen = None THEN None ELSE screen.token]
  /\ UNCHANGED <<browser, cast, answer, discovery, messages>>

\* Another screen id makes a new Screen, without a token.
Check ==
  /\ pc = "check" /\ pc' = "returned"
  /\ screen' = IF screen # None /\ screen.id = answer THEN screen
               ELSE [id |-> answer, token |-> None]
  /\ UNCHANGED <<browser, cast, answer, discovery, messages>>

Caller ==
  /\ \/ Start \/ Find \/ Pick \/ Connect \/ Ask \/ Send \/ Wait \/ Read
     \/ Disconnect \/ Stop \/ Check
  /\ UNCHANGED job

-----------------------------------------------------------------------------
(* The other threads.                                                       *)

\* The browser enters a device into its list and then calls added,
Appear ==
  /\ browser \in {"running", "stuck"} /\ ~present
  /\ present' = TRUE /\ adding' = TRUE
  /\ UNCHANGED <<pc, browser, found, cast, answer, screen, messages>>

\* which looks it up again: it may have been removed.
Added ==
  /\ adding
  /\ adding' = FALSE /\ found' = (found \/ present)
  /\ UNCHANGED <<pc, browser, present, cast, answer, screen, messages>>

Vanish ==
  /\ browser \in {"running", "stuck"} /\ present
  /\ present' = FALSE
  /\ UNCHANGED <<pc, browser, adding, found, cast, answer, screen, messages>>

\* receive_message stores the id of a status, which may have none,
Receive ==
  /\ cast \in {"open", "stuck"} /\ ~receiving
  /\ receiving' = TRUE
  /\ screenId' \in ScreenId \cup {None}
  /\ told' = told \cup ({screenId'} \ {None})
  /\ UNCHANGED <<pc, browser, gotStatus, cast, answer, screen, discovery>>

\* and sets the event.
Signal ==
  /\ receiving
  /\ receiving' = FALSE /\ gotStatus' = TRUE
  /\ UNCHANGED <<pc, browser, screenId, told, cast, answer, screen, discovery>>

Threads == (Appear \/ Added \/ Vanish \/ Receive \/ Signal) /\ UNCHANGED job

Next == Caller \/ Threads

Spec == Init /\ [][Next]_vars

\* The caller waits for nothing without a timeout; nothing is asked of the
\* other threads.
FairSpec == Spec /\ WF_vars(Caller)

-----------------------------------------------------------------------------
(* Properties.                                                              *)

\* The id a launch returns with is one the receiver reported, however its
\* messages and the waiting interleave: an event set for one message and an id
\* taken from the next never give a half of both, and a status without an id is
\* no answer (request_screen_id, receive_message).
Told == job = "launch" /\ pc \in {"check", "returned"} => answer \in told

\* Whatever fails, a launch or a probe ends only after it tried to stop its
\* browser and to close its connection, but for these ways out: the browser is
\* never stopped when start_discovery failed half-way (cast.py:94), when its
\* devices changed before or during the lookup (cast.py:98) and when disconnect
\* failed (cast.py:122, 143), and the connection is never closed when connecting
\* failed with its thread started (cast.py:101).
CleansUp ==
  [][pc \notin Done /\ pc' \in Done =>
       /\ browser' = "running" => pc \in {"start", "pick", "disconnect"}
       /\ cast' = "open" => pc = "connect"]_vars

\* To cast a launch is one step (Launcher.tla); a probe leaves the screen alone.
Abstract == INSTANCE Launcher WITH
  outcome <- IF pc \in Done THEN pc ELSE "busy"
IsLauncher == Abstract!LaunchSpec

\* A launch or a probe ends, whatever the browser and the receiver do.
Ends == <>(pc \in Done)
============================================================================
