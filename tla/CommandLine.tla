---------------------------- MODULE CommandLine ----------------------------
(***************************************************************************)
(* The command line (src/yttv/cli.py): run turns the options of a command  *)
(* into a chain of API calls of Yttv.tla, passes the Device object of one  *)
(* to the next, and main turns what the chain ends with into an exit code. *)
(* Several people may do this at the same time, over the same cache file.  *)
(*                                                                         *)
(* A command is a process of its own.  What it printed is left out.        *)
(***************************************************************************)
EXTENDS Yttv, Migration

CONSTANTS
  Commands,    \* what people type
  YtcastFiles  \* what ytcast, while it is in use, may have left in its file

Option == {"doctor", "search", "list", "pair", "appletv", "cast", "videos"}
Command == [options : SUBSET Option, device : Selector \ {"device"}]

ASSUME CommandsAssumption == Commands \subseteq Command /\ None \notin Command
ASSUME YtcastFilesAssumption ==
  \A entries \in YtcastFiles :
    /\ entries \in Seq(Entry)
    /\ Raises(entries) \/ Ytcast = Migrate(entries)

\* The stages of run, in their order.  Asking a television for its PIN comes
\* before attaching it, asking it for its uuid before adding it.
Rank == [doctor |-> 1, search |-> 2, list |-> 3, pair |-> 4, pin |-> 5,
         appletv |-> 6, probe |-> 7, cast |-> 8, videos |-> 9]
Stage == DOMAIN Rank

\* The stages that are API calls, and those that only talk to the network.
ApiCall == [search |-> "discover", list |-> "devices", pair |-> "pair",
            appletv |-> "attach", cast |-> "add", videos |-> "cast"]
Asking == {"doctor", "pin", "probe"}

\* The options run never comes to: the doctor and the list end it, and so does
\* a search without videos.
Skipped(options) ==
  IF "doctor" \in options THEN options \ {"doctor"}
  ELSE IF "search" \in options /\ "videos" \notin options THEN options \ {"search"}
  ELSE IF "list" \in options THEN options \ {"search", "list"}
  ELSE {}

Plan(options) ==
  LET used == options \ Skipped(options)
  IN  used \cup {s \in {"pin"} : "appletv" \in used} \cup {s \in {"probe"} : "cast" \in used}

\* How a command ends: exit code 0, 1, 2, or with the traceback of an error
\* that is no YttvError, or by an interrupt or the death of its process.
Ended == {"done", "failed", "usage", "traceback", "killed"}

VARIABLES
  command,   \* the command of each process, None before the first
  left,      \* the stages it has not finished
  outcome,   \* "running", or how it ended; "none" before the first
  paired,    \* the screen its code belonged to
  sent       \* how often its videos reached the television

commandVars == <<command, left, outcome, paired, sent>>
allVars == <<vars, commandVars>>

CommandTypeOK ==
  /\ command \in [Procs -> Opt(Commands)]
  /\ left \in [Procs -> SUBSET Stage]
  /\ outcome \in [Procs -> Ended \cup {"running", "none"}]
  /\ paired \in [Procs -> Opt(ScreenId)]
  /\ sent \in [Procs -> Nat]

CommandInit ==
  /\ Init
  /\ command = [p \in Procs |-> None]
  /\ left = [p \in Procs |-> {}]
  /\ outcome = [p \in Procs |-> "none"]
  /\ paired = [p \in Procs |-> None]
  /\ sent = [p \in Procs |-> 0]

-----------------------------------------------------------------------------
Running(p) == outcome[p] = "running"

\* The stage p is at.
Now(p, s) == s \in left[p] /\ \A t \in left[p] : Rank[s] <= Rank[t]

Between(p) == Running(p) /\ pc[p] \in Idle

\* Mutant of DeviceFor: what --pair returned is not passed on.
DeviceFor_Default(p) == command[p].device

\* The device argument of the next call: what the last call returned that was
\* given or gave a device, or what -d says.
DeviceFor(p) ==
  IF (Plan(command[p].options) \ left[p]) \cap {"pair", "appletv", "cast"} # {}
    THEN "device" ELSE command[p].device

\* The call that stage s makes.  --cast without a device adds one, with a
\* device it attaches to it.
Makes(p, s, c) ==
  LET device == DeviceFor(p)
  IN  /\ c.op = IF s = "cast" /\ device # "default" THEN "attach" ELSE ApiCall[s]
      /\ c.op \in {"attach", "cast"} => c.sel = device
      /\ s \in {"appletv", "cast"} => c.backend = s

End(p, how) == outcome' = [outcome EXCEPT ![p] = how]

Advance(p) ==
  \E s \in Stage :
    /\ Now(p, s)
    /\ left' = [left EXCEPT ![p] = @ \ {s}]
    /\ IF left[p] = {s} THEN End(p, "done") ELSE UNCHANGED outcome

-----------------------------------------------------------------------------
\* A new process, or the first one, parses its arguments.
Type(p) ==
  /\ ~Running(p) /\ calls < MaxCalls
  /\ IF pc[p] = "start" THEN UNCHANGED vars ELSE Crash(p)
  /\ \E c \in Commands :
       /\ command' = [command EXCEPT ![p] = c]
       /\ left' = [left EXCEPT ![p] = Plan(c.options)]
       /\ End(p, IF Plan(c.options) = {} THEN "usage" ELSE "running")
  /\ paired' = [paired EXCEPT ![p] = None]
  /\ sent' = [sent EXCEPT ![p] = 0]

\* The doctor, pairing with an Apple TV, probing a Cast device.  Errors the
\* command line knows become exit code 1, as does a doctor without replies.
Ask(p) ==
  /\ Between(p)
  /\ \E s \in Asking : Now(p, s)
  /\ \/ Advance(p)
     \/ End(p, "failed") /\ UNCHANGED left
     \/ End(p, "traceback") /\ UNCHANGED left
  /\ UNCHANGED <<vars, command, paired, sent>>

\* Arguments that are no code and no videos are refused before anything is read.
Refuse(p) ==
  /\ Between(p)
  /\ Now(p, "pair") \/ Now(p, "videos")
  /\ End(p, "failed")
  /\ UNCHANGED <<vars, command, left, paired, sent>>

Invoke(p) ==
  /\ Between(p)
  /\ file # None \/ \E entries \in YtcastFiles : ~Raises(entries)
  /\ Begin(p)
  /\ \E s \in DOMAIN ApiCall : Now(p, s) /\ Makes(p, s, call'[p])
  /\ UNCHANGED commandVars

\* The load of a call fails; there is nothing in the call yet to undo.
LoadRaises(p) ==
  /\ Between(p)
  /\ file = None /\ \E entries \in YtcastFiles : Raises(entries)
  /\ \E s \in DOMAIN ApiCall : Now(p, s)
  /\ End(p, "traceback")
  /\ UNCHANGED <<vars, command, left, paired, sent>>

\* Mutant of Errors: main does not return 1 after its message.
Errors_Zero(step) ==
  CASE step \in Saving \cup {"migrated", "finish", "discover"} -> {"traceback"}
    [] OTHER -> {"done"}

\* What becomes of an error of the API, by where it came up: OSErrors of a save
\* and of a search are no YttvErrors, and of pairing only a PairingError is.
Errors(step) ==
  CASE step \in Saving \cup {"migrated", "finish", "discover"} -> {"traceback"}
    [] step = "pair" -> {"failed", "traceback"}
    [] OTHER -> {"failed"}

\* One step of the call under way.  A request to play that ends with an error
\* may have reached the television all the same.
Work(p) ==
  /\ Running(p)
  /\ Step(p)
  /\ \/ pc'[p] = "returned" /\ Advance(p)
     \/ pc'[p] = "raised" /\ UNCHANGED left /\ \E how \in Errors(pc[p]) : End(p, how)
     \/ pc'[p] \notin Idle /\ UNCHANGED <<left, outcome>>
  /\ paired' = IF pc[p] = "pair" /\ pc'[p] = "finish"
               THEN [paired EXCEPT ![p] = devices'[p][at'[p]].screen.id] ELSE paired
  /\ \/ pc[p] \in {"send", "resend"} /\ sent' = [sent EXCEPT ![p] = @ + 1]
     \/ ~(pc[p] \in {"send", "resend"} /\ pc'[p] = "finish") /\ UNCHANGED sent
  /\ UNCHANGED command

\* An interrupt, or the death of the process.
Die(p) ==
  /\ Running(p)
  /\ IF pc[p] = "start" THEN UNCHANGED vars ELSE Crash(p)
  /\ End(p, "killed")
  /\ UNCHANGED <<command, left, paired, sent>>

CommandNext ==
  \E p \in Procs :
    Type(p) \/ Ask(p) \/ Refuse(p) \/ Invoke(p) \/ LoadRaises(p) \/ Work(p) \/ Die(p)

CommandSpec == CommandInit /\ [][CommandNext]_allVars

-----------------------------------------------------------------------------
(* Properties.                                                              *)

Wants(p, option) == command[p] # None /\ option \in Plan(command[p].options)

\* The videos of a command that also pairs a screen go to that screen, however
\* other processes change the default in between: only a launcher that asks the
\* television may know better (device = paired, cli.py:218).
PlaysWhereItPaired ==
  \A p \in Procs :
    pc[p] \in {"send", "resend"} /\ Wants(p, "pair") /\ ~Wants(p, "cast") =>
      Target(p).screen.id = paired[p] \/ Target(p).backend \in {"dial", "cast"}

\* Exit code 0 of a command that got as far as its videos means that they were
\* sent, also if it had to try twice (main, cli.py:236).
DoneMeansSent ==
  \A p \in Procs : outcome[p] = "done" /\ Wants(p, "videos") => sent[p] > 0

\* A command's videos reach the television at most twice: once for each of the
\* two requests, when the answer to the first was a session error although it
\* had arrived (api.py:187).
AtMostTwice == \A p \in Procs : sent[p] <= 2

\* Every failure is a YttvError (api.py:9), which main turns into a message.
OnlyYttvErrors == \A p \in Procs : outcome[p] # "traceback"
=============================================================================
