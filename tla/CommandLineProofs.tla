-------------------------- MODULE CommandLineProofs --------------------------
(***************************************************************************)
(* Proofs about the command line, for any number of people, any commands   *)
(* and any ytcast file.                                                    *)
(***************************************************************************)
EXTENDS CommandLine, YttvProofs

-----------------------------------------------------------------------------
(* Commands only ever make calls of the API.                                *)

LEMMA CommandStepsAreCalls == [CommandNext]_allVars => [Next]_vars
<1> SUFFICES ASSUME [CommandNext]_allVars PROVE [Next]_vars
  OBVIOUS
<1>1. CASE UNCHANGED allVars
  BY <1>1 DEF allVars
<1>2. CASE CommandNext
  <2>1. PICK p \in Procs : Type(p) \/ Ask(p) \/ Refuse(p) \/ Invoke(p) \/ LoadRaises(p)
                             \/ Work(p) \/ Die(p)
    BY <1>2 DEF CommandNext
  <2> QED
    BY <2>1 DEF Type, Ask, Refuse, Invoke, LoadRaises, Work, Die, Next
<1> QED
  BY <1>1, <1>2

LEMMA CommandsAreCalls == CommandSpec => Spec
<1>1. CommandInit => Init
  BY DEF CommandInit
<1> QED
  BY <1>1, CommandStepsAreCalls, PTL DEF CommandSpec, Spec

\* Whatever people type, videos are only sent with a token issued for the
\* screen they are sent to.
THEOREM CommandsKeepTokens == CommandSpec => []TokenForItsScreen
BY CommandsAreCalls, TokensFitTheirScreens

\* Nor do their commands ever leave two entries of the file with one identity, as
\* long as --cast adds a device, or goes to the one an earlier option of the same
\* command gave: with -d it would give its uuid to an entry (api.py:262).
THEOREM CommandsKeepIdentities ==
  ASSUME KeepIdentities(Calls), Named(Ytcast)
  PROVE  CommandSpec => []UniqueIdentity
BY CommandsAreCalls, IdentitiesAreUnique

\* A single person never makes the file forget what it knew of a television.
THEOREM CommandsForgetNothing ==
  ASSUME OneProcess, KeepUsns(Calls)
  PROVE  CommandSpec => NothingForgotten
BY CommandsAreCalls, FileForgetsNothing

-----------------------------------------------------------------------------
(* How often the videos of a command are sent.                              *)

\* What is known of a command under way, and of one that is over.
CountInv(p) ==
  /\ PlaceInv(p)
  /\ Running(p) /\ Wants(p, "videos") => "videos" \in left[p]
  /\ Running(p) /\ pc[p] \notin Idle => (call[p].op = "cast" <=> Now(p, "videos"))
  /\ Running(p) =>
       CASE pc[p] \in Trying -> sent[p] <= 1
         [] pc[p] = "finish" /\ call[p].op = "cast" -> sent[p] \in 1 .. 2
         [] OTHER -> sent[p] = 0
  /\ ~Running(p) =>
       sent[p] <= 2 /\ (outcome[p] = "done" /\ Wants(p, "videos") => sent[p] > 0)

Count ==
  /\ command \in [Procs -> Opt(Commands)]
  /\ left \in [Procs -> SUBSET Stage]
  /\ outcome \in [Procs -> Ended \cup {"running", "none"}]
  /\ sent \in [Procs -> Nat]
  /\ \A p \in Procs : CountInv(p)

LEMMA Stages ==
  /\ Stage = Option \cup {"pin", "probe"}
  /\ \A s \in Stage : Rank[s] \in Nat /\ (s # "videos" => Rank[s] < Rank["videos"])
  /\ \A s, t \in Stage : Rank[s] = Rank[t] => s = t
  /\ DOMAIN ApiCall \subseteq Stage /\ "videos" \in DOMAIN ApiCall
  /\ \A s \in DOMAIN ApiCall : ApiCall[s] = "cast" <=> s = "videos"
  /\ Asking \subseteq Stage \ {"videos"}
BY DEF Stage, Rank, Option, ApiCall, Asking

\* A command is at one stage at a time, and the videos are the last.
LEMMA OneStage ==
  ASSUME NEW p \in Procs, left[p] \subseteq Stage, NEW s, NEW t, Now(p, s), Now(p, t)
  PROVE  s = t /\ (s = "videos" => left[p] = {s})
<1>1. s \in Stage /\ t \in Stage /\ Rank[s] <= Rank[t] /\ Rank[t] <= Rank[s]
  BY DEF Now
<1>2. s = t
  BY <1>1, Stages
<1>3. ASSUME s = "videos", NEW u \in left[p] PROVE u = s
  <2>1. u \in Stage /\ Rank["videos"] <= Rank[u]
    BY <1>3 DEF Now
  <2>2. Rank[u] \in Nat /\ Rank["videos"] \in Nat
    BY <2>1, Stages
  <2> QED
    BY <1>3, <2>1, <2>2, Stages
<1> QED
  BY <1>2, <1>3 DEF Now

LEMMA PlansAreStages ==
  ASSUME NEW c \in Commands
  PROVE  Plan(c.options) \subseteq Stage
BY CommandsAssumption, Stages DEF Command, Plan, Option

\* Nothing that happens to one command touches the count of another.
LEMMA OtherCounts ==
  ASSUME NEW q \in Procs, CountInv(q),
         pc'[q] = pc[q], call'[q] = call[q], command'[q] = command[q],
         left'[q] = left[q], outcome'[q] = outcome[q], sent'[q] = sent[q]
  PROVE  CountInv(q)'
BY DEF CountInv, PlaceInv, Running, Wants, Now

\* The end of a stage, when the videos were sent or are still to come.
LEMMA StageEnds ==
  ASSUME Count, NEW p \in Procs, Running(p), Advance(p),
         pc'[p] \in Idle, command'[p] = command[p], sent'[p] = sent[p],
         IF Now(p, "videos") THEN sent[p] \in 1 .. 2 ELSE sent[p] = 0
  PROVE  CountInv(p)'
<1>0. left \in [Procs -> SUBSET Stage] /\ CountInv(p)
  BY DEF Count
<1>1. PICK s \in Stage :
        /\ Now(p, s)
        /\ left' = [left EXCEPT ![p] = @ \ {s}]
        /\ IF left[p] = {s} THEN End(p, "done") ELSE UNCHANGED outcome
  BY DEF Advance
<1>2. left'[p] = left[p] \ {s} /\ outcome'[p] = IF left[p] = {s} THEN "done" ELSE outcome[p]
  BY <1>0, <1>1 DEF End, Count
<1>3. PlaceInv(p)' /\ pc'[p] \notin Trying /\ pc'[p] # "finish"
  BY Places DEF PlaceInv
<1>4. CASE s = "videos"
  <2>1. left[p] = {s} /\ sent[p] \in 1 .. 2
    BY <1>0, <1>1, <1>4, OneStage
  <2> QED
    BY <1>2, <1>3, <2>1 DEF CountInv, Running
<1>5. CASE s # "videos"
  <2>1. ~ Now(p, "videos") /\ sent[p] = 0
    BY <1>0, <1>1, <1>5, OneStage
  <2>2. Wants(p, "videos")' => Wants(p, "videos")
    BY DEF Wants
  <2>3. Wants(p, "videos") => "videos" \in left'[p] /\ left[p] # {s}
    BY <1>0, <1>2, <1>5 DEF CountInv
  <2> QED
    BY <1>2, <1>3, <2>1, <2>2, <2>3 DEF CountInv, Running
<1> QED
  BY <1>4, <1>5

\* Everything else that can end a command leaves the count as it was.
LEMMA CommandEnds ==
  ASSUME NEW p \in Procs, PlaceInv(p)', outcome'[p] \notin {"running", "done"},
         sent'[p] \in 0 .. 2
  PROVE  CountInv(p)'
BY DEF CountInv, Running

LEMMA CountTypes ==
  ASSUME Count, [CommandNext]_allVars
  PROVE  /\ command' \in [Procs -> Opt(Commands)]
         /\ left' \in [Procs -> SUBSET Stage]
         /\ outcome' \in [Procs -> Ended \cup {"running", "none"}]
         /\ sent' \in [Procs -> Nat]
<1> USE DEF Count, Ended, End, Opt
<1>1. CASE UNCHANGED allVars
  BY <1>1 DEF allVars, commandVars
<1>2. ASSUME NEW p \in Procs, Type(p)
      PROVE  /\ command' \in [Procs -> Opt(Commands)] /\ left' \in [Procs -> SUBSET Stage]
             /\ outcome' \in [Procs -> Ended \cup {"running", "none"}] /\ sent' \in [Procs -> Nat]
  BY <1>2, PlansAreStages DEF Type
<1>3. ASSUME NEW p \in Procs, Ask(p) \/ Refuse(p) \/ Invoke(p) \/ LoadRaises(p) \/ Die(p)
      PROVE  /\ command' \in [Procs -> Opt(Commands)] /\ left' \in [Procs -> SUBSET Stage]
             /\ outcome' \in [Procs -> Ended \cup {"running", "none"}] /\ sent' \in [Procs -> Nat]
  BY <1>3 DEF Ask, Refuse, Invoke, LoadRaises, Die, Advance, commandVars
<1>4. ASSUME NEW p \in Procs, Work(p)
      PROVE  /\ command' \in [Procs -> Opt(Commands)] /\ left' \in [Procs -> SUBSET Stage]
             /\ outcome' \in [Procs -> Ended \cup {"running", "none"}] /\ sent' \in [Procs -> Nat]
  <2>1. Errors(pc[p]) \subseteq Ended
    BY DEF Errors
  <2> QED
    BY <1>4, <2>1 DEF Work, Advance
<1> QED
  BY <1>1, <1>2, <1>3, <1>4 DEF CommandNext

\* What CountInv says about p, after a step of the call p is making.
LEMMA WorkKeepsCount ==
  ASSUME Inv, Count, NEW p \in Procs, Work(p)
  PROVE  \A q \in Procs : CountInv(q)'
<1>0. /\ CountInv(p) /\ PlaceInv(p) /\ Running(p) /\ sent[p] \in Nat
      /\ command' = command
  BY DEF Count, CountInv, Work
<1>1. /\ \A q \in Procs \ {p} : pc'[q] = pc[q] /\ call'[q] = call[q]
      /\ pc[p] \notin Idle
      /\ Onward(p) \/ Over(p)
  BY <1>0, StepMoves DEF Work
<1>2. \A q \in Procs \ {p} : CountInv(q)'
  <2>1. \A q \in Procs \ {p} : left'[q] = left[q] /\ outcome'[q] = outcome[q] /\ sent'[q] = sent[q]
    BY DEF Work, Advance, End, Count
  <2> QED
    BY <1>0, <1>1, <2>1, OtherCounts DEF Count
<1> SUFFICES CountInv(p)'
  BY <1>2
<1>3. CASE Onward(p)
  <2>1. pc'[p] \notin Idle /\ call'[p] = call[p] /\ PlaceInv(p)'
    BY <1>3 DEF Onward
  <2>2. left' = left /\ outcome' = outcome
    BY <2>1 DEF Work, Idle
  <2>3. sent'[p] \in {sent[p], sent[p] + 1} /\ (pc[p] \notin {"send", "resend"} => sent'[p] = sent[p])
    BY DEF Work, Count
  <2>4. pc[p] \in {"send", "resend"} /\ pc'[p] = "finish" => sent'[p] = sent[p] + 1
    BY DEF Work, Count
  <2>5. CASE pc[p] = "send"
    <3>1. sent[p] = 0 /\ call[p].op = "cast"
      BY <1>0, <2>5 DEF CountInv, PlaceInv, Trying, CastSteps
    <3>2. pc'[p] \in {"retry", "finish"}
      BY <1>3, <2>5 DEF Onward
    <3> QED
      BY <1>0, <2>1, <2>2, <2>3, <2>4, <2>5, <3>1, <3>2, <1>1 DEF CountInv, Running, Wants, Now, Trying
  <2>6. CASE pc[p] \in Trying
    <3>1. sent[p] <= 1 /\ call[p].op = "cast"
      BY <1>0, <2>6, Places DEF CountInv, PlaceInv
    <3>2. pc'[p] \in {"retried", "resend", "finish"}
      BY <1>3, <2>6 DEF Onward
    <3>3. pc'[p] = "finish" => pc[p] \in {"send", "resend"}
      BY <1>3, <3>1 DEF Onward
    <3>4. sent'[p] <= 2 /\ (pc'[p] = "finish" => sent'[p] \in 1 .. 2)
      BY <1>0, <2>3, <2>4, <3>1, <3>3
    <3>5. pc'[p] # "finish" => sent'[p] <= 1
      <4>1. pc'[p] # "finish" => pc[p] # "resend"
        BY <1>3 DEF Onward
      <4> QED
        BY <2>3, <2>6, <3>1, <4>1 DEF Trying
    <3> QED
      BY <1>0, <1>1, <2>1, <2>2, <3>1, <3>2, <3>4, <3>5 DEF CountInv, Running, Wants, Now, Trying
  <2>7. CASE pc[p] # "send" /\ pc[p] \notin Trying
    <3>1. pc[p] # "resend" /\ sent'[p] = sent[p]
      BY <2>3, <2>7 DEF Trying
    <3>2. pc'[p] \notin Trying /\ ~ (pc'[p] = "finish" /\ call[p].op = "cast")
      BY <1>3, <2>7, <3>1 DEF Onward, Trying
    <3>3. sent[p] = 0
      BY <1>0, <1>3, <2>7 DEF CountInv, Onward
    <3> QED
      BY <1>0, <1>1, <2>1, <2>2, <3>1, <3>2, <3>3 DEF CountInv, Running, Wants, Now
  <2> QED
    BY <2>5, <2>6, <2>7
<1>4. CASE Over(p)
  <2>1. pc'[p] \in Idle /\ PlaceInv(p)'
    BY <1>4, Places DEF Over, PlaceInv, Idle
  <2>2. Now(p, "videos") <=> call[p].op = "cast"
    BY <1>0, <1>1 DEF CountInv
  <2>3. CASE pc'[p] = "returned"
    <3>1. pc[p] \in {"finish", "devices", "discover"} /\ sent'[p] = sent[p] /\ Advance(p)
      BY <1>4, <2>3 DEF Over, Work, Idle
    <3>2. pc[p] # "finish" => call[p].op = pc[p]
      BY <1>0, <3>1 DEF PlaceInv, Op
    <3>3. pc[p] \notin Trying
      BY <3>1 DEF Trying
    <3>4. IF Now(p, "videos") THEN sent[p] \in 1 .. 2 ELSE sent[p] = 0
      BY <1>0, <2>2, <3>1, <3>2, <3>3 DEF CountInv
    <3> QED
      BY <1>0, <2>1, <3>1, <3>4, StageEnds
  <2>4. CASE pc'[p] = "raised"
    <3>1. outcome'[p] \in {"failed", "traceback"}
      BY <2>4 DEF Work, Idle, Errors, End, Count
    <3>2. sent[p] <= 2 /\ (pc[p] \in {"send", "resend"} => sent[p] <= 1)
      BY <1>0 DEF CountInv, Trying
    <3>3. sent'[p] = sent[p] \/ (pc[p] \in {"send", "resend"} /\ sent'[p] = sent[p] + 1)
      BY DEF Work, Count
    <3>4. sent'[p] \in 0 .. 2
      BY <1>0, <3>2, <3>3
    <3> QED
      BY <2>1, <3>1, <3>4, CommandEnds
  <2> QED
    BY <1>4, <2>3, <2>4 DEF Over
<1> QED
  BY <1>1, <1>3, <1>4

\* A new process knows of no call.
LEMMA CrashForgets ==
  ASSUME Inv, NEW p \in Procs, Crash(p)
  PROVE  /\ \A q \in Procs \ {p} : pc'[q] = pc[q] /\ call'[q] = call[q]
         /\ pc'[p] = "start"
BY DEF Inv, TypeOK, Crash, Forget, GoTo

LEMMA TypeKeepsCount ==
  ASSUME Inv, Count, NEW p \in Procs, Type(p)
  PROVE  \A q \in Procs : CountInv(q)'
<1>1. PICK c \in Commands :
        /\ command' = [command EXCEPT ![p] = c]
        /\ left' = [left EXCEPT ![p] = Plan(c.options)]
        /\ End(p, IF Plan(c.options) = {} THEN "usage" ELSE "running")
  BY DEF Type
<1>2. /\ command'[p] = c /\ left'[p] = Plan(c.options) /\ sent'[p] = 0
      /\ outcome'[p] \in {"usage", "running"}
      /\ \A q \in Procs \ {p} : /\ command'[q] = command[q] /\ left'[q] = left[q]
                                /\ sent'[q] = sent[q] /\ outcome'[q] = outcome[q]
  BY <1>1 DEF Type, Count, End
<1>3. /\ pc'[p] = "start"
      /\ \A q \in Procs \ {p} : pc'[q] = pc[q] /\ call'[q] = call[q]
  BY CrashForgets DEF Type, vars
<1>4. CountInv(p)'
  <2>1. pc'[p] \in Idle /\ pc'[p] \notin Trying /\ pc'[p] # "finish" /\ PlaceInv(p)'
    BY <1>3 DEF Idle, Trying, PlaceInv, Op, CastSteps
  <2> QED
    BY <1>2, <2>1 DEF CountInv, Running, Wants
<1> QED
  BY <1>2, <1>3, <1>4, OtherCounts DEF Count

\* The steps a command takes between two calls, and its death.
LEMMA PauseKeepsCount ==
  ASSUME Inv, Count, NEW p \in Procs, Ask(p) \/ Refuse(p) \/ LoadRaises(p) \/ Die(p)
  PROVE  \A q \in Procs : CountInv(q)'
<1>0. CountInv(p) /\ Running(p) /\ sent[p] \in Nat
  BY DEF Count, Ask, Refuse, LoadRaises, Die, Between
<1>1. /\ command' = command /\ sent' = sent
      /\ \A q \in Procs \ {p} : /\ pc'[q] = pc[q] /\ call'[q] = call[q]
                                /\ left'[q] = left[q] /\ outcome'[q] = outcome[q]
  BY CrashForgets DEF Ask, Refuse, LoadRaises, Die, vars, Advance, End, Count
<1> SUFFICES CountInv(p)'
  BY <1>1, OtherCounts DEF Count
<1>2. PlaceInv(p)'
  BY <1>0, CrashForgets, Places DEF CountInv, PlaceInv, Ask, Refuse, LoadRaises, Die, vars, Idle,
       Op, CastSteps
<1>3. CASE Ask(p) /\ Advance(p)
  <2>1. pc[p] \in Idle /\ pc' = pc
    BY <1>3 DEF Ask, Between, vars
  <2>2. PICK s \in Asking : Now(p, s)
    BY <1>3 DEF Ask
  <2>3. ~ Now(p, "videos")
    BY <2>2, OneStage, Stages DEF Count
  <2>4. sent[p] = 0
    BY <1>0, <2>1, Places DEF CountInv
  <2> QED
    BY <1>0, <1>1, <1>3, <2>1, <2>3, <2>4, StageEnds
<1>4. CASE ~ (Ask(p) /\ Advance(p))
  <2>1. outcome'[p] \in {"failed", "traceback", "killed"}
    BY <1>4 DEF Ask, Refuse, LoadRaises, Die, End, Count
  <2>2. sent[p] <= 2
    BY <1>0 DEF CountInv
  <2> QED
    BY <1>0, <1>1, <1>2, <2>1, <2>2, CommandEnds
<1> QED
  BY <1>3, <1>4

LEMMA InvokeKeepsCount ==
  ASSUME Inv, Count, NEW p \in Procs, Invoke(p)
  PROVE  \A q \in Procs : CountInv(q)'
<1>0. CountInv(p) /\ Running(p) /\ sent[p] = 0
  BY Places DEF Count, CountInv, Invoke, Between
<1>1. PICK c \in Calls : /\ call' = [call EXCEPT ![p] = c]
                         /\ GoTo(p, c.op) \/ GoTo(p, "migrated")
  BY DEF Invoke, Begin
<1>2. /\ call'[p] = c /\ pc'[p] \in {c.op, "migrated"} /\ c.op \in Op
      /\ \A q \in Procs \ {p} : pc'[q] = pc[q] /\ call'[q] = call[q]
  BY <1>1, OpenSteps DEF Inv, TypeOK, GoTo
<1>3. command' = command /\ left' = left /\ outcome' = outcome /\ sent' = sent
  BY DEF Invoke, commandVars
<1> SUFFICES CountInv(p)'
  BY <1>2, <1>3, OtherCounts DEF Count
<1>4. PICK s \in DOMAIN ApiCall : Now(p, s) /\ Makes(p, s, c)
  BY <1>2 DEF Invoke
<1>5. c.op = "cast" <=> s = "videos"
  BY <1>4, Stages DEF Makes
<1>6. Now(p, "videos") <=> s = "videos"
  BY <1>4, OneStage DEF Count
<1>7. pc'[p] \notin Trying /\ pc'[p] # "finish" /\ PlaceInv(p)'
  BY <1>2, Places DEF PlaceInv
<1> QED
  BY <1>0, <1>2, <1>3, <1>5, <1>6, <1>7 DEF CountInv, Running, Wants, Now

LEMMA NextKeepsCount == Inv /\ Count /\ [CommandNext]_allVars => Count'
<1> SUFFICES ASSUME Inv, Count, [CommandNext]_allVars PROVE Count'
  OBVIOUS
<1> SUFFICES \A q \in Procs : CountInv(q)'
  BY CountTypes DEF Count
<1>1. CASE UNCHANGED allVars
  BY <1>1, OtherCounts DEF allVars, vars, commandVars, Count
<1>2. CASE CommandNext
  <2>1. PICK p \in Procs : Type(p) \/ Ask(p) \/ Refuse(p) \/ Invoke(p) \/ LoadRaises(p)
                             \/ Work(p) \/ Die(p)
    BY <1>2 DEF CommandNext
  <2> QED
    BY <2>1, TypeKeepsCount, PauseKeepsCount, InvokeKeepsCount, WorkKeepsCount
<1> QED
  BY <1>1, <1>2

LEMMA InitCount == CommandInit => Count
<1> SUFFICES ASSUME CommandInit PROVE Count
  OBVIOUS
<1>1. ASSUME NEW p \in Procs PROVE CountInv(p)
  BY <1>1 DEF CommandInit, Init, CountInv, PlaceInv, Running, Wants, Op, CastSteps
<1> QED
  BY <1>1 DEF CommandInit, Count, Opt

LEMMA Counting == CommandSpec => []Count
<1>1. CommandSpec => []Inv
  BY CommandsAreCalls, Invariance, PTL
<1> QED
  BY <1>1, InitCount, NextKeepsCount, PTL DEF CommandSpec

\* However often a command is interrupted and other people's calls come in
\* between, its one request to play and its one retry send the videos twice at
\* most (cast, api.py:178-191).
THEOREM VideosAreSentTwiceAtMost == CommandSpec => []AtMostTwice
<1>1. Count => AtMostTwice
  <2> SUFFICES ASSUME Count, NEW p \in Procs PROVE sent[p] <= 2
    BY DEF AtMostTwice
  <2> QED
    BY DEF Count, CountInv
<1> QED
  BY <1>1, Counting, PTL

\* Exit code 0 of a command with videos is never given without sending them
\* (run and main, cli.py:226-245), whatever went wrong before.
THEOREM ExitZeroMeansSent == CommandSpec => []DoneMeansSent
<1>1. Count => DoneMeansSent
  BY DEF Count, CountInv, DoneMeansSent, Running
<1> QED
  BY <1>1, Counting, PTL

-----------------------------------------------------------------------------
(* The videos of a command that pairs go to the screen it paired: from its  *)
(* --pair on, a command works on the Device object it was given, which no   *)
(* other process can change.                                                *)

\* The steps of a cast after the launch, which may have corrected the screen.
PastLaunch == {"learned", "renew", "renewed", "send", "retry", "retried", "resend"}

LEMMA StepOfOne ==
  ASSUME Inv, NEW p \in Procs, Begin(p) \/ Step(p) \/ Crash(p)
  PROVE  Others(p)
<1>1. CASE Begin(p) \/ Crash(p)
  BY <1>1 DEF Others, Inv, TypeOK, Begin, Crash, Forget, GoTo
<1>2. CASE SaveMigrated(p) \/ SaveCache(p) \/ Finish(p) \/ ListDevices(p) \/ Search(p)
  BY <1>2 DEF Others, Inv, TypeOK, SaveMigrated, SaveCache, Finish, ListDevices, Search,
              Return, Raise, Forget, GoTo
<1>3. CASE Pair(p) \/ Attach(p) \/ Add(p) \/ Merge(p) \/ Select(p)
  BY <1>3 DEF Others, Inv, TypeOK, Pair, Attach, Add, Merge, Select, Raise, Forget, GoTo
<1>4. CASE Launch(p) \/ Renew(p) \/ Send(p) \/ Retry(p) \/ Resend(p)
  BY <1>4 DEF Others, Inv, TypeOK, Launch, Renew, Send, Retry, Resend, Delivered, Refresh,
              SetTarget, Raise, Forget, GoTo
<1> QED
  BY <1>1, <1>2, <1>3, <1>4 DEF Step

\* One step of an attach or a cast with a Device object.
LEMMA DetachedStep ==
  ASSUME Inv, NEW p \in Procs, PlaceInv(p), Step(p),
         call[p].op \in {"attach", "cast"}, call[p].sel = "device", at[p] = 0
  PROVE  \/ pc'[p] = "raised"
         \/ pc'[p] = "returned" /\ pc[p] = "finish" /\ held'[p] = held[p]
         \/ /\ pc'[p] \notin Idle /\ call'[p] = call[p] /\ at'[p] = 0 /\ pc[p] # "finish"
            /\ CASE pc[p] \in PastLaunch ->
                      /\ pc'[p] \in PastLaunch \cup {"finish"}
                      /\ held'[p].backend = held[p].backend
                      /\ held'[p].screen.id = held[p].screen.id
                 [] pc[p] = "launch" ->
                      /\ pc'[p] \in PastLaunch
                      /\ held'[p].backend = held[p].backend
                      /\ \/ held'[p].screen = held[p].screen
                         \/ held[p].backend \in {"dial", "cast"}
                 [] OTHER ->
                      /\ pc'[p] \notin PastLaunch /\ held'[p].screen = held[p].screen
                      /\ ~(pc'[p] = "finish" /\ call[p].op = "cast")
<1>0. /\ pc \in [Procs -> Steps] /\ call \in [Procs -> Opt(Calls)] /\ at \in [Procs -> Nat]
      /\ held \in [Procs -> Opt(Device)] /\ Target(p) = held[p]
  BY DEF Inv, TypeOK, Target
<1>1. CASE Raise(p)
  BY <1>0, <1>1 DEF Raise, GoTo
<1>2. CASE ~ Raise(p)
  <2>1. CASE SaveMigrated(p)
    <3>1. pc'[p] = call[p].op /\ UNCHANGED <<call, at, held>> /\ pc[p] = "migrated"
      BY <1>0, <1>2, <2>1 DEF SaveMigrated, GoTo
    <3> QED
      BY <3>1 DEF PastLaunch, Idle
  <2>2. CASE SaveCache(p)
    <3>1. /\ pc[p] \in {"learned", "renewed", "retried"} /\ pc'[p] \in {"renew", "send", "resend"}
          /\ UNCHANGED <<call, at, held>>
      BY <1>0, <1>2, <2>2 DEF SaveCache, GoTo, Saving, AfterSave
    <3> QED
      BY <3>1 DEF PastLaunch, Idle
  <2>3. CASE Finish(p)
    BY <1>0, <1>2, <2>3 DEF Finish, Return, GoTo
  <2>4. ~ (ListDevices(p) \/ Pair(p) \/ Add(p) \/ Search(p) \/ Merge(p))
    BY DEF ListDevices, Pair, Add, Search, Merge, PlaceInv, Op
  <2>5. CASE Attach(p)
    <3>1. PICK i \in 0 .. Len(devices[p]) :
            /\ Selects(p, i)
            /\ at' = [at EXCEPT ![p] = i]
            /\ i = 0 => held' = [held EXCEPT ![p] = Attached(held[p], call[p])]
            /\ GoTo(p, "finish") /\ UNCHANGED <<call, todo>>
      BY <1>2, <2>5 DEF Attach
    <3>2. i = 0 /\ held[p] \in Device
      <4>1. pc[p] \notin Idle /\ call[p] # None /\ held[p] # None
        BY <2>5, InvOf, CallsAssumption DEF Attach, Idle
      <4> QED
        BY <1>0, <3>1, <4>1 DEF Selects, Opt
    <3>3. Attached(held[p], call[p]).screen = held[p].screen
      BY <3>2 DEF Attached, Device
    <3>4. /\ at'[p] = 0 /\ pc'[p] = "finish" /\ held'[p].screen = held[p].screen
          /\ call'[p] = call[p] /\ pc[p] = "attach" /\ call[p].op = "attach"
      BY <1>0, <2>5, <3>1, <3>2, <3>3 DEF Attach, GoTo, PlaceInv, Op
    <3> QED
      BY <3>4 DEF PastLaunch, Idle
  <2>6. CASE Select(p)
    <3>1. PICK i \in 0 .. Len(devices[p]) :
            /\ Selects(p, i) /\ at' = [at EXCEPT ![p] = i]
            /\ GoTo(p, "launch") /\ UNCHANGED <<call, devices, held, todo>>
      BY <1>2, <2>6 DEF Select
    <3>2. i = 0
      BY <3>1 DEF Selects
    <3>3. at'[p] = 0 /\ pc'[p] = "launch" /\ UNCHANGED <<call, held>> /\ pc[p] = "cast"
      BY <1>0, <2>6, <3>1, <3>2 DEF Select, GoTo
    <3> QED
      BY <3>3 DEF PastLaunch, Idle
  <2>7. CASE Launch(p)
    <3>1. PICK d \in Launched(held[p]) : SetTarget(p, d) /\ UNCHANGED <<call, at>>
      BY <1>0, <1>2, <2>7 DEF Launch
    <3>2. /\ pc[p] = "launch" /\ pc'[p] \in {"renew", "learned"} /\ held'[p] = d
          /\ call'[p] = call[p] /\ at'[p] = 0
      BY <1>0, <1>2, <2>7, <3>1 DEF Launch, GoTo, SetTarget
    <3>3. held[p] \in Device
      BY <1>0, <3>2 DEF Inv, CallInv, Working, Opt
    <3>4. d.backend = held[p].backend /\ (d.screen = held[p].screen \/ held[p].backend \in {"dial", "cast"})
      <4>1. ASSUME NEW id \in ScreenId
            PROVE  /\ Learned(held[p], id).backend = held[p].backend
                   /\ Learned(held[p], id) \in Device
        <5>1. [id |-> id, token |-> None] \in Opt(Screen)
          BY DEF Opt, Screen
        <5> QED
          BY <3>3, <5>1 DEF Learned, Device
      <4>2. CASE held[p].backend \notin {"dial", "cast"}
        <5>1. d = held[p]
          BY <3>1, <3>3, <4>2, NoneAssumption DEF Launched, Device, Opt, Backend
        <5> QED
          BY <5>1
      <4>3. CASE held[p].backend = "dial"
        BY <3>1, <4>1, <4>3, NoneAssumption DEF Launched, Backend
      <4>4. CASE held[p].backend = "cast"
        <5>1. PICK id \in ScreenId, uuid \in Uuid :
                d = [Learned(held[p], id) EXCEPT !.uuid = SetDefault(@, uuid)]
          BY <3>1, <4>4, NoneAssumption DEF Launched, Backend
        <5>2. d.backend = Learned(held[p], id).backend
          BY <4>1, <5>1 DEF Device
        <5> QED
          BY <4>1, <4>4, <5>2
      <4> QED
        BY <4>2, <4>3, <4>4
    <3> QED
      BY <3>2, <3>4 DEF PastLaunch, Idle
  <2>8. CASE Renew(p) \/ Retry(p)
    <3>1. /\ pc[p] \in {"renew", "retry"} /\ pc'[p] \in {"send", "renewed", "retried"}
          /\ UNCHANGED <<call, at>>
          /\ held' = held \/ Refresh(p)
      BY <1>0, <1>2, <2>8 DEF Renew, Retry, GoTo
    <3>2. held'[p].backend = held[p].backend /\ held'[p].screen.id = held[p].screen.id
      <4>1. CASE held' = held
        BY <4>1
      <4>2. CASE held' # held
        <5>1. held[p] \in Device /\ held[p].screen \in Screen
          <6>1. held[p] # None /\ held[p].screen # None
            <7>1. CallInv(p) /\ (pc[p] = "renew" => Renew(p))
              BY <2>8, <3>1 DEF Inv, Retry
            <7>2. pc[p] = "renew" => Target(p).screen # None
              BY <1>2, <7>1 DEF Renew
            <7> QED
              BY <1>0, <3>1, <7>1, <7>2 DEF CallInv, Working, Armed
          <6> QED
            BY <1>0, <6>1 DEF Opt, Device
        <5>2. PICK tag \in Tag :
                held'[p] = [held[p] EXCEPT !.screen.token = [screen |-> held[p].screen.id, tag |-> tag]]
          BY <1>0, <3>1, <4>2 DEF Refresh, SetTarget
        <5> QED
          BY <5>1, <5>2 DEF Device, Screen
      <4> QED
        BY <4>1, <4>2
    <3> QED
      BY <3>1, <3>2 DEF PastLaunch, Idle
  <2>9. CASE Send(p) \/ Resend(p)
    <3>1. /\ pc[p] \in {"send", "resend"} /\ pc'[p] \in {"retry", "finish"}
          /\ UNCHANGED <<call, at, held>>
      BY <1>0, <1>2, <2>9 DEF Send, Resend, Delivered, GoTo
    <3> QED
      BY <3>1 DEF PastLaunch, Idle
  <2> QED
    BY <2>1, <2>2, <2>3, <2>4, <2>5, <2>6, <2>7, <2>8, <2>9 DEF Step
<1> QED
  BY <1>1, <1>2
\* A command that paired a screen, and is to attach it or play videos on it.
Chained(p) ==
  /\ Running(p) /\ Wants(p, "pair") /\ ~Wants(p, "cast")
  /\ "pair" \notin left[p]

\* Its Device object is the one --pair returned, also after an attach; only the
\* launch of the cast its chain ends with may change the screen.
ChainInv(p) ==
  /\ pc[p] \notin Idle => Running(p) /\ (call[p].op = "pair" <=> Now(p, "pair"))
  /\ Running(p) => command[p] # None /\ left[p] \subseteq Plan(command[p].options)
  /\ pc[p] = "finish" /\ call[p].op = "pair" => Target(p).screen.id = paired[p]
  /\ Chained(p) =>
       /\ left[p] \subseteq {"pin", "appletv", "videos"}
       /\ pc[p] \notin Idle =>
            call[p].op \in {"attach", "cast"} /\ call[p].sel = "device" /\ at[p] = 0
       /\ pc[p] \in PastLaunch =>
            held[p].screen.id = paired[p] \/ held[p].backend \in {"dial", "cast"}
       /\ pc[p] \notin PastLaunch =>
            held[p].screen.id = paired[p] \/ (pc[p] = "finish" /\ call[p].op = "cast")

Chain ==
  /\ Count
  /\ paired = [p \in Procs |-> paired[p]]
  /\ \A p \in Procs : ChainInv(p)

LEMMA OtherChains ==
  ASSUME NEW q \in Procs, ChainInv(q),
         pc'[q] = pc[q], call'[q] = call[q], devices'[q] = devices[q], at'[q] = at[q],
         held'[q] = held[q], command'[q] = command[q], left'[q] = left[q],
         outcome'[q] = outcome[q], paired'[q] = paired[q]
  PROVE  ChainInv(q)'
BY DEF ChainInv, Chained, Running, Wants, Now, Target

\* What is left of a chain after its --pair.
LEMMA AfterPair ==
  ASSUME NEW p \in Procs, command[p] \in Commands,
         left[p] \subseteq Plan(command[p].options), "cast" \notin Plan(command[p].options),
         Now(p, "pair")
  PROVE  left[p] \ {"pair"} \subseteq {"pin", "appletv", "videos"}
<1>1. command[p].options \subseteq Option
  BY CommandsAssumption DEF Command
<1>2. "probe" \notin Plan(command[p].options)
  BY <1>1 DEF Plan, Option
<1>3. ASSUME NEW t \in left[p], t # "pair" PROVE t \in {"pin", "appletv", "videos"}
  <2>1. t \in Stage \ {"cast", "probe"} /\ Rank["pair"] <= Rank[t]
    BY <1>2, <1>3, PlansAreStages DEF Now
  <2> QED
    BY <1>3, <2>1 DEF Stage, Rank
<1> QED
  BY <1>3

\* The end of a stage: of the --pair itself, or of one after it.
LEMMA ChainGoesOn ==
  ASSUME Chain, NEW p \in Procs, Running(p), Advance(p), pc'[p] \in Idle,
         command'[p] = command[p], paired'[p] = paired[p],
         Now(p, "pair") => held'[p].screen.id = paired[p],
         Chained(p) => held'[p].screen.id = paired[p] \/ Now(p, "videos")
  PROVE  ChainInv(p)'
<1>0. ChainInv(p) /\ left \in [Procs -> SUBSET Stage] /\ command \in [Procs -> Opt(Commands)]
  BY DEF Chain, Count
<1>1. PICK s \in Stage :
        /\ Now(p, s)
        /\ left' = [left EXCEPT ![p] = @ \ {s}]
        /\ IF left[p] = {s} THEN End(p, "done") ELSE UNCHANGED outcome
  BY DEF Advance
<1>2. /\ left'[p] = left[p] \ {s}
      /\ outcome'[p] = IF left[p] = {s} THEN "done" ELSE outcome[p]
  BY <1>0, <1>1 DEF End, Chain, Count
<1>3. pc'[p] \notin PastLaunch /\ pc'[p] # "finish"
  BY DEF Idle, PastLaunch
<1>4. Running(p)' => command'[p] # None /\ left'[p] \subseteq Plan(command'[p].options)
  BY <1>0, <1>2 DEF ChainInv
<1>5. ASSUME Chained(p)'
      PROVE  /\ left'[p] \subseteq {"pin", "appletv", "videos"}
             /\ held'[p].screen.id = paired'[p]
  <2>1. Wants(p, "pair") /\ ~ Wants(p, "cast") /\ left[p] # {s} /\ command[p] \in Commands
    BY <1>0, <1>2, <1>5 DEF Chained, Wants, Running, ChainInv, Opt
  <2>2. CASE s = "pair"
    BY <1>0, <1>1, <1>2, <2>1, <2>2, AfterPair DEF ChainInv, Wants
  <2>3. CASE s # "pair"
    <3>1. Chained(p)
      BY <1>2, <1>5, <2>1, <2>3 DEF Chained
    <3>2. ~ Now(p, "videos")
      BY <1>0, <1>1, <2>1, OneStage
    <3> QED
      BY <1>0, <1>2, <3>1, <3>2 DEF ChainInv
  <2> QED
    BY <2>2, <2>3
<1> QED
  BY <1>3, <1>4, <1>5 DEF ChainInv

\* A command that is over, or a new one.
LEMMA ChainEnds ==
  ASSUME NEW p \in Procs, pc'[p] \in Idle, outcome'[p] # "running"
  PROVE  ChainInv(p)'
BY DEF ChainInv, Chained, Running, Idle

\* The screen of a code is the screen of the entry that pair works on.
LEMMA PairedIsTarget ==
  ASSUME Inv, Chain, NEW p \in Procs, Work(p), pc[p] = "pair", pc'[p] = "finish"
  PROVE  Target(p)'.screen.id = paired'[p]
<1>1. at'[p] # 0
  <2>1. ~ Raise(p) /\ Pair(p)
    BY DEF Work, Step, Raise, GoTo, SaveMigrated, SaveCache, Finish, ListDevices, Attach, Add,
           Search, Merge, Select, Launch, Renew, Send, Retry, Resend, Saving, AfterSave, Inv,
           TypeOK
  <2>2. PICK token \in Token :
          LET screen == [id |-> token.screen, token |-> token]
              known  == Find(devices[p], screen.id)
              fresh  == NewDevice(screen, None, None, None, None)
          IN  at' = [at EXCEPT ![p] = IF known = 0 THEN UpsertAt(devices[p], fresh) ELSE known]
    BY <2>1 DEF Pair
  <2>3. devices[p] \in Seq(Device)
    BY InvOf
  <2> DEFINE screen == [id |-> token.screen, token |-> token]
             fresh == NewDevice(screen, None, None, None, None)
  <2>4. UpsertAt(devices[p], fresh) # 0
    BY <2>3, UpsertAtIsIndex, LenProperties
  <2> QED
    BY <2>2, <2>4 DEF Inv, TypeOK
<1>2. paired'[p] = devices'[p][at'[p]].screen.id
  BY DEF Work, Chain
<1> QED
  BY <1>1, <1>2 DEF Target
LEMMA WorkKeepsChain ==
  ASSUME Inv, Chain, NEW p \in Procs, Work(p)
  PROVE  \A q \in Procs : ChainInv(q)'
<1>0. /\ Running(p) /\ Step(p) /\ ChainInv(p) /\ PlaceInv(p) /\ CountInv(p)
      /\ command' = command /\ left[p] \subseteq Stage
  BY DEF Work, Chain, Count, CountInv
<1>1. pc[p] \notin Idle /\ (Onward(p) \/ Over(p)) /\ Others(p)
  BY <1>0, StepMoves, StepOfOne
<1>2. ASSUME NEW q \in Procs \ {p} PROVE ChainInv(q)'
  <2>1. left'[q] = left[q] /\ outcome'[q] = outcome[q] /\ paired'[q] = paired[q]
    BY DEF Work, Advance, End, Chain, Count
  <2> QED
    BY <1>0, <1>1, <2>1, OtherChains DEF Chain, Others
<1> SUFFICES ChainInv(p)'
  BY <1>2
<1>3. /\ call[p].op = "pair" <=> Now(p, "pair")
      /\ pc[p] = "pair" => call[p].op = "pair"
      /\ pc[p] # "pair" => paired'[p] = paired[p]
  BY <1>0, <1>1 DEF ChainInv, PlaceInv, Op, Work
<1>4. Chained(p) =>
        /\ ~ Now(p, "pair")
        /\ \/ pc'[p] = "raised"
           \/ pc'[p] = "returned" /\ pc[p] = "finish" /\ held'[p] = held[p]
           \/ /\ pc'[p] \notin Idle /\ call'[p] = call[p] /\ at'[p] = 0 /\ pc[p] # "finish"
              /\ CASE pc[p] \in PastLaunch ->
                        /\ pc'[p] \in PastLaunch \cup {"finish"}
                        /\ held'[p].backend = held[p].backend
                        /\ held'[p].screen.id = held[p].screen.id
                   [] pc[p] = "launch" ->
                        /\ pc'[p] \in PastLaunch
                        /\ held'[p].backend = held[p].backend
                        /\ \/ held'[p].screen = held[p].screen
                           \/ held[p].backend \in {"dial", "cast"}
                   [] OTHER ->
                        /\ pc'[p] \notin PastLaunch /\ held'[p].screen = held[p].screen
                        /\ ~(pc'[p] = "finish" /\ call[p].op = "cast")
  BY <1>0, <1>1, DetachedStep DEF ChainInv, Chained, Now
<1>5. CASE pc'[p] = "raised"
  BY <1>5, ChainEnds DEF Work, Idle, End, Errors, Chain, Count
<1>6. CASE pc'[p] = "returned"
  <2>1. Advance(p) /\ pc'[p] \in Idle /\ pc[p] # "pair" /\ paired'[p] = paired[p]
    BY <1>1, <1>3, <1>6 DEF Work, Idle, Over, Onward
  <2>2. Now(p, "pair") => held'[p].screen.id = paired[p]
    <3> SUFFICES ASSUME Now(p, "pair") PROVE held'[p].screen.id = paired[p]
      OBVIOUS
    <3>1. call[p].op = "pair"
      BY <1>3
    <3>2. pc[p] = "finish"
      BY <1>0, <1>1, <1>6, <3>1 DEF Over, Onward, Idle, PlaceInv, Op
    <3>3. held'[p] = Target(p)
      BY <1>0, <1>6, <3>2 DEF Inv, TypeOK, Step, Finish, Return, Raise, Forget, GoTo, SaveMigrated,
           SaveCache, ListDevices, Pair, Attach, Add, Search, Merge, Select, Launch, Renew, Send,
           Retry, Resend, Saving, AfterSave
    <3> QED
      BY <1>0, <3>1, <3>2, <3>3 DEF ChainInv
  <2>3. Chained(p) => held'[p].screen.id = paired[p] \/ Now(p, "videos")
    <3> SUFFICES ASSUME Chained(p) PROVE held'[p].screen.id = paired[p] \/ Now(p, "videos")
      OBVIOUS
    <3>1. pc[p] = "finish" /\ held'[p] = held[p]
      BY <1>4, <1>6 DEF Idle
    <3>2. call[p].op = "cast" <=> Now(p, "videos")
      BY <1>0, <1>1 DEF CountInv
    <3> QED
      BY <1>0, <3>1, <3>2 DEF ChainInv, PastLaunch
  <2> QED
    BY <1>0, <2>1, <2>2, <2>3, ChainGoesOn
<1>7. CASE pc'[p] \notin Idle
  <2>1. left' = left /\ outcome' = outcome /\ call'[p] = call[p] /\ PlaceInv(p)'
    BY <1>1, <1>7 DEF Work, Idle, Over, Onward
  <2>2. ~ Chained(p)' \/ (Chained(p) /\ Chained(p)')
    BY <1>0, <2>1 DEF Chained, Running, Wants
  <2>3. /\ Running(p)' /\ (call'[p].op = "pair" <=> Now(p, "pair")')
        /\ Running(p)' => command'[p] # None /\ left'[p] \subseteq Plan(command'[p].options)
    BY <1>0, <1>3, <2>1 DEF Running, Now, ChainInv
  <2>4. pc'[p] = "finish" /\ call'[p].op = "pair" => Target(p)'.screen.id = paired'[p]
    <3> SUFFICES ASSUME pc'[p] = "finish", call[p].op = "pair"
                 PROVE  Target(p)'.screen.id = paired'[p]
      BY <2>1
    <3>1. pc[p] = "pair"
      <4>1. pc[p] \notin CastSteps /\ pc[p] # "merge" /\ pc[p] # "finish"
            /\ (pc[p] \in Op => pc[p] = "pair")
        BY <1>0, <1>1, <1>7, Places DEF PlaceInv, Onward, Over, Idle
      <4>2. pc[p] # "migrated"
        BY <1>0, <1>7 DEF Step, SaveMigrated, Inv, TypeOK, Raise, GoTo, SaveCache, Finish,
             ListDevices, Pair, Attach, Add, Search, Merge, Select, Launch, Renew, Send, Retry,
             Resend, Saving, AfterSave, Idle
      <4> QED
        BY <1>1, <4>1, <4>2 DEF Inv, TypeOK, Steps, CastSteps, Saving, AfterSave
    <3> QED
      BY <3>1, PairedIsTarget
  <2>5. ASSUME Chained(p), Chained(p)'
        PROVE  /\ left'[p] \subseteq {"pin", "appletv", "videos"}
               /\ call'[p].op \in {"attach", "cast"} /\ call'[p].sel = "device" /\ at'[p] = 0
               /\ pc'[p] \in PastLaunch =>
                    held'[p].screen.id = paired'[p] \/ held'[p].backend \in {"dial", "cast"}
               /\ pc'[p] \notin PastLaunch =>
                    \/ held'[p].screen.id = paired'[p]
                    \/ pc'[p] = "finish" /\ call'[p].op = "cast"
    <3>1. pc[p] # "pair" /\ paired'[p] = paired[p]
      BY <1>3, <1>4, <2>5
    <3>2. pc[p] \in PastLaunch => call[p].op = "cast"
      BY <1>0 DEF PlaceInv, PastLaunch, CastSteps
    <3>3. "launch" \notin PastLaunch
      BY DEF PastLaunch
    <3> QED
      BY <1>0, <1>1, <1>4, <1>7, <2>1, <2>5, <3>1, <3>2, <3>3 DEF ChainInv, Idle
  <2> QED
    BY <1>7, <2>1, <2>2, <2>3, <2>4, <2>5 DEF ChainInv
<1> QED
  BY <1>1, <1>5, <1>6, <1>7 DEF Over, Onward

LEMMA InvokeKeepsChain ==
  ASSUME Inv, Chain, NEW p \in Procs, Invoke(p)
  PROVE  \A q \in Procs : ChainInv(q)'
<1>0. /\ Running(p) /\ pc[p] \in Idle /\ ChainInv(p) /\ left[p] \subseteq Stage
      /\ command' = command /\ left' = left /\ outcome' = outcome /\ paired' = paired
      /\ held' = held /\ at' = at
  BY DEF Invoke, Between, Chain, Count, commandVars, Begin
<1>1. Others(p)
  BY StepOfOne DEF Invoke
<1> SUFFICES ChainInv(p)'
  BY <1>0, <1>1, OtherChains DEF Chain, Others
<1>2. PICK c \in Calls : /\ call' = [call EXCEPT ![p] = c]
                         /\ GoTo(p, c.op) \/ GoTo(p, "migrated")
  BY DEF Invoke, Begin
<1>3. call'[p] = c /\ pc'[p] \in {c.op, "migrated"} /\ c.op \in Op
  BY <1>2, OpenSteps DEF Inv, TypeOK, GoTo
<1>4. PICK s \in DOMAIN ApiCall : Now(p, s) /\ Makes(p, s, c)
  BY <1>3 DEF Invoke
<1>5. c.op = "pair" <=> s = "pair"
  BY <1>4 DEF Makes, ApiCall
<1>6. Now(p, "pair") <=> s = "pair"
  BY <1>0, <1>4, OneStage
<1>7. pc'[p] \notin PastLaunch /\ pc'[p] # "finish" /\ pc[p] \notin PastLaunch /\ pc[p] # "finish"
  BY <1>0, <1>3 DEF PastLaunch, Op, Idle
<1>8. ASSUME Chained(p)
      PROVE  c.op \in {"attach", "cast"} /\ c.sel = "device" /\ at[p] = 0
  <2>1. s \in {"appletv", "videos"}
    BY <1>0, <1>4, <1>8 DEF Now, ChainInv, ApiCall
  <2>2. DeviceFor(p) = "device"
    BY <1>8 DEF Chained, Wants, DeviceFor
  <2>3. at[p] = 0
    BY <1>0 DEF Inv, CallInv
  <2> QED
    BY <1>4, <2>1, <2>2, <2>3 DEF Makes, ApiCall
<1>9. Chained(p)' <=> Chained(p)
  BY <1>0 DEF Chained, Running, Wants
<1> QED
  BY <1>0, <1>3, <1>5, <1>6, <1>7, <1>8, <1>9 DEF ChainInv, Running, Now

LEMMA PauseKeepsChain ==
  ASSUME Inv, Chain, NEW p \in Procs,
         Type(p) \/ Ask(p) \/ Refuse(p) \/ LoadRaises(p) \/ Die(p)
  PROVE  \A q \in Procs : ChainInv(q)'
<1>1. Others(p)
  <2>1. CASE UNCHANGED vars
    BY <2>1 DEF vars, Others
  <2>2. CASE Crash(p)
    BY <2>2, StepOfOne
  <2> QED
    BY <2>1, <2>2 DEF Type, Ask, Refuse, LoadRaises, Die
<1>2. \A q \in Procs \ {p} : /\ command'[q] = command[q] /\ left'[q] = left[q]
                             /\ outcome'[q] = outcome[q] /\ paired'[q] = paired[q]
  BY DEF Type, Ask, Refuse, LoadRaises, Die, Advance, End, Chain, Count
<1> SUFFICES ChainInv(p)'
  BY <1>1, <1>2, OtherChains DEF Chain, Others
<1>3. CASE Type(p)
  <2>1. PICK c \in Commands :
          /\ command' = [command EXCEPT ![p] = c]
          /\ left' = [left EXCEPT ![p] = Plan(c.options)]
    BY <1>3 DEF Type
  <2>2. command'[p] = c /\ left'[p] = Plan(c.options) /\ c # None /\ pc'[p] = "start"
    BY <1>3, <2>1, CrashForgets, CommandsAssumption DEF Type, vars, Chain, Count
  <2>3. ~ Chained(p)'
    BY <2>2 DEF Chained, Wants
  <2> QED
    BY <2>2, <2>3 DEF ChainInv, Idle
<1>4. CASE Ask(p) /\ Advance(p)
  <2>1. /\ Running(p) /\ pc[p] \in Idle /\ pc' = pc /\ held' = held
        /\ command' = command /\ paired' = paired /\ ChainInv(p)
    BY <1>4 DEF Ask, Between, vars, Chain
  <2>2. PICK s \in Asking : Now(p, s)
    BY <1>4 DEF Ask
  <2>3. ~ Now(p, "pair")
    BY <2>2, OneStage DEF Asking, Chain, Count
  <2>4. Chained(p) => held'[p].screen.id = paired[p]
    BY <2>1 DEF ChainInv, Idle, PastLaunch
  <2> QED
    BY <1>4, <2>1, <2>3, <2>4, ChainGoesOn
<1>5. CASE ~ Type(p) /\ ~ (Ask(p) /\ Advance(p))
  <2>1. outcome'[p] \in {"failed", "traceback", "killed"}
    BY <1>5 DEF Ask, Refuse, LoadRaises, Die, End, Chain, Count
  <2>2. pc'[p] \in Idle
    BY <1>5, CrashForgets DEF Ask, Refuse, LoadRaises, Die, Between, vars, Idle
  <2> QED
    BY <2>1, <2>2, ChainEnds
<1> QED
  BY <1>3, <1>4, <1>5

LEMMA PairedStaysFunction ==
  ASSUME paired = [p \in Procs |-> paired[p]], [CommandNext]_allVars
  PROVE  paired' = [p \in Procs |-> paired'[p]]
<1>1. CASE UNCHANGED allVars
  BY <1>1 DEF allVars, commandVars
<1>2. ASSUME NEW p \in Procs, NEW id, paired' \in {paired, [paired EXCEPT ![p] = id]}
      PROVE  paired' = [q \in Procs |-> paired'[q]]
  BY <1>2
<1>3. CASE CommandNext
  <2>1. PICK p \in Procs : Type(p) \/ Ask(p) \/ Refuse(p) \/ Invoke(p) \/ LoadRaises(p)
                             \/ Work(p) \/ Die(p)
    BY <1>3 DEF CommandNext
  <2>2. \E id : paired' \in {paired, [paired EXCEPT ![p] = id]}
    BY <2>1 DEF Type, Ask, Refuse, Invoke, LoadRaises, Work, Die, commandVars
  <2> QED
    BY <1>2, <2>2
<1> QED
  BY <1>1, <1>3

LEMMA NextKeepsChain == Inv /\ Chain /\ [CommandNext]_allVars => Chain'
<1> SUFFICES ASSUME Inv, Chain, [CommandNext]_allVars PROVE Chain'
  OBVIOUS
<1> SUFFICES \A q \in Procs : ChainInv(q)'
  BY NextKeepsCount, PairedStaysFunction DEF Chain
<1>1. CASE UNCHANGED allVars
  BY <1>1, OtherChains DEF allVars, vars, commandVars, Chain
<1>2. CASE CommandNext
  <2>1. PICK p \in Procs : Type(p) \/ Ask(p) \/ Refuse(p) \/ Invoke(p) \/ LoadRaises(p)
                             \/ Work(p) \/ Die(p)
    BY <1>2 DEF CommandNext
  <2> QED
    BY <2>1, PauseKeepsChain, InvokeKeepsChain, WorkKeepsChain
<1> QED
  BY <1>1, <1>2

LEMMA InitChain == CommandInit => Chain
<1> SUFFICES ASSUME CommandInit PROVE Chain
  OBVIOUS
<1>1. ASSUME NEW p \in Procs PROVE ChainInv(p)
  BY <1>1 DEF CommandInit, Init, ChainInv, Chained, Running, Idle
<1> QED
  BY <1>1, InitCount DEF CommandInit, Chain

\* The videos of a command that paired a screen go to that screen, or to the one
\* a DIAL or Cast television reported instead, whatever other people do in
\* between (run, cli.py:214-226).
THEOREM VideosGoWhereItPaired == CommandSpec => []PlaysWhereItPaired
<1>1. Inv /\ Chain => PlaysWhereItPaired
  <2> SUFFICES ASSUME Inv, Chain, NEW p \in Procs, pc[p] \in {"send", "resend"},
                      Wants(p, "pair"), ~Wants(p, "cast")
               PROVE  Target(p).screen.id = paired[p] \/ Target(p).backend \in {"dial", "cast"}
    BY DEF PlaysWhereItPaired
  <2>1. ChainInv(p) /\ CountInv(p) /\ pc[p] \notin Idle /\ pc[p] \in PastLaunch
    BY DEF Chain, Count, Idle, PastLaunch
  <2>2. Running(p) /\ Now(p, "videos")
    BY <2>1 DEF ChainInv, CountInv, PlaceInv, CastSteps
  <2>3. left[p] = {"videos"}
    BY <2>2, OneStage DEF Chain, Count
  <2>4. Chained(p)
    BY <2>2, <2>3 DEF Chained
  <2> QED
    BY <2>1, <2>4 DEF ChainInv, Target
<1>2. CommandSpec => []Inv
  BY CommandsAreCalls, Invariance, PTL
<1> QED
  BY <1>1, <1>2, InitChain, NextKeepsChain, PTL DEF CommandSpec
=============================================================================
