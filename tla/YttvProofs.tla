----------------------------- MODULE YttvProofs -----------------------------
(***************************************************************************)
(* Proofs about the API of Yttv, for any processes, calls, replies and     *)
(* migrated devices.                                                       *)
(***************************************************************************)
EXTENDS Yttv, DevicesProofs, FiniteSetTheorems

\* Steps of one process leave the rest of the state of the others alone.
Others(p) ==
  \A q \in Procs \ {p} :
    /\ pc'[q] = pc[q] /\ call'[q] = call[q] /\ devices'[q] = devices[q]
    /\ at'[q] = at[q] /\ held'[q] = held[q]

LEMMA OnlyOneProcess ==
  ASSUME Inv, NEW p \in Procs, Others(p),
         TypeOK', file' # None => AllFit(file'), CallInv(p)'
  PROVE  Inv'
<1>1. ASSUME NEW q \in Procs \ {p} PROVE CallInv(q)'
  BY <1>1 DEF Inv, Others, CallInv, Target
<1> QED
  BY <1>1 DEF Inv

LEMMA Selection == Working \subseteq Steps /\ Armed \subseteq Working /\ Idle \subseteq Steps
BY DEF Working, Armed, Saving, Idle, Steps, AfterSave

\* The target of a call in progress is a device whose token fits.
LEMMA TargetIsDevice ==
  ASSUME Inv, NEW p \in Procs, Target(p) # None
  PROVE  Target(p) \in Device /\ TokenFits(Target(p))
<1>1. CASE at[p] = 0
  BY <1>1 DEF Inv, CallInv, TypeOK, Target, Opt
<1>2. CASE at[p] # 0
  <2>1. at[p] \in DOMAIN devices[p] /\ devices[p] \in Seq(Device)
    BY <1>2, LenProperties DEF Inv, CallInv, TypeOK
  <2> QED
    BY <1>2, <2>1, LenProperties, ElementOfSeq DEF Inv, CallInv, Target, AllFit
<1> QED
  BY <1>1, <1>2

\* A call that ends, with an object for its caller or not, keeps Inv.
LEMMA CallEnds ==
  ASSUME Inv, NEW p \in Procs, Forget(p),
         NEW step \in Idle, GoTo(p, step),
         NEW d \in Opt(Device), held' = [held EXCEPT ![p] = d],
         d # None => TokenFits(d),
         file' \in Seq(Device) \cup {None}, file' # None => AllFit(file'),
         calls' = calls
  PROVE  Inv'
<1>1. TypeOK'
  BY Selection, EmptySeq DEF Inv, TypeOK, Forget, GoTo, Opt
<1>2. Others(p)
  BY DEF Inv, TypeOK, Forget, GoTo, Others
<1>3. CallInv(p)'
  <2>1. pc'[p] = step /\ call'[p] = None /\ devices'[p] = <<>> /\ at'[p] = 0 /\ held'[p] = d
    BY DEF Inv, TypeOK, Forget, GoTo
  <2>2. step \notin Working /\ step \notin Armed
    BY DEF Working, Armed, Saving, Idle, AfterSave
  <2>3. AllFit(<<>>) /\ Len(<<>>) = 0
    BY EmptySeq DEF AllFit
  <2> QED
    BY <2>1, <2>2, <2>3 DEF CallInv
<1> QED
  BY <1>1, <1>2, <1>3, OnlyOneProcess

LEMMA CallRaises ==
  ASSUME Inv, NEW p \in Procs, Raise(p), UNCHANGED <<file, calls>>
  PROVE  Inv'
<1>1. held' = [held EXCEPT ![p] = held[p]] /\ held[p] \in Opt(Device)
  BY DEF Inv, TypeOK, Raise
<1>2. held[p] # None => TokenFits(held[p])
  BY DEF Inv, CallInv
<1>3. "raised" \in Idle
  BY DEF Idle
<1> QED
  BY <1>1, <1>2, <1>3, CallEnds DEF Raise, Inv, TypeOK

\* The state of process p after a step of a call that goes on.
Moves(p, step, c, list, i, d, found) ==
  /\ pc' = [pc EXCEPT ![p] = step]
  /\ call' = [call EXCEPT ![p] = c]
  /\ devices' = [devices EXCEPT ![p] = list]
  /\ at' = [at EXCEPT ![p] = i]
  /\ held' = [held EXCEPT ![p] = d]
  /\ todo' = [todo EXCEPT ![p] = found]

\* What such a step must show.
LEMMA CallContinues ==
  ASSUME Inv, NEW p \in Procs,
         NEW step \in Steps, NEW c \in Calls, NEW list \in Seq(Device),
         NEW i \in 0 .. Len(list), NEW d \in Opt(Device), NEW found \in SUBSET Replies,
         Moves(p, step, c, list, i, d, found),
         step \notin Idle,
         c.sel = "device" => d # None,
         step \in Working /\ i = 0 => d # None,
         step \in Armed => LET t == IF i = 0 THEN d ELSE list[i]
                           IN  t.screen # None /\ t.screen.token # None,
         AllFit(list), d # None => TokenFits(d),
         file' \in Seq(Device) \cup {None}, file' # None => AllFit(file'),
         calls' \in 0 .. MaxCalls
  PROVE  Inv'
<1>1. TypeOK'
  BY LenProperties DEF Inv, TypeOK, Moves, Opt
<1>2. Others(p)
  BY DEF Inv, TypeOK, Moves, Others
<1>3. CallInv(p)'
  <2>1. pc'[p] = step /\ call'[p] = c /\ devices'[p] = list /\ at'[p] = i /\ held'[p] = d
    BY DEF Inv, TypeOK, Moves
  <2>2. c # None
    BY CallsAssumption
  <2>3. i # 0 => list[i] \in Device /\ list[i] # None
    BY ElementOfSeq, LenProperties, NoneAssumption
  <2>4. Target(p)' = IF i = 0 THEN d ELSE list[i]
    BY <2>1 DEF Target
  <2>5. Len(list) \in Nat /\ i <= Len(list)
    BY LenProperties
  <2> QED
    BY <2>1, <2>2, <2>3, <2>4, <2>5 DEF CallInv
<1> QED
  BY <1>1, <1>2, <1>3, OnlyOneProcess

-----------------------------------------------------------------------------
(* Every action keeps Inv.                                                  *)

LEMMA OpenSteps ==
  /\ Op \cup {"migrated", "merge"} \subseteq Steps \ (Idle \cup Working \cup Armed)
  /\ \A c \in Calls : c.op \in Op
BY CallsAssumption DEF Op, Steps, Idle, Working, Armed, Saving, AfterSave, Call

\* What Inv says of one process, for the steps below.
LEMMA InvOf ==
  ASSUME Inv, NEW p \in Procs
  PROVE  /\ devices[p] \in Seq(Device) /\ AllFit(devices[p])
         /\ DOMAIN devices[p] = 1 .. Len(devices[p]) /\ Len(devices[p]) \in Nat
         /\ \A i \in DOMAIN devices[p] : devices[p][i] \in Device /\ TokenFits(devices[p][i])
         /\ at[p] \in 0 .. Len(devices[p])
         /\ held[p] \in Opt(Device)
         /\ held[p] # None => held[p] \in Device /\ TokenFits(held[p])
         /\ todo[p] \in SUBSET Replies /\ todo = [todo EXCEPT ![p] = todo[p]]
         /\ devices = [devices EXCEPT ![p] = devices[p]]
         /\ at = [at EXCEPT ![p] = at[p]] /\ held = [held EXCEPT ![p] = held[p]]
         /\ call = [call EXCEPT ![p] = call[p]]
         /\ pc[p] \notin Idle => call[p] \in Calls /\ call[p] \in Call
         /\ call[p] # None /\ call[p].sel = "device" => held[p] # None
         /\ calls \in 0 .. MaxCalls
         /\ file \in Seq(Device) \cup {None}
         /\ file # None => AllFit(file)
<1>1. devices[p] \in Seq(Device) /\ AllFit(devices[p])
  BY DEF Inv, TypeOK, CallInv
<1>2. DOMAIN devices[p] = 1 .. Len(devices[p]) /\ Len(devices[p]) \in Nat
  BY <1>1, LenProperties
<1>3. \A i \in DOMAIN devices[p] : devices[p][i] \in Device /\ TokenFits(devices[p][i])
  BY <1>1, <1>2, ElementOfSeq DEF AllFit
<1>4. at[p] \in 0 .. Len(devices[p])
  BY <1>2 DEF Inv, TypeOK, CallInv
<1>5. pc[p] \notin Idle => call[p] \in Calls /\ call[p] \in Call
  BY CallsAssumption DEF Inv, TypeOK, CallInv, Opt
<1> QED
  BY <1>1, <1>2, <1>3, <1>4, <1>5 DEF Inv, TypeOK, CallInv, Opt

\* A step that only writes the file, moves on, or notes what a search found.
LEMMA OnlyMovesOn ==
  ASSUME Inv, NEW p \in Procs, pc[p] \notin Idle,
         NEW step \in Steps \ Idle, GoTo(p, step),
         NEW found \in SUBSET Replies, todo' = [todo EXCEPT ![p] = found],
         UNCHANGED <<call, devices, at, held, calls>>,
         step \in Working => Target(p) # None,
         step \in Armed => Target(p).screen # None /\ Target(p).screen.token # None,
         file' \in Seq(Device) \cup {None}, file' # None => AllFit(file')
  PROVE  Inv'
<1>1. /\ call[p] \in Calls
      /\ call[p].sel = "device" => held[p] # None
      /\ devices[p] \in Seq(Device) /\ AllFit(devices[p])
      /\ at[p] \in 0 .. Len(devices[p])
      /\ held[p] \in Opt(Device)
      /\ held[p] # None => TokenFits(held[p])
      /\ calls' \in 0 .. MaxCalls
  BY InvOf DEF Inv, CallInv
<1>2. Moves(p, step, call[p], devices[p], at[p], held[p], found)
  BY InvOf DEF Moves, GoTo
<1>3. step \in Steps /\ step \notin Idle
  OBVIOUS
<1>4. step \in Working /\ at[p] = 0 => held[p] # None
  BY DEF Target
<1>5. step \in Armed => LET t == IF at[p] = 0 THEN held[p] ELSE devices[p][at[p]]
                        IN  t.screen # None /\ t.screen.token # None
  BY DEF Target
<1> QED
  BY <1>1, <1>2, <1>3, <1>4, <1>5, CallContinues

\* A step that changes the loaded list and what the call works on.
LEMMA ListChanges ==
  ASSUME Inv, NEW p \in Procs, pc[p] \notin Idle,
         NEW step \in {"merge", "finish"}, GoTo(p, step),
         NEW list \in Seq(Device), devices' = [devices EXCEPT ![p] = list], AllFit(list),
         NEW i \in 1 .. Len(list), at' = [at EXCEPT ![p] = i],
         NEW found \in SUBSET Replies, todo' = [todo EXCEPT ![p] = found],
         UNCHANGED <<call, held, file, calls>>
  PROVE  Inv'
<1>1. /\ call[p] \in Calls
      /\ call[p].sel = "device" => held[p] # None
      /\ held[p] \in Opt(Device)
      /\ held[p] # None => TokenFits(held[p])
      /\ calls' \in 0 .. MaxCalls
      /\ file' \in Seq(Device) \cup {None}
      /\ file' # None => AllFit(file')
  BY InvOf DEF Inv, CallInv
<1>2. Moves(p, step, call[p], list, i, held[p], found)
  BY InvOf DEF Moves, GoTo
<1>3. step \in Steps /\ step \notin Idle /\ step \notin Armed
  BY DEF Steps, Idle, Armed
<1>4. i \in 0 .. Len(list) /\ i # 0
  BY LenProperties
<1> QED
  BY <1>1, <1>2, <1>3, <1>4, CallContinues

\* A step that replaces the target of the call.
LEMMA TargetChanges ==
  ASSUME Inv, NEW p \in Procs, pc[p] \notin Idle, Target(p) # None,
         NEW step \in Steps \ Idle, GoTo(p, step),
         NEW d \in Device, TokenFits(d), SetTarget(p, d),
         step \in Armed => d.screen # None /\ d.screen.token # None,
         UNCHANGED <<call, at, todo, file, calls>>
  PROVE  Inv'
<1>1. /\ call[p] \in Calls
      /\ call[p].sel = "device" => held[p] # None
      /\ held[p] \in Opt(Device)
      /\ held[p] # None => TokenFits(held[p])
      /\ calls' \in 0 .. MaxCalls
      /\ file' \in Seq(Device) \cup {None}
      /\ file' # None => AllFit(file')
      /\ todo[p] \in SUBSET Replies
  BY InvOf DEF Inv, CallInv
<1>2. step \in Steps /\ step \notin Idle /\ d # None /\ d \in Opt(Device)
  BY NoneAssumption DEF Opt
<1>3. CASE at[p] = 0
  <2>1. Moves(p, step, call[p], devices[p], 0, d, todo[p])
    BY <1>3, InvOf DEF Moves, GoTo, SetTarget
  <2>2. devices[p] \in Seq(Device) /\ AllFit(devices[p]) /\ 0 \in 0 .. Len(devices[p])
    BY InvOf
  <2> QED
    BY <1>1, <1>2, <2>1, <2>2, CallContinues
<1>4. CASE at[p] # 0
  <2> DEFINE list == [devices[p] EXCEPT ![at[p]] = d]
  <2>1. devices[p] \in Seq(Device) /\ AllFit(devices[p]) /\ at[p] \in DOMAIN devices[p]
    BY <1>4, InvOf
  <2>2. list \in Seq(Device) /\ AllFit(list) /\ Len(list) = Len(devices[p])
    BY <2>1, ReplaceEntry
  <2>3. list[at[p]] = d /\ at[p] \in 0 .. Len(list)
    BY <1>4, <2>1, <2>2, InvOf
  <2>4. Moves(p, step, call[p], list, at[p], held[p], todo[p])
    BY <1>4, InvOf DEF Moves, GoTo, SetTarget
  <2>5. step \in Working /\ at[p] = 0 => held[p] # None
    BY <1>4
  <2>6. step \in Armed => LET t == IF at[p] = 0 THEN held[p] ELSE list[at[p]]
                          IN  t.screen # None /\ t.screen.token # None
    BY <1>4, <2>3
  <2> HIDE DEF list
  <2> QED
    BY <1>1, <1>2, <2>2, <2>3, <2>4, <2>5, <2>6, CallContinues
<1> QED
  BY <1>3, <1>4

LEMMA BeginKeepsInv ==
  ASSUME Inv, NEW p \in Procs, Begin(p)
  PROVE  Inv'
<1>1. PICK c \in Calls :
        /\ c.sel = "device" => held[p] # None
        /\ call' = [call EXCEPT ![p] = c]
        /\ \/ /\ file # None
              /\ devices' = [devices EXCEPT ![p] = file]
              /\ GoTo(p, c.op)
           \/ /\ file = None
              /\ devices' = [devices EXCEPT ![p] = Ytcast]
              /\ GoTo(p, IF Ytcast = <<>> THEN c.op ELSE "migrated")
  BY DEF Begin
<1> DEFINE list == IF file # None THEN file ELSE Ytcast
           step == IF file # None \/ Ytcast = <<>> THEN c.op ELSE "migrated"
<1>2. list \in Seq(Device) /\ AllFit(list)
  <2>1. CASE file # None
    BY <2>1 DEF Inv, TypeOK
  <2>2. CASE file = None
    BY <2>2, YtcastAssumption DEF AllFit
  <2> QED
    BY <2>1, <2>2
<1>3. step \in Steps \ (Idle \cup Working \cup Armed)
  BY OpenSteps
<1>4. at[p] = 0 /\ at' = [at EXCEPT ![p] = 0] /\ 0 \in 0 .. Len(list)
  BY <1>2, InvOf, LenProperties DEF Begin, Inv, CallInv
<1>5. UNCHANGED <<file, held, todo>> /\ calls' \in 0 .. MaxCalls
  BY InvOf, MaxCallsAssumption DEF Begin
<1>6. Moves(p, step, c, list, 0, held[p], todo[p])
  BY <1>1, <1>4, <1>5, InvOf DEF Moves, GoTo
<1>7. /\ held[p] \in Opt(Device)
      /\ held[p] # None => TokenFits(held[p])
      /\ todo[p] \in SUBSET Replies
      /\ file' \in Seq(Device) \cup {None}
      /\ file' # None => AllFit(file')
  BY <1>5, InvOf
<1> HIDE DEF list, step
<1> QED
  BY <1>1, <1>2, <1>3, <1>4, <1>5, <1>6, <1>7, CallContinues

LEMMA SaveMigratedKeepsInv ==
  ASSUME Inv, NEW p \in Procs, SaveMigrated(p)
  PROVE  Inv'
<1>1. CASE Raise(p) /\ UNCHANGED file
  BY <1>1, CallRaises DEF SaveMigrated
<1>2. CASE /\ file' = devices[p]
           /\ GoTo(p, call[p].op)
           /\ UNCHANGED <<call, devices, at, held, todo>>
  <2>1. pc[p] = "migrated" /\ pc[p] \notin Idle /\ UNCHANGED calls
    BY OpenSteps DEF SaveMigrated
  <2>2. call[p].op \in Steps \ (Idle \cup Working \cup Armed)
    BY <2>1, InvOf, OpenSteps
  <2>3. /\ todo[p] \in SUBSET Replies /\ todo' = [todo EXCEPT ![p] = todo[p]]
        /\ file' \in Seq(Device) \cup {None} /\ AllFit(file')
    BY <1>2, InvOf
  <2> QED
    BY <1>2, <2>1, <2>2, <2>3, OnlyMovesOn
<1> QED
  BY <1>1, <1>2 DEF SaveMigrated

LEMMA SaveCacheKeepsInv ==
  ASSUME Inv, NEW p \in Procs, SaveCache(p)
  PROVE  Inv'
<1>1. CASE Raise(p) /\ UNCHANGED file
  BY <1>1, CallRaises DEF SaveCache
<1>2. CASE /\ file' = devices[p]
           /\ GoTo(p, AfterSave[pc[p]])
           /\ UNCHANGED <<call, devices, at, held, todo>>
  <2>1. UNCHANGED calls /\ pc[p] \in {"learned", "renewed", "retried"}
    BY DEF SaveCache, Saving, AfterSave
  <2> DEFINE step == AfterSave[pc[p]]
  <2>2. /\ pc[p] \notin Idle /\ pc[p] \in Working
        /\ step \in Steps /\ step \notin Idle
        /\ step \in Armed => pc[p] \in Armed
    BY <2>1 DEF AfterSave, Steps, Idle, Working, Armed, Saving
  <2>3. Target(p) # None
    BY <2>2 DEF Inv, CallInv
  <2>4. step \in Armed => Target(p).screen # None /\ Target(p).screen.token # None
    BY <2>2 DEF Inv, CallInv
  <2>5. /\ todo[p] \in SUBSET Replies /\ todo' = [todo EXCEPT ![p] = todo[p]]
        /\ file' \in Seq(Device) \cup {None} /\ AllFit(file')
    BY <1>2, InvOf
  <2> HIDE DEF step
  <2>6. GoTo(p, step)
    BY <1>2 DEF step
  <2> QED
    BY <1>2, <2>1, <2>2, <2>3, <2>4, <2>5, <2>6, OnlyMovesOn
<1> QED
  BY <1>1, <1>2 DEF SaveCache

LEMMA FinishKeepsInv ==
  ASSUME Inv, NEW p \in Procs, Finish(p)
  PROVE  Inv'
<1>1. CASE Raise(p) /\ UNCHANGED file
  BY <1>1, CallRaises DEF Finish
<1>2. CASE file' = devices[p] /\ Return(p, Target(p))
  <2>1. Target(p) # None
    BY Selection DEF Finish, Inv, CallInv, Working
  <2>2. Target(p) \in Opt(Device) /\ TokenFits(Target(p))
    BY <2>1, TargetIsDevice DEF Opt
  <2>3. "returned" \in Idle
    BY DEF Idle
  <2> QED
    BY <1>2, <2>2, <2>3, InvOf, CallEnds DEF Finish, Return
<1> QED
  BY <1>1, <1>2 DEF Finish

LEMMA ListDevicesKeepsInv ==
  ASSUME Inv, NEW p \in Procs, ListDevices(p)
  PROVE  Inv'
<1>1. PICK d \in Opt(Device) : Return(p, d) /\ (d # None => TokenFits(d))
  <2>1. CASE Return(p, None)
    BY <2>1 DEF Opt
  <2>2. CASE \E i \in DOMAIN devices[p] : Return(p, devices[p][i])
    BY <2>2, InvOf DEF Opt
  <2> QED
    BY <2>1, <2>2 DEF ListDevices
<1>2. "returned" \in Idle
  BY DEF Idle
<1> QED
  BY <1>1, <1>2, InvOf, CallEnds DEF ListDevices, Return

LEMMA CrashKeepsInv ==
  ASSUME Inv, NEW p \in Procs, Crash(p)
  PROVE  Inv'
<1>1. "start" \in Idle /\ None \in Opt(Device)
  BY DEF Idle, Opt
<1> QED
  BY <1>1, InvOf, CallEnds DEF Crash

LEMMA SearchKeepsInv ==
  ASSUME Inv, NEW p \in Procs, Search(p)
  PROVE  Inv'
<1>1. CASE Raise(p)
  BY <1>1, CallRaises DEF Search
<1>2. CASE Return(p, None)
  BY <1>2, InvOf, CallEnds DEF Search, Return, Idle, Opt
<1>3. ASSUME NEW found \in SUBSET Replies,
             todo' = [todo EXCEPT ![p] = found], GoTo(p, "merge"),
             UNCHANGED <<call, devices, at, held>>
      PROVE  Inv'
  <2>1. pc[p] \notin Idle /\ UNCHANGED <<file, calls>>
    BY DEF Search, Idle
  <2>2. "merge" \in Steps \ (Idle \cup Working \cup Armed)
    BY OpenSteps
  <2>3. file \in Seq(Device) \cup {None} /\ (file # None => AllFit(file))
    BY InvOf
  <2> QED
    BY <1>3, <2>1, <2>2, <2>3, OnlyMovesOn
<1> QED
  BY <1>1, <1>2, <1>3 DEF Search

LEMMA LaunchedIsDevice ==
  ASSUME NEW t \in Device, TokenFits(t), NEW d \in Launched(t)
  PROVE  d \in Device /\ TokenFits(d)
<1>1. ASSUME NEW id \in ScreenId
      PROVE  Learned(t, id) \in Device /\ TokenFits(Learned(t, id))
  <2>1. CASE t.screen # None /\ t.screen.id = id
    BY <2>1 DEF Learned
  <2>2. CASE ~ (t.screen # None /\ t.screen.id = id)
    <3>1. [id |-> id, token |-> None] \in Screen
      BY DEF Screen, Opt
    <3> QED
      BY <2>2, <3>1 DEF Learned, Device, Opt, TokenFits
  <2> QED
    BY <2>1, <2>2
<1>2. CASE t.backend = None
  BY <1>2, NoneAssumption DEF Launched, Backend
<1>3. CASE t.backend = "appletv"
  BY <1>3, NoneAssumption DEF Launched, Backend
<1>4. CASE t.backend = "dial"
  BY <1>1, <1>4, NoneAssumption DEF Launched, Backend
<1>5. CASE t.backend = "cast"
  <2>1. PICK id \in ScreenId, uuid \in Uuid :
          d = [Learned(t, id) EXCEPT !.uuid = SetDefault(@, uuid)]
    BY <1>5, NoneAssumption DEF Launched, Backend
  <2> QED
    BY <1>1, <2>1 DEF Device, Opt, SetDefault, TokenFits
<1>6. t.backend \in {None, "appletv", "dial", "cast"}
  BY DEF Device, Opt, Backend
<1> QED
  BY <1>2, <1>3, <1>4, <1>5, <1>6

LEMMA LaunchKeepsInv ==
  ASSUME Inv, NEW p \in Procs, Launch(p)
  PROVE  Inv'
<1>1. CASE Raise(p)
  BY <1>1, CallRaises DEF Launch
<1>2. ASSUME NEW d \in Launched(Target(p)),
             SetTarget(p, d),
             GoTo(p, IF d.screen = Target(p).screen THEN "renew" ELSE "learned"),
             UNCHANGED <<call, at, todo>>
      PROVE  Inv'
  <2>1. pc[p] \notin Idle /\ Target(p) # None /\ UNCHANGED <<file, calls>>
    BY DEF Launch, Idle, Working, Inv, CallInv
  <2>2. d \in Device /\ TokenFits(d)
    BY <2>1, TargetIsDevice, LaunchedIsDevice
  <2>3. PICK step \in {"renew", "learned"} : GoTo(p, step)
    BY <1>2
  <2>4. step \in Steps \ Idle /\ step \notin Armed
    BY DEF Steps, Idle, Armed, Saving, AfterSave
  <2> QED
    BY <1>2, <2>1, <2>2, <2>3, <2>4, TargetChanges
<1> QED
  BY <1>1, <1>2 DEF Launch

\* A refresh makes a token for the screen it refreshes.
LEMMA RefreshKeepsInv ==
  ASSUME Inv, NEW p \in Procs, pc[p] \in {"renew", "retry"},
         Target(p).screen # None, Refresh(p),
         NEW step \in {"renewed", "retried"}, GoTo(p, step),
         UNCHANGED <<call, at, todo, file, calls>>
  PROVE  Inv'
<1>1. PICK tag \in Tag :
        SetTarget(p, [Target(p) EXCEPT
                        !.screen.token = [screen |-> Target(p).screen.id, tag |-> tag]])
  BY DEF Refresh
<1> DEFINE t == Target(p)
           d == [t EXCEPT !.screen.token = [screen |-> t.screen.id, tag |-> tag]]
<1>2. pc[p] \notin Idle /\ t # None
  BY DEF Idle, Working, Inv, CallInv
<1>3. t \in Device /\ TokenFits(t)
  BY <1>2, TargetIsDevice
<1>4. t.screen \in Screen
  BY <1>3 DEF Device, Opt
<1>5. /\ d.screen \in Screen
      /\ d.screen.token = [screen |-> d.screen.id, tag |-> tag]
      /\ d.screen.token \in Token
  BY <1>3, <1>4 DEF Device, Screen, Token, Opt
<1>6. d \in Device
  BY <1>3, <1>5 DEF Device, Opt
<1>7. TokenFits(d) /\ d.screen # None /\ d.screen.token # None
  BY <1>5, NoneAssumption DEF TokenFits
<1>8. step \in Steps \ Idle
  BY DEF Steps, Idle, Saving, AfterSave
<1>9. SetTarget(p, d)
  BY <1>1
<1> HIDE DEF t, d
<1> QED
  BY <1>2, <1>6, <1>7, <1>8, <1>9, TargetChanges DEF t

LEMMA RenewKeepsInv ==
  ASSUME Inv, NEW p \in Procs, Renew(p)
  PROVE  Inv'
<1>1. CASE Raise(p)
  BY <1>1, CallRaises DEF Renew
<1>2. CASE /\ Target(p).screen # None
           /\ Target(p).screen.token # None
           /\ GoTo(p, "send")
           /\ UNCHANGED <<devices, held, call, at, todo>>
  <2>1. pc[p] \notin Idle /\ Target(p) # None /\ UNCHANGED <<file, calls>>
    BY DEF Renew, Idle, Working, Inv, CallInv
  <2>2. "send" \in Steps \ Idle
    BY DEF Steps, Idle
  <2>3. /\ file \in Seq(Device) \cup {None}
        /\ file # None => AllFit(file)
        /\ todo[p] \in SUBSET Replies /\ todo = [todo EXCEPT ![p] = todo[p]]
    BY InvOf
  <2> QED
    BY <1>2, <2>1, <2>2, <2>3, OnlyMovesOn
<1>3. CASE /\ Target(p).screen # None
           /\ Refresh(p) /\ GoTo(p, "renewed")
           /\ UNCHANGED <<call, at, todo>>
  BY <1>3, RefreshKeepsInv DEF Renew
<1> QED
  BY <1>1, <1>2, <1>3 DEF Renew

LEMMA RetryKeepsInv ==
  ASSUME Inv, NEW p \in Procs, Retry(p)
  PROVE  Inv'
<1>1. CASE Raise(p)
  BY <1>1, CallRaises DEF Retry
<1>2. CASE Refresh(p) /\ GoTo(p, "retried") /\ UNCHANGED <<call, at, todo>>
  <2>1. Target(p).screen # None
    BY DEF Retry, Inv, CallInv, Armed
  <2> QED
    BY <1>2, <2>1, RefreshKeepsInv DEF Retry
<1> QED
  BY <1>1, <1>2 DEF Retry

LEMMA DeliveredKeepsInv ==
  ASSUME Inv, NEW p \in Procs, pc[p] \in {"send", "resend"},
         Delivered(p), UNCHANGED <<file, calls>>
  PROVE  Inv'
<1> DEFINE list == SetLastUsed(devices[p], at[p], Target(p))
<1>1. devices[p] \in Seq(Device) /\ AllFit(devices[p]) /\ at[p] \in 0 .. Len(devices[p])
  BY InvOf
<1>2. list \in Seq(Device) /\ Len(list) = Len(devices[p]) /\ AllFit(list)
  BY <1>1, SetLastUsedList
<1>3. /\ pc[p] \notin Idle /\ Target(p) # None
      /\ "finish" \in Steps /\ "finish" \notin Idle /\ "finish" \notin Armed
  BY DEF Idle, Working, Armed, Steps, Inv, CallInv
<1>4. /\ call[p] \in Calls
      /\ call[p].sel = "device" => held[p] # None
      /\ held[p] \in Opt(Device)
      /\ held[p] # None => TokenFits(held[p])
      /\ calls' \in 0 .. MaxCalls
      /\ file' \in Seq(Device) \cup {None}
      /\ file' # None => AllFit(file')
      /\ todo[p] \in SUBSET Replies
  BY <1>3, InvOf DEF Inv, CallInv
<1>5. Moves(p, "finish", call[p], list, at[p], held[p], todo[p])
  BY InvOf DEF Moves, GoTo, Delivered
<1>6. at[p] \in 0 .. Len(list)
  BY <1>1, <1>2
<1>7. at[p] = 0 => held[p] # None
  BY <1>3 DEF Target
<1> HIDE DEF list
<1> QED
  BY <1>2, <1>3, <1>4, <1>5, <1>6, <1>7, CallContinues

LEMMA SendKeepsInv ==
  ASSUME Inv, NEW p \in Procs, Send(p) \/ Resend(p)
  PROVE  Inv'
<1>1. pc[p] \in {"send", "resend"} /\ UNCHANGED <<file, calls>>
  BY DEF Send, Resend
<1>2. CASE Raise(p)
  BY <1>1, <1>2, CallRaises
<1>3. CASE Delivered(p)
  BY <1>1, <1>3, DeliveredKeepsInv
<1>4. CASE GoTo(p, "retry") /\ UNCHANGED <<call, devices, at, held, todo>>
  <2>1. /\ pc[p] \notin Idle /\ Target(p) # None
        /\ Target(p).screen # None /\ Target(p).screen.token # None
        /\ "retry" \in Steps \ Idle
    BY <1>1 DEF Idle, Working, Armed, Steps, Inv, CallInv
  <2>2. /\ file \in Seq(Device) \cup {None}
        /\ file # None => AllFit(file)
        /\ todo[p] \in SUBSET Replies /\ todo = [todo EXCEPT ![p] = todo[p]]
    BY InvOf
  <2> QED
    BY <1>1, <1>4, <2>1, <2>2, OnlyMovesOn
<1> QED
  BY <1>2, <1>3, <1>4 DEF Send, Resend

LEMMA PairKeepsInv ==
  ASSUME Inv, NEW p \in Procs, Pair(p)
  PROVE  Inv'
<1>1. CASE Raise(p)
  BY <1>1, CallRaises DEF Pair
<1>2. ASSUME NEW token \in Token,
             LET screen == [id |-> token.screen, token |-> token]
                 known  == Find(devices[p], screen.id)
                 fresh  == NewDevice(screen, None, None, None, None)
                 i      == IF known = 0 THEN UpsertAt(devices[p], fresh) ELSE known
                 list   == IF known = 0 THEN Upsert(devices[p], fresh)
                           ELSE [devices[p] EXCEPT ![known].screen = screen]
             IN  /\ devices' = [devices EXCEPT ![p] = SetLastUsed(list, i, list[i])]
                 /\ at' = [at EXCEPT ![p] = i]
                 /\ GoTo(p, "finish")
                 /\ UNCHANGED <<call, held, todo>>
      PROVE  Inv'
  <2> DEFINE screen == [id |-> token.screen, token |-> token]
             known  == Find(devices[p], screen.id)
             fresh  == NewDevice(screen, None, None, None, None)
             i      == IF known = 0 THEN UpsertAt(devices[p], fresh) ELSE known
             list   == IF known = 0 THEN Upsert(devices[p], fresh)
                       ELSE [devices[p] EXCEPT ![known].screen = screen]
             marked == SetLastUsed(list, i, list[i])
  <2>1. screen \in Screen /\ screen # None
    BY NoneAssumption DEF Screen, Token, Opt
  <2>2. fresh \in Device /\ TokenFits(fresh)
    BY <2>1 DEF NewDevice, Device, Opt, TokenFits
  <2>3. devices[p] \in Seq(Device) /\ AllFit(devices[p])
    BY InvOf
  <2>4. known \in 0 .. Len(devices[p])
    BY <2>3, FirstOfList DEF Find
  <2>5. list \in Seq(Device) /\ AllFit(list) /\ i \in 1 .. Len(list)
    <3>1. CASE known = 0
      BY <2>2, <2>3, <3>1, UpsertList
    <3>2. CASE known # 0
      <4>1. known \in DOMAIN devices[p] /\ Len(devices[p]) \in Nat
        BY <2>3, <2>4, <3>2, LenProperties
      <4>2. devices[p][known] \in Device
        BY <2>3, <4>1, LenProperties, ElementOfSeq
      <4> DEFINE d == [devices[p][known] EXCEPT !.screen = screen]
      <4>3. d \in Device /\ TokenFits(d)
        BY <2>1, <4>2 DEF Device, Opt, TokenFits
      <4>4. list = [devices[p] EXCEPT ![known] = d]
        BY <3>2
      <4> HIDE DEF d, list, known, screen
      <4>5. list \in Seq(Device) /\ AllFit(list) /\ Len(list) = Len(devices[p])
        BY <2>3, <4>1, <4>3, <4>4, ReplaceEntry
      <4> QED
        BY <3>2, <4>1, <4>5, <2>4
    <3> QED
      BY <3>1, <3>2
  <2>6. devices' = [devices EXCEPT ![p] = marked] /\ at' = [at EXCEPT ![p] = i]
    BY <1>2
  <2> HIDE DEF list, i
  <2>7. marked \in Seq(Device) /\ AllFit(marked) /\ i \in 1 .. Len(marked)
    BY <2>5, SetLastUsedList
  <2>8. /\ pc[p] \notin Idle /\ todo[p] \in SUBSET Replies
        /\ todo' = [todo EXCEPT ![p] = todo[p]]
        /\ UNCHANGED <<call, held, file, calls>> /\ GoTo(p, "finish")
    BY <1>2, InvOf DEF Pair, Idle
  <2> HIDE DEF marked
  <2> QED
    BY <2>6, <2>7, <2>8, ListChanges
<1> QED
  BY <1>1, <1>2 DEF Pair

LEMMA AttachedIsDevice ==
  ASSUME NEW d \in Device, NEW c \in Call
  PROVE  /\ Attached(d, c) \in Device
         /\ TokenFits(d) => TokenFits(Attached(d, c))
BY DEF Attached, Updated, Device, Call, Opt, TokenFits

LEMMA AttachKeepsInv ==
  ASSUME Inv, NEW p \in Procs, Attach(p)
  PROVE  Inv'
<1>1. CASE Raise(p)
  BY <1>1, CallRaises DEF Attach
<1>2. ASSUME NEW i \in 0 .. Len(devices[p]),
             LET d == Attached(IF i = 0 THEN held[p] ELSE devices[p][i], call[p])
             IN  /\ Selects(p, i)
                 /\ at' = [at EXCEPT ![p] = i]
                 /\ IF i = 0
                      THEN held' = [held EXCEPT ![p] = d] /\ UNCHANGED devices
                      ELSE devices' = [devices EXCEPT ![p][i] = d] /\ UNCHANGED held
                 /\ GoTo(p, "finish")
                 /\ UNCHANGED <<call, todo>>
      PROVE  Inv'
  <2> DEFINE t == IF i = 0 THEN held[p] ELSE devices[p][i]
             d == Attached(t, call[p])
  <2>1. /\ pc[p] \notin Idle /\ UNCHANGED <<file, calls>>
        /\ "finish" \in Steps \ Idle /\ "finish" \notin Armed
    BY DEF Attach, Idle, Steps, Armed
  <2>2. /\ call[p] \in Calls /\ call[p] \in Call
        /\ devices[p] \in Seq(Device) /\ AllFit(devices[p])
        /\ calls' \in 0 .. MaxCalls
        /\ file' \in Seq(Device) \cup {None}
        /\ file' # None => AllFit(file')
        /\ todo[p] \in SUBSET Replies
        /\ held[p] \in Opt(Device)
        /\ held[p] # None => TokenFits(held[p])
        /\ call[p].sel = "device" => held[p] # None
    BY <2>1, InvOf DEF Inv, CallInv
  <2>3. CASE i = 0
    <3>1. call[p].sel = "device" /\ held[p] # None
      BY <1>2, <2>2, <2>3, InvOf DEF Selects
    <3>2. t \in Device /\ TokenFits(t)
      BY <2>2, <2>3, <3>1 DEF Opt
    <3>3. d \in Device /\ TokenFits(d) /\ d # None /\ d \in Opt(Device)
      BY <2>2, <3>2, AttachedIsDevice, NoneAssumption DEF Opt
    <3>4. Moves(p, "finish", call[p], devices[p], 0, d, todo[p])
      BY <1>2, <2>3, InvOf DEF Moves, GoTo
    <3>5. 0 \in 0 .. Len(devices[p])
      BY <2>2, LenProperties
    <3> HIDE DEF d
    <3> QED
      BY <2>1, <2>2, <3>3, <3>4, <3>5, CallContinues
  <2>4. CASE i # 0
    <3>1. i \in DOMAIN devices[p]
      BY <2>4, InvOf
    <3>2. t \in Device /\ TokenFits(t)
      BY <2>4, <3>1, InvOf
    <3>3. d \in Device /\ TokenFits(d)
      BY <2>2, <3>2, AttachedIsDevice
    <3> DEFINE list == [devices[p] EXCEPT ![i] = d]
    <3>4. list \in Seq(Device) /\ AllFit(list) /\ i \in 1 .. Len(list)
      BY <2>2, <3>1, <3>3, ReplaceEntry, LenProperties
    <3>5. devices' = [devices EXCEPT ![p] = list] /\ todo' = [todo EXCEPT ![p] = todo[p]]
      BY <1>2, <2>4, InvOf
    <3> HIDE DEF list
    <3> QED
      BY <1>2, <2>1, <2>2, <2>4, <3>4, <3>5, ListChanges
  <2> QED
    BY <2>3, <2>4
<1> QED
  BY <1>1, <1>2 DEF Attach

\* What discover and add_device do to their list: the entry found by identity
\* is updated, and otherwise a new device goes in.
LEMMA UpdateOrUpsert ==
  ASSUME NEW devs \in Seq(Device), AllFit(devs),
         NEW known \in 0 .. Len(devs),
         NEW fresh \in Device, fresh.screen = None,
         NEW d, known # 0 => d \in Device /\ d.screen = devs[known].screen
  PROVE  LET i    == IF known = 0 THEN UpsertAt(devs, fresh) ELSE known
             list == IF known = 0 THEN Upsert(devs, fresh) ELSE [devs EXCEPT ![known] = d]
         IN  list \in Seq(Device) /\ AllFit(list) /\ i \in 1 .. Len(list)
<1>1. TokenFits(fresh)
  BY DEF TokenFits
<1>2. CASE known = 0
  BY <1>1, <1>2, UpsertList
<1>3. CASE known # 0
  <2>1. known \in DOMAIN devs /\ Len(devs) \in Nat /\ known \in 1 .. Len(devs)
    BY <1>3, LenProperties
  <2>2. TokenFits(d)
    BY <1>3, <2>1 DEF AllFit, TokenFits
  <2>3. LET list == [devs EXCEPT ![known] = d]
        IN  list \in Seq(Device) /\ AllFit(list) /\ Len(list) = Len(devs)
    BY <1>3, <2>1, <2>2, ReplaceEntry
  <2> QED
    BY <1>3, <2>1, <2>3
<1> QED
  BY <1>2, <1>3

LEMMA AddKeepsInv ==
  ASSUME Inv, NEW p \in Procs, Add(p)
  PROVE  Inv'
<1> DEFINE c     == call[p]
           devs  == devices[p]
           fresh == NewDevice(None, c.backend, c.address, c.usn, c.uuid)
           known == IF Identity(fresh) = None THEN 0
                    ELSE FindService(devs, Identity(fresh))
           d     == Attached(devs[known], c)
           i     == IF known = 0 THEN UpsertAt(devs, fresh) ELSE known
           list  == IF known = 0 THEN Upsert(devs, fresh) ELSE [devs EXCEPT ![known] = d]
<1>1. /\ pc[p] \notin Idle /\ UNCHANGED <<file, call, held, calls>> /\ GoTo(p, "finish")
      /\ todo[p] \in SUBSET Replies /\ todo' = [todo EXCEPT ![p] = todo[p]]
      /\ c \in Call
  BY InvOf DEF Add, Idle
<1>2. devs \in Seq(Device) /\ AllFit(devs) /\ Len(devs) \in Nat
  BY InvOf
<1>3. fresh \in Device /\ fresh.screen = None
  BY <1>1 DEF NewDevice, Device, Call, Opt
<1>4. known \in 0 .. Len(devs)
  BY <1>2, FirstOfList DEF FindService
<1>5. known # 0 => d \in Device /\ d.screen = devs[known].screen
  <2>1. known # 0 => devs[known] \in Device
    BY <1>2, <1>4, LenProperties, ElementOfSeq
  <2> QED
    BY <1>1, <2>1, AttachedIsDevice DEF Attached, Device
<1>6. /\ devices' = [devices EXCEPT ![p] = list]
      /\ at' = [at EXCEPT ![p] = i]
  BY InvOf DEF Add
<1> HIDE DEF known, d, devs, fresh
<1>7. list \in Seq(Device) /\ AllFit(list) /\ i \in 1 .. Len(list)
  BY <1>2, <1>3, <1>4, <1>5, UpdateOrUpsert
<1> HIDE DEF list, i
<1> QED
  BY <1>1, <1>6, <1>7, ListChanges

LEMMA MergeKeepsInv ==
  ASSUME Inv, NEW p \in Procs, Merge(p)
  PROVE  Inv'
<1> DEFINE devs == devices[p]
<1>1. PICK r \in todo[p] :
       LET known == IF r.usn = None THEN 0 ELSE FindService(devs, r.usn)
           fresh == NewDevice(None, "dial", r.address, r.usn, None)
           i     == IF known = 0 THEN UpsertAt(devs, fresh) ELSE known
       IN  /\ devices' =
                [devices EXCEPT ![p] =
                   IF known = 0 THEN Upsert(devs, fresh)
                   ELSE [devs EXCEPT ![known].address = r.address,
                                     ![known].backend = "dial"]]
           /\ \/ at' = [at EXCEPT ![p] = i]
              \/ at[p] # 0 /\ UNCHANGED at
           /\ todo' = [todo EXCEPT ![p] = todo[p] \ {r}]
           /\ GoTo(p, IF todo[p] = {r} THEN "finish" ELSE "merge")
  BY InvOf DEF Merge
<1> DEFINE known == IF r.usn = None THEN 0 ELSE FindService(devs, r.usn)
           fresh == NewDevice(None, "dial", r.address, r.usn, None)
           d     == [devs[known] EXCEPT !.address = r.address, !.backend = "dial"]
           i     == IF known = 0 THEN UpsertAt(devs, fresh) ELSE known
           list  == IF known = 0 THEN Upsert(devs, fresh) ELSE [devs EXCEPT ![known] = d]
           found == todo[p] \ {r}
<1>2. /\ pc[p] \notin Idle /\ UNCHANGED <<file, call, held, calls>>
      /\ r \in Reply /\ found \in SUBSET Replies /\ todo' = [todo EXCEPT ![p] = found]
  BY <1>1, InvOf, RepliesAssumption DEF Merge, Idle
<1>3. PICK step \in {"merge", "finish"} : GoTo(p, step)
  BY <1>1
<1>4. devs \in Seq(Device) /\ AllFit(devs) /\ Len(devs) \in Nat /\ at[p] \in 0 .. Len(devs)
  BY InvOf
<1>5. fresh \in Device /\ fresh.screen = None
  BY <1>2 DEF NewDevice, Device, Reply, Opt, Backend
<1>6. known \in 0 .. Len(devs)
  BY <1>4, FirstOfList DEF FindService
<1>7. known # 0 => d \in Device /\ d.screen = devs[known].screen
  <2>1. known # 0 => devs[known] \in Device
    BY <1>4, <1>6, LenProperties, ElementOfSeq
  <2> QED
    BY <1>2, <2>1 DEF Device, Reply, Opt, Backend
<1>8. devices' = [devices EXCEPT ![p] = list]
  BY <1>1, <1>4, <1>6
<1>9. at' = [at EXCEPT ![p] = i] \/ (at[p] # 0 /\ at' = [at EXCEPT ![p] = at[p]])
  BY <1>1, InvOf
<1> HIDE DEF known, fresh, d
<1>10. list \in Seq(Device) /\ AllFit(list) /\ i \in 1 .. Len(list)
  BY <1>4, <1>5, <1>6, <1>7, UpdateOrUpsert
<1>11. Len(devs) <= Len(list)
  <2>1. known = 0 => Len(devs) <= Len(list)
    BY <1>4, <1>5, UpsertList
  <2>2. known # 0 => Len(devs) = Len(list)
    BY <1>4, <1>6, <1>7, LenProperties, ReplaceEntry
  <2> QED
    BY <1>4, <2>1, <2>2
<1> HIDE DEF list, i, found, devs
<1>12. PICK k \in 1 .. Len(list) : at' = [at EXCEPT ![p] = k]
  BY <1>4, <1>9, <1>10, <1>11, LenProperties
<1> QED
  BY <1>2, <1>3, <1>8, <1>10, <1>12, ListChanges

LEMMA SelectKeepsInv ==
  ASSUME Inv, NEW p \in Procs, Select(p)
  PROVE  Inv'
<1>1. CASE Raise(p)
  BY <1>1, CallRaises DEF Select
<1>2. ASSUME NEW i \in 0 .. Len(devices[p]), Selects(p, i),
             at' = [at EXCEPT ![p] = i], GoTo(p, "launch"),
             UNCHANGED <<call, devices, held, todo>>
      PROVE  Inv'
  <2>1. /\ pc[p] \notin Idle /\ UNCHANGED <<file, calls>>
        /\ "launch" \in Steps /\ "launch" \notin Idle /\ "launch" \notin Armed
    BY DEF Select, Idle, Steps, Armed
  <2>2. /\ call[p] \in Calls
        /\ devices[p] \in Seq(Device) /\ AllFit(devices[p])
        /\ calls' \in 0 .. MaxCalls
        /\ file' \in Seq(Device) \cup {None}
        /\ file' # None => AllFit(file')
        /\ todo[p] \in SUBSET Replies
        /\ held[p] \in Opt(Device)
        /\ held[p] # None => TokenFits(held[p])
        /\ call[p].sel = "device" => held[p] # None
    BY <2>1, InvOf DEF Inv, CallInv
  <2>3. i = 0 => held[p] # None
    BY <1>2, <2>2, InvOf DEF Selects
  <2>4. Moves(p, "launch", call[p], devices[p], i, held[p], todo[p])
    BY <1>2, InvOf DEF Moves, GoTo
  <2> QED
    BY <2>1, <2>2, <2>3, <2>4, CallContinues
<1> QED
  BY <1>1, <1>2 DEF Select

-----------------------------------------------------------------------------
LEMMA InitInv == Init => Inv
<1> SUFFICES ASSUME Init PROVE Inv
  OBVIOUS
<1>1. "start" \in Steps /\ "start" \in Idle /\ "start" \notin Working /\ "start" \notin Armed
  BY DEF Steps, Idle, Working, Armed, Saving, AfterSave
<1>2. <<>> \in Seq(Device) /\ Len(<<>>) = 0 /\ AllFit(<<>>)
  BY EmptySeq DEF AllFit
<1>3. TypeOK
  BY <1>1, <1>2, MaxCallsAssumption DEF Init, TypeOK, Opt
<1>4. ASSUME NEW p \in Procs PROVE CallInv(p)
  BY <1>1, <1>2 DEF Init, CallInv
<1> QED
  BY <1>3, <1>4 DEF Inv, Init

LEMMA NextKeepsInv == Inv /\ [Next]_vars => Inv'
<1> SUFFICES ASSUME Inv, [Next]_vars PROVE Inv'
  OBVIOUS
<1>1. CASE UNCHANGED vars
  BY <1>1 DEF vars, Inv, TypeOK, CallInv, Target
<1>2. ASSUME NEW p \in Procs, Begin(p) PROVE Inv'
  BY <1>2, BeginKeepsInv
<1>3. ASSUME NEW p \in Procs, Crash(p) PROVE Inv'
  BY <1>3, CrashKeepsInv
<1>4. ASSUME NEW p \in Procs, Step(p) PROVE Inv'
  <2>1. CASE SaveMigrated(p)
    BY <2>1, SaveMigratedKeepsInv
  <2>2. CASE SaveCache(p)
    BY <2>2, SaveCacheKeepsInv
  <2>3. CASE Finish(p)
    BY <2>3, FinishKeepsInv
  <2>4. CASE ListDevices(p)
    BY <2>4, ListDevicesKeepsInv
  <2>5. CASE Pair(p)
    BY <2>5, PairKeepsInv
  <2>6. CASE Attach(p)
    BY <2>6, AttachKeepsInv
  <2>7. CASE Add(p)
    BY <2>7, AddKeepsInv
  <2>8. CASE Search(p)
    BY <2>8, SearchKeepsInv
  <2>9. CASE Merge(p)
    BY <2>9, MergeKeepsInv
  <2>10. CASE Select(p)
    BY <2>10, SelectKeepsInv
  <2>11. CASE Launch(p)
    BY <2>11, LaunchKeepsInv
  <2>12. CASE Renew(p)
    BY <2>12, RenewKeepsInv
  <2>13. CASE Send(p) \/ Resend(p)
    BY <2>13, SendKeepsInv
  <2>14. CASE Retry(p)
    BY <2>14, RetryKeepsInv
  <2> QED
    BY <1>4, <2>1, <2>2, <2>3, <2>4, <2>5, <2>6, <2>7, <2>8, <2>9, <2>10,
       <2>11, <2>12, <2>13, <2>14 DEF Step
<1> QED
  BY <1>1, <1>2, <1>3, <1>4 DEF Next

\* The invariant behind the two theorems below.
LEMMA Invariance == Spec => []Inv
<1> QED
  BY InitInv, NextKeepsInv, PTL DEF Spec

\* Type correctness of the API: whatever the processes do, the file stays a
\* list of devices and every call works on an entry its list has.
THEOREM TypeCorrect == Spec => []TypeOK
<1>1. Inv => TypeOK
  BY DEF Inv
<1> QED
  BY <1>1, Invariance, PTL

\* Videos are only sent with a token issued for the screen they are sent to,
\* for any number of processes, lost updates and crashes included.
THEOREM TokensFitTheirScreens == Spec => []TokenForItsScreen
<1>1. Inv => TokenForItsScreen
  <2> SUFFICES ASSUME Inv, NEW p \in Procs, pc[p] \in {"send", "resend"}
               PROVE  /\ Target(p).screen # None
                      /\ Target(p).screen.token # None
                      /\ TokenFits(Target(p))
    BY DEF TokenForItsScreen
  <2>1. pc[p] \in Working /\ pc[p] \in Armed
    BY DEF Working, Armed
  <2> QED
    BY <2>1, TargetIsDevice DEF Inv, CallInv
<1> QED
  BY <1>1, Invariance, PTL

-----------------------------------------------------------------------------
(* Where a call is tells what it does.                                      *)

CastSteps == {"launch", "learned", "renew", "renewed", "send", "retry", "retried", "resend"}
Trying == {"retry", "retried", "resend"}

\* Where a call can be, by what it does.
PlaceInv(p) ==
  /\ pc[p] \in Op => call[p].op = pc[p]
  /\ pc[p] \in CastSteps => call[p].op = "cast"
  /\ pc[p] = "merge" => call[p].op = "discover"

LEMMA Places ==
  /\ Op \cap (Idle \cup CastSteps \cup {"merge", "finish", "migrated"}) = {}
  /\ CastSteps \cap (Idle \cup {"merge", "finish", "migrated"}) = {}
  /\ Trying \subseteq CastSteps
  /\ Saving \subseteq CastSteps
  /\ {"merge", "finish", "migrated"} \cap Idle = {}
BY DEF Op, Idle, CastSteps, Trying, Saving, AfterSave

\* How one step of a call moves on.
Onward(p) ==
  /\ pc[p] # "finish" /\ pc'[p] \notin Idle /\ call'[p] = call[p]
  /\ PlaceInv(p)'
  /\ pc[p] = "send" => pc'[p] \in {"retry", "finish"}
  /\ pc'[p] = "retry" => pc[p] = "send"
  /\ pc[p] \in Trying => pc'[p] \in {"retried", "resend", "finish"}
  /\ pc[p] = "resend" => pc'[p] = "finish"
  /\ pc'[p] \in {"retried", "resend"} => pc[p] \in Trying
  /\ pc'[p] = "finish" /\ call[p].op = "cast" => pc[p] \in {"send", "resend"}

Over(p) ==
  /\ pc'[p] \in {"returned", "raised"}
  /\ pc'[p] = "returned" => pc[p] \in {"finish", "devices", "discover"}

LEMMA StepMoves ==
  ASSUME Inv, NEW p \in Procs, PlaceInv(p), Step(p)
  PROVE  /\ \A q \in Procs \ {p} : pc'[q] = pc[q] /\ call'[q] = call[q]
         /\ pc[p] \notin Idle
         /\ Onward(p) \/ Over(p)
<1>0. pc \in [Procs -> Steps] /\ call \in [Procs -> Opt(Calls)]
  BY DEF Inv, TypeOK
<1>1. \A q \in Procs \ {p} : pc'[q] = pc[q] /\ call'[q] = call[q]
  BY <1>0 DEF Step, SaveMigrated, SaveCache, Finish, ListDevices, Pair, Attach, Add, Search,
       Merge, Select, Launch, Renew, Send, Retry, Resend, Delivered, Return, Raise, Forget, GoTo
<1>2. pc[p] \notin Idle
  BY DEF Step, SaveMigrated, SaveCache, Finish, ListDevices, Pair, Attach, Add, Search,
       Merge, Select, Launch, Renew, Send, Retry, Resend, Idle, Saving, AfterSave
<1> SUFFICES Onward(p) \/ Over(p)
  BY <1>1, <1>2
<1>3. CASE Raise(p)
  BY <1>0, <1>3 DEF Raise, GoTo, Over
<1>4. CASE ~ Raise(p)
  <2>1. CASE SaveMigrated(p)
    <3>1. pc'[p] = call[p].op /\ call' = call /\ pc[p] = "migrated"
      BY <1>0, <1>4, <2>1 DEF SaveMigrated, GoTo
    <3>2. call[p].op \in Op
      BY <1>2, InvOf, OpenSteps
    <3> QED
      BY <3>1, <3>2, Places DEF Onward, PlaceInv, Op, Trying, CastSteps, Idle
  <2>2. CASE SaveCache(p)
    <3>1. /\ pc[p] \in {"learned", "renewed", "retried"} /\ call' = call
          /\ pc'[p] = AfterSave[pc[p]]
      BY <1>0, <1>4, <2>2 DEF SaveCache, GoTo, Saving, AfterSave
    <3>2. /\ pc[p] = "learned" => pc'[p] = "renew"
          /\ pc[p] = "renewed" => pc'[p] = "send"
          /\ pc[p] = "retried" => pc'[p] = "resend"
      BY <3>1 DEF AfterSave
    <3> QED
      BY <3>1, <3>2 DEF Onward, PlaceInv, Op, Trying, CastSteps, Idle
  <2>3. CASE Finish(p) \/ ListDevices(p) \/ (\E d \in Opt(Device) : Search(p) /\ Return(p, d))
    BY <1>0, <1>4, <2>3 DEF Finish, ListDevices, Search, Return, GoTo, Over
  <2>4. CASE Search(p) /\ ~ (\E d \in Opt(Device) : Return(p, d))
    <3>1. pc[p] = "discover" /\ pc'[p] = "merge" /\ call' = call
      BY <1>0, <1>4, <2>4 DEF Search, GoTo, Opt
    <3> QED
      BY <3>1 DEF Onward, PlaceInv, Op, Trying, CastSteps, Idle
  <2>5. CASE Pair(p) \/ Attach(p) \/ Add(p)
    <3>1. pc[p] \in {"pair", "attach", "add"} /\ pc'[p] = "finish" /\ call' = call
      BY <1>0, <1>4, <2>5 DEF Pair, Attach, Add, GoTo
    <3> QED
      BY <3>1 DEF Onward, PlaceInv, Op, Trying, CastSteps, Idle
  <2>6. CASE Merge(p)
    <3>1. pc[p] = "merge" /\ pc'[p] \in {"merge", "finish"} /\ call' = call
      BY <1>0, <2>6 DEF Merge, GoTo
    <3> QED
      BY <3>1 DEF Onward, PlaceInv, Op, Trying, CastSteps, Idle
  <2>7. CASE Select(p) \/ Launch(p) \/ Renew(p)
    <3>1. /\ pc[p] \in {"cast", "launch", "renew"} /\ call' = call
          /\ pc'[p] \in {"launch", "learned", "renew", "renewed", "send"}
      BY <1>0, <1>4, <2>7 DEF Select, Launch, Renew, GoTo
    <3> QED
      BY <3>1 DEF Onward, PlaceInv, Op, Trying, CastSteps, Idle
  <2>8. CASE Send(p) \/ Retry(p) \/ Resend(p)
    <3>1. /\ call' = call
          /\ \/ pc[p] = "send" /\ pc'[p] \in {"finish", "retry"}
             \/ pc[p] = "retry" /\ pc'[p] = "retried"
             \/ pc[p] = "resend" /\ pc'[p] = "finish"
      BY <1>0, <1>4, <2>8 DEF Send, Retry, Resend, Delivered, GoTo
    <3> QED
      BY <3>1 DEF Onward, PlaceInv, Op, Trying, CastSteps, Idle
  <2> QED
    BY <2>1, <2>2, <2>3, <2>4, <2>5, <2>6, <2>7, <2>8 DEF Step
<1> QED
  BY <1>3, <1>4

Placed == \A p \in Procs : PlaceInv(p)

LEMMA NextKeepsPlaces == Inv /\ Placed /\ [Next]_vars => Placed'
<1> SUFFICES ASSUME Inv, Placed, [Next]_vars PROVE Placed'
  OBVIOUS
<1>0. pc \in [Procs -> Steps] /\ call \in [Procs -> Opt(Calls)]
  BY DEF Inv, TypeOK
<1>1. CASE UNCHANGED vars
  BY <1>1 DEF vars, Placed, PlaceInv
<1>2. ASSUME NEW p \in Procs, Begin(p) \/ Step(p) \/ Crash(p) PROVE Placed'
  <2>1. CASE Step(p)
    <3>1. /\ \A q \in Procs \ {p} : pc'[q] = pc[q] /\ call'[q] = call[q]
          /\ Onward(p) \/ Over(p)
      BY <2>1, StepMoves DEF Placed
    <3>2. PlaceInv(p)'
      BY <3>1, Places DEF Onward, Over, PlaceInv, Idle
    <3> QED
      BY <3>1, <3>2 DEF Placed, PlaceInv
  <2>2. CASE Begin(p)
    <3>1. PICK c \in Calls : /\ call' = [call EXCEPT ![p] = c]
                             /\ GoTo(p, c.op) \/ GoTo(p, "migrated")
      BY <2>2 DEF Begin
    <3>2. c.op \in Op
      BY OpenSteps
    <3>3. PlaceInv(p)'
      BY <1>0, <3>1, <3>2, Places DEF GoTo, PlaceInv
    <3> QED
      BY <1>0, <3>1, <3>3 DEF Placed, PlaceInv, GoTo
  <2>3. CASE Crash(p)
    <3>1. PlaceInv(p)'
      BY <1>0, <2>3, Places DEF Crash, GoTo, Forget, PlaceInv, Idle
    <3> QED
      BY <1>0, <2>3, <3>1 DEF Placed, PlaceInv, Crash, GoTo, Forget
  <2> QED
    BY <1>2, <2>1, <2>2, <2>3
<1> QED
  BY <1>1, <1>2 DEF Next

LEMMA InitPlaces == Init => Placed
BY DEF Init, Placed, PlaceInv, Op, CastSteps

LEMMA Placing == Spec => []Placed
BY InitPlaces, NextKeepsPlaces, Invariance, PTL DEF Spec

-----------------------------------------------------------------------------
(* Calls that name devices by strings, or not at all, work on entries of    *)
(* the list they loaded, never on a detached object.                        *)

Indexed == \A p \in Procs : pc[p] \in Working => at[p] # 0

LEMMA NextKeepsIndexed ==
  ASSUME \A c \in Calls : c.sel # "device", Inv, Indexed, [Next]_vars
  PROVE  Indexed'
<1> USE DEF Indexed
<1>1. CASE UNCHANGED vars
  BY <1>1 DEF vars
<1>2. ASSUME NEW p \in Procs, Begin(p) \/ Step(p) \/ Crash(p) PROVE Indexed'
  <2>1. \A q \in Procs \ {p} : pc'[q] = pc[q] /\ at'[q] = at[q]
    BY <1>2 DEF Inv, TypeOK, Begin, Step, Crash, SaveMigrated, SaveCache, Finish, ListDevices,
                Pair, Attach, Add, Search, Merge, Select, Launch, Renew, Send, Retry, Resend,
                Delivered, Return, Raise, Forget, GoTo
  <2> SUFFICES ASSUME pc'[p] \in Working PROVE at'[p] # 0
    BY <2>1
  <2>2. pc[p] \in Steps /\ at[p] \in Nat
    BY DEF Inv, TypeOK
  <2>3. CASE Begin(p) \/ Crash(p)
    <3>1. pc'[p] \in Op \cup {"migrated", "start"}
      BY <1>2, <2>3, OpenSteps DEF Begin, Crash, GoTo, Inv, TypeOK
    <3> QED
      BY <3>1, OpenSteps DEF Working, Saving, AfterSave
  <2>4. CASE Raise(p) \/ (\E d \in Opt(Device) : Return(p, d)) \/ Finish(p) \/ ListDevices(p)
             \/ Search(p) \/ SaveMigrated(p)
    <3>1. pc'[p] \in Op \cup {"raised", "returned", "merge"}
      BY <2>4, InvOf, OpenSteps DEF Raise, Return, Finish, ListDevices, Search, SaveMigrated,
                                   GoTo, Inv, TypeOK, Idle
    <3> QED
      BY <3>1, OpenSteps DEF Working, Saving, AfterSave
  <2>5. CASE SaveCache(p) \/ Launch(p) \/ Renew(p) \/ Send(p) \/ Retry(p) \/ Resend(p)
    <3>1. CASE Raise(p)
      BY <2>4, <3>1
    <3>2. CASE ~ Raise(p)
      <4>1. at' = at
        BY <2>5, <3>2 DEF SaveCache, Launch, Renew, Send, Retry, Resend, Delivered
      <4>2. pc[p] \in Working
        BY <2>5 DEF SaveCache, Launch, Renew, Send, Retry, Resend, Working
      <4> QED
        BY <4>1, <4>2
    <3> QED
      BY <3>1, <3>2
  <2>6. CASE Select(p) \/ Attach(p)
    <3>1. CASE Raise(p)
      BY <2>4, <3>1
    <3>2. CASE ~ Raise(p)
      <4>1. call[p] \in Calls
        BY <2>6, InvOf DEF Select, Attach, Idle
      <4>2. PICK i \in 0 .. Len(devices[p]) : Selects(p, i) /\ at' = [at EXCEPT ![p] = i]
        BY <2>6, <3>2 DEF Select, Attach
      <4>3. i # 0
        BY <4>1, <4>2, InvOf DEF Selects
      <4> QED
        BY <4>2, <4>3 DEF Inv, TypeOK
    <3> QED
      BY <3>1, <3>2
  <2>7. CASE Pair(p) \/ Add(p) \/ Merge(p)
    <3>1. CASE Raise(p)
      BY <2>4, <3>1
    <3>2. CASE ~ Raise(p)
      <4>1. /\ devices[p] \in Seq(Device) /\ Len(devices[p]) \in Nat
            /\ at \in [Procs -> Nat]
        BY InvOf DEF Inv, TypeOK
      <4>2. CASE Pair(p)
        <5>1. PICK token \in Token :
                at' = [at EXCEPT ![p] =
                         IF Find(devices[p], token.screen) = 0
                           THEN UpsertAt(devices[p],
                                         NewDevice([id |-> token.screen, token |-> token],
                                                   None, None, None, None))
                           ELSE Find(devices[p], token.screen)]
          BY <3>2, <4>2 DEF Pair
        <5> QED
          BY <4>1, <5>1, UpsertAtIsIndex
      <4>3. CASE Add(p)
        <5> DEFINE new == NewDevice(None, call[p].backend, call[p].address,
                                    call[p].usn, call[p].uuid)
                   k   == IF Identity(new) = None THEN 0
                          ELSE FindService(devices[p], Identity(new))
        <5>1. at' = [at EXCEPT ![p] = IF k # 0 THEN k ELSE UpsertAt(devices[p], new)]
          BY <4>3, <4>1 DEF Add
        <5>2. UpsertAt(devices[p], new) # 0
          BY <4>1, UpsertAtIsIndex
        <5> HIDE DEF k, new
        <5> QED
          BY <4>1, <5>1, <5>2
      <4>4. CASE Merge(p)
        <5>1. PICK r \in todo[p] :
                \/ at' = [at EXCEPT ![p] =
                            LET known == IF r.usn = None THEN 0 ELSE FindService(devices[p], r.usn)
                                fresh == NewDevice(None, "dial", r.address, r.usn, None)
                            IN  IF known = 0 THEN UpsertAt(devices[p], fresh) ELSE known]
                \/ at[p] # 0 /\ at' = at
          BY <4>4 DEF Merge
        <5> DEFINE new == NewDevice(None, "dial", r.address, r.usn, None)
        <5>2. UpsertAt(devices[p], new) # 0
          BY <4>1, UpsertAtIsIndex
        <5> HIDE DEF new
        <5>3. CASE at[p] # 0 /\ at' = at
          BY <5>3
        <5>4. CASE ~ (at[p] # 0 /\ at' = at)
          BY <4>1, <5>1, <5>2, <5>4 DEF new
        <5> QED
          BY <5>3, <5>4
      <4> QED
        BY <2>7, <4>2, <4>3, <4>4
    <3> QED
      BY <3>1, <3>2
  <2> QED
    BY <1>2, <2>3, <2>4, <2>5, <2>6, <2>7 DEF Step
<1> QED
  BY <1>1, <1>2 DEF Next

LEMMA OthersStay ==
  ASSUME Inv, NEW p \in Procs, Begin(p) \/ Step(p) \/ Crash(p)
  PROVE  Others(p)
BY DEF Inv, TypeOK, Others, Begin, Step, Crash, SaveMigrated, SaveCache, Finish, ListDevices,
       Pair, Attach, Add, Search, Merge, Select, Launch, Renew, Send, Retry, Resend, Refresh,
       SetTarget, Delivered, Return, Raise, Forget, GoTo

\* A call that returns after its last save has just saved its list.
LEMMA SavesAreFinishes ==
  ASSUME Inv, NEW p \in Procs, Saves(p), [Next]_vars
  PROVE  file' = devices[p] /\ Return(p, Target(p))
<1>1. Finish(p)
  <2>1. PICK q \in Procs : Begin(q) \/ Step(q) \/ Crash(q)
    BY DEF Next, Saves, vars
  <2>2. q = p
    BY <2>1, OthersStay DEF Saves, Others
  <2>3. pc[p] = "finish" /\ pc'[p] # "start"
    BY DEF Saves
  <2>4. ~ Begin(p) /\ ~ Crash(p)
    BY <2>3 DEF Begin, Crash, GoTo, Idle, Inv, TypeOK
  <2> QED
    BY <2>1, <2>2, <2>3, <2>4 DEF Step, SaveMigrated, SaveCache, ListDevices, Pair, Attach,
         Add, Search, Merge, Select, Launch, Renew, Send, Retry, Resend, Saving, AfterSave
<1> QED
  BY <1>1 DEF Finish, Saves, Raise, GoTo, Inv, TypeOK

\* Without Device objects as arguments, what a call returns is what the file
\* then says, with any number of processes.
THEOREM ReturnedObjectsAreSaved ==
  ASSUME \A c \in Calls : c.sel # "device"
  PROVE  Spec => ReturnedIsSaved
<1>1. Init => Indexed
  BY DEF Init, Indexed, Working, Saving, AfterSave
<1>2. ASSUME Inv, Indexed, [Next]_vars
      PROVE  [\A p \in Procs : Saves(p) => \E i \in DOMAIN file' : file'[i] = held'[p]]_vars
  <2> SUFFICES ASSUME NEW p \in Procs, Saves(p), Next
               PROVE  \E i \in DOMAIN file' : file'[i] = held'[p]
    BY <1>2 DEF Saves, vars
  <2>2. file' = devices[p] /\ Return(p, Target(p))
    BY <1>2, SavesAreFinishes
  <2>3. at[p] # 0
    BY <1>2 DEF Indexed, Saves, Working
  <2>4. held'[p] = devices[p][at[p]] /\ at[p] \in DOMAIN devices[p]
    BY <1>2, <2>2, <2>3, InvOf DEF Return, Target, Inv, TypeOK
  <2> QED
    BY <2>2, <2>4
<1> QED
  BY <1>1, <1>2, Invariance, NextKeepsIndexed, PTL DEF Spec, ReturnedIsSaved

-----------------------------------------------------------------------------
(* With one process, what a cast is about to use is on disk.                *)

Casting == {"cast", "launch", "renew", "send", "retry", "resend"}

\* The file holds the screens of the list, unless there was nothing to load.
SameScreens(list) ==
  list # <<>> =>
    /\ file # None /\ DOMAIN file = DOMAIN list
    /\ \A i \in DOMAIN list : file[i].screen = list[i].screen

OnDisk == \A p \in Procs : pc[p] \in Casting => SameScreens(devices[p])

LEMMA NextKeepsOnDisk ==
  ASSUME \A c \in Calls : c.sel # "device", \A p, q \in Procs : p = q,
         Inv, Indexed, OnDisk, [Next]_vars
  PROVE  OnDisk'
<1>1. CASE UNCHANGED vars
  BY <1>1 DEF vars, OnDisk, SameScreens
<1>2. ASSUME NEW p \in Procs, Begin(p) \/ Step(p) \/ Crash(p), pc'[p] \in Casting
      PROVE  SameScreens(devices[p])'
  <2>0. /\ pc \in [Procs -> Steps] /\ devices \in [Procs -> Seq(Device)]
        /\ pc[p] \in Casting => SameScreens(devices[p])
    BY DEF Inv, TypeOK, OnDisk
  <2>1. CASE Begin(p)
    <3>1. \/ file # None /\ devices'[p] = file /\ file' = file
          \/ devices'[p] = Ytcast /\ (Ytcast # <<>> => pc'[p] = "migrated")
      BY <2>0, <2>1 DEF Begin, GoTo
    <3> QED
      BY <1>2, <3>1 DEF SameScreens, Casting
  <2>2. CASE SaveMigrated(p) \/ SaveCache(p)
    <3>1. file' = devices[p] /\ devices' = devices
      BY <1>2, <2>0, <2>2 DEF SaveMigrated, SaveCache, Raise, GoTo, Casting
    <3>2. devices[p] # None
      BY <2>0, FileAssumption
    <3> QED
      BY <3>1, <3>2 DEF SameScreens
  <2>3. CASE Select(p) \/ Send(p)
    <3>1. pc[p] \in Casting /\ UNCHANGED <<file, devices>>
      BY <1>2, <2>0, <2>3 DEF Select, Send, Raise, GoTo, Casting, Delivered
    <3> QED
      BY <2>0, <3>1 DEF SameScreens
  <2>4. CASE Launch(p)
    <3>1. PICK d \in Launched(Target(p)) : SetTarget(p, d) /\ d.screen = Target(p).screen
      BY <1>2, <2>0, <2>4 DEF Launch, Raise, GoTo, Casting
    <3>2. pc[p] \in Casting /\ at[p] # 0 /\ file' = file
      BY <2>4 DEF Launch, Casting, Indexed, Working
    <3>3. /\ devices'[p] = [devices[p] EXCEPT ![at[p]] = d]
          /\ d.screen = devices[p][at[p]].screen
      BY <2>0, <3>1, <3>2 DEF SetTarget, Target
    <3>4. at[p] \in DOMAIN devices[p]
      BY <3>2, InvOf
    <3> QED
      BY <2>0, <3>2, <3>3, <3>4 DEF SameScreens
  <2>5. CASE Renew(p)
    <3>1. pc[p] \in Casting /\ UNCHANGED <<file, devices>>
      BY <1>2, <2>0, <2>5 DEF Renew, Raise, GoTo, Casting
    <3> QED
      BY <2>0, <3>1 DEF SameScreens
  <2>6. ~ (Finish(p) \/ ListDevices(p) \/ Pair(p) \/ Attach(p) \/ Add(p) \/ Search(p) \/ Merge(p)
           \/ Retry(p) \/ Resend(p) \/ Crash(p))
    BY <1>2, <2>0 DEF Finish, ListDevices, Pair, Attach, Add, Search, Merge, Retry, Resend, Crash,
                      Delivered, Return, Raise, GoTo, Casting
  <2> QED
    BY <1>2, <2>1, <2>2, <2>3, <2>4, <2>5, <2>6 DEF Step
<1> QED
  BY <1>1, <1>2 DEF Next, OnDisk

\* As long as one process uses the file and callers pass no Device objects, a
\* screen and a token are on disk before a request uses them.
THEOREM TokensAreOnDisk ==
  ASSUME \A c \in Calls : c.sel # "device", \A p, q \in Procs : p = q
  PROVE  Spec => []TokenSavedBeforeUse
<1>1. Init => Indexed /\ OnDisk
  BY DEF Init, Indexed, OnDisk, Casting, Working, Saving, AfterSave
<1>2. ASSUME Inv, Indexed, OnDisk PROVE TokenSavedBeforeUse
  <2> SUFFICES ASSUME NEW p \in Procs, pc[p] \in {"send", "resend"}
               PROVE  file # None /\ at[p] \in DOMAIN file /\ file[at[p]].screen = Target(p).screen
    BY DEF TokenSavedBeforeUse
  <2>1. at[p] # 0 /\ at[p] \in DOMAIN devices[p] /\ devices[p] # <<>>
    BY <1>2, InvOf, EmptySeq DEF Indexed, Working
  <2> QED
    BY <1>2, <2>1 DEF OnDisk, Casting, SameScreens, Target
<1> QED
  BY <1>1, <1>2, Invariance, NextKeepsIndexed, NextKeepsOnDisk, PTL DEF Spec
-----------------------------------------------------------------------------
(* What a step does to a list of devices: it appends an entry, or edits one,
   or flags the default, or leaves the list to another one.                 *)

\* An entry that is new to the list of p.
Fresh(p, d) ==
  /\ ~d.last_used
  /\ Identity(d) # None => \A i \in DOMAIN devices[p] : Identity(devices[p][i]) # Identity(d)
  /\ d.backend = "cast" =>
       /\ call[p].op = "add" /\ call[p].backend = "cast"
       /\ call[p].usn # None \/ call[p].uuid # None => Identity(d) # None

\* What p's step may make of an entry.
Edited(p, old, new) ==
  /\ new.last_used = old.last_used
  /\ old.backend # None => new.backend # None
  /\ old.screen # None =>
       /\ new.screen # None
       /\ \/ new.screen.id = old.screen.id
          \/ pc[p] = "launch" /\ old.backend \in {"dial", "cast"}
  /\ pc[p] \in CastSteps \cup {"cast"} => new.backend = old.backend
  /\ IF pc[p] = "attach"
       THEN new = Attached(old, call[p]) /\ call[p].op = "attach" /\ call[p].sel # "device"
       ELSE /\ old.usn # None => new.usn = old.usn
            /\ \/ Identity(new) = Identity(old)
               \/ Identity(old) = None /\ old.backend = "cast"
            /\ new.backend = "cast" => old.backend = "cast" \/ Identity(new) # None

\* The list after p's step, its flags aside.
Lists(p, list) ==
  \/ list = devices[p]
  \/ \E d \in Device : Fresh(p, d) /\ list = Append(devices[p], d)
  \/ \E i \in DOMAIN devices[p], d \in Device :
       Edited(p, devices[p][i], d) /\ list = [devices[p] EXCEPT ![i] = d]

\* The list with the target of the call as its default.
Marks(p, list) ==
  /\ pc[p] \in {"pair", "send", "resend"} /\ pc'[p] = "finish"
  /\ at'[p] # 0 => at'[p] \in DOMAIN list /\ list[at'[p]].screen # None
  /\ devices'[p] = SetLastUsed(list, at'[p], IF at'[p] = 0 THEN held[p] ELSE list[at'[p]])

Opens(p) ==
  /\ pc[p] \in Idle /\ pc'[p] \notin Idle \cup {"finish"}
  /\ file' = file
  /\ devices'[p] = IF file # None THEN file ELSE Ytcast

Writes(p) ==
  /\ pc[p] \in Saving \cup {"migrated"} /\ pc'[p] \notin Idle \cup {"finish"}
  /\ file' = devices[p] /\ devices'[p] = devices[p]

Works(p) ==
  /\ pc[p] \notin Idle /\ pc'[p] \notin Idle
  /\ file' = file
  /\ pc'[p] \in CastSteps \cup {"cast"} => pc[p] \in CastSteps \cup {"cast"}
  /\ \E list \in Seq(Device) :
       /\ Lists(p, list)
       /\ \/ devices'[p] = list /\ (pc'[p] = "finish" => pc[p] \in {"attach", "add", "merge"})
          \/ Marks(p, list)

Closes(p) ==
  /\ pc'[p] \in Idle
  /\ file' = file \/ (pc[p] = "finish" /\ file' = devices[p])
  /\ devices'[p] = <<>>

\* An edit of the entry at i is a step of this kind.
LEMMA EditWorks ==
  ASSUME Inv, NEW p \in Procs, pc[p] \notin Idle, UNCHANGED file,
         NEW step \in Steps \ Idle, GoTo(p, step),
         step = "finish" => pc[p] \in {"attach", "add", "merge"},
         step \in CastSteps \cup {"cast"} => pc[p] \in CastSteps \cup {"cast"},
         NEW i \in DOMAIN devices[p], NEW d \in Device, Edited(p, devices[p][i], d),
         devices' = [devices EXCEPT ![p] = [devices[p] EXCEPT ![i] = d]]
  PROVE  Works(p)
<1> DEFINE list == [devices[p] EXCEPT ![i] = d]
<1>1. list \in Seq(Device)
  BY InvOf, ReplaceEntry
<1>2. pc'[p] = step /\ devices'[p] = list
  BY DEF Inv, TypeOK, GoTo
<1>3. Lists(p, list)
  BY DEF Lists
<1> HIDE DEF list
<1> QED
  BY <1>1, <1>2, <1>3 DEF Works

\* A step that moves on within a call and leaves its list alone.
LEMMA MoveWorks ==
  ASSUME Inv, NEW p \in Procs, pc[p] \notin Idle, UNCHANGED <<file, devices>>,
         NEW step \in Steps \ (Idle \cup {"finish"}), GoTo(p, step),
         step \in CastSteps \cup {"cast"} => pc[p] \in CastSteps \cup {"cast"}
  PROVE  Works(p)
<1>1. devices[p] \in Seq(Device) /\ pc'[p] = step /\ devices'[p] = devices[p]
  BY DEF Inv, TypeOK, GoTo
<1> QED
  BY <1>1 DEF Works, Lists

LEMMA PairWorks ==
  ASSUME Inv, NEW p \in Procs, Pair(p)
  PROVE  Works(p) \/ Raise(p)
<1>1. SUFFICES ASSUME ~ Raise(p) PROVE Works(p)
  OBVIOUS
<1> DEFINE devs == devices[p]
<1>2. PICK token \in Token :
        LET screen == [id |-> token.screen, token |-> token]
            known  == Find(devices[p], screen.id)
            fresh  == NewDevice(screen, None, None, None, None)
            i      == IF known = 0 THEN UpsertAt(devices[p], fresh) ELSE known
            list   == IF known = 0 THEN Upsert(devices[p], fresh)
                      ELSE [devices[p] EXCEPT ![known].screen = screen]
        IN  /\ devices' = [devices EXCEPT ![p] = SetLastUsed(list, i, list[i])]
            /\ at' = [at EXCEPT ![p] = i]
            /\ GoTo(p, "finish")
  BY <1>1 DEF Pair
<1> DEFINE screen == [id |-> token.screen, token |-> token]
           known  == Find(devs, screen.id)
           fresh  == NewDevice(screen, None, None, None, None)
           i      == IF known = 0 THEN UpsertAt(devs, fresh) ELSE known
           list   == IF known = 0 THEN Upsert(devs, fresh)
                     ELSE [devs EXCEPT ![known].screen = screen]
<1>3. /\ devices'[p] = SetLastUsed(list, i, list[i]) /\ at'[p] = i /\ pc'[p] = "finish"
      /\ pc[p] = "pair" /\ pc'[p] \notin Idle /\ pc[p] \notin Idle /\ file' = file
      /\ pc'[p] \notin CastSteps \cup {"cast"}
      /\ devs \in Seq(Device) /\ DOMAIN devs = 1 .. Len(devs) /\ Len(devs) \in Nat
  BY <1>2, InvOf DEF Pair, GoTo, Inv, TypeOK, Idle, CastSteps
<1>4. screen \in Screen /\ screen # None /\ screen.id = token.screen
  BY NoneAssumption DEF Screen, Token, Opt
<1>5. fresh \in Device /\ fresh.screen = screen /\ Identity(fresh) = None /\ ~fresh.last_used
      /\ fresh.backend # "cast"
  BY <1>4, NoneAssumption DEF NewDevice, Device, Opt, Identity, Backend
<1> HIDE DEF screen, fresh
<1>6. /\ list \in Seq(Device) /\ Lists(p, list)
      /\ i # 0 /\ i \in DOMAIN list /\ list[i].screen # None
  <2>1. CASE known = 0
    <3>1. ASSUME NEW j \in DOMAIN devs PROVE ~Same(devs[j], fresh)
      BY <1>3, <1>4, <1>5, <2>1, FindFinds DEF Same
    <3>2. list = Append(devs, fresh) /\ i = Len(devs) + 1
      BY <1>3, <2>1, <3>1, UpsertAppends
    <3> HIDE DEF list, i, devs
    <3>3. list \in Seq(Device) /\ i \in DOMAIN list /\ list[i] = fresh /\ i # 0
      BY <1>3, <1>5, <3>2, AppendEntry
    <3>4. Fresh(p, fresh)
      BY <1>5 DEF Fresh
    <3> QED
      BY <1>4, <1>5, <3>2, <3>3, <3>4 DEF Lists, devs
  <2>2. CASE known # 0
    <3>1. known \in DOMAIN devs /\ devs[known].screen # None /\ devs[known].screen.id = screen.id
      BY <1>3, <2>2, FindFinds
    <3>2. devs[known] \in Device
      BY <3>1, InvOf
    <3> DEFINE d == [devs[known] EXCEPT !.screen = screen]
    <3>3. d \in Device /\ d.screen = screen
      BY <1>4, <3>2 DEF Device, Opt
    <3>4. Edited(p, devs[known], d)
      BY <1>3, <1>4, <3>1, <3>2, <3>3 DEF Edited, Identity, Device
    <3>5. list = [devs EXCEPT ![known] = d] /\ i = known
      BY <2>2
    <3> HIDE DEF d, list, known, i
    <3>6. list \in Seq(Device) /\ Len(list) = Len(devs) /\ list[known] = d
      BY <1>3, <3>1, <3>3, <3>5, ReplaceEntry
    <3>7. DOMAIN list = DOMAIN devs
      BY <3>5
    <3> QED
      BY <1>4, <2>2, <3>1, <3>3, <3>4, <3>5, <3>6, <3>7 DEF Lists
  <2> QED
    BY <2>1, <2>2
<1> HIDE DEF list, i
<1>7. Marks(p, list)
  BY <1>3, <1>6 DEF Marks
<1> QED
  BY <1>3, <1>6, <1>7 DEF Works

LEMMA AttachWorks ==
  ASSUME Inv, NEW p \in Procs, PlaceInv(p), Attach(p)
  PROVE  Works(p) \/ Raise(p)
<1>1. SUFFICES ASSUME ~ Raise(p) PROVE Works(p)
  OBVIOUS
<1>2. /\ pc[p] = "attach" /\ pc[p] \notin Idle /\ file' = file
      /\ call[p] \in Call /\ call[p].op = "attach"
  BY InvOf DEF Attach, Idle, PlaceInv, Op
<1>3. PICK i \in 0 .. Len(devices[p]) :
        LET d == Attached(IF i = 0 THEN held[p] ELSE devices[p][i], call[p])
        IN  /\ Selects(p, i)
            /\ at' = [at EXCEPT ![p] = i]
            /\ IF i = 0
                 THEN held' = [held EXCEPT ![p] = d] /\ UNCHANGED devices
                 ELSE devices' = [devices EXCEPT ![p][i] = d] /\ UNCHANGED held
            /\ GoTo(p, "finish")
  BY <1>1 DEF Attach
<1>4. "finish" \in Steps \ Idle /\ "finish" \notin CastSteps \cup {"cast"}
  BY DEF Steps, Idle, CastSteps
<1>5. CASE i = 0
  <2>1. devices[p] \in Seq(Device) /\ devices'[p] = devices[p] /\ pc'[p] = "finish"
    BY <1>3, <1>5 DEF Inv, TypeOK, GoTo
  <2> QED
    BY <1>2, <1>4, <2>1 DEF Works, Lists
<1>6. CASE i # 0
  <2> DEFINE d == Attached(devices[p][i], call[p])
  <2>1. i \in DOMAIN devices[p] /\ devices[p][i] \in Device
    BY <1>6, InvOf
  <2>2. d \in Device
    BY <1>2, <2>1, AttachedIsDevice
  <2>3. call[p].sel # "device"
    BY <1>3, <1>6 DEF Selects
  <2>4. Edited(p, devices[p][i], d)
    <3>1. d.last_used = devices[p][i].last_used /\ d.screen = devices[p][i].screen
          /\ d.backend = call[p].backend
      BY <2>1 DEF Attached, Device
    <3>2. d.backend # None
      BY <1>2, <3>1, NoneAssumption DEF Call
    <3> HIDE DEF d
    <3> QED
      BY <1>2, <2>3, <3>1, <3>2 DEF Edited, CastSteps, d
  <2>5. devices' = [devices EXCEPT ![p] = [devices[p] EXCEPT ![i] = d]]
    BY <1>3, <1>6 DEF Inv, TypeOK
  <2> HIDE DEF d
  <2> QED
    BY <1>2, <1>3, <1>4, <2>1, <2>2, <2>4, <2>5, EditWorks
<1> QED
  BY <1>5, <1>6

\* A device without a screen that no entry shares an identity with is appended.
LEMMA FreshWorks ==
  ASSUME Inv, NEW p \in Procs, pc[p] \in {"add", "merge"}, UNCHANGED file,
         NEW step \in {"merge", "finish"}, GoTo(p, step),
         NEW d \in Device, d.screen = None, Fresh(p, d),
         devices' = [devices EXCEPT ![p] = Upsert(devices[p], d)]
  PROVE  Works(p)
<1>1. devices[p] \in Seq(Device)
  BY InvOf
<1>2. ASSUME NEW j \in DOMAIN devices[p] PROVE ~Same(devices[p][j], d)
  BY DEF Same, Fresh
<1>3. devices'[p] = Append(devices[p], d) /\ devices'[p] \in Seq(Device)
  <2>1. devices'[p] = Upsert(devices[p], d)
    BY DEF Inv, TypeOK
  <2>2. Upsert(devices[p], d) = Append(devices[p], d)
    BY <1>1, <1>2, UpsertAppends
  <2>3. Append(devices[p], d) \in Seq(Device)
    BY <1>1, AppendEntry
  <2> QED
    BY <2>1, <2>2, <2>3
<1>4. pc'[p] = step /\ step \notin Idle \cup CastSteps \cup {"cast"} /\ pc[p] \notin Idle
  BY DEF Inv, TypeOK, GoTo, Idle, CastSteps
<1>5. Lists(p, devices'[p])
  BY <1>3 DEF Lists
<1> QED
  BY <1>3, <1>4, <1>5 DEF Works

LEMMA AddWorks ==
  ASSUME Inv, NEW p \in Procs, PlaceInv(p), Add(p)
  PROVE  Works(p)
<1> DEFINE c     == call[p]
           fresh == NewDevice(None, c.backend, c.address, c.usn, c.uuid)
           known == IF Identity(fresh) = None THEN 0
                    ELSE FindService(devices[p], Identity(fresh))
<1>1. /\ pc[p] = "add" /\ pc[p] \notin Idle /\ file' = file /\ GoTo(p, "finish")
      /\ c \in Call /\ c.op = "add"
      /\ devices[p] \in Seq(Device)
      /\ "finish" \in Steps \ Idle /\ "finish" \notin CastSteps \cup {"cast"}
      /\ pc[p] \notin CastSteps \cup {"cast"}
  BY InvOf DEF Add, Idle, PlaceInv, Op, Steps, CastSteps
<1>2. fresh \in Device /\ fresh.screen = None /\ ~fresh.last_used
      /\ fresh.backend = c.backend /\ Identity(fresh) = Identity(c)
  BY <1>1 DEF NewDevice, Device, Call, Opt, Identity
<1>3. CASE known = 0
  <2>1. devices' = [devices EXCEPT ![p] = Upsert(devices[p], fresh)]
    BY <1>3 DEF Add, Inv, TypeOK
  <2>2. Identity(fresh) # None =>
          \A i \in DOMAIN devices[p] : Identity(devices[p][i]) # Identity(fresh)
    BY <1>1, <1>3, FindServiceFinds
  <2>3. c.usn # None \/ c.uuid # None => Identity(c) # None
    BY DEF Identity
  <2> HIDE DEF fresh
  <2>4. Fresh(p, fresh)
    BY <1>1, <1>2, <2>2, <2>3 DEF Fresh
  <2> HIDE DEF known, c
  <2> QED
    BY <1>1, <1>2, <2>1, <2>4, FreshWorks
<1>4. CASE known # 0
  <2> DEFINE old == devices[p][known]
             d   == Attached(old, c)
  <2>1. known \in DOMAIN devices[p] /\ Identity(old) = Identity(fresh) /\ Identity(fresh) # None
    BY <1>1, <1>4, FindServiceFinds
  <2>2. devices' = [devices EXCEPT ![p] = [devices[p] EXCEPT ![known] = d]]
    BY <1>4 DEF Add, Inv, TypeOK
  <2>3. old \in Device
    BY <2>1, InvOf
  <2>4. d \in Device
    BY <1>1, <2>3, AttachedIsDevice
  <2>5. /\ d.last_used = old.last_used /\ d.screen = old.screen
        /\ d.usn = Updated(old.usn, c.usn) /\ d.uuid = Updated(old.uuid, c.uuid)
        /\ d.backend = c.backend
    BY <2>3 DEF Attached, Device
  <2>6. c.usn \in Opt(Usn) /\ c.uuid \in Opt(Uuid) /\ old.usn \in Opt(Usn) /\ old.uuid \in Opt(Uuid)
        /\ c.backend # None
    BY <1>1, <2>3, NoneAssumption DEF Call, Device
  <2>7. (old.usn # None => d.usn = old.usn) /\ Identity(d) = Identity(old)
    BY <1>2, <2>1, <2>5, <2>6, IdentityAssumption, NoneAssumption DEF Identity, Updated, Opt
  <2> HIDE DEF d, old, known, fresh, c
  <2>8. Edited(p, old, d)
    BY <1>1, <2>1, <2>5, <2>6, <2>7 DEF Edited
  <2> QED
    BY <1>1, <2>1, <2>2, <2>4, <2>8, EditWorks DEF old
<1> QED
  BY <1>3, <1>4

LEMMA MergeWorks ==
  ASSUME Inv, NEW p \in Procs, Merge(p)
  PROVE  Works(p)
<1>1. PICK r \in todo[p] :
        LET known == IF r.usn = None THEN 0 ELSE FindService(devices[p], r.usn)
            fresh == NewDevice(None, "dial", r.address, r.usn, None)
        IN  /\ devices' =
                 [devices EXCEPT ![p] =
                    IF known = 0 THEN Upsert(devices[p], fresh)
                    ELSE [devices[p] EXCEPT ![known].address = r.address,
                                            ![known].backend = "dial"]]
            /\ GoTo(p, IF todo[p] = {r} THEN "finish" ELSE "merge")
  BY DEF Merge, Inv, TypeOK
<1> DEFINE known == IF r.usn = None THEN 0 ELSE FindService(devices[p], r.usn)
           fresh == NewDevice(None, "dial", r.address, r.usn, None)
           step  == IF todo[p] = {r} THEN "finish" ELSE "merge"
<1>2. /\ pc[p] = "merge" /\ pc[p] \notin Idle /\ file' = file /\ GoTo(p, step)
      /\ r.usn \in Opt(Usn) /\ r.address \in Address
      /\ devices[p] \in Seq(Device)
      /\ step \in {"merge", "finish"} /\ {"merge", "finish"} \subseteq Steps \ Idle
      /\ step \notin CastSteps \cup {"cast"} /\ pc[p] \notin CastSteps \cup {"cast"}
  BY <1>1, InvOf, RepliesAssumption DEF Merge, Idle, Steps, CastSteps, Reply
<1>3. fresh \in Device /\ fresh.screen = None /\ ~fresh.last_used
      /\ fresh.backend = "dial" /\ Identity(fresh) = r.usn
  BY <1>2 DEF NewDevice, Device, Opt, Identity, Backend
<1>4. CASE known = 0
  <2>1. devices' = [devices EXCEPT ![p] = Upsert(devices[p], fresh)]
    BY <1>1, <1>4
  <2>2. Identity(fresh) # None =>
          \A i \in DOMAIN devices[p] : Identity(devices[p][i]) # Identity(fresh)
    BY <1>2, <1>3, <1>4, FindServiceFinds
  <2> HIDE DEF fresh, step, known
  <2>3. Fresh(p, fresh)
    BY <1>3, <2>2 DEF Fresh
  <2> QED
    BY <1>2, <1>3, <2>1, <2>3, FreshWorks
<1>5. CASE known # 0
  <2> DEFINE old == devices[p][known]
             d   == [old EXCEPT !.address = r.address, !.backend = "dial"]
  <2>1. known \in DOMAIN devices[p] /\ Identity(old) = r.usn /\ r.usn # None
    BY <1>2, <1>5, FindServiceFinds
  <2>2. old \in Device
    BY <2>1, InvOf
  <2>3. devices' = [devices EXCEPT ![p] = [devices[p] EXCEPT ![known] = d]]
    BY <1>1, <1>5, <2>1
  <2>4. /\ d \in Device /\ d.last_used = old.last_used /\ d.screen = old.screen
        /\ d.usn = old.usn /\ d.uuid = old.uuid /\ d.backend = "dial"
    BY <1>2, <2>2 DEF Device, Opt, Backend
  <2>5. Identity(d) = Identity(old)
    BY <2>4 DEF Identity
  <2> HIDE DEF d, old, known, fresh, step
  <2>6. Edited(p, old, d)
    BY <1>2, <2>4, <2>5, NoneAssumption DEF Edited, Backend
  <2>7. step = "finish" => pc[p] \in {"attach", "add", "merge"}
    BY <1>2
  <2> QED
    BY <1>2, <2>1, <2>3, <2>4, <2>6, EditWorks DEF old
<1> QED
  BY <1>4, <1>5

\* The target of a cast is edited, in the list or outside it.
LEMMA TargetWorks ==
  ASSUME Inv, NEW p \in Procs, pc[p] \in {"launch", "renew", "retry"}, UNCHANGED file,
         NEW step \in CastSteps, GoTo(p, step),
         NEW d \in Device, SetTarget(p, d), Edited(p, Target(p), d)
  PROVE  Works(p)
<1>1. /\ step \in Steps \ (Idle \cup {"finish"}) /\ pc[p] \in CastSteps /\ pc[p] \notin Idle
  BY DEF CastSteps, Steps, Saving, AfterSave, Idle
<1>2. CASE at[p] = 0
  BY <1>1, <1>2, MoveWorks DEF SetTarget
<1>3. CASE at[p] # 0
  <2>1. at[p] \in DOMAIN devices[p] /\ Target(p) = devices[p][at[p]]
    BY <1>3, InvOf DEF Target
  <2>2. devices' = [devices EXCEPT ![p] = [devices[p] EXCEPT ![at[p]] = d]]
    BY <1>3 DEF SetTarget, Inv, TypeOK
  <2> QED
    BY <1>1, <2>1, <2>2, EditWorks
<1> QED
  BY <1>2, <1>3

LEMMA LaunchWorks ==
  ASSUME Inv, NEW p \in Procs, Launch(p)
  PROVE  Works(p) \/ Raise(p)
<1>1. SUFFICES ASSUME ~ Raise(p) PROVE Works(p)
  OBVIOUS
<1> DEFINE t == Target(p)
<1>2. PICK d \in Launched(t) :
        SetTarget(p, d) /\ GoTo(p, IF d.screen = t.screen THEN "renew" ELSE "learned")
  BY <1>1 DEF Launch
<1>3. pc[p] = "launch" /\ file' = file /\ t # None
  BY DEF Launch, Working, Inv, CallInv
<1>4. t \in Device /\ d \in Device
  BY <1>3, TargetIsDevice, LaunchedIsDevice
<1>5. PICK step \in {"renew", "learned"} : GoTo(p, step)
  BY <1>2
<1>6. Edited(p, t, d)
  <2>1. CASE d = t
    BY <1>3, <2>1 DEF Edited
  <2>2. CASE d # t
    <3>1. t.backend \in {"dial", "cast"}
      BY <1>4, <2>2, NoneAssumption DEF Launched, Device, Opt, Backend
    <3>2. PICK id \in ScreenId, uuid \in Uuid \cup {None} :
            /\ d = [Learned(t, id) EXCEPT !.uuid = SetDefault(@, uuid)]
            /\ t.backend # "cast" => uuid = None
      <4>1. CASE t.backend = "cast"
        BY <4>1, <1>4, NoneAssumption DEF Launched, Backend
      <4>2. CASE t.backend = "dial"
        <5>1. PICK id \in ScreenId : d = Learned(t, id)
          BY <4>2, NoneAssumption DEF Launched, Backend
        <5>2. Learned(t, id) = [Learned(t, id) EXCEPT !.uuid = SetDefault(@, None)]
          BY <1>4 DEF Learned, SetDefault, Device
        <5> QED
          BY <4>2, <5>1, <5>2
      <4> QED
        BY <3>1, <4>1, <4>2
    <3>3. /\ d.screen # None /\ d.last_used = t.last_used /\ d.backend = t.backend
          /\ d.usn = t.usn /\ d.uuid = SetDefault(t.uuid, uuid)
      <4>1. [id |-> id, token |-> None] # None
        BY NoneAssumption DEF Screen, Opt
      <4> QED
        BY <1>4, <3>2, <4>1 DEF Learned, Device
    <3>4. \/ Identity(d) = Identity(t)
          \/ Identity(t) = None /\ t.backend = "cast"
      BY <3>2, <3>3 DEF Identity, SetDefault
    <3> HIDE DEF t
    <3> QED
      BY <1>3, <3>1, <3>3, <3>4 DEF Edited, CastSteps
  <2> QED
    BY <2>1, <2>2
<1>7. step \in CastSteps
  BY DEF CastSteps
<1> QED
  BY <1>2, <1>3, <1>4, <1>5, <1>6, <1>7, TargetWorks

LEMMA RefreshWorks ==
  ASSUME Inv, NEW p \in Procs, pc[p] \in {"renew", "retry"}, UNCHANGED file,
         Target(p).screen # None, Refresh(p),
         NEW step \in {"renewed", "retried"}, GoTo(p, step)
  PROVE  Works(p)
<1> DEFINE t == Target(p)
<1>1. PICK tag \in Tag :
        SetTarget(p, [t EXCEPT !.screen.token = [screen |-> t.screen.id, tag |-> tag]])
  BY DEF Refresh
<1> DEFINE d == [t EXCEPT !.screen.token = [screen |-> t.screen.id, tag |-> tag]]
<1>2. t # None
  BY DEF Working, Inv, CallInv
<1>3. t \in Device /\ t.screen \in Screen
  BY <1>2, TargetIsDevice DEF Device, Opt
<1>4. /\ d.screen \in Screen /\ d.screen.id = t.screen.id
      /\ d.last_used = t.last_used /\ d.backend = t.backend /\ d.usn = t.usn /\ d.uuid = t.uuid
  BY <1>3 DEF Device, Screen, Token, Opt
<1>5. d \in Device /\ d.screen # None /\ Identity(d) = Identity(t)
  BY <1>3, <1>4, NoneAssumption DEF Device, Opt, Identity
<1>6. SetTarget(p, d)
  BY <1>1
<1> HIDE DEF d, t
<1>7. Edited(p, t, d)
  BY <1>4, <1>5 DEF Edited
<1>8. step \in CastSteps
  BY DEF CastSteps
<1> QED
  BY <1>5, <1>6, <1>7, <1>8, TargetWorks DEF t

LEMMA DeliveredWorks ==
  ASSUME Inv, NEW p \in Procs, pc[p] \in {"send", "resend"}, Delivered(p), UNCHANGED file
  PROVE  Works(p)
<1>1. /\ pc'[p] = "finish" /\ pc'[p] \notin Idle /\ pc[p] \notin Idle
      /\ pc'[p] \notin CastSteps \cup {"cast"}
      /\ at' = at /\ devices[p] \in Seq(Device)
      /\ devices'[p] = SetLastUsed(devices[p], at[p], Target(p))
  BY DEF Delivered, GoTo, Inv, TypeOK, Idle, CastSteps
<1>2. at[p] # 0 => at[p] \in DOMAIN devices[p]
  BY InvOf
<1>3. Target(p).screen # None
  BY DEF Armed, Inv, CallInv
<1>4. Marks(p, devices[p])
  BY <1>1, <1>2, <1>3 DEF Marks, Target
<1> QED
  BY <1>1, <1>4 DEF Works, Lists

\* What any step does: the one case analysis the theorems below rest on.
LEMMA StepOnLists ==
  ASSUME Inv, NEW p \in Procs, PlaceInv(p), Begin(p) \/ Step(p) \/ Crash(p)
  PROVE  /\ \A q \in Procs \ {p} : devices'[q] = devices[q]
         /\ Opens(p) \/ Writes(p) \/ Works(p) \/ Closes(p)
<1>0. /\ pc \in [Procs -> Steps] /\ devices \in [Procs -> Seq(Device)]
      /\ devices = [devices EXCEPT ![p] = devices[p]]
  BY DEF Inv, TypeOK
<1>1. \A q \in Procs \ {p} : devices'[q] = devices[q]
  BY <1>0 DEF Begin, Step, Crash, SaveMigrated, SaveCache, Finish, ListDevices, Pair, Attach,
              Add, Search, Merge, Select, Launch, Renew, Send, Retry, Resend, Refresh, SetTarget,
              Delivered, Return, Raise, Forget
<1> SUFFICES Opens(p) \/ Writes(p) \/ Works(p) \/ Closes(p)
  BY <1>1
<1>2. CASE Begin(p)
  <2>1. PICK c \in Calls :
          \/ /\ file # None
             /\ devices' = [devices EXCEPT ![p] = file]
             /\ GoTo(p, c.op)
          \/ /\ file = None
             /\ devices' = [devices EXCEPT ![p] = Ytcast]
             /\ GoTo(p, IF Ytcast = <<>> THEN c.op ELSE "migrated")
    BY <1>2 DEF Begin
  <2>2. c.op \in Op /\ pc[p] \in Idle /\ file' = file
    BY <1>2, OpenSteps DEF Begin
  <2>3. pc'[p] \in Op \cup {"migrated"}
    BY <1>0, <2>1, <2>2 DEF GoTo
  <2> QED
    BY <1>0, <2>1, <2>2, <2>3, Places DEF Opens
<1>3. CASE Crash(p) \/ (Raise(p) /\ UNCHANGED file)
  BY <1>0, <1>3 DEF Crash, Raise, Forget, GoTo, Closes, Idle
<1>4. CASE Finish(p) \/ ListDevices(p)
  BY <1>0, <1>3, <1>4 DEF Finish, ListDevices, Return, Forget, GoTo, Closes, Idle
<1>5. CASE SaveMigrated(p) \/ SaveCache(p)
  <2>1. CASE Raise(p) /\ UNCHANGED file
    BY <1>3, <2>1
  <2>2. CASE ~ (Raise(p) /\ UNCHANGED file)
    <3>1. /\ file' = devices[p] /\ devices' = devices
          /\ pc[p] \in Saving \cup {"migrated"}
          /\ \/ pc[p] = "migrated" /\ GoTo(p, call[p].op)
             \/ pc[p] \in Saving /\ GoTo(p, AfterSave[pc[p]])
      BY <1>5, <2>2 DEF SaveMigrated, SaveCache
    <3>2. pc[p] = "migrated" => call[p].op \in Op
      BY InvOf, OpenSteps, Places
    <3>3. pc[p] \in Saving => AfterSave[pc[p]] \in {"renew", "send", "resend"}
      BY DEF Saving, AfterSave
    <3>4. pc'[p] \in Op \cup {"renew", "send", "resend"}
      BY <1>0, <3>1, <3>2, <3>3 DEF GoTo
    <3> QED
      BY <3>1, <3>4, Places DEF Writes, Idle
  <2> QED
    BY <2>1, <2>2
<1>6. CASE Pair(p) \/ Attach(p) \/ Add(p) \/ Merge(p)
  BY <1>3, <1>6, PairWorks, AttachWorks, AddWorks, MergeWorks DEF Pair, Attach
<1>7. CASE Search(p) \/ Select(p)
  <2>1. CASE Raise(p)
    BY <1>3, <1>7, <2>1 DEF Search, Select
  <2>2. CASE Return(p, None)
    BY <1>0, <1>7, <2>2 DEF Search, Select, Return, Forget, GoTo, Closes, Idle
  <2>3. CASE ~ Raise(p) /\ ~ Return(p, None)
    <3>1. PICK step \in {"merge", "launch"} : GoTo(p, step) /\ (step = "launch" => pc[p] = "cast")
      BY <1>7, <2>3 DEF Search, Select
    <3>2. pc[p] \notin Idle /\ UNCHANGED <<file, devices>>
      BY <1>7, <2>3 DEF Search, Select, Idle
    <3>3. step \in Steps \ (Idle \cup {"finish"}) /\ "merge" \notin CastSteps
      BY DEF Steps, Idle, CastSteps
    <3> QED
      BY <3>1, <3>2, <3>3, MoveWorks
  <2> QED
    BY <2>1, <2>2, <2>3
<1>8. CASE Launch(p)
  BY <1>3, <1>8, LaunchWorks DEF Launch
<1>9. CASE Renew(p) \/ Retry(p)
  <2>1. CASE Raise(p)
    BY <1>3, <1>9, <2>1 DEF Renew, Retry
  <2>2. CASE Renew(p) /\ GoTo(p, "send") /\ UNCHANGED devices
    BY <2>2, MoveWorks DEF Renew, Idle, Steps, CastSteps
  <2>3. CASE ~ Raise(p) /\ ~ (Renew(p) /\ GoTo(p, "send") /\ UNCHANGED devices)
    <3>1. /\ pc[p] \in {"renew", "retry"} /\ UNCHANGED file
          /\ Refresh(p) /\ (\E step \in {"renewed", "retried"} : GoTo(p, step))
      BY <1>9, <2>3 DEF Renew, Retry
    <3>2. Target(p).screen # None
      BY <1>9, <2>3 DEF Renew, Retry, Inv, CallInv, Armed
    <3> QED
      BY <3>1, <3>2, RefreshWorks
  <2> QED
    BY <2>1, <2>2, <2>3
<1>10. CASE Send(p) \/ Resend(p)
  <2>1. CASE Raise(p)
    BY <1>3, <1>10, <2>1 DEF Send, Resend
  <2>2. CASE Delivered(p)
    BY <1>10, <2>2, DeliveredWorks DEF Send, Resend
  <2>3. CASE ~ Raise(p) /\ ~ Delivered(p)
    <3>1. /\ pc[p] = "send" /\ GoTo(p, "retry") /\ UNCHANGED <<file, devices>>
      BY <1>10, <2>3 DEF Send, Resend
    <3> QED
      BY <3>1, MoveWorks DEF Idle, Steps, CastSteps
  <2> QED
    BY <2>1, <2>2, <2>3
<1> QED
  BY <1>2, <1>3, <1>4, <1>5, <1>6, <1>7, <1>8, <1>9, <1>10 DEF Step

-----------------------------------------------------------------------------
(* No two entries share an identity.  A stale list may be written back, but  *)
(* its identities are distinct as well.                                     *)

AllNamed == (file # None => Named(file)) /\ \A p \in Procs : Named(devices[p])

LEMMA AppendKeepsNamed ==
  ASSUME NEW devs \in Seq(Device), NEW d \in Device, Named(devs),
         Identity(d) # None => \A i \in DOMAIN devs : Identity(devs[i]) # Identity(d),
         d.backend = "cast" => Identity(d) # None
  PROVE  Named(Append(devs, d))
<1> DEFINE new == Append(devs, d)
<1>1. /\ \A i \in DOMAIN new : i = Len(devs) + 1 \/ i \in DOMAIN devs
      /\ \A i \in DOMAIN devs : new[i] = devs[i]
      /\ new[Len(devs) + 1] = d
  BY AppendEntry
<1> HIDE DEF new
<1>2. ASSUME NEW i \in DOMAIN new, NEW j \in DOMAIN new,
             Identity(new[i]) # None, Identity(new[i]) = Identity(new[j])
      PROVE  i = j
  BY <1>1, <1>2 DEF Named
<1>3. ASSUME NEW i \in DOMAIN new, new[i].backend = "cast" PROVE Identity(new[i]) # None
  BY <1>1, <1>3 DEF Named
<1> QED
  BY <1>2, <1>3 DEF Named, new

LEMMA EditKeepsNamed ==
  ASSUME NEW devs \in Seq(Device), NEW i \in DOMAIN devs, NEW d, Named(devs),
         Identity(d) = Identity(devs[i]), d.backend = "cast" => Identity(d) # None
  PROVE  Named([devs EXCEPT ![i] = d])
<1> DEFINE new == [devs EXCEPT ![i] = d]
<1>1. /\ DOMAIN new = DOMAIN devs
      /\ \A j \in DOMAIN devs : /\ Identity(new[j]) = Identity(devs[j])
                               /\ j # i => new[j] = devs[j]
      /\ new[i] = d
  OBVIOUS
<1> HIDE DEF new
<1> QED
  BY <1>1 DEF Named, new

LEMMA FlagsKeepNamed ==
  ASSUME NEW devs \in Seq(Device), NEW i, NEW d, Named(devs)
  PROVE  Named(SetLastUsed(devs, i, d))
<1> DEFINE new == SetLastUsed(devs, i, d)
<1>1. /\ DOMAIN new = DOMAIN devs
      /\ \A j \in DOMAIN devs : /\ new[j].backend = devs[j].backend
                               /\ new[j].usn = devs[j].usn /\ new[j].uuid = devs[j].uuid
  BY SetLastUsedList, LenProperties DEF Unflagged
<1>2. \A j \in DOMAIN devs : Identity(new[j]) = Identity(devs[j])
  BY <1>1 DEF Identity
<1> HIDE DEF new
<1> QED
  BY <1>1, <1>2 DEF Named, new

LEMMA ListsKeepNamed ==
  ASSUME KeepIdentities(Calls), Inv, NEW p \in Procs, pc[p] \notin Idle,
         Named(devices[p]), NEW list, Lists(p, list)
  PROVE  Named(list)
<1>1. devices[p] \in Seq(Device) /\ call[p] \in Calls
  BY InvOf
<1>2. CASE list = devices[p]
  BY <1>2
<1>3. ASSUME NEW d \in Device, Fresh(p, d), list = Append(devices[p], d) PROVE Named(list)
  BY <1>1, <1>3, AppendKeepsNamed DEF Fresh, KeepIdentities
<1>4. ASSUME NEW i \in DOMAIN devices[p], NEW d \in Device, Edited(p, devices[p][i], d),
             list = [devices[p] EXCEPT ![i] = d]
      PROVE  Named(list)
  <2> DEFINE old == devices[p][i]
  <2>1. old.backend = "cast" => Identity(old) # None
    BY DEF Named
  <2>2. CASE pc[p] = "attach"
    <3>1. /\ d = Attached(old, call[p])
          /\ call[p].backend # "cast" /\ call[p].usn = None /\ call[p].uuid = None
      BY <1>1, <1>4, <2>2 DEF Edited, KeepIdentities
    <3>2. old \in Device
      BY InvOf
    <3>3. d.usn = old.usn /\ d.uuid = old.uuid /\ d.backend = call[p].backend
      BY <3>1, <3>2 DEF Attached, Updated, Device
    <3>4. Identity(d) = Identity(old) /\ d.backend # "cast"
      BY <3>1, <3>3 DEF Identity
    <3> QED
      BY <1>1, <1>4, <3>4, EditKeepsNamed
  <2>3. CASE pc[p] # "attach"
    <3>1. Identity(d) = Identity(old) /\ (d.backend = "cast" => Identity(d) # None)
      BY <1>4, <2>1, <2>3 DEF Edited
    <3> QED
      BY <1>1, <1>4, <3>1, EditKeepsNamed
  <2> QED
    BY <2>2, <2>3
<1> QED
  BY <1>2, <1>3, <1>4 DEF Lists

LEMMA NextKeepsNamed ==
  ASSUME KeepIdentities(Calls), Named(Ytcast), Inv, Placed, AllNamed, [Next]_vars
  PROVE  AllNamed'
<1>1. CASE UNCHANGED vars
  BY <1>1 DEF vars, AllNamed
<1>2. ASSUME NEW p \in Procs, Begin(p) \/ Step(p) \/ Crash(p) PROVE AllNamed'
  <2>1. /\ \A q \in Procs \ {p} : devices'[q] = devices[q]
        /\ Opens(p) \/ Writes(p) \/ Works(p) \/ Closes(p)
    BY <1>2, StepOnLists DEF Placed
  <2>2. Named(devices[p]) /\ (file # None => Named(file))
    BY DEF AllNamed
  <2>3. Named(devices'[p]) /\ (file' # None => Named(file'))
    <3>1. CASE Works(p)
      <4>1. PICK list \in Seq(Device) :
              Lists(p, list) /\ (devices'[p] = list \/ Marks(p, list))
        BY <3>1 DEF Works
      <4>2. Named(list)
        BY <2>2, <3>1, <4>1, ListsKeepNamed DEF Works
      <4> QED
        BY <2>2, <3>1, <4>1, <4>2, FlagsKeepNamed DEF Works, Marks
    <3>2. CASE Closes(p)
      <4>1. Named(<<>>)
        BY DEF Named
      <4> QED
        BY <2>2, <3>2, <4>1 DEF Closes
    <3> QED
      BY <2>1, <2>2, <3>1, <3>2 DEF Opens, Writes
  <2> QED
    BY <2>1, <2>3 DEF AllNamed
<1> QED
  BY <1>1, <1>2 DEF Next

LEMMA Naming ==
  ASSUME KeepIdentities(Calls), Named(Ytcast)
  PROVE  Spec => []AllNamed
<1>1. Init => AllNamed
  BY DEF Init, AllNamed, Named
<1> QED
  BY <1>1, Invariance, Placing, NextKeepsNamed, PTL DEF Spec

\* However many processes pair, add, discover, attach and cast at the same time,
\* and whichever of them lose their updates or crash, no two entries of the file
\* describe the same DIAL service or Cast device.  Only attach with a uuid can
\* make it so (api.py:262), and an entry without one that uses Cast.
THEOREM IdentitiesAreUnique ==
  ASSUME KeepIdentities(Calls), Named(Ytcast)
  PROVE  Spec => []UniqueIdentity
<1>1. AllNamed => UniqueIdentity
  BY DEF AllNamed, Named, UniqueIdentity
<1> QED
  BY <1>1, Naming, PTL

-----------------------------------------------------------------------------
(* What a process saves, compared with the file it loaded.                   *)

\* The screen a call without a device would take, once p marked its own.
Marked(p) ==
  pc[p] = "finish" /\ call[p].op \in {"cast", "pair"} =>
    LET k == Default(devices[p])
    IN  /\ k # 0
        /\ devices[p][k].screen # None
        /\ devices[p][k].screen.id = Target(p).screen.id

AllMarked == \A p \in Procs : Marked(p)

LEMMA NextKeepsMarked ==
  ASSUME Inv, Placed, Indexed', AllNamed, AllMarked, [Next]_vars,
         KeepIdentities(Calls)
  PROVE  AllMarked'
<1>1. CASE UNCHANGED vars
  BY <1>1 DEF vars, AllMarked, Marked, Target
<1>2. ASSUME NEW p \in Procs, Begin(p) \/ Step(p) \/ Crash(p) PROVE AllMarked'
  <2>1. ASSUME NEW q \in Procs \ {p} PROVE Marked(q)'
    BY <1>2, OthersStay DEF Others, AllMarked, Marked, Target
  <2>2. Marked(p)'
    <3> SUFFICES ASSUME pc'[p] = "finish", call'[p].op \in {"cast", "pair"}
                 PROVE  LET k == Default(devices'[p])
                        IN  /\ k # 0
                            /\ devices'[p][k].screen # None
                            /\ devices'[p][k].screen.id = Target(p)'.screen.id
      BY DEF Marked
    <3>1. Works(p)
      BY <1>2, StepOnLists, Places DEF Placed, Opens, Writes, Closes
    <3>2. Step(p)
      <4>1. ~ Begin(p)
        <5>1. Begin(p) => \E c \in Calls : GoTo(p, c.op) \/ GoTo(p, "migrated")
          BY DEF Begin
        <5> QED
          BY <5>1, OpenSteps, Places DEF GoTo, Inv, TypeOK
      <4>2. ~ Crash(p)
        BY DEF Crash, GoTo, Inv, TypeOK
      <4> QED
        BY <1>2, <4>1, <4>2
    <3>3. call'[p] = call[p] /\ pc[p] \notin {"attach", "add", "merge"}
      <4>1. call'[p] = call[p] /\ PlaceInv(p)
        BY <3>2, StepMoves DEF Placed, Onward, Over
      <4> QED
        BY <4>1 DEF PlaceInv, Op
    <3>4. PICK list \in Seq(Device) : Lists(p, list) /\ Marks(p, list)
      BY <3>1, <3>3 DEF Works
    <3> DEFINE i == at'[p]
    <3>5. i # 0
      BY DEF Indexed, Working
    <3>6. /\ i \in DOMAIN list /\ list[i].screen # None
          /\ devices'[p] = SetLastUsed(list, i, list[i])
      BY <3>4, <3>5 DEF Marks
    <3>7. Named(list)
      BY <3>1, <3>4, ListsKeepNamed DEF AllNamed, Works
    <3>8. LET k == Default(devices'[p])
          IN  /\ k # 0
              /\ devices'[p][k].screen # None
              /\ devices'[p][k].screen.id = list[i].screen.id
      BY <3>6, <3>7, DefaultAfterSetLastUsed DEF Named
    <3>9. Target(p)'.screen = list[i].screen
      BY <3>5, <3>6, SetLastUsedList DEF Target, Unflagged
    <3> QED
      BY <3>8, <3>9
  <2> QED
    BY <2>1, <2>2 DEF AllMarked
<1> QED
  BY <1>1, <1>2 DEF Next

\* After cast and pair, a call without a device goes to the screen they used,
\* also when other entries name it too, and with any number of processes.  It
\* takes distinct identities: an entry without a screen that shared the
\* target's would be flagged with it.
THEOREM DefaultIsWhatWasUsed ==
  ASSUME \A c \in Calls : c.sel # "device", KeepIdentities(Calls), Named(Ytcast)
  PROVE  Spec => DefaultIsTarget
<1>1. Init => Indexed /\ AllMarked
  BY DEF Init, Indexed, Working, Saving, AfterSave, AllMarked, Marked
<1>2. ASSUME Inv, AllMarked, [Next]_vars
      PROVE  [\A p \in Procs : Saves(p) /\ call[p].op \in {"cast", "pair"} =>
                 /\ Default(file') # 0
                 /\ file'[Default(file')].screen # None
                 /\ file'[Default(file')].screen.id = held'[p].screen.id]_vars
  <2> SUFFICES ASSUME NEW p \in Procs, Saves(p), call[p].op \in {"cast", "pair"}
               PROVE  /\ Default(file') # 0
                      /\ file'[Default(file')].screen # None
                      /\ file'[Default(file')].screen.id = held'[p].screen.id
    OBVIOUS
  <2>1. file' = devices[p] /\ held'[p] = Target(p)
    BY <1>2, SavesAreFinishes DEF Return, Inv, TypeOK
  <2> QED
    BY <1>2, <2>1 DEF AllMarked, Marked, Saves
<1> QED
  BY <1>1, <1>2, Invariance, Placing, Naming, NextKeepsIndexed, NextKeepsMarked, PTL
     DEF Spec, DefaultIsTarget

-----------------------------------------------------------------------------
(* With one process, the list of a call never falls behind the file.         *)

\* p's list has a default if the file has one.
KeepsDefault(p) ==
  pc[p] \notin Idle /\ file # None /\ LastUsed(file) # 0 => LastUsed(devices[p]) # 0

LEMMA ListsKeepDefault ==
  ASSUME Inv, NEW p \in Procs, LastUsed(devices[p]) # 0,
         NEW list \in Seq(Device), Lists(p, list)
  PROVE  LastUsed(list) # 0
<1> DEFINE k == LastUsed(devices[p])
<1>1. devices[p] \in Seq(Device) /\ k \in DOMAIN devices[p] /\ devices[p][k].last_used
  BY InvOf, LastUsedFinds
<1> HIDE DEF k
<1>2. CASE list = devices[p]
  BY <1>2
<1>3. ASSUME NEW d \in Device, list = Append(devices[p], d) PROVE LastUsed(list) # 0
  <2>1. k \in DOMAIN list /\ list[k] = devices[p][k]
    BY <1>1, <1>3, AppendEntry
  <2> QED
    BY <1>1, <2>1, LastUsedFinds
<1>4. ASSUME NEW i \in DOMAIN devices[p], NEW d \in Device, Edited(p, devices[p][i], d),
             list = [devices[p] EXCEPT ![i] = d]
      PROVE  LastUsed(list) # 0
  <2>1. k \in DOMAIN list /\ list[k].last_used
    BY <1>1, <1>4 DEF Edited
  <2> QED
    BY <2>1, LastUsedFinds
<1> QED
  BY <1>2, <1>3, <1>4 DEF Lists

LEMMA MarksSetDefault ==
  ASSUME NEW p \in Procs, NEW list \in Seq(Device), Marks(p, list), at'[p] # 0
  PROVE  LastUsed(devices'[p]) # 0
<1>1. at'[p] \in DOMAIN list /\ devices'[p] = SetLastUsed(list, at'[p], list[at'[p]])
  BY DEF Marks
<1> DEFINE i == at'[p]
           new == SetLastUsed(list, i, list[i])
<1>2. new \in Seq(Device) /\ Len(new) = Len(list) /\ new[i].last_used = (i = i \/ Same(list[i], list[i]))
  BY <1>1, SetLastUsedList
<1>3. i \in DOMAIN new
  BY <1>1, <1>2, LenProperties
<1> HIDE DEF new, i
<1>4. LastUsed(new) # 0
  BY <1>2, <1>3, LastUsedFinds
<1> QED
  BY <1>1, <1>4 DEF new, i

LEMMA NextKeepsDefault ==
  ASSUME OneProcess, Inv, Placed, Indexed', \A p \in Procs : KeepsDefault(p), [Next]_vars
  PROVE  (\A p \in Procs : KeepsDefault(p))'
<1> SUFFICES ASSUME NEW p \in Procs, pc'[p] \notin Idle, file' # None, LastUsed(file') # 0
             PROVE  LastUsed(devices'[p]) # 0
  BY DEF KeepsDefault
<1>1. CASE UNCHANGED vars
  BY <1>1 DEF vars, KeepsDefault
<1>2. CASE Next
  <2>1. Begin(p) \/ Step(p) \/ Crash(p)
    BY <1>2 DEF Next, OneProcess
  <2>2. Opens(p) \/ Writes(p) \/ Works(p)
    BY <2>1, StepOnLists DEF Placed, Closes
  <2>3. CASE Works(p)
    <3>1. LastUsed(devices[p]) # 0
      BY <2>3 DEF Works, KeepsDefault
    <3>2. PICK list \in Seq(Device) :
            Lists(p, list) /\ (devices'[p] = list \/ Marks(p, list))
      BY <2>3 DEF Works
    <3>3. CASE devices'[p] = list
      BY <3>1, <3>2, <3>3, ListsKeepDefault
    <3>4. CASE Marks(p, list)
      <4>1. at'[p] # 0
        BY <3>4 DEF Marks, Indexed, Working
      <4> QED
        BY <3>4, <4>1, MarksSetDefault
    <3> QED
      BY <3>2, <3>3, <3>4
  <2> QED
    BY <2>2, <2>3 DEF Opens, Writes
<1> QED
  BY <1>1, <1>2

\* Once there is a default, a single user never loses it, as long as callers pass
\* no Device objects.
THEOREM DefaultsAreKept ==
  ASSUME \A c \in Calls : c.sel # "device", OneProcess
  PROVE  Spec => DefaultKept
<1>1. Init => Indexed /\ \A p \in Procs : KeepsDefault(p)
  BY DEF Init, Indexed, Working, Saving, AfterSave, KeepsDefault
<1>2. ASSUME Inv, Placed, \A p \in Procs : KeepsDefault(p), [Next]_vars
      PROVE  [file # None /\ LastUsed(file) # 0 /\ file' # file => LastUsed(file') # 0]_vars
  <2> SUFFICES ASSUME file # None, LastUsed(file) # 0, file' # file PROVE LastUsed(file') # 0
    OBVIOUS
  <2>1. PICK p \in Procs : Begin(p) \/ Step(p) \/ Crash(p)
    BY <1>2 DEF Next, vars
  <2>2. Writes(p) \/ (Closes(p) /\ pc[p] = "finish" /\ file' = devices[p])
    BY <1>2, <2>1, StepOnLists DEF Placed, Opens, Works, Closes
  <2>3. file' = devices[p] /\ pc[p] \notin Idle
    BY <2>2, Places DEF Writes
  <2> QED
    BY <1>2, <2>3 DEF KeepsDefault
<1> QED
  BY <1>1, <1>2, Invariance, Placing, NextKeepsIndexed, NextKeepsDefault, PTL
     DEF Spec, DefaultKept

\* What new still knows of old, as NothingForgotten says it of the file.
Kept(old, new) ==
  \A i \in DOMAIN old :
    /\ i \in DOMAIN new
    /\ old[i].usn # None => new[i].usn = old[i].usn
    /\ old[i].backend # None => new[i].backend # None
    /\ old[i].screen # None =>
         /\ new[i].screen # None
         /\ \/ new[i].screen.id = old[i].screen.id
            \/ old[i].backend \in {"dial", "cast"}

\* During a cast the list has the backends of the file: the launcher that corrects
\* a screen id is the one the file names.
KeepsBackends(old, new) ==
  \A i \in DOMAIN old : i \in DOMAIN new /\ new[i].backend = old[i].backend

KeepsFile(p) ==
  pc[p] \notin Idle /\ file # None =>
    /\ Kept(file, devices[p])
    /\ pc[p] \in CastSteps \cup {"cast"} => KeepsBackends(file, devices[p])

LEMMA ListsKeepFile ==
  ASSUME KeepUsns(Calls), Inv, NEW p \in Procs, pc[p] \notin Idle, file # None,
         KeepsFile(p), NEW list, Lists(p, list)
  PROVE  /\ Kept(file, list)
         /\ pc[p] \in CastSteps \cup {"cast"} => KeepsBackends(file, list)
<1> USE DEF KeepsFile
<1>1. devices[p] \in Seq(Device) /\ call[p] \in Calls
  BY InvOf
<1>2. CASE list = devices[p]
  BY <1>2
<1>3. ASSUME NEW d \in Device, list = Append(devices[p], d)
      PROVE  /\ Kept(file, list)
             /\ pc[p] \in CastSteps \cup {"cast"} => KeepsBackends(file, list)
  <2>1. \A i \in DOMAIN devices[p] : i \in DOMAIN list /\ list[i] = devices[p][i]
    BY <1>1, <1>3, AppendEntry
  <2> QED
    BY <2>1 DEF Kept, KeepsBackends
<1>4. ASSUME NEW k \in DOMAIN devices[p], NEW d \in Device, Edited(p, devices[p][k], d),
             list = [devices[p] EXCEPT ![k] = d]
      PROVE  /\ Kept(file, list)
             /\ pc[p] \in CastSteps \cup {"cast"} => KeepsBackends(file, list)
  <2> DEFINE old == devices[p][k]
  <2>1. /\ DOMAIN list = DOMAIN devices[p] /\ list[k] = d
        /\ \A i \in DOMAIN devices[p] : i # k => list[i] = devices[p][i]
    BY <1>4
  <2>2. old.usn # None => d.usn = old.usn
    <3>1. old \in Device
      BY InvOf
    <3>2. pc[p] = "attach" => d = Attached(old, call[p]) /\ call[p].usn = None
      BY <1>1, <1>4 DEF Edited, KeepUsns
    <3>3. pc[p] = "attach" => d.usn = old.usn
      BY <3>1, <3>2 DEF Attached, Updated, Device
    <3> QED
      BY <1>4, <3>3 DEF Edited
  <2>3. pc[p] = "launch" => pc[p] \in CastSteps
    BY DEF CastSteps
  <2>4. /\ old.backend # None => d.backend # None
        /\ old.screen # None => d.screen # None
        /\ old.screen # None =>
             \/ d.screen.id = old.screen.id
             \/ pc[p] = "launch" /\ old.backend \in {"dial", "cast"}
        /\ pc[p] \in CastSteps \cup {"cast"} => d.backend = old.backend
    BY <1>4 DEF Edited
  <2>5. pc[p] \in CastSteps \cup {"cast"} => KeepsBackends(file, devices[p])
    OBVIOUS
  <2> HIDE DEF old, KeepsFile
  <2>6. pc[p] \in CastSteps \cup {"cast"} => KeepsBackends(file, list)
    BY <2>1, <2>4, <2>5 DEF KeepsBackends, old
  <2>7. Kept(file, devices[p])
    BY DEF KeepsFile
  <2>8. Kept(file, list)
    <3> SUFFICES ASSUME NEW i \in DOMAIN file
                 PROVE  /\ i \in DOMAIN list
                        /\ file[i].usn # None => list[i].usn = file[i].usn
                        /\ file[i].backend # None => list[i].backend # None
                        /\ file[i].screen # None =>
                             /\ list[i].screen # None
                             /\ \/ list[i].screen.id = file[i].screen.id
                                \/ file[i].backend \in {"dial", "cast"}
      BY DEF Kept
    <3>1. CASE i # k
      BY <2>1, <2>7, <3>1 DEF Kept
    <3>2. CASE i = k
      <4>1. pc[p] = "launch" => old.backend = file[i].backend
        BY <2>3, <2>5, <3>2 DEF KeepsBackends, old
      <4>2. /\ file[i].usn # None => old.usn = file[i].usn
            /\ file[i].backend # None => old.backend # None
            /\ file[i].screen # None =>
                 /\ old.screen # None
                 /\ \/ old.screen.id = file[i].screen.id
                    \/ file[i].backend \in {"dial", "cast"}
        BY <2>7, <3>2 DEF Kept, old
      <4>3. list[i] = d /\ i \in DOMAIN list
        BY <2>1, <3>2
      <4> QED
        BY <2>2, <2>4, <4>1, <4>2, <4>3
    <3> QED
      BY <3>1, <3>2
  <2> QED
    BY <2>6, <2>8
<1> QED
  BY <1>2, <1>3, <1>4 DEF Lists

LEMMA FlagsKeepFile ==
  ASSUME NEW list \in Seq(Device), NEW i, NEW d, file # None, Kept(file, list)
  PROVE  Kept(file, SetLastUsed(list, i, d))
<1> DEFINE new == SetLastUsed(list, i, d)
<1>1. /\ DOMAIN new = DOMAIN list
      /\ \A j \in DOMAIN list : /\ new[j].backend = list[j].backend
                               /\ new[j].usn = list[j].usn /\ new[j].screen = list[j].screen
  BY SetLastUsedList, LenProperties DEF Unflagged
<1> HIDE DEF new
<1> QED
  BY <1>1 DEF Kept, new

LEMMA NextKeepsFile ==
  ASSUME OneProcess, KeepUsns(Calls), Inv, Placed, \A p \in Procs : KeepsFile(p), [Next]_vars
  PROVE  (\A p \in Procs : KeepsFile(p))'
<1> SUFFICES ASSUME NEW p \in Procs, pc'[p] \notin Idle, file' # None
             PROVE  /\ Kept(file', devices'[p])
                    /\ pc'[p] \in CastSteps \cup {"cast"} => KeepsBackends(file', devices'[p])
  BY DEF KeepsFile
<1>1. CASE UNCHANGED vars
  BY <1>1 DEF vars, KeepsFile
<1>2. CASE Next
  <2>1. Begin(p) \/ Step(p) \/ Crash(p)
    BY <1>2 DEF Next, OneProcess
  <2>2. Opens(p) \/ Writes(p) \/ Works(p)
    BY <2>1, StepOnLists DEF Placed, Closes
  <2>3. CASE Works(p)
    <3>1. PICK list \in Seq(Device) :
            /\ Lists(p, list)
            /\ \/ devices'[p] = list
               \/ Marks(p, list)
      BY <2>3 DEF Works
    <3>2. /\ Kept(file, list)
          /\ pc[p] \in CastSteps \cup {"cast"} => KeepsBackends(file, list)
      BY <2>3, <3>1, ListsKeepFile DEF Works
    <3>3. CASE Marks(p, list)
      <4>1. pc'[p] \notin CastSteps \cup {"cast"}
        BY <3>3 DEF Marks, CastSteps
      <4> QED
        BY <2>3, <3>1, <3>2, <3>3, <4>1, FlagsKeepFile DEF Works, Marks
    <3>4. CASE devices'[p] = list
      BY <2>3, <3>2, <3>4 DEF Works
    <3> QED
      BY <3>1, <3>3, <3>4
  <2>4. CASE Opens(p) \/ Writes(p)
    BY <2>4 DEF Opens, Writes, Kept, KeepsBackends
  <2> QED
    BY <2>2, <2>3, <2>4
<1> QED
  BY <1>1, <1>2

\* What the file once knew about a television stays in it, whatever a single user
\* calls: only the launchers for DIAL and Cast correct the id of a screen.
THEOREM FileForgetsNothing ==
  ASSUME OneProcess, KeepUsns(Calls)
  PROVE  Spec => NothingForgotten
<1>1. Init => \A p \in Procs : KeepsFile(p)
  BY DEF Init, KeepsFile
<1>2. ASSUME Inv, Placed, \A p \in Procs : KeepsFile(p), [Next]_vars, file # None
      PROVE  Kept(file, file')
  <2>1. CASE file' = file
    BY <2>1 DEF Kept
  <2>2. CASE file' # file
    <3>1. PICK p \in Procs : Begin(p) \/ Step(p) \/ Crash(p)
      BY <1>2, <2>2 DEF Next, vars
    <3>2. Writes(p) \/ (Closes(p) /\ pc[p] = "finish" /\ file' = devices[p])
      BY <1>2, <2>2, <3>1, StepOnLists DEF Placed, Opens, Works, Closes
    <3>3. file' = devices[p] /\ pc[p] \notin Idle
      BY <3>2, Places DEF Writes
    <3> QED
      BY <1>2, <3>3 DEF KeepsFile
  <2> QED
    BY <2>1, <2>2
<1>3. ASSUME Inv, Placed, \A p \in Procs : KeepsFile(p), [Next]_vars
      PROVE  [file # None =>
                \A i \in DOMAIN file :
                  /\ i \in DOMAIN file'
                  /\ file[i].usn # None => file'[i].usn = file[i].usn
                  /\ file[i].backend # None => file'[i].backend # None
                  /\ file[i].screen # None =>
                       /\ file'[i].screen # None
                       /\ \/ file'[i].screen.id = file[i].screen.id
                          \/ file[i].backend \in {"dial", "cast"}]_vars
  BY <1>2, <1>3 DEF Kept
<1> QED
  BY <1>1, <1>3, Invariance, Placing, NextKeepsFile, PTL DEF Spec, NothingForgotten
-----------------------------------------------------------------------------
(* With one process, the file is the book of DeviceBook.                     *)

\* The book speaks of devices as the API does.
LEMMA BookTerms ==
  /\ Book!Token = Token /\ Book!Screen = Screen /\ Book!Device = Device
  /\ Book!Backend = Backend /\ \A S : Book!Opt(S) = Opt(S)
  /\ \A s, b, a, n, u : Book!NewDevice(s, b, a, n, u) = NewDevice(s, b, a, n, u)
  /\ \A d : Book!Identity(d) = Identity(d) /\ (Book!TokenFits(d) <=> TokenFits(d))
  /\ \A old, new : Book!Updated(old, new) = Updated(old, new)
  /\ \A list, i, d : Book!SetLastUsed(list, i, d) = SetLastUsed(list, i, d)
  /\ \A list, i : Book!Chosen(list, i) = SetLastUsed(list, i, list[i])
<1>1. /\ Book!Backend = Backend /\ (\A S : Book!Opt(S) = Opt(S))
      /\ Book!Token = Token
  BY DEF Book!Backend, Backend, Book!Opt, Opt, Book!Token, Token
<1>2. Book!Screen = Screen
  BY <1>1 DEF Book!Screen, Screen
<1>3. Book!Device = Device
  BY <1>1, <1>2 DEF Book!Device, Device
<1>4. \A s, b, a, n, u : Book!NewDevice(s, b, a, n, u) = NewDevice(s, b, a, n, u)
  BY DEF Book!NewDevice, NewDevice
<1>5. \A d : Book!Identity(d) = Identity(d) /\ (Book!TokenFits(d) <=> TokenFits(d))
  BY DEF Book!Identity, Identity, Book!TokenFits, TokenFits
<1>6. \A old, new : Book!Updated(old, new) = Updated(old, new)
  BY DEF Book!Updated, Updated
<1>7. \A list, i, d : Book!SetLastUsed(list, i, d) = SetLastUsed(list, i, d)
  BY DEF Book!SetLastUsed, SetLastUsed, Book!Same, Same, Book!Identity, Identity
<1>8. \A list, i : Book!Chosen(list, i) = SetLastUsed(list, i, list[i])
  BY <1>7 DEF Book!Chosen
<1> QED
  BY <1>1, <1>2, <1>3, <1>4, <1>5, <1>6, <1>7, <1>8

\* What a cast has learned so far of the entry at i.
Tuned(old, list, i) ==
  i \in DOMAIN old /\ \E d \in Book!Tunings(old[i]) : list = [old EXCEPT ![i] = d]

\* What a call may write when it ends.
Recorded(old, new) ==
  \/ Book!Paired(old, new) \/ Book!Attached(old, new) \/ Book!Added(old, new)
  \/ Book!Discovered(old, new) \/ Book!Used(old, new)

\* How far the list of a call is ahead of the file, by where the call is.
Ahead(step, old, list, i) ==
  /\ step \in Op \cup {"launch"} => list = old
  /\ step = "merge" => Book!Discovered(old, list)
  /\ step \in CastSteps => Tuned(old, list, i)
  /\ step = "finish" => Recorded(old, list)

FollowsFile(p) ==
  /\ pc[p] = "migrated" => file = None /\ Ytcast # <<>> /\ devices[p] = Ytcast
  /\ pc[p] \notin Idle \cup {"migrated"} =>
       /\ file = None => Ytcast = <<>>
       /\ Ahead(pc[p], Book!Entries, devices[p], at[p])

\* The book has the devices the file has.
LEMMA EntriesAreDevices ==
  ASSUME Inv
  PROVE  /\ Book!Entries \in Seq(Device) /\ Len(Book!Entries) \in Nat
         /\ DOMAIN Book!Entries = 1 .. Len(Book!Entries)
         /\ \A i \in DOMAIN Book!Entries :
              Book!Entries[i] \in Device /\ TokenFits(Book!Entries[i])
<1>1. Book!Entries \in Seq(Device) /\ AllFit(Book!Entries)
  BY EmptySeq DEF Inv, TypeOK, Book!Entries, AllFit
<1> HIDE DEF Book!Entries
<1> QED
  BY <1>1, LenProperties, ElementOfSeq DEF AllFit

\* pair records a screen and its token.
LEMMA PairRecords ==
  ASSUME Inv, NEW p \in Procs, Pair(p), ~Raise(p)
  PROVE  Book!Paired(devices[p], devices'[p])
<1> DEFINE devs == devices[p]
<1>1. PICK token \in Token :
        LET screen == [id |-> token.screen, token |-> token]
            known  == Find(devices[p], screen.id)
            fresh  == NewDevice(screen, None, None, None, None)
            i      == IF known = 0 THEN UpsertAt(devices[p], fresh) ELSE known
            list   == IF known = 0 THEN Upsert(devices[p], fresh)
                      ELSE [devices[p] EXCEPT ![known].screen = screen]
        IN  devices' = [devices EXCEPT ![p] = SetLastUsed(list, i, list[i])]
  BY DEF Pair
<1> DEFINE screen == [id |-> token.screen, token |-> token]
           known  == Find(devs, screen.id)
           fresh  == NewDevice(screen, None, None, None, None)
           i      == IF known = 0 THEN UpsertAt(devs, fresh) ELSE known
           list   == IF known = 0 THEN Upsert(devs, fresh)
                     ELSE [devs EXCEPT ![known].screen = screen]
           same   == {j \in DOMAIN devs : devs[j].screen # None /\ devs[j].screen.id = screen.id}
<1>2. /\ devices'[p] = SetLastUsed(list, i, list[i])
      /\ devs \in Seq(Device) /\ DOMAIN devs = 1 .. Len(devs) /\ Len(devs) \in Nat
  BY <1>1, InvOf DEF Inv, TypeOK
<1>3. \/ \E j \in same : devices'[p] = Book!Chosen([devs EXCEPT ![j].screen = screen], j)
      \/ same = {} /\ devices'[p] = Book!Chosen(Append(devs, fresh), Len(devs) + 1)
  <2>1. CASE known = 0
    <3>1. same = {}
      BY <1>2, <2>1, FindFinds
    <3>2. fresh.screen = screen /\ Identity(fresh) = None
      BY DEF NewDevice, Identity
    <3>3. ASSUME NEW j \in DOMAIN devs PROVE ~Same(devs[j], fresh)
      <4> HIDE DEF screen, fresh
      <4> QED
        BY <3>1, <3>2 DEF Same
    <3>4. list = Append(devs, fresh) /\ i = Len(devs) + 1
      BY <1>2, <2>1, <3>3, UpsertAppends
    <3> HIDE DEF list, i, fresh, same, devs
    <3> QED
      BY <1>2, <3>1, <3>4, BookTerms
  <2>2. CASE known # 0
    <3>1. known \in same
      BY <1>2, <2>2, FindFinds
    <3>2. list = [devs EXCEPT ![known].screen = screen] /\ i = known
      BY <2>2
    <3> HIDE DEF list, i, known, same, devs, screen
    <3> QED
      BY <1>2, <3>1, <3>2, BookTerms
  <2> QED
    BY <2>1, <2>2
<1>4. fresh = Book!NewDevice(screen, None, None, None, None) /\ token \in Book!Token
  BY BookTerms
<1> HIDE DEF fresh, same, devs
<1> QED
  BY <1>3, <1>4 DEF Book!Paired, same, devs

\* attach, and add_device of a known device, give one entry another way to
\* reach it.
LEMMA AttachedInBook ==
  ASSUME NEW devs, NEW i \in DOMAIN devs, NEW c \in Call,
         NEW new, new = [devs EXCEPT ![i] = Attached(devs[i], c)]
  PROVE  Book!Attached(devs, new)
<1>1. /\ c.backend \in Book!Backend /\ c.address \in Book!Opt(Address)
      /\ c.usn \in Book!Opt(Usn) /\ c.uuid \in Book!Opt(Uuid)
  BY BookTerms DEF Call
<1>2. Attached(devs[i], c) = Book!Reached(devs[i], c.backend, c.address, c.usn, c.uuid)
  BY BookTerms DEF Attached, Book!Reached
<1> QED
  BY <1>1, <1>2 DEF Book!Attached

LEMMA AttachRecords ==
  ASSUME Inv, NEW p \in Procs, Indexed', Attach(p), ~Raise(p)
  PROVE  Book!Attached(devices[p], devices'[p])
<1>1. call[p] \in Call
  BY InvOf DEF Attach, Idle
<1>2. PICK i \in 0 .. Len(devices[p]) :
        /\ at' = [at EXCEPT ![p] = i] /\ GoTo(p, "finish")
        /\ i # 0 => devices' = [devices EXCEPT ![p][i] = Attached(devices[p][i], call[p])]
  BY DEF Attach
<1>3. i # 0
  BY <1>2 DEF Indexed, Working, GoTo, Inv, TypeOK
<1>4. i \in DOMAIN devices[p]
  BY <1>3, InvOf
<1>5. devices'[p] = [devices[p] EXCEPT ![i] = Attached(devices[p][i], call[p])]
  BY <1>2, <1>3 DEF Inv, TypeOK
<1> QED
  BY <1>1, <1>4, <1>5, AttachedInBook

\* add_device records a device that is known, or one that is not.
LEMMA AddRecords ==
  ASSUME Inv, NEW p \in Procs, Add(p)
  PROVE  Book!Attached(devices[p], devices'[p]) \/ Book!Added(devices[p], devices'[p])
<1> DEFINE c     == call[p]
           devs  == devices[p]
           fresh == NewDevice(None, c.backend, c.address, c.usn, c.uuid)
           known == IF Identity(fresh) = None THEN 0
                    ELSE FindService(devs, Identity(fresh))
<1>1. c \in Call /\ devs \in Seq(Device)
  BY InvOf DEF Add, Idle
<1>2. CASE known = 0
  <2>1. devices'[p] = Upsert(devs, fresh)
    BY <1>2 DEF Add, Inv, TypeOK
  <2>2. Identity(fresh) # None => \A j \in DOMAIN devs : Identity(devs[j]) # Identity(fresh)
    BY <1>1, <1>2, FindServiceFinds
  <2>3. fresh.screen = None
    BY DEF NewDevice
  <2>4. ASSUME NEW j \in DOMAIN devs PROVE ~Same(devs[j], fresh)
    <3> HIDE DEF fresh, known
    <3> QED
      BY <2>2, <2>3 DEF Same
  <2>5. devices'[p] = Append(devs, fresh)
    BY <1>1, <2>1, <2>4, UpsertAppends
  <2>6. /\ c.backend \in Book!Backend /\ c.address \in Book!Opt(Address)
        /\ c.usn \in Book!Opt(Usn) /\ c.uuid \in Book!Opt(Uuid)
    BY <1>1, BookTerms DEF Call
  <2>7. /\ fresh = Book!NewDevice(None, c.backend, c.address, c.usn, c.uuid)
        /\ Book!Identity(fresh) # None =>
             \A j \in DOMAIN devs : Book!Identity(devs[j]) # Book!Identity(fresh)
    BY <2>2, BookTerms
  <2> HIDE DEF fresh, known
  <2>8. Book!Added(devs, devices'[p])
    BY <2>5, <2>6, <2>7 DEF Book!Added
  <2> QED
    BY <2>8
<1>3. CASE known # 0
  <2>1. known \in DOMAIN devs
    BY <1>1, <1>3, FindServiceFinds
  <2>2. devices'[p] = [devs EXCEPT ![known] = Attached(devs[known], c)]
    BY <1>3 DEF Add, Inv, TypeOK
  <2> HIDE DEF known, fresh
  <2> QED
    BY <1>1, <2>1, <2>2, AttachedInBook
<1> QED
  BY <1>2, <1>3

\* One reply more keeps a list what a search made of the book.
LEMMA MergeDiscovers ==
  ASSUME Inv, NEW p \in Procs, Merge(p), Book!Discovered(Book!Entries, devices[p])
  PROVE  Book!Discovered(Book!Entries, devices'[p])
<1> DEFINE old  == Book!Entries
           devs == devices[p]
           new  == devices'[p]
<1>1. PICK r \in todo[p] :
        LET known == IF r.usn = None THEN 0 ELSE FindService(devices[p], r.usn)
            fresh == NewDevice(None, "dial", r.address, r.usn, None)
        IN  devices' =
                 [devices EXCEPT ![p] =
                    IF known = 0 THEN Upsert(devices[p], fresh)
                    ELSE [devices[p] EXCEPT ![known].address = r.address,
                                            ![known].backend = "dial"]]
  BY DEF Merge, Inv, TypeOK
<1> DEFINE known == IF r.usn = None THEN 0 ELSE FindService(devs, r.usn)
           fresh == NewDevice(None, "dial", r.address, r.usn, None)
<1>2. /\ devs \in Seq(Device) /\ DOMAIN devs = 1 .. Len(devs) /\ Len(devs) \in Nat
      /\ \A i \in DOMAIN devs : devs[i] \in Device
      /\ r.usn \in Opt(Usn) /\ r.address \in Address
      /\ old \in Seq(Device) /\ DOMAIN old = 1 .. Len(old) /\ Len(old) \in Nat
      /\ \A i \in DOMAIN old : old[i] \in Device
  BY InvOf, EntriesAreDevices, RepliesAssumption DEF Reply
<1>3. /\ \A i \in DOMAIN old :
           /\ i \in DOMAIN devs
           /\ \/ devs[i] = old[i]
              \/ /\ old[i].usn # None
                 /\ devs[i] = [old[i] EXCEPT !.address = devs[i].address, !.backend = "dial"]
      /\ \A i \in DOMAIN devs \ DOMAIN old :
           /\ devs[i] = NewDevice(None, "dial", devs[i].address, devs[i].usn, None)
           /\ devs[i].usn # None => \A j \in 1 .. i - 1 : Identity(devs[j]) # devs[i].usn
  BY BookTerms DEF Book!Discovered
<1> SUFFICES
      /\ \A i \in DOMAIN old :
           /\ i \in DOMAIN new
           /\ \/ new[i] = old[i]
              \/ /\ old[i].usn # None
                 /\ new[i] = [old[i] EXCEPT !.address = new[i].address, !.backend = "dial"]
      /\ \A i \in DOMAIN new \ DOMAIN old :
           /\ new[i] = NewDevice(None, "dial", new[i].address, new[i].usn, None)
           /\ new[i].usn # None => \A j \in 1 .. i - 1 : Identity(new[j]) # new[i].usn
  BY BookTerms DEF Book!Discovered
<1>4. CASE known = 0
  <2>1. new = Upsert(devs, fresh)
    BY <1>1, <1>4 DEF Inv, TypeOK
  <2>2. r.usn # None => \A j \in DOMAIN devs : Identity(devs[j]) # r.usn
    BY <1>2, <1>4, FindServiceFinds
  <2>3. /\ fresh \in Device /\ fresh.screen = None /\ Identity(fresh) = r.usn
        /\ fresh.usn = r.usn /\ fresh.address = r.address
    BY <1>2 DEF NewDevice, Device, Opt, Identity, Backend
  <2>4. fresh = NewDevice(None, "dial", fresh.address, fresh.usn, None)
    BY <2>3
  <2> HIDE DEF fresh, known
  <2>5. ASSUME NEW j \in DOMAIN devs PROVE ~Same(devs[j], fresh)
    BY <2>2, <2>3 DEF Same
  <2> HIDE DEF devs, new, old
  <2>6. new = Append(devs, fresh)
    BY <1>2, <2>1, <2>5, UpsertAppends
  <2>7. /\ DOMAIN new = 1 .. Len(devs) + 1 /\ new[Len(devs) + 1] = fresh
        /\ \A i \in DOMAIN devs : new[i] = devs[i]
    BY <1>2, <2>3, <2>6, AppendEntry
  <2>8. ASSUME NEW i \in DOMAIN old
        PROVE  /\ i \in DOMAIN new
               /\ \/ new[i] = old[i]
                  \/ /\ old[i].usn # None
                     /\ new[i] = [old[i] EXCEPT !.address = new[i].address, !.backend = "dial"]
    <3>1. i \in DOMAIN devs
      BY <1>3
    <3>2. i \in DOMAIN new /\ new[i] = devs[i]
      BY <1>2, <2>7, <3>1
    <3> QED
      BY <1>3, <3>2
  <2>9. ASSUME NEW i \in DOMAIN new \ DOMAIN old
        PROVE  /\ new[i] = NewDevice(None, "dial", new[i].address, new[i].usn, None)
               /\ new[i].usn # None => \A j \in 1 .. i - 1 : Identity(new[j]) # new[i].usn
    <3>1. CASE i = Len(devs) + 1
      BY <1>2, <2>2, <2>3, <2>4, <2>7, <3>1
    <3>2. CASE i # Len(devs) + 1
      <4>1. i \in DOMAIN devs \ DOMAIN old /\ new[i] = devs[i]
        BY <1>2, <2>7, <2>9, <3>2
      <4>2. \A j \in 1 .. i - 1 : new[j] = devs[j]
        BY <1>2, <2>7, <4>1
      <4> QED
        BY <1>3, <4>1, <4>2
    <3> QED
      BY <3>1, <3>2
  <2> QED
    BY <2>8, <2>9
<1>5. CASE known # 0
  <2> DEFINE d == [devs[known] EXCEPT !.address = r.address, !.backend = "dial"]
  <2>1. known \in DOMAIN devs /\ Identity(devs[known]) = r.usn /\ r.usn # None
    BY <1>2, <1>5, FindServiceFinds
  <2>2. new = [devs EXCEPT ![known] = d]
    BY <1>1, <1>5, <2>1 DEF Inv, TypeOK
  <2>3. devs[known] \in Device /\ devs[known].usn # None
    BY <1>2, <2>1, IdentityAssumption, NoneAssumption DEF Identity, Device, Opt
  <2>4. /\ d.address = r.address /\ d.usn = devs[known].usn /\ d.uuid = devs[known].uuid
    BY <2>3 DEF Device
  <2>5. Identity(d) = Identity(devs[known])
    BY <2>4 DEF Identity
  <2>6. /\ known \in DOMAIN old => old[known].usn # None
                                  /\ d = [old[known] EXCEPT !.address = d.address, !.backend = "dial"]
        /\ known \notin DOMAIN old => d = NewDevice(None, "dial", d.address, d.usn, None)
    <3>1. CASE known \in DOMAIN old
      BY <1>2, <1>3, <2>3, <2>4, <3>1 DEF Device
    <3>2. CASE known \notin DOMAIN old
      <4>1. devs[known] = NewDevice(None, "dial", devs[known].address, devs[known].usn, None)
        BY <1>3, <2>1, <3>2
      <4>2. /\ devs[known].screen = None /\ devs[known].uuid = None
            /\ devs[known].last_used = FALSE
        BY <4>1 DEF NewDevice
      <4>3. /\ d \in Device /\ d.screen = None /\ d.uuid = None
            /\ d.last_used = FALSE /\ d.backend = "dial"
        BY <1>2, <2>3, <4>2 DEF Device, Opt, Backend
      <4> HIDE DEF d, known
      <4>4. d = NewDevice(None, "dial", d.address, d.usn, None)
        BY <4>3 DEF NewDevice, Device
      <4> QED
        BY <3>2, <4>4
    <3> QED
      BY <3>1, <3>2
  <2> HIDE DEF d, known, fresh, devs, new, old
  <2>7. /\ DOMAIN new = DOMAIN devs /\ new[known] = d
        /\ \A i \in DOMAIN devs : i # known => new[i] = devs[i]
        /\ \A i \in DOMAIN devs : Identity(new[i]) = Identity(devs[i]) /\ new[i].usn = devs[i].usn
    BY <2>1, <2>2, <2>4, <2>5
  <2>8. ASSUME NEW i \in DOMAIN old
        PROVE  /\ i \in DOMAIN new
               /\ \/ new[i] = old[i]
                  \/ /\ old[i].usn # None
                     /\ new[i] = [old[i] EXCEPT !.address = new[i].address, !.backend = "dial"]
    BY <1>3, <2>6, <2>7, <2>8
  <2>9. ASSUME NEW i \in DOMAIN new \ DOMAIN old
        PROVE  /\ new[i] = NewDevice(None, "dial", new[i].address, new[i].usn, None)
               /\ new[i].usn # None => \A j \in 1 .. i - 1 : Identity(new[j]) # new[i].usn
    <3>1. i \in DOMAIN devs \ DOMAIN old
      BY <2>7, <2>9
    <3>2. new[i] = NewDevice(None, "dial", new[i].address, new[i].usn, None)
      BY <1>3, <2>6, <2>7, <3>1
    <3>3. \A j \in 1 .. i - 1 : j \in DOMAIN devs
      BY <1>2, <3>1
    <3> QED
      BY <1>3, <2>7, <3>1, <3>2, <3>3
  <2> QED
    BY <2>8, <2>9
<1> QED
  BY <1>4, <1>5

\* A cast has learned nothing yet, and goes on learning.
LEMMA TunedAtFirst ==
  ASSUME NEW list \in Seq(Device), NEW i \in DOMAIN list
  PROVE  Tuned(list, list, i)
<1>1. list[i] \in Book!Tunings(list[i])
  BY DEF Book!Tunings
<1>2. list = [list EXCEPT ![i] = list[i]]
  BY LenProperties
<1> QED
  BY <1>1, <1>2 DEF Tuned

\* A device like d but for a screen with a token that fits, and a uuid, is what a
\* cast may learn of d.
LEMMA IsTuning ==
  ASSUME NEW d \in Device, NEW e \in Device, e.screen # None, TokenFits(e),
         e.last_used = d.last_used, e.backend = d.backend, e.address = d.address, e.usn = d.usn,
         (d.screen # None /\ e.screen.id = d.screen.id) \/ d.backend \in {"dial", "cast"},
         e.uuid # d.uuid => e.uuid # None /\ d.uuid = None /\ d.backend = "cast"
  PROVE  e \in Book!Tunings(d)
<1>1. e.screen \in Book!Screen /\ e.uuid \in Book!Opt(Uuid)
  BY BookTerms DEF Device, Opt
<1>2. e = Book!Seen(d, e.screen, e.uuid)
  BY DEF Device, Book!Seen
<1>3. Book!TokenFits(e)
  BY BookTerms
<1>4. e \in {Book!Seen(d, screen, uuid) : screen \in Book!Screen, uuid \in Book!Opt(Uuid)}
  BY <1>1, <1>2
<1> QED
  BY <1>3, <1>4 DEF Book!Tunings

\* Conversely.
LEMMA TuningIs ==
  ASSUME NEW d \in Device, NEW e \in Book!Tunings(d), e # d
  PROVE  /\ e.last_used = d.last_used /\ e.backend = d.backend
         /\ e.address = d.address /\ e.usn = d.usn
         /\ (d.screen # None /\ e.screen.id = d.screen.id) \/ d.backend \in {"dial", "cast"}
         /\ e.uuid # d.uuid => e.uuid # None /\ d.uuid = None /\ d.backend = "cast"
<1>1. PICK screen \in Book!Screen, uuid \in Book!Opt(Uuid) : e = Book!Seen(d, screen, uuid)
  BY DEF Book!Tunings
<1>2. /\ e.last_used = d.last_used /\ e.backend = d.backend
      /\ e.address = d.address /\ e.usn = d.usn /\ e.uuid \in Opt(Uuid)
  BY <1>1, BookTerms DEF Device, Book!Seen
<1>3. /\ (d.screen # None /\ e.screen.id = d.screen.id) \/ d.backend \in {"dial", "cast"}
      /\ e.uuid # d.uuid => d.uuid = None /\ d.backend = "cast"
  BY DEF Book!Tunings
<1> QED
  BY <1>2, <1>3, NoneAssumption

LEMMA LaunchTunes ==
  ASSUME NEW t \in Device, TokenFits(t), NEW d \in Launched(t)
  PROVE  d \in Book!Tunings(t)
<1>1. CASE d = t
  BY <1>1 DEF Book!Tunings
<1>2. CASE d # t
  <2>1. t.backend \in {"dial", "cast"}
    BY <1>2, NoneAssumption DEF Launched, Device, Opt, Backend
  <2>2. PICK id \in ScreenId, uuid \in Uuid \cup {None} :
          /\ d = [Learned(t, id) EXCEPT !.uuid = SetDefault(@, uuid)]
          /\ t.backend # "cast" => uuid = None
    <3>1. CASE t.backend = "cast"
      BY <3>1, NoneAssumption DEF Launched, Backend
    <3>2. CASE t.backend = "dial"
      <4>1. PICK id \in ScreenId : d = Learned(t, id)
        BY <3>2, NoneAssumption DEF Launched, Backend
      <4>2. Learned(t, id) = [Learned(t, id) EXCEPT !.uuid = SetDefault(@, None)]
        BY DEF Learned, SetDefault, Device
      <4> QED
        BY <3>2, <4>1, <4>2
    <3> QED
      BY <2>1, <3>1, <3>2
  <2>3. [id |-> id, token |-> None] # None
    BY NoneAssumption DEF Screen, Opt
  <2>4. /\ d.last_used = t.last_used /\ d.backend = t.backend
        /\ d.address = t.address /\ d.usn = t.usn /\ d.uuid = SetDefault(t.uuid, uuid)
        /\ d.screen = IF t.screen # None /\ t.screen.id = id THEN t.screen
                      ELSE [id |-> id, token |-> None]
    BY <2>2 DEF Learned, Device
  <2>5. d.screen # None /\ TokenFits(d)
    BY <2>3, <2>4 DEF TokenFits
  <2>6. d \in Device
    BY LaunchedIsDevice
  <2>7. d.uuid # t.uuid => d.uuid # None /\ t.uuid = None /\ t.backend = "cast"
    BY <2>2, <2>4 DEF SetDefault
  <2> QED
    BY <2>1, <2>4, <2>5, <2>6, <2>7, IsTuning
<1> QED
  BY <1>1, <1>2

\* Another token for the screen the cast has is one more thing it learned.
LEMMA RefreshTunes ==
  ASSUME NEW o \in Device, NEW t \in Book!Tunings(o), t \in Device, t.screen # None,
         NEW tag \in Tag,
         NEW d, d = [t EXCEPT !.screen.token = [screen |-> t.screen.id, tag |-> tag]]
  PROVE  d \in Book!Tunings(o)
<1>1. t.screen \in Screen
  BY DEF Device, Opt
<1>2. /\ d.screen \in Screen /\ d.screen.id = t.screen.id
      /\ d.screen.token = [screen |-> t.screen.id, tag |-> tag]
      /\ d.last_used = t.last_used /\ d.backend = t.backend /\ d.address = t.address
      /\ d.usn = t.usn /\ d.uuid = t.uuid
  BY <1>1 DEF Device, Screen, Token, Opt
<1>3. d \in Device /\ d.screen # None /\ TokenFits(d)
  BY <1>1, <1>2, NoneAssumption DEF Device, Opt, TokenFits
<1>4. CASE t = o
  BY <1>2, <1>3, <1>4, IsTuning
<1>5. CASE t # o
  <2>1. /\ t.last_used = o.last_used /\ t.backend = o.backend
        /\ t.address = o.address /\ t.usn = o.usn
        /\ (o.screen # None /\ t.screen.id = o.screen.id) \/ o.backend \in {"dial", "cast"}
        /\ t.uuid # o.uuid => t.uuid # None /\ o.uuid = None /\ o.backend = "cast"
    BY <1>5, TuningIs
  <2> QED
    BY <1>2, <1>3, <2>1, IsTuning
<1> QED
  BY <1>4, <1>5

\* What a cast saves before its next request is a use of the entry.
LEMMA TunedIsUse ==
  ASSUME NEW old, NEW new, NEW i, Tuned(old, new, i)
  PROVE  Book!Used(old, new)
BY DEF Tuned, Book!Used

\* The target of a cast is replaced by what the cast may have learned.
LEMMA TargetTunes ==
  ASSUME Inv, NEW p \in Procs, at[p] # 0, NEW d, SetTarget(p, d), UNCHANGED at,
         NEW old, Tuned(old, devices[p], at[p]), d \in Book!Tunings(old[at[p]])
  PROVE  Tuned(old, devices'[p], at'[p])
<1>1. PICK e \in Book!Tunings(old[at[p]]) : devices[p] = [old EXCEPT ![at[p]] = e]
  BY DEF Tuned
<1>2. devices'[p] = [devices[p] EXCEPT ![at[p]] = d]
  BY DEF SetTarget, Inv, TypeOK
<1>3. devices'[p] = [old EXCEPT ![at[p]] = d]
  BY <1>1, <1>2
<1> QED
  BY <1>3 DEF Tuned

LEMMA LaunchFollows ==
  ASSUME Inv, NEW p \in Procs, Launch(p), ~Raise(p), at[p] # 0
  PROVE  /\ Tuned(devices[p], devices'[p], at'[p])
         /\ pc'[p] \in {"renew", "learned"} /\ file' = file
<1>1. PICK d \in Launched(Target(p)) :
        SetTarget(p, d) /\ GoTo(p, IF d.screen = Target(p).screen THEN "renew" ELSE "learned")
  BY DEF Launch
<1>2. at[p] \in DOMAIN devices[p] /\ Target(p) = devices[p][at[p]] /\ devices[p] \in Seq(Device)
  BY InvOf DEF Target
<1>3. Target(p) \in Device /\ TokenFits(Target(p))
  BY <1>2, InvOf
<1>4. d \in Book!Tunings(devices[p][at[p]])
  BY <1>2, <1>3, LaunchTunes
<1>5. Tuned(devices[p], devices[p], at[p])
  BY <1>2, TunedAtFirst
<1>6. at' = at /\ pc'[p] \in {"renew", "learned"} /\ file' = file
  BY <1>1 DEF Launch, GoTo, Raise, Inv, TypeOK
<1> QED
  BY <1>1, <1>4, <1>5, <1>6, TargetTunes

LEMMA RefreshFollows ==
  ASSUME Inv, NEW p \in Procs, Refresh(p), UNCHANGED at, at[p] # 0, Target(p).screen # None,
         Tuned(Book!Entries, devices[p], at[p])
  PROVE  Tuned(Book!Entries, devices'[p], at'[p])
<1> DEFINE old == Book!Entries
           t   == Target(p)
<1>1. PICK tag \in Tag :
        SetTarget(p, [t EXCEPT !.screen.token = [screen |-> t.screen.id, tag |-> tag]])
  BY DEF Refresh
<1> DEFINE d == [t EXCEPT !.screen.token = [screen |-> t.screen.id, tag |-> tag]]
<1>2. at[p] \in DOMAIN devices[p] /\ t = devices[p][at[p]] /\ t \in Device
  BY InvOf DEF Target
<1>3. at[p] \in DOMAIN old /\ t \in Book!Tunings(old[at[p]])
  BY <1>2 DEF Tuned
<1>4. old[at[p]] \in Device
  BY <1>3, EntriesAreDevices
<1>5. d \in Book!Tunings(old[at[p]])
  BY <1>2, <1>3, <1>4, RefreshTunes
<1> HIDE DEF d, t, old
<1> QED
  BY <1>1, <1>5, TargetTunes DEF d, old

\* A device that has played becomes the default, and that is a use as well.
LEMMA DeliveredRecords ==
  ASSUME Inv, NEW p \in Procs, pc[p] \in {"send", "resend"}, Delivered(p), at[p] # 0,
         NEW old, Tuned(old, devices[p], at[p])
  PROVE  Book!Used(old, devices'[p])
<1> DEFINE i    == at[p]
           list == devices[p]
<1>1. PICK d \in Book!Tunings(old[i]) : i \in DOMAIN old /\ list = [old EXCEPT ![i] = d]
  BY DEF Tuned
<1>2. Target(p) = list[i] /\ list[i] = d
  BY <1>1 DEF Target
<1>3. devices'[p] = SetLastUsed(list, i, list[i])
  BY <1>2 DEF Delivered, Inv, TypeOK
<1>4. d.screen # None /\ d.screen.token # None
  BY <1>2 DEF Armed, Inv, CallInv
<1>5. devices'[p] = Book!Chosen(list, i)
  BY <1>3, BookTerms
<1> HIDE DEF i, list
<1> QED
  BY <1>1, <1>4, <1>5 DEF Book!Used

\* Each step of the one process keeps its list ahead of the file in one of the ways
\* of Ahead.
LEMMA StepFollows ==
  ASSUME Inv, NEW p \in Procs, PlaceInv(p), Indexed, Indexed', FollowsFile(p),
         Begin(p) \/ Step(p) \/ Crash(p)
  PROVE  FollowsFile(p)'
<1> DEFINE old == Book!Entries
<1>0. /\ pc \in [Procs -> Steps] /\ devices \in [Procs -> Seq(Device)]
      /\ devices[p] \in Seq(Device) /\ devices[p] # None
      /\ pc[p] \in Working => at[p] # 0
      /\ file' = file => Book!Entries' = old
  BY FileAssumption DEF Inv, TypeOK, Indexed, Book!Entries
<1>1. SUFFICES ASSUME pc'[p] \notin Idle PROVE FollowsFile(p)'
  BY Places DEF FollowsFile
\* A step from one place of the call to another, both of them past the load.
<1>2. ASSUME NEW step, step \notin {"migrated"}, pc'[p] = step,
             pc[p] \notin Idle \cup {"migrated"}, file' = file,
             Ahead(step, old, devices'[p], at'[p])
      PROVE  FollowsFile(p)'
  BY <1>0, <1>2 DEF FollowsFile
<1>3. CASE Begin(p)
  <2>1. PICK c \in Calls :
          \/ /\ file # None
             /\ devices' = [devices EXCEPT ![p] = file]
             /\ GoTo(p, c.op)
          \/ /\ file = None
             /\ devices' = [devices EXCEPT ![p] = Ytcast]
             /\ GoTo(p, IF Ytcast = <<>> THEN c.op ELSE "migrated")
    BY <1>3 DEF Begin
  <2>2. c.op \in Op /\ file' = file
    BY <1>3, OpenSteps DEF Begin
  <2>3. CASE file # None \/ Ytcast = <<>>
    <3>1. pc'[p] = c.op /\ devices'[p] = old
      BY <1>0, <2>1, <2>2, <2>3 DEF GoTo, Book!Entries
    <3>2. Ahead(c.op, old, devices'[p], at'[p])
      BY <2>2, <3>1, Places DEF Ahead
    <3>3. Ahead(pc'[p], Book!Entries', devices'[p], at'[p])
      BY <1>0, <2>2, <3>1, <3>2
    <3>4. pc'[p] # "migrated" /\ (file' = None => Ytcast = <<>>)
      BY <2>2, <2>3, <3>1, Places
    <3> QED
      BY <3>3, <3>4 DEF FollowsFile
  <2>4. CASE file = None /\ Ytcast # <<>>
    BY <1>0, <2>1, <2>2, <2>4 DEF GoTo, FollowsFile
  <2> QED
    BY <2>3, <2>4
<1>4. CASE SaveMigrated(p) \/ SaveCache(p)
  <2>1. /\ file' = devices[p] /\ devices' = devices /\ at' = at
        /\ \/ pc[p] = "migrated" /\ GoTo(p, call[p].op)
           \/ pc[p] \in Saving /\ GoTo(p, AfterSave[pc[p]])
    BY <1>0, <1>1, <1>4 DEF SaveMigrated, SaveCache, Raise, GoTo, Idle
  <2>2. file' # None /\ Book!Entries' = devices[p]
    BY <1>0, <2>1 DEF Book!Entries
  <2>3. pc'[p] # "migrated" /\ Ahead(pc'[p], devices[p], devices[p], at[p])
    <3>1. CASE pc[p] = "migrated"
      <4>1. pc'[p] = call[p].op /\ call[p].op \in Op
        BY <1>0, <2>1, <3>1, InvOf, OpenSteps, Places DEF GoTo, Saving, AfterSave
      <4> QED
        BY <4>1, Places DEF Ahead
    <3>2. CASE pc[p] \in Saving
      <4>1. pc'[p] \in {"renew", "send", "resend"}
        BY <1>0, <2>1, <3>2 DEF GoTo, Saving, AfterSave
      <4>2. at[p] \in DOMAIN devices[p]
        BY <1>0, <3>2, InvOf DEF Working
      <4>3. Tuned(devices[p], devices[p], at[p])
        BY <1>0, <4>2, TunedAtFirst
      <4> QED
        BY <4>1, <4>3, Places DEF Ahead, Op
    <3> QED
      BY <2>1, <3>1, <3>2
  <2> QED
    BY <2>1, <2>2, <2>3 DEF FollowsFile
<1>5. ~ (Finish(p) \/ ListDevices(p) \/ Crash(p) \/ Raise(p))
  BY <1>0, <1>1 DEF Finish, ListDevices, Crash, Return, Raise, GoTo, Idle
<1>6. CASE Pair(p) \/ Attach(p) \/ Add(p)
  <2>1. /\ pc[p] \in Op /\ pc'[p] = "finish" /\ file' = file
        /\ pc[p] \notin Idle \cup {"migrated"}
    BY <1>0, <1>5, <1>6, Places DEF Pair, Attach, Add, GoTo, Op
  <2>2. devices[p] = old
    BY <2>1 DEF FollowsFile, Ahead
  <2>3. Recorded(old, devices'[p])
    BY <1>5, <1>6, <2>2, PairRecords, AttachRecords, AddRecords DEF Recorded
  <2>4. Ahead("finish", old, devices'[p], at'[p])
    BY <2>3, Places DEF Ahead, Op, CastSteps
  <2> QED
    BY <1>2, <2>1, <2>4
<1>7. CASE Search(p)
  <2>1. pc[p] = "discover" /\ pc'[p] = "merge" /\ file' = file /\ devices' = devices
    BY <1>0, <1>1, <1>5, <1>7 DEF Search, Return, GoTo, Idle
  <2>2. devices[p] = old
    BY <2>1 DEF FollowsFile, Ahead, Op, Idle
  <2>3. Book!Discovered(old, old)
    BY DEF Book!Discovered
  <2>4. Ahead("merge", old, devices'[p], at'[p])
    BY <2>1, <2>2, <2>3 DEF Ahead, Op, CastSteps
  <2> QED
    BY <1>2, <2>1, <2>4 DEF Idle
<1>8. CASE Merge(p)
  <2>1. pc[p] = "merge" /\ pc'[p] \in {"merge", "finish"} /\ file' = file
    BY <1>0, <1>8 DEF Merge, GoTo
  <2>2. Book!Discovered(old, devices[p])
    BY <2>1 DEF FollowsFile, Ahead, Idle
  <2>3. Book!Discovered(old, devices'[p])
    BY <1>8, <2>2, MergeDiscovers
  <2>4. Ahead(pc'[p], old, devices'[p], at'[p])
    BY <2>1, <2>3 DEF Ahead, Recorded, Op, CastSteps
  <2> QED
    BY <1>2, <2>1, <2>4 DEF Idle
<1>9. CASE Select(p)
  <2>1. /\ pc[p] = "cast" /\ pc'[p] = "launch" /\ file' = file /\ devices' = devices
        /\ at'[p] \in 0 .. Len(devices[p])
    BY <1>0, <1>5, <1>9 DEF Select, GoTo, Inv, TypeOK
  <2>2. devices[p] = old
    BY <2>1 DEF FollowsFile, Ahead, Op, Idle
  <2>3. at'[p] \in DOMAIN devices[p]
    BY <1>0, <2>1, InvOf DEF Indexed, Working
  <2>4. Tuned(old, devices'[p], at'[p])
    BY <1>0, <2>1, <2>2, <2>3, TunedAtFirst
  <2>5. Ahead("launch", old, devices'[p], at'[p])
    BY <2>1, <2>2, <2>4 DEF Ahead
  <2> QED
    BY <1>2, <2>1, <2>5 DEF Idle
<1>10. CASE Launch(p)
  <2>1. pc[p] = "launch" /\ at[p] # 0 /\ devices[p] = old
    BY <1>0, <1>10 DEF Launch, Working, FollowsFile, Ahead, Idle
  <2>2. /\ Tuned(old, devices'[p], at'[p])
        /\ pc'[p] \in {"renew", "learned"} /\ file' = file
    BY <1>5, <1>10, <2>1, LaunchFollows
  <2>3. Ahead(pc'[p], old, devices'[p], at'[p])
    BY <2>2 DEF Ahead, Op
  <2> QED
    BY <1>2, <2>1, <2>2, <2>3 DEF Idle
<1>11. CASE Renew(p) \/ Retry(p)
  <2>1. /\ pc[p] \in {"renew", "retry"} /\ file' = file /\ at' = at
        /\ \/ pc'[p] = "send" /\ devices' = devices
           \/ pc'[p] \in {"renewed", "retried"} /\ Refresh(p)
        /\ Target(p).screen # None
    BY <1>0, <1>5, <1>11 DEF Renew, Retry, GoTo, Armed, Inv, CallInv
  <2>2. Tuned(old, devices[p], at[p]) /\ at[p] # 0
    BY <1>0, <2>1 DEF FollowsFile, Ahead, CastSteps, Idle, Working
  <2>3. Tuned(old, devices'[p], at'[p])
    BY <2>1, <2>2, RefreshFollows
  <2>4. Ahead(pc'[p], old, devices'[p], at'[p])
    BY <2>1, <2>3 DEF Ahead, Op
  <2> QED
    BY <1>2, <2>1, <2>4 DEF Idle
<1>12. CASE Send(p) \/ Resend(p)
  <2>1. /\ pc[p] \in {"send", "resend"} /\ file' = file /\ at' = at
        /\ \/ pc'[p] = "finish" /\ Delivered(p)
           \/ pc'[p] = "retry" /\ devices' = devices
    BY <1>0, <1>5, <1>12 DEF Send, Resend, Delivered, GoTo
  <2>2. Tuned(old, devices[p], at[p]) /\ at[p] # 0
    BY <1>0, <2>1 DEF FollowsFile, Ahead, CastSteps, Idle, Working
  <2>3. CASE pc'[p] = "retry"
    BY <1>2, <2>1, <2>2, <2>3 DEF Ahead, Op, Idle
  <2>4. CASE pc'[p] = "finish"
    <3>1. Recorded(old, devices'[p])
      BY <2>1, <2>2, <2>4, DeliveredRecords DEF Recorded
    <3>2. Ahead("finish", old, devices'[p], at'[p])
      BY <3>1 DEF Ahead, Op, CastSteps
    <3> QED
      BY <1>2, <2>1, <2>4, <3>2 DEF Idle
  <2> QED
    BY <2>1, <2>3, <2>4
<1> QED
  BY <1>3, <1>4, <1>5, <1>6, <1>7, <1>8, <1>9, <1>10, <1>11, <1>12 DEF Step

LEMMA NextFollowsFile ==
  ASSUME OneProcess, Inv, Placed, Indexed, Indexed', \A p \in Procs : FollowsFile(p), [Next]_vars
  PROVE  (\A p \in Procs : FollowsFile(p))'
<1>1. CASE UNCHANGED vars
  BY <1>1 DEF vars, FollowsFile, Book!Entries
<1>2. ASSUME NEW p \in Procs, Begin(p) \/ Step(p) \/ Crash(p) PROVE (\A q \in Procs : FollowsFile(q))'
  <2>1. FollowsFile(p)'
    BY <1>2, StepFollows DEF Placed
  <2> QED
    BY <2>1 DEF OneProcess
<1> QED
  BY <1>1, <1>2 DEF Next

\* To a single user the file is the book of DeviceBook.tla: however long a call had
\* its list, what it writes is one entry of the book paired, attached, added or
\* used, or the answers of one search, as long as callers pass no Device objects.
THEOREM FileIsABook ==
  ASSUME \A c \in Calls : c.sel # "device", OneProcess
  PROVE  Spec => IsBook
<1>1. Init => Book!Init /\ Indexed /\ \A p \in Procs : FollowsFile(p)
  <2>1. "start" \in Idle /\ "start" # "migrated" /\ "start" \notin Working
    BY DEF Idle, Working, Saving, AfterSave
  <2> QED
    BY <2>1 DEF Init, Book!Init, Indexed, FollowsFile
<1>2. ASSUME Inv, Inv', Placed, \A p \in Procs : FollowsFile(p), [Next]_vars
      PROVE  [Book!Next]_file
  <2> SUFFICES ASSUME file' # file PROVE Book!Next
    OBVIOUS
  <2>1. PICK p \in Procs : Begin(p) \/ Step(p) \/ Crash(p)
    BY <1>2 DEF Next, vars
  <2>2. Writes(p) \/ (Closes(p) /\ pc[p] = "finish" /\ file' = devices[p])
    BY <1>2, <2>1, StepOnLists DEF Placed, Opens, Works, Closes
  <2>3. file' = devices[p] /\ pc[p] \in Saving \cup {"migrated", "finish"}
    BY <2>2 DEF Writes
  <2>4. CASE pc[p] = "migrated"
    BY <1>2, <2>3, <2>4 DEF FollowsFile, Book!Next, Book!Adopt
  <2>5. CASE pc[p] \in Saving \cup {"finish"}
    <3>1. pc[p] \notin Idle \cup {"migrated"}
      BY <2>5 DEF Saving, AfterSave, Idle
    <3>2. (file = None => Ytcast = <<>>) /\ Ahead(pc[p], Book!Entries, devices[p], at[p])
      BY <1>2, <3>1 DEF FollowsFile
    <3>3. Recorded(Book!Entries, file')
      BY <2>3, <2>5, <3>2, Places, TunedIsUse DEF Ahead, Recorded
    <3>4. file' \in Seq(Book!Device)
      <4>1. file' \in Seq(Device)
        BY <1>2, <2>3 DEF Inv, TypeOK
      <4> QED
        BY <4>1, BookTerms
    <3> QED
      BY <3>2, <3>3, <3>4 DEF Recorded, Book!Next, Book!Record
  <2> QED
    BY <2>3, <2>4, <2>5
<1> QED
  BY <1>1, <1>2, Invariance, Placing, NextKeepsIndexed, NextFollowsFile, PTL
     DEF Spec, IsBook, Book!Spec
-----------------------------------------------------------------------------
(* How long a call can go on: the safety half of CallsEnd.                   *)

\* An upper bound on the steps a call still makes, by where it is.
Left ==
  [start |-> 0, returned |-> 0, raised |-> 0, finish |-> 1, merge |-> 1,
   resend |-> 2, retried |-> 3, retry |-> 4, send |-> 5, renewed |-> 6, renew |-> 7,
   learned |-> 8, launch |-> 9, cast |-> 10, devices |-> 10, pair |-> 10, attach |-> 10,
   add |-> 10, discover |-> 10 + Cardinality(Replies), migrated |-> 11 + Cardinality(Replies)]

StepsLeft(p) == Left[pc[p]] + Cardinality(todo[p])

LEMMA StepShortens ==
  ASSUME IsFiniteSet(Replies), Inv, NEW p \in Procs, Step(p)
  PROVE  StepsLeft(p) \in Nat /\ StepsLeft(p)' \in Nat /\ StepsLeft(p)' < StepsLeft(p)
<1> DEFINE n == Cardinality(Replies)
           k == Cardinality(todo[p])
<1>1. /\ pc \in [Procs -> Steps] /\ todo \in [Procs -> SUBSET Replies]
      /\ n \in Nat /\ k \in Nat
      /\ \A S \in SUBSET Replies : Cardinality(S) \in Nat /\ Cardinality(S) <= n
      /\ Cardinality({}) = 0
  BY FS_Subset, FS_CardinalityType, FS_EmptySet DEF Inv, TypeOK
<1>2. Left[pc[p]] \in Nat /\ (pc[p] \notin Idle => Left[pc[p]] # 0)
  BY <1>1 DEF Left, Steps, Idle, Op, Saving, AfterSave
<1> HIDE DEF n, k
<1>3. pc[p] \notin Idle
  BY DEF Step, SaveMigrated, SaveCache, Finish, ListDevices, Pair, Attach, Add, Search,
         Merge, Select, Launch, Renew, Send, Retry, Resend, Idle, Saving, AfterSave
\* The call is over.
<1>4. ASSUME pc'[p] \in {"returned", "raised"}, todo'[p] = {}
      PROVE  StepsLeft(p)' = 0 /\ StepsLeft(p) \in Nat /\ 0 < StepsLeft(p)
  <2>1. Left[pc'[p]] = 0
    BY <1>4 DEF Left
  <2> QED
    BY <1>1, <1>2, <1>3, <1>4, <2>1 DEF StepsLeft, k
\* The call goes on and its search results stay.
<1>5. ASSUME NEW step, pc'[p] = step, todo'[p] = todo[p],
             Left[step] \in Nat, Left[step] < Left[pc[p]]
      PROVE  StepsLeft(p) \in Nat /\ StepsLeft(p)' \in Nat /\ StepsLeft(p)' < StepsLeft(p)
  <2>1. StepsLeft(p)' = Left[step] + k /\ StepsLeft(p) = Left[pc[p]] + k
    BY <1>5 DEF StepsLeft, k
  <2> QED
    BY <1>1, <1>2, <1>5, <2>1
<1>6. CASE Raise(p) \/ Finish(p) \/ ListDevices(p) \/ (Search(p) /\ Return(p, None))
  <2>1. pc'[p] \in {"returned", "raised"} /\ todo'[p] = {}
    BY <1>1, <1>6 DEF Raise, Finish, ListDevices, Return, Forget, GoTo
  <2> QED
    BY <1>4, <2>1
<1>7. CASE Search(p) /\ ~Raise(p) /\ ~Return(p, None)
  <2>1. /\ pc[p] = "discover" /\ pc'[p] = "merge" /\ todo'[p] \in SUBSET Replies
    BY <1>1, <1>7 DEF Search, GoTo
  <2>2. Left[pc[p]] = 10 + n /\ Left[pc'[p]] = 1
    BY <2>1 DEF Left, n
  <2>3. Cardinality(todo'[p]) \in Nat /\ Cardinality(todo'[p]) <= n
    BY <1>1, <2>1
  <2> QED
    BY <1>1, <2>2, <2>3 DEF StepsLeft, k
<1>8. CASE Merge(p)
  <2>1. PICK r \in todo[p] :
          /\ pc[p] = "merge" /\ pc'[p] \in {"merge", "finish"}
          /\ todo'[p] = todo[p] \ {r}
    BY <1>1, <1>8 DEF Merge, GoTo
  <2>2. IsFiniteSet(todo[p])
    BY <1>1, FS_Subset
  <2>3. Cardinality(todo'[p]) = k - 1
    BY <2>1, <2>2, FS_RemoveElement DEF k
  <2>4. Left[pc[p]] = 1 /\ Left[pc'[p]] = 1
    BY <2>1 DEF Left
  <2>5. k # 0
    BY <2>1, <2>2, FS_EmptySet DEF k
  <2> QED
    BY <1>1, <2>3, <2>4, <2>5 DEF StepsLeft, k
<1>9. CASE SaveMigrated(p) /\ ~Raise(p)
  <2>1. /\ pc[p] = "migrated" /\ pc'[p] = call[p].op /\ call[p].op \in Op /\ todo'[p] = todo[p]
    BY <1>1, <1>3, <1>9, InvOf, OpenSteps DEF SaveMigrated, GoTo
  <2>2. Left[pc[p]] = 11 + n /\ Left[call[p].op] \in {10, 10 + n}
    BY <2>1 DEF Left, Op, n
  <2> QED
    BY <1>1, <1>5, <2>1, <2>2
<1>10. CASE SaveCache(p) /\ ~Raise(p)
  <2>1. /\ todo'[p] = todo[p]
        /\ \/ pc[p] = "learned" /\ pc'[p] = "renew"
           \/ pc[p] = "renewed" /\ pc'[p] = "send"
           \/ pc[p] = "retried" /\ pc'[p] = "resend"
    BY <1>1, <1>10 DEF SaveCache, GoTo, Saving, AfterSave
  <2>2. Left[pc'[p]] \in Nat /\ Left[pc'[p]] < Left[pc[p]]
    BY <2>1 DEF Left
  <2> QED
    BY <1>5, <2>1, <2>2
<1>11. CASE (Pair(p) \/ Attach(p) \/ Add(p) \/ Select(p)) /\ ~Raise(p)
  <2>1. /\ todo'[p] = todo[p]
        /\ pc[p] \in {"pair", "attach", "add", "cast"} /\ pc'[p] \in {"finish", "launch"}
    BY <1>1, <1>11 DEF Pair, Attach, Add, Select, GoTo
  <2>2. Left[pc'[p]] \in {1, 9} /\ Left[pc[p]] = 10
    BY <2>1 DEF Left
  <2> QED
    BY <1>5, <2>1, <2>2
<1>12. CASE (Launch(p) \/ Renew(p) \/ Send(p) \/ Retry(p) \/ Resend(p)) /\ ~Raise(p)
  <2>1. /\ todo'[p] = todo[p]
        /\ \/ pc[p] = "launch" /\ pc'[p] \in {"renew", "learned"}
           \/ pc[p] = "renew" /\ pc'[p] \in {"send", "renewed"}
           \/ pc[p] = "send" /\ pc'[p] \in {"finish", "retry"}
           \/ pc[p] = "retry" /\ pc'[p] = "retried"
           \/ pc[p] = "resend" /\ pc'[p] = "finish"
    BY <1>1, <1>12 DEF Launch, Renew, Send, Retry, Resend, Delivered, GoTo
  <2>2. Left[pc'[p]] \in Nat /\ Left[pc'[p]] < Left[pc[p]]
    BY <2>1 DEF Left
  <2> QED
    BY <1>5, <2>1, <2>2
<1> QED
  BY <1>6, <1>7, <1>8, <1>9, <1>10, <1>11, <1>12 DEF Step

\* Every step of a call brings it nearer to its end, the retry after a session
\* error included: after its load a call makes at most eleven steps, and one for
\* each device a search may find.  For CallsEnd it remains that no step is put off
\* for ever.
THEOREM CallsGetShorter ==
  ASSUME IsFiniteSet(Replies)
  PROVE  Spec => [][\A p \in Procs : Step(p) => StepsLeft(p)' < StepsLeft(p)]_vars
<1>1. ASSUME Inv, [Next]_vars
      PROVE  [\A p \in Procs : Step(p) => StepsLeft(p)' < StepsLeft(p)]_vars
  BY <1>1, StepShortens
<1> QED
  BY <1>1, Invariance, PTL DEF Spec
============================================================================
