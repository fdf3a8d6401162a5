-------------------------------- MODULE Yttv --------------------------------
(***************************************************************************)
(* The library API of yttv (src/yttv/api.py): devices, pair, attach,      *)
(* add_device, discover and cast, called by several processes that share   *)
(* one devices.json.  Every call loads the whole file into fresh objects,  *)
(* works on its own list across any number of network requests, and writes *)
(* the whole list back; nothing is locked in between.  Each network        *)
(* request, and each write of the file, is one action; a process may die   *)
(* between any two of them.  A write is atomic here (CacheFile.tla).       *)
(*                                                                         *)
(* The answers of televisions and of the Lounge service are chosen freely  *)
(* among those the code tells apart.                                       *)
(***************************************************************************)
EXTENDS Devices, FiniteSets

CONSTANTS
  Procs,     \* processes using the same cache file
  Calls,     \* the calls they make
  Replies,   \* the DIAL devices a search may find
  Ytcast,    \* what Migration.tla makes of ytcast's file, <<>> if nothing
  MaxCalls   \* bound: how many calls are made in a behaviour

Op == {"devices", "pair", "attach", "add", "discover", "cast"}

\* How the device argument selects: None, a string, or a Device object.
Selector == {"default", "needle", "device"}

Call == [op : Op, sel : Selector, backend : Backend, address : Opt(Address),
         usn : Opt(Usn), uuid : Opt(Uuid)]

Reply == [usn : Opt(Usn), address : Address]

ASSUME CallsAssumption == Calls \subseteq Call /\ None \notin Call
ASSUME RepliesAssumption == Replies \subseteq Reply
ASSUME MaxCallsAssumption == MaxCalls \in Nat
ASSUME FileAssumption == None \notin Seq(Device)

\* ytcast's entries always have a screen, and a token that came with it.
ASSUME YtcastAssumption ==
  /\ Ytcast \in Seq(Device)
  /\ \A i \in DOMAIN Ytcast : Ytcast[i].screen # None /\ TokenFits(Ytcast[i])

VARIABLES
  file,      \* the contents of devices.json, None while there is none
  pc,        \* where each process is in its call
  call,      \* the call it is making, None between calls
  devices,   \* the list its Cache loaded
  at,        \* the entry the call works on; 0: an object outside the list
  held,      \* the Device object the caller keeps from its last call, or None
  todo,      \* what its search found and did not merge yet
  calls      \* how many calls were made

vars == <<file, pc, call, devices, at, held, todo, calls>>

Idle == {"start", "returned", "raised"}

\* A save inside a call, and where the call goes on.
AfterSave == [learned |-> "renew", renewed |-> "send", retried |-> "resend"]
Saving == DOMAIN AfterSave

Steps == Idle \cup Op \cup Saving
           \cup {"migrated", "merge", "launch", "renew", "send", "retry", "resend", "finish"}

TypeOK ==
  /\ file \in Seq(Device) \cup {None}
  /\ pc \in [Procs -> Steps]
  /\ call \in [Procs -> Opt(Calls)]
  /\ devices \in [Procs -> Seq(Device)]
  /\ at \in [Procs -> Nat]
  /\ held \in [Procs -> Opt(Device)]
  /\ todo \in [Procs -> SUBSET Replies]
  /\ calls \in 0 .. MaxCalls

Init ==
  /\ file = None
  /\ pc = [p \in Procs |-> "start"]
  /\ call = [p \in Procs |-> None]
  /\ devices = [p \in Procs |-> <<>>]
  /\ at = [p \in Procs |-> 0]
  /\ held = [p \in Procs |-> None]
  /\ todo = [p \in Procs |-> {}]
  /\ calls = 0

-----------------------------------------------------------------------------
(* The target of a call: an entry of the loaded list or, when the caller    *)
(* passed a Device object, that object, which no loaded list contains.      *)

Target(p) == IF at[p] = 0 THEN held[p] ELSE devices[p][at[p]]

SetTarget(p, d) ==
  IF at[p] = 0
    THEN held' = [held EXCEPT ![p] = d] /\ UNCHANGED devices
    ELSE devices' = [devices EXCEPT ![p][at[p]] = d] /\ UNCHANGED held

GoTo(p, step) == pc' = [pc EXCEPT ![p] = step]

\* The call is over; its Cache goes with it.
Forget(p) ==
  /\ call' = [call EXCEPT ![p] = None]
  /\ devices' = [devices EXCEPT ![p] = <<>>]
  /\ at' = [at EXCEPT ![p] = 0]
  /\ todo' = [todo EXCEPT ![p] = {}]

Return(p, d) ==
  /\ GoTo(p, "returned")
  /\ held' = [held EXCEPT ![p] = d]
  /\ Forget(p)

Raise(p) == GoTo(p, "raised") /\ Forget(p) /\ UNCHANGED held

\* _select: which entry (0: the held object) the device argument means.  A
\* string matches any set of entries, and counts when it matches just one.
Selects(p, i) ==
  \/ call[p].sel = "device" /\ i = 0
  \/ call[p].sel = "default" /\ i = Default(devices[p]) /\ i # 0
  \/ call[p].sel = "needle" /\ i \in DOMAIN devices[p]

SelectsNone(p) ==
  \/ call[p].sel = "default" /\ Default(devices[p]) = 0
  \/ call[p].sel = "needle"

-----------------------------------------------------------------------------
(* Starting a call: _open_cache, that is Cache.load.                        *)

\* ytcast's devices are taken over, and saved, while there is no own file.
Begin(p) ==
  /\ pc[p] \in Idle
  /\ calls < MaxCalls
  /\ calls' = calls + 1
  /\ \E c \in Calls :
       /\ c.sel = "device" => held[p] # None
       /\ call' = [call EXCEPT ![p] = c]
       /\ \/ /\ file # None
             /\ devices' = [devices EXCEPT ![p] = file]
             /\ GoTo(p, c.op)
          \/ /\ file = None
             /\ devices' = [devices EXCEPT ![p] = Ytcast]
             /\ GoTo(p, IF Ytcast = <<>> THEN c.op ELSE "migrated")
  /\ UNCHANGED <<file, at, held, todo>>

\* The save at the end of a migration.
SaveMigrated(p) ==
  /\ pc[p] = "migrated"
  /\ \/ /\ file' = devices[p]
        /\ GoTo(p, call[p].op)
        /\ UNCHANGED <<call, devices, at, held, todo>>
     \/ Raise(p) /\ UNCHANGED file
  /\ UNCHANGED calls

\* A save in the middle of a cast.  Writing may fail with an OSError.
SaveCache(p) ==
  /\ pc[p] \in Saving
  /\ \/ /\ file' = devices[p]
        /\ GoTo(p, AfterSave[pc[p]])
        /\ UNCHANGED <<call, devices, at, held, todo>>
     \/ Raise(p) /\ UNCHANGED file
  /\ UNCHANGED calls

\* Mutant of Finish: an OSError of the save is swallowed.
Finish_Swallows(p) ==
  /\ pc[p] = "finish"
  /\ file' = devices[p] \/ UNCHANGED file
  /\ Return(p, Target(p))
  /\ UNCHANGED calls

\* The save every call but devices ends with, and its return.
Finish(p) ==
  /\ pc[p] = "finish"
  /\ \/ file' = devices[p] /\ Return(p, Target(p))
     \/ Raise(p) /\ UNCHANGED file
  /\ UNCHANGED calls

-----------------------------------------------------------------------------
(* The calls other than cast, from the loaded list to their save.           *)

\* devices(): the caller may go on with any of the returned objects.
ListDevices(p) ==
  /\ pc[p] = "devices"
  /\ \/ devices[p] = <<>> /\ Return(p, None)
     \/ \E i \in DOMAIN devices[p] : Return(p, devices[p][i])
  /\ UNCHANGED <<file, calls>>

\* pair: the Lounge service answers the code with a screen and its token.
Pair(p) ==
  /\ pc[p] = "pair"
  /\ \/ \E token \in Token :
          LET screen == [id |-> token.screen, token |-> token]
              known  == Find(devices[p], screen.id)
              fresh  == NewDevice(screen, None, None, None, None)
              i      == IF known = 0 THEN UpsertAt(devices[p], fresh) ELSE known
              list   == IF known = 0 THEN Upsert(devices[p], fresh)
                        ELSE [devices[p] EXCEPT ![known].screen = screen]
          IN  /\ devices' = [devices EXCEPT ![p] = SetLastUsed(list, i, list[i])]
              /\ at' = [at EXCEPT ![p] = i]
              /\ GoTo(p, "finish")
              /\ UNCHANGED <<call, held, todo>>
     \/ Raise(p)
  /\ UNCHANGED <<file, calls>>

\* Mutant of Attached: backend_data is replaced instead of updated.
Attached_Anew(d, c) ==
  [d EXCEPT !.backend = c.backend, !.address = c.address,
            !.usn = c.usn, !.uuid = c.uuid]

\* attach: the selected device gets a backend, an address and its data.
Attached(d, c) ==
  [d EXCEPT !.backend = c.backend, !.address = c.address,
            !.usn = Updated(@, c.usn), !.uuid = Updated(@, c.uuid)]

Attach(p) ==
  /\ pc[p] = "attach"
  /\ \/ \E i \in 0 .. Len(devices[p]) :
          LET d == Attached(IF i = 0 THEN held[p] ELSE devices[p][i], call[p])
          IN  /\ Selects(p, i)
              /\ at' = [at EXCEPT ![p] = i]
              /\ IF i = 0
                   THEN held' = [held EXCEPT ![p] = d] /\ UNCHANGED devices
                   ELSE devices' = [devices EXCEPT ![p][i] = d] /\ UNCHANGED held
              /\ GoTo(p, "finish")
              /\ UNCHANGED <<call, todo>>
     \/ SelectsNone(p) /\ Raise(p)
  /\ UNCHANGED <<file, calls>>

\* add_device: found again by its identity, or a new entry.
Add(p) ==
  /\ pc[p] = "add"
  /\ LET c     == call[p]
         fresh == NewDevice(None, c.backend, c.address, c.usn, c.uuid)
         known == IF Identity(fresh) = None THEN 0
                  ELSE FindService(devices[p], Identity(fresh))
     IN  IF known # 0
           THEN /\ devices' = [devices EXCEPT ![p][known] = Attached(@, c)]
                /\ at' = [at EXCEPT ![p] = known]
           ELSE /\ devices' = [devices EXCEPT ![p] = Upsert(@, fresh)]
                /\ at' = [at EXCEPT ![p] = UpsertAt(devices[p], fresh)]
  /\ GoTo(p, "finish")
  /\ UNCHANGED <<file, call, held, todo, calls>>

\* discover: one search; nothing found, nothing saved.
Search(p) ==
  /\ pc[p] = "discover"
  /\ \/ \E found \in SUBSET Replies :
          /\ found # {}
          /\ todo' = [todo EXCEPT ![p] = found]
          /\ GoTo(p, "merge")
          /\ UNCHANGED <<call, devices, at, held>>
     \/ Return(p, None)
     \/ Raise(p)
  /\ UNCHANGED <<file, calls>>

\* discover merges the replies one by one, in the order they came.  The
\* caller may go on with any of the devices discover returns.
Merge(p) ==
  /\ pc[p] = "merge"
  /\ \E r \in todo[p] :
       LET known == IF r.usn = None THEN 0 ELSE FindService(devices[p], r.usn)
           fresh == NewDevice(None, "dial", r.address, r.usn, None)
           i     == IF known = 0 THEN UpsertAt(devices[p], fresh) ELSE known
       IN  /\ devices' =
                [devices EXCEPT ![p] =
                   IF known = 0 THEN Upsert(@, fresh)
                   ELSE [@ EXCEPT ![known].address = r.address,
                                  ![known].backend = "dial"]]
           /\ \/ at' = [at EXCEPT ![p] = i]
              \/ at[p] # 0 /\ UNCHANGED at
           /\ todo' = [todo EXCEPT ![p] = @ \ {r}]
           /\ GoTo(p, IF todo[p] = {r} THEN "finish" ELSE "merge")
  /\ UNCHANGED <<file, call, held, calls>>

-----------------------------------------------------------------------------
(* cast, in the order of its network requests.                              *)

\* Mutant of Select: the device is marked before it has played.
Select_Marks(p) ==
  /\ pc[p] = "cast"
  /\ \/ \E i \in DOMAIN devices[p] :
          /\ Selects(p, i)
          /\ at' = [at EXCEPT ![p] = i]
          /\ devices' = [devices EXCEPT ![p] = SetLastUsed(@, i, devices[p][i])]
          /\ GoTo(p, "launch")
          /\ UNCHANGED <<call, held, todo>>
     \/ SelectsNone(p) /\ Raise(p)
  /\ UNCHANGED <<file, calls>>

Select(p) ==
  /\ pc[p] = "cast"
  /\ \/ \E i \in 0 .. Len(devices[p]) :
          /\ Selects(p, i)
          /\ at' = [at EXCEPT ![p] = i]
          /\ GoTo(p, "launch")
          /\ UNCHANGED <<call, devices, held, todo>>
     \/ SelectsNone(p) /\ Raise(p)
  /\ UNCHANGED <<file, calls>>

\* Mutants of Learned: the id is assigned to the Screen that is there; the id
\* is taken for a Screen.
Learned_KeepsToken(d, id) ==
  [d EXCEPT !.screen = [id |-> id, token |-> IF @ = None THEN None ELSE @.token]]
Learned_BareId(d, id) ==
  IF d.screen # None /\ d.screen.id = id THEN d ELSE [d EXCEPT !.screen = id]

\* The device after a launcher saw the screen id its app reports: another id
\* brings a Screen without a token.
Learned(d, id) ==
  IF d.screen # None /\ d.screen.id = id THEN d
  ELSE [d EXCEPT !.screen = [id |-> id, token |-> None]]

\* What the launcher of its backend may make of device d.
Launched(d) ==
  CASE d.backend = None      -> {d}
    [] d.backend = "appletv" -> IF d.address = None THEN {} ELSE {d}
    [] d.backend = "dial"    -> {Learned(d, id) : id \in ScreenId}
    [] d.backend = "cast"    ->
         IF d.address = None THEN {}
         ELSE {[Learned(d, id) EXCEPT !.uuid = SetDefault(@, uuid)] :
                 id \in ScreenId, uuid \in Uuid}

\* get_launcher and launch.  A new Screen object is saved at once.
Launch(p) ==
  /\ pc[p] = "launch"
  /\ \/ \E d \in Launched(Target(p)) :
          /\ SetTarget(p, d)
          /\ GoTo(p, IF d.screen = Target(p).screen THEN "renew" ELSE "learned")
          /\ UNCHANGED <<call, at, todo>>
     \/ Target(p).backend # None /\ Raise(p)
  /\ UNCHANGED <<file, calls>>

\* lounge.refresh: the same screen with a token issued for it.
Refresh(p) ==
  \E tag \in Tag :
    SetTarget(p, [Target(p) EXCEPT
                    !.screen.token = [screen |-> Target(p).screen.id, tag |-> tag]])

\* _fresh_screen: a screen without a token has expired, another one may have.
Renew(p) ==
  /\ pc[p] = "renew"
  /\ \/ /\ Target(p).screen # None
        /\ \/ /\ Target(p).screen.token # None
              /\ GoTo(p, "send")
              /\ UNCHANGED <<devices, held>>
           \/ Refresh(p) /\ GoTo(p, "renewed")
        /\ UNCHANGED <<call, at, todo>>
     \/ Raise(p)
  /\ UNCHANGED <<file, calls>>

\* Mutant of Delivered: the device is not marked.
Delivered_Unmarked(p) ==
  GoTo(p, "finish") /\ UNCHANGED <<call, devices, at, held, todo>>

\* _send succeeded: the target becomes the default.
Delivered(p) ==
  /\ devices' = [devices EXCEPT ![p] = SetLastUsed(@, at[p], Target(p))]
  /\ GoTo(p, "finish")
  /\ UNCHANGED <<call, at, held, todo>>

\* _send: delivered, or a session error, or any other error of the service.
Send(p) ==
  /\ pc[p] = "send"
  /\ \/ Delivered(p)
     \/ GoTo(p, "retry") /\ UNCHANGED <<call, devices, at, held, todo>>
     \/ Raise(p)
  /\ UNCHANGED <<file, calls>>

\* Mutant of Retry: the refreshed token is not saved before it is used.
Retry_Unsaved(p) ==
  /\ pc[p] = "retry"
  /\ \/ Refresh(p) /\ GoTo(p, "resend") /\ UNCHANGED <<call, at, todo>>
     \/ Raise(p)
  /\ UNCHANGED <<file, calls>>

\* After a session error: one refresh,
Retry(p) ==
  /\ pc[p] = "retry"
  /\ \/ Refresh(p) /\ GoTo(p, "retried") /\ UNCHANGED <<call, at, todo>>
     \/ Raise(p)
  /\ UNCHANGED <<file, calls>>

\* Mutant of Resend: a session error is retried again.
Resend_Again(p) ==
  /\ pc[p] = "resend"
  /\ \/ Delivered(p)
     \/ GoTo(p, "retry") /\ UNCHANGED <<call, devices, at, held, todo>>
     \/ Raise(p)
  /\ UNCHANGED <<file, calls>>

\* and one more attempt, whose errors are final.
Resend(p) ==
  /\ pc[p] = "resend"
  /\ Delivered(p) \/ Raise(p)
  /\ UNCHANGED <<file, calls>>

-----------------------------------------------------------------------------
\* The process dies, or ends between two calls; what it did not save is gone.
Crash(p) ==
  /\ pc[p] # "start"
  /\ GoTo(p, "start")
  /\ held' = [held EXCEPT ![p] = None]
  /\ Forget(p)
  /\ UNCHANGED <<file, calls>>

Step(p) ==
  \/ SaveMigrated(p) \/ SaveCache(p) \/ Finish(p)
  \/ ListDevices(p) \/ Pair(p) \/ Attach(p) \/ Add(p) \/ Search(p) \/ Merge(p)
  \/ Select(p) \/ Launch(p) \/ Renew(p) \/ Send(p) \/ Retry(p) \/ Resend(p)

Next == \E p \in Procs : Begin(p) \/ Step(p) \/ Crash(p)

Spec == Init /\ [][Next]_vars

\* A call that started goes on: every request of it answers or times out.
FairSpec == Spec /\ \A p \in Procs : WF_vars(Step(p))

-----------------------------------------------------------------------------
(* What some of the properties ask of those who call, and of ytcast.        *)

OneProcess == \A p, q \in Procs : p = q

\* Identities come from discover and add_device: attach gives none to an entry,
\* and no entry to the Cast launcher, which would give it one.
KeepIdentities(made) ==
  \A c \in made :
    /\ c.op = "attach" /\ c.sel # "device" =>
         c.backend # "cast" /\ c.usn = None /\ c.uuid = None
    /\ c.op = "add" /\ c.backend = "cast" => c.usn # None \/ c.uuid # None

KeepUsns(made) ==
  \A c \in made : c.op = "attach" /\ c.sel # "device" => c.usn = None

\* Identities are distinct, and every Cast device has one.
Named(devs) ==
  /\ \A i, j \in DOMAIN devs :
       Identity(devs[i]) # None /\ Identity(devs[i]) = Identity(devs[j]) => i = j
  /\ \A i \in DOMAIN devs : devs[i].backend = "cast" => Identity(devs[i]) # None

-----------------------------------------------------------------------------
(* Properties.                                                              *)

\* Videos are only ever sent with a token, and with one issued for the very
\* screen they are sent to: no launcher, refresh, stale load or foreign save
\* can leave a screen id with the token of another screen (cast, _fresh_screen
\* and the launchers).
TokenForItsScreen ==
  \A p \in Procs : pc[p] \in {"send", "resend"} =>
    /\ Target(p).screen # None
    /\ Target(p).screen.token # None
    /\ TokenFits(Target(p))

\* Why it holds: tokens fit everywhere, in the file, in every loaded list and
\* in every object a caller holds, and each step of a cast has established what
\* the next one needs of its target.
Working == Saving \cup {"launch", "renew", "send", "retry", "resend", "finish"}
Armed == {"renewed", "retried", "send", "retry", "resend"}

CallInv(p) ==
  /\ pc[p] \in Idle => at[p] = 0
  /\ pc[p] \notin Idle => call[p] # None
  /\ call[p] # None /\ call[p].sel = "device" => held[p] # None
  /\ at[p] <= Len(devices[p])
  /\ pc[p] \in Working => Target(p) # None
  /\ pc[p] \in Armed => Target(p).screen # None /\ Target(p).screen.token # None
  /\ AllFit(devices[p])
  /\ held[p] # None => TokenFits(held[p])

Inv ==
  /\ TypeOK
  /\ file # None => AllFit(file)
  /\ \A p \in Procs : CallInv(p)

\* The screen and token a cast is about to use are on disk before the request
\* goes out, so that a crash or an error of the service loses neither a
\* learned screen id nor a renewed token (the saves at api.py:177, 136, 186).
TokenSavedBeforeUse ==
  \A p \in Procs : pc[p] \in {"send", "resend"} =>
    /\ file # None
    /\ at[p] \in DOMAIN file
    /\ file[at[p]].screen = Target(p).screen

\* No two entries of the file describe the same DIAL service or the same Cast
\* device, whatever was added, discovered and cast to (find_service before
\* every upsert, setdefault in CastLauncher).
UniqueIdentity ==
  file # None =>
    \A i, j \in DOMAIN file :
      Identity(file[i]) # None /\ Identity(file[i]) = Identity(file[j]) => i = j

\* At most one entry of the file is the default: set_last_used is "the one to
\* use by default" (cache.py:183).
AtMostOneDefault ==
  file # None =>
    \A i, j \in DOMAIN file : file[i].last_used /\ file[j].last_used => i = j

\* p's call saved its list for the last time and returns.
Saves(p) == pc[p] = "finish" /\ pc'[p] = "returned"

\* What a call returns is what the file now says about that device: the
\* caller's object and the file do not drift apart.
ReturnedIsSaved ==
  [][\A p \in Procs : Saves(p) =>
        \E i \in DOMAIN file' : file'[i] = held'[p]]_vars

\* Once a default exists, no save leaves the file without one.
DefaultKept ==
  [][file # None /\ LastUsed(file) # 0 /\ file' # file => LastUsed(file') # 0]_vars

\* After cast and pair, the screen they used is the one a call without a device
\* would take ("picks the last used screen by default"), also when other entries
\* name the same screen.
DefaultIsTarget ==
  [][\A p \in Procs : Saves(p) /\ call[p].op \in {"cast", "pair"} =>
        /\ Default(file') # 0
        /\ file'[Default(file')].screen # None
        /\ file'[Default(file')].screen.id = held'[p].screen.id]_vars

\* No save forgets what the file already knew: every entry stays in place, is
\* still the same device, keeps a screen once it has one and a way to reach it
\* once it has one.  Only the launchers for DIAL and Cast correct a screen id.
NothingForgotten ==
  [][file # None =>
       \A i \in DOMAIN file :
         /\ i \in DOMAIN file'
         /\ file[i].usn # None => file'[i].usn = file[i].usn
         /\ file[i].backend # None => file'[i].backend # None
         /\ file[i].screen # None =>
              /\ file'[i].screen # None
              /\ \/ file'[i].screen.id = file[i].screen.id
                 \/ file[i].backend \in {"dial", "cast"}]_vars

\* A search changes nothing of a device seen before but its address ("only
\* address and description are refreshed", api.py:302).
DiscoverRefreshesAddresses ==
  [][\A p \in Procs : Saves(p) /\ call[p].op = "discover" /\ file # None =>
        \A i \in DOMAIN file :
          /\ i \in DOMAIN file'
          /\ file'[i] = [file[i] EXCEPT !.address = file'[i].address]]_vars

\* To somebody who uses it alone, the file is a book in which each write records
\* what one call learned (DeviceBook.tla): a save at the end of a call, or in the
\* middle of a cast, changes no entry but the one the call is about, however long
\* the call had its list and wherever an earlier one crashed.
Book == INSTANCE DeviceBook WITH book <- file
IsBook == Book!Spec

\* Every call returns or raises: the retry after a session error is one retry.
CallsEnd == \A p \in Procs : pc[p] \notin Idle ~> pc[p] \in Idle
============================================================================
