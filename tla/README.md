# A TLA+ model of yttv

yttv sends YouTube videos to televisions from a command line or a Python
program. It remembers televisions in one JSON file, starts the YouTube app on
them through one of three backends (DIAL, Cast, Apple TV), and drives the app
through the Lounge API, which lives in another package (`ytlounge`). This
directory models what yttv keeps, in what order it changes it, and what happens
when several processes, threads and televisions do not wait for each other.

Line numbers refer to `src/yttv/` of the repository, tests to `tests/yttv/`.

## 1. Inventory

| Component | State | Operations | Talks to | What is hard |
|---|---|---|---|---|
| Device list, `cache.py` 41-185 | the `Device` objects of a `Cache`, each with a screen (id and lounge token), a backend, an address, an identity and the flag `last_used` | `find`, `find_service`, `upsert`, `set_last_used`, `last_used` | used by the API | entries are compared by screen id or by identity, and both change; the default is a flag on every entry |
| Cache file, `cache.py` 116-146, 188-198 | `devices.json` and temporary files | `save`, `load` | file system, other processes | crashes and failures between two steps, two saves at once |
| ytcast migration, `cache.py` 204-264 | none of its own | at every load while there is no own file | file system | two first runs; entries nobody expected |
| API, `api.py` | a `Cache` per call; the `Device` objects callers keep | `devices`, `pair`, `attach`, `add_device`, `discover`, `cast` | Lounge service, launchers, cache file | load, a long wait for the network, save: nothing is locked; the caller's objects belong to lists that are gone; one retry after a session error |
| Launcher registry, `backends/__init__.py` | the registered launchers | `get_launcher` | imports | none |
| DIAL launcher, `dial.py` 190-240 | the device's screen; a deadline | `launch` | HTTP, Wake-on-LAN | polling against a deadline, a television that is asleep, starting or without the app |
| SSDP search, `ssdp.py` 95-143 | a socket, the replies so far, a deadline | `search` | UDP | late, repeated and broken datagrams, a network that never stops talking |
| DIAL discovery, `dial.py` 74-184 | a pool of threads | `discover` | SSDP, HTTP | replies described at once, some of which fail |
| Cast launcher, `cast.py` | browser, connection, two events | `launch`, `probe` | pychromecast's threads | callbacks on other threads, clean-up |
| Apple TV, `appletv.py` | helper thread, pyatv's credentials | `launch`, `ensure_paired` | pyatv, the person with the PIN | the helper outlives a call that gave up |
| Command line, `cli.py` | the Device object of the last call, the exit code | `run`, `main` | API, doctor, launchers | a chain of calls that another process interleaves with; which errors become which exit code |
| Doctor, `doctor.py` | the replies of two searches | `run` | SSDP, HTTP | a verdict from two searches at different times |
| Package, `__init__.py` | none | re-exports | | none |

`PROJECT.json` lists the hazards one by one, each at its line, with the
properties that are about it.

## 2. Modules

```
            Migration ──┐
               │        ├── MCYttv           AtomicFile ◁── CacheFile ── CacheFileProofs
Devices ──── Yttv ──────┤
   │           │        └── CommandLine ── MCCommandLine
   │           │                 │
DevicesProofs ─┴─ YttvProofs ────┴── CommandLineProofs       Yttv ▷ DeviceBook

Ssdp ── Discovery ── MCDiscovery             Launcher ◁──┬── DialLauncher ── DialLauncherProofs
            │ ▷ Search                                   └── CastLauncher ── CastLauncherProofs
     DiscoveryProofs
                                             AppleTV ── AppleTVProofs         (◁ ▷ implements)
```

- **Devices** – the device list. A list is a sequence and a `Device` object of
  a loaded list is its index, so that `a is b` is equality of indices. A token
  carries the screen it was issued for: the code cannot see that, the
  properties can. Names, labels, expiry dates, locations and Wake-on-LAN data
  are abstracted.
- **Yttv** – the API. Any number of processes share `file`. A call is `Begin`
  (load, and `SaveMigrated` after a migration), one action per network request
  or save, and `Finish` (the last save and the return). `at` is the entry a
  call works on; `at = 0` is a `Device` object that the caller kept (`held`)
  and that is in no loaded list. What televisions and the Lounge service answer
  is chosen freely among what the code tells apart: a token is valid or
  expired, a send succeeds, is a session error or fails. `Crash` may come
  between any two actions. A search finds any subset of `Replies`, merged in
  any order; what a first load migrates is the constant `Ytcast`. Four
  predicates name what some properties ask of those who call: `OneProcess`,
  `KeepIdentities` and `KeepUsns` (what `attach` is given), and `Named` (ytcast's
  identities are distinct).
- **DeviceBook** – what somebody who uses yttv alone takes the file for: a book
  of televisions, in which each write records what one call learned (a pairing,
  another way to reach an entry, a new entry, the answers of a search, a cast)
  and nothing else. Yttv implements it with one process and no `Device` objects
  as arguments; `file` is the book.
- **Migration** – which devices are made of which entries of ytcast's file, and
  which entry makes the whole migration raise.
- **CommandLine** – `run` and `main` over Yttv. A command is the set of its
  options; `Plan` is the set of stages it has, `left` those not finished, and
  a stage that is an API call is a call of Yttv whose arguments `Makes`
  prescribes (`Invoke`, then `Work` for each step of it). Stages that only talk
  to the network and to the person at the keyboard are one action (`Ask`). The
  module extends Yttv: every step of a command is a step of Yttv or leaves its
  variables alone (`CommandStepsAreCalls` of CommandLineProofs), so that what
  holds of Yttv holds of commands. Each load while there is no own file may
  find ytcast's file sound or broken.
- **Ssdp** – `search`: the loop with its deadline, the socket's buffer, and a
  network that sends anything at any time. The clock goes on at every point of
  the loop, past the deadline as well: `busy` counts for how long the program
  could have taken its next step, up to `Delay`. It has no specification of its own:
  **Discovery** uses its actions for the search of `dial.discover`, followed by
  the descriptions in parallel, and for the two searches of the doctor with its
  descriptions one by one and its verdict. A discovery implements **Search**,
  the one step that Yttv's `Search` and `Merge` take it for.
- **CacheFile** – `save` and `load` step by step on a POSIX file system: files
  are inodes numbered in the order of creation, `link` is what `devices.json`
  names, `os.replace` is one step, everything may fail, the process may die.
- **AtomicFile** – what the rest takes the file for: one value, written at
  once, read at once. CacheFile implements it; Yttv uses a save and a load as
  one step each.
- **Launcher** – what `cast` takes `launcher.launch` for: one step that leaves
  the screen, or sets another id without a token, or raises and leaves the
  screen. The action `Launch` of Yttv is that step.
- **DialLauncher** – `launch`, `_reach`, `_await_running`, with a clock.
  `Doze`/`Poll` and `Pause`/`Await` are the two loops. The television is part of
  the model: it answers every request from `awake` on and has the app up from
  `up` on, either of which may be never; before that its answers and failures
  are free, unless it is `steady` and answers nothing before `awake`. It
  implements Launcher.
- **CastLauncher** – `launch` and `probe`: the caller, the browser's thread
  (`Appear`, `Added`, `Vanish`) and the connection's thread (`Receive`,
  `Signal`), meeting in two events. Every call of pychromecast may raise, those
  of the finally clauses (`Disconnect`, `Stop`) included; a browser or a
  connection is "stuck" when ending it was tried and failed, and goes on then.
  It implements Launcher.
- **AppleTV** – `_run` with its helper thread, `_launch` and `_pair`, whose every
  step may fail, `close` in the finally clauses included. A launch
  never touches the device's screen, so it has no refinement to show.
- **DevicesProofs, YttvProofs, CommandLineProofs, CacheFileProofs,
  DialLauncherProofs, CastLauncherProofs, AppleTVProofs, DiscoveryProofs** –
  the proofs. **MCYttv, MCCommandLine, MCDiscovery** – the instances of Yttv,
  CommandLine and Discovery; the other modules are small enough to be run with
  their own constants.

Operators whose names have the form `Learned_KeepsToken` are mutants: the
definition they are named after as a plausible mistake would have it. They are
used by no specification; put in the place of the definition they break the
property `PROJECT.json` names.

## 3. Runs

Passing runs:

| Run | Instance | Checks |
|---|---|---|
| MCOneProcess | one process, every call without `Device` objects, 4 calls, a migrated list, a reply without a USN | `TypeOK`, `TokenSavedBeforeUse`, `DefaultKept`, `DefaultIsTarget`, `NothingForgotten`, `ReturnedIsSaved`, `IsBook`, `CallsEnd` |
| MCCommandLine | two people over one file, nine commands, ytcast's file (sound or broken at each load) until there is an own one, 4 calls in all, interrupts anywhere | `TokenForItsScreen`, `UniqueIdentity`, `PlaysWhereItPaired`, `DoneMeansSent`, `AtMostTwice` |
| MCCacheFile | two processes, two lists, two writes per text, three files | `TypeOK`, `NeverTorn`, `OwnTemp`, `NoLitter`, `NeverVanishes`, `IsAtomic` |
| MCDiscovery | timeout 2, delays up to 1, a buffer of 2, two services on one host and one reply without a USN, junk | `OnTime`, `Collected`, `NothingMissed`, `Verdict`, `IsSearch`, `Ends` |
| MCDialLauncher | timeout 4, requests 0 to 2, pause 1, settling 2, two ids, a television awake and an app up at any time or never | `TypeOK`, `Patient`, `TimeBound`, `ScreenIsReported`, `IsLauncher`, `Ends` |
| MCCastLauncher | two ids, launches and probes, any number of messages and of comings and goings | `TypeOK`, `Told`, `CleansUp`, `IsLauncher`, `Ends` |
| MCAppleTV | two jobs with one television | `TypeOK`, `DoneWhenReturned`, `Closes`, `CallersEnd` |

MCCommandLine is the run about several processes: what it shows of tokens and
identities it shows with chains of calls the command line makes, `Device`
objects passed on included. Its nine commands are no option, `--doctor`, `-s`,
`-l` and `--cast` alone, videos to the default and to a device by name, `--pair`
with videos, and `--pair` and `--appletv` with videos; all others, `--pair` or
`--appletv` alone among them, are left to the theorems of CommandLineProofs. TLC
takes about two minutes for it, and about one for MCOneProcess.

Runs that show a disagreement between the code and what the repository says of
it. Each checks one property and TLC finds it violated:

| Run | What happens |
|---|---|
| MCLostUpdate | Process A loads, process B pairs a screen and saves, A saves its list: the screen is gone (README 26: "yttv remembers the result"). |
| MCUnrecorded | `attach(paired, …)` changes the object it was given, not the list it loaded and saves: nothing is recorded (`api.py` 251). This is what `yttv --pair CODE --appletv HOST` does. |
| MCTwoDefaults | A Cast device learns the screen id a paired entry already has; `set_last_used` then flags both (`cache.py` 183, `test_set_last_used_is_exclusive`). |
| MCRediscovered | A search sets the backend of a device attached to Cast back to DIAL (`api.py` 302: "only address and description are refreshed"). |
| MCErrors | An entry of ytcast's file with a `Timeout` that is no number ends every command with a traceback (`cache.py` 209: "Entries that cannot be understood are skipped"; `api.py` 9: "Every failure is a `YttvError` subclass"). |

Some weaknesses are in the models without a run of their own, because no
document speaks of them or because a property names or allows for them:

- A reply whose LOCATION is no URL raises `httpx.InvalidURL`, which is no
  `HTTPError`: the whole discovery raises and the doctor stops, although
  `dial.py` 176 says that devices that fail to describe are skipped (`failed`
  in Discovery; `IsSearch` holds because a discovery may raise).
- A cast to a kept `Device` object whose screen id the launcher corrected finds
  no entry that is the same as its target, so that `set_last_used` clears every
  flag and the file has no default left (`DefaultKept` holds without such
  objects).
- A Cast launch or probe leaves its browser running when `start_discovery` fails
  half-way, when the device disappears right after it was found or another one
  comes or goes during the lookup (`next` raises outside the `try` of
  `_connect`, `cast.py` 98), and when `disconnect` raises before
  `stop_discovery`; a connection that was started and then timed out is never
  closed. `CleansUp` says that these are the only ways out on which ending them
  is not even tried.
- While a started app comes up, one failed request ends a DIAL launch at once
  (`dial.py` 236), however far away the deadline is (`lost`). `Patient` says that
  this takes a television which stops answering.
- An Apple TV helper whose caller gave up goes on: it may turn the television on,
  start the app, or use and save a PIN typed later (`GiveUp`, then any step of
  `Helper`). Nothing in the code stops it, so that there is no property to state.
- A DIAL launch may go on after its deadline, by the requests under way and the
  settling time. `TimeBound` says by how much at most.
- `yttv -s` without videos ignores `--pair`, `--appletv` and `--cast`, and `-l`
  ignores everything else (`Skipped`).
- A migration that finds nothing is not saved: ytcast's file is read again by
  every call until yttv has something of its own.

`CHECK_DEADLOCK FALSE` stands in the runs whose system really stops: the budget
of calls is used up, a launch or the jobs are over. MCCacheFile checks for
deadlock.

### Bounds

- `MaxCalls`: lost updates and detached objects take two calls, two defaults
  and duplicate identities take three, the interplay of add, add and cast four;
  the passing runs allow as many. In MCCommandLine a chain of three calls fits
  with a call of the other person at any point of it. Commands are typed only
  while calls are left, which bounds them too.
- Two screens, two Cast uuids, one service name, one address: the properties
  compare screens and identities for equality, and a third value adds no new
  comparison between two entries. One address only: no property is about
  which address a device has.
- Two processes: a lost update has two parties, and a third would only repeat
  the part of the second. Their names are symmetric: no constant and no
  property tells them apart.
- The commands of MCCommandLine have no `--cast` together with `-d`, which
  attaches a uuid that another entry may have already (section 5).
- `Timeout = 2`, `Delay = 1`, `Buffer = 2` in MCDiscovery: replies before, at and
  after a tick, at the deadline and after it, a program that is behind the clock
  at any step, a buffer that is empty, in use and full. The time that `OnTime`
  allows is reached.
- `Chunks = 2`, `MaxFiles = 3`: a partly written file, and a file for each
  process over an existing one.
- The times of MCDialLauncher let the deadline pass in the middle of every
  request, pause and poll, and `awake` and `up` take every value of the clock up
  to `Worst`, and one beyond it that stands for never.

### Fairness

- `FairSpec` of Yttv: weak fairness of each process's steps. Every request of
  `ytlounge` and httpx has a timeout, and a launch ends (checked for DIAL and
  Cast, and for the caller of an Apple TV). `Crash` and new calls are not fair.
- DialLauncher: requests time out and sleeps end. `RequestTimeout` is what one
  request takes altogether; httpx's own limit is per phase of a request, so
  that the constant has to be read as the sum.
- Discovery: the program goes on, since neither a wait on the socket nor a
  request for a description is without a timeout, and time passes; each on its
  own, so that datagrams which keep coming cannot stand for either. An error of
  the socket (`Break`) is not counted on to end a search.
- CastLauncher: only the caller is fair, whose waits have timeouts.
  `disconnect` and `stop_discovery`, which join threads of pychromecast, are
  taken to end, with or without an error.
- AppleTV: only the caller is fair; helpers may hang for ever, as a PIN prompt
  does.

## 4. Proofs

All theorems hold for every value of the constants that satisfies the
assumptions stated with them (`None` is not a value, a service name is not a
uuid, times are natural numbers, ytcast's tokens fit their screens). Some have
hypotheses of their own, which the instances of the runs satisfy:

| Hypothesis | Theorems | Why it is there |
|---|---|---|
| no call passes a `Device` object | `ReturnedObjectsAreSaved`, `TokensAreOnDisk`, `DefaultIsWhatWasUsed`, `DefaultsAreKept`, `FileIsABook` | an object kept from an earlier call is in no list: what it learns is not saved (MCUnrecorded), and it can clear the default |
| `OneProcess` | `TokensAreOnDisk`, `DefaultsAreKept`, `FileForgetsNothing`, `FileIsABook` | MCLostUpdate |
| `KeepIdentities`, `Named` | `IdentitiesAreUnique`, `DefaultIsWhatWasUsed` | `attach` with the uuid of another entry (section 5); a Cast device attached by its address alone has no identity until its first cast, and may then get one that another entry has |
| `KeepUsns` | `FileForgetsNothing` | `attach` with a service name replaces the entry's own, as it is meant to |
| `Replies` is finite | `CallsGetShorter` | a search that is never merged to its end |

MCYttv and MCCommandLine state `KeepIdentities`, `KeepUsns` and `Named` of their
calls as assumptions that TLC evaluates.

- **YttvProofs, tokens.** `TokensFitTheirScreens`: `Spec => []TokenForItsScreen`.
  The property speaks of two program points; it is inductive only with what
  makes it true everywhere: tokens fit in the file, in every loaded list and in
  every held object (`AllFit`, `TokenFits`), and at each step of a cast the
  target has what the next step needs (`CallInv`). `Inv` is the conjunction, and
  there is one lemma per action that it is kept. A stale list may be written
  back, but it fits as well, which is why interleaving does no harm here.
  `TypeCorrect` is the other conjunct. `ReturnedObjectsAreSaved`: the entry a
  call returns is an entry of what it saved; its invariant is `Indexed` (from
  selection on, `at` is an index of the list). `TokensAreOnDisk`: screen and
  token are on disk before they are used; `OnDisk` says that the file has the
  screens of the loaded list at every step of a cast that is followed by one
  without a save.
- **YttvProofs, lists.** The next theorems compare the list a call has with the
  one it loaded, so that each would need a case for every action. `StepOnLists`
  is the one such analysis: a step *opens* a list, *writes* it to the file,
  *works* on it or *closes* it, and work appends an entry nobody has the
  identity of (`Fresh`), or edits one entry within limits (`Edited`), and may
  then set the flags (`Marks`). Four theorems follow from it:
  - `IdentitiesAreUnique` (any number of processes): the file and every loaded
    list are `Named`. A stale list that is written back loses what others
    found, but it has no entry twice, so that lost updates make no duplicates.
    The clause of `Named` about Cast is needed since a Cast device without an
    identity is the one entry a launch gives an identity to.
  - `DefaultIsWhatWasUsed` (any number of processes): once a call set the flags,
    the first flagged entry has the screen of its target (`Marked`). The first
    one need not be the target: two entries may have one screen (MCTwoDefaults).
  - `DefaultsAreKept`: a list whose file has a default has one (`KeepsDefault`).
  - `FileForgetsNothing`: entry by entry, a loaded list has what the file had
    (`KeepsFile`).
- **YttvProofs, the book.** `FileIsABook`: `Spec => IsBook`. A cast writes up to
  three times from one list, a search once for many entries, so that a write is
  one line of the book only together with the history of its list. `FollowsFile`
  is that history: a list is the file as it was loaded, or ahead of it by what
  `Ahead` says for the program point (by some of the answers during a merge, by
  a tuning of the target during a cast, by a whole record before the last save).
  After each write the list is the file again. `PairRecords`, `AttachRecords`,
  `AddRecords`, `MergeDiscovers`, `LaunchTunes`, `RefreshTunes` and
  `DeliveredRecords` show, for one operation each, that it keeps this.
- **YttvProofs, termination.** `CallsGetShorter`: every step of a call decreases
  `StepsLeft`, a natural number computed from the program point and from what is
  left to merge; the retry after a session error cannot be taken twice. This is
  what `CallsEnd` needs besides fairness.
- **DevicesProofs.** Lemmas about the list operators: what `First`, `Find`,
  `FindService`, `LastUsed`, `UpsertAt`, `Upsert` and `SetLastUsed` return and
  preserve, when `Upsert` appends (`UpsertAppends`), and which entry is the
  default after `SetLastUsed` (`DefaultAfterSetLastUsed`).
- **CommandLineProofs.** `CommandsKeepTokens`, `CommandsKeepIdentities` and
  `CommandsForgetNothing` follow from the theorems above, because commands only
  make calls of Yttv. `VideosAreSentTwiceAtMost` and `ExitZeroMeansSent` have
  one invariant, `Count`: where in its call a command is (`PlaceInv`), that it
  casts exactly at its last stage, and how often the videos can have been sent
  by each step (`CountInv`). `VideosGoWhereItPaired` adds `Chain`: from the end
  of `--pair` on, every call of the command is one with the `Device` object it
  was given, which is in no list of any process, and has the screen of the code
  until a launcher changes it (`ChainInv`). It needs no assumption on what
  others do with the file or the default meanwhile.
- **CacheFileProofs.** `TypeCorrect`, `FileIsNeverTorn`, `TempsAreOwn`,
  `SavesCleanUp`, `FileNeverVanishes`, and `SavesAreAtomic`: `Spec => IsAtomic`.
  The invariant says that a file that is linked or open was completely written,
  and that a file being written belongs to one save only.
- **DialLauncherProofs.** `TypeCorrect`, `LaunchIsPatient`,
  `LaunchReportsScreen`, `LaunchTimeIsBounded` and `DialImplementsLauncher`.
  The bound follows from `InTime`, which says how much time can have passed
  before each step: the loops only go on before the deadline. `LaunchIsPatient`
  relates what the launch saw to what the television did: the last poll began
  before the television was awake, or the app up, and took a request's time at
  most; a steady television is awake from its first answer on (`Answering`).
- **CastLauncherProofs.** `TypeCorrect`, `AnswersAreReported` (any id that is
  stored or was read is one the receiver reported, `Reported`), `LaunchCleansUp`
  (what is running at each step, `Resources`) and `CastImplementsLauncher`.
- **AppleTVProofs.** `TypeCorrect`, `ReturnsAreTrue` and `HelpersClose` for any
  number of jobs: `JobInv` relates where a caller and its
  helper can be at the same time, and no job touches what another one has open.
- **DiscoveryProofs.** `SearchesAreOnTime`: the clock is at most `busy` past the
  timeout while the program waits, since it only goes to wait after a check
  before the deadline, and a step later at the next check (`InTime`).
  `RepliesAreCollected` and `VerdictIsTrue`: what came in time is among the
  replies or in the socket (`NothingLost`), and what was heard was collected by
  one of the two searches (`HeardSoFar`). `DiscoveriesAreComplete`: as many
  increasing positions as there are described replies are all of them
  (`AllAreReturned`). `DiscoveryImplementsSearch`: `Spec => IsSearch`. What a
  discovery hands over is each service at most once, because the search keeps
  the first reply of each service name only (`EachOnce`) and the descriptions
  keep the order (`GatheredOnce`).

Only model-checked: the liveness properties `CallsEnd`, `Ends` and
`CallersEnd`, since fairness and `ENABLED` are outside the prover. Every other
property of a passing run is the conclusion of a theorem. The violations of the
five other runs are counterexamples, for which a small instance is enough.

## 5. Not modelled

- The Lounge API and the televisions, beyond the answers the code tells apart.
- Several threads that pass one `Cache` object to concurrent calls: its `load`
  replaces the list under the other call. Nothing in the repository does so.
- A `devices.json` that is not a list of devices: no `save` writes one
  (CacheFile), and `load` then raises before anything changed.
- Labels, expiry dates (a token may count as expired at any time), locations,
  and Wake-on-LAN details. So the models do not see that a search overwrites
  the `wake_mac` of a television that answers without one (`api.py` 317).
- `attach` with the uuid of a Cast device that is another entry already: two
  entries then have one identity (`api.py` 262). No run has such a call, and
  `UniqueIdentity` does not promise anything for it: `KeepIdentities` says so.
- The growth of the list by televisions without a USN, one entry per search
  (`api.py` 320). They are in MCOneProcess, but no document says what should
  become of them.
- A `ScreenId` of null in ytcast's file, which becomes the id "None".
- Printing, logging, parsing of arguments and of times in URLs, XML and HTTP
  headers: they keep no state. `parse_videos` and the checks of arguments are
  the action `Refuse`.
- The import of backends on first use, and the package's re-exports.

## 6. Plan

Done: every component but the package's re-exports, and the launcher registry
in part. What would add most from here:

1. **Measures** like `StepsLeft` for the DIAL launch, the searches and the
   callers of an Apple TV, so that what is left to TLC of `Ends` and `CallersEnd`
   is fairness alone.
2. **Wake-on-LAN data** in Devices, for the `wake_mac` that a search overwrites
   and for what DialLauncher can wake.
3. **The book with others**: which of the records of DeviceBook are lost, and
   which are not, when several processes write it.
