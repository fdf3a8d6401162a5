------------------------------ MODULE Devices ------------------------------
(***************************************************************************)
(* What yttv remembers about televisions: the Device record and the       *)
(* queries and updates of the class Cache over a list of them              *)
(* (src/yttv/cache.py).  A list of devices is a sequence, and a Device     *)
(* object of the list is named by its index: the objects of a loaded list  *)
(* are distinct, so "a is b" of the code is equality of indices.           *)
(*                                                                         *)
(* Names, labels, expiry dates, locations and Wake-on-LAN details are      *)
(* abstracted.  A lounge token remembers the screen it was issued for,     *)
(* which the program cannot see and the properties can.                    *)
(***************************************************************************)
EXTENDS Naturals, Sequences

CONSTANTS
  ScreenId,  \* the ids under which the Lounge API knows screens
  Address,   \* host addresses
  Usn,       \* SSDP unique service names
  Uuid,      \* Cast device uuids
  Tag,       \* tells a renewed token from the one it replaces
  None       \* Python's None, and the empty string where the code means "no"

Opt(S) == S \cup {None}

Backend == {"appletv", "cast", "dial"}

Token == [screen : ScreenId, tag : Tag]

\* A Screen without a token is the Screen(id, "", 0) a launcher creates.
Screen == [id : ScreenId, token : Opt(Token)]

Device == [screen : Opt(Screen), last_used : BOOLEAN, backend : Opt(Backend),
           address : Opt(Address), usn : Opt(Usn), uuid : Opt(Uuid)]

ASSUME NoneAssumption ==
  /\ None \notin ScreenId \cup Address \cup Usn \cup Uuid \cup Backend
  /\ None \notin Token \cup Screen \cup Device

\* A service name ("uuid:...::urn:...") is never a bare Cast uuid.
ASSUME IdentityAssumption == Usn \cap Uuid = {}

\* A device that only has what the arguments say.
NewDevice(screen, backend, address, usn, uuid) ==
  [screen |-> screen, last_used |-> FALSE, backend |-> backend,
   address |-> address, usn |-> usn, uuid |-> uuid]

\* What tells two devices apart when they have no screens to compare.
Identity(d) == IF d.usn # None THEN d.usn ELSE d.uuid

\* Mutant of SetDefault: an assignment.
SetDefault_Overwrites(old, new) == new

\* The dict.update of one backend_data key, and dict.setdefault.
Updated(old, new) == IF new = None THEN old ELSE new
SetDefault(old, new) == IF old = None THEN new ELSE old

-----------------------------------------------------------------------------
\* The least of a set of indices, 0 when there is none.
First(S) == IF S = {} THEN 0 ELSE CHOOSE i \in S : \A j \in S : i <= j

\* Cache.find: the first device with this screen.
Find(devs, id) ==
  First({i \in DOMAIN devs : devs[i].screen # None /\ devs[i].screen.id = id})

\* Cache.find_service: the first device with this identity.
FindService(devs, identity) ==
  First({i \in DOMAIN devs : Identity(devs[i]) = identity})

\* Cache._same for two different objects.
Same(a, b) ==
  IF a.screen # None /\ b.screen # None
    THEN a.screen.id = b.screen.id
    ELSE Identity(a) # None /\ Identity(a) = Identity(b)

\* Cache.last_used, and what a call without a device falls back on.
LastUsed(devs) == First({i \in DOMAIN devs : devs[i].last_used})
Default(devs) ==
  IF LastUsed(devs) = 0 /\ Len(devs) = 1 THEN 1 ELSE LastUsed(devs)

\* Cache.upsert of an object that is not in the list: where it ends up, and
\* the list with it.
UpsertAt(devs, d) ==
  LET i == First({j \in DOMAIN devs : Same(devs[j], d)})
  IN  IF i = 0 THEN Len(devs) + 1 ELSE i
Upsert(devs, d) ==
  IF UpsertAt(devs, d) \in DOMAIN devs
    THEN [devs EXCEPT ![UpsertAt(devs, d)] = d]
    ELSE Append(devs, d)

\* Mutants of SetLastUsed: the identity is compared instead of the device; the
\* flags of the other devices stay.
SetLastUsed_ByIdentity(devs, at, d) ==
  [i \in DOMAIN devs |->
     [devs[i] EXCEPT !.last_used =
        Identity(d) # None /\ Identity(devs[i]) = Identity(d)]]
SetLastUsed_Also(devs, at, d) ==
  [i \in DOMAIN devs |->
     [devs[i] EXCEPT !.last_used = @ \/ i = at \/ Same(devs[i], d)]]

\* Cache.set_last_used of the object d, which is the entry at (0: it is not
\* in the list).  Every entry that is or looks the same is flagged.
SetLastUsed(devs, at, d) ==
  [i \in DOMAIN devs |->
     [devs[i] EXCEPT !.last_used = (i = at \/ Same(devs[i], d))]]

-----------------------------------------------------------------------------
\* The token of d, if it has one, was issued for the screen d names.
TokenFits(d) ==
  d.screen # None /\ d.screen.token # None => d.screen.token.screen = d.screen.id
AllFit(devs) == \A i \in DOMAIN devs : TokenFits(devs[i])
============================================================================
