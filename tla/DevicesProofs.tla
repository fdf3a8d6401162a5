---------------------------- MODULE DevicesProofs ----------------------------
(***************************************************************************)
(* What the queries and updates of Devices return, for all lists.          *)
(***************************************************************************)
EXTENDS Devices, TLAPS, SequenceTheorems, WellFoundedInduction

\* First, the search all queries of Cache are made of, yields a member of a
\* set of indices, and nothing before it is a member.
LEMMA FirstIsLeast ==
  ASSUME NEW S \in SUBSET (Nat \ {0}), S # {}
  PROVE  First(S) \in S /\ \A j \in S : First(S) <= j
<1>1. PICK x \in S : \A y \in S : ~ (<<y, x>> \in OpToRel(<, Nat))
  BY NatLessThanWellFounded, WFMin
<1>2. ASSUME NEW y \in S PROVE x <= y
  <2>1. <<y, x>> \in Nat \X Nat
    OBVIOUS
  <2>2. ~ (<<y, x>>[1] < <<y, x>>[2])
    BY <1>1, <2>1 DEF OpToRel
  <2> QED
    BY <2>2
<1> QED
  BY <1>2 DEF First

\* A query over a list yields 0 or an index of the list with the property.
LEMMA FirstOfList ==
  ASSUME NEW devs \in Seq(Device), NEW S \in SUBSET DOMAIN devs
  PROVE  /\ First(S) \in 0 .. Len(devs)
         /\ First(S) = 0 <=> S = {}
         /\ S # {} => First(S) \in S
<1>1. S \in SUBSET (Nat \ {0})
  BY LenProperties
<1>2. CASE S = {}
  BY <1>2, LenProperties DEF First
<1>3. CASE S # {}
  BY <1>1, <1>3, FirstIsLeast, LenProperties
<1> QED
  BY <1>2, <1>3

\* Replacing one entry of a list.
LEMMA ReplaceEntry ==
  ASSUME NEW devs \in Seq(Device), NEW i \in DOMAIN devs, NEW d \in Device
  PROVE  LET new == [devs EXCEPT ![i] = d]
         IN  /\ new \in Seq(Device)
             /\ Len(new) = Len(devs)
             /\ AllFit(devs) /\ TokenFits(d) => AllFit(new)
BY LenProperties, ExceptSeq DEF AllFit

\* An upserted device has an index.
LEMMA UpsertAtIsIndex ==
  ASSUME NEW devs \in Seq(Device), NEW d
  PROVE  UpsertAt(devs, d) \in 1 .. Len(devs) + 1
BY FirstOfList, LenProperties DEF UpsertAt

\* Cache.upsert keeps the list a list of devices, puts the device where
\* UpsertAt says, and only ever lengthens the list.
LEMMA UpsertList ==
  ASSUME NEW devs \in Seq(Device), NEW d \in Device
  PROVE  /\ Upsert(devs, d) \in Seq(Device)
         /\ Len(devs) <= Len(Upsert(devs, d))
         /\ UpsertAt(devs, d) \in 1 .. Len(Upsert(devs, d))
         /\ Upsert(devs, d)[UpsertAt(devs, d)] = d
         /\ AllFit(devs) /\ TokenFits(d) => AllFit(Upsert(devs, d))
<1> DEFINE S == {j \in DOMAIN devs : Same(devs[j], d)}
<1>1. First(S) \in 0 .. Len(devs)
  BY FirstOfList
<1>2. CASE First(S) = 0
  <2>1. UpsertAt(devs, d) = Len(devs) + 1
    BY <1>2 DEF UpsertAt
  <2>2. Upsert(devs, d) = Append(devs, d)
    BY <2>1, LenProperties DEF Upsert
  <2> QED
    BY <2>1, <2>2, LenProperties DEF AllFit
<1>3. CASE First(S) # 0
  <2>1. UpsertAt(devs, d) = First(S) /\ First(S) \in DOMAIN devs
    BY <1>1, <1>3, LenProperties DEF UpsertAt
  <2>2. Upsert(devs, d) = [devs EXCEPT ![First(S)] = d]
    BY <2>1 DEF Upsert
  <2>3. /\ Upsert(devs, d) \in Seq(Device)
        /\ Len(Upsert(devs, d)) = Len(devs)
        /\ AllFit(devs) /\ TokenFits(d) => AllFit(Upsert(devs, d))
    BY <2>1, <2>2, ReplaceEntry
  <2>4. Upsert(devs, d)[First(S)] = d
    BY <2>1, <2>2
  <2> QED
    BY <2>1, <2>3, <2>4, LenProperties
<1> QED
  BY <1>2, <1>3

\* a is b, their flags aside.
Unflagged(a, b) ==
  /\ a.screen = b.screen /\ a.backend = b.backend /\ a.address = b.address
  /\ a.usn = b.usn /\ a.uuid = b.uuid

\* Cache.set_last_used changes the flags and nothing else.
LEMMA SetLastUsedList ==
  ASSUME NEW devs \in Seq(Device), NEW at, NEW d
  PROVE  /\ SetLastUsed(devs, at, d) \in Seq(Device)
         /\ Len(SetLastUsed(devs, at, d)) = Len(devs)
         /\ \A i \in DOMAIN devs :
              /\ Unflagged(SetLastUsed(devs, at, d)[i], devs[i])
              /\ SetLastUsed(devs, at, d)[i].last_used = (i = at \/ Same(devs[i], d))
         /\ AllFit(devs) => AllFit(SetLastUsed(devs, at, d))
<1> DEFINE new == SetLastUsed(devs, at, d)
<1>1. Len(devs) \in Nat /\ DOMAIN devs = 1 .. Len(devs)
  BY LenProperties
<1>2. \A i \in DOMAIN devs : new[i] = [devs[i] EXCEPT !.last_used = (i = at \/ Same(devs[i], d))]
  BY DEF SetLastUsed
<1>3. \A i \in DOMAIN devs : devs[i] \in Device
  BY ElementOfSeq, <1>1
<1>4. \A i \in DOMAIN devs : (i = at \/ Same(devs[i], d)) \in BOOLEAN
  BY DEF Same
<1>5. \A i \in DOMAIN devs : new[i] \in Device /\ Unflagged(new[i], devs[i])
                             /\ new[i].last_used = (i = at \/ Same(devs[i], d))
  <2> SUFFICES ASSUME NEW i \in DOMAIN devs
               PROVE  /\ new[i] \in Device /\ Unflagged(new[i], devs[i])
                      /\ new[i].last_used = (i = at \/ Same(devs[i], d))
    OBVIOUS
  <2> DEFINE flag == i = at \/ Same(devs[i], d)
  <2>1. devs[i] \in Device /\ flag \in BOOLEAN /\ new[i] = [devs[i] EXCEPT !.last_used = flag]
    BY <1>2, <1>3, <1>4
  <2> HIDE DEF new, flag
  <2>2. new[i] \in Device /\ Unflagged(new[i], devs[i]) /\ new[i].last_used = flag
    BY <2>1 DEF Device, Unflagged
  <2> QED
    BY <2>2 DEF flag
<1>6. new \in [1 .. Len(devs) -> Device]
  BY <1>1, <1>5 DEF SetLastUsed
<1>7. new \in Seq(Device) /\ Len(new) = Len(devs)
  BY <1>1, <1>6
<1>8. AllFit(devs) => AllFit(new)
  BY <1>1, <1>5, <1>7, LenProperties DEF AllFit, TokenFits, Unflagged
<1> QED
  BY <1>5, <1>7, <1>8
-----------------------------------------------------------------------------
(* What the queries find, and what it means that they find nothing.         *)

LEMMA FindFinds ==
  ASSUME NEW devs \in Seq(Device), NEW id
  PROVE  LET k == Find(devs, id)
         IN  /\ k = 0 \/ (k \in DOMAIN devs /\ devs[k].screen # None /\ devs[k].screen.id = id)
             /\ k = 0 => \A i \in DOMAIN devs : devs[i].screen # None => devs[i].screen.id # id
BY FirstOfList DEF Find

LEMMA FindServiceFinds ==
  ASSUME NEW devs \in Seq(Device), NEW identity
  PROVE  LET k == FindService(devs, identity)
         IN  /\ k = 0 \/ (k \in DOMAIN devs /\ Identity(devs[k]) = identity)
             /\ k = 0 => \A i \in DOMAIN devs : Identity(devs[i]) # identity
<1> DEFINE S == {i \in DOMAIN devs : Identity(devs[i]) = identity}
<1>1. S \in SUBSET DOMAIN devs /\ FindService(devs, identity) = First(S)
  BY DEF FindService
<1>2. (First(S) = 0 <=> S = {}) /\ (S # {} => First(S) \in S)
  BY <1>1, FirstOfList
<1> QED
  BY <1>1, <1>2

LEMMA LastUsedFinds ==
  ASSUME NEW devs \in Seq(Device)
  PROVE  /\ LastUsed(devs) # 0 => LastUsed(devs) \in DOMAIN devs /\ devs[LastUsed(devs)].last_used
         /\ \A i \in DOMAIN devs : devs[i].last_used => LastUsed(devs) # 0
BY FirstOfList DEF LastUsed

\* A device like no other is appended.
LEMMA UpsertAppends ==
  ASSUME NEW devs \in Seq(Device), NEW d, \A i \in DOMAIN devs : ~Same(devs[i], d)
  PROVE  Upsert(devs, d) = Append(devs, d) /\ UpsertAt(devs, d) = Len(devs) + 1
<1>1. UpsertAt(devs, d) = Len(devs) + 1
  BY DEF UpsertAt, First
<1> QED
  BY <1>1, LenProperties DEF Upsert

LEMMA AppendEntry ==
  ASSUME NEW devs \in Seq(Device), NEW d \in Device
  PROVE  /\ Append(devs, d) \in Seq(Device)
         /\ DOMAIN devs = 1 .. Len(devs) /\ Len(devs) \in Nat
         /\ DOMAIN Append(devs, d) = 1 .. Len(devs) + 1
         /\ \A i \in DOMAIN devs : Append(devs, d)[i] = devs[i]
         /\ Append(devs, d)[Len(devs) + 1] = d
BY AppendProperties, LenProperties

\* The screen a default names after set_last_used is the one of the device that
\* was passed, as long as only one entry has its identity.
LEMMA DefaultAfterSetLastUsed ==
  ASSUME NEW devs \in Seq(Device), NEW at \in DOMAIN devs, devs[at].screen # None,
         \A i \in DOMAIN devs :
           Identity(devs[i]) # None /\ Identity(devs[i]) = Identity(devs[at]) => i = at
  PROVE  LET new == SetLastUsed(devs, at, devs[at])
         IN  /\ LastUsed(new) # 0
             /\ Default(new) = LastUsed(new)
             /\ LastUsed(new) \in DOMAIN new
             /\ new[LastUsed(new)].screen # None
             /\ new[LastUsed(new)].screen.id = devs[at].screen.id
<1> DEFINE new == SetLastUsed(devs, at, devs[at])
           k   == LastUsed(new)
<1>1. /\ new \in Seq(Device) /\ DOMAIN new = DOMAIN devs
      /\ \A i \in DOMAIN devs : /\ new[i].screen = devs[i].screen
                               /\ new[i].last_used = (i = at \/ Same(devs[i], devs[at]))
  BY SetLastUsedList, LenProperties DEF Unflagged
<1>2. k # 0 /\ k \in DOMAIN devs /\ new[k].last_used
  BY <1>1, LastUsedFinds
<1>3. Default(new) = k
  BY <1>2 DEF Default
<1>4. k = at \/ Same(devs[k], devs[at])
  BY <1>1, <1>2
<1>5. devs[k].screen # None /\ devs[k].screen.id = devs[at].screen.id
  BY <1>2, <1>4 DEF Same
<1> QED
  BY <1>1, <1>2, <1>3, <1>5
============================================================================
