--------------------------- MODULE DiscoveryProofs ---------------------------
(***************************************************************************)
(* Proofs about SSDP searches and the doctor (Ssdp.tla, Discovery.tla),    *)
(* for any replies, timeout, delays and buffer.                            *)
(***************************************************************************)
EXTENDS Discovery, SequenceTheorems, FiniteSetTheorems, TLAPS

\* How far past the timeout the program can be at each step of the loop: it
\* waits only when it saw the clock before the deadline, and then looks again.
InTime ==
  /\ pc = "receive" => now <= Timeout + busy
  /\ pc = "check" => now <= Timeout + Delay + busy
  /\ OnTime

\* Every reply that came in time was collected or waits to be read.
NothingLost == inTime \subseteq Keys(responses) \cup Keys(inbox)

\* What was heard so far is among what was collected so far.
HeardSoFar ==
  CASE step = "all" -> ~heard
    [] step = "dial" -> heard => everything # <<>>
    [] step = "describe" -> heard => everything # <<>> \/ responses # <<>>
    [] OTHER -> TRUE

\* No reply is collected twice, and each one collected is described once.
EachOnce ==
  /\ \A i, j \in DOMAIN responses : responses[i] = responses[j] => i = j
  /\ step = "describe" =>
       /\ DOMAIN described = DOMAIN responses
       /\ \A i \in DOMAIN described : described[i] \in Description \cup {"pending"}

Inv ==
  /\ SearchTypeOK
  /\ step \in Done \cup {"all", "dial", "describe"}
  /\ InTime
  /\ NothingLost
  /\ HeardSoFar
  /\ EachOnce
  /\ Verdict
  /\ NothingMissed

LEMMA InitInv == Init => Inv
<1> SUFFICES ASSUME Init PROVE Inv
  OBVIOUS
<1>1. <<>> \in Seq(Answer \cup {Junk}) /\ <<>> \in Seq(Answer) /\ Len(<<>>) = 0
  BY EmptySeq
<1>2. SearchTypeOK
  BY <1>1, TimeoutAssumption, DelayAssumption, BufferAssumption DEF Init, SearchInit, SearchTypeOK
<1>3. InTime
  BY TimeoutAssumption, DelayAssumption DEF Init, SearchInit, InTime, OnTime
<1> QED
  BY <1>1, <1>2, <1>3
     DEF Init, SearchInit, Inv, NothingLost, HeardSoFar, EachOnce, Verdict, NothingMissed, Done

-----------------------------------------------------------------------------
LEMMA KeysOfAppend ==
  ASSUME NEW S, NEW replies \in Seq(S), NEW r \in S
  PROVE  Keys(Append(replies, r)) = Keys(replies) \cup {r}
<1>1. /\ DOMAIN Append(replies, r) = 1 .. Len(replies) + 1
      /\ DOMAIN replies = 1 .. Len(replies) /\ Len(replies) \in Nat
      /\ \A i \in 1 .. Len(replies) : Append(replies, r)[i] = replies[i]
      /\ Append(replies, r)[Len(replies) + 1] = r
  BY AppendProperties, LenProperties
<1> QED
  BY <1>1 DEF Keys

LEMMA KeysOfTail ==
  ASSUME NEW S, NEW replies \in Seq(S), replies # <<>>
  PROVE  /\ Keys(replies) = {Head(replies)} \cup Keys(Tail(replies))
         /\ Head(replies) \in S /\ Tail(replies) \in Seq(S)
         /\ Len(Tail(replies)) = Len(replies) - 1
<1>1. /\ Head(replies) = replies[1] /\ Head(replies) \in S /\ Tail(replies) \in Seq(S)
      /\ Len(replies) \in Nat \ {0} /\ DOMAIN replies = 1 .. Len(replies)
      /\ Len(Tail(replies)) = Len(replies) - 1
      /\ DOMAIN Tail(replies) = 1 .. Len(replies) - 1
      /\ \A i \in 1 .. Len(replies) - 1 : Tail(replies)[i] = replies[i + 1]
  BY HeadTailProperties, LenProperties, EmptySeq
<1>2. \A i \in DOMAIN replies : i = 1 \/ (i - 1 \in DOMAIN Tail(replies) /\ replies[i] = Tail(replies)[i - 1])
  BY <1>1
<1>3. \A i \in DOMAIN Tail(replies) : i + 1 \in DOMAIN replies /\ Tail(replies)[i] = replies[i + 1]
  BY <1>1
<1>4. 1 \in DOMAIN replies
  BY <1>1
<1>5. Keys(replies) \subseteq {Head(replies)} \cup Keys(Tail(replies))
  <2> SUFFICES ASSUME NEW i \in DOMAIN replies
               PROVE  replies[i] \in {Head(replies)} \cup Keys(Tail(replies))
    BY DEF Keys
  <2> QED
    BY <1>1, <1>2 DEF Keys
<1>6. {Head(replies)} \cup Keys(Tail(replies)) \subseteq Keys(replies)
  BY <1>1, <1>3, <1>4 DEF Keys
<1> QED
  BY <1>1, <1>5, <1>6

LEMMA KeysOfNone ==
  ASSUME NEW S, NEW replies \in Seq(S)
  PROVE  Keys(replies) # {} => replies # <<>>
BY EmptySeq DEF Keys

-----------------------------------------------------------------------------
\* A step of a search.
LEMMA SearchStep ==
  ASSUME SearchTypeOK, NothingLost, Send \/ Collect \/ Break \/ Arrive \/ Tick
  PROVE  SearchTypeOK' /\ NothingLost'
<1>0. /\ Timeout \in Nat /\ Buffer \in Nat /\ Delay \in Nat
      /\ inbox \in Seq(Answer \cup {Junk}) /\ Len(inbox) \in Nat /\ responses \in Seq(Answer)
      /\ now \in Nat /\ deadline \in 0 .. Timeout /\ busy \in 0 .. Delay
  BY TimeoutAssumption, BufferAssumption, DelayAssumption, LenProperties DEF SearchTypeOK
<1>1. CASE Send
  <2>1. <<>> \in Seq(Answer \cup {Junk}) /\ <<>> \in Seq(Answer) /\ Len(<<>>) = 0
    BY EmptySeq
  <2> QED
    BY <1>0, <1>1, <2>1 DEF Send, SearchTypeOK, NothingLost, Loop
<1>2. CASE Check \/ Expire \/ Break
  BY <1>0, <1>2 DEF Check, Expire, Break, SearchTypeOK, NothingLost, Loop
<1>3. CASE Receive
  <2>1. /\ Keys(inbox) = {Head(inbox)} \cup Keys(Tail(inbox))
        /\ Head(inbox) \in Answer \cup {Junk} /\ Tail(inbox) \in Seq(Answer \cup {Junk})
        /\ Len(Tail(inbox)) = Len(inbox) - 1
    BY <1>0, <1>3, KeysOfTail DEF Receive
  <2>2. Keys(responses) \cup ({Head(inbox)} \ {Junk}) \subseteq Keys(responses')
        /\ responses' \in Seq(Answer)
    <3>1. CASE Skipped(Head(inbox))
      BY <1>0, <1>3, <3>1 DEF Receive, Skipped
    <3>2. CASE ~ Skipped(Head(inbox))
      <4>1. Head(inbox) \in Answer /\ responses' = Append(responses, Head(inbox))
        BY <1>3, <2>1, <3>2 DEF Receive, Skipped
      <4> QED
        BY <1>0, <4>1, KeysOfAppend, AppendProperties
    <3> QED
      BY <3>1, <3>2
  <2>3. /\ inbox' = Tail(inbox) /\ UNCHANGED <<now, deadline, inTime>> /\ pc' = "check"
        /\ busy' = 0
    BY <1>3 DEF Receive
  <2>4. NothingLost'
    BY <2>1, <2>2, <2>3, JunkAssumption DEF NothingLost, SearchTypeOK
  <2>5. Len(inbox') <= Buffer
    BY <1>0, <2>1, <2>3 DEF SearchTypeOK
  <2> QED
    BY <1>0, <2>1, <2>2, <2>3, <2>4, <2>5 DEF SearchTypeOK, Loop
<1>4. CASE Arrive
  <2>1. PICK data \in Answer \cup {Junk} :
          /\ inbox' = Append(inbox, data)
          /\ inTime' = IF now < Timeout /\ data # Junk THEN inTime \cup {data} ELSE inTime
    BY <1>4 DEF Arrive
  <2>2. Keys(inbox') = Keys(inbox) \cup {data} /\ inbox' \in Seq(Answer \cup {Junk})
        /\ Len(inbox') = Len(inbox) + 1
    BY <1>0, <2>1, KeysOfAppend, AppendProperties
  <2>3. UNCHANGED <<pc, now, deadline, busy, responses>> /\ Len(inbox) < Buffer
    BY <1>4 DEF Arrive
  <2>4. NothingLost' /\ inTime' \subseteq Answer
    BY <2>1, <2>2, <2>3 DEF NothingLost, SearchTypeOK
  <2> QED
    BY <1>0, <2>2, <2>3, <2>4 DEF SearchTypeOK
<1>5. CASE Tick
  BY <1>0, <1>5 DEF Tick, SearchTypeOK, NothingLost
<1> QED
  BY <1>1, <1>2, <1>3, <1>4, <1>5 DEF Collect

\* Time passes in a search: only a check before the deadline goes on to wait,
\* and only a wait that began before the deadline goes on to check.
LEMMA TimeStep ==
  ASSUME SearchTypeOK, InTime, Send \/ Collect \/ Break \/ Arrive \/ Tick
  PROVE  InTime'
<1>0. /\ Timeout \in Nat /\ Delay \in Nat
      /\ now \in Nat /\ deadline \in 0 .. Timeout /\ busy \in 0 .. Delay
  BY TimeoutAssumption, DelayAssumption DEF SearchTypeOK
<1> USE <1>0 DEF InTime, OnTime
<1>1. CASE Send
  BY <1>1 DEF Send
<1>2. CASE Check
  BY <1>2 DEF Check
<1>3. CASE Receive
  BY <1>3 DEF Receive
<1>4. CASE Expire \/ Break
  BY <1>4 DEF Expire, Break
<1>5. CASE Arrive
  BY <1>5 DEF Arrive
<1>6. CASE Tick
  BY <1>6 DEF Tick, Waiting, Loop
<1> QED
  BY <1>1, <1>2, <1>3, <1>4, <1>5, <1>6 DEF Collect

\* Whoever heard a reply has it among what was collected.
LEMMA HeardIsCollected ==
  ASSUME SearchTypeOK, NothingLost, Heard
  PROVE  responses # <<>>
<1>1. Keys(responses) # {}
  BY DEF NothingLost, Heard
<1> QED
  BY <1>1, KeysOfNone DEF SearchTypeOK

LEMMA NextKeepsEachOnce ==
  ASSUME Inv, [Next]_vars
  PROVE  EachOnce'
<1> USE DEF Inv, EachOnce
<1>1. CASE Searching /\ Receive
  <2>1. /\ inbox \in Seq(Answer \cup {Junk}) /\ inbox # <<>> /\ responses \in Seq(Answer)
        /\ responses' = IF Skipped(Head(inbox)) THEN responses
                        ELSE Append(responses, Head(inbox))
        /\ step' # "describe"
    BY <1>1 DEF Receive, Searching, SearchTypeOK
  <2>2. CASE Skipped(Head(inbox))
    BY <2>1, <2>2
  <2>3. CASE ~ Skipped(Head(inbox))
    <3> DEFINE data == Head(inbox)
    <3>1. data \in Answer /\ \A i \in DOMAIN responses : responses[i] # data
      BY <2>1, <2>3, HeadTailProperties DEF Skipped, Keys
    <3> HIDE DEF data
    <3>2. /\ \A i \in DOMAIN Append(responses, data) :
               i = Len(responses) + 1 \/ i \in DOMAIN responses
          /\ \A i \in DOMAIN responses : Append(responses, data)[i] = responses[i]
          /\ Append(responses, data)[Len(responses) + 1] = data
      BY <2>1, <3>1, AppendProperties, LenProperties
    <3>3. responses' = Append(responses, data)
      BY <2>1, <2>3 DEF data
    <3>4. ASSUME NEW i \in DOMAIN responses', NEW j \in DOMAIN responses',
                 responses'[i] = responses'[j]
          PROVE  i = j
      BY <3>1, <3>2, <3>3, <3>4
    <3> QED
      BY <2>1, <3>4
  <2> QED
    BY <2>2, <2>3
<1>2. CASE Searching /\ ~Receive
  <2>1. responses' = responses \/ responses' = <<>>
    BY <1>2 DEF Searching, Send, Collect, Check, Expire, Break, Arrive, Tick
  <2> QED
    BY <1>2, <2>1 DEF Searching
<1>3. CASE Follow
  <2>1. CASE SearchFails \/ SearchAgain \/ Gather \/ Advise
    BY <2>1 DEF SearchFails, SearchAgain, Gather, Return, Advise, search, findings
  <2>2. CASE Start
    BY <2>2 DEF Start, search
  <2>3. CASE Describe
    BY <2>3 DEF Describe, search
  <2> QED
    BY <1>3, <2>1, <2>2, <2>3 DEF Follow
<1>4. CASE UNCHANGED vars
  BY <1>4 DEF vars, search, findings
<1> QED
  BY <1>1, <1>2, <1>3, <1>4 DEF Next

LEMMA NextKeepsInTime ==
  ASSUME Inv, [Next]_vars
  PROVE  InTime'
<1> USE DEF Inv
<1>1. CASE Searching
  BY <1>1, TimeStep DEF Searching
<1>2. CASE SearchAgain
  BY <1>2 DEF SearchAgain, InTime, OnTime
<1>3. CASE UNCHANGED search
  BY <1>3 DEF search, InTime, OnTime
<1> QED
  BY <1>1, <1>2, <1>3
     DEF Next, Follow, SearchFails, Start, Describe, Gather, Advise, vars

\* Increasing positions are as many as there are: each one is taken.
LEMMA AllAreReturned ==
  ASSUME NEW n \in Nat, NEW kept \in SUBSET (1 .. n),
         NEW order \in [1 .. Cardinality(kept) -> kept],
         \A i, j \in DOMAIN order : i < j => order[i] < order[j]
  PROVE  \A k \in kept : \E i \in DOMAIN order : order[i] = k
<1>1. IsFiniteSet(kept) /\ Cardinality(kept) \in Nat
  <2>1. IsFiniteSet(1 .. n)
    BY FS_Interval
  <2>2. IsFiniteSet(kept)
    BY <2>1, FS_Subset
  <2> QED
    BY <2>2, FS_CardinalityType
<1>2. /\ IsFiniteSet(1 .. Cardinality(kept))
      /\ Cardinality(1 .. Cardinality(kept)) = Cardinality(kept)
  BY <1>1, FS_Interval
<1>3. order \in Injection(1 .. Cardinality(kept), kept)
  <2> SUFFICES ASSUME NEW i \in 1 .. Cardinality(kept), NEW j \in 1 .. Cardinality(kept),
                      order[i] = order[j]
               PROVE  i = j
    BY DEF Injection, IsInjective
  <2>1. order[i] \in Nat /\ i \in Int /\ j \in Int
    <3>1. order[i] \in kept /\ i \in 1 .. Cardinality(kept) /\ j \in 1 .. Cardinality(kept)
      OBVIOUS
    <3>2. \A k \in kept : k \in Nat
      OBVIOUS
    <3>3. \A c \in Nat : \A k \in 1 .. c : k \in Int
      OBVIOUS
    <3> QED
      BY <1>1, <3>1, <3>2, <3>3, Zenon
  <2>2. ~ (i < j) /\ ~ (j < i)
    BY <2>1
  <2> QED
    BY <2>1, <2>2
<1>4. order \in Surjection(1 .. Cardinality(kept), kept)
  BY <1>1, <1>2, <1>3, FS_Injection
<1> QED
  BY <1>4 DEF Surjection

LEMMA NextKeepsNothingMissed ==
  ASSUME Inv, [Next]_vars
  PROVE  NothingMissed'
<1> USE DEF Inv
<1>1. CASE Gather /\ step' = "returned"
  <2> DEFINE ok == {i \in DOMAIN described : described[i] = "ok"}
  <2>1. /\ Return(ok) /\ UNCHANGED <<search, described>> /\ step = "describe"
        /\ \A i \in DOMAIN described : described[i] \in {"ok", "skipped"}
    BY <1>1 DEF Gather, EachOnce, Description
  <2>2. PICK order \in [1 .. Cardinality(ok) -> ok] :
          /\ \A m, n \in DOMAIN order : m < n => order[m] < order[n]
          /\ found' = [n \in DOMAIN order |-> responses[order[n]]]
    BY <2>1 DEF Return
  <2>3. /\ Len(responses) \in Nat /\ ok \in SUBSET (1 .. Len(responses))
        /\ DOMAIN described = DOMAIN responses
    BY <2>1, LenProperties DEF EachOnce, SearchTypeOK
  <2> HIDE DEF ok
  <2>4. \A k \in ok : \E i \in DOMAIN order : order[i] = k
    BY <2>2, <2>3, AllAreReturned
  <2>5. \A k \in ok : responses[k] \in Keys(found')
    BY <2>2, <2>4 DEF Keys
  <2>6. ASSUME NEW r \in inTime \ Keys(inbox)
        PROVE  \/ r \in Keys(found')
               \/ \E i \in DOMAIN responses : responses[i] = r /\ described[i] = "skipped"
    <3>1. PICK i \in DOMAIN responses : responses[i] = r
      BY <2>6 DEF NothingLost, Keys
    <3>2. i \in ok \/ described[i] = "skipped"
      BY <2>1, <2>3, <3>1 DEF ok
    <3> QED
      BY <2>5, <3>1, <3>2
  <2>7. /\ inTime' = inTime /\ inbox' = inbox /\ responses' = responses
        /\ described' = described
    BY <2>1 DEF search
  <2>8. Keys(inbox') = Keys(inbox)
    BY <2>7 DEF Keys
  <2> QED
    BY <2>6, <2>7, <2>8 DEF NothingMissed
<1>2. CASE UNCHANGED vars
  BY <1>2 DEF vars, search, findings, NothingMissed, Keys
<1>3. CASE Next /\ ~ (Gather /\ step' = "returned")
  <2>1. step' # "returned"
    BY <1>3 DEF Next, Follow, Searching, SearchFails, SearchAgain, Start, Describe, Gather, Advise
  <2> QED
    BY <2>1 DEF NothingMissed
<1> QED
  BY <1>1, <1>2, <1>3

LEMMA NextKeepsInv ==
  ASSUME Inv, [Next]_vars
  PROVE  Inv'
<1>0. EachOnce' /\ InTime' /\ NothingMissed'
  BY NextKeepsEachOnce, NextKeepsInTime, NextKeepsNothingMissed
<1> USE <1>0 DEF Inv, HeardSoFar, Verdict, Done
<1>1. CASE Searching
  BY <1>1, SearchStep DEF Searching, findings
<1>2. CASE SearchFails \/ Describe
  BY <1>2 DEF SearchFails, Describe, search, findings, SearchTypeOK, NothingLost, Keys
<1>3. CASE SearchAgain
  <2>1. SearchTypeOK' /\ NothingLost'
    BY <1>3 DEF SearchAgain, SearchTypeOK, NothingLost, Keys
  <2>2. step' = "dial" /\ everything' = responses /\ heard' = Heard
    BY <1>3 DEF SearchAgain
  <2>3. Heard => responses # <<>>
    BY HeardIsCollected
  <2> QED
    BY <2>1, <2>2, <2>3
<1>4. CASE Start
  <2>1. SearchTypeOK' /\ NothingLost'
    BY <1>4 DEF Start, search, SearchTypeOK, NothingLost, Keys
  <2>2. /\ step = "dial" /\ step' = "describe" /\ everything' = everything
        /\ heard' = (heard \/ Heard) /\ responses' = responses
    BY <1>4 DEF Start, search
  <2>3. Heard => responses # <<>>
    BY HeardIsCollected
  <2> QED
    BY <2>1, <2>2, <2>3
<1>5. CASE Gather \/ Advise
  <2>1. SearchTypeOK' /\ NothingLost'
    BY <1>5 DEF Gather, Return, Advise, search, SearchTypeOK, NothingLost, Keys
  <2>2. /\ step = "describe" /\ step' \in {"raised", "returned", "answered", "nothing"}
        /\ heard' = heard
        /\ step' = "nothing" => everything = <<>> /\ responses = <<>>
    BY <1>5 DEF Gather, Return, Advise, findings
  <2> QED
    BY <2>1, <2>2
<1>6. CASE UNCHANGED vars
  BY <1>6 DEF vars, search, findings, SearchTypeOK, NothingLost, Keys
<1> QED
  BY <1>1, <1>2, <1>3, <1>4, <1>5, <1>6 DEF Next, Follow

LEMMA Invariance == Spec => []Inv
BY InitInv, NextKeepsInv, PTL DEF Spec

\* However many replies come, a search is over as soon as its timeout and two
\* steps of the program are.
THEOREM SearchesAreOnTime == Spec => []OnTime
<1>1. Inv => OnTime
  BY DEF Inv, InTime
<1> QED
  BY <1>1, Invariance, PTL

\* Every reply that came in time is collected, or still unread in the socket.
THEOREM RepliesAreCollected == Spec => []Collected
<1>1. Inv => Collected
  BY DEF Inv, NothingLost, Collected
<1> QED
  BY <1>1, Invariance, PTL

\* The doctor blames the firewall only when neither search read a reply.
THEOREM VerdictIsTrue == Spec => []Verdict
<1>1. Inv => Verdict
  BY DEF Inv
<1> QED
  BY <1>1, Invariance, PTL

\* Every television that answered in time, and whose reply was read and its
\* description not skipped, is among the devices discover returns.
THEOREM DiscoveriesAreComplete == Spec => []NothingMissed
<1>1. Inv => NothingMissed
  BY DEF Inv
<1> QED
  BY <1>1, Invariance, PTL

-----------------------------------------------------------------------------
(* A discovery is one step of Search, and all that comes before it is none.  *)

\* What discover returns are replies, each of them once.
LEMMA GatheredOnce ==
  ASSUME Inv, Gather, step' = "returned"
  PROVE  /\ \A n \in DOMAIN found' : found'[n] \in Answer
         /\ \A m, n \in DOMAIN found' : found'[m] = found'[n] => m = n
<1> DEFINE ok == {i \in DOMAIN described : described[i] = "ok"}
<1>1. PICK order \in [1 .. Cardinality(ok) -> ok] :
        /\ \A m, n \in DOMAIN order : m < n => order[m] < order[n]
        /\ found' = [n \in DOMAIN order |-> responses[order[n]]]
  BY DEF Gather, Return
<1>2. /\ responses \in Seq(Answer) /\ DOMAIN responses = 1 .. Len(responses)
      /\ Len(responses) \in Nat /\ ok \subseteq DOMAIN responses
  BY LenProperties DEF Gather, Inv, EachOnce, SearchTypeOK
<1>3. /\ \A n \in DOMAIN found' : order[n] \in ok /\ found'[n] = responses[order[n]]
      /\ DOMAIN found' = DOMAIN order /\ DOMAIN order \subseteq Int
  BY <1>1
<1> HIDE DEF ok
<1>4. \A n \in DOMAIN found' : found'[n] \in Answer
  BY <1>2, <1>3, ElementOfSeq
<1>5. ASSUME NEW m \in DOMAIN found', NEW n \in DOMAIN found', found'[m] = found'[n]
      PROVE  m = n
  <2>1. order[m] = order[n] /\ order[m] \in Nat
    BY <1>2, <1>3, <1>5 DEF Inv, EachOnce
  <2>2. ~ (m < n) /\ ~ (n < m)
    BY <1>1, <1>3, <2>1
  <2> QED
    BY <1>3, <2>2
<1> QED
  BY <1>4, <1>5

LEMMA InitImplements == Init => Abstract!Init
BY DEF Init, Done, Abstract!Init

LEMMA NextImplements ==
  ASSUME Inv, [Next]_vars
  PROVE  [Abstract!Next]_(Abstract!vars)
<1> USE DEF Abstract!Next, Abstract!Find, Abstract!Raise, Abstract!vars, Done
<1>1. CASE UNCHANGED vars
  BY <1>1 DEF vars
<1>2. CASE Searching \/ SearchAgain \/ Start \/ Describe
  BY <1>2 DEF Searching, SearchAgain, Start, Describe, findings
<1>3. CASE SearchFails
  BY <1>3 DEF SearchFails, findings
<1>4. CASE Gather /\ step' = "returned"
  <2>1. /\ \A n \in DOMAIN found' : found'[n] \in Answer
        /\ \A m, n \in DOMAIN found' : found'[m] = found'[n] => m = n
    BY <1>4, GatheredOnce
  <2>2. user = "discover" /\ user' = user /\ step = "describe"
    BY <1>4 DEF Gather
  <2> QED
    BY <1>4, <2>1, <2>2
<1>5. CASE Gather /\ step' # "returned"
  BY <1>5 DEF Gather, Return
<1>6. CASE Advise
  BY <1>6 DEF Advise, findings
<1> QED
  BY <1>1, <1>2, <1>3, <1>4, <1>5, <1>6 DEF Next, Follow

\* To the API dial.discover is one step that finds devices, each of them once, or
\* raises: the threads that describe them and repeated replies leave no trace.
THEOREM DiscoveryImplementsSearch == Spec => IsSearch
BY InitImplements, Invariance, NextImplements, PTL DEF Spec, IsSearch, Abstract!Spec
=============================================================================
