------------------------------ MODULE Discovery ------------------------------
(***************************************************************************)
(* The two users of an SSDP search: dial.discover (backends/dial.py),      *)
(* which describes every reply in a thread of its own, and the doctor      *)
(* (doctor.py), which searches twice, describes one after the other and    *)
(* says whether anything answered.                                         *)
(***************************************************************************)
EXTENDS Ssdp, FiniteSets

VARIABLES
  user,       \* who searches
  step,       \* where it is: "all" and "dial" are the doctor's two searches
  described,  \* what became of each reply's description
  found,      \* the devices discover returns
  everything, \* the replies of the doctor's first search
  heard       \* whether a search read a reply that came in time

vars == <<search, user, step, described, found, everything, heard>>
findings == <<found, everything, heard>>

Done == {"returned", "raised", "answered", "nothing"}

\* Fetching a description: a device, a DialError, or an error that is not one
\* (a LOCATION that is no URL).
Description == {"ok", "skipped", "failed"}

TypeOK ==
  /\ SearchTypeOK
  /\ user \in {"discover", "doctor"}
  /\ step \in Done \cup {"all", "dial", "describe"}
  /\ described \in Seq(Description \cup {"pending"})
  /\ found \in Seq(Answer)
  /\ everything \in Seq(Answer)
  /\ heard \in BOOLEAN

Init ==
  /\ SearchInit
  /\ user \in {"discover", "doctor"}
  /\ step = IF user = "doctor" THEN "all" ELSE "dial"
  /\ described = <<>> /\ found = <<>> /\ everything = <<>>
  /\ heard = FALSE

-----------------------------------------------------------------------------
\* The search under way goes on.
Searching ==
  /\ step \in {"all", "dial"}
  /\ Send \/ Collect \/ Break \/ Arrive \/ Tick
  /\ UNCHANGED <<user, step, described, findings>>

\* An error of sendto goes through to the caller.
SearchFails ==
  /\ step \in {"all", "dial"} /\ pc = "failed"
  /\ step' = "raised"
  /\ UNCHANGED <<search, user, described, findings>>

\* The search read something that came in time.
Heard == inTime \ Keys(inbox) # {}

\* The doctor's first search is over; the next has a socket of its own.
SearchAgain ==
  /\ step = "all" /\ pc = "closed"
  /\ step' = "dial" /\ pc' = "send"
  /\ everything' = responses
  /\ heard' = Heard
  /\ UNCHANGED <<now, deadline, busy, inbox, responses, inTime, user, described, found>>

\* Every reply of the last search is to be described.
Start ==
  /\ step = "dial" /\ pc = "closed"
  /\ step' = "describe"
  /\ described' = [i \in DOMAIN responses |-> "pending"]
  /\ heard' = (heard \/ Heard)
  /\ UNCHANGED <<search, user, found, everything>>

\* discover describes in parallel, the doctor in order.
Describe ==
  /\ step = "describe"
  /\ \E i \in DOMAIN described :
       /\ described[i] = "pending"
       /\ user = "doctor" => \A j \in 1 .. i - 1 : described[j] \in {"ok", "skipped"}
       /\ \E result \in Description : described' = [described EXCEPT ![i] = result]
  /\ UNCHANGED <<search, user, step, findings>>

\* discover returns these devices, in the order of their replies.
Return(kept) ==
  /\ step' = "returned"
  /\ \E order \in [1 .. Cardinality(kept) -> kept] :
       /\ \A m, n \in DOMAIN order : m < n => order[m] < order[n]
       /\ found' = [n \in DOMAIN order |-> responses[order[n]]]

\* Mutant of Gather: the first reply that was skipped ends the list.
Gather_Stops ==
  /\ step = "describe" /\ user = "discover"
  /\ \A i \in DOMAIN described : described[i] # "pending"
  /\ IF \E i \in DOMAIN described : described[i] = "failed"
       THEN step' = "raised" /\ UNCHANGED found
       ELSE Return({i \in DOMAIN described : \A j \in 1 .. i : described[j] = "ok"})
  /\ UNCHANGED <<search, user, described, everything, heard>>

\* discover waits for all of them: an error is raised, and what was described
\* is returned.
Gather ==
  /\ step = "describe" /\ user = "discover"
  /\ \A i \in DOMAIN described : described[i] # "pending"
  /\ IF \E i \in DOMAIN described : described[i] = "failed"
       THEN step' = "raised" /\ UNCHANGED found
       ELSE Return({i \in DOMAIN described : described[i] = "ok"})
  /\ UNCHANGED <<search, user, described, everything, heard>>

\* Mutant of Advise: only the search for DIAL counts.
Advise_DialOnly ==
  /\ step = "describe" /\ user = "doctor"
  /\ \/ /\ \E i \in DOMAIN described : described[i] = "failed"
        /\ step' = "raised"
     \/ /\ \A i \in DOMAIN described : described[i] \in {"ok", "skipped"}
        /\ step' = IF responses # <<>> THEN "answered" ELSE "nothing"
  /\ UNCHANGED <<search, user, described, findings>>

\* The doctor's verdict.
Advise ==
  /\ step = "describe" /\ user = "doctor"
  /\ \/ /\ \E i \in DOMAIN described : described[i] = "failed"
        /\ step' = "raised"
     \/ /\ \A i \in DOMAIN described : described[i] \in {"ok", "skipped"}
        /\ step' = IF everything # <<>> \/ responses # <<>> THEN "answered" ELSE "nothing"
  /\ UNCHANGED <<search, user, described, findings>>

Follow == SearchFails \/ SearchAgain \/ Start \/ Describe \/ Gather \/ Advise

Next == Searching \/ Follow

Spec == Init /\ [][Next]_vars

\* The program goes on, requests for descriptions time out, and time passes
\* however many datagrams come in.  No error of the socket is counted on.
FairSpec ==
  /\ Spec
  /\ WF_vars(Follow \/ (Searching /\ (Send \/ Collect)))
  /\ WF_vars(Searching /\ Tick)

-----------------------------------------------------------------------------
(* Properties.                                                              *)

\* The doctor says that nothing answered, and sends its user to the firewall,
\* only if neither of its searches read a reply that came in time, whatever
\* became of the descriptions (doctor.py:79).
Verdict == step = "nothing" => ~heard

\* A television that answered in time is among the devices discover returns,
\* however many others answered or failed, unless its own description was
\* skipped or its reply stayed unread in the socket (dial.py:183-184).
NothingMissed ==
  step = "returned" =>
    \A r \in inTime \ Keys(inbox) :
      \/ r \in Keys(found)
      \/ \E i \in DOMAIN responses : responses[i] = r /\ described[i] = "skipped"

\* To the API a discovery is one step that finds devices, each one once, or
\* raises: threads and repeated replies leave no trace (Search.tla).
Abstract == INSTANCE Search WITH
  Replies <- Answer,
  outcome <- IF user = "discover" /\ step \in Done THEN step ELSE "busy",
  found <- found
IsSearch == Abstract!Spec

\* Every discovery and every diagnosis comes to an end, also on a network that
\* never stops talking.
Ends == <>(step \in Done)
=============================================================================
