-------------------------------- MODULE Ssdp --------------------------------
(***************************************************************************)
(* ssdp.search (src/yttv/ssdp.py): one M-SEARCH, and the replies that      *)
(* come back to its socket until a deadline.  The network delivers what it *)
(* likes, as often and as late as it likes; the socket keeps Buffer        *)
(* datagrams and drops the rest.                                           *)
(*                                                                         *)
(* Time passes at any point of the loop, and past the deadline as well:    *)
(* the program is as late with each of its steps as Delay allows.          *)
(***************************************************************************)
EXTENDS Naturals, Sequences

CONSTANTS
  Answer,    \* replies, by what tells them apart: address and USN
  Junk,      \* a datagram that is not a 200 OK with a LOCATION
  Timeout,   \* how long to collect
  Delay,     \* how much later than it could the program takes a step at most
  Buffer     \* what the socket's receive buffer holds

ASSUME JunkAssumption == Junk \notin Answer
ASSUME TimeoutAssumption == Timeout \in Nat
ASSUME DelayAssumption == Delay \in Nat \ {0}
ASSUME BufferAssumption == Buffer \in Nat

VARIABLES
  pc,         \* where the search is
  now,        \* time since the requests went out
  deadline,   \* when to stop
  busy,       \* for how long the program could have taken its next step
  inbox,      \* datagrams that arrived and were not read
  responses,  \* the replies collected
  inTime      \* the replies the socket took in before the timeout was over

search == <<pc, now, deadline, busy, inbox, responses, inTime>>

Loop == {"check", "receive"}

SearchTypeOK ==
  /\ pc \in Loop \cup {"send", "closed", "failed"}
  /\ now \in Nat /\ deadline \in 0 .. Timeout /\ busy \in 0 .. Delay
  /\ inbox \in Seq(Answer \cup {Junk}) /\ Len(inbox) <= Buffer
  /\ responses \in Seq(Answer)
  /\ inTime \subseteq Answer

SearchInit ==
  /\ pc = "send"
  /\ now = 0 /\ deadline = 0 /\ busy = 0
  /\ inbox = <<>> /\ responses = <<>> /\ inTime = {}

Keys(replies) == {replies[i] : i \in DOMAIN replies}

\* Bind a socket, send the requests, set the deadline.  A network that is down
\* or a host that cannot be reached is an OSError that nobody catches.
Send ==
  /\ pc = "send"
  /\ pc' \in {"check", "failed"}
  /\ now' = 0 /\ deadline' = Timeout /\ busy' = 0
  /\ inbox' = <<>> /\ responses' = <<>> /\ inTime' = {}

\* Mutants of Check: the deadline is left to the timeout of the socket; every
\* reply starts the time anew.
Check_SocketOnly ==
  /\ pc = "check" /\ pc' = "receive" /\ busy' = 0
  /\ UNCHANGED <<now, deadline, inbox, responses, inTime>>
Check_Restarts ==
  /\ pc = "check" /\ busy' = 0
  /\ IF now < deadline THEN pc' = "receive" /\ deadline' = now + Timeout
     ELSE pc' = "closed" /\ UNCHANGED deadline
  /\ UNCHANGED <<now, inbox, responses, inTime>>

Check ==
  /\ pc = "check" /\ busy' = 0
  /\ pc' = IF now < deadline THEN "receive" ELSE "closed"
  /\ UNCHANGED <<now, deadline, inbox, responses, inTime>>

\* Mutants of Skipped: replies are told apart by their address only; repeated
\* replies are kept.
Skipped_ByAddress(data) ==
  data = Junk \/ \E r \in Keys(responses) : r.address = data.address
Skipped_JunkOnly(data) == data = Junk

\* What cannot be parsed, and what was seen before.
Skipped(data) == data = Junk \/ data \in Keys(responses)

\* One datagram.
Receive ==
  /\ pc = "receive" /\ inbox # <<>> /\ pc' = "check" /\ busy' = 0
  /\ inbox' = Tail(inbox)
  /\ responses' = IF Skipped(Head(inbox)) THEN responses
                  ELSE Append(responses, Head(inbox))
  /\ UNCHANGED <<now, deadline, inTime>>

\* Mutant of Expire: the socket has no timeout.
Expire_Never == FALSE

\* recvfrom timed out.
Expire ==
  /\ pc = "receive" /\ inbox = <<>> /\ now >= deadline
  /\ pc' = "closed" /\ busy' = 0
  /\ UNCHANGED <<now, deadline, inbox, responses, inTime>>

\* Any other error of recvfrom ends the search with what there is.
Break ==
  /\ pc = "receive"
  /\ pc' = "closed" /\ busy' = 0
  /\ UNCHANGED <<now, deadline, inbox, responses, inTime>>

Collect == Check \/ Receive \/ Expire

\* The network.
Arrive ==
  /\ pc \in Loop /\ Len(inbox) < Buffer
  /\ \E data \in Answer \cup {Junk} :
       /\ inbox' = Append(inbox, data)
       /\ inTime' = IF now < Timeout /\ data # Junk THEN inTime \cup {data} ELSE inTime
  /\ UNCHANGED <<pc, now, deadline, busy, responses>>

\* recvfrom has nothing to return yet.
Waiting == pc = "receive" /\ inbox = <<>> /\ now < deadline

Tick ==
  /\ pc \in Loop
  /\ Waiting \/ busy < Delay
  /\ now' = now + 1
  /\ busy' = IF Waiting THEN busy ELSE busy + 1
  /\ UNCHANGED <<pc, deadline, inbox, responses, inTime>>

-----------------------------------------------------------------------------
\* Replies that keep coming do not prolong the search (deadline, ssdp.py:123):
\* the wait that is under way when its timeout is over is the last one, so that
\* the program is late with two steps at most, that one and the next check.
OnTime == now <= Timeout + 2 * Delay

\* The search returns every reply that came in time, whatever repeats and junk
\* came between and whatever ended it; only what the socket still holds unread
\* is missing (the set seen, ssdp.py:138).
Collected ==
  pc = "closed" => inTime \subseteq Keys(responses) \cup Keys(inbox)
=============================================================================
