----------------------------- MODULE DeviceBook -----------------------------
(***************************************************************************)
(* What somebody who uses yttv alone takes devices.json for: a book of     *)
(* televisions in which every write records what one call learned of them, *)
(* and nothing else.  There are no processes, no loaded lists and no steps *)
(* of a call here.  Yttv.tla with one process is such a book.              *)
(***************************************************************************)
EXTENDS Devices

CONSTANT Ytcast   \* the devices of ytcast's file

VARIABLE book     \* the list of devices, None before the first write

Entries == IF book = None THEN <<>> ELSE book

\* Entry i becomes the default, with whatever looks the same.
Chosen(list, i) == SetLastUsed(list, i, list[i])

\* pair: a screen with its token, for the entry that has it or for a new one.
Paired(old, new) ==
  \E token \in Token :
    LET screen == [id |-> token.screen, token |-> token]
        known  == {i \in DOMAIN old : old[i].screen # None /\ old[i].screen.id = screen.id}
        fresh  == NewDevice(screen, None, None, None, None)
    IN  \/ \E i \in known : new = Chosen([old EXCEPT ![i].screen = screen], i)
        \/ known = {} /\ new = Chosen(Append(old, fresh), Len(old) + 1)

\* attach, and add_device of a device that is known: one entry gets another way
\* to reach it.
Reached(d, backend, address, usn, uuid) ==
  [d EXCEPT !.backend = backend, !.address = address,
            !.usn = Updated(@, usn), !.uuid = Updated(@, uuid)]

Attached(old, new) ==
  \E i \in DOMAIN old, backend \in Backend, address \in Opt(Address),
     usn \in Opt(Usn), uuid \in Opt(Uuid) :
    new = [old EXCEPT ![i] = Reached(old[i], backend, address, usn, uuid)]

\* add_device of a device that is not known.
Added(old, new) ==
  \E backend \in Backend, address \in Opt(Address), usn \in Opt(Usn), uuid \in Opt(Uuid) :
    LET fresh == NewDevice(None, backend, address, usn, uuid)
    IN  /\ Identity(fresh) # None => \A i \in DOMAIN old : Identity(old[i]) # Identity(fresh)
        /\ new = Append(old, fresh)

\* discover: what answered is reached by DIAL from now on, and what is not in the
\* book comes after it.
Discovered(old, new) ==
  /\ \A i \in DOMAIN old :
       /\ i \in DOMAIN new
       /\ \/ new[i] = old[i]
          \/ /\ old[i].usn # None
             /\ new[i] = [old[i] EXCEPT !.address = new[i].address, !.backend = "dial"]
  /\ \A i \in DOMAIN new \ DOMAIN old :
       /\ new[i] = NewDevice(None, "dial", new[i].address, new[i].usn, None)
       /\ new[i].usn # None => \A j \in 1 .. i - 1 : Identity(new[j]) # new[i].usn

\* d after a cast saw this screen and this uuid.
Seen(d, screen, uuid) == [d EXCEPT !.screen = screen, !.uuid = uuid]

\* What a cast may learn of the device it casts to: another token, also another
\* screen if its app reports one, and the uuid of a Cast device.
Tunings(d) ==
  {d} \cup
  {e \in {Seen(d, screen, uuid) : screen \in Screen, uuid \in Opt(Uuid)} :
     /\ TokenFits(e)
     /\ \/ d.screen # None /\ e.screen.id = d.screen.id
        \/ d.backend \in {"dial", "cast"}
     /\ e.uuid # d.uuid => d.uuid = None /\ d.backend = "cast"}

\* cast: during the call, and after it for the device that has played.
Used(old, new) ==
  \E i \in DOMAIN old : \E d \in Tunings(old[i]) :
    LET list == [old EXCEPT ![i] = d]
    IN  \/ new = list
        \/ d.screen # None /\ d.screen.token # None /\ new = Chosen(list, i)

Init == book = None

\* ytcast's devices come first.
Adopt == book = None /\ Ytcast # <<>> /\ book' = Ytcast

Record ==
  /\ book = None => Ytcast = <<>>
  /\ book' \in Seq(Device)
  /\ \/ Paired(Entries, book')
     \/ Attached(Entries, book')
     \/ Added(Entries, book')
     \/ Discovered(Entries, book')
     \/ Used(Entries, book')

Next == Adopt \/ Record

Spec == Init /\ [][Next]_book
=============================================================================
