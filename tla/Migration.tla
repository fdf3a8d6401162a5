------------------------------ MODULE Migration ------------------------------
(***************************************************************************)
(* Taking over ytcast's file (src/yttv/cache.py, migrate_from_ytcast): a   *)
(* list of entries written by another program, of which those that can be  *)
(* understood become devices.  A file that is missing, no JSON or no list  *)
(* counts as an empty list.                                                *)
(***************************************************************************)
EXTENDS Devices

\* A Remote, whose keys may be missing; its token is one of its own screen.
Remote == [id : Opt(ScreenId), token : Opt(Tag), expiration : {"number", "text"}]

\* A Device; what its WAKEUP timeout looks like decides whether int() takes it.
Dial == [usn : Opt(Usn), address : Opt(Address), timeout : Opt({"number", "text"})]

Entry == [remote : Opt(Remote), dial : Opt(Dial), last_used : BOOLEAN]

\* Entries without an id, a token or an expiry date are skipped.
Readable(e) ==
  /\ e.remote # None
  /\ e.remote.id # None /\ e.remote.token # None /\ e.remote.expiration = "number"

\* The rest of an entry is read outside the try: a timeout that is not a number
\* (or a Location that is no URL) is a ValueError that ends the whole migration.
Breaks(e) == Readable(e) /\ e.dial # None /\ e.dial.timeout = "text"
Raises(entries) == \E i \in DOMAIN entries : Breaks(entries[i])

\* A screen paired by code has no Device, any other one is a DIAL device.
Converted(e) ==
  LET screen == [id |-> e.remote.id,
                 token |-> [screen |-> e.remote.id, tag |-> e.remote.token]]
      device == IF e.dial = None THEN NewDevice(screen, None, None, None, None)
                ELSE NewDevice(screen, "dial", e.dial.address, e.dial.usn, None)
  IN  [device EXCEPT !.last_used = e.last_used]

Migrate(entries) ==
  LET kept == SelectSeq(entries, Readable)
  IN  [i \in DOMAIN kept |-> Converted(kept[i])]
=============================================================================
