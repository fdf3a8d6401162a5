------------------------------- MODULE MCYttv -------------------------------
(***************************************************************************)
(* Instances of Yttv for TLC.  The sets of calls name the situations the   *)
(* runs are about; the .cfg files put them together.                       *)
(***************************************************************************)
EXTENDS Yttv, Migration

CONSTANTS s1, s2, a1, n1, u1, u2

\* Shorthands for calls.
Plain(op, sel) ==
  [op |-> op, sel |-> sel, backend |-> "dial", address |-> None, usn |-> None, uuid |-> None]
AttachTV(sel) == [Plain("attach", sel) EXCEPT !.backend = "appletv", !.address = a1]
AttachCast(sel) == [AttachTV(sel) EXCEPT !.backend = "cast", !.uuid = u1]
AddCast(u) == [Plain("add", "default") EXCEPT !.backend = "cast", !.address = a1, !.uuid = u]

PairAndCast == {Plain("pair", "default"), Plain("cast", "default"), Plain("cast", "needle")}

\* Every way of learning about a device that carries an identity.
Identified == PairAndCast \cup {Plain("discover", "default"), AddCast(u1), AddCast(u2)}

\* Every call, without Device objects as arguments.
Everything == Identified \cup {AttachTV("default"), AttachTV("needle"), Plain("devices", "default")}

\* Calls that pass on the object an earlier call returned, as the command
\* line does between --pair, --appletv, --cast and the videos.
Chained == {Plain("pair", "default"), AttachTV("device"), Plain("cast", "device"),
            Plain("cast", "default"), Plain("devices", "default"), AddCast(u1)}

\* A search between pairing and attaching.
Searched == {Plain("discover", "default"), AttachCast("needle")}

OneReply == {[usn |-> n1, address |-> a1]}
TwoReplies == OneReply \cup {[usn |-> None, address |-> a1]}

\* What is migrated: a screen paired by code and the default, a DIAL device, and
\* three entries nothing can be made of.
Remotes(id) == [id |-> id, token |-> CHOOSE t \in Tag : TRUE, expiration |-> "number"]
Entries ==
  LET code == [remote |-> Remotes(s1), dial |-> None, last_used |-> TRUE]
      dial == [remote |-> Remotes(s2), last_used |-> FALSE,
               dial |-> [usn |-> n1, address |-> a1, timeout |-> "number"]]
  IN  <<[code EXCEPT !.remote = None], code, [code EXCEPT !.remote.id = None],
        dial, [dial EXCEPT !.remote.expiration = "text"]>>
TwoFromYtcast == Migrate(Entries)
Nothing == <<>>

\* What the theorems about this instance ask for.
ASSUME KeepIdentities(Everything) /\ KeepUsns(Everything) /\ Named(TwoFromYtcast)
=============================================================================
