--------------------------- MODULE MCCommandLine ---------------------------
(***************************************************************************)
(* Instances of CommandLine for TLC: what people type, and what an earlier *)
(* ytcast left.                                                            *)
(***************************************************************************)
EXTENDS CommandLine, TLC

CONSTANTS s1, a1, n1, u1, u2

Types(options) == [options |-> options, device |-> "default"]

\* Nine commands: five options alone, casting to the default and to another
\* device, and two chains.  --pair alone, --appletv alone and the other chains
\* are parts of these or left to the theorems.  No Cast device is attached to an
\* entry of the list.
Typed == {Types({}), Types({"doctor"}), Types({"search"}), Types({"list"}),
          Types({"cast"}), Types({"videos"}), [Types({"videos"}) EXCEPT !.device = "needle"],
          Types({"pair", "videos"}), Types({"pair", "appletv", "videos"})}
OneVideo == {Types({"videos"})}

Plain(op, sel) ==
  [op |-> op, sel |-> sel, backend |-> "dial", address |-> None, usn |-> None, uuid |-> None]
Made == {Plain("pair", "default"), Plain("discover", "default"), Plain("devices", "default"),
         Plain("cast", "default"), Plain("cast", "needle"), Plain("cast", "device")}
        \cup {[Plain("attach", sel) EXCEPT !.backend = "appletv", !.address = a1] :
                sel \in {"default", "needle", "device"}}
        \cup {[Plain("add", "default") EXCEPT !.backend = "cast", !.address = a1, !.uuid = u] :
                u \in {u1, u2}}

OneReply == {[usn |-> n1, address |-> a1]}

\* One screen paired by code, and one entry without an id.
Remotes(id) == [id |-> id, token |-> CHOOSE t \in Tag : TRUE, expiration |-> "number"]
Sound == <<[remote |-> Remotes(None), dial |-> None, last_used |-> FALSE],
           [remote |-> Remotes(s1), dial |-> None, last_used |-> TRUE]>>
Broken == Append(Sound, [remote |-> Remotes(s1), last_used |-> FALSE,
                         dial |-> [usn |-> n1, address |-> a1, timeout |-> "text"]])
AnyFile == {Sound, Broken}
OnlyBroken == {Broken}
Migrated == Migrate(Sound)

\* What the theorems about the file ask for.
ASSUME KeepIdentities(Made) /\ KeepUsns(Made) /\ Named(Migrated)

People == Permutations(Procs)
=============================================================================
