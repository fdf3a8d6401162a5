----------------------------- MODULE CacheFile -----------------------------
(***************************************************************************)
(* Cache.save and the reading half of Cache.load (src/yttv/cache.py) on a *)
(* POSIX file system, for several processes.  A save creates a temporary   *)
(* file, fills it, sets its mode and renames it over devices.json; every   *)
(* step may fail, and the process may die between any two.  A load tests   *)
(* that the file exists, opens it and reads it; a rename in between leaves *)
(* the opened file as it was.                                              *)
(*                                                                         *)
(* Files are numbered in the order of their creation, so that a temporary  *)
(* file keeps its number when it becomes devices.json.                     *)
(***************************************************************************)
EXTENDS Naturals

CONSTANTS
  Procs,     \* processes using the file
  Values,    \* device lists worth telling apart
  None,      \* no file
  Torn,      \* what a file with part of its text holds
  Chunks,    \* in how many writes a text reaches the file
  MaxFiles   \* bound: how many files are created in a behaviour

ASSUME ValuesAssumption == None \notin Values /\ Torn \notin Values /\ None # Torn
ASSUME ChunksAssumption == Chunks \in Nat \ {0}
ASSUME MaxFilesAssumption == MaxFiles \in Nat \ {0}

Files == 1 .. MaxFiles

VARIABLES
  link,     \* the file devices.json names, 0 while there is none
  temps,    \* the files that have a temporary name
  text,     \* what each file is meant to hold, None before it is created
  written,  \* how much of it was written
  files,    \* how many files were created
  pc,       \* where each process is
  tmp,      \* the temporary file of a save, 0 without one
  fd,       \* the file a load opened, 0 without one
  seen,     \* what the last load of each process returned
  orphans   \* temporary files whose save died or could not remove them

vars == <<link, temps, text, written, files, pc, tmp, fd, seen, orphans>>
disk == <<link, temps, text, written, files, orphans>>

Idle == {"start", "saved", "loaded", "raised"}
InTry == {"write", "chmod", "replace", "unlink"}
Steps == Idle \cup InTry \cup {"open", "read"}

TypeOK ==
  /\ link \in 0 .. MaxFiles
  /\ temps \in SUBSET Files
  /\ text \in [Files -> Values \cup {None}]
  /\ written \in [Files -> 0 .. Chunks]
  /\ files \in 0 .. MaxFiles
  /\ pc \in [Procs -> Steps]
  /\ tmp \in [Procs -> 0 .. MaxFiles]
  /\ fd \in [Procs -> 0 .. MaxFiles]
  /\ seen \in [Procs -> Values \cup {None, Torn}]
  /\ orphans \in SUBSET Files

\* What reading a file yields: json.loads and the checks of _read reject part
\* of a text.
Contents(f) == IF written[f] = Chunks THEN text[f] ELSE Torn

\* An earlier run left a file, or none did.
Init ==
  /\ \E first \in {0, 1}, v \in Values :
       /\ link = first
       /\ files = first
       /\ text = [f \in Files |-> IF f = first THEN v ELSE None]
       /\ written = [f \in Files |-> IF f = first THEN Chunks ELSE 0]
  /\ temps = {}
  /\ pc = [p \in Procs |-> "start"]
  /\ tmp = [p \in Procs |-> 0]
  /\ fd = [p \in Procs |-> 0]
  /\ seen = [p \in Procs |-> None]
  /\ orphans = {}

GoTo(p, step) == pc' = [pc EXCEPT ![p] = step]

-----------------------------------------------------------------------------
(* Cache.save.                                                              *)

\* Mutant of MakeTemp: the temporary file has a fixed name.
MakeTemp_Shared(p) ==
  /\ pc[p] \in Idle
  /\ \E f \in Files, v \in Values :
       /\ IF temps = {} THEN f = files + 1 ELSE f \in temps
       /\ files' = IF f > files THEN f ELSE files
       /\ temps' = temps \cup {f}
       /\ tmp' = [tmp EXCEPT ![p] = f]
       /\ text' = [text EXCEPT ![f] = v]
       /\ written' = [written EXCEPT ![f] = 0]
  /\ GoTo(p, "write")
  /\ UNCHANGED <<link, fd, seen, orphans>>

\* mkdir and mkstemp: a new empty file with mode 0600, or an OSError.
MakeTemp(p) ==
  /\ pc[p] \in Idle
  /\ \/ /\ files < MaxFiles
        /\ files' = files + 1
        /\ temps' = temps \cup {files'}
        /\ tmp' = [tmp EXCEPT ![p] = files']
        /\ \E v \in Values : text' = [text EXCEPT ![files'] = v]
        /\ written' = [written EXCEPT ![files'] = 0]
        /\ GoTo(p, "write")
        /\ UNCHANGED <<link, fd, seen, orphans>>
     \/ GoTo(p, "raised") /\ UNCHANGED <<disk, tmp, fd, seen>>

\* Mutant of Fail: nothing is cleaned up.
Fail_Littering(p) ==
  /\ tmp' = [tmp EXCEPT ![p] = 0]
  /\ GoTo(p, "raised")
  /\ UNCHANGED <<disk, fd, seen>>

\* The except clause is entered from every step of the try block.
Fail(p) == GoTo(p, "unlink") /\ UNCHANGED <<disk, tmp, fd, seen>>

\* Mutants of WriteText: the file is renamed while part of its text is still
\* in a buffer; a failed write is repeated.
WriteText_Buffered(p) ==
  /\ pc[p] = "write"
  /\ written' = [written EXCEPT ![tmp[p]] = @ + 1]
  /\ GoTo(p, "chmod")
  /\ UNCHANGED <<link, temps, text, files, tmp, fd, seen, orphans>>
WriteText_Twice(p) ==
  /\ pc[p] = "write"
  /\ written' = [written EXCEPT ![tmp[p]] = @ + 1]
  /\ \/ GoTo(p, "write")
     \/ written'[tmp[p]] >= Chunks /\ GoTo(p, "chmod")
  /\ UNCHANGED <<link, temps, text, files, tmp, fd, seen, orphans>>

WriteText(p) ==
  /\ pc[p] = "write"
  /\ \/ /\ written' = [written EXCEPT ![tmp[p]] = @ + 1]
        /\ GoTo(p, IF written'[tmp[p]] = Chunks THEN "chmod" ELSE "write")
        /\ UNCHANGED <<link, temps, text, files, tmp, fd, seen, orphans>>
     \/ Fail(p)

Chmod(p) ==
  /\ pc[p] = "chmod"
  /\ \/ GoTo(p, "replace") /\ UNCHANGED <<disk, tmp, fd, seen>>
     \/ Fail(p)

\* os.replace is one step of the file system.
Replace(p) ==
  /\ pc[p] = "replace"
  /\ \/ /\ link' = tmp[p]
        /\ temps' = temps \ {tmp[p]}
        /\ tmp' = [tmp EXCEPT ![p] = 0]
        /\ GoTo(p, "saved")
        /\ UNCHANGED <<text, written, files, fd, seen, orphans>>
     \/ Fail(p)

\* Mutant of Unlink: the cleanup removes the file it meant to replace.
Unlink_Target(p) ==
  /\ pc[p] = "unlink"
  /\ link' = 0
  /\ orphans' = orphans \cup {tmp[p]}
  /\ tmp' = [tmp EXCEPT ![p] = 0]
  /\ GoTo(p, "raised")
  /\ UNCHANGED <<temps, text, written, files, fd, seen>>

\* The temporary file goes, unless removing it fails as well.
Unlink(p) ==
  /\ pc[p] = "unlink"
  /\ \/ temps' = temps \ {tmp[p]} /\ UNCHANGED orphans
     \/ orphans' = orphans \cup {tmp[p]} /\ UNCHANGED temps
  /\ tmp' = [tmp EXCEPT ![p] = 0]
  /\ GoTo(p, "raised")
  /\ UNCHANGED <<link, text, written, files, fd, seen>>

-----------------------------------------------------------------------------
(* Cache.load and _read.                                                    *)

\* path.exists(): without a file the list is empty, or ytcast's.
Exists(p) ==
  /\ pc[p] \in Idle
  /\ IF link = 0
       THEN seen' = [seen EXCEPT ![p] = None] /\ GoTo(p, "loaded")
       ELSE GoTo(p, "open") /\ UNCHANGED seen
  /\ UNCHANGED <<disk, tmp, fd>>

\* Opening fails with an OSError when there is no file by that name anymore,
\* or for reasons of its own.
Open(p) ==
  /\ pc[p] = "open"
  /\ \/ /\ link # 0
        /\ fd' = [fd EXCEPT ![p] = link]
        /\ GoTo(p, "read")
     \/ GoTo(p, "raised") /\ UNCHANGED fd
  /\ UNCHANGED <<disk, tmp, seen>>

ReadText(p) ==
  /\ pc[p] = "read"
  /\ seen' = [seen EXCEPT ![p] = Contents(fd[p])]
  /\ fd' = [fd EXCEPT ![p] = 0]
  /\ GoTo(p, "loaded")
  /\ UNCHANGED <<disk, tmp>>

-----------------------------------------------------------------------------
\* The process dies and a new one takes its place: a temporary file stays.
\* What a load had opened before counts as read.
Crash(p) ==
  /\ pc[p] \notin Idle
  /\ orphans' = orphans \cup ({tmp[p]} \ {0})
  /\ seen' = [seen EXCEPT ![p] = IF pc[p] = "read" THEN Contents(fd[p]) ELSE @]
  /\ tmp' = [tmp EXCEPT ![p] = 0]
  /\ fd' = [fd EXCEPT ![p] = 0]
  /\ GoTo(p, "start")
  /\ UNCHANGED <<link, temps, text, written, files>>

Next ==
  \E p \in Procs :
    \/ MakeTemp(p) \/ WriteText(p) \/ Chmod(p) \/ Replace(p) \/ Unlink(p)
    \/ Exists(p) \/ Open(p) \/ ReadText(p) \/ Crash(p)

Spec == Init /\ [][Next]_vars

-----------------------------------------------------------------------------
(* Properties.                                                              *)

\* What load promises and save provides: devices.json, and any version of it a
\* load has open, is the whole text of one save.
NeverTorn ==
  /\ link # 0 => Contents(link) # Torn
  /\ \A p \in Procs : pc[p] = "read" => Contents(fd[p]) # Torn

\* Each save works on a file of its own, which no load can see yet.
OwnTemp ==
  \A p \in Procs : tmp[p] # 0 =>
    /\ tmp[p] \in temps /\ tmp[p] # link
    /\ \A q \in Procs : fd[q] # tmp[p] /\ (q # p => tmp[q] # tmp[p])

\* A temporary file is the work of a running save, or was left by one that
\* died or could not remove it: a save that ended has cleaned up.
NoLitter == temps \subseteq {tmp[p] : p \in Procs} \cup orphans

\* devices.json never goes away, so that load may open what it saw exist.
NeverVanishes == [][link # 0 => link' # 0]_link

\* For its users the file is one value, written at once and read at once.
Atomic == INSTANCE AtomicFile WITH
  value <- IF link = 0 THEN None ELSE Contents(link),
  seen  <- [p \in Procs |-> IF pc[p] = "read" THEN Contents(fd[p]) ELSE seen[p]]

IsAtomic == Atomic!AtomicSpec

\* Why it is: a file is linked or opened only after all its text is written,
\* and only the save that created a file writes to it.
Numbered ==
  /\ link <= files /\ \A f \in temps : f <= files
  /\ \A p \in Procs : tmp[p] <= files /\ fd[p] <= files

Stage(p) ==
  /\ pc[p] \in InTry <=> tmp[p] # 0
  /\ pc[p] = "read" => fd[p] # 0
  /\ pc[p] \in {"chmod", "replace"} => written[tmp[p]] = Chunks
  /\ pc[p] = "write" => written[tmp[p]] < Chunks
  /\ tmp[p] # 0 => text[tmp[p]] \in Values

Whole(f) == written[f] = Chunks /\ text[f] \in Values

Inv ==
  /\ TypeOK
  /\ Numbered
  /\ \A p \in Procs : Stage(p)
  /\ OwnTemp
  /\ link # 0 => Whole(link)
  /\ \A p \in Procs : fd[p] # 0 => Whole(fd[p])
============================================================================
