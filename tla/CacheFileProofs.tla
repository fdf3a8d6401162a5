-------------------------- MODULE CacheFileProofs --------------------------
(***************************************************************************)
(* Proofs about CacheFile, for any number of processes, device lists and  *)
(* writes: devices.json is never torn, and saves and loads implement the   *)
(* writes and reads of AtomicFile.                                         *)
(***************************************************************************)
EXTENDS CacheFile, TLAPS

LEMMA InitInv == Init => Inv
<1> SUFFICES ASSUME Init PROVE Inv
  OBVIOUS
<1>1. PICK first \in {0, 1}, v \in Values :
        /\ link = first /\ files = first
        /\ text = [f \in Files |-> IF f = first THEN v ELSE None]
        /\ written = [f \in Files |-> IF f = first THEN Chunks ELSE 0]
  BY DEF Init
<1>2. TypeOK
  BY <1>1, ChunksAssumption, MaxFilesAssumption DEF Init, TypeOK, Files, Steps, Idle
<1>3. link # 0 => Whole(link)
  BY <1>1, MaxFilesAssumption DEF Whole, Files
<1> QED
  BY <1>2, <1>3, <1>1 DEF Init, Inv, Numbered, Stage, OwnTemp, InTry

LEMMA NextKeepsInv == Inv /\ [Next]_vars => Inv'
<1> SUFFICES ASSUME Inv, [Next]_vars PROVE Inv'
  OBVIOUS
<1> USE ChunksAssumption, MaxFilesAssumption DEF Inv
<1>1. CASE UNCHANGED vars
  BY <1>1 DEF vars, TypeOK, Numbered, Stage, OwnTemp, Whole
<1>2. ASSUME NEW p \in Procs, MakeTemp(p) PROVE Inv'
  <2>1. CASE GoTo(p, "raised") /\ UNCHANGED <<disk, tmp, fd, seen>>
    BY <1>2, <2>1 DEF MakeTemp, disk, GoTo, TypeOK, Numbered, Stage, OwnTemp, Whole,
                      Steps, Idle, InTry
  <2>2. CASE ~ (GoTo(p, "raised") /\ UNCHANGED <<disk, tmp, fd, seen>>)
    <3>1. PICK v \in Values : text' = [text EXCEPT ![files'] = v]
      BY <1>2, <2>2 DEF MakeTemp
    <3>2. /\ files' = files + 1 /\ files' \in Files
          /\ temps' = temps \cup {files'}
          /\ tmp' = [tmp EXCEPT ![p] = files']
          /\ written' = [written EXCEPT ![files'] = 0]
          /\ pc' = [pc EXCEPT ![p] = "write"]
          /\ UNCHANGED <<link, fd, seen, orphans>>
      BY <1>2, <2>2 DEF MakeTemp, GoTo, TypeOK, Files
    <3>3. TypeOK' /\ Numbered'
      BY <3>1, <3>2 DEF TypeOK, Numbered, Files, Steps, InTry
    <3>4. \A q \in Procs : Stage(q)'
      BY <3>1, <3>2 DEF TypeOK, Numbered, Stage, OwnTemp, Files, InTry
    <3>5. OwnTemp'
      BY <3>2 DEF TypeOK, Numbered, OwnTemp, Files
    <3>6. (link # 0 => Whole(link))' /\ \A q \in Procs : (fd[q] # 0 => Whole(fd[q]))'
      BY <3>1, <3>2 DEF TypeOK, Numbered, Whole, Files
    <3> QED
      BY <3>3, <3>4, <3>5, <3>6
  <2> QED
    BY <2>1, <2>2
<1>3. ASSUME NEW p \in Procs, Fail(p), pc[p] \in InTry PROVE Inv'
  BY <1>3 DEF Fail, disk, GoTo, TypeOK, Numbered, Stage, OwnTemp, Whole, Steps, InTry
<1>4. ASSUME NEW p \in Procs, WriteText(p) PROVE Inv'
  <2>1. CASE Fail(p)
    BY <1>3, <1>4, <2>1 DEF WriteText, InTry
  <2>2. CASE ~ Fail(p)
    <3>1. /\ tmp[p] # 0 /\ tmp[p] \in Files /\ written[tmp[p]] < Chunks
          /\ written' = [written EXCEPT ![tmp[p]] = written[tmp[p]] + 1]
          /\ pc' = [pc EXCEPT ![p] = IF written[tmp[p]] + 1 = Chunks THEN "chmod" ELSE "write"]
          /\ UNCHANGED <<link, temps, text, files, tmp, fd, seen, orphans>>
      BY <1>4, <2>2 DEF WriteText, GoTo, TypeOK, Stage, InTry, Files
    <3>2. TypeOK' /\ Numbered'
      BY <3>1 DEF TypeOK, Numbered, Files, Steps, InTry
    <3>3. \A q \in Procs : Stage(q)'
      BY <1>4, <3>1 DEF WriteText, TypeOK, Stage, OwnTemp, Files, InTry
    <3>4. OwnTemp'
      BY <3>1 DEF OwnTemp
    <3>5. (link # 0 => Whole(link))' /\ \A q \in Procs : (fd[q] # 0 => Whole(fd[q]))'
      BY <3>1 DEF TypeOK, Whole, OwnTemp, Files
    <3> QED
      BY <3>2, <3>3, <3>4, <3>5
  <2> QED
    BY <2>1, <2>2
<1>5. ASSUME NEW p \in Procs, Chmod(p) PROVE Inv'
  <2>1. CASE Fail(p)
    BY <1>3, <1>5, <2>1 DEF Chmod, InTry
  <2>2. CASE ~ Fail(p)
    BY <1>5, <2>2 DEF Chmod, disk, GoTo, TypeOK, Numbered, Stage, OwnTemp, Whole, Steps, InTry
  <2> QED
    BY <2>1, <2>2
<1>6. ASSUME NEW p \in Procs, Replace(p) PROVE Inv'
  <2>1. CASE Fail(p)
    BY <1>3, <1>6, <2>1 DEF Replace, InTry
  <2>2. CASE ~ Fail(p)
    <3>1. /\ pc[p] = "replace" /\ link' = tmp[p]
          /\ temps' = temps \ {tmp[p]}
          /\ tmp' = [tmp EXCEPT ![p] = 0]
          /\ pc' = [pc EXCEPT ![p] = "saved"]
          /\ UNCHANGED <<text, written, files, fd, seen, orphans>>
      BY <1>6, <2>2 DEF Replace, GoTo
    <3>2. tmp[p] # 0 /\ Whole(tmp[p])
      BY <3>1 DEF Stage, InTry, Whole
    <3>3. TypeOK' /\ Numbered'
      BY <3>1 DEF TypeOK, Numbered, Steps, Idle
    <3>4. \A q \in Procs : Stage(q)'
      BY <3>1 DEF TypeOK, Stage, InTry
    <3>5. OwnTemp'
      BY <3>1 DEF TypeOK, OwnTemp
    <3>6. (link # 0 => Whole(link))' /\ \A q \in Procs : (fd[q] # 0 => Whole(fd[q]))'
      BY <3>1, <3>2 DEF Whole
    <3> QED
      BY <3>3, <3>4, <3>5, <3>6
  <2> QED
    BY <2>1, <2>2
<1>7. ASSUME NEW p \in Procs, Unlink(p) PROVE Inv'
  <2>1. /\ pc[p] = "unlink" /\ tmp[p] \in Files /\ tmp[p] # 0
        /\ temps' \in {temps, temps \ {tmp[p]}}
        /\ orphans' \in {orphans, orphans \cup {tmp[p]}}
        /\ tmp' = [tmp EXCEPT ![p] = 0]
        /\ pc' = [pc EXCEPT ![p] = "raised"]
        /\ UNCHANGED <<link, text, written, files, fd, seen>>
    BY <1>7 DEF Unlink, GoTo, TypeOK, Stage, InTry, Files
  <2>2. TypeOK' /\ Numbered'
    BY <2>1 DEF TypeOK, Numbered, Steps, Idle
  <2>3. \A q \in Procs : Stage(q)'
    BY <2>1 DEF TypeOK, Stage, InTry
  <2>4. OwnTemp'
    BY <2>1 DEF TypeOK, OwnTemp
  <2>5. (link # 0 => Whole(link))' /\ \A q \in Procs : (fd[q] # 0 => Whole(fd[q]))'
    BY <2>1 DEF Whole
  <2> QED
    BY <2>2, <2>3, <2>4, <2>5
<1>8. ASSUME NEW p \in Procs, Exists(p) PROVE Inv'
  BY <1>8 DEF Exists, disk, GoTo, TypeOK, Numbered, Stage, OwnTemp, Whole, Steps, Idle, InTry
<1>9. ASSUME NEW p \in Procs, Open(p) PROVE Inv'
  BY <1>9 DEF Open, disk, GoTo, TypeOK, Numbered, Stage, OwnTemp, Whole, Steps, Idle, InTry
<1>10. ASSUME NEW p \in Procs, ReadText(p) PROVE Inv'
  <2>1. Contents(fd[p]) \in Values
    BY <1>10 DEF ReadText, Stage, Contents, Whole
  <2> QED
    BY <1>10, <2>1 DEF ReadText, disk, GoTo, TypeOK, Numbered, Stage, OwnTemp, Whole,
                       Steps, Idle, InTry
<1>11. ASSUME NEW p \in Procs, Crash(p) PROVE Inv'
  <2>1. pc[p] = "read" => Contents(fd[p]) \in Values
    BY <1>11 DEF Stage, Contents, Whole
  <2>2. tmp[p] # 0 => tmp[p] \in Files
    BY <1>11 DEF TypeOK, Files
  <2>3. TypeOK' /\ Numbered'
    BY <1>11, <2>1, <2>2 DEF Crash, GoTo, TypeOK, Numbered, Steps, Idle
  <2>4. \A q \in Procs : Stage(q)'
    BY <1>11 DEF Crash, GoTo, TypeOK, Stage, InTry
  <2>5. OwnTemp' /\ (link # 0 => Whole(link))' /\ \A q \in Procs : (fd[q] # 0 => Whole(fd[q]))'
    BY <1>11 DEF Crash, GoTo, TypeOK, OwnTemp, Whole
  <2> QED
    BY <2>3, <2>4, <2>5
<1> QED
  BY <1>1, <1>2, <1>4, <1>5, <1>6, <1>7, <1>8, <1>9, <1>10, <1>11 DEF Next

LEMMA Invariance == Spec => []Inv
BY InitInv, NextKeepsInv, PTL DEF Spec

\* Type correctness of the file operations.
THEOREM TypeCorrect == Spec => []TypeOK
<1>1. Inv => TypeOK
  BY DEF Inv
<1> QED
  BY <1>1, Invariance, PTL

\* No load ever gets part of a list, and no crash or failed save leaves one
\* under the name devices.json.
THEOREM FileIsNeverTorn == Spec => []NeverTorn
<1>1. Inv => NeverTorn
  BY ValuesAssumption DEF Inv, NeverTorn, Contents, Whole, Stage
<1> QED
  BY <1>1, Invariance, PTL

\* Saves do not share temporary files.
THEOREM TempsAreOwn == Spec => []OwnTemp
<1>1. Inv => OwnTemp
  BY DEF Inv
<1> QED
  BY <1>1, Invariance, PTL

-----------------------------------------------------------------------------
(* What saves leave behind.                                                 *)

LEMMA NextKeepsTidy == Inv /\ NoLitter /\ [Next]_vars => NoLitter'
<1> SUFFICES ASSUME Inv, NoLitter, [Next]_vars, NEW f \in temps'
             PROVE  f \in orphans' \/ \E q \in Procs : tmp'[q] = f
  BY DEF NoLitter
<1>0. /\ tmp \in [Procs -> 0 .. MaxFiles] /\ temps \subseteq Files /\ 0 \notin temps
      /\ f \in temps => f \in orphans \/ \E q \in Procs : tmp[q] = f
  <2>1. tmp \in [Procs -> 0 .. MaxFiles] /\ temps \subseteq Files /\ 0 \notin Files
    BY MaxFilesAssumption DEF Inv, TypeOK, Files
  <2>2. f \in temps => f \in orphans \/ \E q \in Procs : tmp[q] = f
    BY DEF NoLitter
  <2> QED
    BY <2>1, <2>2
<1>1. ASSUME UNCHANGED <<temps, tmp, orphans>> PROVE f \in orphans' \/ \E q \in Procs : tmp'[q] = f
  BY <1>0, <1>1
<1>2. ASSUME NEW p \in Procs, MakeTemp(p) PROVE f \in orphans' \/ \E q \in Procs : tmp'[q] = f
  <2>1. CASE UNCHANGED <<disk, tmp>>
    BY <1>1, <2>1 DEF disk
  <2>2. CASE /\ temps' = temps \cup {files'} /\ tmp' = [tmp EXCEPT ![p] = files'] /\ orphans' = orphans
    <3>1. tmp[p] = 0
      BY <1>2 DEF MakeTemp, Inv, Stage, Idle, InTry
    <3>2. CASE f = files'
      BY <1>0, <2>2, <3>2
    <3>3. CASE f \in temps
      BY <1>0, <2>2, <3>1, <3>3
    <3> QED
      BY <2>2, <3>2, <3>3
  <2> QED
    BY <1>2, <2>1, <2>2 DEF MakeTemp
<1>3. ASSUME NEW p \in Procs, Replace(p) \/ Unlink(p) \/ Crash(p)
      PROVE  f \in orphans' \/ \E q \in Procs : tmp'[q] = f
  <2>1. CASE UNCHANGED <<temps, tmp, orphans>>
    BY <1>1, <2>1
  <2>2. CASE ~ UNCHANGED <<temps, tmp, orphans>>
    <3>1. /\ tmp' = [tmp EXCEPT ![p] = 0] /\ temps' \subseteq temps /\ orphans \subseteq orphans'
          /\ (tmp[p] \notin temps') \/ (tmp[p] \in orphans')
      BY <1>0, <1>3, <2>2 DEF Replace, Unlink, Crash, Fail, disk
    <3> QED
      BY <1>0, <3>1
  <2> QED
    BY <2>1, <2>2
<1>4. ASSUME NEW p \in Procs, WriteText(p) \/ Chmod(p) \/ Exists(p) \/ Open(p) \/ ReadText(p)
      PROVE  UNCHANGED <<temps, tmp, orphans>>
  BY <1>4 DEF WriteText, Chmod, Exists, Open, ReadText, Fail, disk
<1> QED
  BY <1>1, <1>2, <1>3, <1>4 DEF Next, vars

\* A temporary file belongs to a save under way, or to one that died or could
\* not remove it.
THEOREM SavesCleanUp == Spec => []NoLitter
<1>1. Init => NoLitter
  BY DEF Init, NoLitter
<1> QED
  BY <1>1, NextKeepsTidy, Invariance, PTL DEF Spec

\* Once there is a devices.json, there always is one.
THEOREM FileNeverVanishes == Spec => NeverVanishes
<1>1. ASSUME Inv, [Next]_vars PROVE [link # 0 => link' # 0]_link
  <2>1. CASE UNCHANGED link
    BY <2>1
  <2>2. ASSUME NEW p \in Procs, Replace(p) PROVE link' = link \/ link' # 0
    BY <1>1, <2>2 DEF Replace, Fail, disk, Inv, Stage, InTry
  <2>3. ASSUME NEW p \in Procs, MakeTemp(p) \/ WriteText(p) \/ Chmod(p) \/ Unlink(p) \/ Exists(p)
                                  \/ Open(p) \/ ReadText(p) \/ Crash(p)
        PROVE  link' = link
    BY <2>3 DEF MakeTemp, WriteText, Chmod, Unlink, Exists, Open, ReadText, Crash, Fail, disk
  <2> QED
    BY <1>1, <2>1, <2>2, <2>3 DEF Next, vars
<1> QED
  BY <1>1, Invariance, PTL DEF Spec, NeverVanishes

-----------------------------------------------------------------------------
(* The refinement: os.replace writes the abstract value, opening the file    *)
(* reads it, everything else stutters.                                      *)

LEMMA InitImplements == Init => Atomic!AtomicInit
<1> SUFFICES ASSUME Init PROVE Atomic!AtomicInit
  OBVIOUS
<1>1. PICK first \in {0, 1}, v \in Values :
        /\ link = first
        /\ text = [f \in Files |-> IF f = first THEN v ELSE None]
        /\ written = [f \in Files |-> IF f = first THEN Chunks ELSE 0]
  BY DEF Init
<1>2. (IF link = 0 THEN None ELSE Contents(link)) \in Values \cup {None}
  BY <1>1, MaxFilesAssumption DEF Contents, Files
<1>3. [p \in Procs |-> IF pc[p] = "read" THEN Contents(fd[p]) ELSE seen[p]]
        = [p \in Procs |-> None]
  BY DEF Init
<1> QED
  BY <1>2, <1>3 DEF Atomic!AtomicInit

LEMMA NextImplements ==
  ASSUME Inv, [Next]_vars
  PROVE  [Atomic!AtomicNext]_(Atomic!avars)
<1> DEFINE value == IF link = 0 THEN None ELSE Contents(link)
           last  == [p \in Procs |-> IF pc[p] = "read" THEN Contents(fd[p]) ELSE seen[p]]
<1> USE ChunksAssumption DEF Inv
<1>1. CASE UNCHANGED vars
  BY <1>1 DEF vars, Contents, Atomic!avars
<1>2. ASSUME NEW p \in Procs, MakeTemp(p) PROVE value' = value /\ last' = last
  <2>1. \A f \in Files : f <= files => text'[f] = text[f] /\ written'[f] = written[f]
    <3>1. CASE UNCHANGED disk
      BY <3>1 DEF disk
    <3>2. CASE /\ files < MaxFiles /\ files' = files + 1
               /\ \E v \in Values : text' = [text EXCEPT ![files'] = v]
               /\ written' = [written EXCEPT ![files'] = 0]
      <4>1. \A f \in Files : f <= files => f # files'
        BY <3>2 DEF TypeOK, Files
      <4> QED
        BY <3>2, <4>1 DEF TypeOK
    <3> QED
      BY <1>2, <3>1, <3>2 DEF MakeTemp
  <2>2. link' = link /\ fd' = fd /\ seen' = seen
    BY <1>2 DEF MakeTemp, disk
  <2>3. link # 0 => Contents(link)' = Contents(link)
    BY <2>1, <2>2 DEF Contents, Numbered, TypeOK, Files
  <2>4. \A q \in Procs : pc[q] = "read" => Contents(fd[q])' = Contents(fd[q])
    BY <2>1, <2>2 DEF Contents, Numbered, Stage, TypeOK, Files
  <2>5. \A q \in Procs : pc'[q] = "read" <=> pc[q] = "read"
    BY <1>2 DEF MakeTemp, GoTo, TypeOK, Idle
  <2> QED
    BY <2>2, <2>3, <2>4, <2>5
<1>3. ASSUME NEW p \in Procs, WriteText(p) PROVE value' = value /\ last' = last
  <2>1. /\ tmp[p] # 0
        /\ \A f \in Files : f # tmp[p] => text'[f] = text[f] /\ written'[f] = written[f]
    BY <1>3 DEF WriteText, Fail, disk, TypeOK, Stage, InTry, Files
  <2>2. link' = link /\ fd' = fd /\ seen' = seen
    BY <1>3 DEF WriteText, Fail, disk
  <2>3. link # 0 => Contents(link)' = Contents(link)
    BY <2>1, <2>2 DEF Contents, OwnTemp, TypeOK, Files
  <2>4. \A q \in Procs : pc[q] = "read" => Contents(fd[q])' = Contents(fd[q])
    BY <2>1, <2>2 DEF Contents, OwnTemp, Stage, TypeOK, Files
  <2>5. \A q \in Procs : pc'[q] = "read" <=> pc[q] = "read"
    BY <1>3 DEF WriteText, Fail, GoTo, TypeOK
  <2> QED
    BY <2>2, <2>3, <2>4, <2>5
<1>4. ASSUME NEW p \in Procs, Chmod(p) \/ Unlink(p) PROVE value' = value /\ last' = last
  <2>1. UNCHANGED <<link, text, written, fd, seen>>
    BY <1>4 DEF Chmod, Unlink, Fail, disk
  <2>2. \A q \in Procs : pc'[q] = "read" <=> pc[q] = "read"
    BY <1>4 DEF Chmod, Unlink, Fail, GoTo, TypeOK
  <2> QED
    BY <2>1, <2>2 DEF Contents
<1>5. ASSUME NEW p \in Procs, Replace(p)
      PROVE  last' = last /\ (value' = value \/ value' \in Values)
  <2>1. UNCHANGED <<text, written, fd, seen>> /\ link' \in {link, tmp[p]}
    BY <1>5 DEF Replace, Fail, disk
  <2>2. \A q \in Procs : pc'[q] = "read" <=> pc[q] = "read"
    BY <1>5 DEF Replace, Fail, GoTo, TypeOK
  <2>3. Contents(tmp[p]) \in Values
    BY <1>5 DEF Replace, Stage, InTry, Contents
  <2>4. CASE link' = link
    BY <2>1, <2>2, <2>4 DEF Contents
  <2>5. CASE link' = tmp[p]
    BY <1>5, <2>1, <2>2, <2>3, <2>5 DEF Contents, Replace, Stage, InTry
  <2> QED
    BY <2>1, <2>4, <2>5
<1>6. ASSUME NEW p \in Procs, Exists(p)
      PROVE  value' = value /\ (last' = last \/ last' = [last EXCEPT ![p] = value])
  <2>1. UNCHANGED <<link, text, written, fd>>
    BY <1>6 DEF Exists, disk
  <2>2. CASE link = 0
    BY <1>6, <2>1, <2>2 DEF Exists, GoTo, TypeOK, Idle, Contents
  <2>3. CASE link # 0
    BY <1>6, <2>1, <2>3 DEF Exists, GoTo, TypeOK, Idle, Contents
  <2> QED
    BY <2>2, <2>3
<1>7. ASSUME NEW p \in Procs, Open(p)
      PROVE  value' = value /\ (last' = last \/ last' = [last EXCEPT ![p] = value])
  <2>1. UNCHANGED <<link, text, written, seen>>
    BY <1>7 DEF Open, disk
  <2>2. CASE GoTo(p, "raised") /\ UNCHANGED fd
    BY <1>7, <2>1, <2>2 DEF Open, GoTo, TypeOK, Contents
  <2>3. CASE link # 0 /\ fd' = [fd EXCEPT ![p] = link] /\ GoTo(p, "read")
    BY <1>7, <2>1, <2>3 DEF Open, GoTo, TypeOK, Contents
  <2> QED
    BY <1>7, <2>2, <2>3 DEF Open
<1>8. ASSUME NEW p \in Procs, ReadText(p) \/ Crash(p) PROVE value' = value /\ last' = last
  <2>1. UNCHANGED <<link, text, written>>
    BY <1>8 DEF ReadText, Crash, disk
  <2>2. CASE ReadText(p)
    BY <2>1, <2>2 DEF ReadText, GoTo, TypeOK, Contents
  <2>3. CASE Crash(p)
    BY <2>1, <2>3 DEF Crash, GoTo, TypeOK, Contents
  <2> QED
    BY <1>8, <2>2, <2>3
<1> HIDE DEF value, last
<1>9. CASE Next
  <2>1. \/ value' = value /\ last' = last
        \/ last' = last /\ value' \in Values
        \/ \E p \in Procs : value' = value /\ last' = [last EXCEPT ![p] = value]
    BY <1>2, <1>3, <1>4, <1>5, <1>6, <1>7, <1>8, <1>9 DEF Next
  <2> QED
    BY <2>1 DEF value, last, Atomic!AtomicNext, Atomic!Write, Atomic!Read, Atomic!avars
<1> QED
  BY <1>1, <1>9

\* Saves and loads implement the one-value file of AtomicFile, which is what
\* Yttv takes devices.json to be.
THEOREM SavesAreAtomic == Spec => IsAtomic
BY InitImplements, NextImplements, Invariance, PTL
   DEF Spec, IsAtomic, Atomic!AtomicSpec
============================================================================
