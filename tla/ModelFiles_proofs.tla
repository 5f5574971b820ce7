------------------------- MODULE ModelFiles_proofs --------------------------
(***************************************************************************)
(* Theorems about the download of a file into a shared cache directory,    *)
(* for any number of processes, blocks, failures and kills.                *)
(***************************************************************************)
EXTENDS ModelFiles, FiniteSetTheorems, TLAPS

-----------------------------------------------------------------------------
(* The invariant.  UnsharedIsWhole is not inductive: that the file that is  *)
(* moved is the one the mover has written, and nobody else, rests on what   *)
(* every process downloads to before there is a file under the name.        *)

Downloading == {"request", "write", "move"}

\* A process has a file open exactly while it downloads.
OpenInv ==
  \A p \in Processes :
    /\ file[p] # NoFile <=> at[p] \in Downloading
    /\ at[p] # "write" => next[p] = 1
    /\ at[p] \in {"get", "loaded"} => cached # NoFile

\* Until there is a file under the name, everybody downloads to the one with
\* the temporary name; two have one file open only if it is shared.
NamesInv ==
  /\ cached # NoFile => temp # cached
  /\ cached = NoFile => \A p \in Processes : file[p] \in {NoFile, temp}
  /\ \A p, q \in Processes :
       p # q /\ file[p] = file[q] /\ file[p] # NoFile => file[p] \in shared

\* What p has written so far.
Written(p) == IF at[p] = "move" THEN 1..Size ELSE 1..next[p] - 1

\* A file only one process has open is what that process has written.
ContentInv ==
  \A p \in Processes :
    file[p] # NoFile /\ file[p] \notin shared => content[file[p]] = Written(p)

\* Nobody writes to an unshared file under its name.
CachedInv ==
  cached # NoFile /\ cached \notin shared =>
    /\ Whole(cached)
    /\ \A p \in Processes : file[p] # cached
    /\ \A p \in Processes : at[p] = "loaded" => loaded[p] = 1..Size

FilesInv == ModelFilesTypeOK /\ OpenInv /\ NamesInv /\ ContentInv /\ CachedInv

-----------------------------------------------------------------------------
LEMMA SizeType == Size \in Nat /\ Size >= 1 /\ MaxBusy \in Nat /\ MaxCrashes \in Nat
  BY ModelFilesAssumption

LEMMA InodeType == Inode \subseteq Nat /\ NoFile \notin Inode
  BY ModelFilesAssumption, FS_CardinalityType DEF Inode, NoFile

\* Nobody has a file yet.
LEMMA FilesInit == ModelFilesInit => FilesInv
  BY SizeType, InodeType
  DEF ModelFilesInit, FilesInv, ModelFilesTypeOK, OpenInv, NamesInv, ContentInv, CachedInv,
      Downloading, Places

\* The steps that touch no file: the invariant follows from the places alone.
LEMMA PlaceStep ==
  ASSUME FilesInv, NEW p \in Processes, Lookup(p) \/ CheckMissing(p) \/ Restart(p)
  PROVE  FilesInv'
<1> USE DEF FilesInv, ModelFilesTypeOK, Goto, Lookup, CheckMissing, Restart
<1>1. ModelFilesTypeOK'
  BY DEF Places
<1>2. OpenInv' /\ NamesInv' /\ ContentInv' /\ CachedInv'
  BY DEF OpenInv, NamesInv, ContentInv, CachedInv, Downloading, Written, Whole
<1> QED BY <1>1, <1>2

LEMMA OpenStep ==
  ASSUME FilesInv, NEW p \in Processes, Open(p)
  PROVE  FilesInv'
<1> USE DEF FilesInv, ModelFilesTypeOK, Goto
<1>1. PICK i \in Inode :
        /\ IF temp = NoFile THEN FreeInode(i) ELSE i = temp
        /\ temp' = i
        /\ file' = [file EXCEPT ![p] = i]
        /\ content' = [content EXCEPT ![i] = {}]
        /\ shared' = IF Writers(i) = {} THEN shared \ {i} ELSE shared \cup {i}
  BY DEF Open
<1>2. /\ at[p] = "open" /\ at' = [at EXCEPT ![p] = "request"]
      /\ UNCHANGED <<cached, next, loaded, busy, crashes>>
  BY DEF Open
<1>3. file[p] = NoFile /\ next[p] = 1 /\ i # NoFile
  BY <1>2, InodeType DEF OpenInv, Downloading
<1>4. cached # NoFile => i # cached
  BY <1>1 DEF NamesInv, FreeInode
<1>5. \A q \in Processes : file[q] = i => Writers(i) # {}
  BY DEF Writers
<1>6. ModelFilesTypeOK'
  BY <1>1, <1>2 DEF Places
<1>7. OpenInv'
  BY <1>1, <1>2, <1>3 DEF OpenInv, Downloading
<1>8. NamesInv'
  <2>1. cached' # NoFile => temp' # cached'
    BY <1>1, <1>2, <1>4
  <2>2. cached' = NoFile => \A q \in Processes : file'[q] \in {NoFile, temp'}
    BY <1>1, <1>2 DEF NamesInv
  <2>3. ASSUME NEW q \in Processes, NEW r \in Processes,
               q # r, file'[q] = file'[r], file'[q] # NoFile
        PROVE  file'[q] \in shared'
    BY <1>1, <1>3, <1>5, <2>3 DEF NamesInv
  <2> QED BY <2>1, <2>2, <2>3 DEF NamesInv
<1>9. ContentInv'
  <2>1. 1..0 = {}
    OBVIOUS
  <2>2. ASSUME NEW q \in Processes, file'[q] # NoFile, file'[q] \notin shared'
        PROVE  content'[file'[q]] = Written(q)'
    <3>1. CASE q = p
      BY <1>1, <1>2, <1>3, <2>1, <3>1 DEF Written
    <3>2. CASE q # p
      <4>1. file'[q] = file[q] /\ Written(q)' = Written(q)
        BY <1>1, <1>2, <3>2 DEF Written
      <4>2. file[q] # i
        BY <1>1, <1>5, <2>2, <4>1
      <4> QED BY <1>1, <2>2, <4>1, <4>2 DEF ContentInv
    <3> QED BY <3>1, <3>2
  <2> QED BY <2>2 DEF ContentInv
<1>10. CachedInv'
  <2> SUFFICES ASSUME cached # NoFile, cached \notin shared'
               PROVE  /\ Whole(cached)'
                      /\ \A q \in Processes : file'[q] # cached
                      /\ \A q \in Processes : at'[q] = "loaded" => loaded'[q] = 1..Size
    BY <1>2 DEF CachedInv
  <2>1. cached \notin shared
    BY <1>1, <1>4
  <2> QED BY <1>1, <1>2, <1>4, <2>1 DEF CachedInv, Whole
<1> QED BY <1>6, <1>7, <1>8, <1>9, <1>10

LEMMA ResponseStep ==
  ASSUME FilesInv, NEW p \in Processes, Response(p)
  PROVE  FilesInv'
<1> USE SizeType DEF FilesInv, ModelFilesTypeOK, Goto, Response
<1>1. ModelFilesTypeOK'
  BY DEF Places
<1>2. OpenInv' /\ NamesInv' /\ ContentInv' /\ CachedInv'
  BY DEF OpenInv, NamesInv, ContentInv, CachedInv, Downloading, Written, Whole
<1> QED BY <1>1, <1>2

LEMMA WriteStep ==
  ASSUME FilesInv, NEW p \in Processes, Write(p)
  PROVE  FilesInv'
<1> USE SizeType DEF FilesInv, ModelFilesTypeOK, Goto
<1>1. /\ at[p] = "write" /\ content' = [content EXCEPT ![file[p]] = @ \cup {next[p]}]
      /\ UNCHANGED <<cached, temp, file, loaded, shared, busy, crashes>>
  BY DEF Write
<1>2. \/ next[p] < Size /\ next' = [next EXCEPT ![p] = next[p] + 1] /\ at' = at
      \/ next[p] = Size /\ next' = [next EXCEPT ![p] = 1] /\ at' = [at EXCEPT ![p] = "move"]
  BY DEF Write
<1>3. file[p] \in Inode /\ next[p] \in 1..Size
  BY <1>1 DEF OpenInv, Downloading
<1>4. ModelFilesTypeOK'
  <2>1. content' \in [Inode -> SUBSET (1..Size)]
    BY <1>1, <1>3
  <2>2. next' \in [Processes -> 1..Size] /\ at' \in [Processes -> Places]
    BY <1>2, <1>3 DEF Places
  <2> QED BY <1>1, <2>1, <2>2
<1>5. OpenInv'
  BY <1>1, <1>2 DEF OpenInv, Downloading
<1>6. NamesInv'
  BY <1>1 DEF NamesInv
<1>7. ContentInv'
  <2> SUFFICES ASSUME NEW q \in Processes, file[q] # NoFile, file[q] \notin shared
               PROVE  content'[file[q]] = Written(q)'
    BY <1>1 DEF ContentInv
  <2>1. CASE q = p
    <3>1. content[file[p]] = 1..next[p] - 1
      BY <1>1, <2>1 DEF ContentInv, Written
    <3>2. content'[file[p]] = 1..next[p]
      BY <1>1, <1>3, <3>1
    <3> QED BY <1>1, <1>2, <1>3, <2>1, <3>2 DEF Written
  <2>2. CASE q # p
    <3>1. file[q] # file[p]
      BY <2>2 DEF NamesInv
    <3>2. Written(q)' = Written(q)
      BY <1>2, <2>2 DEF Written
    <3> QED BY <1>1, <3>1, <3>2 DEF ContentInv
  <2> QED BY <2>1, <2>2
<1>8. CachedInv'
  BY <1>1, <1>2 DEF CachedInv, Whole
<1> QED BY <1>4, <1>5, <1>6, <1>7, <1>8

LEMMA MoveStep ==
  ASSUME FilesInv, NEW p \in Processes, Move(p)
  PROVE  FilesInv'
<1> USE DEF FilesInv, ModelFilesTypeOK, Goto
<1>1. /\ at[p] = "move" /\ file' = [file EXCEPT ![p] = NoFile]
      /\ UNCHANGED <<content, next, loaded, shared, busy, crashes>>
  BY DEF Move
<1>2. \/ /\ temp # NoFile /\ cached = NoFile /\ cached' = temp /\ temp' = NoFile
         /\ at' = [at EXCEPT ![p] = "get"]
      \/ UNCHANGED <<cached, temp>> /\ at' = [at EXCEPT ![p] = "failed"]
  BY DEF Move
<1>3. ModelFilesTypeOK'
  BY <1>1, <1>2 DEF Places
<1>4. OpenInv'
  BY <1>1, <1>2 DEF OpenInv, Downloading
<1>5. NamesInv'
  BY <1>1, <1>2 DEF NamesInv
<1>6. ContentInv'
  BY <1>1, <1>2 DEF ContentInv, Written
<1>7. CachedInv'
  <2>1. CASE UNCHANGED <<cached, temp>> /\ at' = [at EXCEPT ![p] = "failed"]
    BY <1>1, <2>1, InodeType DEF CachedInv, Whole
  <2>2. CASE /\ temp # NoFile /\ cached = NoFile /\ cached' = temp /\ temp' = NoFile
             /\ at' = [at EXCEPT ![p] = "get"]
    <3>1. file[p] = temp
      BY <1>1, <2>2 DEF OpenInv, NamesInv, Downloading
    <3>2. temp \notin shared => content[temp] = 1..Size
      BY <1>1, <2>2, <3>1 DEF ContentInv, Written
    <3>3. temp \notin shared => \A q \in Processes : file'[q] # temp
      BY <1>1, <2>2, <3>1 DEF NamesInv
    <3>4. \A q \in Processes : at'[q] # "loaded"
      BY <2>2 DEF OpenInv
    <3> QED BY <1>1, <2>2, <3>2, <3>3, <3>4 DEF CachedInv, Whole
  <2> QED BY <1>2, <2>1, <2>2
<1> QED BY <1>3, <1>4, <1>5, <1>6, <1>7

LEMMA LoadStep ==
  ASSUME FilesInv, NEW p \in Processes, Load(p)
  PROVE  FilesInv'
<1> USE DEF FilesInv, ModelFilesTypeOK, Goto, Load
<1>1. ModelFilesTypeOK'
  BY DEF Places
<1>2. OpenInv' /\ NamesInv' /\ ContentInv'
  BY DEF OpenInv, NamesInv, ContentInv, Downloading, Written
<1>3. CachedInv'
  BY DEF CachedInv, Whole
<1> QED BY <1>1, <1>2, <1>3

\* A download that ends without a file leaves what it has written.
LEMMA StopStep ==
  ASSUME FilesInv, NEW p \in Processes, DownloadFails(p) \/ CrashProcess(p)
  PROVE  FilesInv'
<1> USE DEF FilesInv, ModelFilesTypeOK, Goto, DownloadFails, CrashProcess
<1>1. ModelFilesTypeOK'
  BY SizeType DEF Places
<1>2. OpenInv' /\ NamesInv'
  BY DEF OpenInv, NamesInv, Downloading
<1>3. ContentInv' /\ CachedInv'
  BY InodeType DEF ContentInv, CachedInv, Written, Whole
<1> QED BY <1>1, <1>2, <1>3

LEMMA FilesStep == FilesInv /\ [ModelFilesNext]_fileVars => FilesInv'
<1>1. CASE UNCHANGED fileVars
  BY <1>1 DEF fileVars, FilesInv, ModelFilesTypeOK, OpenInv, NamesInv, ContentInv, CachedInv,
     Written, Whole
<1>2. CASE ModelFilesNext
  BY <1>2, PlaceStep, OpenStep, ResponseStep, WriteStep, MoveStep, LoadStep, StopStep
  DEF ModelFilesNext, GetCached
<1> QED BY <1>1, <1>2

\* The invariant holds in every state.
THEOREM FilesInvariant == ModelFilesSpec => []FilesInv
  BY FilesInit, FilesStep, PTL DEF ModelFilesSpec

\* The variables of the download keep their types, of which one is that no process
\* writes more blocks than the file has.
THEOREM ModelFilesTypeCorrect == ModelFilesSpec => []ModelFilesTypeOK
<1>1. FilesInv => ModelFilesTypeOK
  BY DEF FilesInv
<1> QED BY <1>1, FilesInvariant, PTL

\* What is moved to the name of the file is whole, and so is what models are
\* loaded from, unless two downloads had it open at once; for any number of
\* processes, and however often they fail or are killed.
THEOREM UnsharedFilesAreWhole == ModelFilesSpec => []UnsharedIsWhole
<1>1. FilesInv => UnsharedIsWhole
  BY DEF FilesInv, CachedInv, UnsharedIsWhole
<1> QED BY <1>1, FilesInvariant, PTL
=============================================================================
