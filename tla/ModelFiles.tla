----------------------------- MODULE ModelFiles -----------------------------
(***************************************************************************)
(* A file of a model in the cache directory (ModelFileCache.scala) and the *)
(* processes that need it when they start: HuggingFaceClient.getCached     *)
(* looks for it, or downloads it to a temporary name and moves it.  The    *)
(* directory may be shared by processes, which do not know of each other;  *)
(* each may be killed and started again.                                   *)
(*                                                                         *)
(* A file has an identity, its inode, that stays when it is moved: who has *)
(* opened it goes on writing to it under its new name.                     *)
(***************************************************************************)
EXTENDS Naturals, FiniteSets

CONSTANTS
  Processes,
  Size,          \* number of blocks of the file
  MaxBusy,       \* bound: answers that are not the file: 429, redirects
  MaxCrashes     \* bound: kills and failed downloads

ASSUME ModelFilesAssumption ==
  /\ IsFiniteSet(Processes)
  /\ Size \in Nat \ {0} /\ MaxBusy \in Nat /\ MaxCrashes \in Nat

Inode == 1..(Cardinality(Processes) + 2)
NoFile == 0

VARIABLES
  content,   \* [Inode -> SUBSET 1..Size], blocks that have their bytes: one
             \* that was skipped is a hole, as after a truncation
  cached,    \* the inode under the file's name, or NoFile
  temp,      \* the inode under the name with .tmp, or NoFile
  at,        \* [Processes -> where it is in getCached]
  file,      \* [Processes -> the inode it downloads to, or NoFile]
  next,      \* [Processes -> the block it writes next]
  loaded,    \* [Processes -> the blocks the model had when it was loaded]
  shared,    \* inodes that two downloads have written to at once
  busy,      \* answers so far that were not the file
  crashes    \* kills and failures so far

fileVars == <<content, cached, temp, at, file, next, loaded, shared, busy, crashes>>

Places == {"lookup", "put", "open", "request", "write", "move", "get", "loaded",
           "failed"}

ModelFilesTypeOK ==
  /\ content \in [Inode -> SUBSET (1..Size)]
  /\ cached \in Inode \cup {NoFile} /\ temp \in Inode \cup {NoFile}
  /\ at \in [Processes -> Places]
  /\ file \in [Processes -> Inode \cup {NoFile}]
  /\ next \in [Processes -> 1..Size]
  /\ loaded \in [Processes -> SUBSET (1..Size)]
  /\ shared \subseteq Inode
  /\ busy \in 0..MaxBusy /\ crashes \in 0..MaxCrashes

ModelFilesInit ==
  /\ content = [i \in Inode |-> {}]
  /\ cached = NoFile /\ temp = NoFile
  /\ at = [p \in Processes |-> "lookup"]
  /\ file = [p \in Processes |-> NoFile]
  /\ next = [p \in Processes |-> 1]
  /\ loaded = [p \in Processes |-> {}]
  /\ shared = {} /\ busy = 0 /\ crashes = 0

Goto(p, place) == at' = [at EXCEPT ![p] = place]

Whole(i) == content[i] = 1..Size

\* Whose download goes to this file, until it is moved.
Writers(i) == {p \in Processes : file[p] = i}

\* An inode nobody can see any more.
FreeInode(i) == i \notin {cached, temp} /\ Writers(i) = {}

-----------------------------------------------------------------------------
\* getIfExists: a file that is there is not looked into.
Lookup(p) ==
  /\ at[p] = "lookup"
  /\ Goto(p, IF cached = NoFile THEN "put" ELSE "get")
  /\ UNCHANGED <<content, cached, temp, file, next, loaded, shared, busy, crashes>>

\* Mutant: a temporary file is taken for a download that is going on.
CheckTemp(p) ==
  /\ at[p] = "put"
  /\ Goto(p, IF cached = NoFile /\ temp = NoFile THEN "open" ELSE "failed")
  /\ UNCHANGED <<content, cached, temp, file, next, loaded, shared, busy, crashes>>

\* put looks again.  A file that has come meanwhile fails it.
CheckMissing(p) ==
  /\ at[p] = "put"
  /\ Goto(p, IF cached = NoFile THEN "open" ELSE "failed")
  /\ UNCHANGED <<content, cached, temp, file, next, loaded, shared, busy, crashes>>

\* new FileOutputStream, before anything is requested, makes the temporary file
\* or truncates the one that is there.
Open(p) ==
  /\ at[p] = "open"
  /\ \E i \in Inode :
       /\ IF temp = NoFile THEN FreeInode(i) ELSE i = temp
       /\ temp' = i
       /\ file' = [file EXCEPT ![p] = i]
       /\ content' = [content EXCEPT ![i] = {}]
       /\ shared' = IF Writers(i) = {} THEN shared \ {i} ELSE shared \cup {i}
  /\ Goto(p, "request")
  /\ UNCHANGED <<cached, next, loaded, busy, crashes>>

\* The answer is the file; or, with 429, a wait and the same request again, or
\* a redirect and another one.
Response(p) ==
  /\ at[p] = "request"
  /\ \/ Goto(p, "write") /\ UNCHANGED busy
     \/ busy < MaxBusy /\ busy' = busy + 1 /\ UNCHANGED at
  /\ UNCHANGED <<content, cached, temp, file, next, loaded, shared, crashes>>

\* Mutant: one block is written too many.
WriteOneMore(p) ==
  /\ at[p] = "write"
  /\ content' = [content EXCEPT ![file[p]] = @ \cup {next[p]}]
  /\ IF next[p] <= Size
     THEN next' = [next EXCEPT ![p] = @ + 1] /\ UNCHANGED at
     ELSE next' = [next EXCEPT ![p] = 1] /\ Goto(p, "move")
  /\ UNCHANGED <<cached, temp, file, loaded, shared, busy, crashes>>

\* A block is written at the position of this process; after the last one the
\* file is closed.
Write(p) ==
  /\ at[p] = "write"
  /\ content' = [content EXCEPT ![file[p]] = @ \cup {next[p]}]
  /\ IF next[p] < Size
     THEN next' = [next EXCEPT ![p] = @ + 1] /\ UNCHANGED at
     ELSE next' = [next EXCEPT ![p] = 1] /\ Goto(p, "move")
  /\ UNCHANGED <<cached, temp, file, loaded, shared, busy, crashes>>

\* Files.move without REPLACE_EXISTING, of whatever has the temporary name.
Move(p) ==
  /\ at[p] = "move"
  /\ IF temp # NoFile /\ cached = NoFile
     THEN cached' = temp /\ temp' = NoFile /\ Goto(p, "get")
     ELSE Goto(p, "failed") /\ UNCHANGED <<cached, temp>>
  /\ file' = [file EXCEPT ![p] = NoFile]
  /\ UNCHANGED <<content, next, loaded, shared, busy, crashes>>

\* The model is loaded from what the file has now.
Load(p) ==
  /\ at[p] = "get" /\ cached # NoFile
  /\ loaded' = [loaded EXCEPT ![p] = content[cached]]
  /\ Goto(p, "loaded")
  /\ UNCHANGED <<content, cached, temp, file, next, shared, busy, crashes>>

\* Mutant: an answer that ends early is taken for a whole one.
DownloadEndsEarly(p) ==
  /\ at[p] \in {"request", "write"} /\ crashes < MaxCrashes
  /\ crashes' = crashes + 1
  /\ next' = [next EXCEPT ![p] = 1]
  /\ Goto(p, "move")
  /\ UNCHANGED <<content, cached, temp, file, loaded, shared, busy>>

\* The request fails, with another status, a timeout or an interrupted answer.
DownloadFails(p) ==
  /\ at[p] \in {"request", "write"} /\ crashes < MaxCrashes
  /\ crashes' = crashes + 1
  /\ file' = [file EXCEPT ![p] = NoFile]
  /\ next' = [next EXCEPT ![p] = 1]
  /\ Goto(p, "failed")
  /\ UNCHANGED <<content, cached, temp, loaded, shared, busy>>

\* The process is killed.
CrashProcess(p) ==
  /\ at[p] # "failed" /\ crashes < MaxCrashes
  /\ crashes' = crashes + 1
  /\ file' = [file EXCEPT ![p] = NoFile]
  /\ next' = [next EXCEPT ![p] = 1]
  /\ Goto(p, "failed")
  /\ UNCHANGED <<content, cached, temp, loaded, shared, busy>>

\* A process that could not start is started again.
Restart(p) ==
  /\ at[p] = "failed"
  /\ Goto(p, "lookup")
  /\ loaded' = [loaded EXCEPT ![p] = {}]
  /\ UNCHANGED <<content, cached, temp, file, next, shared, busy, crashes>>

GetCached(p) ==
  \/ Lookup(p) \/ CheckMissing(p) \/ Open(p) \/ Response(p) \/ Write(p)
  \/ Move(p) \/ Load(p)

ModelFilesNext ==
  \E p \in Processes : GetCached(p) \/ DownloadFails(p) \/ CrashProcess(p) \/ Restart(p)

\* Every process runs on, and is started again.
ModelFilesFairness ==
  \A p \in Processes : WF_fileVars(GetCached(p) \/ Restart(p))

ModelFilesSpec == ModelFilesInit /\ [][ModelFilesNext]_fileVars /\ ModelFilesFairness

-----------------------------------------------------------------------------
\* A file under its name is whole, and so is a model that was loaded from it,
\* unless two downloads had it open at once: then one may move, and any process
\* load, what the other has truncated (ModelFileCache.scala:42-56).  What a killed
\* or failed download leaves is never moved as it is.
UnsharedIsWhole ==
  cached # NoFile /\ cached \notin shared =>
    /\ Whole(cached)
    /\ \A p \in Processes : at[p] = "loaded" => loaded[p] = 1..Size

\* A process that has missed the file, failed or was killed ends, started as
\* often as it takes, with a model loaded.
ModelIsLoaded == \A p \in Processes : at[p] # "lookup" ~> at[p] = "loaded"
=============================================================================
