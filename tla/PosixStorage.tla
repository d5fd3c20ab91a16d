---------------------------- MODULE PosixStorage ----------------------------
(***************************************************************************)
(* PosixStorage (internal/storage/posix.go) and WriteFileAtomic            *)
(* (internal/fsutil/fsutil.go): each system call is a step, and between    *)
(* two of them other processes act on the same directories, a process may  *)
(* die and the machine may lose power.  A file is its content and whether  *)
(* fsync has made it durable; a directory entry becomes durable whenever   *)
(* the kernel writes the directory back, because no directory is synced.   *)
(***************************************************************************)
EXTENDS Naturals, FiniteSets

CONSTANTS
    Proc,     \* processes that use the storage root
    Key,      \* keys
    Dir,      \* directories below the root
    DirOf,    \* the directory a key lives in
    WipedDir, \* the directory DeletePrefix removes ("leaf/")
    Value,    \* blobs
    None,     \* no such file
    MaxCalls, \* bound on the calls made
    MaxFaults \* bound on crashes, power failures and I/O errors

Prefix == {k \in Key : DirOf[k] = WipedDir}

\* An inode.  "torn": not all of its data is there.
File == [data : Value \cup {"torn"}, synced : BOOLEAN]
NoFile == [data |-> "torn", synced |-> FALSE]

ASSUME ConstantsAssumption ==
    /\ DirOf \in [Key -> Dir] /\ WipedDir \in Dir /\ Key # {}
    /\ None \notin Value \cup File /\ "torn" \notin Value
    /\ MaxCalls \in Nat /\ MaxFaults \in Nat

\* The temporary file of a Put; `linked`: it has a name in its directory.
Tmp == [linked : BOOLEAN, file : File]
NoTmp == [linked |-> FALSE, file |-> NoFile]

VARIABLES
    dir,     \* directories that exist
    names,   \* what each key's path names
    disk,    \* what it names on the medium
    orphans, \* directories in which a dead process left a temporary file
    tmp,     \* per process: the temporary file it writes
    todo,    \* per process: what RemoveAll listed and has not yet removed
    pc,      \* per process: its next system call
    call,    \* per process: the call it makes, as in Storage
    calls, faults

fs == <<dir, names, disk, orphans>>
vars == <<dir, names, disk, orphans, tmp, todo, pc, call, calls, faults>>

Calls == [op : {"idle", "put", "get", "stat", "delete", "wipe"}, key : Key,
          val : Value \cup {None}, st : {"pending", "applied", "failed"},
          res : Value \cup {"torn", None}]

\* The type invariant.
TypeOK ==
    /\ dir \subseteq Dir /\ orphans \subseteq Dir
    /\ names \in [Key -> File \cup {None}] /\ disk \in [Key -> File \cup {None}]
    /\ tmp \in [Proc -> Tmp]
    /\ todo \in [Proc -> SUBSET (Key \cup {"tmp"})]
    /\ pc \in [Proc -> {"idle", "mkdir", "open", "write", "sync", "rename", "remove",
                        "read", "restat", "stat", "unlink", "list", "drop", "done"}]
    /\ call \in [Proc -> Calls]
    /\ calls \in 0 .. MaxCalls /\ faults \in 0 .. MaxFaults

Goto(p, l) == pc' = [pc EXCEPT ![p] = l]

\* The call returns: it took effect in this step or failed.
Done(p, s, r) ==
    /\ Goto(p, "done")
    /\ call' = [call EXCEPT ![p].st = s, ![p].res = r]

Fault == faults < MaxFaults /\ faults' = faults + 1

Entries(d) == {k \in Key : DirOf[k] = d /\ names[k] # None}
\* Temporary files named in directory d.
Temps(d) == {p \in Proc : tmp[p].linked /\ DirOf[call[p].key] = d}

ContentOf(f) == IF f = None THEN None ELSE f.data

-----------------------------------------------------------------------------
(* Put *)

\* Mutant: the path itself becomes a directory.
MkdirPath(p) ==
    /\ pc[p] = "mkdir"
    /\ dir' = dir \cup {call[p].key}
    /\ Goto(p, "open")
    /\ UNCHANGED <<names, disk, orphans, tmp, todo, call, calls, faults>>

\* os.MkdirAll of the directory.
Mkdir(p) ==
    /\ pc[p] = "mkdir"
    /\ dir' = dir \cup {DirOf[call[p].key]}
    /\ Goto(p, "open")
    /\ UNCHANGED <<names, disk, orphans, tmp, todo, call, calls, faults>>

\* os.OpenFile with O_EXCL of a random name: ENOENT if the directory is gone.
OpenTmp(p) ==
    /\ pc[p] = "open"
    /\ \/ /\ DirOf[call[p].key] \in dir
          /\ tmp' = [tmp EXCEPT ![p] = [linked |-> TRUE, file |-> NoFile]]
          /\ Goto(p, "write")
          /\ UNCHANGED call
       \/ /\ DirOf[call[p].key] \notin dir
          /\ Done(p, "failed", None)
          /\ UNCHANGED tmp
    /\ UNCHANGED <<fs, todo, calls, faults>>

\* f.Write goes on if the name is gone; it may fail (a full disk).
WriteTmp(p) ==
    /\ pc[p] = "write"
    /\ \/ /\ tmp' = [tmp EXCEPT ![p].file.data = call[p].val]
          /\ Goto(p, "sync")
          /\ UNCHANGED faults
       \/ Fault /\ Goto(p, "remove") /\ UNCHANGED tmp
    /\ UNCHANGED <<fs, todo, call, calls>>

\* Mutant: the file is not synced.
SyncNothing(p) ==
    /\ pc[p] = "sync" /\ Goto(p, "rename")
    /\ UNCHANGED <<fs, tmp, todo, call, calls, faults>>

\* f.Sync and f.Close.
SyncTmp(p) ==
    /\ pc[p] = "sync"
    /\ \/ /\ tmp' = [tmp EXCEPT ![p].file.synced = TRUE]
          /\ Goto(p, "rename")
          /\ UNCHANGED faults
       \/ Fault /\ Goto(p, "remove") /\ UNCHANGED tmp
    /\ UNCHANGED <<fs, todo, call, calls>>

\* os.Rename; ENOENT if somebody removed the temporary file.
Rename(p) ==
    /\ pc[p] = "rename"
    /\ \/ /\ tmp[p].linked
          /\ names' = [names EXCEPT ![call[p].key] = tmp[p].file]
          /\ tmp' = [tmp EXCEPT ![p] = NoTmp]
          /\ Done(p, "applied", None)
       \/ /\ ~tmp[p].linked
          /\ Goto(p, "remove")
          /\ UNCHANGED <<names, tmp, call>>
    /\ UNCHANGED <<dir, disk, orphans, todo, calls, faults>>

\* Mutant: a failed Put returns at once.
KeepTmp(p) ==
    /\ pc[p] = "remove"
    /\ Done(p, "failed", None)
    /\ UNCHANGED <<fs, tmp, todo, calls, faults>>

\* The deferred os.Remove of a Put that fails.
RemoveTmp(p) ==
    /\ pc[p] = "remove"
    /\ tmp' = [tmp EXCEPT ![p] = NoTmp]
    /\ Done(p, "failed", None)
    /\ UNCHANGED <<fs, todo, calls, faults>>

-----------------------------------------------------------------------------
(* Get, Stat and Delete *)

\* Get: os.ReadFile.
ReadFile(p) ==
    LET f == names[call[p].key] IN
    /\ pc[p] = "read"
    /\ \/ f = None /\ Done(p, "applied", None)
       \/ /\ f # None
          /\ call' = [call EXCEPT ![p].st = "applied", ![p].res = f.data]
          /\ Goto(p, "restat")
    /\ UNCHANGED <<fs, tmp, todo, calls, faults>>

\* Get: os.Stat, whose ENOENT is not taken for a missing key.
Restat(p) ==
    /\ pc[p] = "restat"
    /\ \/ names[call[p].key] # None /\ Goto(p, "done") /\ UNCHANGED call
       \/ names[call[p].key] = None /\ Done(p, "failed", None)
    /\ UNCHANGED <<fs, tmp, todo, calls, faults>>

StatFile(p) ==
    /\ pc[p] = "stat"
    /\ Done(p, "applied", ContentOf(names[call[p].key]))
    /\ UNCHANGED <<fs, tmp, todo, calls, faults>>

\* os.Remove; a key that is already absent is no error.
Unlink(p) ==
    /\ pc[p] = "unlink"
    /\ names' = [names EXCEPT ![call[p].key] = None]
    /\ Done(p, "applied", None)
    /\ UNCHANGED <<dir, disk, orphans, tmp, todo, calls, faults>>

-----------------------------------------------------------------------------
(* DeletePrefix: os.RemoveAll *)

\* Read the directory; without one there is nothing to do.
ListDir(p) ==
    /\ pc[p] = "list"
    /\ \/ /\ WipedDir \in dir
          /\ todo' = [todo EXCEPT ![p] = Entries(WipedDir) \cup
                          (IF Temps(WipedDir) # {} \/ WipedDir \in orphans
                           THEN {"tmp"} ELSE {})]
          /\ Goto(p, "drop")
          /\ UNCHANGED call
       \/ /\ WipedDir \notin dir
          /\ Done(p, "applied", None)
          /\ UNCHANGED todo
    /\ UNCHANGED <<fs, tmp, calls, faults>>

\* unlinkat of one listed name, in the order of the listing.
Drop(p) ==
    /\ pc[p] = "drop" /\ todo[p] # {}
    /\ \E k \in todo[p] :
          /\ todo' = [todo EXCEPT ![p] = @ \ {k}]
          /\ \/ /\ k # "tmp"
                /\ names' = [names EXCEPT ![k] = None]
                /\ UNCHANGED <<tmp, orphans>>
             \/ /\ k = "tmp"
                /\ \E gone \in SUBSET Temps(WipedDir) :
                      tmp' = [q \in Proc |-> [tmp[q] EXCEPT !.linked = @ /\ q \notin gone]]
                /\ orphans' = orphans \ {WipedDir}
                /\ UNCHANGED names
    /\ UNCHANGED <<dir, disk, pc, call, calls, faults>>

\* unlinkat of the directory: ENOTEMPTY if something was created meanwhile.
Rmdir(p) ==
    LET empty == Entries(WipedDir) = {} /\ Temps(WipedDir) = {} /\ WipedDir \notin orphans
    IN
    /\ pc[p] = "drop" /\ todo[p] = {}
    /\ \/ /\ empty
          /\ dir' = dir \ {WipedDir}
          /\ Done(p, "applied", None)
       \/ /\ ~empty
          /\ Done(p, "failed", None)
          /\ UNCHANGED dir
    /\ UNCHANGED <<names, disk, orphans, tmp, todo, calls, faults>>

-----------------------------------------------------------------------------
(* Callers and faults *)

FirstStep(o) ==
    CASE o = "put" -> "mkdir" [] o = "get" -> "read" [] o = "stat" -> "stat"
      [] o = "delete" -> "unlink" [] o = "wipe" -> "list"

\* A call that means nothing: key and value of no call.
Idle == [op |-> "idle", key |-> CHOOSE k \in Key : TRUE, val |-> None,
         st |-> "applied", res |-> None]

Invoke(p) ==
    /\ pc[p] = "idle" /\ calls < MaxCalls
    /\ \E o \in {"put", "get", "stat", "delete", "wipe"}, k \in Key,
          v \in Value \cup {None} :
          /\ (o = "put") = (v # None)
          /\ o = "wipe" => k = Idle.key
          /\ call' = [call EXCEPT ![p] = [op |-> o, key |-> k, val |-> v,
                                          st |-> "pending", res |-> None]]
          /\ Goto(p, FirstStep(o))
    /\ calls' = calls + 1
    /\ UNCHANGED <<fs, tmp, todo, faults>>

Return(p) ==
    /\ pc[p] = "done"
    /\ Goto(p, "idle")
    /\ call' = [call EXCEPT ![p] = Idle]
    /\ UNCHANGED <<fs, tmp, todo, calls, faults>>

\* The process dies; a temporary file stays behind.
Crash(p) ==
    /\ pc[p] # "idle" /\ Fault
    /\ Goto(p, "idle")
    /\ call' = [call EXCEPT ![p] = Idle]
    /\ orphans' = orphans \cup {d \in Dir : p \in Temps(d)}
    /\ tmp' = [tmp EXCEPT ![p] = NoTmp]
    /\ todo' = [todo EXCEPT ![p] = {}]
    /\ UNCHANGED <<dir, names, disk, calls>>

\* The kernel writes the directories back.
Settle ==
    /\ disk # names /\ disk' = names
    /\ UNCHANGED <<dir, names, orphans, tmp, todo, pc, call, calls, faults>>

\* The machine stops: what was not synced is torn, and what the directories
\* named last may be forgotten.
PowerLoss ==
    LET f(k) == IF disk[k] = None \/ disk[k].synced THEN disk[k]
                ELSE [disk[k] EXCEPT !.data = "torn"]
    IN
    /\ Fault
    /\ names' = [k \in Key |-> f(k)] /\ disk' = names'
    /\ dir' = dir \cup {DirOf[k] : k \in {l \in Key : disk[l] # None}}
    /\ orphans' \in {orphans, orphans \cup {d \in Dir : Temps(d) # {}}}
    /\ tmp' = [p \in Proc |-> NoTmp] /\ todo' = [p \in Proc |-> {}]
    /\ pc' = [p \in Proc |-> "idle"] /\ call' = [p \in Proc |-> Idle]
    /\ UNCHANGED calls

\* Storage that an earlier run left: any whole files.
Init ==
    /\ names \in [Key -> {None} \cup {[data |-> v, synced |-> TRUE] : v \in Value}]
    /\ disk = names
    /\ dir = Dir /\ orphans = {}
    /\ tmp = [p \in Proc |-> NoTmp] /\ todo = [p \in Proc |-> {}]
    /\ pc = [p \in Proc |-> "idle"] /\ call = [p \in Proc |-> Idle]
    /\ calls = 0 /\ faults = 0

Next ==
    \/ \E p \in Proc :
          \/ Invoke(p) \/ Mkdir(p) \/ OpenTmp(p) \/ WriteTmp(p) \/ SyncTmp(p)
          \/ Rename(p) \/ RemoveTmp(p) \/ ReadFile(p) \/ Restat(p) \/ StatFile(p)
          \/ Unlink(p) \/ ListDir(p) \/ Drop(p) \/ Rmdir(p) \/ Return(p) \/ Crash(p)
    \/ Settle \/ PowerLoss

Spec == Init /\ [][Next]_vars

-----------------------------------------------------------------------------
(* Properties *)

Abstract == INSTANCE Storage WITH
    blob    <- [k \in Key |-> ContentOf(names[k])],
    durable <- [k \in Key |-> ContentOf(disk[k])]

\* PosixStorage keeps the promises of Storage while other processes call it,
\* die and lose power: a Put takes effect at its rename or not at all, a reader
\* meets whole blobs only, a Get that races a Delete may fail but never returns
\* what was not there, DeletePrefix succeeds only after a moment at which the
\* prefix was empty, and "a crash never leaves a partially written file at path".
ImplementsStorage == Abstract!Spec

\* Put cleans up after itself: a temporary file is named only while its Put
\* runs, or in a directory where a fault struck a Put.
NoLitter ==
    /\ \A p \in Proc : pc[p] \in {"idle", "done"} => ~tmp[p].linked
    /\ orphans # {} => faults > 0
=============================================================================
