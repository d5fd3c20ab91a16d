------------------------ MODULE PosixStorage_proofs ------------------------
(***************************************************************************)
(* Proofs about PosixStorage for any processes, keys, directories and      *)
(* values and any number of calls, crashes and power failures; above all,  *)
(* that it implements Storage.                                             *)
(***************************************************************************)
EXTENDS PosixStorage, TLAPS

Labels == {"idle", "mkdir", "open", "write", "sync", "rename", "remove", "read",
           "restat", "stat", "unlink", "list", "drop", "done"}

\* The inodes, the temporary files and the calls that steps write.
LEMMA Records ==
    /\ NoTmp \in Tmp /\ ~NoTmp.linked /\ [linked |-> TRUE, file |-> NoFile] \in Tmp
    /\ \A t \in Tmp : t.linked \in BOOLEAN /\ t.file \in File /\ t.file # None
    /\ \A f \in File : f.data \in Value \cup {"torn"} /\ f.synced \in BOOLEAN
    /\ Idle \in Calls /\ Idle \in Abstract!Call /\ Idle.op = "idle"
<1>1. NoFile \in File
    BY DEF NoFile, File
<1>2. NoTmp \in Tmp /\ ~NoTmp.linked /\ [linked |-> TRUE, file |-> NoFile] \in Tmp
    BY <1>1 DEF NoTmp, Tmp
<1>3. \A t \in Tmp : t.linked \in BOOLEAN /\ t.file \in File /\ t.file # None
    BY ConstantsAssumption DEF Tmp
<1>4. \A f \in File : f.data \in Value \cup {"torn"} /\ f.synced \in BOOLEAN
    BY DEF File
<1>5. (CHOOSE k \in Key : TRUE) \in Key
    BY ConstantsAssumption
<1>6. Idle \in Calls /\ Idle \in Abstract!Call /\ Idle.op = "idle"
    BY <1>5 DEF Idle, Calls, Abstract!Call, Abstract!Ops
<1> QED BY <1>2, <1>3, <1>4, <1>6
-----------------------------------------------------------------------------
(* The inductive invariant *)

Whole(f) == f # None => f.synced /\ f.data \in Value

\* Only whole, synced files have a key's name, in memory and on the medium, and
\* what a name is in exists.
WholeFiles ==
    /\ \A k \in Key : Whole(names[k]) /\ Whole(disk[k])
    /\ \A k \in Key : names[k] # None => DirOf[k] \in dir

\* A temporary file has a name only inside WriteFileAtomic, in a directory that
\* exists, and holds the value once written, synced before it is renamed.
HasTmp(p) ==
    /\ tmp[p].linked => /\ pc[p] \in {"write", "sync", "rename", "remove"}
                       /\ DirOf[call[p].key] \in dir
    /\ pc[p] \in {"sync", "rename"} => tmp[p].file.data = call[p].val
    /\ pc[p] = "rename" => tmp[p].file.synced

\* Where a process is tells which call it makes and whether it took effect.
Serves(p) ==
    /\ pc[p] = "idle" => call[p] = Idle
    /\ pc[p] \in {"mkdir", "open", "write", "sync", "rename", "remove"} =>
          call[p].op = "put" /\ call[p].st = "pending" /\ call[p].val \in Value
    /\ pc[p] = "read" => call[p].op = "get" /\ call[p].st = "pending"
    /\ pc[p] = "restat" => call[p].op = "get" /\ call[p].st = "applied"
    /\ pc[p] = "stat" => call[p].op = "stat" /\ call[p].st = "pending"
    /\ pc[p] = "unlink" => call[p].op = "delete" /\ call[p].st = "pending"
    /\ pc[p] \in {"list", "drop"} => call[p].op = "wipe" /\ call[p].st = "pending"
    /\ pc[p] = "done" => call[p].st # "pending"
    /\ todo[p] \subseteq Prefix \cup {"tmp"}

TmpFiles == \A p \in Proc : HasTmp(p)
Serving == \A p \in Proc : Serves(p)
Inv == TypeOK /\ WholeFiles /\ TmpFiles /\ Serving
-----------------------------------------------------------------------------
(* Types *)

\* A call that returns keeps what it is a call of.
LEMMA DoneCall ==
    ASSUME TypeOK, NEW p \in Proc, NEW s \in {"applied", "failed"},
           NEW r \in Value \cup {"torn", None},
           call' = [call EXCEPT ![p].st = s, ![p].res = r]
    PROVE  /\ call' \in [Proc -> Calls] /\ Abstract!Reply(p, s, r)
           /\ call'[p].op = call[p].op /\ call'[p].key = call[p].key
           /\ call'[p].val = call[p].val /\ call'[p].st = s
           /\ \A q \in Proc : q # p => call'[q] = call[q]
<1>1. call[p] \in Calls
    BY DEF TypeOK
<1>2. Abstract!Reply(p, s, r)
    BY Zenon DEF TypeOK, Abstract!Reply
<1>3. [call[p] EXCEPT !.st = s, !.res = r] \in Calls
    BY Zenon, <1>1 DEF Calls
<1>4. call' = [call EXCEPT ![p] = [call[p] EXCEPT !.st = s, !.res = r]]
    BY Zenon, <1>2 DEF Abstract!Reply
<1>5. /\ call'[p] = [call[p] EXCEPT !.st = s, !.res = r]
      /\ \A q \in Proc : q # p => call'[q] = call[q]
      /\ call' \in [Proc -> Calls]
    BY <1>3, <1>4 DEF TypeOK
<1>6. /\ call'[p].op = call[p].op /\ call'[p].key = call[p].key
      /\ call'[p].val = call[p].val /\ call'[p].st = s
    BY <1>1, <1>5 DEF Calls
<1> QED BY <1>2, <1>5, <1>6

LEMMA GotoType ==
    ASSUME TypeOK, NEW p \in Proc, NEW l \in Labels, Goto(p, l)
    PROVE  /\ pc' \in [Proc -> Labels] /\ pc'[p] = l
           /\ \A q \in Proc : q # p => pc'[q] = pc[q]
BY DEF TypeOK, Goto, Labels

LEMMA FaultType ==
    ASSUME TypeOK, Fault
    PROVE  faults' \in 0 .. MaxFaults /\ faults' > 0
BY ConstantsAssumption DEF TypeOK, Fault

\* What f.Write and f.Sync make of a temporary file.
LEMMA TmpWritten ==
    ASSUME NEW t \in Tmp, NEW v \in Value
    PROVE  /\ [t EXCEPT !.file.data = v] \in Tmp
           /\ [t EXCEPT !.file.data = v].linked = t.linked
           /\ [t EXCEPT !.file.data = v].file.data = v
           /\ [t EXCEPT !.file.synced = TRUE] \in Tmp
           /\ [t EXCEPT !.file.synced = TRUE].linked = t.linked
           /\ [t EXCEPT !.file.synced = TRUE].file.data = t.file.data
           /\ [t EXCEPT !.file.synced = TRUE].file.synced
<1>1. t.file \in File /\ t.linked \in BOOLEAN
    BY DEF Tmp
<1>2. [t.file EXCEPT !.data = v] \in File /\ [t.file EXCEPT !.synced = TRUE] \in File
    BY Zenon, <1>1 DEF File
<1>3. /\ [t EXCEPT !.file.data = v] = [t EXCEPT !.file = [t.file EXCEPT !.data = v]]
      /\ [t EXCEPT !.file.synced = TRUE] = [t EXCEPT !.file = [t.file EXCEPT !.synced = TRUE]]
    BY Zenon
<1>4. \A f \in File : /\ [t EXCEPT !.file = f] \in Tmp
                      /\ [t EXCEPT !.file = f].linked = t.linked
                      /\ [t EXCEPT !.file = f].file = f
    BY <1>1 DEF Tmp
<1>5. /\ [t.file EXCEPT !.data = v].data = v
      /\ [t.file EXCEPT !.synced = TRUE].data = t.file.data
    BY <1>1 DEF File
<1>6. [t.file EXCEPT !.synced = TRUE].synced
    BY <1>1 DEF File
<1> QED BY Zenon, <1>2, <1>3, <1>4, <1>5, <1>6

\* The steps of a Put keep the types.
LEMMA PutTypes ==
    ASSUME TypeOK, Serving, NEW p \in Proc,
           Mkdir(p) \/ OpenTmp(p) \/ WriteTmp(p) \/ SyncTmp(p) \/ Rename(p) \/ RemoveTmp(p)
    PROVE  TypeOK'
<1> USE Records
<1>0. call[p] \in Calls /\ call[p].key \in Key /\ DirOf[call[p].key] \in Dir
    BY ConstantsAssumption DEF TypeOK, Calls
<1>1. CASE Mkdir(p)
    <2>1. pc' \in [Proc -> Labels]
        BY <1>1, GotoType DEF Mkdir, Labels
    <2> QED BY <1>0, <1>1, <2>1 DEF Mkdir, TypeOK, Labels
<1>2. CASE OpenTmp(p)
    <2>1. pc' \in [Proc -> Labels]
        BY <1>2, GotoType DEF OpenTmp, Done, Labels
    <2>2. call' \in [Proc -> Calls]
        BY Zenon, <1>2, DoneCall DEF OpenTmp, Done, TypeOK
    <2>3. tmp' \in [Proc -> Tmp]
        BY Zenon, <1>2 DEF OpenTmp, TypeOK
    <2> QED BY <1>2, <2>1, <2>2, <2>3 DEF OpenTmp, TypeOK, Labels, fs
<1>3. CASE WriteTmp(p)
    <2>1. pc' \in [Proc -> Labels]
        BY <1>3, GotoType DEF WriteTmp, Labels
    <2>2. tmp' \in [Proc -> Tmp]
        <3>1. call[p].val \in Value
            BY <1>3 DEF WriteTmp, Serving, Serves
        <3>2. tmp[p] \in Tmp
            BY DEF TypeOK
        <3>3. [tmp[p] EXCEPT !.file.data = call[p].val] \in Tmp
            BY Zenon, <3>1, <3>2, TmpWritten
        <3> QED BY <1>3, <3>3 DEF WriteTmp, TypeOK
    <2>3. faults' \in 0 .. MaxFaults
        BY <1>3, FaultType DEF WriteTmp, TypeOK
    <2> QED BY <1>3, <2>1, <2>2, <2>3 DEF WriteTmp, TypeOK, Labels, fs
<1>4. CASE SyncTmp(p)
    <2>1. pc' \in [Proc -> Labels]
        BY <1>4, GotoType DEF SyncTmp, Labels
    <2>2. tmp' \in [Proc -> Tmp]
        <3>1. tmp[p] \in Tmp /\ call[p].val \in Value
            BY <1>4 DEF TypeOK, SyncTmp, Serving, Serves
        <3>2. [tmp[p] EXCEPT !.file.synced = TRUE] \in Tmp
            BY Zenon, <3>1, TmpWritten
        <3> QED BY Zenon, <1>4, <3>2 DEF SyncTmp, TypeOK
    <2>3. faults' \in 0 .. MaxFaults
        BY <1>4, FaultType DEF SyncTmp, TypeOK
    <2> QED BY <1>4, <2>1, <2>2, <2>3 DEF SyncTmp, TypeOK, Labels, fs
<1>5. CASE Rename(p)
    <2>1. pc' \in [Proc -> Labels]
        BY <1>5, GotoType DEF Rename, Done, Labels
    <2>2. call' \in [Proc -> Calls]
        BY Zenon, <1>5, DoneCall DEF Rename, Done, TypeOK
    <2>3. tmp' \in [Proc -> Tmp] /\ names' \in [Key -> File \cup {None}]
        BY <1>5 DEF Rename, TypeOK
    <2> QED BY <1>5, <2>1, <2>2, <2>3 DEF Rename, TypeOK, Labels
<1>6. CASE RemoveTmp(p)
    <2>1. pc' \in [Proc -> Labels]
        BY <1>6, GotoType DEF RemoveTmp, Done, Labels
    <2>2. call' \in [Proc -> Calls]
        BY Zenon, <1>6, DoneCall DEF RemoveTmp, Done
    <2>3. tmp' \in [Proc -> Tmp]
        BY <1>6 DEF RemoveTmp, TypeOK
    <2> QED BY <1>6, <2>1, <2>2, <2>3 DEF RemoveTmp, TypeOK, Labels, fs
<1> QED BY <1>1, <1>2, <1>3, <1>4, <1>5, <1>6

\* The steps of the other calls keep the types.
LEMMA CallTypes ==
    ASSUME TypeOK, NEW p \in Proc,
           \/ ReadFile(p) \/ Restat(p) \/ StatFile(p) \/ Unlink(p)
           \/ ListDir(p) \/ Drop(p) \/ Rmdir(p)
    PROVE  TypeOK'
<1> USE Records
<1>0. call[p] \in Calls /\ call[p].key \in Key /\ names[call[p].key] \in File \cup {None}
    BY DEF TypeOK, Calls
<1>1. CASE ReadFile(p)
    <2>1. pc' \in [Proc -> Labels]
        BY <1>1, GotoType DEF ReadFile, Done, Labels
    <2>2. call' \in [Proc -> Calls]
        BY Zenon, <1>0, <1>1, DoneCall DEF ReadFile, Done
    <2> QED BY <1>1, <2>1, <2>2 DEF ReadFile, TypeOK, Labels, fs
<1>2. CASE Restat(p)
    <2>1. pc' \in [Proc -> Labels]
        BY <1>2, GotoType DEF Restat, Done, Labels
    <2>2. call' \in [Proc -> Calls]
        BY Zenon, <1>2, DoneCall DEF Restat, Done, TypeOK
    <2> QED BY <1>2, <2>1, <2>2 DEF Restat, TypeOK, Labels, fs
<1>3. CASE StatFile(p)
    <2>1. pc' \in [Proc -> Labels]
        BY <1>3, GotoType DEF StatFile, Done, Labels
    <2>2. ContentOf(names[call[p].key]) \in Value \cup {"torn", None}
        BY <1>0 DEF ContentOf
    <2>3. call' \in [Proc -> Calls]
        BY Zenon, <1>3, <2>2, DoneCall DEF StatFile, Done
    <2> QED BY <1>3, <2>1, <2>3 DEF StatFile, TypeOK, Labels, fs
<1>4. CASE Unlink(p)
    <2>1. pc' \in [Proc -> Labels]
        BY <1>4, GotoType DEF Unlink, Done, Labels
    <2>2. call' \in [Proc -> Calls]
        BY Zenon, <1>4, DoneCall DEF Unlink, Done
    <2>3. names' \in [Key -> File \cup {None}]
        BY Zenon, <1>4 DEF Unlink, TypeOK
    <2> QED BY <1>4, <2>1, <2>2, <2>3 DEF Unlink, TypeOK, Labels
<1>5. CASE ListDir(p)
    <2>1. pc' \in [Proc -> Labels]
        BY <1>5, GotoType DEF ListDir, Done, Labels
    <2>2. call' \in [Proc -> Calls]
        BY Zenon, <1>5, DoneCall DEF ListDir, Done, TypeOK
    <2>3. todo' \in [Proc -> SUBSET (Key \cup {"tmp"})]
        BY <1>5 DEF ListDir, TypeOK, Entries
    <2> QED BY <1>5, <2>1, <2>2, <2>3 DEF ListDir, TypeOK, Labels, fs
<1>6. CASE Drop(p)
    <2>1. todo' \in [Proc -> SUBSET (Key \cup {"tmp"})]
        BY <1>6 DEF Drop, TypeOK
    <2>2. names' \in [Key -> File \cup {None}]
        BY <1>6 DEF Drop, TypeOK
    <2>3. orphans' \subseteq Dir
        BY <1>6 DEF Drop, TypeOK
    <2>4. tmp' \in [Proc -> Tmp]
        <3>1. ASSUME NEW gone,
                     tmp' = [q \in Proc |-> [tmp[q] EXCEPT !.linked = @ /\ q \notin gone]]
              PROVE  tmp' \in [Proc -> Tmp]
            <4>1. \A q \in Proc : [tmp[q] EXCEPT !.linked = @ /\ q \notin gone] \in Tmp
                BY DEF TypeOK, Tmp
            <4> QED BY <3>1, <4>1
        <3> QED BY Zenon, <1>6, <3>1 DEF Drop, TypeOK
    <2> QED BY <1>6, <2>1, <2>2, <2>3, <2>4 DEF Drop, TypeOK
<1>7. CASE Rmdir(p)
    <2>1. pc' \in [Proc -> Labels]
        BY <1>7, GotoType DEF Rmdir, Done, Labels
    <2>2. call' \in [Proc -> Calls]
        BY Zenon, <1>7, DoneCall DEF Rmdir, Done
    <2>3. dir' \subseteq Dir
        BY <1>7 DEF Rmdir, TypeOK
    <2> QED BY <1>7, <2>1, <2>2, <2>3 DEF Rmdir, TypeOK, Labels
<1> QED BY <1>1, <1>2, <1>3, <1>4, <1>5, <1>6, <1>7

\* Callers, deaths and power failures keep the types.
LEMMA CallerTypes ==
    ASSUME TypeOK, NEW p \in Proc, Invoke(p) \/ Return(p) \/ Crash(p)
    PROVE  TypeOK'
<1> USE Records
<1>1. CASE Invoke(p)
    <2>1. PICK o \in {"put", "get", "stat", "delete", "wipe"}, k \in Key, v \in Value \cup {None} :
            /\ call' = [call EXCEPT ![p] = [op |-> o, key |-> k, val |-> v,
                                            st |-> "pending", res |-> None]]
            /\ Goto(p, FirstStep(o))
        BY ZenonT(60), <1>1 DEF Invoke
    <2>2. [op |-> o, key |-> k, val |-> v, st |-> "pending", res |-> None] \in Calls
        BY DEF Calls
    <2>3. FirstStep(o) \in Labels
        BY DEF FirstStep, Labels
    <2>4. pc' \in [Proc -> Labels]
        BY <2>1, <2>3, GotoType
    <2>5. call' \in [Proc -> Calls]
        BY <2>1, <2>2 DEF TypeOK
    <2>6. calls' \in 0 .. MaxCalls
        BY <1>1, ConstantsAssumption DEF Invoke, TypeOK
    <2> QED BY <1>1, <2>4, <2>5, <2>6 DEF Invoke, TypeOK, Labels, fs
<1>2. CASE Return(p)
    <2>1. pc' \in [Proc -> Labels]
        BY <1>2, GotoType DEF Return, Labels
    <2> QED BY Zenon, <1>2, <2>1 DEF Return, TypeOK, Labels, fs
<1>3. CASE Crash(p)
    <2>1. pc' \in [Proc -> Labels] /\ faults' \in 0 .. MaxFaults
        BY <1>3, GotoType, FaultType DEF Crash, Labels
    <2> QED BY Zenon, <1>3, <2>1 DEF Crash, TypeOK, Labels
<1> QED BY <1>1, <1>2, <1>3

LEMMA PowerLossTypes ==
    ASSUME TypeOK, PowerLoss
    PROVE  TypeOK'
<1> USE Records
<1>1. faults' \in 0 .. MaxFaults
    BY FaultType DEF PowerLoss
<1>2. \A f \in File : [f EXCEPT !.data = "torn"] \in File
    BY DEF File
<1>3. names' \in [Key -> File \cup {None}] /\ disk' = names'
    BY <1>2 DEF PowerLoss, TypeOK
<1>4. dir' \subseteq Dir /\ orphans' \subseteq Dir
    BY ConstantsAssumption DEF PowerLoss, TypeOK
<1>5. pc' \in [Proc -> Labels]
    BY DEF PowerLoss, Labels
<1> QED BY <1>1, <1>3, <1>4, <1>5 DEF PowerLoss, TypeOK, Labels

LEMMA InitInv == Init => Inv
<1> SUFFICES ASSUME Init PROVE Inv
    OBVIOUS
<1> USE Records
<1>1. \A v \in Value : [data |-> v, synced |-> TRUE] \in File /\ [data |-> v, synced |-> TRUE].synced
    BY DEF File
<1>2. TypeOK
    BY <1>1, ConstantsAssumption DEF Init, TypeOK
<1>3. WholeFiles
    <2>1. \A k \in Key : names[k] = None \/ \E v \in Value : names[k] = [data |-> v, synced |-> TRUE]
        BY DEF Init
    <2> QED BY <1>1, <2>1, ConstantsAssumption DEF Init, WholeFiles, Whole
<1>4. TmpFiles
    BY DEF Init, TmpFiles, HasTmp
<1>5. Serving
    BY DEF Init, Serving, Serves
<1> QED BY <1>2, <1>3, <1>4, <1>5 DEF Inv

LEMMA NextTypes ==
    ASSUME TypeOK, Serving, [Next]_vars
    PROVE  TypeOK'
<1>1. CASE UNCHANGED vars
    BY <1>1 DEF TypeOK, vars
<1>2. CASE Settle
    BY <1>2 DEF TypeOK, Settle
<1> QED BY <1>1, <1>2, PowerLossTypes, PutTypes, CallTypes, CallerTypes DEF Next
-----------------------------------------------------------------------------
(* Which call a process makes *)

\* A step of one process leaves the others where they are.
LEMMA OthersServe ==
    ASSUME Serving, NEW p \in Proc, Serves(p)',
           \A q \in Proc : q # p => pc'[q] = pc[q] /\ call'[q] = call[q] /\ todo'[q] = todo[q]
    PROVE  Serving'
BY DEF Serving, Serves

\* A call that ends is not pending any more.
LEMMA DoneServes ==
    ASSUME TypeOK, Serving, NEW p \in Proc, NEW s \in {"applied", "failed"},
           NEW r \in Value \cup {"torn", None}, Done(p, s, r), UNCHANGED todo
    PROVE  Serving'
<1>1. call'[p].st = s /\ \A q \in Proc : q # p => call'[q] = call[q]
    BY Zenon, DoneCall DEF Done
<1>2. pc'[p] = "done" /\ \A q \in Proc : q # p => pc'[q] = pc[q]
    BY GotoType DEF Done, Labels
<1>3. Serves(p)'
    BY <1>1, <1>2 DEF Serving, Serves
<1> QED BY <1>1, <1>2, <1>3, OthersServe

\* A step within a call.
LEMMA GotoServes ==
    ASSUME TypeOK, Serving, NEW p \in Proc, NEW l \in Labels, Goto(p, l), UNCHANGED <<call, todo>>,
           \/ /\ {pc[p], l} \subseteq {"mkdir", "open", "write", "sync", "rename", "remove"}
           \/ pc[p] = "restat" /\ l = "done"
    PROVE  Serving'
<1>1. pc'[p] = l /\ \A q \in Proc : q # p => pc'[q] = pc[q]
    BY GotoType
<1>2. Serves(p)'
    BY <1>1 DEF Serving, Serves
<1> QED BY <1>1, <1>2, OthersServe

LEMMA ServingStep ==
    ASSUME TypeOK, Serving, [Next]_vars
    PROVE  Serving'
<1> USE Records
<1>1. CASE UNCHANGED vars
    BY <1>1 DEF Serving, Serves, vars
<1>2. CASE Settle
    BY <1>2 DEF Serving, Serves, Settle
<1>3. CASE PowerLoss
    BY <1>3 DEF Serving, Serves, PowerLoss
<1>4. ASSUME NEW p \in Proc, Mkdir(p) \/ WriteTmp(p) \/ SyncTmp(p) PROVE Serving'
    BY <1>4, GotoServes DEF Mkdir, WriteTmp, SyncTmp, Labels
<1>5. ASSUME NEW p \in Proc, OpenTmp(p) \/ Rename(p) \/ RemoveTmp(p) PROVE Serving'
    BY <1>5, GotoServes, DoneServes DEF OpenTmp, Rename, RemoveTmp, Labels
<1>6. ASSUME NEW p \in Proc, ReadFile(p) PROVE Serving'
    <2>1. call[p] \in Calls /\ names[call[p].key] \in File \cup {None}
        BY DEF TypeOK, Calls
    <2>2. CASE Done(p, "applied", None)
        BY <1>6, <2>2, DoneServes DEF ReadFile
    <2>3. CASE /\ names[call[p].key] # None /\ Goto(p, "restat")
               /\ call' = [call EXCEPT ![p].st = "applied", ![p].res = names[call[p].key].data]
        <3>1. names[call[p].key].data \in Value \cup {"torn", None}
            BY <2>1, <2>3
        <3>2. /\ call'[p].op = call[p].op /\ call'[p].st = "applied"
              /\ \A q \in Proc : q # p => call'[q] = call[q]
            BY Zenon, <2>3, <3>1, DoneCall
        <3>3. pc'[p] = "restat" /\ \A q \in Proc : q # p => pc'[q] = pc[q]
            BY <2>3, GotoType DEF Labels
        <3>4. Serves(p)'
            BY <1>6, <3>2, <3>3 DEF Serving, Serves, ReadFile
        <3> QED BY <1>6, <3>2, <3>3, <3>4, OthersServe DEF ReadFile
    <2> QED BY <1>6, <2>2, <2>3 DEF ReadFile
<1>7. ASSUME NEW p \in Proc, Restat(p) \/ Unlink(p) \/ Rmdir(p) PROVE Serving'
    BY <1>7, GotoServes, DoneServes DEF Restat, Unlink, Rmdir, Labels
<1>8. ASSUME NEW p \in Proc, StatFile(p) PROVE Serving'
    <2>1. names[call[p].key] \in File \cup {None}
        BY DEF TypeOK, Calls
    <2>2. ContentOf(names[call[p].key]) \in Value \cup {"torn", None}
        BY <2>1 DEF ContentOf
    <2> QED BY <1>8, <2>2, DoneServes DEF StatFile
<1>9. ASSUME NEW p \in Proc, ListDir(p) PROVE Serving'
    <2>1. CASE Done(p, "applied", None) /\ UNCHANGED todo
        BY <2>1, DoneServes
    <2>2. ASSUME NEW x, todo' = [todo EXCEPT ![p] = Entries(WipedDir) \cup x], x \subseteq {"tmp"},
                 Goto(p, "drop"), UNCHANGED call
          PROVE  Serving'
        <3>1. pc'[p] = "drop" /\ \A q \in Proc : q # p => pc'[q] = pc[q]
            BY <2>2, GotoType DEF Labels
        <3>2. todo'[p] \subseteq Prefix \cup {"tmp"} /\ \A q \in Proc : q # p => todo'[q] = todo[q]
            BY Zenon, <2>2 DEF TypeOK, Entries, Prefix
        <3>3. Serves(p)'
            BY <1>9, <2>2, <3>1, <3>2 DEF Serving, Serves, ListDir
        <3> QED BY <2>2, <3>1, <3>2, <3>3, OthersServe
    <2> QED BY Zenon, <1>9, <2>1, <2>2 DEF ListDir
<1>10. ASSUME NEW p \in Proc, Drop(p) PROVE Serving'
    BY <1>10 DEF Drop, Serving, Serves, TypeOK
<1>11. ASSUME NEW p \in Proc, Invoke(p) PROVE Serving'
    <2>1. PICK o \in {"put", "get", "stat", "delete", "wipe"}, k \in Key, v \in Value \cup {None} :
            /\ (o = "put") = (v # None)
            /\ call' = [call EXCEPT ![p] = [op |-> o, key |-> k, val |-> v,
                                            st |-> "pending", res |-> None]]
            /\ Goto(p, FirstStep(o))
        BY Zenon, <1>11 DEF Invoke
    <2>2. /\ call'[p].op = o /\ call'[p].val = v /\ call'[p].st = "pending"
          /\ \A q \in Proc : q # p => call'[q] = call[q]
        BY <2>1 DEF TypeOK
    <2>3. pc'[p] = FirstStep(o) /\ \A q \in Proc : q # p => pc'[q] = pc[q]
        BY <2>1 DEF Goto, TypeOK
    <2>4. Serves(p)'
        BY <1>11, <2>1, <2>2, <2>3 DEF FirstStep, Serving, Serves, Invoke
    <2> QED BY <1>11, <2>2, <2>3, <2>4, OthersServe DEF Invoke
<1>12. ASSUME NEW p \in Proc, Return(p) PROVE Serving'
    BY <1>12 DEF Return, Goto, Serving, Serves, TypeOK
<1>13. ASSUME NEW p \in Proc, Crash(p) PROVE Serving'
    BY <1>13 DEF Crash, Goto, Serving, Serves, TypeOK
<1> QED BY <1>1, <1>2, <1>3, <1>4, <1>5, <1>6, <1>7, <1>8, <1>9, <1>10, <1>11, <1>12, <1>13
        DEF Next
-----------------------------------------------------------------------------
(* Temporary files *)

\* A step of one process that leaves its directory alone and the other
\* processes' temporary files.
LEMMA OthersTmp ==
    ASSUME TmpFiles, NEW p \in Proc, HasTmp(p)', dir \subseteq dir',
           \A q \in Proc : q # p => pc'[q] = pc[q] /\ call'[q] = call[q] /\ tmp'[q] = tmp[q]
    PROVE  TmpFiles'
BY DEF TmpFiles, HasTmp

\* A process that is not inside WriteFileAtomic has no temporary file.
LEMMA PlainTmp ==
    ASSUME TypeOK, TmpFiles, NEW p \in Proc, NEW l \in Labels, Goto(p, l),
           l \notin {"sync", "rename"},
           ~tmp'[p].linked, dir \subseteq dir',
           \A q \in Proc : q # p => call'[q] = call[q] /\ tmp'[q] = tmp[q]
    PROVE  TmpFiles'
<1>1. pc'[p] = l /\ \A q \in Proc : q # p => pc'[q] = pc[q]
    BY GotoType
<1>2. HasTmp(p)'
    BY <1>1 DEF HasTmp
<1> QED BY <1>1, <1>2, OthersTmp

LEMMA TmpStep ==
    ASSUME TypeOK, Serving, TmpFiles, [Next]_vars
    PROVE  TmpFiles'
<1> USE Records
<1>t. \A p \in Proc : tmp[p] \in Tmp /\ call[p] \in Calls /\ call[p].key \in Key
    BY DEF TypeOK, Calls
<1>1. CASE UNCHANGED vars
    BY <1>1 DEF TmpFiles, HasTmp, vars
<1>2. CASE Settle
    BY <1>2 DEF TmpFiles, HasTmp, Settle
<1>3. CASE PowerLoss
    BY <1>3 DEF TmpFiles, HasTmp, PowerLoss
<1>4. ASSUME NEW p \in Proc, Mkdir(p) PROVE TmpFiles'
    <2>1. ~tmp[p].linked
        BY <1>4 DEF Mkdir, TmpFiles, HasTmp
    <2> QED BY <1>4, <2>1, PlainTmp DEF Mkdir, Labels
<1>5. ASSUME NEW p \in Proc, OpenTmp(p) PROVE TmpFiles'
    <2>1. ~tmp[p].linked
        BY <1>5 DEF OpenTmp, TmpFiles, HasTmp
    <2>2. CASE Done(p, "failed", None) /\ UNCHANGED tmp
        BY Zenon, <1>5, <2>1, <2>2, PlainTmp, DoneCall DEF OpenTmp, Done, Labels, fs
    <2>3. CASE /\ DirOf[call[p].key] \in dir /\ Goto(p, "write") /\ UNCHANGED call
               /\ tmp' = [tmp EXCEPT ![p] = [linked |-> TRUE, file |-> NoFile]]
        <3>1. HasTmp(p)' /\ \A q \in Proc : q # p => pc'[q] = pc[q]
            BY <1>5, <2>3, GotoType DEF OpenTmp, HasTmp, Labels, fs
        <3> QED BY <1>5, <2>3, <3>1, OthersTmp DEF OpenTmp, TypeOK, fs
    <2> QED BY <1>5, <2>2, <2>3 DEF OpenTmp
<1>6. ASSUME NEW p \in Proc, WriteTmp(p) PROVE TmpFiles'
    <2>0. call[p].val \in Value /\ UNCHANGED <<dir, call>>
        BY <1>6 DEF WriteTmp, Serving, Serves, fs
    <2>1. CASE tmp' = [tmp EXCEPT ![p].file.data = call[p].val] /\ Goto(p, "sync")
        <3>1. tmp' = [tmp EXCEPT ![p] = [tmp[p] EXCEPT !.file.data = call[p].val]]
            BY Zenon, <2>1
        <3>2. tmp'[p].linked = tmp[p].linked /\ tmp'[p].file.data = call[p].val
            BY <1>t, <2>0, <3>1, TmpWritten DEF TypeOK
        <3>3. \A q \in Proc : q # p => tmp'[q] = tmp[q]
            BY <3>1 DEF TypeOK
        <3>4. pc'[p] = "sync" /\ \A q \in Proc : q # p => pc'[q] = pc[q]
            BY <2>1, GotoType DEF Labels
        <3>5. HasTmp(p)'
            BY <2>0, <3>2, <3>4 DEF TmpFiles, HasTmp
        <3> QED BY <2>0, <3>3, <3>4, <3>5, OthersTmp
    <2>2. CASE Goto(p, "remove") /\ UNCHANGED tmp
        <3>1. pc'[p] = "remove" /\ \A q \in Proc : q # p => pc'[q] = pc[q]
            BY <2>2, GotoType DEF Labels
        <3>2. HasTmp(p)'
            BY <2>0, <2>2, <3>1 DEF TmpFiles, HasTmp
        <3> QED BY <2>0, <2>2, <3>1, <3>2, OthersTmp
    <2> QED BY <1>6, <2>1, <2>2 DEF WriteTmp
<1>7. ASSUME NEW p \in Proc, SyncTmp(p) PROVE TmpFiles'
    <2>0. call[p].val \in Value /\ UNCHANGED <<dir, call>>
        BY <1>7 DEF SyncTmp, Serving, Serves, fs
    <2>1. CASE tmp' = [tmp EXCEPT ![p].file.synced = TRUE] /\ Goto(p, "rename")
        <3>1. tmp' = [tmp EXCEPT ![p] = [tmp[p] EXCEPT !.file.synced = TRUE]]
            BY Zenon, <2>1
        <3>2. tmp'[p].linked = tmp[p].linked /\ tmp'[p].file.data = tmp[p].file.data
              /\ tmp'[p].file.synced
            BY <1>t, <2>0, <3>1, TmpWritten DEF TypeOK
        <3>3. \A q \in Proc : q # p => tmp'[q] = tmp[q]
            BY <3>1 DEF TypeOK
        <3>4. pc'[p] = "rename" /\ \A q \in Proc : q # p => pc'[q] = pc[q]
            BY <2>1, GotoType DEF Labels
        <3>5. HasTmp(p)'
            BY <1>7, <2>0, <3>2, <3>4 DEF SyncTmp, TmpFiles, HasTmp
        <3> QED BY <2>0, <3>3, <3>4, <3>5, OthersTmp
    <2>2. CASE Goto(p, "remove") /\ UNCHANGED tmp
        <3>1. pc'[p] = "remove" /\ \A q \in Proc : q # p => pc'[q] = pc[q]
            BY <2>2, GotoType DEF Labels
        <3>2. HasTmp(p)'
            BY <2>0, <2>2, <3>1 DEF TmpFiles, HasTmp
        <3> QED BY <2>0, <2>2, <3>1, <3>2, OthersTmp
    <2> QED BY <1>7, <2>1, <2>2 DEF SyncTmp
<1>8. ASSUME NEW p \in Proc, Rename(p) PROVE TmpFiles'
    <2>1. CASE Done(p, "applied", None) /\ tmp' = [tmp EXCEPT ![p] = NoTmp]
        <3>1. ~tmp'[p].linked /\ \A q \in Proc : q # p => tmp'[q] = tmp[q]
            BY <2>1 DEF TypeOK
        <3> QED BY Zenon, <1>8, <2>1, <3>1, PlainTmp, DoneCall DEF Rename, Done, Labels
    <2>2. CASE ~tmp[p].linked /\ Goto(p, "remove") /\ UNCHANGED <<names, tmp, call>>
        BY <1>8, <2>2, PlainTmp DEF Rename, Labels
    <2> QED BY <1>8, <2>1, <2>2 DEF Rename
<1>9. ASSUME NEW p \in Proc, RemoveTmp(p) PROVE TmpFiles'
    <2>1. ~tmp'[p].linked /\ \A q \in Proc : q # p => tmp'[q] = tmp[q]
        BY <1>9 DEF RemoveTmp, TypeOK
    <2>2. \A q \in Proc : q # p => call'[q] = call[q]
        BY Zenon, <1>9, DoneCall DEF RemoveTmp, Done
    <2> QED BY Zenon, <1>9, <2>1, <2>2, PlainTmp DEF RemoveTmp, Done, Labels, fs
<1>10. ASSUME NEW p \in Proc, ReadFile(p) \/ Restat(p) \/ StatFile(p) \/ Unlink(p) PROVE TmpFiles'
    <2>1. ~tmp[p].linked /\ UNCHANGED <<tmp, dir>>
        BY <1>10 DEF ReadFile, Restat, StatFile, Unlink, TmpFiles, HasTmp, fs
    <2>2. names[call[p].key] \in File \cup {None}
        BY <1>t DEF TypeOK
    <2>3. ContentOf(names[call[p].key]) \in Value \cup {"torn", None}
        BY <2>2 DEF ContentOf
    <2>4. \A q \in Proc : q # p => call'[q] = call[q]
        BY Zenon, <1>10, <2>2, <2>3, DoneCall DEF ReadFile, Restat, StatFile, Unlink, Done
    <2>5. Goto(p, "done") \/ Goto(p, "restat")
        BY <1>10 DEF ReadFile, Restat, StatFile, Unlink, Done
    <2> QED BY <2>1, <2>4, <2>5, PlainTmp DEF Labels
<1>11. ASSUME NEW p \in Proc, ListDir(p) PROVE TmpFiles'
    <2>1. ~tmp[p].linked
        BY <1>11 DEF ListDir, TmpFiles, HasTmp
    <2>2. \A q \in Proc : q # p => call'[q] = call[q]
        BY Zenon, <1>11, DoneCall DEF ListDir, Done
    <2> QED BY <1>11, <2>1, <2>2, PlainTmp DEF ListDir, Done, Labels, fs
<1>12. ASSUME NEW p \in Proc, Drop(p) PROVE TmpFiles'
    <2>1. CASE UNCHANGED tmp
        BY <1>12, <2>1 DEF Drop, TmpFiles, HasTmp
    <2>2. ASSUME NEW gone,
                 tmp' = [q \in Proc |-> [tmp[q] EXCEPT !.linked = @ /\ q \notin gone]]
          PROVE  TmpFiles'
        <3>1. \A q \in Proc : tmp'[q].file = tmp[q].file /\ (tmp'[q].linked => tmp[q].linked)
            BY <1>t, <2>2 DEF Tmp
        <3> QED BY <1>12, <3>1 DEF Drop, TmpFiles, HasTmp
    <2> QED BY Zenon, <1>12, <2>1, <2>2 DEF Drop
<1>13. ASSUME NEW p \in Proc, Rmdir(p) PROVE TmpFiles'
    <2>1. ~tmp[p].linked
        BY <1>13 DEF Rmdir, TmpFiles, HasTmp
    <2>2. CASE Done(p, "failed", None) /\ UNCHANGED dir
        BY Zenon, <1>13, <2>1, <2>2, PlainTmp, DoneCall DEF Rmdir, Done, Labels
    <2>3. CASE Temps(WipedDir) = {} /\ dir' = dir \ {WipedDir} /\ Done(p, "applied", None)
        <3>1. \A q \in Proc : tmp[q].linked => DirOf[call[q].key] \in dir'
            BY <2>3 DEF Temps, TmpFiles, HasTmp
        <3>2. pc'[p] = "done" /\ \A q \in Proc : q # p => pc'[q] = pc[q] /\ call'[q] = call[q]
            <4>1. \A q \in Proc : q # p => call'[q] = call[q]
                BY Zenon, <2>3, DoneCall DEF Done
            <4> QED BY Zenon, <2>3, <4>1, GotoType DEF Done, Labels
        <3> QED BY <1>13, <2>1, <3>1, <3>2 DEF Rmdir, TmpFiles, HasTmp
    <2> QED BY <1>13, <2>2, <2>3 DEF Rmdir
<1>14. ASSUME NEW p \in Proc, Invoke(p) \/ Return(p) PROVE TmpFiles'
    <2>1. ~tmp[p].linked
        BY <1>14 DEF Invoke, Return, TmpFiles, HasTmp
    <2>2. \A q \in Proc : q # p => call'[q] = call[q]
        BY <1>14 DEF Invoke, Return, TypeOK
    <2>3. \E l \in Labels \ {"sync", "rename"} : Goto(p, l)
        BY <1>14 DEF Invoke, Return, FirstStep, Labels
    <2> QED BY <1>14, <2>1, <2>2, <2>3, PlainTmp DEF Invoke, Return, fs
<1>15. ASSUME NEW p \in Proc, Crash(p) PROVE TmpFiles'
    <2>1. ~tmp'[p].linked /\ \A q \in Proc : q # p => tmp'[q] = tmp[q] /\ call'[q] = call[q]
        BY <1>15 DEF Crash, TypeOK
    <2> QED BY <1>15, <2>1, PlainTmp DEF Crash, Labels
<1> QED BY <1>1, <1>2, <1>3, <1>4, <1>5, <1>6, <1>7, <1>8, <1>9, <1>10, <1>11, <1>12, <1>13,
           <1>14, <1>15 DEF Next
-----------------------------------------------------------------------------
(* Whole files only *)

LEMMA WholeStep ==
    ASSUME Inv, [Next]_vars
    PROVE  WholeFiles'
<1> USE Records DEF Inv
<1>t. \A p \in Proc : tmp[p] \in Tmp /\ call[p] \in Calls /\ call[p].key \in Key
    BY DEF TypeOK, Calls
<1>1. CASE UNCHANGED <<names, disk>> /\ dir \subseteq dir'
    BY <1>1 DEF WholeFiles
<1>2. CASE Settle
    BY <1>2 DEF WholeFiles, Settle
<1>3. CASE PowerLoss
    <2>1. \A k \in Key : names'[k] = disk[k] /\ disk'[k] = disk[k]
        BY <1>3 DEF PowerLoss, WholeFiles, Whole, TypeOK
    <2>2. \A k \in Key : disk[k] # None => DirOf[k] \in dir'
        BY <1>3 DEF PowerLoss
    <2> QED BY <2>1, <2>2 DEF WholeFiles
<1>4. ASSUME NEW p \in Proc, Rename(p) PROVE WholeFiles'
    <2>1. CASE tmp[p].linked /\ names' = [names EXCEPT ![call[p].key] = tmp[p].file]
        <3>1. Whole(tmp[p].file) /\ DirOf[call[p].key] \in dir
            BY <1>4, <2>1 DEF Rename, TmpFiles, HasTmp, Serving, Serves, Whole
        <3> QED BY <1>t, <1>4, <2>1, <3>1 DEF Rename, WholeFiles, TypeOK
    <2> QED BY <1>1, <1>4, <2>1 DEF Rename
<1>5. ASSUME NEW p \in Proc, Unlink(p) PROVE WholeFiles'
    BY <1>t, <1>5 DEF Unlink, WholeFiles, Whole, TypeOK
<1>6. ASSUME NEW p \in Proc, Drop(p) PROVE WholeFiles'
    <2>1. UNCHANGED names \/ \E k : names' = [names EXCEPT ![k] = None]
        BY <1>6 DEF Drop
    <2> QED BY <1>6, <2>1 DEF Drop, WholeFiles, Whole, TypeOK
<1>7. ASSUME NEW p \in Proc, Rmdir(p) PROVE WholeFiles'
    BY <1>1, <1>7 DEF Rmdir, WholeFiles, Entries
<1>8. ASSUME NEW p \in Proc,
             \/ Invoke(p) \/ Mkdir(p) \/ OpenTmp(p) \/ WriteTmp(p) \/ SyncTmp(p) \/ RemoveTmp(p)
             \/ ReadFile(p) \/ Restat(p) \/ StatFile(p) \/ ListDir(p) \/ Return(p) \/ Crash(p)
      PROVE  WholeFiles'
    BY <1>1, <1>8 DEF Invoke, Mkdir, OpenTmp, WriteTmp, SyncTmp, RemoveTmp, ReadFile, Restat,
                      StatFile, ListDir, Return, Crash, fs
<1> QED BY <1>1, <1>2, <1>3, <1>4, <1>5, <1>6, <1>7, <1>8 DEF Next, vars

LEMMA Inductive == Spec => []Inv
<1>1. Inv /\ [Next]_vars => Inv'
    BY NextTypes, ServingStep, TmpStep, WholeStep DEF Inv
<1> QED BY InitInv, <1>1, PTL DEF Spec

\* Every variable of the storage root and of its callers keeps its type.
THEOREM TypeCorrect == Spec => []TypeOK
<1>1. Inv => TypeOK
    BY DEF Inv
<1> QED BY Inductive, <1>1, PTL

\* Whatever other processes do and wherever they die, WriteFileAtomic leaves no
\* temporary file once its Put has returned, and none stays behind without a
\* fault.
THEOREM CleansUp == Spec => []NoLitter
<1> DEFINE Faulted == orphans # {} => faults > 0
<1>1. Init => Faulted
    BY DEF Init
<1>2. Inv /\ Faulted /\ [Next]_vars => Faulted'
    <2> SUFFICES ASSUME Inv, Faulted, [Next]_vars PROVE Faulted'
        OBVIOUS
    <2>1. CASE Fault
        BY <2>1, FaultType DEF Inv
    <2>2. CASE UNCHANGED <<orphans, faults>>
        BY <2>2
    <2>3. ASSUME NEW p \in Proc, Drop(p) PROVE Faulted'
        BY <2>3 DEF Drop
    <2> QED BY Zenon, <2>1, <2>2, <2>3
            DEF Next, vars, fs, Invoke, Mkdir, OpenTmp, WriteTmp, SyncTmp, Rename, RemoveTmp, ReadFile,
                Restat, StatFile, Unlink, ListDir, Rmdir, Return, Crash, Settle, PowerLoss
<1>3. Inv /\ Faulted => NoLitter
    BY DEF Inv, TmpFiles, HasTmp, NoLitter
<1> QED BY Inductive, <1>1, <1>2, <1>3, PTL DEF Spec
-----------------------------------------------------------------------------
(* PosixStorage implements Storage *)

blob == [k \in Key |-> ContentOf(names[k])]
durable == [k \in Key |-> ContentOf(disk[k])]

\* Binding a name to another file changes one blob.
LEMMA Bind ==
    ASSUME TypeOK, NEW k \in Key, NEW f, names' = [names EXCEPT ![k] = f]
    PROVE  blob' = [blob EXCEPT ![k] = ContentOf(f)]
BY Zenon DEF TypeOK, blob

\* Steps that bind no name change no blob.
LEMMA Unbound ==
    ASSUME UNCHANGED <<names, disk>>
    PROVE  UNCHANGED <<blob, durable>>
BY DEF blob, durable

LEMMA AbstractVars ==
    /\ Abstract!vars = <<blob, durable, call>>
    /\ (Abstract!vars)' = <<blob', durable', call'>>
BY DEF Abstract!vars, blob, durable

LEMMA InitStorage == Init => Abstract!Init
<1> SUFFICES ASSUME Init PROVE Abstract!Init
    OBVIOUS
<1>1. \A v \in Value : [data |-> v, synced |-> TRUE] \in File
    BY DEF File
<1>2. \A k \in Key : ContentOf(names[k]) \in Value \cup {None}
    BY <1>1, ConstantsAssumption DEF Init, ContentOf
<1>3. blob \in [Key -> Value \cup {None}] /\ durable = blob
    BY <1>2 DEF Init, blob, durable
<1>4. call \in [Proc -> {c \in Abstract!Call : c.op = "idle"}]
    BY Records DEF Init
<1> QED BY <1>3, <1>4 DEF Abstract!Init, blob, durable

\* A Put takes effect at its rename, and fails before it or not at all.
LEMMA PutStorage ==
    ASSUME Inv, NEW p \in Proc,
           Mkdir(p) \/ OpenTmp(p) \/ WriteTmp(p) \/ SyncTmp(p) \/ Rename(p) \/ RemoveTmp(p)
    PROVE  Abstract!Put(p) \/ Abstract!Fail(p) \/ UNCHANGED <<blob, durable, call>>
<1> USE Records DEF Inv
<1>t. tmp[p] \in Tmp /\ call[p].key \in Key
    BY DEF TypeOK, Calls
<1>1. CASE Mkdir(p) \/ WriteTmp(p) \/ SyncTmp(p)
    BY <1>1, Unbound DEF Mkdir, WriteTmp, SyncTmp, fs
<1>2. CASE OpenTmp(p) \/ RemoveTmp(p)
    <2>1. CASE UNCHANGED <<names, disk, call>>
        BY <2>1, Unbound
    <2>2. CASE Done(p, "failed", None) /\ UNCHANGED <<names, disk>>
        <3>1. Abstract!Reply(p, "failed", None)
            BY Zenon, <2>2, DoneCall DEF Done
        <3>2. call[p].op = "put" /\ call[p].st = "pending"
            BY <1>2 DEF OpenTmp, RemoveTmp, Serving, Serves
        <3> QED BY Zenon, <2>2, <3>1, <3>2, Unbound DEF Abstract!Fail, blob, durable
    <2> QED BY Zenon, <1>2, <2>1, <2>2 DEF OpenTmp, RemoveTmp, fs
<1>3. CASE Rename(p)
    <2>1. CASE UNCHANGED <<names, call>>
        BY Zenon, <1>3, <2>1, Unbound DEF Rename
    <2>2. CASE names' = [names EXCEPT ![call[p].key] = tmp[p].file] /\ Done(p, "applied", None)
        <3>1. Abstract!Reply(p, "applied", None)
            BY Zenon, <2>2, DoneCall DEF Done
        <3>2. call[p].op = "put" /\ call[p].st = "pending" /\ tmp[p].file.data = call[p].val
            BY Zenon, <1>3 DEF Rename, Serving, Serves, TmpFiles, HasTmp
        <3>3. ContentOf(tmp[p].file) = call[p].val
            BY Zenon, <1>t, <3>2 DEF ContentOf
        <3>4. blob' = [blob EXCEPT ![call[p].key] = call[p].val]
            <4>1. blob' = [blob EXCEPT ![call[p].key] = ContentOf(tmp[p].file)]
                BY Zenon, <1>t, <2>2, Bind
            <4> QED BY Zenon, <3>3, <4>1
        <3>5. UNCHANGED durable
            BY Zenon, <1>3 DEF Rename, durable
        <3> QED BY Zenon, <3>1, <3>2, <3>4, <3>5 DEF Abstract!Put, Abstract!Pending, blob, durable
    <2> QED BY Zenon, <1>3, <2>1, <2>2 DEF Rename
<1> QED BY <1>1, <1>2, <1>3

\* Get and Stat answer with what the name held when it was read; a Get whose
\* second look finds no file fails.
LEMMA ReadStorage ==
    ASSUME Inv, NEW p \in Proc, ReadFile(p) \/ Restat(p) \/ StatFile(p)
    PROVE  Abstract!Read(p) \/ Abstract!Fail(p) \/ UNCHANGED <<blob, durable, call>>
<1> USE Records DEF Inv
<1>t. call[p] \in Calls /\ call[p].key \in Key /\ names[call[p].key] \in File \cup {None}
    BY DEF TypeOK, Calls
<1>u. UNCHANGED <<blob, durable>>
    BY Unbound DEF ReadFile, Restat, StatFile, fs
<1>c. /\ ContentOf(names[call[p].key]) \in Value \cup {"torn", None}
      /\ blob[call[p].key] = ContentOf(names[call[p].key])
    BY <1>t DEF ContentOf, blob
<1>1. CASE ReadFile(p)
    <2>1. call' = [call EXCEPT ![p].st = "applied", ![p].res = ContentOf(names[call[p].key])]
        BY <1>1 DEF ReadFile, Done, ContentOf
    <2>2. Abstract!Reply(p, "applied", blob[call[p].key])
        <3>1. Abstract!Reply(p, "applied", ContentOf(names[call[p].key]))
            BY Zenon, <1>c, <2>1, DoneCall
        <3> QED BY Zenon, <1>c, <3>1
    <2>3. call[p].op = "get" /\ call[p].st = "pending"
        BY <1>1 DEF ReadFile, Serving, Serves
    <2> QED BY Zenon, <1>u, <2>2, <2>3 DEF Abstract!Read, Abstract!Pending, blob, durable
<1>2. CASE StatFile(p)
    <2>1. Abstract!Reply(p, "applied", blob[call[p].key])
        <3>1. Abstract!Reply(p, "applied", ContentOf(names[call[p].key]))
            BY Zenon, <1>c, <1>2, DoneCall DEF StatFile, Done
        <3> QED BY Zenon, <1>c, <3>1
    <2>2. call[p].op = "stat" /\ call[p].st = "pending"
        BY Zenon, <1>2 DEF StatFile, Serving, Serves
    <2> QED BY Zenon, <1>u, <2>1, <2>2 DEF Abstract!Read, Abstract!Pending, blob, durable
<1>3. CASE Restat(p)
    <2>1. CASE Done(p, "failed", None)
        <3>1. Abstract!Reply(p, "failed", None)
            BY Zenon, <2>1, DoneCall DEF Done
        <3>2. call[p].op = "get"
            BY Zenon, <1>3 DEF Restat, Serving, Serves
        <3> QED BY Zenon, <1>u, <3>1, <3>2 DEF Abstract!Fail, blob, durable
    <2> QED BY Zenon, <1>u, <1>3, <2>1 DEF Restat
<1> QED BY <1>1, <1>2, <1>3

\* Delete and DeletePrefix: the latter erases one key of the prefix at a time,
\* and succeeds only when its directory is gone or empty.
LEMMA DeleteStorage ==
    ASSUME Inv, NEW p \in Proc, Unlink(p) \/ ListDir(p) \/ Drop(p) \/ Rmdir(p)
    PROVE  \/ Abstract!Delete(p) \/ Abstract!Erase(p) \/ Abstract!Wiped(p) \/ Abstract!Fail(p)
           \/ UNCHANGED <<blob, durable, call>>
<1> USE Records DEF Inv
<1>t. call[p] \in Calls /\ call[p].key \in Key
    BY DEF TypeOK, Calls
<1>d. UNCHANGED durable
    BY DEF Unlink, ListDir, Drop, Rmdir, fs, durable
<1>n. ContentOf(None) = None
    BY DEF ContentOf
<1>w. ASSUME Done(p, "applied", None), UNCHANGED <<names, disk>>, pc[p] \in {"list", "drop"},
             \A k \in Prefix : names[k] = None
      PROVE  Abstract!Wiped(p)
    <2>1. Abstract!Reply(p, "applied", None)
        BY Zenon, <1>w, DoneCall DEF Done
    <2>2. call[p].op = "wipe" /\ call[p].st = "pending"
        BY <1>w DEF Serving, Serves
    <2>3. \A k \in Prefix : blob[k] = None
        BY <1>n, <1>w DEF blob, Prefix
    <2> QED BY <1>w, <2>1, <2>2, <2>3, Unbound DEF Abstract!Wiped, Abstract!Pending, blob, durable
<1>1. CASE Unlink(p)
    <2>1. Abstract!Reply(p, "applied", None)
        BY Zenon, <1>1, DoneCall DEF Unlink, Done
    <2>2. call[p].op = "delete" /\ call[p].st = "pending"
        BY Zenon, <1>1 DEF Unlink, Serving, Serves
    <2>3. blob' = [blob EXCEPT ![call[p].key] = None]
        <3>1. blob' = [blob EXCEPT ![call[p].key] = ContentOf(None)]
            BY Zenon, <1>t, <1>1, Bind DEF Unlink
        <3> QED BY Zenon, <1>n, <3>1
    <2> QED BY Zenon, <1>d, <2>1, <2>2, <2>3 DEF Abstract!Delete, Abstract!Pending, blob, durable
<1>2. CASE ListDir(p)
    <2>1. CASE UNCHANGED call
        BY <1>2, <2>1, Unbound DEF ListDir, fs
    <2>2. CASE WipedDir \notin dir /\ Done(p, "applied", None)
        <3>1. \A k \in Prefix : names[k] = None
            BY Zenon, <2>2 DEF Prefix, WholeFiles
        <3> QED BY Zenon, <1>w, <1>2, <2>2, <3>1 DEF ListDir, fs
    <2> QED BY <1>2, <2>1, <2>2 DEF ListDir
<1>3. CASE Drop(p)
    <2>1. CASE UNCHANGED names
        BY <1>3, <2>1, Unbound DEF Drop
    <2>2. ASSUME NEW k \in todo[p], k # "tmp", names' = [names EXCEPT ![k] = None]
          PROVE  Abstract!Erase(p)
        <3>1. k \in Prefix /\ k \in Key
            BY Zenon, <2>2 DEF Serving, Serves, Prefix
        <3>2. blob' = [blob EXCEPT ![k] = None]
            <4>1. blob' = [blob EXCEPT ![k] = ContentOf(None)]
                BY Zenon, <2>2, <3>1, Bind
            <4> QED BY Zenon, <1>n, <4>1
        <3>3. call[p].op = "wipe" /\ call[p].st = "pending" /\ UNCHANGED call
            BY <1>3 DEF Drop, Serving, Serves
        <3> QED BY Zenon, <1>d, <3>1, <3>2, <3>3 DEF Abstract!Erase, Abstract!Pending, blob, durable
    <2> QED BY <1>3, <2>1, <2>2 DEF Drop
<1>4. CASE Rmdir(p)
    <2>1. CASE Done(p, "failed", None)
        <3>1. Abstract!Reply(p, "failed", None)
            BY Zenon, <2>1, DoneCall DEF Done
        <3>2. call[p].op = "wipe" /\ call[p].st = "pending"
            BY Zenon, <1>4 DEF Rmdir, Serving, Serves
        <3> QED BY Zenon, <1>4, <3>1, <3>2, Unbound DEF Rmdir, Abstract!Fail, blob, durable
    <2>2. CASE Entries(WipedDir) = {} /\ Done(p, "applied", None)
        <3>1. \A k \in Prefix : names[k] = None
            BY Zenon, <2>2 DEF Prefix, Entries
        <3> QED BY Zenon, <1>w, <1>4, <2>2, <3>1 DEF Rmdir
    <2> QED BY Zenon, <1>4, <2>1, <2>2 DEF Rmdir
<1> QED BY <1>1, <1>2, <1>3, <1>4

\* Callers come, go and die.
LEMMA CallerStorage ==
    ASSUME Inv, NEW p \in Proc, Invoke(p) \/ Return(p) \/ Crash(p)
    PROVE  Abstract!Invoke(p) \/ Abstract!Return(p) \/ Abstract!Crash(p)
<1> USE Records DEF Inv
<1>u. UNCHANGED <<blob, durable>>
    BY Unbound DEF Invoke, Return, Crash, fs
<1>1. CASE Invoke(p)
    <2>1. PICK o \in {"put", "get", "stat", "delete", "wipe"}, k \in Key, v \in Value \cup {None} :
            call' = [call EXCEPT ![p] = [op |-> o, key |-> k, val |-> v,
                                         st |-> "pending", res |-> None]]
        BY ZenonT(60), <1>1 DEF Invoke
    <2> DEFINE c == [op |-> o, key |-> k, val |-> v, st |-> "pending", res |-> None]
    <2>2. c \in Abstract!Call /\ c.op # "idle" /\ c.st = "pending"
        BY Zenon DEF Abstract!Call, Abstract!Ops
    <2>3. call[p].op = "idle"
        BY ZenonT(60), <1>1 DEF Invoke, Serving, Serves
    <2>4. call'[p] = c /\ call' = [call EXCEPT ![p] = call'[p]]
        BY <2>1 DEF TypeOK
    <2> QED BY Zenon, <1>u, <2>2, <2>3, <2>4 DEF Abstract!Invoke, blob, durable
<1>2. CASE Return(p)
    <2>1. call[p].st # "pending"
        BY Zenon, <1>2 DEF Return, Serving, Serves
    <2>2. call'[p] = Idle /\ call' = [call EXCEPT ![p] = call'[p]]
        BY <1>2 DEF Return, TypeOK
    <2> QED BY Zenon, <1>u, <2>1, <2>2 DEF Abstract!Return, blob, durable
<1>3. CASE Crash(p)
    <2>1. call'[p] = Idle /\ call' = [call EXCEPT ![p] = call'[p]]
        BY <1>3 DEF Crash, TypeOK
    <2> QED BY Zenon, <1>u, <2>1 DEF Abstract!Crash, blob, durable
<1> QED BY <1>1, <1>2, <1>3

\* After a power failure every key names what the medium held: nothing torn has
\* a key's name, because a file is synced before it is renamed.
LEMMA PowerLossStorage ==
    ASSUME Inv, PowerLoss
    PROVE  Abstract!PowerLoss
<1> USE Records DEF Inv
<1>1. \A k \in Key : names'[k] = disk[k] /\ disk'[k] = disk[k]
    BY DEF PowerLoss, WholeFiles, Whole, TypeOK
<1>2. blob' = durable /\ durable' = durable
    BY <1>1 DEF blob, durable
<1>3. \A p \in Proc : call'[p] = Idle
    BY DEF PowerLoss
<1> QED BY <1>2, <1>3 DEF Abstract!PowerLoss, blob, durable

\* Every step of PosixStorage is a step of Storage, or none.
LEMMA StepStorage ==
    ASSUME Inv, [Next]_vars
    PROVE  [Abstract!Next]_(Abstract!vars)
<1>1. CASE UNCHANGED vars
    BY <1>1, Unbound, AbstractVars DEF vars
<1>2. CASE Settle
    <2>1. Abstract!Settle
        BY <1>2 DEF Settle, Abstract!Settle
    <2> QED BY <2>1 DEF Abstract!Next
<1>3. CASE PowerLoss
    BY <1>3, PowerLossStorage DEF Abstract!Next
<1>4. ASSUME NEW p \in Proc,
             Mkdir(p) \/ OpenTmp(p) \/ WriteTmp(p) \/ SyncTmp(p) \/ Rename(p) \/ RemoveTmp(p)
      PROVE  [Abstract!Next]_(Abstract!vars)
    BY Zenon, <1>4, PutStorage, AbstractVars DEF Abstract!Next
<1>5. ASSUME NEW p \in Proc, ReadFile(p) \/ Restat(p) \/ StatFile(p)
      PROVE  [Abstract!Next]_(Abstract!vars)
    BY Zenon, <1>5, ReadStorage, AbstractVars DEF Abstract!Next
<1>6. ASSUME NEW p \in Proc, Unlink(p) \/ ListDir(p) \/ Drop(p) \/ Rmdir(p)
      PROVE  [Abstract!Next]_(Abstract!vars)
    BY Zenon, <1>6, DeleteStorage, AbstractVars DEF Abstract!Next
<1>7. ASSUME NEW p \in Proc, Invoke(p) \/ Return(p) \/ Crash(p)
      PROVE  [Abstract!Next]_(Abstract!vars)
    BY Zenon, <1>7, CallerStorage DEF Abstract!Next
<1> QED BY <1>1, <1>2, <1>3, <1>4, <1>5, <1>6, <1>7 DEF Next

\* The posix backend keeps the promises of the Storage interface to any number
\* of processes, through I/O errors, deaths and power failures: rename is the
\* moment a Put takes effect, and sync before rename is why "a crash never leaves
\* a partially written file at path".
THEOREM Refinement == Spec => ImplementsStorage
BY InitStorage, StepStorage, Inductive, PTL DEF Spec, ImplementsStorage, Abstract!Spec
=============================================================================
