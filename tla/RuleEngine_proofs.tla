------------------------- MODULE RuleEngine_proofs -------------------------
(***************************************************************************)
(* Proofs about RuleEngine for any number of nodes, threads, files, uuids, *)
(* version tokens and operator writes: the version check is sound, nothing *)
(* that does not compile is enforced, a confirmed answer was the policy    *)
(* during that very Lookup, and the engine implements the register of      *)
(* PolicyStore.                                                            *)
(***************************************************************************)
EXTENDS RuleEngine, TLAPS

-----------------------------------------------------------------------------
(* Types of the data and of what the steps are built from *)

\* The initial and empty records have their types.
LEMMA EmptyRecords ==
    /\ EmptyFile \in File /\ BuiltinDefault \in File
    /\ Absent \in Blob /\ Seeded \in Blob
    /\ NoEntry \in Entry /\ NoLocal \in Local
    /\ NoResult \in Result /\ Error \in Result
<1>1. EmptyFile \in File /\ BuiltinDefault \in File
    BY ConstantsAssumption DEF EmptyFile, BuiltinDefault, File, NoUuid
<1>2. Absent \in Blob /\ Seeded \in Blob
    BY <1>1, ConstantsAssumption DEF Absent, Seeded, Blob, Version
<1>3. NoEntry \in Entry
    BY <1>1 DEF NoEntry, Entry, Version
<1>4. NoLocal \in Local
    BY <1>1, <1>3 DEF NoLocal, Local, Version
<1>5. NoResult \in Result /\ Error \in Result
    BY Zenon DEF NoResult, Error, Result
<1> QED BY <1>1, <1>2, <1>3, <1>4, <1>5

\* Re-encoding a file gives a file, keeps its policy, and a default bucket
\* always has an egress list.
LEMMA Encoding ==
    ASSUME NEW f \in File
    PROVE  /\ Marshal(f) \in File
           /\ SamePolicy(f, Marshal(f)) /\ SamePolicy(Marshal(f), f)
           /\ BucketEgress(f) \in OwnEgress \cup {"empty"}
BY DEF Marshal, SamePolicy, BucketEgress, File

\* A value chosen by Unused belongs to the set and is not in use.
LEMMA UnusedIsNew ==
    ASSUME NEW S, NEW used, NEW s \in Unused(S, used)
    PROVE  s \in S /\ s \notin used
BY DEF Unused

\* Storing an entry or keeping a copy of one gives an entry.
LEMMA EntryCopies ==
    ASSUME NEW t \in Thread, NEW e \in Entry
    PROVE  /\ Cached(t, e) \in Entry /\ Copy(e) \in Entry
           /\ Cached(t, e).raced = e.raced /\ Copy(e).raced = e.raced
           /\ Cached(t, e).exists = e.exists /\ Copy(e).exists = e.exists
           /\ Cached(t, e).version = e.version /\ Copy(e).version = e.version
           /\ Cached(t, e).file = e.file /\ Copy(e).file = e.file
<1>1. (node(t) \in TTLNodes) \in BOOLEAN
    OBVIOUS
<1> DEFINE b == node(t) \in TTLNodes
<1>2. b \in BOOLEAN
    BY <1>1
<1>3. Cached(t, e) = [e EXCEPT !.has = TRUE, !.fresh = b]
    BY Zenon DEF Cached
<1> HIDE DEF b
<1>4. Cached(t, e) \in Entry /\ Copy(e) \in Entry
    BY Zenon, <1>2, <1>3 DEF Copy, Entry
<1> QED BY <1>3, <1>4 DEF Copy, Entry

\* What a Lookup answers is a result.
LEMMA AnswerType ==
    ASSUME NEW t \in Thread, NEW k \in {"override", "default", "empty"}, NEW f \in File,
           NEW e \in OwnEgress \cup {"empty"}, NEW s \in BOOLEAN
    PROVE  Answer(t, k, f, e, s) \in Result
<1>1. WasHeld(t, k, f) \in BOOLEAN
    BY Zenon DEF WasHeld
<1> QED BY <1>1 DEF Answer, Result, File

\* The steps that end a call, go on with it, or enter lookupDefaultTable leave
\* the threads' state well typed.
LEMMA FinishType ==
    ASSUME TypeOK, NEW t \in Thread, NEW r \in Result, Finish(t, r)
    PROVE  ThreadsOK' /\ HistoryOK'
BY EmptyRecords DEF TypeOK, ThreadsOK, HistoryOK, Finish, LookupPC, TablePC

\* A thread that moves to its next step keeps its types.
LEMMA StepType ==
    ASSUME TypeOK, NEW t \in Thread, NEW p \in LookupPC, NEW l \in Local, Step(t, p, l)
    PROVE  ThreadsOK'
BY DEF TypeOK, ThreadsOK, Step

\* So does one inside lookupDefaultTable.
LEMMA TableStepType ==
    ASSUME TypeOK, NEW t \in Thread, NEW p \in TablePC, NEW l \in Local,
           TableStep(t, p, l)
    PROVE  ThreadsOK'
BY DEF TypeOK, ThreadsOK, TableStep

\* So does a Lookup that turns to the default table.
LEMMA AskTableType ==
    ASSUME TypeOK, NEW t \in Thread, NEW w \in {"bucket", "egress"}, NEW l \in Local,
           AskTable(t, w, l)
    PROVE  ThreadsOK'
BY DEF TypeOK, ThreadsOK, AskTable, TablePC

\* The entry a thread holds is an entry.
LEMMA HeldType ==
    ASSUME NEW b \in Blob
    PROVE  Held(b) \in HeldBlob
BY DEF Held, HeldBlob, Blob

\* A Lookup that starts keeps the types.
LEMMA OpenType ==
    ASSUME TypeOK, NEW t \in Thread, Open(t)
    PROVE  HistoryOK'
BY EmptyRecords, HeldType DEF TypeOK, StorageOK, HistoryOK, Open

\* resolveClientCache and TableReturns, with a well-typed entry.
LEMMA ResolveType ==
    ASSUME TypeOK, NEW t \in Thread, NEW e \in Entry, NEW s \in BOOLEAN,
           resolveClientCache(t, e, s)
    PROVE  ThreadsOK' /\ HistoryOK'
<1>1. CASE e.exists
    <2>1. Answer(t, "override", e.file, e.egress, s /\ ~e.raced) \in Result
        BY Zenon, AnswerType DEF Entry
    <2> QED BY <1>1, <2>1, FinishType DEF resolveClientCache
<1>2. CASE ~e.exists
    <2>1. [NoLocal EXCEPT !.sure = s] \in Local
        BY EmptyRecords DEF Local
    <2> QED BY <1>2, <2>1, AskTableType DEF resolveClientCache, pending, TypeOK, HistoryOK
<1> QED BY <1>1, <1>2

\* What lookupDefaultTable returns is well typed for its caller.
LEMMA TableReturnsType ==
    ASSUME TypeOK, NEW t \in Thread, NEW e \in Entry, NEW s \in BOOLEAN,
           TableReturns(t, e, s)
    PROVE  ThreadsOK' /\ HistoryOK'
<1> DEFINE x == IF e.exists THEN BucketEgress(e.file) ELSE "empty"
<1>0. e.file \in File /\ e.raced \in BOOLEAN /\ e.exists \in BOOLEAN
    BY DEF Entry
<1>1. x \in OwnEgress \cup {"empty"} /\ BucketEgress(e.file) \in OwnEgress \cup {"empty"}
    BY <1>0, Encoding
<1>2. CASE want[t] = "egress"
    <2> HIDE DEF x
    <2>1. /\ pc' = [pc EXCEPT ![t] = "publish"]
          /\ loc' = [loc EXCEPT ![t].egress = x]
          /\ dloc' = [dloc EXCEPT ![t] = NoLocal]
          /\ want' = want /\ result' = result /\ seen' = seen /\ dseen' = dseen
        BY <1>2 DEF TableReturns, pending, x
    <2>2. loc' \in [Thread -> Local]
        BY <2>1, <1>1 DEF TypeOK, ThreadsOK, Local
    <2> QED BY <2>1, <2>2, EmptyRecords DEF TypeOK, ThreadsOK, HistoryOK, LookupPC
<1>3. CASE want[t] # "egress"
    <2> DEFINE k == IF e.exists THEN "default" ELSE "empty"
    <2>1. loc[t].sure \in BOOLEAN
        BY DEF TypeOK, ThreadsOK, Local
    <2>2. Answer(t, k, e.file, BucketEgress(e.file), loc[t].sure /\ s /\ ~e.raced) \in Result
        BY Zenon, <2>1, <1>0, <1>1, AnswerType
    <2> QED BY <1>3, <2>2, FinishType DEF TableReturns
<1> QED BY <1>2, <1>3

\* A write leaves a blob in Storage and a blob in each open history.
LEMMA WatchType ==
    ASSUME NEW b \in Blob, NEW h \in [Thread -> SUBSET HeldBlob]
    PROVE  Watch(h, b) \in [Thread -> SUBSET HeldBlob]
BY HeldType DEF Watch

\* Writing a rule file (RuleStore.Save) keeps the types.
LEMMA SaveType ==
    ASSUME TypeOK, NEW f \in File, Save(f)
    PROVE  /\ ip' \in Blob /\ default' = default /\ ip'.version \in Version
           /\ seen' \in [Thread -> SUBSET HeldBlob] /\ dseen' = dseen
<1>1. ip' \in Blob
    BY UnusedIsNew DEF Save, NewVersions, Blob, Version
<1>2. seen' = Watch(seen, ip')
    BY DEF Save
<1>3. seen' \in [Thread -> SUBSET HeldBlob]
    BY <1>1, <1>2, HeldType DEF Watch, TypeOK, HistoryOK
<1> QED BY Zenon, <1>1, <1>3 DEF Save, Blob

\* Writing rules/default (SaveDefault) keeps the types.
LEMMA SaveDefaultType ==
    ASSUME TypeOK, NEW f \in File, SaveDefault(f)
    PROVE  /\ default' \in Blob /\ ip' = ip /\ default'.version \in Version
           /\ dseen' \in [Thread -> SUBSET HeldBlob] /\ seen' = seen
<1>1. default' \in Blob
    BY UnusedIsNew DEF SaveDefault, NewVersions, Blob, Version
<1>2. dseen' = Watch(dseen, default')
    BY DEF SaveDefault
<1>3. dseen' \in [Thread -> SUBSET HeldBlob]
    BY <1>1, <1>2, HeldType DEF Watch, TypeOK, HistoryOK
<1> QED BY Zenon, <1>1, <1>3 DEF SaveDefault, Blob

\* A minted uuid makes a file of a file.
LEMMA MintType ==
    ASSUME NEW f \in File, NEW u \in Unused(Uuid, UsedUuids)
    PROVE  [f EXCEPT !.uuid = u] \in File /\ SamePolicy([f EXCEPT !.uuid = u], f)
BY UnusedIsNew, ConstantsAssumption DEF File, SamePolicy, Marshal

-----------------------------------------------------------------------------
(* The type invariant *)

\* Every step of Lookup and lookupIP keeps the types.
LEMMA LookupTypes ==
    ASSUME TypeOK, NEW t \in Thread,
           \/ LookupBegin(t) \/ LookupStat(t) \/ touchClientCache(t) \/ LookupMiss(t)
           \/ LookupLoad(t) \/ LookupSave(t) \/ LookupRestat(t) \/ LookupCompile(t)
           \/ LookupPublish(t)
    PROVE  TypeOK'
<1> USE EmptyRecords
<1>a. /\ ip \in Blob /\ node(t) \in Node /\ loc[t] \in Local /\ cache[node(t)] \in Entry
      /\ loc[t].old \in Entry /\ ip.version \in Version /\ ip.file \in File
      /\ loc[t].rf \in File /\ loc[t].ver \in Version /\ loc[t].raced \in BOOLEAN
      /\ loc[t].egress \in OwnEgress \cup {"empty"}
    BY ConstantsAssumption
    DEF TypeOK, StorageOK, CachesOK, ThreadsOK, node, Local, Blob
<1>b. ASSUME NEW e \in Entry, cache' = [cache EXCEPT ![node(t)] = Cached(t, e)],
             dcache' = dcache
      PROVE  CachesOK'
    BY <1>b, <1>a, EntryCopies DEF TypeOK, CachesOK
<1>c. UNCHANGED storage => StorageOK'
    BY DEF storage, TypeOK, StorageOK
<1>d. UNCHANGED caches => CachesOK'
    BY DEF caches, TypeOK, CachesOK
<1>e. UNCHANGED pending => HistoryOK'
    BY DEF pending, TypeOK, HistoryOK
<1>f. LookupPC = {"stat", "touch", "miss", "load", "save", "restat", "compile", "publish"}
    BY DEF LookupPC
<1>1. CASE LookupBegin(t)
    <2> DEFINE e == cache[node(t)]
    <2>1. CASE fresh(e) /\ e.exists /\ resolveClientCache(t, e, FALSE)
        BY Zenon, <1>1, <1>a, <1>c, <1>d, <2>1, ResolveType DEF LookupBegin, TypeOK
    <2>2. CASE fresh(e) /\ ~e.exists /\ AskTable(t, "bucket", NoLocal) /\ Open(t)
        BY <1>1, <1>c, <1>d, <2>2, AskTableType, OpenType DEF LookupBegin, TypeOK
    <2>3. CASE ~fresh(e) /\ Step(t, "stat", [NoLocal EXCEPT !.old = Copy(e)]) /\ Open(t)
        <3>1. [NoLocal EXCEPT !.old = Copy(e)] \in Local
            BY <1>a, EntryCopies DEF Local
        <3> QED BY <1>1, <1>c, <1>d, <1>f, <2>3, <3>1, StepType, OpenType
                DEF LookupBegin, TypeOK
    <2> QED BY Zenon, <1>1, <2>1, <2>2, <2>3 DEF LookupBegin
<1>2. CASE LookupStat(t)
    <2> DEFINE l == loc[t]
               p == IF l.old.has /\ l.old.version = ip.version /\ l.old.exists = ip.exists
                    THEN "touch" ELSE IF ip.exists THEN "load" ELSE "miss"
    <2>1. CASE resolveClientCache(t, l.old, FALSE)
        BY Zenon, <1>2, <1>a, <1>c, <1>d, <2>1, ResolveType DEF LookupStat, TypeOK
    <2>2. CASE Finish(t, Error)
        BY <1>2, <1>c, <1>d, <2>2, FinishType DEF LookupStat, TypeOK
    <2>3. CASE Step(t, p, [l EXCEPT !.ver = ip.version]) /\ UNCHANGED pending
        <3>1. [l EXCEPT !.ver = ip.version] \in Local
            BY <1>a DEF Local
        <3>2. p \in LookupPC
            BY <1>f
        <3> HIDE DEF p
        <3> QED BY <1>2, <1>c, <1>d, <1>e, <2>3, <3>1, <3>2, StepType
                DEF LookupStat, TypeOK
    <2> QED BY Zenon, <1>2, <2>1, <2>2, <2>3 DEF LookupStat
<1>3. CASE touchClientCache(t)
    BY Zenon, <1>3, <1>a, <1>b, <1>c, ResolveType DEF touchClientCache, TypeOK
<1>4. CASE LookupMiss(t)
    <2> DEFINE e == [NoEntry EXCEPT !.version = loc[t].ver]
    <2>1. e \in Entry
        BY <1>a DEF Entry
    <2> QED BY Zenon, <1>4, <2>1, <1>b, <1>c, ResolveType DEF LookupMiss, TypeOK
<1>5. CASE LookupLoad(t)
    <2>1. CASE Finish(t, Error)
        BY <1>5, <1>c, <1>d, <2>1, FinishType DEF LookupLoad, TypeOK
    <2> DEFINE x == Skewed(loc[t].ver, ip)
               m == [loc[t] EXCEPT !.rf = ip.file, !.raced = x]
    <2>2. CASE /\ Step(t, IF ip.file.uuid = NoUuid THEN "save" ELSE "compile", m)
               /\ UNCHANGED pending
        <3>0. x \in BOOLEAN
            BY DEF Skewed
        <3>1. m \in Local
            BY Zenon, <1>a, <3>0 DEF Local
        <3> HIDE DEF m
        <3> QED BY <1>5, <1>c, <1>d, <1>e, <1>f, <2>2, <3>1, StepType
                DEF LookupLoad, TypeOK
    <2> QED BY <1>5, <2>1, <2>2 DEF LookupLoad
<1>6. CASE LookupSave(t)
    <2> PICK u \in Unused(Uuid, UsedUuids) :
            LET f == [loc[t].rf EXCEPT !.uuid = u] IN
            /\ \/ /\ Step(t, "compile", [loc[t] EXCEPT !.rf = f])
                  /\ UNCHANGED <<ip, default, seen, dseen>>
               \/ /\ Save(Marshal(f))
                  /\ Step(t, "restat", [loc[t] EXCEPT !.rf = f, !.mine = ip'.version])
            /\ UNCHANGED <<flaky, writes, caches, result>>
        BY Zenon, <1>6 DEF LookupSave
    <2> DEFINE f == [loc[t].rf EXCEPT !.uuid = u]
    <2>1. f \in File /\ Marshal(f) \in File
        BY <1>a, MintType, Encoding
    <2>2. CASE Step(t, "compile", [loc[t] EXCEPT !.rf = f])
               /\ UNCHANGED <<ip, default, seen, dseen>>
        <3>1. [loc[t] EXCEPT !.rf = f] \in Local
            BY <1>a, <2>1 DEF Local
        <3> QED BY <2>2, <3>1, <1>d, <1>f, StepType
                DEF TypeOK, StorageOK, HistoryOK
    <2>3. CASE /\ Save(Marshal(f))
               /\ Step(t, "restat", [loc[t] EXCEPT !.rf = f, !.mine = ip'.version])
        <3>1. ip'.version \in Version
            BY <2>1, <2>3, SaveType
        <3>2. [loc[t] EXCEPT !.rf = f, !.mine = ip'.version] \in Local
            BY Zenon, <1>a, <2>1, <3>1 DEF Local
        <3>3. ThreadsOK'
            BY <2>3, <3>2, <1>f, StepType
        <3> QED BY <2>1, <2>3, <3>3, <1>d, SaveType DEF TypeOK, StorageOK, HistoryOK
    <2> QED BY <2>2, <2>3
<1>7. CASE LookupRestat(t)
    <2> DEFINE l == [loc[t] EXCEPT !.mine = NoVersion]
               m == [l EXCEPT !.ver = ip.version, !.raced = (ip.version # loc[t].mine)]
    <2>1. l \in Local
        BY <1>a DEF Local, Version
    <2>2. (ip.version # loc[t].mine) \in BOOLEAN
        OBVIOUS
    <2>3. m \in Local
        <3> DEFINE b == ip.version # loc[t].mine
        <3>1. b \in BOOLEAN
            BY <2>2
        <3> HIDE DEF b
        <3> QED BY Zenon, <1>a, <2>1, <3>1 DEF Local
    <2>4. Step(t, "compile", l) \/ Step(t, "compile", m)
        BY <1>7 DEF LookupRestat
    <2> HIDE DEF l, m
    <2> QED BY <1>7, <2>1, <2>3, <2>4, <1>c, <1>d, <1>e, <1>f, StepType
            DEF LookupRestat, TypeOK
<1>8. CASE LookupCompile(t)
    <2> DEFINE l == loc[t]
               e == [NoEntry EXCEPT !.version = l.ver, !.exists = TRUE, !.file = l.rf,
                                    !.egress = l.old.egress, !.raced = l.raced]
    <2>1. e \in Entry
        BY Zenon, <1>a DEF Entry
    <2>2. CASE /\ cache' = [cache EXCEPT ![node(t)] = Cached(t, e)]
               /\ Finish(t, Answer(t, "override", e.file, e.egress, ~e.raced))
        <3>1. Answer(t, "override", e.file, e.egress, ~e.raced) \in Result
            BY Zenon, <2>1, AnswerType DEF Entry
        <3> QED BY Zenon, <1>8, <2>1, <2>2, <3>1, <1>b, <1>c, FinishType
                DEF LookupCompile, TypeOK
    <2>3. CASE Finish(t, Error) /\ UNCHANGED cache
        BY <1>8, <2>3, <1>c, FinishType DEF LookupCompile, TypeOK, CachesOK
    <2>4. CASE /\ l.rf.egress # "inherit"
               /\ Step(t, "publish", [l EXCEPT !.old = NoEntry, !.egress = l.rf.egress])
               /\ UNCHANGED <<cache, pending>>
        <3>1. [l EXCEPT !.old = NoEntry, !.egress = l.rf.egress] \in Local
            BY Zenon, <1>a, <2>4 DEF Local, File
        <3> QED BY <1>8, <2>4, <3>1, <1>c, <1>e, <1>f, StepType
                DEF LookupCompile, TypeOK, CachesOK
    <2>5. CASE /\ AskTable(t, "egress", [l EXCEPT !.old = NoEntry])
               /\ UNCHANGED <<cache, pending>>
        <3>1. [l EXCEPT !.old = NoEntry] \in Local
            BY <1>a DEF Local
        <3> QED BY <1>8, <2>5, <3>1, <1>c, <1>e, AskTableType
                DEF LookupCompile, TypeOK, CachesOK
    <2> QED BY <1>8, <2>2, <2>3, <2>4, <2>5 DEF LookupCompile
<1>9. CASE LookupPublish(t)
    <2> DEFINE l == loc[t]
               e == [NoEntry EXCEPT !.version = l.ver, !.exists = TRUE, !.file = l.rf,
                                    !.egress = l.egress, !.raced = l.raced]
    <2>1. e \in Entry
        BY Zenon, <1>a DEF Entry
    <2>2. Answer(t, "override", e.file, e.egress, ~e.raced) \in Result
        BY Zenon, <2>1, AnswerType DEF Entry
    <2> QED BY Zenon, <1>9, <2>1, <2>2, <1>b, <1>c, FinishType DEF LookupPublish, TypeOK
<1> QED BY <1>1, <1>2, <1>3, <1>4, <1>5, <1>6, <1>7, <1>8, <1>9

\* Every step of lookupDefaultTable keeps the types.
LEMMA TableTypes ==
    ASSUME TypeOK, NEW t \in Thread,
           \/ TableBegin(t) \/ TableStat(t) \/ TableTouch(t) \/ TableMiss(t)
           \/ TableLoad(t) \/ TableSave(t) \/ TableRestat(t) \/ TableCompile(t)
    PROVE  TypeOK'
<1> USE EmptyRecords
<1>a. /\ default \in Blob /\ node(t) \in Node /\ dloc[t] \in Local
      /\ dcache[node(t)] \in Entry /\ dloc[t].old \in Entry
      /\ default.version \in Version /\ default.file \in File
      /\ dloc[t].rf \in File /\ dloc[t].ver \in Version /\ dloc[t].raced \in BOOLEAN
    BY ConstantsAssumption
    DEF TypeOK, StorageOK, CachesOK, ThreadsOK, node, Local, Blob
<1>b. ASSUME NEW e \in Entry, dcache' = [dcache EXCEPT ![node(t)] = Cached(t, e)],
             cache' = cache
      PROVE  CachesOK'
    BY <1>b, <1>a, EntryCopies DEF TypeOK, CachesOK
<1>c. UNCHANGED storage => StorageOK'
    BY DEF storage, TypeOK, StorageOK
<1>d. UNCHANGED caches => CachesOK'
    BY DEF caches, TypeOK, CachesOK
<1>e. UNCHANGED pending => HistoryOK'
    BY DEF pending, TypeOK, HistoryOK
<1>f. TablePC = {"dbegin", "dstat", "dtouch", "dmiss", "dload", "dsave", "drestat",
                 "dcompile"}
    BY DEF TablePC
<1>1. CASE TableBegin(t)
    <2> DEFINE e == dcache[node(t)]
    <2>1. CASE fresh(e) /\ TableReturns(t, e, FALSE)
        BY Zenon, <1>1, <1>a, <1>c, <1>d, <2>1, TableReturnsType DEF TableBegin, TypeOK
    <2>2. CASE TableStep(t, "dstat", [NoLocal EXCEPT !.old = Copy(e)]) /\ UNCHANGED pending
        <3>1. [NoLocal EXCEPT !.old = Copy(e)] \in Local
            BY <1>a, EntryCopies DEF Local
        <3> QED BY <1>1, <1>c, <1>d, <1>e, <1>f, <2>2, <3>1, TableStepType
                DEF TableBegin, TypeOK
    <2> QED BY Zenon, <1>1, <2>1, <2>2 DEF TableBegin
<1>2. CASE TableStat(t)
    <2> DEFINE l == dloc[t]
               p == IF l.old.has
                       /\ l.old.version = default.version /\ l.old.exists = default.exists
                    THEN "dtouch" ELSE IF default.exists THEN "dload" ELSE "dmiss"
    <2>1. CASE TableReturns(t, l.old, FALSE)
        BY Zenon, <1>2, <1>a, <1>c, <1>d, <2>1, TableReturnsType DEF TableStat, TypeOK
    <2>2. CASE Finish(t, Error)
        BY <1>2, <1>c, <1>d, <2>2, FinishType DEF TableStat, TypeOK
    <2>3. CASE TableStep(t, p, [l EXCEPT !.ver = default.version]) /\ UNCHANGED pending
        <3>1. [l EXCEPT !.ver = default.version] \in Local
            BY <1>a DEF Local
        <3>2. p \in TablePC
            BY <1>f
        <3> HIDE DEF p
        <3> QED BY <1>2, <1>c, <1>d, <1>e, <2>3, <3>1, <3>2, TableStepType
                DEF TableStat, TypeOK
    <2> QED BY Zenon, <1>2, <2>1, <2>2, <2>3 DEF TableStat
<1>3. CASE TableTouch(t)
    BY Zenon, <1>3, <1>a, <1>b, <1>c, TableReturnsType DEF TableTouch, TypeOK
<1>4. CASE TableMiss(t)
    <2> DEFINE e == [NoEntry EXCEPT !.version = dloc[t].ver]
    <2>1. e \in Entry
        BY <1>a DEF Entry
    <2> QED BY Zenon, <1>4, <2>1, <1>b, <1>c, TableReturnsType DEF TableMiss, TypeOK
<1>5. CASE TableLoad(t)
    <2>1. CASE Finish(t, Error)
        BY <1>5, <1>c, <1>d, <2>1, FinishType DEF TableLoad, TypeOK
    <2> DEFINE x == Skewed(dloc[t].ver, default)
               m == [dloc[t] EXCEPT !.old = NoEntry, !.rf = default.file, !.raced = x]
    <2>2. CASE /\ TableStep(t, IF default.file.uuid = NoUuid THEN "dsave" ELSE "dcompile", m)
               /\ UNCHANGED pending
        <3>0. x \in BOOLEAN
            BY DEF Skewed
        <3>1. m \in Local
            BY Zenon, <1>a, <3>0 DEF Local
        <3> HIDE DEF m
        <3> QED BY <1>5, <1>c, <1>d, <1>e, <1>f, <2>2, <3>1, TableStepType
                DEF TableLoad, TypeOK
    <2> QED BY <1>5, <2>1, <2>2 DEF TableLoad
<1>6. CASE TableSave(t)
    <2> PICK u \in Unused(Uuid, UsedUuids) :
            LET f == [dloc[t].rf EXCEPT !.uuid = u] IN
            /\ \/ /\ TableStep(t, "dcompile", [dloc[t] EXCEPT !.rf = f])
                  /\ UNCHANGED <<ip, default, seen, dseen>>
               \/ /\ SaveDefault(Marshal(f))
                  /\ TableStep(t, "drestat",
                               [dloc[t] EXCEPT !.rf = f, !.mine = default'.version])
            /\ UNCHANGED <<flaky, writes, caches, result>>
        BY Zenon, <1>6 DEF TableSave
    <2> DEFINE f == [dloc[t].rf EXCEPT !.uuid = u]
    <2>1. f \in File /\ Marshal(f) \in File
        BY <1>a, MintType, Encoding
    <2>2. CASE TableStep(t, "dcompile", [dloc[t] EXCEPT !.rf = f])
               /\ UNCHANGED <<ip, default, seen, dseen>>
        <3>1. [dloc[t] EXCEPT !.rf = f] \in Local
            BY <1>a, <2>1 DEF Local
        <3> QED BY <2>2, <3>1, <1>d, <1>f, TableStepType
                DEF TypeOK, StorageOK, HistoryOK
    <2>3. CASE /\ SaveDefault(Marshal(f))
               /\ TableStep(t, "drestat",
                            [dloc[t] EXCEPT !.rf = f, !.mine = default'.version])
        <3>1. default'.version \in Version
            BY <2>1, <2>3, SaveDefaultType
        <3>2. [dloc[t] EXCEPT !.rf = f, !.mine = default'.version] \in Local
            BY Zenon, <1>a, <2>1, <3>1 DEF Local
        <3>3. ThreadsOK'
            BY <2>3, <3>2, <1>f, TableStepType
        <3> QED BY <2>1, <2>3, <3>3, <1>d, SaveDefaultType DEF TypeOK, StorageOK, HistoryOK
    <2> QED BY <2>2, <2>3
<1>7. CASE TableRestat(t)
    <2> DEFINE l == [dloc[t] EXCEPT !.mine = NoVersion]
               b == default.version # dloc[t].mine
               m == [l EXCEPT !.ver = default.version, !.raced = b]
    <2>1. l \in Local
        BY <1>a DEF Local, Version
    <2>2. b \in BOOLEAN
        OBVIOUS
    <2>3. TableStep(t, "dcompile", l) \/ TableStep(t, "dcompile", m)
        BY <1>7 DEF TableRestat
    <2> HIDE DEF b
    <2>4. m \in Local
        BY Zenon, <1>a, <2>1, <2>2 DEF Local
    <2> HIDE DEF l, m
    <2> QED BY <1>7, <2>1, <2>3, <2>4, <1>c, <1>d, <1>e, <1>f, TableStepType
            DEF TableRestat, TypeOK
<1>8. CASE TableCompile(t)
    <2> DEFINE l == dloc[t]
               e == [NoEntry EXCEPT !.version = l.ver, !.exists = TRUE, !.file = l.rf,
                                    !.egress = BucketEgress(l.rf), !.raced = l.raced]
    <2>1. e \in Entry
        <3>1. BucketEgress(l.rf) \in OwnEgress \cup {"empty"}
            BY <1>a, Encoding
        <3> QED BY Zenon, <1>a, <3>1 DEF Entry
    <2>2. CASE /\ dcache' = [dcache EXCEPT ![node(t)] = Cached(t, e)]
               /\ TableReturns(t, e, TRUE)
        BY Zenon, <1>8, <2>1, <2>2, <1>b, <1>c, TableReturnsType DEF TableCompile, TypeOK
    <2>3. CASE Finish(t, Error) /\ UNCHANGED dcache
        BY <1>8, <2>3, <1>c, FinishType DEF TableCompile, TypeOK, CachesOK
    <2> QED BY Zenon, <1>8, <2>2, <2>3 DEF TableCompile
<1> QED BY <1>1, <1>2, <1>3, <1>4, <1>5, <1>6, <1>7, <1>8

\* The steps of operators, of time and of Storage keep the types.
LEMMA EnvironmentTypes ==
    ASSUME TypeOK,
           \/ handlePutRule \/ handleDeleteRule \/ handlePutDefault \/ HandEdit
           \/ (\E n \in Node : ExpireClient(n) \/ ExpireDefault(n)) \/ Recover
    PROVE  TypeOK'
<1> USE EmptyRecords
<1>a. UNCHANGED threads => ThreadsOK'
    BY DEF threads, TypeOK, ThreadsOK
<1>b. writes < MaxWrites /\ writes' = writes + 1 => writes' \in 0 .. MaxWrites
    BY ConstantsAssumption DEF TypeOK, StorageOK
<1>c. ASSUME NEW f \in File, Save(f), UNCHANGED <<flaky, caches, threads>>,
             writes' \in 0 .. MaxWrites
      PROVE  TypeOK'
    BY <1>c, <1>a, SaveType DEF TypeOK, StorageOK, CachesOK, HistoryOK, threads, caches
<1>d. ASSUME NEW f \in File, SaveDefault(f), UNCHANGED <<flaky, caches, threads>>,
             writes' \in 0 .. MaxWrites
      PROVE  TypeOK'
    BY <1>d, <1>a, SaveDefaultType
    DEF TypeOK, StorageOK, CachesOK, HistoryOK, threads, caches
<1>1. CASE handlePutRule
    BY <1>1, <1>b, <1>c, ConstantsAssumption DEF handlePutRule
<1>2. CASE handleDeleteRule
    <2>1. seen' \in [Thread -> SUBSET HeldBlob]
        BY <1>2, WatchType DEF handleDeleteRule, TypeOK, HistoryOK
    <2> QED BY <1>2, <2>1, <1>a, <1>b
            DEF handleDeleteRule, TypeOK, StorageOK, CachesOK, HistoryOK, threads, caches
<1>3. CASE handlePutDefault
    <2> PICK f \in DefaultFiles : SaveDefault(Marshal(f))
        BY <1>3 DEF handlePutDefault
    <2>1. Marshal(f) \in File
        BY Encoding, ConstantsAssumption
    <2> QED BY <1>3, <2>1, <1>b, <1>d DEF handlePutDefault
<1>4. CASE HandEdit
    BY <1>4, <1>b, <1>c, <1>d, ConstantsAssumption DEF HandEdit
<1>5. ASSUME NEW n \in Node, ExpireClient(n) \/ ExpireDefault(n)
      PROVE  TypeOK'
    <2>1. ASSUME ExpireClient(n) PROVE CachesOK'
        <3>1. [cache[n] EXCEPT !.fresh = FALSE] \in Entry
            BY Zenon DEF TypeOK, CachesOK, Entry
        <3> QED BY <2>1, <3>1 DEF ExpireClient, TypeOK, CachesOK
    <2>2. ASSUME ExpireDefault(n) PROVE CachesOK'
        <3>1. [dcache[n] EXCEPT !.fresh = FALSE] \in Entry
            BY Zenon DEF TypeOK, CachesOK, Entry
        <3> QED BY <2>2, <3>1 DEF ExpireDefault, TypeOK, CachesOK
    <2> QED BY <1>5, <2>1, <2>2, <1>a
            DEF ExpireClient, ExpireDefault, TypeOK, StorageOK, HistoryOK, storage, threads
<1>6. CASE Recover
    BY Zenon, <1>6, <1>a DEF Recover, TypeOK, StorageOK, CachesOK, HistoryOK, caches, threads
<1> QED BY <1>1, <1>2, <1>3, <1>4, <1>5, <1>6

\* The initial states are well typed.
LEMMA InitTypes == Init => TypeOK
BY EmptyRecords, ConstantsAssumption
DEF Init, TypeOK, StorageOK, CachesOK, ThreadsOK, HistoryOK

\* Each step of the specification keeps the types.
LEMMA NextTypes == TypeOK /\ [Next]_vars => TypeOK'
<1> SUFFICES ASSUME TypeOK, [Next]_vars PROVE TypeOK'
    OBVIOUS
<1>1. CASE Next
    BY <1>1, LookupTypes, TableTypes, EnvironmentTypes DEF Next, Lookup
<1>2. CASE UNCHANGED vars
    BY <1>2 DEF vars, TypeOK, StorageOK, CachesOK, ThreadsOK, HistoryOK
<1> QED BY <1>1, <1>2

\* Type correctness of the engine's caches, locals and answers and of the
\* blobs in Storage, for every fleet.
THEOREM TypeCorrect == Spec => []TypeOK
BY InitTypes, NextTypes, PTL DEF Spec

-----------------------------------------------------------------------------
(* The version check is sound.                                             *)
(*                                                                         *)
(* VersionMeansContent is not inductive: an entry is written from locals   *)
(* that were read several steps earlier.  VersionInv says the same of      *)
(* every pair of a version and a content that a Lookup carries: the entry  *)
(* it copied, the file it loaded after its Stat, and the file it saved.    *)
(* A write of PosixStorage cannot break it because it brings a token       *)
(* nobody holds.  S3 may return to an ETag, so there every such pair must  *)
(* be a content and its own ETag.                                          *)

\* An ETag v stands for what f makes the engine do.
Names(v, f) == Backend = "s3" /\ v \in File => SamePolicy(f, v)

Agree(v, f, b) ==
    /\ b.exists /\ v = b.version => SamePolicy(f, b.file)
    /\ Names(v, f)

EntrySound(e, b) ==
    e.raced \/ (Faithful(e, b) /\ (e.exists => Names(e.version, e.file)))

BlobSound(b) ==
    /\ b.exists <=> b.version # NoVersion
    /\ b.exists /\ Backend = "s3" => b.version = b.file

\* `reading`: the version is already known and the content is not yet.
LocalSound(l, b, reading, minting) ==
    /\ EntrySound(l.old, b)
    /\ reading \/ l.raced \/ Agree(l.ver, l.rf, b)
    /\ minting => Agree(l.mine, l.rf, b)

ThreadSound(t) ==
    /\ LocalSound(loc[t], ip, pc[t] \in {"touch", "miss", "load"}, pc[t] = "restat")
    /\ LocalSound(dloc[t], default, pc[t] \in {"dtouch", "dmiss", "dload"},
                  pc[t] = "drestat")

VersionInv ==
    /\ BlobSound(ip) /\ BlobSound(default)
    /\ \A n \in Node : EntrySound(cache[n], ip) /\ EntrySound(dcache[n], default)
    /\ \A t \in Thread : ThreadSound(t)

\* A thread's step leaves the other threads' locals alone.
Others(t) ==
    \A r \in Thread \ {t} : pc'[r] = pc[r] /\ loc'[r] = loc[r] /\ dloc'[r] = dloc[r]

\* A step of t that writes nothing to Storage keeps VersionInv if t's locals
\* and the caches stay sound.
LEMMA ThreadFrame ==
    ASSUME VersionInv, UNCHANGED storage, NEW t \in Thread, Others(t), ThreadSound(t)',
           \A n \in Node : EntrySound(cache'[n], ip) /\ EntrySound(dcache'[n], default)
    PROVE  VersionInv'
<1>0. ip' = ip /\ default' = default
    BY DEF storage
<1>1. ASSUME NEW r \in Thread PROVE ThreadSound(r)'
    <2>1. CASE r = t
        BY SMTT(30), <2>1
    <2>2. CASE r # t
        BY <1>0, <2>2 DEF Others, ThreadSound, VersionInv
    <2> QED BY <2>1, <2>2
<1> QED BY <1>0, <1>1 DEF VersionInv

\* Locals without a version are sound whatever Storage holds.
LEMMA FreshLocal ==
    ASSUME NEW b, BlobSound(b), NEW l, NEW x,
           EntrySound(l.old, b), l.ver = NoVersion
    PROVE  LocalSound(l, b, x, FALSE)
BY ConstantsAssumption DEF LocalSound, Agree, Names, BlobSound

\* A copy of a sound entry, in a Lookup's locals or back in the cache, is sound.
LEMMA CopySound ==
    ASSUME NEW t \in Thread, NEW e \in Entry, NEW b, EntrySound(e, b)
    PROVE  EntrySound(Copy(e), b) /\ EntrySound(Cached(t, e), b)
<1> DEFINE c == Copy(e)
           d == Cached(t, e)
<1>1. /\ c.raced = e.raced /\ c.exists = e.exists
      /\ c.version = e.version /\ c.file = e.file
    BY EntryCopies
<1>2. /\ d.raced = e.raced /\ d.exists = e.exists
      /\ d.version = e.version /\ d.file = e.file
    BY EntryCopies
<1> HIDE DEF c, d
<1>3. EntrySound(c, b) /\ EntrySound(d, b)
    BY <1>1, <1>2 DEF EntrySound, Faithful
<1> QED BY <1>3 DEF c, d

\* The locals a Lookup starts with are sound.
LEMMA EmptyLocal ==
    ASSUME NEW b, BlobSound(b), NEW x, NEW s
    PROVE  /\ LocalSound(NoLocal, b, x, FALSE)
           /\ LocalSound([NoLocal EXCEPT !.sure = s], b, x, FALSE)
<1>1. EntrySound(NoEntry, b)
    BY DEF EntrySound, Faithful, NoEntry
<1> QED BY <1>1, ConstantsAssumption DEF LocalSound, Agree, Names, NoLocal, BlobSound

\* A Lookup that returns keeps VersionInv.
LEMMA FinishSound ==
    ASSUME TypeOK, VersionInv, UNCHANGED storage, NEW t \in Thread, NEW r, Finish(t, r)
    PROVE  Others(t) /\ ThreadSound(t)'
<1>1. Others(t) /\ loc'[t] = NoLocal /\ dloc'[t] = NoLocal /\ pc'[t] = "idle"
    BY DEF Finish, Others, TypeOK, ThreadsOK
<1>2. ip' = ip /\ default' = default
    BY DEF storage
<1> QED BY Zenon, <1>1, <1>2, EmptyLocal DEF ThreadSound, VersionInv

\* A step of lookupIP that brings sound locals keeps VersionInv.
LEMMA StepSound ==
    ASSUME TypeOK, VersionInv, UNCHANGED storage, NEW t \in Thread, NEW p \in LookupPC,
           NEW l, Step(t, p, l), pc[t] \in {"idle"} \cup LookupPC,
           LocalSound(l, ip, p \in {"touch", "miss", "load"}, p = "restat")
    PROVE  Others(t) /\ ThreadSound(t)'
<1>1. Others(t) /\ loc'[t] = l /\ dloc'[t] = dloc[t] /\ pc'[t] = p
    BY DEF Step, Others, TypeOK, ThreadsOK
<1>2. ip' = ip /\ default' = default
    BY DEF storage
<1>3. /\ pc[t] \notin {"dtouch", "dmiss", "dload"} /\ pc[t] # "drestat"
      /\ p \notin {"dtouch", "dmiss", "dload"} /\ p # "drestat"
    BY DEF LookupPC
<1>4. LocalSound(dloc[t], default, FALSE, FALSE)
    BY <1>3 DEF VersionInv, ThreadSound, LocalSound
<1> QED BY <1>1, <1>2, <1>3, <1>4 DEF ThreadSound, LocalSound

\* So does a step of lookupDefaultTable.
LEMMA TableStepSound ==
    ASSUME TypeOK, VersionInv, UNCHANGED storage, NEW t \in Thread, NEW p \in TablePC,
           NEW l, TableStep(t, p, l), pc[t] \in TablePC,
           LocalSound(l, default, p \in {"dtouch", "dmiss", "dload"}, p = "drestat")
    PROVE  Others(t) /\ ThreadSound(t)'
<1>1. Others(t) /\ dloc'[t] = l /\ loc'[t] = loc[t] /\ pc'[t] = p
    BY DEF TableStep, Others, TypeOK, ThreadsOK
<1>2. ip' = ip /\ default' = default
    BY DEF storage
<1>3. /\ pc[t] \notin {"touch", "miss", "load"} /\ pc[t] # "restat"
      /\ p \notin {"touch", "miss", "load"} /\ p # "restat"
    BY SMTT(30) DEF TablePC
<1>4. LocalSound(loc[t], ip, FALSE, FALSE)
    <2>1. ThreadSound(t)
        BY Zenon DEF VersionInv
    <2> QED BY Zenon, <1>3, <2>1 DEF ThreadSound, LocalSound
<1> QED BY <1>1, <1>2, <1>3, <1>4 DEF ThreadSound, LocalSound

\* So does the call of lookupDefaultTable.
LEMMA AskTableSound ==
    ASSUME TypeOK, VersionInv, UNCHANGED storage, NEW t \in Thread, NEW w, NEW l,
           AskTable(t, w, l), pc[t] \in {"idle"} \cup LookupPC,
           LocalSound(l, ip, FALSE, FALSE)
    PROVE  Others(t) /\ ThreadSound(t)'
<1>1. Others(t) /\ loc'[t] = l /\ dloc'[t] = dloc[t] /\ pc'[t] = "dbegin"
    BY DEF AskTable, Others, TypeOK, ThreadsOK
<1>2. ip' = ip /\ default' = default
    BY DEF storage
<1>3. pc[t] \notin {"dtouch", "dmiss", "dload"} /\ pc[t] # "drestat"
    BY SMTT(30) DEF LookupPC
<1>4. LocalSound(dloc[t], default, FALSE, FALSE)
    BY <1>3 DEF VersionInv, ThreadSound, LocalSound
<1> QED BY <1>1, <1>2, <1>4 DEF ThreadSound, LocalSound

\* Answering from a cached entry (resolveClientCache) keeps VersionInv.
LEMMA ResolveSound ==
    ASSUME TypeOK, VersionInv, UNCHANGED storage, NEW t \in Thread, NEW e, NEW s,
           resolveClientCache(t, e, s), pc[t] \in {"idle"} \cup LookupPC
    PROVE  Others(t) /\ ThreadSound(t)'
<1>1. LocalSound([NoLocal EXCEPT !.sure = s], ip, FALSE, FALSE)
    BY Zenon, EmptyLocal DEF VersionInv
<1> QED BY Zenon, <1>1, FinishSound, AskTableSound DEF resolveClientCache

\* The return of lookupDefaultTable keeps VersionInv.
LEMMA TableReturnsSound ==
    ASSUME TypeOK, VersionInv, UNCHANGED storage, NEW t \in Thread, NEW e, NEW s,
           TableReturns(t, e, s), pc[t] \in TablePC
    PROVE  Others(t) /\ ThreadSound(t)'
<1>1. CASE want[t] = "egress"
    <2> DEFINE x == IF e.exists THEN BucketEgress(e.file) ELSE "empty"
               l == [loc[t] EXCEPT !.egress = x]
    <2>1. Others(t) /\ loc'[t] = l /\ dloc'[t] = NoLocal /\ pc'[t] = "publish"
        BY <1>1 DEF TableReturns, Others, TypeOK, ThreadsOK
    <2>2. ip' = ip /\ default' = default
        BY DEF storage
    <2>3. pc[t] \notin {"touch", "miss", "load"} /\ pc[t] # "restat"
        BY SMTT(30) DEF TablePC
    <2>4. LocalSound(loc[t], ip, FALSE, FALSE)
        BY <2>3 DEF VersionInv, ThreadSound, LocalSound
    <2> HIDE DEF x
    <2>5. l.old = loc[t].old /\ l.ver = loc[t].ver /\ l.rf = loc[t].rf
          /\ l.raced = loc[t].raced
        BY DEF TypeOK, ThreadsOK, Local
    <2>6. LocalSound(l, ip, FALSE, FALSE)
        BY <2>4, <2>5 DEF LocalSound
    <2>7. LocalSound(NoLocal, default, FALSE, FALSE)
        BY Zenon, EmptyLocal DEF VersionInv
    <2> HIDE DEF l
    <2> QED BY <2>1, <2>2, <2>6, <2>7 DEF ThreadSound, LocalSound
<1>2. CASE want[t] # "egress"
    BY <1>2, FinishSound DEF TableReturns
<1> QED BY <1>1, <1>2

\* A Storage write is sound for everything held before it: its token is new.
LEMMA SaveSound ==
    ASSUME TypeOK, VersionInv, NEW f \in File, Save(f)
    PROVE  /\ ip'.file = f /\ BlobSound(ip') /\ Names(ip'.version, f)
           /\ \A n \in Node : EntrySound(cache[n], ip')
           /\ \A t \in Thread :
                 /\ EntrySound(loc[t].old, ip')
                 /\ Agree(loc[t].ver, loc[t].rf, ip)
                        => Agree(loc[t].ver, loc[t].rf, ip')
                 /\ Agree(loc[t].mine, loc[t].rf, ip)
                        => Agree(loc[t].mine, loc[t].rf, ip')
<1>0. PICK v \in NewVersions(f, ip, cache, loc) :
          ip' = [exists |-> TRUE, version |-> v, file |-> f]
    BY Zenon DEF Save
<1>a. /\ \A n \in Node : EntrySound(cache[n], ip)
      /\ \A t \in Thread : EntrySound(loc[t].old, ip)
    BY Zenon DEF VersionInv, ThreadSound, LocalSound
<1>1. CASE Backend = "s3"
    <2>1. v = f /\ v # NoVersion
        BY <1>0, <1>1, ConstantsAssumption DEF NewVersions
    <2>2. ASSUME NEW g, NEW w, Agree(w, g, ip) PROVE Agree(w, g, ip')
        BY <1>0, <1>1, <2>1, <2>2 DEF Agree, Names
    <2>3. ASSUME NEW e, EntrySound(e, ip) PROVE EntrySound(e, ip')
        BY <1>0, <1>1, <2>1, <2>3 DEF EntrySound, Faithful, Names
    <2>4. BlobSound(ip') /\ Names(v, f)
        BY <1>0, <2>1 DEF BlobSound, Names, SamePolicy
    <2> QED BY ZenonT(30), <1>0, <1>a, <2>2, <2>3, <2>4
<1>2. CASE Backend # "s3"
    <2>1. v \in Stamp /\ v \notin Tokens(ip, cache, loc)
        BY <1>0, <1>2, UnusedIsNew DEF NewVersions
    <2>2. \A n \in Node : cache[n].version # v
        BY <2>1 DEF Tokens
    <2>3. \A t \in Thread : /\ loc[t].old.version # v /\ loc[t].ver # v
                            /\ loc[t].mine # v
        BY <2>1 DEF Tokens
    <2>4. BlobSound(ip')
        BY SMTT(30), <1>0, <1>2, <2>1, ConstantsAssumption DEF BlobSound
    <2> QED BY <1>0, <1>2, <2>1, <2>2, <2>3, <2>4
            DEF EntrySound, Faithful, Agree, Names
<1> QED BY <1>1, <1>2

\* So is a write of rules/default.
LEMMA SaveDefaultSound ==
    ASSUME TypeOK, VersionInv, NEW f \in File, SaveDefault(f)
    PROVE  /\ default'.file = f /\ BlobSound(default') /\ Names(default'.version, f)
           /\ \A n \in Node : EntrySound(dcache[n], default')
           /\ \A t \in Thread :
                 /\ EntrySound(dloc[t].old, default')
                 /\ Agree(dloc[t].ver, dloc[t].rf, default)
                        => Agree(dloc[t].ver, dloc[t].rf, default')
                 /\ Agree(dloc[t].mine, dloc[t].rf, default)
                        => Agree(dloc[t].mine, dloc[t].rf, default')
<1>0. PICK v \in NewVersions(f, default, dcache, dloc) :
          default' = [exists |-> TRUE, version |-> v, file |-> f]
    BY Zenon DEF SaveDefault
<1>a. /\ \A n \in Node : EntrySound(dcache[n], default)
      /\ \A t \in Thread : EntrySound(dloc[t].old, default)
    BY DEF VersionInv, ThreadSound, LocalSound
<1>1. CASE Backend = "s3"
    <2>1. v = f /\ v # NoVersion
        BY <1>0, <1>1, ConstantsAssumption DEF NewVersions
    <2>2. ASSUME NEW g, NEW w, Agree(w, g, default) PROVE Agree(w, g, default')
        BY <1>0, <1>1, <2>1, <2>2 DEF Agree, Names
    <2>3. ASSUME NEW e, EntrySound(e, default) PROVE EntrySound(e, default')
        BY <1>0, <1>1, <2>1, <2>3 DEF EntrySound, Faithful, Names
    <2>4. BlobSound(default') /\ Names(v, f)
        BY <1>0, <2>1 DEF BlobSound, Names, SamePolicy
    <2> QED BY Zenon, <1>0, <1>a, <2>2, <2>3, <2>4
<1>2. CASE Backend # "s3"
    <2>1. v \in Stamp /\ v \notin Tokens(default, dcache, dloc)
        BY <1>0, <1>2, UnusedIsNew DEF NewVersions
    <2>2. \A n \in Node : dcache[n].version # v
        BY <2>1 DEF Tokens
    <2>3. \A t \in Thread : /\ dloc[t].old.version # v /\ dloc[t].ver # v
                            /\ dloc[t].mine # v
        BY <2>1 DEF Tokens
    <2>4. BlobSound(default')
        BY <1>0, <1>2, <2>1, ConstantsAssumption DEF BlobSound
    <2> QED BY <1>0, <1>2, <2>1, <2>2, <2>3, <2>4
            DEF EntrySound, Faithful, Agree, Names
<1> QED BY <1>1, <1>2

\* Every step of Lookup and lookupIP keeps VersionInv.
LEMMA LookupSound ==
    ASSUME TypeOK, VersionInv, NEW t \in Thread,
           \/ LookupBegin(t) \/ LookupStat(t) \/ touchClientCache(t) \/ LookupMiss(t)
           \/ LookupLoad(t) \/ LookupSave(t) \/ LookupRestat(t) \/ LookupCompile(t)
           \/ LookupPublish(t)
    PROVE  VersionInv'
<1>a. /\ node(t) \in Node /\ loc[t] \in Local /\ cache[node(t)] \in Entry
      /\ loc[t].old \in Entry /\ loc[t].rf \in File
    BY ConstantsAssumption DEF TypeOK, CachesOK, ThreadsOK, node, Local
<1>b. ThreadSound(t) /\ BlobSound(ip)
    BY SMTT(30) DEF VersionInv
<1>c. UNCHANGED caches =>
          \A n \in Node : EntrySound(cache'[n], ip) /\ EntrySound(dcache'[n], default)
    BY DEF VersionInv, caches
<1>d. ASSUME NEW e \in Entry, EntrySound(e, ip),
             cache' = [cache EXCEPT ![node(t)] = Cached(t, e)], dcache' = dcache
      PROVE  \A n \in Node : EntrySound(cache'[n], ip) /\ EntrySound(dcache'[n], default)
    <2>1. EntrySound(Cached(t, e), ip)
        BY <1>d, CopySound
    <2> QED BY <1>a, <1>d, <2>1 DEF VersionInv, TypeOK, CachesOK
<1>f. LookupPC = {"stat", "touch", "miss", "load", "save", "restat", "compile", "publish"}
    BY DEF LookupPC
<1>1. CASE LookupBegin(t)
    <2> DEFINE e == cache[node(t)]
    <2>0. UNCHANGED storage /\ UNCHANGED caches /\ pc[t] = "idle"
        BY <1>1 DEF LookupBegin
    <2>1. CASE resolveClientCache(t, e, FALSE)
        BY Zenon, <2>0, <2>1, <1>c, ResolveSound, ThreadFrame
    <2>2. CASE AskTable(t, "bucket", NoLocal)
        <3>1. LocalSound(NoLocal, ip, FALSE, FALSE)
            BY Zenon, <1>b, EmptyLocal
        <3> QED BY Zenon, <2>0, <2>2, <3>1, <1>c, AskTableSound, ThreadFrame
    <2>3. CASE Step(t, "stat", [NoLocal EXCEPT !.old = Copy(e)])
        <3> DEFINE l == [NoLocal EXCEPT !.old = Copy(e)]
        <3>0. EntrySound(e, ip)
            BY Zenon, <1>a DEF VersionInv
        <3>1. EntrySound(Copy(e), ip)
            BY <1>a, <3>0, CopySound
        <3>2. l.old = Copy(e) /\ l.ver = NoVersion
            BY SMTT(30) DEF NoLocal
        <3> HIDE DEF l
        <3>3. LocalSound(l, ip, FALSE, FALSE)
            BY Zenon, <1>b, <3>1, <3>2, FreshLocal
        <3>4. LocalSound(l, ip, "stat" \in {"touch", "miss", "load"}, "stat" = "restat")
            BY <3>3 DEF LocalSound
        <3>5. Step(t, "stat", l) /\ "stat" \in LookupPC
            BY <2>3, <1>f DEF l
        <3> QED BY <2>0, <3>4, <3>5, <1>c, StepSound, ThreadFrame
    <2> QED BY Zenon, <1>1, <2>1, <2>2, <2>3 DEF LookupBegin
<1>2. CASE LookupStat(t)
    <2> DEFINE l == [loc[t] EXCEPT !.ver = ip.version]
    <2>0. UNCHANGED storage /\ UNCHANGED caches /\ pc[t] = "stat" /\ pc[t] \in LookupPC
        BY <1>2, <1>f DEF LookupStat
    <2>1. CASE resolveClientCache(t, loc[t].old, FALSE)
        BY Zenon, <2>0, <2>1, <1>c, ResolveSound, ThreadFrame
    <2>2. CASE Finish(t, Error)
        BY <2>0, <2>2, <1>c, FinishSound, ThreadFrame
    <2>3. ASSUME NEW p \in {"touch", "miss", "load"}, Step(t, p, l)
          PROVE  VersionInv'
        <3>1. l.old = loc[t].old
            BY <1>a DEF Local
        <3>2. LocalSound(l, ip, TRUE, FALSE)
            BY <1>b, <3>1 DEF ThreadSound, LocalSound
        <3> HIDE DEF l
        <3>3. LocalSound(l, ip, p \in {"touch", "miss", "load"}, p = "restat")
            BY <3>2 DEF LocalSound
        <3> QED BY Zenon, <2>0, <2>3, <3>3, <1>c, <1>f, StepSound, ThreadFrame
    <2> QED BY Zenon, <1>2, <2>1, <2>2, <2>3 DEF LookupStat
<1>3. CASE touchClientCache(t)
    <2>t. UNCHANGED storage /\ pc[t] = "touch" /\ dcache' = dcache
        BY Zenon, <1>3 DEF touchClientCache
    <2>0. UNCHANGED storage /\ pc[t] \in LookupPC /\ dcache' = dcache
        BY <2>t, <1>f
    <2>1. EntrySound(loc[t].old, ip)
        BY Zenon, <1>b DEF ThreadSound, LocalSound
    <2> QED BY Zenon, <1>3, <2>0, <2>1, <1>a, <1>d, ResolveSound, ThreadFrame
            DEF touchClientCache
<1>4. CASE LookupMiss(t)
    <2> DEFINE e == [NoEntry EXCEPT !.version = loc[t].ver]
    <2>0. UNCHANGED storage /\ pc[t] \in LookupPC /\ dcache' = dcache
        BY <1>4, <1>f DEF LookupMiss
    <2>1. e \in Entry
        BY <1>a, EmptyRecords DEF Entry, Local
    <2>2. EntrySound(e, ip)
        BY DEF EntrySound, Faithful, NoEntry
    <2>3. /\ cache' = [cache EXCEPT ![node(t)] = Cached(t, e)]
          /\ resolveClientCache(t, e, TRUE)
        BY ZenonT(30), <1>4 DEF LookupMiss
    <2> HIDE DEF e
    <2> QED BY Zenon, <2>0, <2>1, <2>2, <2>3, <1>d, ResolveSound, ThreadFrame
<1>5. CASE LookupLoad(t)
    <2> DEFINE x == Skewed(loc[t].ver, ip)
               l == [loc[t] EXCEPT !.rf = ip.file, !.raced = x]
    <2>0. UNCHANGED storage /\ UNCHANGED caches /\ pc[t] = "load" /\ pc[t] \in LookupPC
        BY <1>5, <1>f DEF LookupLoad
    <2>1. CASE Finish(t, Error)
        BY <2>0, <2>1, <1>c, FinishSound, ThreadFrame
    <2>2. ASSUME NEW p \in {"save", "compile"}, Step(t, p, l)
          PROVE  VersionInv'
        <3>0. x \/ Agree(loc[t].ver, ip.file, ip)
            BY <1>b, ConstantsAssumption DEF Skewed, Agree, Names, BlobSound, SamePolicy
        <3>a. x \in BOOLEAN
            BY DEF Skewed
        <3> HIDE DEF x
        <3>1. /\ l.old = loc[t].old /\ l.rf = ip.file /\ l.ver = loc[t].ver
              /\ l.raced = x
            BY <1>a, <3>a DEF Local
        <3>2. LocalSound(l, ip, FALSE, FALSE)
            BY <1>b, <3>0, <3>1 DEF ThreadSound, LocalSound
        <3> HIDE DEF l
        <3>3. LocalSound(l, ip, p \in {"touch", "miss", "load"}, p = "restat")
            BY SMTT(30), <3>2 DEF LocalSound
        <3> QED BY ZenonT(30), <2>0, <2>2, <3>3, <1>c, <1>f, StepSound, ThreadFrame
    <2> QED BY <1>5, <2>1, <2>2 DEF LookupLoad
<1>7. CASE LookupRestat(t)
    <2> DEFINE l == [loc[t] EXCEPT !.mine = NoVersion]
               b == ip.version # loc[t].mine
               m == [l EXCEPT !.ver = ip.version, !.raced = b]
    <2>0. UNCHANGED storage /\ UNCHANGED caches /\ pc[t] = "restat" /\ pc[t] \in LookupPC
        BY <1>7, <1>f DEF LookupRestat
    <2>1. LocalSound(loc[t], ip, FALSE, TRUE)
        BY <1>b, <2>0 DEF ThreadSound, LocalSound
    <2>2. /\ l.old = loc[t].old /\ l.rf = loc[t].rf /\ l.raced = loc[t].raced
          /\ l.ver = loc[t].ver
        BY <1>a DEF Local
    <2>3. LocalSound(l, ip, FALSE, FALSE)
        BY <2>1, <2>2 DEF LocalSound
    <2>4. b \in BOOLEAN
        OBVIOUS
    <2>5. Step(t, "compile", l) \/ Step(t, "compile", m)
        BY SMTT(30), <1>7 DEF LookupRestat
    <2>6. ~b => Agree(ip.version, loc[t].rf, ip)
        BY <2>1 DEF LocalSound
    <2> HIDE DEF b
    <2>7. m.old = loc[t].old /\ m.rf = loc[t].rf /\ m.raced = b /\ m.ver = ip.version
        BY <1>a DEF Local
    <2>8. LocalSound(m, ip, FALSE, FALSE)
        BY SMTT(30), <2>1, <2>4, <2>6, <2>7 DEF LocalSound
    <2> HIDE DEF l, m
    <2>9. ASSUME NEW x, LocalSound(x, ip, FALSE, FALSE)
          PROVE  LocalSound(x, ip, "compile" \in {"touch", "miss", "load"},
                            "compile" = "restat")
        BY <2>9 DEF LocalSound
    <2> QED BY Zenon, <2>0, <2>3, <2>5, <2>8, <2>9, <1>c, <1>f, StepSound, ThreadFrame
<1>8. CASE LookupCompile(t)
    <2> DEFINE l == loc[t]
               e == [NoEntry EXCEPT !.version = l.ver, !.exists = TRUE, !.file = l.rf,
                                    !.egress = l.old.egress, !.raced = l.raced]
    <2>0. /\ UNCHANGED storage /\ dcache' = dcache /\ pc[t] = "compile" /\ pc[t] \in LookupPC
        BY SMTT(30), <1>8, <1>f DEF LookupCompile
    <2>1. LocalSound(l, ip, FALSE, FALSE)
        BY <1>b, <2>0 DEF ThreadSound, LocalSound
    <2>2. CASE /\ cache' = [cache EXCEPT ![node(t)] = Cached(t, e)]
               /\ Finish(t, Answer(t, "override", e.file, e.egress, ~e.raced))
        <3>1. e \in Entry
            BY Zenon, <1>a, EmptyRecords DEF Entry, Local
        <3>2. e.version = l.ver /\ e.exists = TRUE /\ e.file = l.rf /\ e.raced = l.raced
            BY DEF NoEntry
        <3> HIDE DEF e
        <3>3. EntrySound(e, ip)
            BY Zenon, <2>1, <3>2 DEF LocalSound, Agree, EntrySound, Faithful
        <3> QED BY Zenon, <2>0, <2>2, <3>1, <3>3, <1>d, FinishSound, ThreadFrame
    <2>3. CASE Finish(t, Error) /\ UNCHANGED cache
        BY Zenon, <2>0, <2>3, <1>c, FinishSound, ThreadFrame DEF caches
    <2>a. EntrySound(NoEntry, ip)
        BY DEF EntrySound, Faithful, NoEntry
    <2>4. CASE /\ Step(t, "publish", [l EXCEPT !.old = NoEntry, !.egress = l.rf.egress])
               /\ UNCHANGED <<cache, pending>>
        <3> DEFINE m == [l EXCEPT !.old = NoEntry, !.egress = l.rf.egress]
        <3>1. m.old = NoEntry /\ m.ver = l.ver /\ m.rf = l.rf /\ m.raced = l.raced
            BY SMTT(30), <1>a DEF Local
        <3> HIDE DEF m
        <3>2. LocalSound(m, ip, "publish" \in {"touch", "miss", "load"},
                         "publish" = "restat")
            BY <2>1, <2>a, <3>1 DEF LocalSound
        <3>3. Step(t, "publish", m) /\ "publish" \in LookupPC
            BY <2>4, <1>f DEF m
        <3> QED BY <2>0, <2>4, <3>2, <3>3, <1>c, StepSound, ThreadFrame DEF caches
    <2>5. CASE /\ AskTable(t, "egress", [l EXCEPT !.old = NoEntry])
               /\ UNCHANGED <<cache, pending>>
        <3> DEFINE m == [l EXCEPT !.old = NoEntry]
        <3>1. m.old = NoEntry /\ m.ver = l.ver /\ m.rf = l.rf /\ m.raced = l.raced
            BY <1>a DEF Local
        <3> HIDE DEF m
        <3>2. LocalSound(m, ip, FALSE, FALSE)
            BY <2>1, <2>a, <3>1 DEF LocalSound
        <3>3. AskTable(t, "egress", m)
            BY <2>5 DEF m
        <3> QED BY Zenon, <2>0, <2>5, <3>2, <3>3, <1>c, AskTableSound, ThreadFrame DEF caches
    <2> QED BY <1>8, <2>2, <2>3, <2>4, <2>5 DEF LookupCompile
<1>9. CASE LookupPublish(t)
    <2> DEFINE l == loc[t]
               e == [NoEntry EXCEPT !.version = l.ver, !.exists = TRUE, !.file = l.rf,
                                    !.egress = l.egress, !.raced = l.raced]
    <2>0. /\ UNCHANGED storage /\ dcache' = dcache /\ pc[t] = "publish"
          /\ cache' = [cache EXCEPT ![node(t)] = Cached(t, e)]
          /\ Finish(t, Answer(t, "override", e.file, e.egress, ~e.raced))
        BY <1>9 DEF LookupPublish
    <2>1. LocalSound(l, ip, FALSE, FALSE)
        BY <1>b, <2>0 DEF ThreadSound, LocalSound
    <2>2. e \in Entry
        BY Zenon, <1>a, EmptyRecords DEF Entry, Local
    <2>3. e.version = l.ver /\ e.exists = TRUE /\ e.file = l.rf /\ e.raced = l.raced
        BY DEF NoEntry
    <2> HIDE DEF e
    <2>4. EntrySound(e, ip)
        BY <2>1, <2>3 DEF LocalSound, Agree, EntrySound, Faithful
    <2> QED BY Zenon, <2>0, <2>2, <2>4, <1>d, FinishSound, ThreadFrame
<1>6. CASE LookupSave(t)
    <2> PICK u \in Unused(Uuid, UsedUuids) :
            LET f == [loc[t].rf EXCEPT !.uuid = u] IN
            /\ \/ /\ Step(t, "compile", [loc[t] EXCEPT !.rf = f])
                  /\ UNCHANGED <<ip, default, seen, dseen>>
               \/ /\ Save(Marshal(f))
                  /\ Step(t, "restat", [loc[t] EXCEPT !.rf = f, !.mine = ip'.version])
            /\ UNCHANGED <<flaky, writes, caches, result>>
        BY Zenon, <1>6 DEF LookupSave
    <2> DEFINE f == [loc[t].rf EXCEPT !.uuid = u]
    <2>0. pc[t] = "save" /\ pc[t] \in LookupPC /\ UNCHANGED caches
        BY Zenon, <1>6, <1>f DEF LookupSave
    <2>1. f \in File /\ Marshal(f) \in File /\ SamePolicy(f, loc[t].rf)
          /\ SamePolicy(f, Marshal(f))
        BY <1>a, MintType, Encoding
    <2> HIDE DEF f
    <2>2. CASE Step(t, "compile", [loc[t] EXCEPT !.rf = f])
               /\ UNCHANGED <<ip, default, seen, dseen>>
        <3> DEFINE m == [loc[t] EXCEPT !.rf = f]
        <3>1. m.old = loc[t].old /\ m.ver = loc[t].ver /\ m.rf = f /\ m.raced = loc[t].raced
            BY <1>a DEF Local
        <3>2. Step(t, "compile", m) /\ "compile" \in LookupPC
            BY <2>2, <1>f
        <3> HIDE DEF m
        <3>3. Agree(loc[t].ver, loc[t].rf, ip) => Agree(m.ver, m.rf, ip)
            BY <2>1, <3>1 DEF Agree, Names, SamePolicy
        <3>4. LocalSound(m, ip, "compile" \in {"touch", "miss", "load"},
                         "compile" = "restat")
            BY <1>b, <2>0, <3>1, <3>3 DEF ThreadSound, LocalSound
        <3>5. UNCHANGED storage
            BY <2>2 DEF storage
        <3> QED BY <2>0, <3>2, <3>4, <3>5, <1>c, StepSound, ThreadFrame
    <2>3. CASE /\ Save(Marshal(f))
               /\ Step(t, "restat", [loc[t] EXCEPT !.rf = f, !.mine = ip'.version])
        <3> DEFINE m == [loc[t] EXCEPT !.rf = f, !.mine = ip'.version]
        <3>0. default' = default
            BY <2>3 DEF Save
        <3>1. /\ m.old = loc[t].old /\ m.ver = loc[t].ver /\ m.rf = f
              /\ m.mine = ip'.version /\ m.raced = loc[t].raced
            BY <1>a DEF Local
        <3>2. /\ Others(t) /\ loc'[t] = m /\ pc'[t] = "restat" /\ dloc'[t] = dloc[t]
            BY SMTT(30), <2>3 DEF Step, Others, TypeOK, ThreadsOK
        <3> HIDE DEF m
        <3>3. Agree(m.mine, m.rf, ip')
            BY <2>1, <2>3, <3>1, SaveSound DEF Agree, Names, SamePolicy
        <3>4. EntrySound(m.old, ip')
            BY <2>1, <2>3, <3>1, SaveSound
        <3>5. m.raced \/ Agree(m.ver, m.rf, ip')
            <4>1. m.raced \/ Agree(loc[t].ver, loc[t].rf, ip)
                BY <1>b, <2>0, <3>1 DEF ThreadSound, LocalSound
            <4>2. m.raced \/ Agree(loc[t].ver, loc[t].rf, ip')
                BY <2>1, <2>3, <4>1, SaveSound
            <4> QED BY <2>1, <3>1, <4>2 DEF Agree, Names, SamePolicy
        <3>6. ASSUME NEW r \in Thread PROVE ThreadSound(r)'
            <4>1. CASE r = t
                BY <3>0, <3>2, <3>3, <3>4, <3>5, <4>1, <2>0, <1>b
                DEF ThreadSound, LocalSound, VersionInv
            <4>2. CASE r # t
                BY <3>0, <3>2, <4>2, <2>1, <2>3, SaveSound
                DEF Others, ThreadSound, LocalSound, VersionInv
            <4> QED BY <4>1, <4>2
        <3>7. \A n \in Node : EntrySound(cache[n], ip')
            BY <2>1, <2>3, SaveSound
        <3>8. BlobSound(ip')
            BY <2>1, <2>3, SaveSound
        <3> QED BY <2>0, <3>0, <3>6, <3>7, <3>8 DEF VersionInv, caches
    <2> QED BY <2>2, <2>3 DEF f
<1> QED BY <1>1, <1>2, <1>3, <1>4, <1>5, <1>6, <1>7, <1>8, <1>9

\* Every step of lookupDefaultTable keeps VersionInv.
LEMMA TableSound ==
    ASSUME TypeOK, VersionInv, NEW t \in Thread,
           \/ TableBegin(t) \/ TableStat(t) \/ TableTouch(t) \/ TableMiss(t)
           \/ TableLoad(t) \/ TableSave(t) \/ TableRestat(t) \/ TableCompile(t)
    PROVE  VersionInv'
<1>a. /\ node(t) \in Node /\ dloc[t] \in Local /\ dcache[node(t)] \in Entry
      /\ dloc[t].old \in Entry /\ dloc[t].rf \in File
    BY SMTT(30), ConstantsAssumption DEF TypeOK, CachesOK, ThreadsOK, node, Local
<1>b. ThreadSound(t) /\ BlobSound(default)
    BY Zenon DEF VersionInv
<1>c. UNCHANGED caches =>
          \A n \in Node : EntrySound(cache'[n], ip) /\ EntrySound(dcache'[n], default)
    BY DEF VersionInv, caches
<1>d. ASSUME NEW e \in Entry, EntrySound(e, default),
             dcache' = [dcache EXCEPT ![node(t)] = Cached(t, e)], cache' = cache
      PROVE  \A n \in Node : EntrySound(cache'[n], ip) /\ EntrySound(dcache'[n], default)
    <2>1. EntrySound(Cached(t, e), default)
        BY <1>d, CopySound
    <2> QED BY <1>a, <1>d, <2>1 DEF VersionInv, TypeOK, CachesOK
<1>f. TablePC = {"dbegin", "dstat", "dtouch", "dmiss", "dload", "dsave", "drestat",
                 "dcompile"}
    BY DEF TablePC
<1>1. CASE TableBegin(t)
    <2> DEFINE e == dcache[node(t)]
    <2>0. UNCHANGED storage /\ UNCHANGED caches /\ pc[t] = "dbegin" /\ pc[t] \in TablePC
        BY <1>1, <1>f DEF TableBegin
    <2>1. CASE TableReturns(t, e, FALSE)
        BY Zenon, <2>0, <2>1, <1>c, TableReturnsSound, ThreadFrame
    <2>2. CASE TableStep(t, "dstat", [NoLocal EXCEPT !.old = Copy(e)])
        <3> DEFINE l == [NoLocal EXCEPT !.old = Copy(e)]
        <3>0. EntrySound(e, default)
            BY Zenon, <1>a DEF VersionInv
        <3>1. EntrySound(Copy(e), default)
            BY Zenon, <1>a, <3>0, CopySound
        <3>2. l.old = Copy(e) /\ l.ver = NoVersion
            BY SMTT(30) DEF NoLocal
        <3> HIDE DEF l
        <3>3. LocalSound(l, default, FALSE, FALSE)
            BY Zenon, <1>b, <3>1, <3>2, FreshLocal
        <3>4. LocalSound(l, default, "dstat" \in {"dtouch", "dmiss", "dload"},
                         "dstat" = "drestat")
            BY SMTT(30), <3>3 DEF LocalSound
        <3>5. TableStep(t, "dstat", l) /\ "dstat" \in TablePC
            BY <2>2, <1>f DEF l
        <3> QED BY Zenon, <2>0, <3>4, <3>5, <1>c, TableStepSound, ThreadFrame
    <2> QED BY Zenon, <1>1, <2>1, <2>2 DEF TableBegin
<1>2. CASE TableStat(t)
    <2> DEFINE l == [dloc[t] EXCEPT !.ver = default.version]
    <2>0. UNCHANGED storage /\ UNCHANGED caches /\ pc[t] = "dstat" /\ pc[t] \in TablePC
        BY <1>2, <1>f DEF TableStat
    <2>1. CASE TableReturns(t, dloc[t].old, FALSE)
        BY Zenon, <2>0, <2>1, <1>c, TableReturnsSound, ThreadFrame
    <2>2. CASE Finish(t, Error)
        BY <2>0, <2>2, <1>c, FinishSound, ThreadFrame
    <2>3. ASSUME NEW p \in {"dtouch", "dmiss", "dload"}, TableStep(t, p, l)
          PROVE  VersionInv'
        <3>1. l.old = dloc[t].old
            BY <1>a DEF Local
        <3>2. LocalSound(l, default, TRUE, FALSE)
            BY SMTT(30), <1>b, <3>1 DEF ThreadSound, LocalSound
        <3> HIDE DEF l
        <3>3. LocalSound(l, default, p \in {"dtouch", "dmiss", "dload"}, p = "drestat")
            BY <3>2 DEF LocalSound
        <3> QED BY Zenon, <2>0, <2>3, <3>3, <1>c, <1>f, TableStepSound, ThreadFrame
    <2> QED BY Zenon, <1>2, <2>1, <2>2, <2>3 DEF TableStat
<1>3. CASE TableTouch(t)
    <2>0. UNCHANGED storage /\ pc[t] \in TablePC /\ cache' = cache
        BY <1>3, <1>f DEF TableTouch
    <2>1. EntrySound(dloc[t].old, default)
        BY Zenon, <1>b DEF ThreadSound, LocalSound
    <2> QED BY ZenonT(30), <1>3, <2>0, <2>1, <1>a, <1>d, TableReturnsSound, ThreadFrame
            DEF TableTouch
<1>4. CASE TableMiss(t)
    <2> DEFINE e == [NoEntry EXCEPT !.version = dloc[t].ver]
    <2>0. UNCHANGED storage /\ pc[t] \in TablePC /\ cache' = cache
        BY <1>4, <1>f DEF TableMiss
    <2>1. e \in Entry
        BY <1>a, EmptyRecords DEF Entry, Local
    <2>2. EntrySound(e, default)
        BY DEF EntrySound, Faithful, NoEntry
    <2>3. /\ dcache' = [dcache EXCEPT ![node(t)] = Cached(t, e)]
          /\ TableReturns(t, e, TRUE)
        BY ZenonT(30), <1>4 DEF TableMiss
    <2> HIDE DEF e
    <2> QED BY Zenon, <2>0, <2>1, <2>2, <2>3, <1>d, TableReturnsSound, ThreadFrame
<1>5. CASE TableLoad(t)
    <2> DEFINE x == Skewed(dloc[t].ver, default)
               l == [dloc[t] EXCEPT !.old = NoEntry, !.rf = default.file, !.raced = x]
    <2>0. UNCHANGED storage /\ UNCHANGED caches /\ pc[t] = "dload" /\ pc[t] \in TablePC
        BY <1>5, <1>f DEF TableLoad
    <2>1. CASE Finish(t, Error)
        BY <2>0, <2>1, <1>c, FinishSound, ThreadFrame
    <2>2. ASSUME NEW p \in {"dsave", "dcompile"}, TableStep(t, p, l)
          PROVE  VersionInv'
        <3>0. x \/ Agree(dloc[t].ver, default.file, default)
            BY <1>b, ConstantsAssumption DEF Skewed, Agree, Names, BlobSound, SamePolicy
        <3>a. x \in BOOLEAN
            BY DEF Skewed
        <3> HIDE DEF x
        <3>1. /\ l.old = NoEntry /\ l.rf = default.file /\ l.ver = dloc[t].ver
              /\ l.raced = x
            BY <1>a, <3>a DEF Local
        <3>2. EntrySound(NoEntry, default)
            BY SMTT(30) DEF EntrySound, Faithful, NoEntry
        <3> HIDE DEF l
        <3>3. LocalSound(l, default, p \in {"dtouch", "dmiss", "dload"}, p = "drestat")
            BY <3>0, <3>1, <3>2 DEF LocalSound
        <3> QED BY ZenonT(30), <2>0, <2>2, <3>3, <1>c, <1>f, TableStepSound, ThreadFrame
    <2> QED BY <1>5, <2>1, <2>2 DEF TableLoad
<1>6. CASE TableSave(t)
    <2> PICK u \in Unused(Uuid, UsedUuids) :
            LET f == [dloc[t].rf EXCEPT !.uuid = u] IN
            /\ \/ /\ TableStep(t, "dcompile", [dloc[t] EXCEPT !.rf = f])
                  /\ UNCHANGED <<ip, default, seen, dseen>>
               \/ /\ SaveDefault(Marshal(f))
                  /\ TableStep(t, "drestat",
                               [dloc[t] EXCEPT !.rf = f, !.mine = default'.version])
            /\ UNCHANGED <<flaky, writes, caches, result>>
        BY Zenon, <1>6 DEF TableSave
    <2> DEFINE f == [dloc[t].rf EXCEPT !.uuid = u]
    <2>0. pc[t] = "dsave" /\ pc[t] \in TablePC /\ UNCHANGED caches
        BY Zenon, <1>6, <1>f DEF TableSave
    <2>1. f \in File /\ Marshal(f) \in File /\ SamePolicy(f, dloc[t].rf)
          /\ SamePolicy(f, Marshal(f))
        BY <1>a, MintType, Encoding
    <2> HIDE DEF f
    <2>2. CASE TableStep(t, "dcompile", [dloc[t] EXCEPT !.rf = f])
               /\ UNCHANGED <<ip, default, seen, dseen>>
        <3> DEFINE m == [dloc[t] EXCEPT !.rf = f]
        <3>1. /\ m.old = dloc[t].old /\ m.ver = dloc[t].ver /\ m.rf = f
              /\ m.raced = dloc[t].raced
            BY <1>a DEF Local
        <3>2. TableStep(t, "dcompile", m) /\ "dcompile" \in TablePC
            BY <2>2, <1>f
        <3> HIDE DEF m
        <3>3. Agree(dloc[t].ver, dloc[t].rf, default) => Agree(m.ver, m.rf, default)
            BY <2>1, <3>1 DEF Agree, Names, SamePolicy
        <3>4. LocalSound(m, default, "dcompile" \in {"dtouch", "dmiss", "dload"},
                         "dcompile" = "drestat")
            BY <1>b, <2>0, <3>1, <3>3 DEF ThreadSound, LocalSound
        <3>5. UNCHANGED storage
            BY <2>2 DEF storage
        <3> QED BY <2>0, <3>2, <3>4, <3>5, <1>c, TableStepSound, ThreadFrame
    <2>3. CASE /\ SaveDefault(Marshal(f))
               /\ TableStep(t, "drestat",
                            [dloc[t] EXCEPT !.rf = f, !.mine = default'.version])
        <3> DEFINE m == [dloc[t] EXCEPT !.rf = f, !.mine = default'.version]
        <3>0. ip' = ip
            BY <2>3 DEF SaveDefault
        <3>1. /\ m.old = dloc[t].old /\ m.ver = dloc[t].ver /\ m.rf = f
              /\ m.mine = default'.version /\ m.raced = dloc[t].raced
            BY <1>a DEF Local
        <3>2. /\ Others(t) /\ dloc'[t] = m /\ pc'[t] = "drestat" /\ loc'[t] = loc[t]
            BY <2>3 DEF TableStep, Others, TypeOK, ThreadsOK
        <3> HIDE DEF m
        <3>3. Agree(m.mine, m.rf, default')
            BY <2>1, <2>3, <3>1, SaveDefaultSound DEF Agree, Names, SamePolicy
        <3>4. EntrySound(m.old, default')
            BY <2>1, <2>3, <3>1, SaveDefaultSound
        <3>5. m.raced \/ Agree(m.ver, m.rf, default')
            <4>1. m.raced \/ Agree(dloc[t].ver, dloc[t].rf, default)
                BY <1>b, <2>0, <3>1 DEF ThreadSound, LocalSound
            <4>2. m.raced \/ Agree(dloc[t].ver, dloc[t].rf, default')
                BY <2>1, <2>3, <4>1, SaveDefaultSound
            <4> QED BY <2>1, <3>1, <4>2 DEF Agree, Names, SamePolicy
        <3>6. ASSUME NEW r \in Thread PROVE ThreadSound(r)'
            <4>1. CASE r = t
                BY <3>0, <3>2, <3>3, <3>4, <3>5, <4>1, <2>0, <1>b
                DEF ThreadSound, LocalSound, VersionInv
            <4>2. CASE r # t
                BY <3>0, <3>2, <4>2, <2>1, <2>3, SaveDefaultSound
                DEF Others, ThreadSound, LocalSound, VersionInv
            <4> QED BY <4>1, <4>2
        <3>7. \A n \in Node : EntrySound(dcache[n], default')
            BY <2>1, <2>3, SaveDefaultSound
        <3>8. BlobSound(default')
            BY SMTT(30), <2>1, <2>3, SaveDefaultSound
        <3> QED BY <2>0, <3>0, <3>6, <3>7, <3>8 DEF VersionInv, caches
    <2> QED BY <2>2, <2>3 DEF f
<1>7. CASE TableRestat(t)
    <2> DEFINE l == [dloc[t] EXCEPT !.mine = NoVersion]
               b == default.version # dloc[t].mine
               m == [l EXCEPT !.ver = default.version, !.raced = b]
    <2>0. UNCHANGED storage /\ UNCHANGED caches /\ pc[t] = "drestat" /\ pc[t] \in TablePC
        BY <1>7, <1>f DEF TableRestat
    <2>1. LocalSound(dloc[t], default, FALSE, TRUE)
        BY Zenon, <1>b, <2>0 DEF ThreadSound, LocalSound
    <2>2. /\ l.old = dloc[t].old /\ l.rf = dloc[t].rf /\ l.raced = dloc[t].raced
          /\ l.ver = dloc[t].ver
        BY <1>a DEF Local
    <2>3. LocalSound(l, default, FALSE, FALSE)
        BY <2>1, <2>2 DEF LocalSound
    <2>4. b \in BOOLEAN
        OBVIOUS
    <2>5. TableStep(t, "dcompile", l) \/ TableStep(t, "dcompile", m)
        BY SMTT(30), <1>7 DEF TableRestat
    <2>6. ~b => Agree(default.version, dloc[t].rf, default)
        BY <2>1 DEF LocalSound
    <2> HIDE DEF b
    <2>7. m.old = dloc[t].old /\ m.rf = dloc[t].rf /\ m.raced = b /\ m.ver = default.version
        BY <1>a DEF Local
    <2>8. LocalSound(m, default, FALSE, FALSE)
        BY SMTT(30), <2>1, <2>4, <2>6, <2>7 DEF LocalSound
    <2> HIDE DEF l, m
    <2>9. ASSUME NEW x, LocalSound(x, default, FALSE, FALSE)
          PROVE  LocalSound(x, default, "dcompile" \in {"dtouch", "dmiss", "dload"},
                            "dcompile" = "drestat")
        BY <2>9 DEF LocalSound
    <2> QED BY Zenon, <2>0, <2>3, <2>5, <2>8, <2>9, <1>c, <1>f, TableStepSound, ThreadFrame
<1>8. CASE TableCompile(t)
    <2> DEFINE l == dloc[t]
               e == [NoEntry EXCEPT !.version = l.ver, !.exists = TRUE, !.file = l.rf,
                                    !.egress = BucketEgress(l.rf), !.raced = l.raced]
    <2>0. UNCHANGED storage /\ cache' = cache /\ pc[t] = "dcompile" /\ pc[t] \in TablePC
        BY <1>8, <1>f DEF TableCompile
    <2>1. LocalSound(l, default, FALSE, FALSE)
        BY Zenon, <1>b, <2>0 DEF ThreadSound, LocalSound
    <2>2. CASE /\ dcache' = [dcache EXCEPT ![node(t)] = Cached(t, e)]
               /\ TableReturns(t, e, TRUE)
        <3>0. BucketEgress(l.rf) \in OwnEgress \cup {"empty"}
            BY Zenon, <1>a, Encoding
        <3>1. e \in Entry
            BY Zenon, <1>a, <3>0, EmptyRecords DEF Entry, Local
        <3>2. e.version = l.ver /\ e.exists = TRUE /\ e.file = l.rf /\ e.raced = l.raced
            BY DEF NoEntry
        <3> HIDE DEF e
        <3>3. EntrySound(e, default)
            BY <2>1, <3>2 DEF LocalSound, Agree, EntrySound, Faithful
        <3> QED BY Zenon, <2>0, <2>2, <3>1, <3>3, <1>d, TableReturnsSound, ThreadFrame
    <2>3. CASE Finish(t, Error) /\ UNCHANGED dcache
        BY Zenon, <2>0, <2>3, <1>c, FinishSound, ThreadFrame DEF caches
    <2> QED BY Zenon, <1>8, <2>2, <2>3 DEF TableCompile
<1> QED BY <1>1, <1>2, <1>3, <1>4, <1>5, <1>6, <1>7, <1>8

\* The steps of operators, of time and of Storage keep VersionInv.
LEMMA EnvironmentSound ==
    ASSUME TypeOK, VersionInv,
           \/ handlePutRule \/ handleDeleteRule \/ handlePutDefault \/ HandEdit
           \/ (\E n \in Node : ExpireClient(n) \/ ExpireDefault(n)) \/ Recover
    PROVE  VersionInv'
<1>a. ASSUME NEW f \in File, Save(f), UNCHANGED <<caches, threads>>
      PROVE  VersionInv'
    <2>1. default' = default /\ cache' = cache /\ dcache' = dcache
          /\ pc' = pc /\ loc' = loc /\ dloc' = dloc
        BY <1>a DEF Save, caches, threads
    <2> QED BY Zenon, <1>a, <2>1, SaveSound DEF VersionInv, ThreadSound, LocalSound
<1>b. ASSUME NEW f \in File, SaveDefault(f), UNCHANGED <<caches, threads>>
      PROVE  VersionInv'
    <2>1. ip' = ip /\ cache' = cache /\ dcache' = dcache
          /\ pc' = pc /\ loc' = loc /\ dloc' = dloc
        BY <1>b DEF SaveDefault, caches, threads
    <2> QED BY Zenon, <1>b, <2>1, SaveDefaultSound DEF VersionInv, ThreadSound, LocalSound
<1>1. CASE handlePutRule
    BY <1>1, <1>a, ConstantsAssumption DEF handlePutRule
<1>2. CASE handleDeleteRule
    <2>1. /\ ip' = Absent /\ default' = default /\ cache' = cache /\ dcache' = dcache
          /\ pc' = pc /\ loc' = loc /\ dloc' = dloc
        BY <1>2 DEF handleDeleteRule, caches, threads
    <2>2. Absent.exists = FALSE /\ BlobSound(Absent)
        BY DEF Absent, BlobSound
    <2> QED BY Zenon, <2>1, <2>2
            DEF VersionInv, ThreadSound, LocalSound, EntrySound, Faithful, Agree
<1>3. CASE handlePutDefault
    <2> PICK f \in DefaultFiles : SaveDefault(Marshal(f))
        BY <1>3 DEF handlePutDefault
    <2>1. Marshal(f) \in File
        BY Encoding, ConstantsAssumption
    <2> QED BY <1>3, <2>1, <1>b DEF handlePutDefault
<1>4. CASE HandEdit
    BY <1>4, <1>a, <1>b, ConstantsAssumption DEF HandEdit
<1>5. ASSUME NEW n \in Node, ExpireClient(n) \/ ExpireDefault(n)
      PROVE  VersionInv'
    <2>1. ip' = ip /\ default' = default /\ pc' = pc /\ loc' = loc /\ dloc' = dloc
        BY <1>5 DEF ExpireClient, ExpireDefault, storage, threads
    <2>2. \A m \in Node :
              /\ cache'[m].raced = cache[m].raced /\ cache'[m].exists = cache[m].exists
              /\ cache'[m].version = cache[m].version /\ cache'[m].file = cache[m].file
        BY <1>5 DEF ExpireClient, ExpireDefault, TypeOK, CachesOK, Entry
    <2>3. \A m \in Node :
              /\ dcache'[m].raced = dcache[m].raced /\ dcache'[m].exists = dcache[m].exists
              /\ dcache'[m].version = dcache[m].version /\ dcache'[m].file = dcache[m].file
        BY <1>5 DEF ExpireClient, ExpireDefault, TypeOK, CachesOK, Entry
    <2>4. \A m \in Node : EntrySound(cache'[m], ip) /\ EntrySound(dcache'[m], default)
        BY Zenon, <2>2, <2>3 DEF VersionInv, EntrySound, Faithful
    <2> QED BY Zenon, <2>1, <2>4 DEF VersionInv, ThreadSound
<1>6. CASE Recover
    BY Zenon, <1>6 DEF Recover, VersionInv, ThreadSound, caches, threads
<1> QED BY <1>1, <1>2, <1>3, <1>4, <1>5, <1>6

\* Nothing is cached at first, so VersionInv holds.
LEMMA InitSound == Init => VersionInv
<1> SUFFICES ASSUME Init PROVE VersionInv
    BY SMTT(30)
<1>1. BlobSound(ip) /\ BlobSound(default)
    <2>1. ip = Absent /\ default \in {Absent, Seeded}
        BY Zenon DEF Init
    <2>2. BlobSound(Absent)
        BY EmptyRecords DEF Absent, BlobSound
    <2>3. BlobSound(Seeded)
        BY EmptyRecords, ConstantsAssumption DEF Seeded, BlobSound
    <2> QED BY Zenon, <2>1, <2>2, <2>3
<1>2. \A n \in Node : EntrySound(cache[n], ip) /\ EntrySound(dcache[n], default)
    BY DEF Init, EntrySound, Faithful, NoEntry
<1>3. \A t \in Thread : ThreadSound(t)
    <2>1. LocalSound(NoLocal, ip, FALSE, FALSE) /\ LocalSound(NoLocal, default, FALSE, FALSE)
        BY Zenon, <1>1, EmptyLocal
    <2> QED BY Zenon, <2>1 DEF Init, ThreadSound, LocalSound
<1> QED BY Zenon, <1>1, <1>2, <1>3 DEF VersionInv

\* Each step of the specification keeps VersionInv.
LEMMA NextSound == TypeOK /\ VersionInv /\ [Next]_vars => VersionInv'
<1> SUFFICES ASSUME TypeOK, VersionInv, [Next]_vars PROVE VersionInv'
    OBVIOUS
<1>1. CASE Next
    BY <1>1, LookupSound, TableSound, EnvironmentSound DEF Next, Lookup
<1>2. CASE UNCHANGED vars
    BY <1>2 DEF vars, VersionInv, ThreadSound
<1> QED BY <1>1, <1>2

\* The version comparison of Lookup and lookupDefaultTable is sound in every
\* fleet: a cached RuleSet whose version Storage still reports was compiled
\* from what Storage holds, unless it was stored after a raced re-Stat or, on
\* S3, under the ETag of something else than was loaded.
THEOREM VersionCheckSound == Spec => []VersionMeansContent
<1>1. VersionInv => VersionMeansContent
    BY Zenon DEF VersionInv, EntrySound, VersionMeansContent
<1> QED BY <1>1, InitTypes, NextTypes, InitSound, NextSound, PTL DEF Spec

-----------------------------------------------------------------------------
(* What a Lookup answers.                                                  *)
(*                                                                         *)
(* An answer is judged when the Lookup returns, against blobs Storage held *)
(* several steps earlier.  ReadInv says of each point of a Lookup what its *)
(* locals have to do with the blobs held since its call: the entry that a  *)
(* version check confirmed, the blob found absent, the file loaded.        *)

\* Storage held, at some moment recorded in S, this policy; a file with this
\* policy; no file.
Had(S, f) == \E h \in S : SamePolicy(h.file, f)
HadFile(S, f) == \E h \in S : h.exists /\ SamePolicy(h.file, f)
HadNone(S) == \E h \in S : ~h.exists

\* What does not exist has no content.
Plain(x) == ~x.exists => x.file = EmptyFile

\* What a cache may hold, and a Lookup may have copied from it.
Enforceable(e) == Plain(e) /\ Compiles(e.file)

\* The version of entry e was the version of Storage at some moment in S.
Confirmed(e, S) ==
    /\ e.exists /\ ~e.raced => HadFile(S, e.file)
    /\ ~e.exists => HadNone(S)

\* The point p of a Lookup with locals l, called lookupDefaultTable for w.
Reads(p, w, l, S) ==
    /\ Enforceable(l.old)
    /\ p = "touch" => Confirmed(l.old, S)
    /\ p = "miss" => HadNone(S)
    /\ p \in {"save", "restat", "compile", "publish"} => Had(S, l.rf)
    /\ p = "publish" => Compiles(l.rf)
    /\ w = "egress" => p \in TablePC \cup {"publish"} /\ Had(S, l.rf) /\ Compiles(l.rf)
    /\ p \in TablePC /\ w # "egress" /\ l.sure => HadNone(S)

\* The point p of lookupDefaultTable with locals l.
TableReads(p, l, S) ==
    /\ Enforceable(l.old)
    /\ p = "dtouch" => Confirmed(l.old, S)
    /\ p = "dmiss" => HadNone(S)
    /\ p \in {"dsave", "drestat", "dcompile"} => HadFile(S, l.rf)

\* The history of a running Lookup ends with what Storage holds now.
Watched(t) ==
    /\ pc[t] # "idle" => Held(ip) \in seen[t] /\ Held(default) \in dseen[t]
    /\ \A h \in seen[t] : Plain(h)
    /\ \A h \in dseen[t] : Plain(h)

Answered(t) ==
    /\ result[t].sure => result[t].current
    /\ result[t].http \notin {"garbled", "invalid"}

ThreadReads(t) ==
    /\ Reads(pc[t], want[t], loc[t], seen[t])
    /\ TableReads(pc[t], dloc[t], dseen[t])
    /\ Watched(t) /\ Answered(t)

ReadInv ==
    /\ Plain(ip) /\ Plain(default)
    /\ \A n \in Node : Enforceable(cache[n]) /\ Enforceable(dcache[n])
    /\ \A t \in Thread : ThreadReads(t)

-----------------------------------------------------------------------------
(* Facts about the predicates *)

\* A longer history only adds witnesses.
LEMMA MoreSeen ==
    ASSUME NEW S, NEW T, S \subseteq T
    PROVE  /\ HadNone(S) => HadNone(T)
           /\ \A f : (Had(S, f) => Had(T, f)) /\ (HadFile(S, f) => HadFile(T, f))
           /\ \A e : Confirmed(e, S) => Confirmed(e, T)
<1>1. HadNone(S) => HadNone(T)
    BY Zenon DEF HadNone
<1>2. ASSUME NEW f PROVE (Had(S, f) => Had(T, f)) /\ (HadFile(S, f) => HadFile(T, f))
    BY Zenon DEF Had, HadFile
<1>3. ASSUME NEW e PROVE Confirmed(e, S) => Confirmed(e, T)
    BY Zenon, <1>1, <1>2 DEF Confirmed
<1> QED BY Zenon, <1>1, <1>2, <1>3

\* So what a Lookup knows stays true while its history grows.
LEMMA StillReads ==
    ASSUME NEW S, NEW T, S \subseteq T, NEW p, NEW w, NEW l
    PROVE  /\ Reads(p, w, l, S) => Reads(p, w, l, T)
           /\ TableReads(p, l, S) => TableReads(p, l, T)
BY Zenon, MoreSeen DEF Reads, TableReads

\* SamePolicy is an equivalence.
LEMMA PolicySame ==
    /\ \A f : SamePolicy(f, f)
    /\ \A f, g : SamePolicy(f, g) => SamePolicy(g, f)
    /\ \A f, g, k : SamePolicy(f, g) /\ SamePolicy(g, k) => SamePolicy(f, k)
BY Zenon DEF SamePolicy

\* A file with the policy of one that was held was held as well.
LEMMA HadSame ==
    ASSUME NEW S, NEW f, NEW g, SamePolicy(f, g)
    PROVE  (Had(S, f) => Had(S, g)) /\ (HadFile(S, f) => HadFile(S, g))
BY Zenon, PolicySame DEF Had, HadFile

\* Files with one policy compile together.
LEMMA CompilesSame ==
    ASSUME NEW f, NEW g, SamePolicy(f, g), Compiles(f)
    PROVE  Compiles(g)
BY Zenon DEF SamePolicy, Compiles

\* No entry and no locals: nothing to enforce, nothing claimed.
LEMMA Nothing ==
    /\ Enforceable(NoEntry) /\ Plain(Absent) /\ Compiles(EmptyFile)
    /\ NoEntry.exists = FALSE /\ NoEntry.file = EmptyFile
    /\ NoLocal.old = NoEntry /\ NoLocal.sure = FALSE /\ NoLocal.rf = EmptyFile
    /\ NoResult.kind = "none" /\ NoResult.sure = FALSE /\ NoResult.http = "none"
    /\ Error.kind = "error" /\ Error.sure = FALSE /\ Error.http = "none"
BY DEF NoEntry, Absent, EmptyFile, NoLocal, NoResult, Error, Enforceable, Plain, Compiles

\* Storing an entry or keeping a copy of it changes nothing it stands for.
LEMMA EnforceableCopies ==
    ASSUME NEW t \in Thread, NEW e \in Entry, Enforceable(e)
    PROVE  Enforceable(Cached(t, e)) /\ Enforceable(Copy(e))
BY Zenon, EntryCopies DEF Enforceable, Plain

-----------------------------------------------------------------------------
(* The other threads *)

\* A step leaves thread t alone, but its running Lookup sees what Storage holds.
Undisturbed(t) ==
    /\ pc'[t] = pc[t] /\ want'[t] = want[t] /\ loc'[t] = loc[t]
    /\ dloc'[t] = dloc[t] /\ result'[t] = result[t]
    /\ pc[t] = "idle" => seen'[t] = seen[t] /\ dseen'[t] = dseen[t]
    /\ pc[t] # "idle" => /\ seen'[t] = seen[t] \cup {Held(ip')}
                         /\ dseen'[t] = dseen[t] \cup {Held(default')}

\* What is held now is plain when the blob is.
LEMMA HeldPlain ==
    ASSUME NEW b, Plain(b)
    PROVE  Plain(Held(b))
BY DEF Plain, Held

\* An undisturbed thread keeps its part of the invariant.
LEMMA UndisturbedReads ==
    ASSUME NEW t \in Thread, ThreadReads(t), Undisturbed(t), Plain(ip'), Plain(default')
    PROVE  ThreadReads(t)'
<1>1. seen[t] \subseteq seen'[t] /\ dseen[t] \subseteq dseen'[t]
    BY DEF Undisturbed
<1>2. Reads(pc[t], want[t], loc[t], seen'[t]) /\ TableReads(pc[t], dloc[t], dseen'[t])
    BY Zenon, <1>1, StillReads DEF ThreadReads
<1>3. /\ pc[t] # "idle" => Held(ip') \in seen'[t] /\ Held(default') \in dseen'[t]
      /\ \A h \in seen'[t] : h \in seen[t] \/ h = Held(ip')
      /\ \A h \in dseen'[t] : h \in dseen[t] \/ h = Held(default')
    BY DEF Undisturbed
<1>4. Plain(Held(ip')) /\ Plain(Held(default'))
    BY Zenon, HeldPlain
<1>5. Watched(t)'
    BY Zenon, <1>3, <1>4 DEF Watched, ThreadReads, Undisturbed
<1>6. Answered(t)'
    BY Zenon DEF Answered, ThreadReads, Undisturbed
<1> QED BY Zenon, <1>2, <1>5, <1>6 DEF ThreadReads, Undisturbed
-----------------------------------------------------------------------------
(* The thread that moves *)

\* Every other thread is left exactly as it is.
Alone(t) ==
    \A r \in Thread \ {t} :
        /\ pc'[r] = pc[r] /\ want'[r] = want[r] /\ loc'[r] = loc[r]
        /\ dloc'[r] = dloc[r] /\ result'[r] = result[r]
        /\ seen'[r] = seen[r] /\ dseen'[r] = dseen[r]

\* r is an answer that Lookup may give: a confirmed one comes from a Lookup that
\* ran for a while and was the policy in that time.
Honest(t, r) ==
    /\ r \in Result /\ r.kind # "none"
    /\ r.http \notin {"garbled", "invalid"}
    /\ r.sure =>
          /\ pc[t] # "idle" /\ r.current
          /\ \/ r.kind = "override" /\ \E h \in seen[t] : h.file.http = r.http
             \/ /\ r.kind \in {"default", "empty"}
                /\ \E h \in seen[t] : ~h.exists
                /\ \E h \in dseen[t] :
                      h.exists = (r.kind = "default") /\ h.file.http = r.http

Replies(t, r) ==
    /\ result' = [result EXCEPT ![t] = r]
    /\ seen' = [seen EXCEPT ![t] = {}] /\ dseen' = [dseen EXCEPT ![t] = {}]

\* What a caller notices of a step: nothing, the call, or the answer.
Shows(t) ==
    \/ pc[t] # "idle" /\ pc'[t] # "idle" /\ UNCHANGED pending
    \/ pc[t] = "idle" /\ pc'[t] # "idle" /\ Open(t)
    \/ pc'[t] = "idle" /\ \E r : Honest(t, r) /\ Replies(t, r)

Proceeds(t) == Alone(t) /\ ThreadReads(t)' /\ Shows(t)

\* A step of t that writes nothing to Storage keeps the invariant if t proceeds
\* and the caches hold nothing but what compiles.
LEMMA ProceedsReads ==
    ASSUME TypeOK, ReadInv, UNCHANGED storage, NEW t \in Thread, Proceeds(t),
           \A n \in Node : Enforceable(cache'[n]) /\ Enforceable(dcache'[n])
    PROVE  ReadInv'
<1>0. ip' = ip /\ default' = default /\ Plain(ip') /\ Plain(default')
    BY Zenon DEF storage, ReadInv
<1>1. ASSUME NEW r \in Thread PROVE ThreadReads(r)'
    <2>1. CASE r = t
        BY Zenon, <2>1 DEF Proceeds
    <2>2. CASE r # t
        <3>1. ThreadReads(r)
            BY Zenon DEF ReadInv
        <3>2. pc[r] # "idle" => Held(ip) \in seen[r] /\ Held(default) \in dseen[r]
            BY Zenon, <3>1 DEF ThreadReads, Watched
        <3>3. /\ pc'[r] = pc[r] /\ want'[r] = want[r] /\ loc'[r] = loc[r]
              /\ dloc'[r] = dloc[r] /\ result'[r] = result[r]
              /\ seen'[r] = seen[r] /\ dseen'[r] = dseen[r]
            BY Zenon, <2>2 DEF Proceeds, Alone
        <3>4. Undisturbed(r)
            BY <1>0, <3>2, <3>3 DEF Undisturbed
        <3> QED BY Zenon, <1>0, <3>1, <3>4, UndisturbedReads
    <2> QED BY Zenon, <2>1, <2>2
<1> QED BY Zenon, <1>0, <1>1 DEF ReadInv

\* Locals without an entry know nothing and need nothing.
LEMMA IdleReads ==
    /\ Reads("idle", "bucket", NoLocal, {}) /\ TableReads("idle", NoLocal, {})
BY Nothing DEF Reads, TableReads, TablePC

\* A Lookup that returns an honest answer.
LEMMA FinishReads ==
    ASSUME TypeOK, NEW t \in Thread, NEW r, Honest(t, r), Finish(t, r)
    PROVE  Proceeds(t)
<1>1. Alone(t)
    BY DEF Alone, Finish, TypeOK, ThreadsOK, HistoryOK
<1>2. /\ pc'[t] = "idle" /\ want'[t] = "bucket" /\ loc'[t] = NoLocal /\ dloc'[t] = NoLocal
      /\ result'[t] = r /\ seen'[t] = {} /\ dseen'[t] = {}
    BY DEF Finish, TypeOK, ThreadsOK, HistoryOK
<1>3. Watched(t)'
    BY <1>2 DEF Watched
<1>4. Answered(t)'
    BY Zenon, <1>2 DEF Answered, Honest
<1>5. ThreadReads(t)'
    BY Zenon, <1>2, <1>3, <1>4, IdleReads DEF ThreadReads
<1>6. Shows(t)
    BY Zenon, <1>2 DEF Shows, Replies, Finish
<1> QED BY Zenon, <1>1, <1>5, <1>6 DEF Proceeds

\* A Lookup that fails.
LEMMA FailReads ==
    ASSUME TypeOK, NEW t \in Thread, Finish(t, Error)
    PROVE  Proceeds(t)
<1>1. Honest(t, Error)
    BY Nothing, EmptyRecords DEF Honest
<1> QED BY Zenon, <1>1, FinishReads

\* The points of lookupIP and of lookupDefaultTable.
LEMMA Points ==
    /\ "idle" \notin LookupPC /\ "idle" \notin TablePC /\ LookupPC \cap TablePC = {}
    /\ LookupPC = {"stat", "touch", "miss", "load", "save", "restat", "compile", "publish"}
    /\ TablePC = {"dbegin", "dstat", "dtouch", "dmiss", "dload", "dsave", "drestat",
                  "dcompile"}
BY DEF LookupPC, TablePC

\* A step of lookupIP that knows what its new point asks for.
LEMMA StepReads ==
    ASSUME TypeOK, ReadInv, NEW t \in Thread, NEW p \in LookupPC, NEW l, Step(t, p, l),
           UNCHANGED <<storage, pending>>, pc[t] \in LookupPC,
           Reads(p, want[t], l, seen[t])
    PROVE  Proceeds(t)
<1>0. /\ ip' = ip /\ default' = default
      /\ result' = result /\ seen' = seen /\ dseen' = dseen /\ UNCHANGED pending
    BY Zenon DEF storage, pending
<1>1. Alone(t)
    BY <1>0 DEF Alone, Step, TypeOK, ThreadsOK
<1>2. pc'[t] = p /\ want'[t] = want[t] /\ loc'[t] = l /\ dloc'[t] = dloc[t]
    BY DEF Step, TypeOK, ThreadsOK
<1>3. ThreadReads(t)
    BY Zenon DEF ReadInv
<1>4. TableReads(p, dloc[t], dseen[t])
    <2>1. p # "dtouch" /\ p # "dmiss" /\ p \notin {"dsave", "drestat", "dcompile"}
        BY DEF LookupPC
    <2> QED BY Zenon, <2>1, <1>3 DEF ThreadReads, TableReads
<1>5. pc[t] # "idle" /\ p # "idle"
    BY Zenon, Points
<1>6. Watched(t)' /\ Answered(t)'
    BY Zenon, <1>0, <1>2, <1>3, <1>5 DEF ThreadReads, Watched, Answered
<1>7. ThreadReads(t)'
    BY Zenon, <1>0, <1>2, <1>4, <1>6 DEF ThreadReads
<1>8. Shows(t)
    BY Zenon, <1>0, <1>2, <1>5 DEF Shows
<1> QED BY Zenon, <1>1, <1>7, <1>8 DEF Proceeds

\* A step of lookupDefaultTable that knows what its new point asks for.
LEMMA TableStepReads ==
    ASSUME TypeOK, ReadInv, NEW t \in Thread, NEW p \in TablePC, NEW l,
           TableStep(t, p, l), UNCHANGED <<storage, pending>>, pc[t] \in TablePC,
           TableReads(p, l, dseen[t])
    PROVE  Proceeds(t)
<1>0. /\ ip' = ip /\ default' = default
      /\ result' = result /\ seen' = seen /\ dseen' = dseen /\ UNCHANGED pending
    BY Zenon DEF storage, pending
<1>1. Alone(t)
    BY <1>0 DEF Alone, TableStep, TypeOK, ThreadsOK
<1>2. pc'[t] = p /\ want'[t] = want[t] /\ loc'[t] = loc[t] /\ dloc'[t] = l
    BY DEF TableStep, TypeOK, ThreadsOK
<1>3. ThreadReads(t)
    BY Zenon DEF ReadInv
<1>4. Reads(p, want[t], loc[t], seen[t])
    <2>1. /\ p # "touch" /\ p # "miss" /\ p # "publish"
          /\ p \notin {"save", "restat", "compile", "publish"}
        BY DEF TablePC
    <2>2. p \in TablePC \cup {"publish"}
        OBVIOUS
    <2> QED BY Zenon, <2>1, <2>2, <1>3 DEF ThreadReads, Reads
<1>5. pc[t] # "idle" /\ p # "idle"
    BY Zenon, Points
<1>6. Watched(t)' /\ Answered(t)'
    BY Zenon, <1>0, <1>2, <1>3, <1>5 DEF ThreadReads, Watched, Answered
<1>7. ThreadReads(t)'
    BY Zenon, <1>0, <1>2, <1>4, <1>6 DEF ThreadReads
<1>8. Shows(t)
    BY Zenon, <1>0, <1>2, <1>5 DEF Shows
<1> QED BY Zenon, <1>1, <1>7, <1>8 DEF Proceeds

\* The call of lookupDefaultTable.
LEMMA AskTableReads ==
    ASSUME TypeOK, ReadInv, NEW t \in Thread, NEW w, NEW l, AskTable(t, w, l),
           UNCHANGED <<storage, pending>>, pc[t] \in LookupPC,
           Reads("dbegin", w, l, seen[t])
    PROVE  Proceeds(t)
<1>0. /\ ip' = ip /\ default' = default
      /\ result' = result /\ seen' = seen /\ dseen' = dseen /\ UNCHANGED pending
    BY Zenon DEF storage, pending
<1>1. Alone(t)
    BY <1>0 DEF Alone, AskTable, TypeOK, ThreadsOK
<1>2. pc'[t] = "dbegin" /\ want'[t] = w /\ loc'[t] = l /\ dloc'[t] = dloc[t]
    BY DEF AskTable, TypeOK, ThreadsOK
<1>3. ThreadReads(t)
    BY Zenon DEF ReadInv
<1>4. TableReads("dbegin", dloc[t], dseen[t])
    BY Zenon, <1>3 DEF ThreadReads, TableReads
<1>5. pc[t] # "idle"
    BY Zenon, Points
<1>6. Watched(t)' /\ Answered(t)'
    BY Zenon, <1>0, <1>2, <1>3, <1>5 DEF ThreadReads, Watched, Answered
<1>7. ThreadReads(t)'
    BY Zenon, <1>0, <1>2, <1>4, <1>6 DEF ThreadReads
<1>8. Shows(t)
    BY Zenon, <1>0, <1>2, <1>5 DEF Shows
<1> QED BY Zenon, <1>1, <1>7, <1>8 DEF Proceeds

\* The call of Lookup: the history starts with what Storage holds.
LEMMA OpenReads ==
    ASSUME TypeOK, ReadInv, NEW t \in Thread, UNCHANGED storage, pc[t] = "idle", Open(t),
           NEW l, Enforceable(l.old), l.sure = FALSE,
           Step(t, "stat", l) \/ AskTable(t, "bucket", l)
    PROVE  Proceeds(t)
<1>0. ip' = ip /\ default' = default
    BY Zenon DEF storage
<1>1. Alone(t)
    BY DEF Alone, Step, AskTable, Open, TypeOK, ThreadsOK, HistoryOK
<1>2. ThreadReads(t) /\ Plain(ip) /\ Plain(default)
    BY Zenon DEF ReadInv
<1>3. want[t] # "egress"
    BY Zenon, <1>2, Points DEF ThreadReads, Reads
<1>4. /\ pc'[t] \in {"stat", "dbegin"} /\ want'[t] # "egress" /\ loc'[t] = l
      /\ dloc'[t] = dloc[t]
    BY <1>3 DEF Step, AskTable, TypeOK, ThreadsOK
<1>5. result'[t] = NoResult /\ seen'[t] = {Held(ip)} /\ dseen'[t] = {Held(default)}
    BY DEF Open, TypeOK, HistoryOK
<1>6. Watched(t)'
    BY Zenon, <1>0, <1>2, <1>5, HeldPlain DEF Watched
<1>7. Answered(t)'
    BY <1>5, Nothing DEF Answered
<1>8. Reads(pc'[t], want'[t], l, seen'[t])
    BY <1>4 DEF Reads
<1>9. TableReads(pc'[t], dloc[t], dseen'[t])
    BY Zenon, <1>4, <1>2 DEF TableReads, ThreadReads
<1>10. ThreadReads(t)'
    BY Zenon, <1>4, <1>6, <1>7, <1>8, <1>9 DEF ThreadReads
<1>11. Shows(t)
    BY Zenon, <1>4 DEF Shows
<1> QED BY Zenon, <1>1, <1>10, <1>11 DEF Proceeds

\* An answer compiled from a file that was the policy is honest.
LEMMA AnswerHonest ==
    ASSUME NEW t \in Thread, NEW k \in {"override", "default", "empty"}, NEW f \in File,
           NEW e \in OwnEgress \cup {"empty"}, NEW s \in BOOLEAN, Compiles(f),
           s => pc[t] # "idle" /\ WasHeld(t, k, f)
    PROVE  Honest(t, Answer(t, k, f, e, s))
<1> DEFINE r == Answer(t, k, f, e, s)
<1>1. r \in Result
    BY AnswerType
<1>2. r.kind = k /\ r.http = f.http /\ r.sure = s /\ r.current = WasHeld(t, k, f)
    BY Zenon DEF Answer
<1> HIDE DEF r
<1>3. r.kind # "none" /\ r.http \notin {"garbled", "invalid"}
    BY <1>2 DEF Compiles
<1>4. ASSUME r.sure
      PROVE  \/ r.kind = "override" /\ \E h \in seen[t] : h.file.http = r.http
             \/ /\ r.kind \in {"default", "empty"}
                /\ \E h \in seen[t] : ~h.exists
                /\ \E h \in dseen[t] :
                      h.exists = (r.kind = "default") /\ h.file.http = r.http
    <2>1. WasHeld(t, k, f)
        BY Zenon, <1>2, <1>4
    <2>2. CASE k = "override"
        BY Zenon, <1>2, <2>1, <2>2 DEF WasHeld, SamePolicy
    <2>3. CASE k \in {"default", "empty"}
        BY <1>2, <2>1, <2>3 DEF WasHeld, SamePolicy
    <2> QED BY Zenon, <2>2, <2>3
<1>5. Honest(t, r)
    BY Zenon, <1>1, <1>2, <1>3, <1>4 DEF Honest
<1> QED BY Zenon, <1>5 DEF r

\* resolveClientCache, with an entry that may be enforced.
LEMMA ResolveReads ==
    ASSUME TypeOK, ReadInv, NEW t \in Thread, UNCHANGED storage, NEW e \in Entry,
           NEW s \in BOOLEAN, resolveClientCache(t, e, s), Enforceable(e),
           s => Confirmed(e, seen[t]),
           pc[t] \in LookupPC \/ (pc[t] = "idle" /\ e.exists /\ ~s)
    PROVE  Proceeds(t)
<1>1. CASE e.exists
    <2> DEFINE x == s /\ ~e.raced
    <2>1. e.file \in File /\ e.egress \in OwnEgress \cup {"empty"} /\ x \in BOOLEAN
        BY DEF Entry
    <2>2. Compiles(e.file)
        BY Zenon DEF Enforceable
    <2>3. x => pc[t] # "idle" /\ WasHeld(t, "override", e.file)
        BY Zenon, <1>1, Points DEF Confirmed, HadFile, WasHeld
    <2>4. Finish(t, Answer(t, "override", e.file, e.egress, x))
        BY Zenon, <1>1 DEF resolveClientCache
    <2> HIDE DEF x
    <2>5. Honest(t, Answer(t, "override", e.file, e.egress, x))
        BY Zenon, <2>1, <2>2, <2>3, AnswerHonest
    <2> QED BY Zenon, <2>4, <2>5, FinishReads
<1>2. CASE ~e.exists
    <2> DEFINE l == [NoLocal EXCEPT !.sure = s]
    <2>1. AskTable(t, "bucket", l) /\ UNCHANGED <<storage, pending>> /\ pc[t] \in LookupPC
        BY Zenon, <1>2 DEF resolveClientCache
    <2>2. l.old = NoEntry /\ l.sure = s
        BY DEF NoLocal
    <2> HIDE DEF l
    <2>3. Reads("dbegin", "bucket", l, seen[t])
        BY <2>2, <1>2, Nothing DEF Reads, Confirmed
    <2> QED BY Zenon, <2>1, <2>3, AskTableReads
<1> QED BY Zenon, <1>1, <1>2

\* The return of lookupDefaultTable, with an entry that may be enforced.
LEMMA TableReturnsReads ==
    ASSUME TypeOK, ReadInv, NEW t \in Thread, UNCHANGED storage, NEW e \in Entry,
           NEW s \in BOOLEAN, TableReturns(t, e, s), Enforceable(e),
           s => Confirmed(e, dseen[t]), pc[t] \in TablePC
    PROVE  Proceeds(t)
<1>0. ThreadReads(t) /\ pc[t] # "idle"
    BY Zenon, Points DEF ReadInv
<1>1. CASE want[t] = "egress"
    <2> DEFINE x == IF e.exists THEN BucketEgress(e.file) ELSE "empty"
               l == [loc[t] EXCEPT !.egress = x]
    <2>0. /\ ip' = ip /\ default' = default
          /\ result' = result /\ seen' = seen /\ dseen' = dseen /\ UNCHANGED pending
          /\ want' = want
        BY Zenon, <1>1 DEF storage, pending, TableReturns
    <2>1. loc'[t] = l /\ dloc'[t] = NoLocal /\ pc'[t] = "publish"
        BY <1>1 DEF TableReturns, TypeOK, ThreadsOK
    <2>2. Alone(t)
        BY <1>1, <2>0 DEF TableReturns, Alone, TypeOK, ThreadsOK
    <2> HIDE DEF x
    <2>3. l.old = loc[t].old /\ l.rf = loc[t].rf
        BY DEF TypeOK, ThreadsOK, Local
    <2> HIDE DEF l
    <2>4. Had(seen[t], loc[t].rf) /\ Compiles(loc[t].rf) /\ Enforceable(loc[t].old)
        BY Zenon, <1>0, <1>1 DEF ThreadReads, Reads
    <2>5. Reads("publish", "egress", l, seen[t])
        BY <2>3, <2>4 DEF Reads, TablePC
    <2>6. TableReads("publish", NoLocal, dseen[t])
        BY Nothing DEF TableReads
    <2>7. Watched(t)' /\ Answered(t)'
        BY Zenon, <2>0, <2>1, <1>0 DEF ThreadReads, Watched, Answered
    <2>8. ThreadReads(t)'
        BY Zenon, <1>1, <2>0, <2>1, <2>5, <2>6, <2>7 DEF ThreadReads
    <2>9. Shows(t)
        BY Zenon, <2>0, <2>1, <1>0 DEF Shows
    <2> QED BY Zenon, <2>2, <2>8, <2>9 DEF Proceeds
<1>2. CASE want[t] # "egress"
    <2> DEFINE k == IF e.exists THEN "default" ELSE "empty"
               x == loc[t].sure /\ s /\ ~e.raced
    <2>1. /\ e.file \in File /\ BucketEgress(e.file) \in OwnEgress \cup {"empty"}
          /\ e.exists \in BOOLEAN
        BY Encoding DEF Entry
    <2>2. x \in BOOLEAN /\ k \in {"override", "default", "empty"}
        BY Zenon
    <2>3. Compiles(e.file)
        BY Zenon DEF Enforceable
    <2>4. ASSUME x PROVE WasHeld(t, k, e.file)
        <3>1. HadNone(seen[t])
            BY Zenon, <1>0, <1>2, <2>4 DEF ThreadReads, Reads
        <3>2. CASE e.exists
            <4>1. k = "default" /\ HadFile(dseen[t], e.file)
                BY Zenon, <2>4, <3>2 DEF Confirmed
            <4>2. PICK h \in dseen[t] : h.exists /\ SamePolicy(h.file, e.file)
                BY Zenon, <4>1 DEF HadFile
            <4>3. h.exists \in BOOLEAN
                BY DEF TypeOK, HistoryOK, HeldBlob
            <4> QED BY Zenon, <3>1, <4>1, <4>2, <4>3 DEF WasHeld, HadNone
        <3>3. CASE ~e.exists
            <4>1. k = "empty" /\ HadNone(dseen[t]) /\ e.file = EmptyFile
                BY Zenon, <2>4, <3>3 DEF Confirmed, Enforceable, Plain
            <4>2. PICK h \in dseen[t] : ~h.exists
                BY Zenon, <4>1 DEF HadNone
            <4>3. h.exists = FALSE
                BY <4>2 DEF TypeOK, HistoryOK, HeldBlob
            <4>4. h.file = EmptyFile
                BY Zenon, <4>2, <1>0 DEF ThreadReads, Watched, Plain
            <4> HIDE DEF k
            <4>5. h.exists = (k = "default") /\ k # "override"
                BY Zenon, <4>1, <4>3
            <4>6. SamePolicy(h.file, e.file)
                BY Zenon, <4>1, <4>4, PolicySame
            <4> QED BY Zenon, <3>1, <4>5, <4>6 DEF WasHeld, HadNone
        <3> QED BY Zenon, <3>2, <3>3
    <2>5. Finish(t, Answer(t, k, e.file, BucketEgress(e.file), x))
        BY Zenon, <1>2 DEF TableReturns
    <2> HIDE DEF k, x
    <2>6. Honest(t, Answer(t, k, e.file, BucketEgress(e.file), x))
        BY Zenon, <1>0, <2>1, <2>2, <2>3, <2>4, AnswerHonest
    <2> QED BY Zenon, <2>5, <2>6, FinishReads
<1> QED BY Zenon, <1>1, <1>2

\* A version check that succeeds: an entry with the version and the existence of
\* the blob Storage holds now is confirmed by it.
LEMMA StatConfirms ==
    ASSUME NEW e, NEW b, EntrySound(e, b), e.version = b.version, e.exists = b.exists,
           NEW S, Held(b) \in S
    PROVE  Confirmed(e, S)
<1>1. Held(b).exists = b.exists /\ Held(b).file = b.file
    BY DEF Held
<1>2. CASE e.exists /\ ~e.raced
    <2>1. SamePolicy(b.file, e.file)
        BY Zenon, <1>2, PolicySame DEF EntrySound, Faithful
    <2> QED BY Zenon, <1>1, <1>2, <2>1 DEF Confirmed, HadFile
<1>3. CASE ~e.exists
    BY Zenon, <1>1, <1>3 DEF Confirmed, HadNone
<1> QED BY Zenon, <1>2, <1>3 DEF Confirmed

-----------------------------------------------------------------------------
(* The steps of lookupIP *)

\* The entry t stores may be enforced, so the caches hold nothing worse.
LEMMA StoreReads ==
    ASSUME TypeOK, ReadInv, NEW t \in Thread, NEW e \in Entry, Enforceable(e),
           \/ cache' = [cache EXCEPT ![node(t)] = Cached(t, e)] /\ dcache' = dcache
           \/ dcache' = [dcache EXCEPT ![node(t)] = Cached(t, e)] /\ cache' = cache
    PROVE  \A n \in Node : Enforceable(cache'[n]) /\ Enforceable(dcache'[n])
<1>1. Enforceable(Cached(t, e))
    BY Zenon, EnforceableCopies
<1> QED BY <1>1 DEF ReadInv, TypeOK, CachesOK

\* The entry a Lookup builds from its locals.
Built(v, f, g, r) ==
    [NoEntry EXCEPT !.version = v, !.exists = TRUE, !.file = f, !.egress = g, !.raced = r]

HasFields(e, f, g, r) ==
    /\ e \in Entry /\ e.exists = TRUE /\ e.file = f /\ e.egress = g /\ e.raced = r
    /\ Compiles(f) => Enforceable(e)

\* It has these fields, and may be enforced when its file compiles.
LEMMA BuiltFields ==
    ASSUME NEW v \in Version, NEW f \in File, NEW g \in OwnEgress \cup {"empty"},
           NEW r \in BOOLEAN
    PROVE  HasFields(Built(v, f, g, r), f, g, r)
<1> DEFINE e == Built(v, f, g, r)
<1>1. e \in Entry
    BY Zenon, EmptyRecords DEF Built, Entry
<1>2. e.exists = TRUE /\ e.file = f /\ e.egress = g /\ e.raced = r
    BY DEF Built, NoEntry
<1> HIDE DEF e
<1>3. Compiles(f) => Enforceable(e)
    BY Zenon, <1>2 DEF Enforceable, Plain
<1> QED BY Zenon, <1>1, <1>2, <1>3 DEF e, HasFields

\* Every step of Lookup and lookupIP that writes no file proceeds, and leaves
\* only what compiles in the caches.
LEMMA LookupReads ==
    ASSUME TypeOK, VersionInv, ReadInv, NEW t \in Thread,
           \/ LookupBegin(t) \/ LookupStat(t) \/ touchClientCache(t) \/ LookupMiss(t)
           \/ LookupLoad(t) \/ LookupRestat(t) \/ LookupCompile(t) \/ LookupPublish(t)
    PROVE  /\ UNCHANGED storage /\ Proceeds(t)
           /\ \A n \in Node : Enforceable(cache'[n]) /\ Enforceable(dcache'[n])
<1>a. /\ node(t) \in Node /\ loc[t] \in Local /\ cache[node(t)] \in Entry
      /\ loc[t].old \in Entry /\ loc[t].rf \in File /\ loc[t].ver \in Version
      /\ loc[t].raced \in BOOLEAN /\ loc[t].egress \in OwnEgress \cup {"empty"}
      /\ ip \in Blob /\ ip.file \in File /\ ip.exists \in BOOLEAN
      /\ loc[t].old.egress \in OwnEgress \cup {"empty"}
    BY ConstantsAssumption
    DEF TypeOK, StorageOK, CachesOK, ThreadsOK, node, Local, Blob, Entry
<1>b. /\ ThreadReads(t) /\ Enforceable(cache[node(t)])
      /\ Reads(pc[t], want[t], loc[t], seen[t]) /\ Enforceable(loc[t].old)
    BY Zenon, <1>a DEF ReadInv, ThreadReads, Reads
<1>c. UNCHANGED caches => \A n \in Node : Enforceable(cache'[n]) /\ Enforceable(dcache'[n])
    BY Zenon DEF ReadInv, caches
<1>d. FALSE \in BOOLEAN /\ TRUE \in BOOLEAN
    OBVIOUS
<1>e. pc[t] # "idle" => Held(ip) \in seen[t]
    BY Zenon, <1>b DEF ThreadReads, Watched
<1>1. CASE LookupBegin(t)
    <2> DEFINE e == cache[node(t)]
    <2>0. UNCHANGED storage /\ UNCHANGED caches /\ pc[t] = "idle"
        BY <1>1 DEF LookupBegin
    <2>1. CASE e.exists /\ resolveClientCache(t, e, FALSE)
        BY Zenon, <2>0, <2>1, <1>a, <1>b, <1>c, <1>d, ResolveReads
    <2>2. CASE AskTable(t, "bucket", NoLocal) /\ Open(t)
        BY Zenon, <2>0, <2>2, <1>c, Nothing, OpenReads
    <2>3. CASE Step(t, "stat", [NoLocal EXCEPT !.old = Copy(e)]) /\ Open(t)
        <3> DEFINE l == [NoLocal EXCEPT !.old = Copy(e)]
        <3>1. l.old = Copy(e) /\ l.sure = FALSE /\ Step(t, "stat", l)
            BY <2>3 DEF NoLocal
        <3> HIDE DEF l
        <3>2. Enforceable(l.old)
            BY Zenon, <1>a, <1>b, <3>1, EnforceableCopies
        <3> QED BY Zenon, <2>0, <2>3, <3>1, <3>2, <1>c, OpenReads
    <2> QED BY Zenon, <1>1, <2>1, <2>2, <2>3 DEF LookupBegin
<1>2. CASE LookupStat(t)
    <2> DEFINE l == [loc[t] EXCEPT !.ver = ip.version]
               known == /\ loc[t].old.has /\ loc[t].old.version = ip.version
                        /\ loc[t].old.exists = ip.exists
               p == IF known THEN "touch" ELSE IF ip.exists THEN "load" ELSE "miss"
    <2>0. UNCHANGED storage /\ UNCHANGED caches /\ pc[t] = "stat" /\ pc[t] \in LookupPC
        BY <1>2, Points DEF LookupStat
    <2>1. CASE resolveClientCache(t, loc[t].old, FALSE)
        BY Zenon, <2>0, <2>1, <1>a, <1>b, <1>c, <1>d, ResolveReads
    <2>2. CASE Finish(t, Error)
        BY Zenon, <2>0, <2>2, <1>c, FailReads
    <2>3. CASE Step(t, p, l) /\ UNCHANGED pending
        <3>1. l.old = loc[t].old
            BY <1>a DEF Local
        <3>2. EntrySound(loc[t].old, ip)
            BY Zenon DEF VersionInv, ThreadSound, LocalSound
        <3>3. Held(ip) \in seen[t]
            BY <1>e, <2>0
        <3>4. known => Confirmed(loc[t].old, seen[t])
            BY Zenon, <3>2, <3>3, StatConfirms
        <3>5. ~ip.exists => HadNone(seen[t])
            <4>1. Held(ip).exists = ip.exists
                BY DEF Held
            <4> QED BY Zenon, <3>3, <4>1 DEF HadNone
        <3>6. /\ p \in {"touch", "miss", "load"}
              /\ p = "touch" => Confirmed(loc[t].old, seen[t])
              /\ p = "miss" => HadNone(seen[t])
            BY <3>4, <3>5
        <3>7. want[t] # "egress"
            BY Zenon, <1>b, <2>0 DEF Reads, TablePC
        <3>8. Step(t, p, l) /\ UNCHANGED <<storage, pending>>
            BY Zenon, <2>0, <2>3
        <3> HIDE DEF l, p
        <3>9. p \in LookupPC /\ Reads(p, want[t], l, seen[t])
            BY Zenon, <3>1, <3>6, <3>7, <1>b DEF Reads, LookupPC, TablePC
        <3> QED BY Zenon, <2>0, <3>8, <3>9, <1>c, StepReads
    <2> QED BY Zenon, <1>2, <2>1, <2>2, <2>3 DEF LookupStat
<1>3. CASE touchClientCache(t)
    <2>0. UNCHANGED storage /\ pc[t] = "touch" /\ pc[t] \in LookupPC /\ dcache' = dcache
        BY Zenon, <1>3, Points DEF touchClientCache
    <2>1. Confirmed(loc[t].old, seen[t])
        BY Zenon, <1>b, <2>0 DEF Reads
    <2>2. Proceeds(t)
        BY Zenon, <1>3, <2>0, <2>1, <1>a, <1>b, <1>d, ResolveReads DEF touchClientCache
    <2>3. \A n \in Node : Enforceable(cache'[n]) /\ Enforceable(dcache'[n])
        BY Zenon, <1>3, <2>0, <1>a, <1>b, StoreReads DEF touchClientCache
    <2> QED BY Zenon, <2>0, <2>2, <2>3
<1>4. CASE LookupMiss(t)
    <2> DEFINE e == [NoEntry EXCEPT !.version = loc[t].ver]
    <2>0. UNCHANGED storage /\ pc[t] = "miss" /\ pc[t] \in LookupPC /\ dcache' = dcache
        BY <1>4, Points DEF LookupMiss
    <2>1. e \in Entry
        BY <1>a, EmptyRecords DEF Entry
    <2>2. e.exists = FALSE /\ e.file = EmptyFile
        BY DEF NoEntry
    <2>3. /\ cache' = [cache EXCEPT ![node(t)] = Cached(t, e)]
          /\ resolveClientCache(t, e, TRUE)
        BY ZenonT(30), <1>4 DEF LookupMiss
    <2> HIDE DEF e
    <2>4. Enforceable(e)
        BY Zenon, <2>2, Nothing DEF Enforceable, Plain
    <2>5. Confirmed(e, seen[t])
        BY Zenon, <2>0, <2>2, <1>b DEF Confirmed, Reads
    <2>6. Proceeds(t)
        BY Zenon, <2>0, <2>1, <2>3, <2>4, <2>5, <1>d, ResolveReads
    <2>7. \A n \in Node : Enforceable(cache'[n]) /\ Enforceable(dcache'[n])
        BY Zenon, <2>0, <2>1, <2>3, <2>4, StoreReads
    <2> QED BY Zenon, <2>0, <2>6, <2>7
<1>5. CASE LookupLoad(t)
    <2> DEFINE x == Skewed(loc[t].ver, ip)
               l == [loc[t] EXCEPT !.rf = ip.file, !.raced = x]
    <2>0. UNCHANGED storage /\ UNCHANGED caches /\ pc[t] = "load" /\ pc[t] \in LookupPC
        BY <1>5, Points DEF LookupLoad
    <2>1. CASE Finish(t, Error)
        BY Zenon, <2>0, <2>1, <1>c, FailReads
    <2>2. ASSUME NEW p \in {"save", "compile"}, Step(t, p, l), UNCHANGED pending
          PROVE  Proceeds(t)
        <3> HIDE DEF x
        <3>1. l.old = loc[t].old /\ l.rf = ip.file
            BY <1>a DEF Local
        <3>2. Had(seen[t], ip.file)
            <4>1. Held(ip).file = ip.file
                BY DEF Held
            <4>2. Held(ip) \in seen[t]
                BY <1>e, <2>0
            <4> QED BY Zenon, <4>1, <4>2, PolicySame DEF Had
        <3>3. want[t] # "egress"
            BY Zenon, <1>b, <2>0 DEF Reads, TablePC
        <3>4. Step(t, p, l) /\ UNCHANGED <<storage, pending>>
            BY Zenon, <2>0, <2>2
        <3> HIDE DEF l
        <3>5. p \in LookupPC /\ Reads(p, want[t], l, seen[t])
            BY Zenon, <3>1, <3>2, <3>3, <1>b DEF Reads, LookupPC, TablePC
        <3> QED BY Zenon, <2>0, <3>4, <3>5, StepReads
    <2> QED BY <1>5, <2>0, <2>1, <2>2, <1>c DEF LookupLoad
<1>6. CASE LookupRestat(t)
    <2> DEFINE l == [loc[t] EXCEPT !.mine = NoVersion]
               b == ip.version # loc[t].mine
               m == [l EXCEPT !.ver = ip.version, !.raced = b]
    <2>0. /\ UNCHANGED storage /\ UNCHANGED caches /\ pc[t] = "restat" /\ pc[t] \in LookupPC
          /\ UNCHANGED <<storage, pending>>
        BY <1>6, Points DEF LookupRestat
    <2>1. Step(t, "compile", l) \/ Step(t, "compile", m)
        BY Zenon, <1>6 DEF LookupRestat
    <2> HIDE DEF b
    <2>2. /\ l.old = loc[t].old /\ l.rf = loc[t].rf
          /\ m.old = loc[t].old /\ m.rf = loc[t].rf
        BY <1>a DEF Local
    <2> HIDE DEF l, m
    <2>3. want[t] # "egress" /\ Had(seen[t], loc[t].rf)
        BY Zenon, <1>b, <2>0 DEF Reads, TablePC
    <2>4. "compile" \in LookupPC
        BY Zenon, Points
    <2>5. Reads("compile", want[t], l, seen[t]) /\ Reads("compile", want[t], m, seen[t])
        BY Zenon, <2>2, <2>3, <1>b DEF Reads, TablePC
    <2> QED BY Zenon, <2>0, <2>1, <2>4, <2>5, <1>c, StepReads
<1>7. CASE LookupCompile(t)
    <2> DEFINE l == loc[t]
               e == Built(l.ver, l.rf, l.old.egress, l.raced)
    <2>0. /\ UNCHANGED storage /\ dcache' = dcache /\ pc[t] = "compile" /\ pc[t] \in LookupPC
          /\ pc[t] # "idle"
        BY <1>7, Points DEF LookupCompile
    <2>1. want[t] # "egress" /\ Had(seen[t], l.rf)
        BY Zenon, <1>b, <2>0 DEF Reads, TablePC
    <2>2. CASE /\ Marshal(l.old.file) = Marshal(l.rf)
               /\ cache' = [cache EXCEPT ![node(t)] = Cached(t, e)]
               /\ Finish(t, Answer(t, "override", e.file, e.egress, ~e.raced))
        <3>f. /\ l.ver \in Version /\ l.rf \in File /\ l.raced \in BOOLEAN
              /\ l.old.egress \in OwnEgress \cup {"empty"}
            BY Zenon, <1>a
        <3>g. HasFields(e, l.rf, l.old.egress, l.raced)
            BY Zenon, <3>f, BuiltFields
        <3>1. /\ e \in Entry /\ e.file = l.rf /\ e.egress = l.old.egress
              /\ e.raced = l.raced /\ (Compiles(l.rf) => Enforceable(e))
            BY Zenon, <3>g DEF HasFields
        <3> HIDE DEF e
        <3>2. l.old.file \in File
            BY Zenon, <1>a DEF Entry
        <3>3. SamePolicy(l.old.file, l.rf)
            BY Zenon, <1>a, <2>2, <3>2, Encoding, PolicySame
        <3>4. Compiles(l.rf) /\ Enforceable(e)
            BY Zenon, <1>b, <3>1, <3>3, CompilesSame DEF Enforceable
        <3>5. (~e.raced) \in BOOLEAN
            BY Zenon
        <3>6. WasHeld(t, "override", e.file)
            BY Zenon, <2>1, <3>1 DEF WasHeld, Had
        <3>7. Honest(t, Answer(t, "override", e.file, e.egress, ~e.raced))
            BY Zenon, <1>a, <2>0, <3>1, <3>4, <3>5, <3>6, AnswerHonest
        <3>8. Proceeds(t)
            BY Zenon, <2>2, <3>7, FinishReads
        <3>9. \A n \in Node : Enforceable(cache'[n]) /\ Enforceable(dcache'[n])
            BY Zenon, <2>0, <2>2, <3>1, <3>4, StoreReads
        <3> QED BY Zenon, <2>0, <3>8, <3>9
    <2>3. CASE Finish(t, Error) /\ UNCHANGED cache
        BY Zenon, <2>0, <2>3, <1>c, FailReads DEF caches
    <2>4. CASE /\ Compiles(l.rf) /\ UNCHANGED <<cache, pending>>
               /\ Step(t, "publish", [l EXCEPT !.old = NoEntry, !.egress = l.rf.egress])
        <3> DEFINE m == [l EXCEPT !.old = NoEntry, !.egress = l.rf.egress]
        <3>1. m.old = NoEntry /\ m.rf = l.rf
            BY <1>a DEF Local
        <3>2. Step(t, "publish", m) /\ "publish" \in LookupPC /\ UNCHANGED <<storage, pending>>
            BY Zenon, <2>0, <2>4, Points
        <3> HIDE DEF m
        <3>3. Reads("publish", want[t], m, seen[t])
            BY <2>1, <2>4, <3>1, Nothing DEF Reads, TablePC
        <3>4. UNCHANGED caches
            BY Zenon, <2>0, <2>4 DEF caches
        <3> QED BY Zenon, <2>0, <3>2, <3>3, <3>4, <1>c, StepReads
    <2>5. CASE /\ Compiles(l.rf) /\ UNCHANGED <<cache, pending>>
               /\ AskTable(t, "egress", [l EXCEPT !.old = NoEntry])
        <3> DEFINE m == [l EXCEPT !.old = NoEntry]
        <3>1. m.old = NoEntry /\ m.rf = l.rf
            BY <1>a DEF Local
        <3>2. AskTable(t, "egress", m) /\ UNCHANGED <<storage, pending>>
            BY Zenon, <2>0, <2>5
        <3> HIDE DEF m
        <3>3. Reads("dbegin", "egress", m, seen[t])
            BY <2>1, <2>5, <3>1, Nothing DEF Reads, TablePC
        <3>4. UNCHANGED caches
            BY Zenon, <2>0, <2>5 DEF caches
        <3> QED BY Zenon, <2>0, <3>2, <3>3, <3>4, <1>c, AskTableReads
    <2> QED BY Zenon, <1>7, <2>2, <2>3, <2>4, <2>5 DEF LookupCompile, Built
<1>8. CASE LookupPublish(t)
    <2> DEFINE l == loc[t]
               e == Built(l.ver, l.rf, l.egress, l.raced)
    <2>0. /\ UNCHANGED storage /\ dcache' = dcache /\ pc[t] = "publish" /\ pc[t] # "idle"
          /\ cache' = [cache EXCEPT ![node(t)] = Cached(t, e)]
          /\ Finish(t, Answer(t, "override", e.file, e.egress, ~e.raced))
        BY <1>8 DEF LookupPublish, Built
    <2>f. /\ l.ver \in Version /\ l.rf \in File /\ l.raced \in BOOLEAN
          /\ l.egress \in OwnEgress \cup {"empty"}
        BY Zenon, <1>a
    <2>g. HasFields(e, l.rf, l.egress, l.raced)
        BY Zenon, <2>f, BuiltFields
    <2>1. /\ e \in Entry /\ e.file = l.rf /\ e.egress = l.egress
          /\ e.raced = l.raced /\ (Compiles(l.rf) => Enforceable(e))
        BY Zenon, <2>g DEF HasFields
    <2> HIDE DEF e
    <2>2. Had(seen[t], l.rf) /\ Compiles(l.rf)
        BY Zenon, <1>b, <2>0 DEF Reads
    <2>3. (~e.raced) \in BOOLEAN /\ WasHeld(t, "override", e.file)
        BY Zenon, <2>1, <2>2 DEF WasHeld, Had
    <2>4. Honest(t, Answer(t, "override", e.file, e.egress, ~e.raced))
        BY Zenon, <1>a, <2>0, <2>1, <2>2, <2>3, AnswerHonest
    <2>5. Proceeds(t)
        BY Zenon, <2>0, <2>4, FinishReads
    <2>6. \A n \in Node : Enforceable(cache'[n]) /\ Enforceable(dcache'[n])
        BY Zenon, <2>0, <2>1, <2>2, StoreReads
    <2> QED BY Zenon, <2>0, <2>5, <2>6
<1> QED BY Zenon, <1>1, <1>2, <1>3, <1>4, <1>5, <1>6, <1>7, <1>8

-----------------------------------------------------------------------------
(* The steps of lookupDefaultTable *)

\* Every step of lookupDefaultTable that writes no file proceeds, and leaves
\* only what compiles in the caches.
LEMMA LookupTableReads ==
    ASSUME TypeOK, VersionInv, ReadInv, NEW t \in Thread,
           \/ TableBegin(t) \/ TableStat(t) \/ TableTouch(t) \/ TableMiss(t)
           \/ TableLoad(t) \/ TableRestat(t) \/ TableCompile(t)
    PROVE  /\ UNCHANGED storage /\ Proceeds(t)
           /\ \A n \in Node : Enforceable(cache'[n]) /\ Enforceable(dcache'[n])
<1>a. /\ node(t) \in Node /\ dloc[t] \in Local /\ dcache[node(t)] \in Entry
      /\ dloc[t].old \in Entry /\ dloc[t].rf \in File /\ dloc[t].ver \in Version
      /\ dloc[t].raced \in BOOLEAN
      /\ default \in Blob /\ default.file \in File /\ default.exists \in BOOLEAN
    BY ConstantsAssumption DEF TypeOK, StorageOK, CachesOK, ThreadsOK, node, Local, Blob
<1>b. /\ ThreadReads(t) /\ Enforceable(dcache[node(t)])
      /\ TableReads(pc[t], dloc[t], dseen[t]) /\ Enforceable(dloc[t].old)
    BY Zenon, <1>a DEF ReadInv, ThreadReads, TableReads
<1>c. UNCHANGED caches => \A n \in Node : Enforceable(cache'[n]) /\ Enforceable(dcache'[n])
    BY Zenon DEF ReadInv, caches
<1>d. FALSE \in BOOLEAN /\ TRUE \in BOOLEAN
    OBVIOUS
<1>e. pc[t] # "idle" => Held(default) \in dseen[t]
    BY Zenon, <1>b DEF ThreadReads, Watched
<1>1. CASE TableBegin(t)
    <2> DEFINE e == dcache[node(t)]
    <2>0. UNCHANGED storage /\ UNCHANGED caches /\ pc[t] = "dbegin" /\ pc[t] \in TablePC
        BY <1>1, Points DEF TableBegin
    <2>1. CASE TableReturns(t, e, FALSE)
        BY Zenon, <2>0, <2>1, <1>a, <1>b, <1>c, <1>d, TableReturnsReads
    <2>2. CASE TableStep(t, "dstat", [NoLocal EXCEPT !.old = Copy(e)]) /\ UNCHANGED pending
        <3> DEFINE l == [NoLocal EXCEPT !.old = Copy(e)]
        <3>1. l.old = Copy(e)
            BY DEF NoLocal
        <3>2. /\ TableStep(t, "dstat", l) /\ "dstat" \in TablePC
              /\ UNCHANGED <<storage, pending>>
            BY Zenon, <2>0, <2>2, Points
        <3> HIDE DEF l
        <3>3. Enforceable(l.old)
            BY Zenon, <1>a, <1>b, <3>1, EnforceableCopies
        <3>4. TableReads("dstat", l, dseen[t])
            BY Zenon, <3>3 DEF TableReads
        <3> QED BY Zenon, <2>0, <3>2, <3>4, <1>c, TableStepReads
    <2> QED BY Zenon, <1>1, <2>1, <2>2 DEF TableBegin
<1>2. CASE TableStat(t)
    <2> DEFINE l == [dloc[t] EXCEPT !.ver = default.version]
               known == /\ dloc[t].old.has /\ dloc[t].old.version = default.version
                        /\ dloc[t].old.exists = default.exists
               p == IF known THEN "dtouch" ELSE IF default.exists THEN "dload" ELSE "dmiss"
    <2>0. UNCHANGED storage /\ UNCHANGED caches /\ pc[t] = "dstat" /\ pc[t] \in TablePC
        BY <1>2, Points DEF TableStat
    <2>1. CASE TableReturns(t, dloc[t].old, FALSE)
        BY Zenon, <2>0, <2>1, <1>a, <1>b, <1>c, <1>d, TableReturnsReads
    <2>2. CASE Finish(t, Error)
        BY Zenon, <2>0, <2>2, <1>c, FailReads
    <2>3. CASE TableStep(t, p, l) /\ UNCHANGED pending
        <3>1. l.old = dloc[t].old
            BY <1>a DEF Local
        <3>2. EntrySound(dloc[t].old, default)
            BY Zenon DEF VersionInv, ThreadSound, LocalSound
        <3>3. Held(default) \in dseen[t]
            BY <1>e, <2>0
        <3>4. known => Confirmed(dloc[t].old, dseen[t])
            BY Zenon, <3>2, <3>3, StatConfirms
        <3>5. ~default.exists => HadNone(dseen[t])
            <4>1. Held(default).exists = default.exists
                BY DEF Held
            <4> QED BY Zenon, <3>3, <4>1 DEF HadNone
        <3>6. /\ p \in {"dtouch", "dmiss", "dload"}
              /\ p = "dtouch" => Confirmed(dloc[t].old, dseen[t])
              /\ p = "dmiss" => HadNone(dseen[t])
            BY <3>4, <3>5
        <3>7. TableStep(t, p, l) /\ UNCHANGED <<storage, pending>>
            BY Zenon, <2>0, <2>3
        <3> HIDE DEF l, p
        <3>8. p \in TablePC /\ TableReads(p, l, dseen[t])
            BY Zenon, <3>1, <3>6, <1>b DEF TableReads, TablePC
        <3> QED BY Zenon, <2>0, <3>7, <3>8, <1>c, TableStepReads
    <2> QED BY Zenon, <1>2, <2>1, <2>2, <2>3 DEF TableStat
<1>3. CASE TableTouch(t)
    <2>0. UNCHANGED storage /\ pc[t] = "dtouch" /\ pc[t] \in TablePC /\ cache' = cache
        BY Zenon, <1>3, Points DEF TableTouch
    <2>1. Confirmed(dloc[t].old, dseen[t])
        BY Zenon, <1>b, <2>0 DEF TableReads
    <2>2. Proceeds(t)
        BY Zenon, <1>3, <2>0, <2>1, <1>a, <1>b, <1>d, TableReturnsReads DEF TableTouch
    <2>3. \A n \in Node : Enforceable(cache'[n]) /\ Enforceable(dcache'[n])
        BY Zenon, <1>3, <2>0, <1>a, <1>b, StoreReads DEF TableTouch
    <2> QED BY Zenon, <2>0, <2>2, <2>3
<1>4. CASE TableMiss(t)
    <2> DEFINE e == [NoEntry EXCEPT !.version = dloc[t].ver]
    <2>0. UNCHANGED storage /\ pc[t] = "dmiss" /\ pc[t] \in TablePC /\ cache' = cache
        BY <1>4, Points DEF TableMiss
    <2>1. e \in Entry
        BY <1>a, EmptyRecords DEF Entry
    <2>2. e.exists = FALSE /\ e.file = EmptyFile
        BY DEF NoEntry
    <2>3. /\ dcache' = [dcache EXCEPT ![node(t)] = Cached(t, e)]
          /\ TableReturns(t, e, TRUE)
        BY ZenonT(30), <1>4 DEF TableMiss
    <2> HIDE DEF e
    <2>4. Enforceable(e)
        BY <2>2, Nothing DEF Enforceable, Plain
    <2>5. Confirmed(e, dseen[t])
        BY Zenon, <2>0, <2>2, <1>b DEF Confirmed, TableReads
    <2>6. Proceeds(t)
        BY Zenon, <2>0, <2>1, <2>3, <2>4, <2>5, <1>d, TableReturnsReads
    <2>7. \A n \in Node : Enforceable(cache'[n]) /\ Enforceable(dcache'[n])
        BY Zenon, <2>0, <2>1, <2>3, <2>4, StoreReads
    <2> QED BY Zenon, <2>0, <2>6, <2>7
<1>5. CASE TableLoad(t)
    <2> DEFINE x == Skewed(dloc[t].ver, default)
               l == [dloc[t] EXCEPT !.old = NoEntry, !.rf = default.file, !.raced = x]
    <2>0. UNCHANGED storage /\ UNCHANGED caches /\ pc[t] = "dload" /\ pc[t] \in TablePC
        BY <1>5, Points DEF TableLoad
    <2>1. CASE Finish(t, Error)
        BY Zenon, <2>0, <2>1, <1>c, FailReads
    <2>2. ASSUME NEW p \in {"dsave", "dcompile"}, TableStep(t, p, l), UNCHANGED pending,
                 default.exists
          PROVE  Proceeds(t)
        <3> HIDE DEF x
        <3>1. l.old = NoEntry /\ l.rf = default.file
            BY <1>a DEF Local
        <3>2. HadFile(dseen[t], default.file)
            <4>1. Held(default).file = default.file /\ Held(default).exists = default.exists
                BY DEF Held
            <4>2. Held(default) \in dseen[t]
                BY <1>e, <2>0
            <4> QED BY Zenon, <2>2, <4>1, <4>2, PolicySame DEF HadFile
        <3>3. TableStep(t, p, l) /\ UNCHANGED <<storage, pending>>
            BY Zenon, <2>0, <2>2
        <3> HIDE DEF l
        <3>4. p \in TablePC /\ TableReads(p, l, dseen[t])
            BY Zenon, <3>1, <3>2, Nothing DEF TableReads, TablePC
        <3> QED BY Zenon, <2>0, <3>3, <3>4, TableStepReads
    <2> QED BY <1>5, <2>0, <2>1, <2>2, <1>c DEF TableLoad
<1>6. CASE TableRestat(t)
    <2> DEFINE l == [dloc[t] EXCEPT !.mine = NoVersion]
               b == default.version # dloc[t].mine
               m == [l EXCEPT !.ver = default.version, !.raced = b]
    <2>0. /\ UNCHANGED storage /\ UNCHANGED caches /\ pc[t] = "drestat" /\ pc[t] \in TablePC
          /\ UNCHANGED <<storage, pending>>
        BY <1>6, Points DEF TableRestat
    <2>1. TableStep(t, "dcompile", l) \/ TableStep(t, "dcompile", m)
        BY Zenon, <1>6 DEF TableRestat
    <2> HIDE DEF b
    <2>2. /\ l.old = dloc[t].old /\ l.rf = dloc[t].rf
          /\ m.old = dloc[t].old /\ m.rf = dloc[t].rf
        BY <1>a DEF Local
    <2> HIDE DEF l, m
    <2>3. HadFile(dseen[t], dloc[t].rf)
        BY Zenon, <1>b, <2>0 DEF TableReads
    <2>4. "dcompile" \in TablePC
        BY Zenon, Points
    <2>5. TableReads("dcompile", l, dseen[t]) /\ TableReads("dcompile", m, dseen[t])
        BY Zenon, <2>2, <2>3, <1>b DEF TableReads
    <2> QED BY Zenon, <2>0, <2>1, <2>4, <2>5, <1>c, TableStepReads
<1>7. CASE TableCompile(t)
    <2> DEFINE l == dloc[t]
               e == Built(l.ver, l.rf, BucketEgress(l.rf), l.raced)
    <2>0. UNCHANGED storage /\ cache' = cache /\ pc[t] = "dcompile" /\ pc[t] \in TablePC
        BY <1>7, Points DEF TableCompile
    <2>1. CASE /\ Compiles(l.rf) /\ dcache' = [dcache EXCEPT ![node(t)] = Cached(t, e)]
               /\ TableReturns(t, e, TRUE)
        <3>1. /\ l.ver \in Version /\ l.rf \in File /\ l.raced \in BOOLEAN
              /\ BucketEgress(l.rf) \in OwnEgress \cup {"empty"}
            BY Zenon, <1>a, Encoding
        <3>2. HasFields(e, l.rf, BucketEgress(l.rf), l.raced)
            BY Zenon, <3>1, BuiltFields
        <3> HIDE DEF e
        <3>3. e \in Entry /\ Enforceable(e) /\ e.file = l.rf /\ e.exists
            BY Zenon, <2>1, <3>2 DEF HasFields
        <3>4. Confirmed(e, dseen[t])
            BY Zenon, <1>b, <2>0, <3>3 DEF TableReads, Confirmed
        <3>5. Proceeds(t)
            BY Zenon, <2>0, <2>1, <3>3, <3>4, <1>d, TableReturnsReads
        <3>6. \A n \in Node : Enforceable(cache'[n]) /\ Enforceable(dcache'[n])
            BY Zenon, <2>0, <2>1, <3>3, StoreReads
        <3> QED BY Zenon, <2>0, <3>5, <3>6
    <2>2. CASE Finish(t, Error) /\ UNCHANGED dcache
        BY Zenon, <2>0, <2>2, <1>c, FailReads DEF caches
    <2> QED BY Zenon, <1>7, <2>1, <2>2 DEF TableCompile, Built
<1> QED BY Zenon, <1>1, <1>2, <1>3, <1>4, <1>5, <1>6, <1>7

-----------------------------------------------------------------------------
(* The steps that write to Storage *)

\* Every running Lookup sees a write of the client's file.
LEMMA SaveSeen ==
    ASSUME TypeOK, ReadInv, NEW f, Save(f)
    PROVE  /\ ip'.exists = TRUE /\ ip'.file = f
           /\ Plain(ip') /\ Plain(default') /\ default' = default /\ dseen' = dseen
           /\ \A r \in Thread :
                 /\ pc[r] = "idle" => seen'[r] = seen[r] /\ dseen'[r] = dseen[r]
                 /\ pc[r] # "idle" => /\ seen'[r] = seen[r] \cup {Held(ip')}
                                      /\ dseen'[r] = dseen[r] \cup {Held(default')}
<1>1. /\ seen' = Watch(seen, ip') /\ default' = default /\ dseen' = dseen
      /\ ip'.exists = TRUE /\ ip'.file = f
    BY DEF Save
<1>2. Plain(ip') /\ Plain(default')
    BY <1>1 DEF ReadInv, Plain
<1>3. ASSUME NEW r \in Thread
      PROVE  /\ pc[r] = "idle" => seen'[r] = seen[r] /\ dseen'[r] = dseen[r]
             /\ pc[r] # "idle" => /\ seen'[r] = seen[r] \cup {Held(ip')}
                                  /\ dseen'[r] = dseen[r] \cup {Held(default')}
    <2>1. pc[r] # "idle" => Held(default) \in dseen[r]
        BY Zenon DEF ReadInv, ThreadReads, Watched
    <2> QED BY <1>1, <2>1 DEF Watch
<1> QED BY Zenon, <1>1, <1>2, <1>3

\* Every running Lookup sees a write of the default table.
LEMMA SaveDefaultSeen ==
    ASSUME TypeOK, ReadInv, NEW f, SaveDefault(f)
    PROVE  /\ default'.exists = TRUE /\ default'.file = f
           /\ Plain(ip') /\ Plain(default') /\ ip' = ip /\ seen' = seen
           /\ \A r \in Thread :
                 /\ pc[r] = "idle" => seen'[r] = seen[r] /\ dseen'[r] = dseen[r]
                 /\ pc[r] # "idle" => /\ seen'[r] = seen[r] \cup {Held(ip')}
                                      /\ dseen'[r] = dseen[r] \cup {Held(default')}
<1>1. /\ dseen' = Watch(dseen, default') /\ ip' = ip /\ seen' = seen
      /\ default'.exists = TRUE /\ default'.file = f
    BY DEF SaveDefault
<1>2. Plain(ip') /\ Plain(default')
    BY <1>1 DEF ReadInv, Plain
<1>3. ASSUME NEW r \in Thread
      PROVE  /\ pc[r] = "idle" => seen'[r] = seen[r] /\ dseen'[r] = dseen[r]
             /\ pc[r] # "idle" => /\ seen'[r] = seen[r] \cup {Held(ip')}
                                  /\ dseen'[r] = dseen[r] \cup {Held(default')}
    <2>1. pc[r] # "idle" => Held(ip) \in seen[r]
        BY Zenon DEF ReadInv, ThreadReads, Watched
    <2> QED BY <1>1, <2>1 DEF Watch
<1> QED BY Zenon, <1>1, <1>2, <1>3

\* A Lookup writes back what it read: the client's file, or the table.
SavesOverride(t) ==
    /\ pc[t] # "idle" /\ pc'[t] # "idle" /\ \A r \in Thread \ {t} : pc'[r] = pc[r]
    /\ \E f \in File : Save(f) /\ Had(seen[t], f)
    /\ UNCHANGED <<writes, result>>

SavesTable(t) ==
    /\ pc[t] # "idle" /\ pc'[t] # "idle" /\ \A r \in Thread \ {t} : pc'[r] = pc[r]
    /\ \E f \in File : SaveDefault(f) /\ HadFile(dseen[t], f)
    /\ UNCHANGED <<writes, result>>

\* lookupIP's mint of a uuid keeps the invariant.
LEMMA LookupSaveReads ==
    ASSUME TypeOK, ReadInv, NEW t \in Thread, LookupSave(t)
    PROVE  /\ ReadInv'
           /\ SavesOverride(t) \/ (UNCHANGED storage /\ Proceeds(t))
<1>a. loc[t] \in Local /\ loc[t].rf \in File
    BY DEF TypeOK, ThreadsOK, Local
<1>b. ThreadReads(t)
    BY Zenon DEF ReadInv
<1>1. PICK u \in Unused(Uuid, UsedUuids) :
          LET f == [loc[t].rf EXCEPT !.uuid = u] IN
          /\ \/ /\ Step(t, "compile", [loc[t] EXCEPT !.rf = f])
                /\ UNCHANGED <<ip, default, seen, dseen>>
             \/ /\ Save(Marshal(f))
                /\ Step(t, "restat", [loc[t] EXCEPT !.rf = f, !.mine = ip'.version])
          /\ UNCHANGED <<flaky, writes, caches, result>>
    BY Zenon DEF LookupSave
<1> DEFINE f == [loc[t].rf EXCEPT !.uuid = u]
<1>2. /\ pc[t] = "save" /\ pc[t] \in LookupPC /\ pc[t] # "idle"
      /\ flaky' = flaky /\ writes' = writes /\ UNCHANGED caches /\ result' = result
    BY Zenon, Points DEF LookupSave
<1>3. /\ f \in File /\ Marshal(f) \in File
      /\ SamePolicy(loc[t].rf, f) /\ SamePolicy(loc[t].rf, Marshal(f))
    BY Zenon, <1>a, MintType, Encoding, PolicySame
<1>c. \/ /\ Step(t, "compile", [loc[t] EXCEPT !.rf = f])
         /\ UNCHANGED <<ip, default, seen, dseen>>
      \/ /\ Save(Marshal(f))
         /\ Step(t, "restat", [loc[t] EXCEPT !.rf = f, !.mine = ip'.version])
    BY Zenon, <1>1
<1> HIDE DEF f
<1>4. /\ Had(seen[t], loc[t].rf) /\ want[t] # "egress" /\ Enforceable(loc[t].old)
    BY Zenon, <1>b, <1>2 DEF ThreadReads, Reads, TablePC
<1>5. Had(seen[t], f) /\ Had(seen[t], Marshal(f))
    BY Zenon, <1>3, <1>4, HadSame
<1>6. \A n \in Node : Enforceable(cache'[n]) /\ Enforceable(dcache'[n])
    BY Zenon, <1>2 DEF ReadInv, caches
<1>7. CASE Step(t, "compile", [loc[t] EXCEPT !.rf = f]) /\ UNCHANGED <<ip, default, seen, dseen>>
    <2> DEFINE m == [loc[t] EXCEPT !.rf = f]
    <2>1. m.old = loc[t].old /\ m.rf = f
        BY <1>a DEF Local
    <2>2. /\ Step(t, "compile", m) /\ "compile" \in LookupPC
          /\ UNCHANGED storage /\ UNCHANGED <<storage, pending>>
        BY Zenon, <1>2, <1>7, Points DEF storage, pending
    <2> HIDE DEF m
    <2>3. Reads("compile", want[t], m, seen[t])
        BY Zenon, <1>4, <1>5, <2>1 DEF Reads, TablePC
    <2>4. Proceeds(t)
        BY Zenon, <1>2, <2>2, <2>3, StepReads
    <2> QED BY Zenon, <1>6, <2>2, <2>4, ProceedsReads
<1>8. CASE /\ Save(Marshal(f))
           /\ Step(t, "restat", [loc[t] EXCEPT !.rf = f, !.mine = ip'.version])
    <2> DEFINE m == [loc[t] EXCEPT !.rf = f, !.mine = ip'.version]
    <2>1. m.old = loc[t].old /\ m.rf = f
        BY <1>a DEF Local
    <2>2. /\ pc'[t] = "restat" /\ want'[t] = want[t] /\ loc'[t] = m /\ dloc'[t] = dloc[t]
          /\ \A r \in Thread \ {t} : /\ pc'[r] = pc[r] /\ want'[r] = want[r]
                                     /\ loc'[r] = loc[r] /\ dloc'[r] = dloc[r]
        BY <1>8 DEF Step, TypeOK, ThreadsOK
    <2> HIDE DEF m
    <2>3. /\ Plain(ip') /\ Plain(default')
          /\ \A r \in Thread :
                /\ pc[r] = "idle" => seen'[r] = seen[r] /\ dseen'[r] = dseen[r]
                /\ pc[r] # "idle" => /\ seen'[r] = seen[r] \cup {Held(ip')}
                                     /\ dseen'[r] = dseen[r] \cup {Held(default')}
        BY Zenon, <1>8, SaveSeen
    <2>4. ASSUME NEW r \in Thread, r # t PROVE ThreadReads(r)'
        <3>1. Undisturbed(r) /\ ThreadReads(r)
            BY Zenon, <1>2, <2>2, <2>3, <2>4 DEF Undisturbed, ReadInv
        <3> QED BY Zenon, <2>3, <3>1, UndisturbedReads
    <2>5. ThreadReads(t)'
        <3>1. /\ seen'[t] = seen[t] \cup {Held(ip')}
              /\ dseen'[t] = dseen[t] \cup {Held(default')}
            BY Zenon, <1>2, <2>3
        <3>2. seen[t] \subseteq seen'[t] /\ dseen[t] \subseteq dseen'[t]
            BY <3>1
        <3>3. Had(seen'[t], f)
            BY Zenon, <1>5, <3>2, MoreSeen
        <3>4. Reads("restat", want[t], m, seen'[t])
            BY Zenon, <1>4, <2>1, <3>3 DEF Reads, TablePC
        <3>5. TableReads("restat", dloc[t], dseen'[t])
            BY <1>b DEF ThreadReads, TableReads
        <3>6. /\ Held(ip') \in seen'[t] /\ Held(default') \in dseen'[t]
              /\ \A h \in seen'[t] : h \in seen[t] \/ h = Held(ip')
              /\ \A h \in dseen'[t] : h \in dseen[t] \/ h = Held(default')
            BY <3>1
        <3>7. Watched(t)'
            BY Zenon, <1>b, <2>3, <3>6, HeldPlain DEF Watched, ThreadReads
        <3>8. Answered(t)'
            BY Zenon, <1>b, <1>2 DEF Answered, ThreadReads
        <3> QED BY Zenon, <2>2, <3>4, <3>5, <3>7, <3>8 DEF ThreadReads
    <2>6. ReadInv'
        BY Zenon, <1>6, <2>3, <2>4, <2>5 DEF ReadInv
    <2>7. SavesOverride(t)
        BY Zenon, <1>2, <1>3, <1>5, <1>8, <2>2 DEF SavesOverride
    <2> QED BY Zenon, <2>6, <2>7
<1> QED BY Zenon, <1>c, <1>7, <1>8

\* lookupDefaultTable's mint of a uuid keeps the invariant.
LEMMA TableSaveReads ==
    ASSUME TypeOK, ReadInv, NEW t \in Thread, TableSave(t)
    PROVE  /\ ReadInv'
           /\ SavesTable(t) \/ (UNCHANGED storage /\ Proceeds(t))
<1>a. dloc[t] \in Local /\ dloc[t].rf \in File
    BY DEF TypeOK, ThreadsOK, Local
<1>b. ThreadReads(t)
    BY Zenon DEF ReadInv
<1>1. PICK u \in Unused(Uuid, UsedUuids) :
          LET f == [dloc[t].rf EXCEPT !.uuid = u] IN
          /\ \/ /\ TableStep(t, "dcompile", [dloc[t] EXCEPT !.rf = f])
                /\ UNCHANGED <<ip, default, seen, dseen>>
             \/ /\ SaveDefault(Marshal(f))
                /\ TableStep(t, "drestat",
                             [dloc[t] EXCEPT !.rf = f, !.mine = default'.version])
          /\ UNCHANGED <<flaky, writes, caches, result>>
    BY Zenon DEF TableSave
<1> DEFINE f == [dloc[t].rf EXCEPT !.uuid = u]
<1>2. /\ pc[t] = "dsave" /\ pc[t] \in TablePC /\ pc[t] # "idle"
      /\ flaky' = flaky /\ writes' = writes /\ UNCHANGED caches /\ result' = result
    BY Zenon, Points DEF TableSave
<1>3. /\ f \in File /\ Marshal(f) \in File
      /\ SamePolicy(dloc[t].rf, f) /\ SamePolicy(dloc[t].rf, Marshal(f))
    BY Zenon, <1>a, MintType, Encoding, PolicySame
<1>c. \/ /\ TableStep(t, "dcompile", [dloc[t] EXCEPT !.rf = f])
         /\ UNCHANGED <<ip, default, seen, dseen>>
      \/ /\ SaveDefault(Marshal(f))
         /\ TableStep(t, "drestat", [dloc[t] EXCEPT !.rf = f, !.mine = default'.version])
    BY Zenon, <1>1
<1> HIDE DEF f
<1>4. HadFile(dseen[t], dloc[t].rf) /\ Enforceable(dloc[t].old)
    BY <1>b, <1>2 DEF ThreadReads, TableReads
<1>5. HadFile(dseen[t], f) /\ HadFile(dseen[t], Marshal(f))
    BY Zenon, <1>3, <1>4, HadSame
<1>6. \A n \in Node : Enforceable(cache'[n]) /\ Enforceable(dcache'[n])
    BY Zenon, <1>2 DEF ReadInv, caches
<1>7. CASE /\ TableStep(t, "dcompile", [dloc[t] EXCEPT !.rf = f])
           /\ UNCHANGED <<ip, default, seen, dseen>>
    <2> DEFINE m == [dloc[t] EXCEPT !.rf = f]
    <2>1. m.old = dloc[t].old /\ m.rf = f
        BY <1>a DEF Local
    <2>2. /\ TableStep(t, "dcompile", m) /\ "dcompile" \in TablePC
          /\ UNCHANGED storage /\ UNCHANGED <<storage, pending>>
        BY Zenon, <1>2, <1>7, Points DEF storage, pending
    <2> HIDE DEF m
    <2>3. TableReads("dcompile", m, dseen[t])
        BY Zenon, <1>4, <1>5, <2>1 DEF TableReads
    <2>4. Proceeds(t)
        BY Zenon, <1>2, <2>2, <2>3, TableStepReads
    <2> QED BY Zenon, <1>6, <2>2, <2>4, ProceedsReads
<1>8. CASE /\ SaveDefault(Marshal(f))
           /\ TableStep(t, "drestat", [dloc[t] EXCEPT !.rf = f, !.mine = default'.version])
    <2> DEFINE m == [dloc[t] EXCEPT !.rf = f, !.mine = default'.version]
    <2>1. m.old = dloc[t].old /\ m.rf = f
        BY <1>a DEF Local
    <2>2. /\ pc'[t] = "drestat" /\ want'[t] = want[t] /\ loc'[t] = loc[t] /\ dloc'[t] = m
          /\ \A r \in Thread \ {t} : /\ pc'[r] = pc[r] /\ want'[r] = want[r]
                                     /\ loc'[r] = loc[r] /\ dloc'[r] = dloc[r]
        BY <1>8 DEF TableStep, TypeOK, ThreadsOK
    <2> HIDE DEF m
    <2>3. /\ Plain(ip') /\ Plain(default')
          /\ \A r \in Thread :
                /\ pc[r] = "idle" => seen'[r] = seen[r] /\ dseen'[r] = dseen[r]
                /\ pc[r] # "idle" => /\ seen'[r] = seen[r] \cup {Held(ip')}
                                     /\ dseen'[r] = dseen[r] \cup {Held(default')}
        BY Zenon, <1>8, SaveDefaultSeen
    <2>4. ASSUME NEW r \in Thread, r # t PROVE ThreadReads(r)'
        <3>1. Undisturbed(r) /\ ThreadReads(r)
            BY Zenon, <1>2, <2>2, <2>3, <2>4 DEF Undisturbed, ReadInv
        <3> QED BY Zenon, <2>3, <3>1, UndisturbedReads
    <2>5. ThreadReads(t)'
        <3>1. /\ seen'[t] = seen[t] \cup {Held(ip')}
              /\ dseen'[t] = dseen[t] \cup {Held(default')}
            BY Zenon, <1>2, <2>3
        <3>2. seen[t] \subseteq seen'[t] /\ dseen[t] \subseteq dseen'[t]
            BY <3>1
        <3>3. HadFile(dseen'[t], f)
            BY Zenon, <1>5, <3>2, MoreSeen
        <3>4. TableReads("drestat", m, dseen'[t])
            BY Zenon, <1>4, <2>1, <3>3 DEF TableReads
        <3>5. Reads("drestat", want[t], loc[t], seen[t])
            BY Zenon, <1>b, <1>2 DEF ThreadReads, Reads, TablePC
        <3>a. Reads("drestat", want[t], loc[t], seen'[t])
            BY Zenon, <3>2, <3>5, StillReads
        <3>6. /\ Held(ip') \in seen'[t] /\ Held(default') \in dseen'[t]
              /\ \A h \in seen'[t] : h \in seen[t] \/ h = Held(ip')
              /\ \A h \in dseen'[t] : h \in dseen[t] \/ h = Held(default')
            BY <3>1
        <3>7. Watched(t)'
            BY Zenon, <1>b, <2>3, <3>6, HeldPlain DEF Watched, ThreadReads
        <3>8. Answered(t)'
            BY Zenon, <1>b, <1>2 DEF Answered, ThreadReads
        <3> QED BY Zenon, <2>2, <3>4, <3>a, <3>7, <3>8 DEF ThreadReads
    <2>6. ReadInv'
        BY Zenon, <1>6, <2>3, <2>4, <2>5 DEF ReadInv
    <2>7. SavesTable(t)
        BY Zenon, <1>2, <1>3, <1>5, <1>8, <2>2 DEF SavesTable
    <2> QED BY Zenon, <2>6, <2>7
<1> QED BY Zenon, <1>c, <1>7, <1>8

-----------------------------------------------------------------------------
(* Operators, time and Storage *)

\* What an operator writes: the client's file, its deletion, or the table.
OperatorWrites ==
    \/ \E f \in File : Save(f)
    \/ ip' = Absent /\ seen' = Watch(seen, Absent) /\ UNCHANGED <<default, dseen>>
    \/ \E f \in File : SaveDefault(f)

\* The writes of the admin API and of an editor are of this form.
LEMMA OperatorForms ==
    ASSUME handlePutRule \/ handleDeleteRule \/ handlePutDefault \/ HandEdit
    PROVE  /\ OperatorWrites /\ writes' = writes + 1 /\ writes < MaxWrites
           /\ UNCHANGED <<flaky, caches, threads>>
<1>1. CASE handlePutRule
    BY Zenon, <1>1, ConstantsAssumption DEF handlePutRule, OperatorWrites
<1>2. CASE handleDeleteRule
    BY Zenon, <1>2 DEF handleDeleteRule, OperatorWrites
<1>3. CASE handlePutDefault
    BY Zenon, <1>3, ConstantsAssumption, Encoding DEF handlePutDefault, OperatorWrites
<1>4. CASE HandEdit
    BY Zenon, <1>4, ConstantsAssumption DEF HandEdit, OperatorWrites
<1> QED BY Zenon, <1>1, <1>2, <1>3, <1>4

\* Every running Lookup sees what an operator writes.
LEMMA OperatorSeen ==
    ASSUME TypeOK, ReadInv, OperatorWrites
    PROVE  /\ Plain(ip') /\ Plain(default')
           /\ \A r \in Thread :
                 /\ pc[r] = "idle" => seen'[r] = seen[r] /\ dseen'[r] = dseen[r]
                 /\ pc[r] # "idle" => /\ seen'[r] = seen[r] \cup {Held(ip')}
                                      /\ dseen'[r] = dseen[r] \cup {Held(default')}
<1>1. CASE ip' = Absent /\ seen' = Watch(seen, Absent) /\ UNCHANGED <<default, dseen>>
    <2>1. Plain(ip') /\ Plain(default')
        BY Zenon, <1>1, Nothing DEF ReadInv, Plain
    <2>2. ASSUME NEW r \in Thread
          PROVE  /\ pc[r] = "idle" => seen'[r] = seen[r] /\ dseen'[r] = dseen[r]
                 /\ pc[r] # "idle" => /\ seen'[r] = seen[r] \cup {Held(ip')}
                                      /\ dseen'[r] = dseen[r] \cup {Held(default')}
        <3>1. pc[r] # "idle" => Held(default) \in dseen[r]
            BY Zenon DEF ReadInv, ThreadReads, Watched
        <3> QED BY <1>1, <3>1 DEF Watch
    <2> QED BY Zenon, <2>1, <2>2
<1> QED BY Zenon, <1>1, SaveSeen, SaveDefaultSeen DEF OperatorWrites

\* An operator's write keeps the invariant.
LEMMA OperatorReads ==
    ASSUME TypeOK, ReadInv, OperatorWrites, UNCHANGED <<flaky, caches, threads>>
    PROVE  ReadInv'
<1>1. /\ cache' = cache /\ dcache' = dcache /\ pc' = pc /\ want' = want /\ loc' = loc
      /\ dloc' = dloc /\ result' = result
    BY Zenon DEF caches, threads
<1>2. ASSUME NEW r \in Thread PROVE ThreadReads(r)'
    <2>1. Undisturbed(r) /\ ThreadReads(r)
        BY Zenon, <1>1, OperatorSeen DEF Undisturbed, ReadInv
    <2> QED BY Zenon, <2>1, OperatorSeen, UndisturbedReads
<1> QED BY Zenon, <1>1, <1>2, OperatorSeen DEF ReadInv

\* Expiry and recovery leave Storage, the answers and the histories alone.
LEMMA QuietReads ==
    ASSUME TypeOK, ReadInv, UNCHANGED <<ip, default, threads, seen, dseen>>,
           \/ UNCHANGED caches
           \/ \E n \in Node : ExpireClient(n) \/ ExpireDefault(n)
    PROVE  ReadInv'
<1>1. /\ ip' = ip /\ default' = default /\ pc' = pc /\ want' = want /\ loc' = loc
      /\ dloc' = dloc /\ result' = result /\ seen' = seen /\ dseen' = dseen
    BY Zenon DEF threads
<1>2. ASSUME NEW r \in Thread PROVE ThreadReads(r)'
    BY Zenon, <1>1 DEF ReadInv, ThreadReads, Watched, Answered
<1>3. \A n \in Node : Enforceable(cache'[n]) /\ Enforceable(dcache'[n])
    <2>1. CASE UNCHANGED caches
        BY Zenon, <2>1 DEF ReadInv, caches
    <2>2. ASSUME NEW m \in Node, ExpireClient(m)
          PROVE  \A n \in Node : Enforceable(cache'[n]) /\ Enforceable(dcache'[n])
        <3>1. /\ cache' = [cache EXCEPT ![m] = Copy(cache[m])] /\ dcache' = dcache
            BY <2>2 DEF ExpireClient, Copy
        <3>2. Copy(cache[m]).file = cache[m].file /\ Copy(cache[m]).exists = cache[m].exists
            BY DEF Copy, TypeOK, CachesOK, Entry
        <3>3. Enforceable(Copy(cache[m]))
            BY Zenon, <3>2 DEF ReadInv, Enforceable, Plain
        <3> QED BY <3>1, <3>3 DEF ReadInv, TypeOK, CachesOK
    <2>3. ASSUME NEW m \in Node, ExpireDefault(m)
          PROVE  \A n \in Node : Enforceable(cache'[n]) /\ Enforceable(dcache'[n])
        <3>1. /\ dcache' = [dcache EXCEPT ![m] = Copy(dcache[m])] /\ cache' = cache
            BY <2>3 DEF ExpireDefault, Copy
        <3>2. /\ Copy(dcache[m]).file = dcache[m].file
              /\ Copy(dcache[m]).exists = dcache[m].exists
            BY DEF Copy, TypeOK, CachesOK, Entry
        <3>3. Enforceable(Copy(dcache[m]))
            BY Zenon, <3>2 DEF ReadInv, Enforceable, Plain
        <3> QED BY <3>1, <3>3 DEF ReadInv, TypeOK, CachesOK
    <2> QED BY Zenon, <2>1, <2>2, <2>3
<1> QED BY Zenon, <1>1, <1>2, <1>3 DEF ReadInv

-----------------------------------------------------------------------------
(* Every behaviour *)

\* The invariant holds when the engines start.
LEMMA InitReads == Init => ReadInv
<1> SUFFICES ASSUME Init PROVE ReadInv
    OBVIOUS
<1>1. Plain(ip) /\ Plain(default)
    BY Nothing DEF Init, Plain, Seeded
<1>2. \A n \in Node : Enforceable(cache[n]) /\ Enforceable(dcache[n])
    BY Nothing DEF Init
<1>3. ASSUME NEW t \in Thread PROVE ThreadReads(t)
    <2>1. /\ pc[t] = "idle" /\ want[t] = "bucket" /\ loc[t] = NoLocal /\ dloc[t] = NoLocal
          /\ result[t] = NoResult /\ seen[t] = {} /\ dseen[t] = {}
        BY DEF Init
    <2>2. Watched(t)
        BY <2>1 DEF Watched
    <2>3. Answered(t)
        BY <2>1, Nothing DEF Answered
    <2> QED BY Zenon, <2>1, <2>2, <2>3, IdleReads DEF ThreadReads
<1> QED BY Zenon, <1>1, <1>2, <1>3 DEF ReadInv

\* A Lookup's steps: it proceeds, or writes back what it read.
LEMMA ThreadReadsOn ==
    ASSUME TypeOK, VersionInv, ReadInv, NEW t \in Thread, LookupBegin(t) \/ Lookup(t)
    PROVE  /\ ReadInv'
           /\ \/ UNCHANGED storage /\ Proceeds(t)
              \/ SavesOverride(t) \/ SavesTable(t)
<1>1. CASE LookupSave(t)
    BY Zenon, <1>1, LookupSaveReads
<1>2. CASE TableSave(t)
    BY Zenon, <1>2, TableSaveReads
<1>3. CASE \/ LookupBegin(t) \/ LookupStat(t) \/ touchClientCache(t) \/ LookupMiss(t)
           \/ LookupLoad(t) \/ LookupRestat(t) \/ LookupCompile(t) \/ LookupPublish(t)
    BY Zenon, <1>3, LookupReads, ProceedsReads
<1>4. CASE \/ TableBegin(t) \/ TableStat(t) \/ TableTouch(t) \/ TableMiss(t)
           \/ TableLoad(t) \/ TableRestat(t) \/ TableCompile(t)
    BY Zenon, <1>4, LookupTableReads, ProceedsReads
<1> QED BY Zenon, <1>1, <1>2, <1>3, <1>4 DEF Lookup

\* What a step is when no Lookup takes it.
LEMMA QuietSteps ==
    ASSUME \/ \E n \in Node : ExpireClient(n) \/ ExpireDefault(n)
           \/ Recover \/ UNCHANGED vars
    PROVE  /\ UNCHANGED <<ip, default, threads, seen, dseen>> /\ writes' = writes
           /\ \/ UNCHANGED caches
              \/ \E n \in Node : ExpireClient(n) \/ ExpireDefault(n)
BY Zenon DEF ExpireClient, ExpireDefault, Recover, storage, vars, threads, caches

\* Every step keeps the invariant.
LEMMA NextReads == TypeOK /\ VersionInv /\ ReadInv /\ [Next]_vars => ReadInv'
<1> SUFFICES ASSUME TypeOK, VersionInv, ReadInv, [Next]_vars PROVE ReadInv'
    OBVIOUS
<1>1. CASE \E t \in Thread : LookupBegin(t) \/ Lookup(t)
    BY Zenon, <1>1, ThreadReadsOn
<1>2. CASE handlePutRule \/ handleDeleteRule \/ handlePutDefault \/ HandEdit
    BY Zenon, <1>2, OperatorForms, OperatorReads
<1>3. CASE (\E n \in Node : ExpireClient(n) \/ ExpireDefault(n)) \/ Recover \/ UNCHANGED vars
    BY Zenon, <1>3, QuietSteps, QuietReads
<1> QED BY Zenon, <1>1, <1>2, <1>3 DEF Next

\* All three invariants hold of every behaviour.
LEMMA Inductive == Spec => [](TypeOK /\ VersionInv /\ ReadInv)
BY InitTypes, NextTypes, InitSound, NextSound, InitReads, NextReads, PTL DEF Spec

\* A rule file that does not parse or compile is never enforced and never
\* cached, whatever is edited in Storage while Lookups run: lookupIP and
\* lookupDefaultTable fail the connection instead.
THEOREM NothingBrokenEnforced == Spec => []FailsClosed
<1>1. ReadInv => FailsClosed
    BY Zenon DEF ReadInv, ThreadReads, Answered, Enforceable, FailsClosed
<1> QED BY Inductive, <1>1, PTL

\* A Lookup that confirmed its versions answers with a policy Storage held
\* between its call and its return, in every fleet and on both backends.
THEOREM ConfirmedIsCurrent == Spec => []ConfirmedLookupIsCurrent
<1>1. ReadInv => ConfirmedLookupIsCurrent
    BY Zenon DEF ReadInv, ThreadReads, Answered, ConfirmedLookupIsCurrent
<1> QED BY Inductive, <1>1, PTL

-----------------------------------------------------------------------------
(* The engine implements the register                                      *)

\* What the refinement mapping of Register makes of the engine's state.
View(S) == {PolicyOf(h) : h \in S}
AnswerOf(r) == [kind |-> r.kind, rules |-> r.http, sure |-> r.sure]
Busy == [t \in Thread |-> pc[t] # "idle"]
Saw == [t \in Thread |-> View(seen[t])]
TSaw == [t \in Thread |-> View(dseen[t])]
Answers == [t \in Thread |-> AnswerOf(result[t])]

\* A view is built blob by blob.
LEMMA Views ==
    /\ View({}) = {}
    /\ \A b : View({Held(b)}) = {PolicyOf(b)}
    /\ \A S, b : View(S \cup {Held(b)}) = View(S) \cup {PolicyOf(b)}
    /\ \A S : \A h \in S : PolicyOf(h) \in View(S)
<1>1. \A b : PolicyOf(Held(b)) = PolicyOf(b)
    BY DEF PolicyOf, Held
<1>2. View({}) = {}
    BY DEF View
<1>3. ASSUME NEW b PROVE View({Held(b)}) = {PolicyOf(b)}
    BY <1>1 DEF View
<1>4. ASSUME NEW S, NEW b PROVE View(S \cup {Held(b)}) = View(S) \cup {PolicyOf(b)}
    BY <1>1 DEF View
<1>5. ASSUME NEW S, NEW h \in S PROVE PolicyOf(h) \in View(S)
    BY Zenon DEF View
<1> QED BY Zenon, <1>2, <1>3, <1>4, <1>5

\* Blobs map to policies and results to answers.
LEMMA MappedTypes ==
    /\ \A b \in Blob : PolicyOf(b) \in Register!Policy
    /\ \A r \in Result : AnswerOf(r) \in Register!Answer
<1>1. ASSUME NEW b \in Blob PROVE PolicyOf(b) \in Register!Policy
    BY DEF Blob, File, PolicyOf, Register!Policy
<1>2. ASSUME NEW r \in Result PROVE AnswerOf(r) \in Register!Answer
    <2>1. /\ r.kind \in Register!Kinds \cup {"none", "error"} /\ r.sure \in BOOLEAN
          /\ r.http \in Http \cup {"none", "garbled", "invalid"}
        BY DEF Result, Register!Kinds
    <2> QED BY Zenon, <2>1 DEF AnswerOf, Register!Answer
<1> QED BY Zenon, <1>1, <1>2

\* The initial states are initial states of the register.
LEMMA InitRegister == Init => Register!Init
<1> SUFFICES ASSUME Init PROVE Register!Init
    OBVIOUS
<1>1. PolicyOf(ip) \in Register!Policy /\ PolicyOf(default) \in Register!Policy
    BY Zenon, EmptyRecords, MappedTypes DEF Init
<1>2. Busy = [t \in Thread |-> FALSE]
    BY Zenon DEF Busy, Init
<1>3. Saw = [t \in Thread |-> {}] /\ TSaw = [t \in Thread |-> {}]
    BY Views DEF Saw, TSaw, Init
<1>4. Answers \in [Thread -> {a \in Register!Answer : a.kind = "none"}]
    <2>1. AnswerOf(NoResult) \in Register!Answer
        BY Zenon, EmptyRecords, MappedTypes
    <2>2. AnswerOf(NoResult).kind = "none"
        BY Nothing DEF AnswerOf
    <2> QED BY <2>1, <2>2 DEF Answers, Init
<1>5. writes = 0
    BY DEF Init
<1> QED BY Zenon, <1>1, <1>2, <1>3, <1>4, <1>5
        DEF Register!Init, Busy, Saw, TSaw, Answers, View, AnswerOf

\* A step that shows nothing is a stutter of the register.
LEMMA StutterStep ==
    ASSUME TypeOK, PolicyOf(ip)' = PolicyOf(ip), PolicyOf(default)' = PolicyOf(default),
           writes' = writes, result' = result, seen' = seen, dseen' = dseen,
           \A r \in Thread : (pc'[r] # "idle") = (pc[r] # "idle")
    PROVE  UNCHANGED Register!vars
<1>1. Busy' = Busy
    BY DEF Busy
<1>2. Saw' = Saw /\ TSaw' = TSaw /\ Answers' = Answers
    BY Zenon DEF Saw, TSaw, Answers
<1> QED BY Zenon, <1>1, <1>2
        DEF Register!vars, Busy, Saw, TSaw, Answers, View, AnswerOf

\* The call of Lookup.
LEMMA BeginStep ==
    ASSUME TypeOK, UNCHANGED storage, NEW t \in Thread, Alone(t), pc[t] = "idle",
           pc'[t] # "idle", Open(t)
    PROVE  Register!Begin(t)
<1>1. ip' = ip /\ default' = default /\ writes' = writes
    BY Zenon DEF storage
<1>2. Busy' = [Busy EXCEPT ![t] = TRUE] /\ ~Busy[t]
    BY Zenon DEF Busy, Alone
<1>3. /\ Saw' = [Saw EXCEPT ![t] = {PolicyOf(ip)}]
      /\ TSaw' = [TSaw EXCEPT ![t] = {PolicyOf(default)}]
    <2>1. \A r \in Thread : /\ seen'[r] = IF r = t THEN {Held(ip)} ELSE seen[r]
                            /\ dseen'[r] = IF r = t THEN {Held(default)} ELSE dseen[r]
        BY DEF Open, TypeOK, HistoryOK
    <2> QED BY Zenon, <2>1, Views DEF Saw, TSaw
<1>4. Answers'[t] = AnswerOf(NoResult) /\ Answers' = [Answers EXCEPT ![t] = Answers'[t]]
    <2>1. \A r \in Thread : result'[r] = IF r = t THEN NoResult ELSE result[r]
        BY DEF Open, TypeOK, HistoryOK
    <2> QED BY Zenon, <2>1 DEF Answers
<1>5. AnswerOf(NoResult) \in Register!Answer /\ AnswerOf(NoResult).kind = "none"
    BY Nothing, EmptyRecords, MappedTypes DEF AnswerOf
<1>6. Answers'[t] \in Register!Answer /\ Answers'[t].kind = "none"
    BY Zenon, <1>4, <1>5
<1> QED BY Zenon, <1>1, <1>2, <1>3, <1>4, <1>6
        DEF Register!Begin, Register!Reply, Register!register,
            Busy, Saw, TSaw, Answers, View, AnswerOf

\* The return of Lookup, with an honest answer: the end of a call that ran, or
\* the recall of what is still fresh.
LEMMA EndStep ==
    ASSUME TypeOK, UNCHANGED storage, NEW t \in Thread, Alone(t), pc'[t] = "idle",
           NEW a, Honest(t, a), Replies(t, a)
    PROVE  Register!End(t) \/ Register!Recall(t)
<1>1. ip' = ip /\ default' = default /\ writes' = writes
    BY Zenon DEF storage
<1>2. Saw' = [Saw EXCEPT ![t] = {}] /\ TSaw' = [TSaw EXCEPT ![t] = {}]
    <2>1. \A r \in Thread : /\ seen'[r] = IF r = t THEN {} ELSE seen[r]
                            /\ dseen'[r] = IF r = t THEN {} ELSE dseen[r]
        BY DEF Replies, TypeOK, HistoryOK
    <2> QED BY Zenon, <2>1, Views DEF Saw, TSaw
<1>3. Answers'[t] = AnswerOf(a) /\ Answers' = [Answers EXCEPT ![t] = Answers'[t]]
    <2>1. \A r \in Thread : result'[r] = IF r = t THEN a ELSE result[r]
        BY DEF Replies, TypeOK, HistoryOK
    <2> QED BY Zenon, <2>1 DEF Answers
<1>4. AnswerOf(a) \in Register!Answer
    BY Zenon, MappedTypes DEF Honest
<1>5. AnswerOf(a).kind = a.kind /\ AnswerOf(a).rules = a.http /\ AnswerOf(a).sure = a.sure
    BY Zenon DEF AnswerOf
<1>6. Answers'[t] \in Register!Answer /\ Answers'[t].kind # "none"
    BY Zenon, <1>3, <1>4, <1>5 DEF Honest
<1>7. CASE pc[t] # "idle"
    <2>1. Busy[t] /\ Busy' = [Busy EXCEPT ![t] = FALSE]
        BY Zenon, <1>7 DEF Busy, Alone
    <2>2. ASSUME a.sure
          PROVE  \/ a.kind = "override" /\ \E p \in Saw[t] : p.rules = a.http
                 \/ /\ a.kind \in {"default", "empty"}
                    /\ \E p \in Saw[t] : ~p.exists
                    /\ \E p \in TSaw[t] : p.exists = (a.kind = "default") /\ p.rules = a.http
        <3>0. Saw[t] = View(seen[t]) /\ TSaw[t] = View(dseen[t])
            BY DEF Saw, TSaw
        <3>1. \A h : PolicyOf(h).exists = h.exists /\ PolicyOf(h).rules = h.file.http
            BY Zenon DEF PolicyOf
        <3>2. CASE a.kind = "override" /\ \E h \in seen[t] : h.file.http = a.http
            BY Zenon, <3>0, <3>1, <3>2, Views
        <3>3. CASE /\ a.kind \in {"default", "empty"}
                   /\ \E h \in seen[t] : ~h.exists
                   /\ \E h \in dseen[t] :
                         h.exists = (a.kind = "default") /\ h.file.http = a.http
            <4>1. PICK h \in seen[t] : ~h.exists
                BY Zenon, <3>3
            <4>2. PICK g \in dseen[t] :
                      g.exists = (a.kind = "default") /\ g.file.http = a.http
                BY Zenon, <3>3
            <4>3. PolicyOf(h) \in Saw[t] /\ PolicyOf(g) \in TSaw[t]
                BY Zenon, <3>0, <4>1, <4>2, Views
            <4> QED BY Zenon, <3>1, <3>3, <4>1, <4>2, <4>3
        <3> QED BY Zenon, <2>2, <3>2, <3>3 DEF Honest
    <2>3. a.sure => Register!Held(t, AnswerOf(a))
        BY Zenon, <2>2, <1>5 DEF Register!Held, Saw, TSaw, View
    <2>4. Answers'[t].sure => Register!Held(t, Answers'[t])
        BY Zenon, <2>3, <1>3, <1>5
    <2>5. Register!End(t)
        BY Zenon, <1>1, <1>2, <1>3, <1>6, <2>1, <2>4
        DEF Register!End, Register!Reply, Register!register,
            Busy, Saw, TSaw, Answers, View, AnswerOf
    <2> QED BY Zenon, <2>5
<1>8. CASE pc[t] = "idle"
    <2>1. ~Busy[t] /\ Busy' = Busy
        BY Zenon, <1>8 DEF Busy, Alone
    <2>2. ~Answers'[t].sure
        BY Zenon, <1>3, <1>5, <1>8 DEF Honest
    <2>3. Register!Recall(t)
        BY Zenon, <1>1, <1>2, <1>3, <1>6, <2>1, <2>2
        DEF Register!Recall, Register!Reply, Register!register,
            Busy, Saw, TSaw, Answers, View, AnswerOf
    <2> QED BY Zenon, <2>3
<1> QED BY Zenon, <1>7, <1>8

\* Whatever writes to Storage, each running Lookup observes it.
LEMMA AllObserve ==
    ASSUME TypeOK,
           \A r \in Thread :
              /\ pc[r] = "idle" => seen'[r] = seen[r] /\ dseen'[r] = dseen[r]
              /\ pc[r] # "idle" => /\ seen'[r] = seen[r] \cup {Held(ip')}
                                   /\ dseen'[r] = dseen[r] \cup {Held(default')}
    PROVE  Register!ObserveAll
<1>1. Saw' = [r \in Thread |-> IF Busy[r] THEN Saw[r] \cup {PolicyOf(ip')} ELSE Saw[r]]
    <2>1. ASSUME NEW r \in Thread
          PROVE  View(seen'[r]) = IF pc[r] # "idle" THEN View(seen[r]) \cup {PolicyOf(ip')}
                                                    ELSE View(seen[r])
        BY Zenon, Views
    <2> QED BY Zenon, <2>1 DEF Saw, Busy
<1>2. TSaw' = [r \in Thread |-> IF Busy[r] THEN TSaw[r] \cup {PolicyOf(default')}
                                           ELSE TSaw[r]]
    <2>1. ASSUME NEW r \in Thread
          PROVE  View(dseen'[r]) =
                    IF pc[r] # "idle" THEN View(dseen[r]) \cup {PolicyOf(default')}
                                      ELSE View(dseen[r])
        BY Zenon, Views
    <2> QED BY Zenon, <2>1 DEF TSaw, Busy
<1> QED BY Zenon, <1>1, <1>2 DEF Register!ObserveAll, Register!Observed, Busy, Saw, TSaw, View

\* An operator's write is a write of the register.
LEMMA WriteStep ==
    ASSUME TypeOK, TypeOK', ReadInv, OperatorWrites, writes' = writes + 1,
           UNCHANGED <<flaky, caches, threads>>
    PROVE  Register!Write
<1>1. PolicyOf(ip') \in Register!Policy /\ PolicyOf(default') \in Register!Policy
    BY Zenon, MappedTypes DEF TypeOK, StorageOK
<1>2. ip' = ip \/ default' = default
    BY Zenon DEF OperatorWrites, Save, SaveDefault
<1>3. Register!ObserveAll
    BY Zenon, OperatorSeen, AllObserve
<1>4. Busy' = Busy /\ Answers' = Answers
    BY Zenon DEF threads, Busy, Answers
<1> QED BY Zenon, <1>1, <1>2, <1>3, <1>4 DEF Register!Write, Busy, Answers, AnswerOf

\* A persisted uuid is a write-back of the register.
LEMMA WriteBackStep ==
    ASSUME TypeOK, ReadInv, NEW t \in Thread, SavesOverride(t) \/ SavesTable(t)
    PROVE  Register!WriteBack(t)
<1>1. /\ Busy[t] /\ Busy' = Busy
    BY Zenon DEF SavesOverride, SavesTable, Busy
<1>2. Answers' = Answers /\ writes' = writes
    BY Zenon DEF SavesOverride, SavesTable, Answers
<1>3. Saw[t] = View(seen[t]) /\ TSaw[t] = View(dseen[t])
    BY DEF Saw, TSaw
<1>4. CASE SavesOverride(t)
    <2>1. PICK f \in File : Save(f) /\ Had(seen[t], f)
        BY Zenon, <1>4 DEF SavesOverride
    <2>2. ip'.exists = TRUE /\ ip'.file = f /\ default' = default
        BY Zenon, <2>1, SaveSeen
    <2>3. PICK h \in seen[t] : h.file.http = f.http
        BY Zenon, <2>1 DEF Had, SamePolicy
    <2>4. PolicyOf(ip') = [PolicyOf(h) EXCEPT !.exists = TRUE]
        <3> DEFINE x == h.exists
                   y == f.http
                   z == TRUE
        <3>1. PolicyOf(ip') = [exists |-> z, rules |-> y]
            BY Zenon, <2>2 DEF PolicyOf
        <3>2. PolicyOf(h) = [exists |-> x, rules |-> y]
            BY Zenon, <2>3 DEF PolicyOf
        <3> HIDE DEF x, y, z
        <3>3. PolicyOf(ip') = [PolicyOf(h) EXCEPT !.exists = z]
            BY <3>1, <3>2
        <3> QED BY Zenon, <3>3 DEF z
    <2>a. PolicyOf(h) \in Saw[t]
        BY ZenonT(60), <1>3, <2>3, Views
    <2>5. \E p \in Saw[t] : PolicyOf(ip') = [p EXCEPT !.exists = TRUE]
        BY Zenon, <2>4, <2>a
    <2>6. Register!ObserveAll
        BY Zenon, <2>1, SaveSeen, AllObserve
    <2> QED BY Zenon, <1>1, <1>2, <2>2, <2>5, <2>6
            DEF Register!WriteBack, Busy, Answers, AnswerOf, Saw, View
<1>5. CASE SavesTable(t)
    <2>1. PICK f \in File : SaveDefault(f) /\ HadFile(dseen[t], f)
        BY Zenon, <1>5 DEF SavesTable
    <2>2. default'.exists = TRUE /\ default'.file = f /\ ip' = ip
        BY Zenon, <2>1, SaveDefaultSeen
    <2>3. PICK h \in dseen[t] : h.exists /\ h.file.http = f.http
        BY Zenon, <2>1 DEF HadFile, SamePolicy
    <2>4. h.exists = TRUE
        BY <2>3 DEF TypeOK, HistoryOK, HeldBlob
    <2>5. PolicyOf(default') = PolicyOf(h)
        BY Zenon, <2>2, <2>3, <2>4 DEF PolicyOf
    <2>6. PolicyOf(default') \in TSaw[t]
        <3>1. PolicyOf(h) \in TSaw[t]
            BY ZenonT(60), <1>3, <2>3, Views
        <3> QED BY Zenon, <2>5, <3>1
    <2>7. Register!ObserveAll
        BY Zenon, <2>1, SaveDefaultSeen, AllObserve
    <2> QED BY Zenon, <1>1, <1>2, <2>2, <2>6, <2>7
            DEF Register!WriteBack, Busy, Answers, AnswerOf, TSaw, View
<1> QED BY Zenon, <1>4, <1>5

\* Every step of the engine is a step of the register or a stutter.
LEMMA StepRegister ==
    TypeOK /\ TypeOK' /\ VersionInv /\ ReadInv /\ [Next]_vars => [Register!Next]_(Register!vars)
<1> SUFFICES ASSUME TypeOK, TypeOK', VersionInv, ReadInv, [Next]_vars
             PROVE  Register!Next \/ UNCHANGED Register!vars
    BY Zenon
<1>1. ASSUME NEW t \in Thread, LookupBegin(t) \/ Lookup(t)
      PROVE  Register!Next \/ UNCHANGED Register!vars
    <2>1. CASE SavesOverride(t) \/ SavesTable(t)
        BY Zenon, <2>1, WriteBackStep DEF Register!Next
    <2>2. CASE UNCHANGED storage /\ Proceeds(t)
        <3>0. Alone(t) /\ Shows(t)
            BY Zenon, <2>2 DEF Proceeds
        <3>1. CASE pc[t] # "idle" /\ pc'[t] # "idle" /\ UNCHANGED pending
            <4>1. \A r \in Thread : (pc'[r] # "idle") = (pc[r] # "idle")
                BY <3>0, <3>1 DEF Alone
            <4>2. /\ ip' = ip /\ default' = default /\ writes' = writes
                  /\ result' = result /\ seen' = seen /\ dseen' = dseen
                BY Zenon, <2>2, <3>1 DEF storage, pending
            <4>3. PolicyOf(ip)' = PolicyOf(ip) /\ PolicyOf(default)' = PolicyOf(default)
                BY Zenon, <4>2
            <4> QED BY Zenon, <4>1, <4>2, <4>3, StutterStep
        <3>2. CASE pc[t] = "idle" /\ pc'[t] # "idle" /\ Open(t)
            BY Zenon, <2>2, <3>0, <3>2, BeginStep DEF Register!Next
        <3>3. CASE pc'[t] = "idle" /\ \E r : Honest(t, r) /\ Replies(t, r)
            BY Zenon, <2>2, <3>0, <3>3, EndStep DEF Register!Next
        <3> QED BY Zenon, <3>0, <3>1, <3>2, <3>3 DEF Shows
    <2> QED BY Zenon, <1>1, <2>1, <2>2, ThreadReadsOn
<1>2. CASE handlePutRule \/ handleDeleteRule \/ handlePutDefault \/ HandEdit
    BY Zenon, <1>2, OperatorForms, WriteStep DEF Register!Next
<1>3. CASE (\E n \in Node : ExpireClient(n) \/ ExpireDefault(n)) \/ Recover \/ UNCHANGED vars
    <2>1. /\ ip' = ip /\ default' = default /\ writes' = writes /\ pc' = pc
          /\ result' = result /\ seen' = seen /\ dseen' = dseen
        BY Zenon, <1>3, QuietSteps DEF threads
    <2>2. /\ PolicyOf(ip)' = PolicyOf(ip) /\ PolicyOf(default)' = PolicyOf(default)
          /\ \A r \in Thread : (pc'[r] # "idle") = (pc[r] # "idle")
        BY Zenon, <2>1
    <2> QED BY Zenon, <2>1, <2>2, StutterStep
<1> QED BY Zenon, <1>1, <1>2, <1>3 DEF Next

\* The engine implements PolicyStore: caches, version checks and the steps
\* between Storage calls are invisible, a confirmed Lookup reads the policy at
\* some moment of its call, and a minted uuid writes back only what was read.
THEOREM Refinement == Spec => ImplementsPolicyStore
BY InitRegister, StepRegister, Inductive, PTL DEF Spec, ImplementsPolicyStore, Register!Spec
=============================================================================
