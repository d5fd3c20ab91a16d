----------------------------- MODULE RuleEngine -----------------------------
(***************************************************************************)
(* The rule engine of internal/rules/engine.go over the shared Storage of  *)
(* internal/rules/store.go: threads of several nodes resolve the policy of *)
(* ONE client address while operators write that client's override         *)
(* (rules/ip/...) and the default table (rules/default).  Every Storage    *)
(* call and every critical section of RuleEngine.mu is a step of its own,  *)
(* because the engine holds no lock across them and nodes share no lock.   *)
(*                                                                         *)
(* The default table is seen through its one bucket that covers the        *)
(* client; DefaultTable models how the bucket is chosen.                   *)
(***************************************************************************)
EXTENDS Naturals, FiniteSets

CONSTANTS
    Node,         \* proxy processes
    Thread,       \* connections being served, each inside one RuleEngine.Lookup
    NodeOf,       \* the node a thread runs on
    TTLNodes,     \* nodes started with --rules-cache-ttl > 0
    Http,         \* policies (http[] and auth) that compile
    OwnEgress,    \* non-empty egress[] lists
    Guard,        \* the deny-first list of the built-in default table
    Uuid,         \* values uuid.NewString() may return
    Backend,      \* "posix" or "s3"
    Stamp,        \* mtime+size version tokens of PosixStorage
    Stamp0,       \* the token of the seeded default table
    Seed,         \* rules/default exists when the engines start
    NoVersion,    \* the zero storage.Version
    IpFiles,      \* rule files operators write for the client
    DefaultFiles, \* default buckets operators write
    MayFail,      \* Storage calls may fail until Storage recovers
    MaxWrites     \* bound on operator writes

NoUuid == 0

\* A RuleFile.  "garbled" does not parse, "invalid" parses and does not
\* compile, "none" is an http[] without rules; an egress key may be absent
\* ("inherit"), present and empty ("empty"), or a list.
File == [uuid   : Nat,
         http   : Http \cup {"none", "garbled", "invalid"},
         egress : OwnEgress \cup {"inherit", "empty"}]

EmptyFile == [uuid |-> NoUuid, http |-> "none", egress |-> "inherit"]

\* BuiltinDefaultRuleset: no rule matches, and a deny-first egress list.
BuiltinDefault == [uuid |-> NoUuid, http |-> "none", egress |-> Guard]

Compiles(f) == f.http \notin {"garbled", "invalid"}

ASSUME ConstantsAssumption ==
    /\ NodeOf \in [Thread -> Node]
    /\ TTLNodes \subseteq Node
    /\ Guard \in OwnEgress
    /\ Backend \in {"posix", "s3"}
    /\ Seed \in BOOLEAN /\ MayFail \in BOOLEAN /\ Stamp0 \in Stamp
    /\ NoVersion \notin Stamp /\ NoVersion \notin File
    /\ Uuid \subseteq Nat \ {NoUuid} /\ Stamp \subseteq Nat
    /\ IpFiles \subseteq File /\ DefaultFiles \subseteq File
    /\ MaxWrites \in Nat

\* A storage.Version: a stamp of PosixStorage, or an ETag of S3, a digest of
\* the content and as good as the content itself.
Version == {NoVersion} \cup Stamp \cup File

\* encoding/json drops an empty egress[] ("omitempty"), so re-encoding a file
\* turns a present, empty list into an absent one.
Marshal(f) == IF f.egress = "empty" THEN [f EXCEPT !.egress = "inherit"] ELSE f

\* Mutant: a bucket without a list keeps none.
BucketEgressAsWritten(f) == f.egress

\* The egress list a default bucket gives its clients: no list denies all.
BucketEgress(f) == IF f.egress = "inherit" THEN "empty" ELSE f.egress

VARIABLES
    ip,      \* the client's blob rules/ip/{sha1(client)}.json
    default, \* the blob rules/default
    flaky,   \* a Storage call may fail
    writes,  \* operator writes so far
    cache,   \* per node: RuleEngine.cache[client]
    dcache,  \* per node: RuleEngine.defaultCache
    pc,      \* per thread: the next step of its Lookup
    want,    \* per thread: what lookupDefaultTable was called for
    loc,     \* per thread: locals of Lookup and lookupIP
    dloc,    \* per thread: locals of lookupDefaultTable
    result,  \* per thread: what its last Lookup returned
    seen,    \* history: client blobs Storage held during the Lookup
    dseen    \* history: default blobs Storage held during the Lookup

storage == <<ip, default, flaky, writes>>
caches  == <<cache, dcache>>
\* What a Lookup leaves alone from its first step to its last.
pending == <<result, seen, dseen>>
vars == <<ip, default, flaky, writes, cache, dcache, pc, want, loc, dloc, result,
          seen, dseen>>

-----------------------------------------------------------------------------
(* Data *)

Blob == [exists : BOOLEAN, version : Version, file : File]
Absent == [exists |-> FALSE, version |-> NoVersion, file |-> EmptyFile]
Seeded == [exists |-> TRUE,
           version |-> IF Backend = "s3" THEN BuiltinDefault ELSE Stamp0,
           file |-> BuiltinDefault]
HeldBlob == [exists : BOOLEAN, file : File]
Held(b) == [exists |-> b.exists, file |-> b.file]

\* cachedRuleSet and cachedDefault.  `has` is presence in the map, `fresh` is
\* e.fresh(checkedAt); `file` stands for contentHash and for the compiled
\* http[] and auth, `egress` is the egress list baked into the RuleSet.
\* `raced` is history: the version came from a re-Stat that did not see the
\* engine's own write, or it is the ETag of something else than was loaded.
Entry == [has : BOOLEAN, fresh : BOOLEAN, version : Version, exists : BOOLEAN,
          file : File, egress : OwnEgress \cup {"empty"}, raced : BOOLEAN]
NoEntry == [has |-> FALSE, fresh |-> FALSE, version |-> NoVersion,
            exists |-> FALSE, file |-> EmptyFile, egress |-> "empty",
            raced |-> FALSE]

\* The locals of one blob's lookup: the cache entry read first, the version,
\* the loaded file and its resolved egress; `mine` (the version of the
\* thread's own write), `raced` and `sure` are history.
Local == [old : Entry, ver : Version, rf : File,
          egress : OwnEgress \cup {"empty"}, mine : Version,
          raced : BOOLEAN, sure : BOOLEAN]
NoLocal == [old |-> NoEntry, ver |-> NoVersion, rf |-> EmptyFile,
            egress |-> "empty", mine |-> NoVersion, raced |-> FALSE,
            sure |-> FALSE]

\* What a Lookup returns: the policy and egress list of a RuleSet, or an error.
\* `sure` and `current` are history: every cached version the answer rests on
\* was confirmed against Storage during this Lookup and no entry of it is raced;
\* Storage held the answer at some moment of this Lookup.
Result == [kind : {"none", "error", "override", "default", "empty"},
           http : Http \cup {"none", "garbled", "invalid"},
           egress : OwnEgress \cup {"empty"}, sure : BOOLEAN, current : BOOLEAN]
NoResult == [kind |-> "none", http |-> "none", egress |-> "empty",
             sure |-> FALSE, current |-> FALSE]
Error == [NoResult EXCEPT !.kind = "error"]

LookupPC == {"stat", "touch", "miss", "load", "save", "restat", "compile",
             "publish"}
TablePC == {"dbegin", "dstat", "dtouch", "dmiss", "dload", "dsave",
            "drestat", "dcompile"}

StorageOK ==
    /\ ip \in Blob /\ default \in Blob
    /\ flaky \in BOOLEAN /\ writes \in 0 .. MaxWrites

CachesOK == cache \in [Node -> Entry] /\ dcache \in [Node -> Entry]

ThreadsOK ==
    /\ pc \in [Thread -> {"idle"} \cup LookupPC \cup TablePC]
    /\ want \in [Thread -> {"bucket", "egress"}]
    /\ loc \in [Thread -> Local] /\ dloc \in [Thread -> Local]

HistoryOK ==
    /\ result \in [Thread -> Result]
    /\ seen \in [Thread -> SUBSET HeldBlob] /\ dseen \in [Thread -> SUBSET HeldBlob]

\* The type invariant.
TypeOK == StorageOK /\ CachesOK /\ ThreadsOK /\ HistoryOK

-----------------------------------------------------------------------------
(* Storage *)

\* A value of S that nothing uses: the least one stands for all of them, since
\* tokens and uuids are only ever compared for equality.
Unused(S, used) == {s \in S \ used : \A r \in S \ used : s <= r}

\* Version tokens of one blob that Storage, a cache or a Lookup still holds.
Tokens(b, c, l) ==
    {b.version} \cup {c[n].version : n \in Node}
    \cup (UNION {{l[t].old.version, l[t].ver, l[t].mine} : t \in Thread})

\* The version of a file f written over blob b: PosixStorage takes mtime and
\* size, a token never seen before; S3 returns to an old ETag with old content.
NewVersions(f, b, c, l) ==
    IF Backend = "s3" THEN {f} ELSE Unused(Stamp, Tokens(b, c, l))

UsedUuids ==
    {ip.file.uuid, default.file.uuid}
    \cup {f.uuid : f \in IpFiles \cup DefaultFiles}
    \cup (UNION {{cache[n].file.uuid, dcache[n].file.uuid} : n \in Node})
    \cup (UNION {{l.old.file.uuid, l.rf.uuid} :
                     l \in {loc[t] : t \in Thread} \cup {dloc[t] : t \in Thread}})

\* What two files make the engine do, apart from the client's identity.
SamePolicy(f, g) == f.http = g.http /\ Marshal(f).egress = Marshal(g).egress

\* Storage held the answer (kind k from file f) while t's Lookup ran: the
\* override itself, or the default bucket and no override.
WasHeld(t, k, f) ==
    IF k = "override"
    THEN \E h \in seen[t] : SamePolicy(h.file, f)
    ELSE /\ \E h \in seen[t] : ~h.exists
         /\ \E h \in dseen[t] : h.exists = (k = "default") /\ SamePolicy(h.file, f)

Answer(t, k, f, e, s) ==
    [kind |-> k, http |-> f.http, egress |-> e, sure |-> s,
     current |-> WasHeld(t, k, f)]

Watch(h, b) ==
    [t \in Thread |-> IF pc[t] = "idle" THEN h[t] ELSE h[t] \cup {Held(b)}]

\* RuleStore.Save and RuleStore.SaveDefault: an atomic replacement.
Save(f) ==
    /\ \E v \in NewVersions(f, ip, cache, loc) :
          ip' = [exists |-> TRUE, version |-> v, file |-> f]
    /\ seen' = Watch(seen, ip')
    /\ UNCHANGED <<default, dseen>>

SaveDefault(f) ==
    /\ \E v \in NewVersions(f, default, dcache, dloc) :
          default' = [exists |-> TRUE, version |-> v, file |-> f]
    /\ dseen' = Watch(dseen, default')
    /\ UNCHANGED <<ip, seen>>

-----------------------------------------------------------------------------
(* Steps of one Lookup *)

node(t) == NodeOf[t]
Cached(t, e) == [e EXCEPT !.has = TRUE, !.fresh = node(t) \in TTLNodes]
\* The copy of a cache entry a Lookup keeps: freshness is decided on the read.
Copy(e) == [e EXCEPT !.fresh = FALSE]

Finish(t, r) ==
    /\ pc' = [pc EXCEPT ![t] = "idle"]
    /\ want' = [want EXCEPT ![t] = "bucket"]
    /\ loc' = [loc EXCEPT ![t] = NoLocal]
    /\ dloc' = [dloc EXCEPT ![t] = NoLocal]
    /\ result' = [result EXCEPT ![t] = r]
    /\ seen' = [seen EXCEPT ![t] = {}]
    /\ dseen' = [dseen EXCEPT ![t] = {}]

\* The call begins: from here on the thread's history is recorded.
Open(t) ==
    /\ result' = [result EXCEPT ![t] = NoResult]
    /\ seen' = [seen EXCEPT ![t] = {Held(ip)}]
    /\ dseen' = [dseen EXCEPT ![t] = {Held(default)}]

Step(t, p, l) ==
    /\ pc' = [pc EXCEPT ![t] = p]
    /\ loc' = [loc EXCEPT ![t] = l]
    /\ UNCHANGED <<want, dloc>>

TableStep(t, p, l) ==
    /\ pc' = [pc EXCEPT ![t] = p]
    /\ dloc' = [dloc EXCEPT ![t] = l]
    /\ UNCHANGED <<want, loc>>

\* Enter lookupDefaultTable.
AskTable(t, purpose, l) ==
    /\ pc' = [pc EXCEPT ![t] = "dbegin"]
    /\ want' = [want EXCEPT ![t] = purpose]
    /\ loc' = [loc EXCEPT ![t] = l]
    /\ UNCHANGED dloc

resolveClientCache(t, e, sure) ==
    IF e.exists
    THEN Finish(t, Answer(t, "override", e.file, e.egress, sure /\ ~e.raced))
    ELSE /\ AskTable(t, "bucket", [NoLocal EXCEPT !.sure = sure])
         /\ UNCHANGED pending

\* Mutant: a cached entry never expires.
freshForever(e) == e.has

fresh(e) == e.has /\ e.fresh

\* Lookup: read the cache entry under mu.
LookupBegin(t) ==
    LET e == cache[node(t)] IN
    /\ pc[t] = "idle"
    /\ \/ fresh(e) /\ e.exists /\ resolveClientCache(t, e, FALSE)
       \/ fresh(e) /\ ~e.exists /\ AskTable(t, "bucket", NoLocal) /\ Open(t)
       \/ ~fresh(e) /\ Step(t, "stat", [NoLocal EXCEPT !.old = Copy(e)]) /\ Open(t)
    /\ UNCHANGED <<storage, caches>>

\* Mutant: an entry is kept as long as the file exists.
LookupStatExists(t) ==
    LET l == loc[t]
        known == l.old.has /\ l.old.exists = ip.exists
    IN
    /\ pc[t] = "stat"
    /\ Step(t, IF known THEN "touch" ELSE IF ip.exists THEN "load" ELSE "miss",
            [l EXCEPT !.ver = ip.version])
    /\ UNCHANGED <<storage, caches, pending>>

\* Lookup: Storage.Stat, the stale fallback and the version comparison.
LookupStat(t) ==
    LET l == loc[t]
        known == l.old.has /\ l.old.version = ip.version /\ l.old.exists = ip.exists
    IN
    /\ pc[t] = "stat"
    /\ \/ /\ flaky
          /\ IF node(t) \in TTLNodes /\ l.old.has
             THEN resolveClientCache(t, l.old, FALSE)
             ELSE Finish(t, Error)
       \/ /\ Step(t, IF known THEN "touch" ELSE IF ip.exists THEN "load" ELSE "miss",
                  [l EXCEPT !.ver = ip.version])
          /\ UNCHANGED pending
    /\ UNCHANGED <<storage, caches>>

touchClientCache(t) ==
    /\ pc[t] = "touch"
    /\ cache' = [cache EXCEPT ![node(t)] = Cached(t, loc[t].old)]
    /\ resolveClientCache(t, loc[t].old, TRUE)
    /\ UNCHANGED <<storage, dcache>>

\* Lookup: remember that the client has no override.
LookupMiss(t) ==
    LET e == [NoEntry EXCEPT !.version = loc[t].ver] IN
    /\ pc[t] = "miss"
    /\ cache' = [cache EXCEPT ![node(t)] = Cached(t, e)]
    /\ resolveClientCache(t, e, TRUE)
    /\ UNCHANGED <<storage, dcache>>

\* What is loaded is not what the version v of the Stat names.  A stamp never
\* comes back, so only an ETag can be taken for the wrong content later.
Skewed(v, b) == Backend = "s3" /\ b.version # v

\* lookupIP: Load.  A file deleted since the Stat loads as an empty RuleFile.
LookupLoad(t) ==
    /\ pc[t] = "load"
    /\ \/ /\ flaky \/ ip.file.http = "garbled"
          /\ Finish(t, Error)
       \/ /\ ip.file.http # "garbled"
          /\ Step(t, IF ip.file.uuid = NoUuid THEN "save" ELSE "compile",
                  [loc[t] EXCEPT !.rf = ip.file, !.raced = Skewed(loc[t].ver, ip)])
          /\ UNCHANGED pending
    /\ UNCHANGED <<storage, caches>>

\* Mutant: only the minted uuid is persisted.
LookupSaveUuid(t) ==
    \E u \in Unused(Uuid, UsedUuids) :
        LET f == [loc[t].rf EXCEPT !.uuid = u] IN
        /\ pc[t] = "save" /\ ~flaky
        /\ Save([EmptyFile EXCEPT !.uuid = u])
        /\ Step(t, "restat", [loc[t] EXCEPT !.rf = f, !.mine = ip'.version])
        /\ UNCHANGED <<flaky, writes, caches, result>>

\* lookupIP: mint a uuid and persist the re-encoded file, best effort.
LookupSave(t) ==
    \E u \in Unused(Uuid, UsedUuids) :
        LET f == [loc[t].rf EXCEPT !.uuid = u] IN
        /\ pc[t] = "save"
        /\ \/ /\ flaky
              /\ Step(t, "compile", [loc[t] EXCEPT !.rf = f])
              /\ UNCHANGED <<ip, default, seen, dseen>>
           \/ /\ Save(Marshal(f))
              /\ Step(t, "restat", [loc[t] EXCEPT !.rf = f, !.mine = ip'.version])
        /\ UNCHANGED <<flaky, writes, caches, result>>

\* lookupIP: re-Stat after the persist; whatever version is there is adopted.
LookupRestat(t) ==
    LET l == [loc[t] EXCEPT !.mine = NoVersion] IN
    /\ pc[t] = "restat"
    /\ \/ /\ flaky
          /\ Step(t, "compile", l)
       \/ Step(t, "compile", [l EXCEPT !.ver = ip.version,
                                       !.raced = (ip.version # loc[t].mine)])
    /\ UNCHANGED <<storage, caches, pending>>

\* lookupIP: reuse the previous RuleSet when the content hash is unchanged,
\* otherwise compile, and resolve an absent egress key from the default table.
LookupCompile(t) ==
    LET l == loc[t]
        reuse == l.old.has /\ l.old.exists /\ Marshal(l.old.file) = Marshal(l.rf)
        e == [NoEntry EXCEPT !.version = l.ver, !.exists = TRUE, !.file = l.rf,
                             !.egress = l.old.egress, !.raced = l.raced]
    IN
    /\ pc[t] = "compile"
    /\ \/ /\ reuse
          /\ cache' = [cache EXCEPT ![node(t)] = Cached(t, e)]
          /\ Finish(t, Answer(t, "override", e.file, e.egress, ~e.raced))
       \/ /\ ~reuse /\ ~Compiles(l.rf)
          /\ Finish(t, Error)
          /\ UNCHANGED cache
       \/ /\ ~reuse /\ Compiles(l.rf) /\ l.rf.egress # "inherit"
          /\ Step(t, "publish", [l EXCEPT !.old = NoEntry, !.egress = l.rf.egress])
          /\ UNCHANGED <<cache, pending>>
       \/ /\ ~reuse /\ Compiles(l.rf) /\ l.rf.egress = "inherit"
          /\ AskTable(t, "egress", [l EXCEPT !.old = NoEntry])
          /\ UNCHANGED <<cache, pending>>
    /\ UNCHANGED <<storage, dcache>>

\* Mutant: the version is taken when the RuleSet is stored.
LookupPublishLate(t) ==
    LET l == loc[t]
        e == [NoEntry EXCEPT !.version = ip.version, !.exists = TRUE, !.file = l.rf,
                             !.egress = l.egress, !.raced = l.raced]
    IN
    /\ pc[t] = "publish"
    /\ cache' = [cache EXCEPT ![node(t)] = Cached(t, e)]
    /\ Finish(t, Answer(t, "override", e.file, e.egress, ~e.raced))
    /\ UNCHANGED <<storage, dcache>>

\* lookupIP: store the compiled RuleSet under mu.
LookupPublish(t) ==
    LET l == loc[t]
        e == [NoEntry EXCEPT !.version = l.ver, !.exists = TRUE, !.file = l.rf,
                             !.egress = l.egress, !.raced = l.raced]
    IN
    /\ pc[t] = "publish"
    /\ cache' = [cache EXCEPT ![node(t)] = Cached(t, e)]
    /\ Finish(t, Answer(t, "override", e.file, e.egress, ~e.raced))
    /\ UNCHANGED <<storage, dcache>>

-----------------------------------------------------------------------------
(* Steps of lookupDefaultTable, called by resolveClientCache and by        *)
(* resolveEgress.                                                          *)

\* Return the table compiled from entry e to the caller.
TableReturns(t, e, sure) ==
    IF want[t] = "egress"
    THEN /\ pc' = [pc EXCEPT ![t] = "publish"]
         /\ loc' = [loc EXCEPT ![t].egress =
                        IF e.exists THEN BucketEgress(e.file) ELSE "empty"]
         /\ dloc' = [dloc EXCEPT ![t] = NoLocal]
         /\ UNCHANGED <<want, pending>>
    ELSE Finish(t, Answer(t, IF e.exists THEN "default" ELSE "empty", e.file,
                          BucketEgress(e.file), loc[t].sure /\ sure /\ ~e.raced))

TableBegin(t) ==
    LET e == dcache[node(t)] IN
    /\ pc[t] = "dbegin"
    /\ \/ fresh(e) /\ TableReturns(t, e, FALSE)
       \/ /\ ~fresh(e)
          /\ TableStep(t, "dstat", [NoLocal EXCEPT !.old = Copy(e)])
          /\ UNCHANGED pending
    /\ UNCHANGED <<storage, caches>>

TableStat(t) ==
    LET l == dloc[t]
        known == /\ l.old.has
                 /\ l.old.version = default.version /\ l.old.exists = default.exists
    IN
    /\ pc[t] = "dstat"
    /\ \/ /\ flaky
          /\ IF node(t) \in TTLNodes /\ l.old.has
             THEN TableReturns(t, l.old, FALSE)
             ELSE Finish(t, Error)
       \/ /\ TableStep(t, IF known THEN "dtouch"
                          ELSE IF default.exists THEN "dload" ELSE "dmiss",
                       [l EXCEPT !.ver = default.version])
          /\ UNCHANGED pending
    /\ UNCHANGED <<storage, caches>>

TableTouch(t) ==
    /\ pc[t] = "dtouch"
    /\ dcache' = [dcache EXCEPT ![node(t)] = Cached(t, dloc[t].old)]
    /\ TableReturns(t, dloc[t].old, TRUE)
    /\ UNCHANGED <<storage, cache>>

TableMiss(t) ==
    LET e == [NoEntry EXCEPT !.version = dloc[t].ver] IN
    /\ pc[t] = "dmiss"
    /\ dcache' = [dcache EXCEPT ![node(t)] = Cached(t, e)]
    /\ TableReturns(t, e, TRUE)
    /\ UNCHANGED <<storage, cache>>

\* LoadRawDefault and parseDefaultRuleset; nothing to parse is an error too.
TableLoad(t) ==
    LET parses == default.exists /\ default.file.http # "garbled" IN
    /\ pc[t] = "dload"
    /\ \/ /\ flaky \/ ~parses
          /\ Finish(t, Error)
       \/ /\ parses
          /\ TableStep(t, IF default.file.uuid = NoUuid THEN "dsave" ELSE "dcompile",
                       [dloc[t] EXCEPT !.old = NoEntry, !.rf = default.file,
                                       !.raced = Skewed(dloc[t].ver, default)])
          /\ UNCHANGED pending
    /\ UNCHANGED <<storage, caches>>

TableSave(t) ==
    \E u \in Unused(Uuid, UsedUuids) :
        LET f == [dloc[t].rf EXCEPT !.uuid = u] IN
        /\ pc[t] = "dsave"
        /\ \/ /\ flaky
              /\ TableStep(t, "dcompile", [dloc[t] EXCEPT !.rf = f])
              /\ UNCHANGED <<ip, default, seen, dseen>>
           \/ /\ SaveDefault(Marshal(f))
              /\ TableStep(t, "drestat",
                           [dloc[t] EXCEPT !.rf = f, !.mine = default'.version])
        /\ UNCHANGED <<flaky, writes, caches, result>>

\* The blob is never deleted, so the re-Stat finds one.
TableRestat(t) ==
    LET l == [dloc[t] EXCEPT !.mine = NoVersion] IN
    /\ pc[t] = "drestat"
    /\ \/ /\ flaky
          /\ TableStep(t, "dcompile", l)
       \/ TableStep(t, "dcompile",
                    [l EXCEPT !.ver = default.version,
                              !.raced = (default.version # dloc[t].mine)])
    /\ UNCHANGED <<storage, caches, pending>>

\* Mutant: a table is cached before it is found not to compile.
TableCompileUnchecked(t) ==
    LET l == dloc[t]
        e == [NoEntry EXCEPT !.version = l.ver, !.exists = TRUE, !.file = l.rf,
                             !.egress = BucketEgress(l.rf), !.raced = l.raced]
    IN
    /\ pc[t] = "dcompile"
    /\ dcache' = [dcache EXCEPT ![node(t)] = Cached(t, e)]
    /\ TableReturns(t, e, TRUE)
    /\ UNCHANGED <<storage, cache>>

\* compileParsedEntries; a bucket reused by hash is the one compiled anew.
TableCompile(t) ==
    LET l == dloc[t]
        e == [NoEntry EXCEPT !.version = l.ver, !.exists = TRUE, !.file = l.rf,
                             !.egress = BucketEgress(l.rf), !.raced = l.raced]
    IN
    /\ pc[t] = "dcompile"
    /\ \/ /\ Compiles(l.rf)
          /\ dcache' = [dcache EXCEPT ![node(t)] = Cached(t, e)]
          /\ TableReturns(t, e, TRUE)
       \/ ~Compiles(l.rf) /\ Finish(t, Error) /\ UNCHANGED dcache
    /\ UNCHANGED <<storage, cache>>

-----------------------------------------------------------------------------
(* Operators, time and Storage *)

threads == <<pc, want, loc, dloc, result>>

\* PUT /rules/{ip}: nothing that does not compile is saved.
handlePutRule ==
    /\ writes < MaxWrites
    /\ \E f \in IpFiles : Compiles(f) /\ Save(f)
    /\ writes' = writes + 1
    /\ UNCHANGED <<flaky, caches, threads>>

\* DELETE /rules/{ip}.
handleDeleteRule ==
    /\ writes < MaxWrites
    /\ ip' = Absent
    /\ seen' = Watch(seen, Absent)
    /\ writes' = writes + 1
    /\ UNCHANGED <<default, dseen, flaky, caches, threads>>

\* PUT /rules/default: the canonical re-encoding is saved.
handlePutDefault ==
    /\ writes < MaxWrites
    /\ \E f \in DefaultFiles : Compiles(f) /\ SaveDefault(Marshal(f))
    /\ writes' = writes + 1
    /\ UNCHANGED <<flaky, caches, threads>>

\* A file edited by hand in Storage: nothing is validated.
HandEdit ==
    /\ writes < MaxWrites
    /\ \/ \E f \in IpFiles : ~Compiles(f) /\ Save(f)
       \/ \E f \in DefaultFiles : ~Compiles(f) /\ SaveDefault(f)
    /\ writes' = writes + 1
    /\ UNCHANGED <<flaky, caches, threads>>

\* cacheTTL elapses for one cache entry.
ExpireClient(n) ==
    /\ cache[n].fresh
    /\ cache' = [cache EXCEPT ![n].fresh = FALSE]
    /\ UNCHANGED <<storage, dcache, threads, seen, dseen>>

ExpireDefault(n) ==
    /\ dcache[n].fresh
    /\ dcache' = [dcache EXCEPT ![n].fresh = FALSE]
    /\ UNCHANGED <<storage, cache, threads, seen, dseen>>

\* Storage recovers: from now on no call fails.
Recover ==
    /\ flaky /\ flaky' = FALSE
    /\ UNCHANGED <<ip, default, writes, caches, threads, seen, dseen>>

Lookup(t) ==
    \/ LookupStat(t) \/ touchClientCache(t) \/ LookupMiss(t) \/ LookupLoad(t)
    \/ LookupSave(t) \/ LookupRestat(t) \/ LookupCompile(t) \/ LookupPublish(t)
    \/ TableBegin(t) \/ TableStat(t) \/ TableTouch(t) \/ TableMiss(t)
    \/ TableLoad(t) \/ TableSave(t) \/ TableRestat(t) \/ TableCompile(t)

\* RuleStore.EnsureDefault has seeded the table before the engine starts; an
\* absent one is a table removed by hand.
Init ==
    /\ ip = Absent
    /\ default = IF Seed THEN Seeded ELSE Absent
    /\ flaky = MayFail /\ writes = 0
    /\ cache = [n \in Node |-> NoEntry] /\ dcache = [n \in Node |-> NoEntry]
    /\ pc = [t \in Thread |-> "idle"] /\ want = [t \in Thread |-> "bucket"]
    /\ loc = [t \in Thread |-> NoLocal] /\ dloc = [t \in Thread |-> NoLocal]
    /\ result = [t \in Thread |-> NoResult]
    /\ seen = [t \in Thread |-> {}] /\ dseen = [t \in Thread |-> {}]

Next ==
    \/ \E t \in Thread : LookupBegin(t) \/ Lookup(t)
    \/ handlePutRule \/ handleDeleteRule \/ handlePutDefault \/ HandEdit
    \/ \E n \in Node : ExpireClient(n) \/ ExpireDefault(n)
    \/ Recover

Spec == Init /\ [][Next]_vars

\* A Lookup runs to its end, clients keep connecting, and time passes.
FairSpec ==
    /\ Spec
    /\ \A t \in Thread : WF_vars(LookupBegin(t)) /\ WF_vars(Lookup(t))
    /\ \A n \in Node : WF_vars(ExpireClient(n)) /\ WF_vars(ExpireDefault(n))

-----------------------------------------------------------------------------
(* Properties *)

Faithful(e, b) ==
    e.exists /\ b.exists /\ e.version = b.version => SamePolicy(e.file, b.file)

\* The version check of Lookup and lookupDefaultTable is sound: a cached
\* RuleSet whose version is the one Storage reports was compiled from what
\* Storage holds, so an unchanged version never hides an operator's write.
\* Entries stored after a re-Stat that met somebody else's write, or on S3 under
\* the ETag of something else than was loaded, are exempt.
VersionMeansContent ==
    \A n \in Node :
        /\ cache[n].raced \/ Faithful(cache[n], ip)
        /\ dcache[n].raced \/ Faithful(dcache[n], default)

\* A Lookup that confirmed its versions answers with a policy Storage held at
\* some moment of that very Lookup: an override's own rules, or the default
\* bucket only if the client then had no override.
ConfirmedLookupIsCurrent ==
    \A t \in Thread : result[t].sure => result[t].current

\* A file that does not compile is never enforced and never cached: Lookup
\* fails the connection instead (lookupIP's compileFailed paths).
FailsClosed ==
    /\ \A t \in Thread : result[t].http \notin {"garbled", "invalid"}
    /\ \A n \in Node : Compiles(cache[n].file) /\ Compiles(dcache[n].file)

\* The answer a Lookup owes the client when nothing changes any more: rules and
\* egress list of what Storage holds.  An inherited list is the one of the table
\* the override was compiled with (InheritedEgressIsCurrent).
Settled(t) ==
    LET r == result[t]
        ok(f, k, e) == r.kind = k /\ r.http = f.http /\ r.egress = e
    IN
    \/ r.kind = "none"
    \/ /\ ip.exists /\ Compiles(ip.file)
       /\ \/ ip.file.egress # "inherit" /\ ok(ip.file, "override", ip.file.egress)
          \/ ip.file.egress = "inherit" /\ ok(ip.file, "override", r.egress)
          \/ r.kind = "error" /\ ip.file.egress = "inherit" /\ ~Compiles(default.file)
    \/ ip.exists /\ ~Compiles(ip.file) /\ r.kind = "error"
    \/ ~ip.exists /\ default.exists /\ Compiles(default.file)
       /\ ok(default.file, "default", BucketEgress(default.file))
    \/ ~ip.exists /\ default.exists /\ ~Compiles(default.file) /\ r.kind = "error"
    \/ ~ip.exists /\ ~default.exists /\ r.kind = "empty"

\* Operators stop after MaxWrites writes.  Once Storage answers again, every
\* node ends up enforcing what Storage holds, whatever its cache TTL
\* ("write the state; the fleet converges"), unless an entry was stored after
\* a raced re-Stat.
Converges ==
    <>[](~flaky /\ \A n \in Node : ~cache[n].raced /\ ~dcache[n].raced)
        => <>[](\A t \in Thread : Settled(t))

\* The policy of a blob as a caller of Lookup meets it.
PolicyOf(h) == [exists |-> h.exists, rules |-> h.file.http]

Register == INSTANCE PolicyStore WITH
    Rules    <- Http \cup {"none", "garbled", "invalid"},
    override <- PolicyOf(ip),
    table    <- PolicyOf(default),
    edits    <- writes,
    busy     <- [t \in Thread |-> pc[t] # "idle"],
    saw      <- [t \in Thread |-> {PolicyOf(h) : h \in seen[t]}],
    tsaw     <- [t \in Thread |-> {PolicyOf(h) : h \in dseen[t]}],
    answer   <- [t \in Thread |-> [kind |-> result[t].kind, rules |-> result[t].http,
                                   sure |-> result[t].sure]]

\* The engine implements the register of PolicyStore.  Caches, version checks
\* and the steps between Storage calls are invisible: a confirmed Lookup reads
\* the policy at some moment between its call and its return, and a minted uuid
\* (lookupIP, lookupDefaultTable) only ever writes back what that Lookup read.
ImplementsPolicyStore == Register!Spec

(* What the comments and documents say of the engine, and the code does not *)
(* do: each is the property of a run that finds a counterexample.           *)

\* "two reads of the same key return equal Versions iff nothing changed between
\* them" and "Re-stat ... so the cache entry written below reflects the file's
\* ACTUAL current version": the version check is sound for every entry, also for
\* one stored after a mint (lookupIP) or under an ETag that comes back.
EqualVersionsMeanUnchanged ==
    \A n \in Node : Faithful(cache[n], ip) /\ Faithful(dcache[n], default)

\* "a PUT /rules/default ... simply changes the blob's Version, which the very
\* next Lookup notices on its own": a Lookup of an override without an egress
\* key returns the egress list of a default bucket Storage held meanwhile.
InheritedEgressIsCurrent ==
    [][\A t \in Thread :
          /\ pc[t] # "idle" /\ pc'[t] = "idle"
          /\ result'[t].kind = "override" /\ result'[t].sure
          /\ \A h \in seen[t] : h.exists /\ h.file.egress = "inherit"
          => \E h \in dseen[t] : result'[t].egress = BucketEgress(h.file)]_vars

\* "egress": [] "matches nothing - not an opt-out": only an operator's write
\* turns a present, empty list into an absent one.
EmptyEgressStaysEmpty ==
    [][ip.exists /\ ip.file.egress = "empty" /\ ip'.file.egress # "empty"
          => writes' # writes]_vars
=============================================================================
