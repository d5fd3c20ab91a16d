# A TLA+ model of mitmania

mitmania is an intercepting HTTP/HTTPS proxy. Its nodes are stateless and
interchangeable: everything they share is a `Storage` (a directory or an S3
bucket) without locks, in which the last write wins. A node decides per client
address which rules apply, pins the destination of a connection, clones the
origin's certificate under its own CA, forwards or splices, and may ask an
external broker about a request (an *outcall*).

What makes this hard to test is what the modules here are about: Storage calls
of several goroutines and nodes that interleave with operators' writes, caches
that are trusted because a version did not change, startups that stop half-way,
calls that are coalesced, retried and revalidated in the background, upstream
connections that are replaced while other requests use them, files that are written
while processes die, and splices whose two ends finish at different times.

## The parts of the system

| Part | Source (`src/internal/`) | Module |
|---|---|---|
| Rule engine and rule store | `rules/engine.go`, `rules/store.go`, `rules/schema.go` | `RuleEngine`, and `PolicyStore`, which it implements |
| Default table | `rules/defaultruleset.go` | `DefaultTable` (data), `RuleEngine` (loading and caching) |
| Host index and matchers | `rules/host_index.go`, `rules/compile.go` | `HostIndex` |
| Signing CA, leaf cache, certificate factory | `cert/ca.go`, `cert/cache.go`, `cert/factory.go` | `CertFleet` |
| Cloning, ordering and resolving chains | `cert/clone.go`, `cert/keys.go`, `cert/cache.go`, `cert/ca.go` | `CertChain` |
| Outcall service and actions | `outcall/*.go`, `proxy/outcall.go` | `Outcall` |
| Connection handlers, gates, round trippers | `proxy/http1.go`, `http2.go`, `transparent.go`, `egress.go`, `auth.go`, `tlsservice.go`, `upstream.go`, `roundtrip.go`, ... | `Connection` |
| Splices and upgraded connections | `proxy/relay.go`, `rawsplice.go`, `peek.go`, `authority.go` | `Relay` |
| Client address and proxy authentication | `proxy/trustedproxy.go`, `proxy/auth.go`, `rules/auth.go` | `ClientIdentity` |
| Self and fallback certificates | `cert/selfcert.go`, `cert/fallback.go` | `OwnCerts` |
| Process, listeners, shutdown | `../cmd/mitmania/main.go`, `control/control.go`, `rules/store.go` (`EnsureDefault`) | `Process` |
| Storage interface | `storage/storage.go` | `Storage` |
| Directory backend | `storage/posix.go`, `fsutil` | `PosixStorage`, which implements `Storage` |
| S3 backend | `storage/s3.go` | its tokens in `RuleEngine`, its listing in `CertFleet` |
| Control API | `control/handlers.go` | its writes are actions of `RuleEngine` and `CertFleet` |
| Acceptors, configuration, telemetry, storage decorators | `session`, `config`, `telemetry`, `flowsink`, `storage/logging.go`, ... | not modelled (I/O and wiring) |

How they interact: a connection handler (`Connection`) asks the rule engine for a
rule set (`RuleEngine`, which picks a default bucket as in `DefaultTable` and a rule
as in `HostIndex`), may run an outcall (`Outcall`), dials the pinned destination
and, when it intercepts, asks the factory for a clone (`CertFleet`, whose clones
are made and checked as in `CertChain`). What it does not intercept it splices
(`Relay`). All of this happens in a process (`Process`) over a Storage
(`PosixStorage`). Between the modules only results pass:
`Connection` lets every lookup return any of its policies, which is what operators
who write while connections live can cause; it lets every clone request succeed
or fail. `Process` extends `Relay`: one splice lives across the life of the process.

`PROJECT.json` names, for every definition, the source lines it translates, and
lists the hazards of the code with the properties that address them.

## The modules

**RuleEngine.** One client address. State: the client's blob and the default
blob in Storage, each node's `cache` and `defaultCache`, and per thread the
program counter and locals of one `Lookup`. Each Storage call (`Stat`, `Get`,
`Put`, re-`Stat`) and each critical section of `RuleEngine.mu` is one action, since no
lock is held across them. Operators' `PUT`, `DELETE` and hand edits are actions.
A rule file is abstracted to its uuid, its policy (valid, empty, unparsable or not
compiling) and its egress list (absent, empty or one of a set). What JSON
re-encoding does to an empty list is kept (`Marshal`), and so is who mints uuids.
The constant `Backend` chooses the tokens. In a directory a write draws a
token that is not in use (mtime and size). On S3 the token stands for a digest of the
content (ETag), so it comes back when the content does; a Lookup between whose Stat
and Load the content changes and changes back caches the middle content under a
current version (`Skewed`).

**PolicyStore.** What a caller of `Lookup` may rely on: the client's policy is a register
that operators write; a Lookup that confirmed its versions returns what the register
held while it ran; and a Lookup that persists a uuid writes back something it read during
that very Lookup. `RuleEngine!ImplementsPolicyStore` is the refinement: an override
and the table are mapped to whether the two blobs exist and the rules in them (without uuids
and egress lists, which `Converges`, `InheritedEgressIsCurrent` and `EmptyEgressStaysEmpty`
are about), what a Lookup has seen to its history variables.

**DefaultTable, HostIndex, CertChain, ClientIdentity, OwnCerts.** Pure algorithms, as
operators, each with a reference definition next to it. Addresses of a table are bit
strings of a width that is a constant, host names sequences of characters, certificates
records of subject, issuer, key, signer, expiry and CA flag. Client addresses are
model values, credentials texts that are cut at their first colon as in the code. A
hash is what it is the hash of, a derived key the bag of names it is derived from. A tree
node of the host index is what the labels on the way to it spell. Loops are recursive
functions in a `LET`. `Lists` has the loops that all of them use (the first or last
element that passes a test, concatenation, the results a sort may have); it stays
small, without `SequencesExt`, because every definition in scope slows each step of the
proofs down.

**Algorithms.** The machine the `Algorithms` run checks: it draws an input of one of the
algorithms and returns to its start. The sets of inputs are constants; the assumptions
say what kind of value an input is, and nothing about its size.

**CertFleet.** Nodes start (load or generate `ca.p12`, compare `.tuple`, wipe
`leaf/`, write `.tuple`), serve (singleflight, hot map, Storage, verify, mint,
store, index), flush and crash. Operators install and remove `ca.p12`. Deleting a
prefix is a listing followed by one deletion at a time; on S3 the listing may be
cut short without an error. A CA is its key and its policy, because a re-issued
CA keeps its key and its old clones still verify.

**Outcall.** Per key a cache entry with what is left of its windows, and at most
one call in flight; per caller the steps of `Do` and of the verdict. Freshness,
`stale-while-revalidate`, `stale-if-error`, `must-revalidate`, `304`, refusals,
`failOpen`, the denylist and the semaphore are modelled; headers are small records.

**Connection.** One client connection by the five ways it may arrive, its gates in
the order of the code, TLS termination with ALPN, the h1 request loop or concurrent
h2 streams, and every upstream connection it ever opens with its state. A CONNECT
line, an SNI and every request each name a host, and each place that compares two of them
is a guard of its own. An upstream connection may get a GOAWAY, break under its streams,
drain, or run out of the ten seconds it has for that; two variables of history (`wrote`,
`lost`) say which connections got bytes of a request and what took a connection from its
streams.

**Storage and PosixStorage.** `Storage` says what the interface promises: a call takes
effect at one moment between its invocation and its return, or fails and
changes nothing; `DeletePrefix` removes keys one at a time; a process that dies leaves its
call done or not done; a power failure goes back to an earlier whole value.
`PosixStorage` has one action per system call (mkdir, open, write, fsync, rename, remove,
read, stat, unlink, readdir, rmdir), with the inode's data, the directory entry, and what
of both has reached the medium. A process may die between any two, and power may fail.

**Relay.** Each direction of a splice: the bytes a parser has read too early, the socket,
the chunk in the copy loop, what has arrived, and the half-close. The peers send, finish,
break off and stop reading whenever they like.

**Process.** `run` line by line: boot, `EnsureDefault` with its two Storage calls,
the control API's goroutine, listeners bound one after the other, a closer and an accept
loop for each, and the `WaitGroup` that `run` waits for, which does not include
connections.

The `MC*` modules give the constants of the instances. A definition whose comment
starts with "Mutant:" is a plausible mistake in the definition that follows it;
`PROJECT.json` pairs it with the property that fails when it takes that
definition's place.

## What TLC checks

| Run | Question | Instance |
|---|---|---|
| `RuleEngine` | Can an unchanged version hide a write? Is a confirmed answer one that Storage held during the Lookup? Is the engine a register to its callers? | a directory; one node, two concurrent Lookups, two operator writes of two override files and one table; 1,245,572 states |
| `RuleConvergence` | Is a broken file ever enforced? Does a node converge after the last write? | S3; one thread on a node with a cache TTL, failing Storage, three writes of valid, invalid and unparsable files, no table at first; 128,292 states |
| `CertFleet` | Does what is served verify under the node's own CA? Is a clone of a superseded policy ever served? | two nodes, three connections (two of them on one node), one crash, one flush, one CA edit (another key, another policy, another password, removal), failing Storage; 1,587,695 states |
| `Outcall` | Do answers go back in time? Does an outage open a refusal? Do places leak? Does every `Do` return? | two callers, two keys, a semaphore of one, two replies for one key and none for the other; 326,774 states |
| `Connection` | What is dialed, forwarded, retried, closed, and where is the client told? | two addresses, two hosts, two requests, four policies, four upstream connections; 733,946 states |
| `Algorithms` | Do the algorithms agree with their references? | tables of up to 3 entries on 2-bit addresses plus v6, globs of up to 3 and hosts of up to 4 characters, chains of up to 3 certificates, bundles of up to 2, lists of forwarded addresses over several header lines, gates with up to two credentials, lists of one or two names; 130,625 states |
| `PosixStorage` | Is the directory an atomic store to processes that share it, crash and lose power? | two processes, two keys (one below the wiped prefix), two values, three calls, two faults; 388,272 states |
| `Process` | Does a process that stops end? Does it serve only with a table? Does a splice lose, reorder or withhold anything? | two listeners, two chunks one way and one the other; 239,592 states |

Why the bounds are enough for the questions: the races of the rule engine need
one Lookup between its Stat and its publication and a second Lookup or an operator
in between, hence two threads and two writes; a second node only removes
sharing of the cache, and what nodes do share, the blobs, is already written by
the second thread's mint and by operators (the same run with the threads on two
nodes, one of them with a cache TTL, has millions of states and takes
more than five minutes; it is not kept). In the fleet, every hazard is between
a node that starts and one that serves, or between two connections on one node;
one CA change with a crash in the middle of its wipe is the case of
interest. Two callers and a background revalidation make three participants on one
key, and the second key takes the only place of the semaphore from it. Four
upstream connections are the probe, a first one, its replacement, and the replacement's own or
the one for an upgrade; two streams are one in flight and one that reconnects.
Two processes and three calls put a DeletePrefix or Delete between any two system
calls of a Put or Get and leave one call to read the result; two faults are an
error and a crash, or a crash and a power failure. A splice needs two chunks to
lose the order of, one of which may be read ahead, and one the other way while
that direction has ended; a bind may fail after one that succeeded, hence two
listeners. Prefix tables meet all relations of two ranges (nested, adjacent, gap, end of the
address space) with three entries. Symmetry is used only where no liveness is checked,
over identical threads (`RuleEngine`), the two connections of one node
(`CertFleet`) and identical processes (`PosixStorage`).

Deadlock is checked in the rule-engine, outcall and algorithm runs. A connection
that is closed, a process that has exited, and a fleet or a directory whose crashes,
edits or calls are used up really stop, so those runs allow it.

### Where code and words disagree

Four runs check one property each, taken from a comment or a document, which the
code does not have. `PROJECT.json` quotes the lines.

* `RestatRace` (`EqualVersionsMeanUnchanged`): after minting a uuid the engine caches its content under whatever
  version the re-Stat reports; an operator's write in between stays unseen until the
  next one. `VersionMeansContent` and `Converges` exempt such entries (history field
  `raced`), so that they say everything else.
* `InheritedEgress`: an override without an egress key keeps the list it inherited
  at compile time after the default table changed.
* `EmptyEgress`: the mint re-encodes the file and drops `"egress": []`, which turns
  "deny everything" into "inherit".
* `ChainReload`: the clone of a chain that repeats a certificate is stored and
  cannot be put in order when read back. `ClonesReload` is about chains with distinct
  names.

Some more are visible in the models and have no run of their own: two nodes that start
on empty Storage both create a CA, and two that start an https listener
may both mint its certificate; a refusal from the outcall cache carries the broker's own
status; a Basic user with a colon in its name compiles and can never log in; a
control API that dies ends the process with status 0. The hazards in `PROJECT.json` give the lines.

## Fairness

Three runs check liveness.

* `Converges` (`RuleEngine!FairSpec`): weak fairness of every Lookup's steps (a
  goroutine that can run does; a Storage call returns or fails), of starting Lookups
  (connections keep arriving; the property is about what they are told), and of the
  expiry of cache entries (time passes). There is no fairness of operators and
  none of Storage's recovery: the property assumes that Storage eventually answers.
* `EveryDoReturns` (`Outcall!FairSpec`): weak fairness of a caller's steps, of
  background goroutines, and of the call in flight, whose HTTP request carries a
  deadline and so always ends. No fairness of the clock or of new requests.
* `StopMeansStop`, `SpliceDelivers` and `SpliceFinishes` (`Process!FairSpec`): weak fairness
  of `run`, of the control API's goroutine, of each closer and of each accept loop whose
  listener is closed, of the connection's handler and of each copy loop: goroutines that
  can run do. Nothing is assumed of signals, clients, peers or operators, nor of which
  of several outcomes a step has. A peer that stops reading blocks the write to it, so the
  two splice properties except it, and one that breaks off.

## What is proved

The theorems hold for every value of the constants: any number of nodes, threads,
keys, requests or chunks, any bound on writes, faults or dials, inputs of any length.
Every safety property of every passing run has one, and so have both refinements. Each
component has an inductive invariant, whose proof has a lemma per action or per group
of actions that do the same to the state.

| Module | Theorem | States |
|---|---|---|
| `RuleEngine_proofs` | `VersionCheckSound` | `VersionMeansContent` |
| | `NothingBrokenEnforced`, `ConfirmedIsCurrent` | `FailsClosed`, `ConfirmedLookupIsCurrent` |
| | `Refinement` | `ImplementsPolicyStore` |
| `CertFleet_proofs` | `ServesOnlyVerified`, `ServesCurrentPolicy` | `ServedVerifies`, `PolicyIsCurrent` |
| `Outcall_proofs` | `SemaphoreBalanced`, `NeverSuperseded`, `RefusalKept` | `SlotsBalanced`, `NoSupersededAnswer`, `RefusalStands` |
| `PosixStorage_proofs` | `CleansUp` | `NoLitter` |
| | `Refinement` | `ImplementsStorage` |
| `Process_proofs` | `TableBeforeListeners`, `RelayIsFaithful` | `ServesWithTable`, `SpliceFaithful` |
| `Connection_proofs` | `DialsOnlyAuthorized`, `OneHostEndToEnd`, `WrittenOnce`, `NothingLeftOpen` | `DialsAuthorized`, `OneHost`, `SentOnce`, `NothingOutlives` |
| | `ReconnectsAreGraceful`, `OneChannelOnly` (an action property) | `StreamsSurvive`, `OneChannel` |
| `Algorithms_proofs` | `TableCoverageHolds`, `TableBucketsHolds`, `TableLastEntryHolds` | `TableCoverage`, `TableBuckets`, `TableLastEntry` |
| | `IndexTransparentHolds` | `IndexTransparent` |
| | `ClonesReloadHolds`, `ClonesIssuableHolds`, `BundleResolvesHolds` | `ClonesReload`, `ClonesIssuable`, `BundleResolves` |
| | `ClientIsVouchedForHolds`, `GateAdmitsItsOwnHolds`, `ListenerCertFitsHolds` | `ClientIsVouchedFor`, `GateAdmitsItsOwn`, `ListenerCertFits` |

`Tables_proofs` has the lemmas about the default table, the host index and the
listener's certificate that `Algorithms_proofs` cites. Each stateful component also has
`TypeCorrect`, `Spec => []TypeOK`.

**Rule engine: versions** (`VersionInv`). `VersionMeansContent` speaks of the caches only and
is not inductive: a Lookup publishes an entry from locals it read several steps
earlier. `VersionInv` strengthens it with the same statement about every pair of a
version and a content that a Lookup in progress carries: the entry it copied at the
start, the file it loaded after its Stat (the Stat comes first, so a file that is
newer than its version is harmless: the version it is stored under is no longer
reported), and the file it saved when it minted a uuid, under the token of its own
write. An operator's write cannot break any of them: in a directory it brings a
token nobody holds, on S3 one that determines the content. Entries marked `raced`
(a raced re-Stat, or on S3 a version that came back between Stat and Load) are
excepted.

**Rule engine: answers** (`ReadInv`, on top of `VersionInv`). For every point of a Lookup it says
which of its locals were the content of Storage at some moment since the Lookup began,
and that a cache and a copy of it hold only what compiles. This needs
`VersionInv`: a Stat that reports the cached version is what makes an old
entry current now. For the refinement each step is shown to be one of
five: an operator's write, a write-back of a file this Lookup has read, the call, an
answer that the history allows, or nothing a caller can notice.

**Certificate fleet** (`ServedInv`, `PolicyInv`). What is stored under a chain's id is a clone of that
chain, nothing in memory survives a process, and what a connection holds is the clone it
asked for under its node's key. For policies: as long as nothing is tainted, every
stored clone is by the CA of `.tuple` and by that of every running node, and while a node
wipes, every clone not on its list is by its own CA already. That is why the wipe
has to come before `.tuple` is written: a crash in between leaves a `.tuple` that still differs,
and the next start wipes again.

**Outcall.** `SlotsBalanced` needs that a call which has not acquired holds nothing. The two
properties about answers need `Latest` (the cache, and what a finished call has not yet
handed out, are the latest reply for the key) and `Read` (what a caller read when `Do`
began was the latest reply then; a result that is no later is what it read).

**Posix storage.** Only whole, synced files have a key's name, in memory and on the medium
(`WholeFiles`); a temporary file has a name only inside its Put, holds the value once
written, and is synced before the rename (`TmpFiles`); where a process stands tells which
call it makes and whether it took effect (`Serving`). Under that invariant every system call is a
step of `Storage` or a stutter: rename, unlink, read and stat are the moments at which a call
takes effect, one unlink of a wipe removes one key, and a power failure goes back to whole values.

**Process and relay.** The chunks that were received, held by the copy loop, read ahead and in
the socket are consecutive, in that order, and add up to what was sent while the sender's
connection holds (`Line`); the loop holds a chunk exactly between its read and its write
(`Loop`); the end is passed on only after all of it (`Across`).

**Connection.** `Gates`: nothing is dialed in the early phases, and whatever dials later does so
under the gates' outcome, which no longer changes. `Requests`: what each state of a
request says about what it has written. `Owners`: an open upstream connection is the handler's
current one, or belongs to a request that still runs, or was opened after Close by a stream.
`Names`: from the first byte of TLS on, the SNI is the host the rules were asked about, and a
request that has begun names it too, whichever handler began it. That a stream keeps its
connection (`StreamsSurvive`) is inductive together with those: an h2 stream never
owns a connection of its own, so what a finishing request closes is not under a stream,
and what `currentConn` replaces it leaves draining.
`Channel`: where the client can have been told what.

**Algorithms.** Here the state says nothing and the work is in the operators: what a
loop has computed after each turn. The induction theorems of the library take an operator as a
parameter, which the provers cannot instantiate, so three lemmas at the start of
`Tables_proofs` speak of a set or a function in its place: `Least` (a set of numbers that is
not empty has a least one), `Counting` (a set that holds 0 and with each number the next is
all of them) and `Builds` (a recursive function over an interval exists and satisfies its equation).
Each loop then gets a lemma that says what it returns, and is not unfolded again. The
arguments:
* *Coverage.* Ranges sorted by start leave no gap exactly if each starts at most one
  past the largest end so far; the walk keeps that end. A bit string is the number it
  spells, one for one, so an address is in a prefix exactly if it is in the prefix's range.
* *Host index.* By induction over a glob, a literal tail matches only a host with that tail; so
  a host that matches ends, at a label boundary, in a name its rule hangs at,
  and the walk from the right visits every node up to that name. The candidates are in rule
  order and miss no match, so the first hit is the same.
* *Clones.* With distinct subjects the leaf is the only certificate that issued none, and each
  step of the ordering has one certificate to find. In a bundle the climb may go as often as there
  are certificates; a climb that has not ended by then has repeated one.
* *Client addresses and gates.* The last untrusted hop of the concatenation does not
  depend on how it was split into lines, or on anything before it. A text has one cut at
  its first colon, so a header names one user and one password.
* *Listener.* A NUL before each name makes the hashed text determine the list of names, and the
  label-wise check of `isValidDNSName` is the character-wise rule `LDH`.

### Assumptions of the proofs

Only the named assumptions on constants in the modules, which TLC evaluates in the
runs. They type the constants and say that sentinels are not ordinary values: the zero
version is neither a stamp nor an ETag, "no chain" and "error" are no origin chains, a missing file is
not a value, there is at least one key and at least one listener (`config.Parse` refuses
an empty configuration). The characters with a meaning (dot, dash, star) are no letters, each
credential of a gate can be sent in a header, and no name of a listener contains a NUL: a
name that did could stand for two in the hashed text. Which tokens a write may get is part of the model (`NewVersions`), not
an assumption: in a directory one that is not in use, on S3 the one of the content.

### What is only model-checked

* Liveness (`Converges`, `EveryDoReturns`, `StopMeansStop`, `SpliceDelivers`, `SpliceFinishes`):
  fairness and ENABLED are out of the prover's reach.
* The properties of the four runs that end in a violation, which do not hold.

## What is not modelled

* **S3** as a service: its operations are atomic, its tokens and its short listing
  are modelled where they matter. `List` and the `names/` symlinks serve browsing only.
  Two writes to a directory within one mtime tick and of one size would share a token.
  The decorators of `storage/logging.go` and `storage/telemetry.go` forward every call.
* **Bytes**: header edits, bodies, TLS records, parsing of ClientHellos and
  header blocks are abstracted to their outcomes, CIDR and port arithmetic of egress
  rules to their verdict. Globs are literals and stars, on names without a
  slash (no `?`, classes or escapes). General regular expressions in rules are
  their language; rule compilation is a predicate. Cryptography is ideal: a
  hash is its input, a signature names its key.
* **Time**: a timeout is one of the outcomes of the call it bounds. In particular the read
  deadlines of client connections are not told apart.
* **Interim responses** (1xx other than an upgrade's): a round trip has one answer.
* **Kernel interfaces** of the acceptors (`SO_ORIGINAL_DST`, `IP_TRANSPARENT`), flag
  parsing, telemetry and its spool file: I/O without a state the other parts depend on.
* A relay has no idle timeout, so a splice with one end gone and the other silent
  stays open; the model has it, and `SpliceFinishes` does not claim otherwise.

## Running it

    tlc -config RuleEngine.cfg MCRuleEngine
    tlapm RuleEngine_proofs.tla

Each `.cfg` belongs to the MC module of the same component; `Algorithms.cfg` and
`ChainReload.cfg` belong to `MCAlgorithms`, and `PROJECT.json` lists every pair. The eight
`*_proofs` modules are checked one by one; from nothing they take between one and
sixteen minutes each.
