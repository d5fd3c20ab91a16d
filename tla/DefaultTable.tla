---------------------------- MODULE DefaultTable ----------------------------
(***************************************************************************)
(* The rules/default table: internal/rules/defaultruleset.go.  A document  *)
(* is a sequence of entries keyed by address and mask; it is normalised,   *)
(* checked for coverage, sorted by mask and searched for a client.  An     *)
(* address and a mask are the functions of their bits, bit 1 the most      *)
(* significant; Width gives a family's bits (32 and 128 in the code).      *)
(***************************************************************************)
EXTENDS Lists

CONSTANTS Family, Width

\* Every family has addresses.
ASSUME WidthAssumption == Width \in [Family -> Nat \ {0}]

Bits(fam) == [1 .. Width[fam] -> {0, 1}]
Weight[n \in Nat] == IF n = 0 THEN 1 ELSE 2 * Weight[n - 1]
ValueUpTo(b, w) ==
    LET v[i \in 0 .. w] == IF i = 0 THEN 0 ELSE 2 * v[i - 1] + b[i] IN v[w]
Value(fam, b) == ValueUpTo(b, Width[fam])

\* A key as written: a prefix length, or a literal mask.
RawKey == (UNION {[fam : {f}, addr : Bits(f), len : 0 .. Width[f]] : f \in Family})
          \cup (UNION {[fam : {f}, addr : Bits(f), mask : Bits(f)] : f \in Family})

prefixMask(fam, n) == [i \in 1 .. Width[fam] |-> IF i <= n THEN 1 ELSE 0]

\* Address bits outside the mask are cleared.
parseMaskedKey(k) ==
    LET m == IF "len" \in DOMAIN k THEN prefixMask(k.fam, k.len) ELSE k.mask IN
    [fam |-> k.fam, addr |-> [i \in DOMAIN m |-> k.addr[i] * m[i]], mask |-> m]

\* The lengths a mask is the prefix mask of: at most one.
contiguousPrefixLen(k) == {n \in 0 .. Width[k.fam] : k.mask = prefixMask(k.fam, n)}
IsPrefixKey(k) == contiguousPrefixLen(k) # {}
PrefixLen(k) == CHOOSE n \in contiguousPrefixLen(k) : TRUE

contains(k, a) == \A i \in DOMAIN a : a[i] * k.mask[i] = k.addr[i]

\* Mutant: the first of two entries for one key is kept.
addEntryFirst(es, e) ==
    IF \E j \in DOMAIN es : es[j].key = e.key THEN es ELSE Append(es, e)

\* Entries whose keys normalise alike are one entry, at the place of the first
\* with the rule of the last.
addEntry(es, e) ==
    LET at == {j \in DOMAIN es : es[j].key = e.key} IN
    IF at = {} THEN Append(es, e) ELSE [es EXCEPT ![CHOOSE j \in at : TRUE] = e]

\* parseDefaultRuleset: one entry of the document after the other.  Rules are
\* their number.
parseDefaultRuleset(doc) ==
    LET entries[n \in 0 .. Len(doc)] ==
            IF n = 0 THEN <<>>
            ELSE addEntry(entries[n - 1], [key |-> parseMaskedKey(doc[n]), rule |-> n])
    IN entries[Len(doc)]

prefixRange(k) ==
    LET s == Value(k.fam, k.addr) IN
    [start |-> s, end |-> s + Weight[Width[k.fam] - PrefixLen(k)] - 1]

\* An order of the spans by start: which one makes no difference.
sortByStart(S) ==
    CHOOSE s \in Orders(S) : \A i, j \in DOMAIN s : i < j => s[i].start <= s[j].start

\* Mutant: a span that ends inside an earlier one moves the frontier back.
extendLastEnd(c, s) ==
    IF c.gap \/ s.start > c.upto + 1 THEN [c EXCEPT !.gap = TRUE] ELSE [c EXCEPT !.upto = s.end]

\* One span of the sweep: how far the spans reach without a gap.
extend(c, s) ==
    IF c.gap \/ s.start > c.upto + 1 THEN [c EXCEPT !.gap = TRUE]
    ELSE [c EXCEPT !.upto = IF s.end > c.upto THEN s.end ELSE c.upto]

\* checkCoverage: sweep the spans by start.
checkCoverage(fam, keys) ==
    LET spans == sortByStart({prefixRange(k) : k \in keys})
        covered[n \in 0 .. Len(spans)] ==
            IF n = 0 THEN [upto |-> -1, gap |-> keys = {}] ELSE extend(covered[n - 1], spans[n])
        c == covered[Len(spans)]
    IN ~c.gap /\ c.upto >= Weight[Width[fam]] - 1

\* The entries of one family: what the sorts below leave of their order does not
\* depend on the document's.
OfFamily(es, fam) == {e \in Range(es) : e.key.fam = fam}

\* compileParsedEntries accepts a table each family's plain prefixes cover.
compileParsedEntries(es) ==
    \A fam \in Family :
        checkCoverage(fam, {e.key : e \in {e \in OfFamily(es, fam) : IsPrefixKey(e.key)}})

\* Mutant: the smallest mask comes first.
sortByMaskAscending(S) ==
    {s \in Orders(S) :
        \A i, j \in DOMAIN s : i < j =>
            Value(s[i].key.fam, s[i].key.mask) <= Value(s[j].key.fam, s[j].key.mask)}

\* sort.Slice is not stable: every order by descending mask is possible.
sortByMaskDescending(S) ==
    {s \in Orders(S) :
        \A i, j \in DOMAIN s : i < j =>
            Value(s[i].key.fam, s[i].key.mask) >= Value(s[j].key.fam, s[j].key.mask)}

\* Lookup: the first bucket of a sorted list that contains the address.
Lookup(sorted, a) == FirstIn(sorted, LAMBDA e : contains(e.key, a))

-----------------------------------------------------------------------------
(* Properties of a document *)

Matching(es, fam, a) == {e \in OfFamily(es, fam) : contains(e.key, a)}

\* The coverage check is exact: a document is accepted if and only if every
\* address of every family lies in one of its plain prefixes.
CoverageIsExact(doc) ==
    LET es == parseDefaultRuleset(doc) IN
    compileParsedEntries(es) <=>
        \A fam \in Family : \A a \in Bits(fam) :
            \E e \in Matching(es, fam, a) : IsPrefixKey(e.key)

\* In an accepted table every client has one bucket, the entry of greatest mask
\* that contains it, in whatever order the unstable sort leaves equal masks.
OneBucketPerClient(doc) ==
    LET es == parseDefaultRuleset(doc) IN
    compileParsedEntries(es) =>
        \A fam \in Family : \A s \in sortByMaskDescending(OfFamily(es, fam)) :
            \A a \in Bits(fam) :
                /\ Lookup(s, a) # 0
                /\ \A e \in Matching(es, fam, a) :
                      e = s[Lookup(s, a)] \/ Value(fam, e.key.mask) < Value(fam, s[Lookup(s, a)].key.mask)

\* What an operator PUTs last for a set of clients is what they get: of two
\* entries for the same addresses under the same mask, the later one decides.
LastEntryWins(doc) ==
    LET es == parseDefaultRuleset(doc) IN
    \A i \in DOMAIN doc :
        LET same == {j \in DOMAIN doc :
                        /\ doc[j].fam = doc[i].fam
                        /\ parseMaskedKey(doc[j]).mask = parseMaskedKey(doc[i]).mask
                        /\ contains(parseMaskedKey(doc[j]), doc[i].addr)}
        IN \E e \in Matching(es, doc[i].fam, doc[i].addr) :
              e.rule = CHOOSE j \in same : \A k \in same : k <= j
=============================================================================
