----------------------------- MODULE HostIndex -----------------------------
(***************************************************************************)
(* The host index of a RuleSet: internal/rules/host_index.go, with the     *)
(* matchers of compile.go and the two first-match passes of engine.go.     *)
(* Hosts and patterns are sequences of characters: what the index may skip *)
(* depends on where the dots, wildcards and capitals are.                  *)
(***************************************************************************)
EXTENDS Lists

CONSTANTS
    Char,     \* characters
    Lower,    \* lower-case letters and digits
    Upper,    \* capitals
    ToLower

Dot == "."
Dash == "-"
Star == "*"

\* Letters are what is left of the characters with a meaning of their own.
ASSUME LetterAssumption ==
    /\ ToLower \in [Upper -> Lower] /\ Lower \cap Upper = {}
    /\ {Dot, Dash, Star} \cap (Lower \cup Upper) = {}

lower(s) == [i \in DOMAIN s |-> IF s[i] \in Upper THEN ToLower[s[i]] ELSE s[i]]

\* strings.Split at the dots: where the labels start, and the one that starts at b.
Starts(s) == {1} \cup {i + 1 : i \in {i \in 1 .. Len(s) : s[i] = Dot}}
Label(s, b) ==
    SubSeq(s, b, Min({i \in b .. Len(s) : s[i] = Dot} \cup {Len(s) + 1}) - 1)

From(s, b) == SubSeq(s, b, Len(s))

isLiteralDNSLabel(x) ==
    /\ x # <<>> /\ x[1] # Dash /\ x[Len(x)] # Dash
    /\ \A i \in DOMAIN x : x[i] \in Lower \cup {Dash}

\* parseImportedSuffixRegex: names of two literal labels or more.
ImportedName ==
    {x \in Seq(Char) : /\ Starts(x) # {1}
                       /\ \A b \in Starts(x) : isLiteralDNSLabel(Label(x, b))}

\* A regular expression is the hosts it matches, unless it is one the importer
\* writes: the suffixes in it.
Matcher == [kind : {"always"}] \cup [kind : {"glob"}, glob : Seq(Char)]
           \cup [kind : {"re"}, lang : SUBSET Seq(Char)]
           \cup [kind : {"suffixes"}, suffixes : SUBSET ImportedName]

\* The predicates of a rule besides its host: `conn` (port and proto) and `msg`
\* (path, method and headers).
Rule == [host : Matcher, deny : BOOLEAN, conn : BOOLEAN, msg : BOOLEAN]

\* path.Match for patterns of literals and stars, on names without a slash: how
\* much of s the first i characters of g can match.
GlobMatch(g, s) ==
    LET reach[i \in 0 .. Len(g)] ==
            IF i = 0 THEN {0}
            ELSE IF g[i] = Star
            THEN {j \in 0 .. Len(s) : \E k \in reach[i - 1] : k <= j}
            ELSE {j \in 1 .. Len(s) : j - 1 \in reach[i - 1] /\ s[j] = g[i]}
    IN Len(s) \in reach[Len(g)]

\* strings.EqualFold at the end of the host, at a label boundary.
SuffixMatch(x, s) ==
    /\ Len(x) <= Len(s)
    /\ \A i \in 1 .. Len(x) : lower(x)[i] = lower(s)[Len(s) - Len(x) + i]
    /\ Len(s) > Len(x) => s[Len(s) - Len(x)] = Dot

match(m, s) ==
    \/ m.kind = "always"
    \/ m.kind = "suffixes" /\ \E x \in m.suffixes : SuffixMatch(x, s)
    \/ m.kind = "re" /\ s \in m.lang
    \/ m.kind = "glob" /\ GlobMatch(m.glob, s)

\* Mutant: a literal label counts although a wildcard follows.
literalGlobSuffixLoose(m) ==
    IF m.kind # "glob" THEN <<>>
    ELSE LET literal == {b \in Starts(m.glob) : isLiteralDNSLabel(Label(m.glob, b))}
         IN IF literal = {} THEN <<>> ELSE From(m.glob, Min(literal))

\* The complete literal labels at the right of a glob, <<>> for none.
literalGlobSuffix(m) ==
    IF m.kind # "glob" THEN <<>>
    ELSE LET literal == {b \in Starts(m.glob) :
                           \A c \in Starts(m.glob) : b <= c => isLiteralDNSLabel(Label(m.glob, c))}
         IN IF literal = {} THEN <<>> ELSE From(m.glob, Min(literal))

\* The names a rule is hung at.
HungAt(m) ==
    IF m.kind = "suffixes" THEN m.suffixes
    ELSE IF literalGlobSuffix(m) # <<>> THEN {literalGlobSuffix(m)} ELSE {}

\* buildHostCandidateIndex: a tree of labels from the right.  A node is what its
\* labels spell: the root <<>>, its children the last labels, and so on.
\* insertHostSuffix adds the nodes of a name and hangs the rule at the name.
buildHostCandidateIndex(rules) ==
    LET hung == UNION {HungAt(rules[i].host) \X {i} : i \in DOMAIN rules} IN
    [hung |-> hung,
     nodes |-> UNION {{From(h[1], b) : b \in Starts(h[1])} : h \in hung},
     fallback |-> {i \in DOMAIN rules : HungAt(rules[i].host) = {}}]

\* appendCandidates walks the labels of the lowered host from the right as long
\* as the tree has a child.  A trailing dot is trimmed.
appendCandidates(index, host) ==
    LET trimmed == IF host # <<>> /\ host[Len(host)] = Dot THEN SubSeq(host, 1, Len(host) - 1) ELSE host
        name == lower(trimmed)
        walked == {b \in Starts(name) :
                     name # <<>> /\ \A c \in Starts(name) : b <= c => From(name, c) \in index.nodes}
        found == index.fallback \cup {h[2] : h \in {h \in index.hung : \E b \in walked : h[1] = From(name, b)}}
    IN CHOOSE s \in Orders(found) : \A i, j \in DOMAIN s : i < j => s[i] < s[j]

\* The first match of the connection phase and of the message phase.
LookupConn(rules, order, host) ==
    FirstIn(order, LAMBDA i : match(rules[i].host, host) /\ rules[i].conn)
LookupRequest(rules, order, host) ==
    FirstIn(order, LAMBDA i : /\ ~rules[i].deny
                              /\ match(rules[i].host, host) /\ rules[i].conn
                              /\ rules[i].msg)

-----------------------------------------------------------------------------
Picked(order, k) == IF k = 0 THEN 0 ELSE order[k]

\* "this index can produce false positives but must never omit a possible
\* match": for every host the connection pass and the message pass select the
\* rule a scan of all rules in order selects (the hostIndex == nil branches).
IndexIsTransparent(rules, hosts) ==
    LET index == buildHostCandidateIndex(rules)
        all == [i \in DOMAIN rules |-> i]
    IN \A host \in hosts :
          LET some == appendCandidates(index, host) IN
          /\ Picked(some, LookupConn(rules, some, host)) = LookupConn(rules, all, host)
          /\ Picked(some, LookupRequest(rules, some, host)) = LookupRequest(rules, all, host)
=============================================================================
