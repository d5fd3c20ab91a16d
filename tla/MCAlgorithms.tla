---------------------------- MODULE MCAlgorithms ----------------------------
(***************************************************************************)
(* The pure algorithms over bounded inputs: TLC draws an input of one      *)
(* algorithm, checks what is claimed of it, and starts again.              *)
(***************************************************************************)
EXTENDS Algorithms, SequencesExt

CONSTANTS
    MaxEntries,  \* entries of a rules/default document
    MaxGlob,     \* characters of a glob
    MaxHost,     \* characters of a host
    MaxChain,    \* certificates of a real chain
    MaxPool      \* certificates of a signing CA's bundle

mcWidth == [f \in Family |-> IF f = "v4" THEN 2 ELSE 1]
mcToLower == [u \in Upper |-> "a"]

\* All v4 keys; v6 by its two halves or as a whole.
mcV4 == BoundedSeq({k \in RawKey : k.fam = "v4"}, MaxEntries)
v6(n) == [fam |-> "v6", addr |-> <<n>>, len |-> n]
mcV6 == {<<v6(0)>>, <<[fam |-> "v6", addr |-> <<1>>, mask |-> <<1>>], [v6(0) EXCEPT !.len = 1]>>,
         <<v6(1)>>}
mcDocuments ==
    {p[1] \o p[2] : p \in {p \in mcV4 \X mcV6 : Len(p[1]) = MaxEntries => p[2] = <<v6(0)>>}}

chars == Lower \cup Upper \cup {Dot, Dash}
mcHosts == BoundedSeq(chars, MaxHost)
mcGlobs == BoundedSeq(chars \cup {Star}, MaxGlob) \ {<<>>}
glob(g) == [kind |-> "glob", glob |-> g]
mcMatchers ==
    {glob(g) : g \in mcGlobs}
    \cup {[kind |-> "suffixes", suffixes |-> x] :
            x \in SUBSET {<<"a", Dot, "b">>, <<"b", Dot, "b">>} \ {{}}}
mcFew == {[kind |-> "always"], glob(<<"a">>), glob(<<Star, Dot, "a">>), glob(<<"A">>),
          [kind |-> "suffixes", suffixes |-> {<<"a", Dot, "b">>, <<"a", Dot, "a">>}],
          [kind |-> "re", lang |-> {<<"a", Dot, "a">>, <<"b">>}]}
rule(m, d, c) == [host |-> m, deny |-> d, conn |-> c, msg |-> TRUE]
mcRuleLists ==
    {<<rule(m, FALSE, TRUE)>> : m \in mcMatchers}
    \cup {<<rule(m, d, TRUE), rule(n, FALSE, d), rule(o, FALSE, TRUE)>> :
            m, n, o \in mcFew, d \in BOOLEAN}

real(s, i, t, c) == [sub |-> s, iss |-> i, serial |-> s, notAfter |-> t, isCA |-> c]
mcReal == {real(s, i, t, c) : s \in Name, i \in {1}, t \in {1, 3}, c \in BOOLEAN}
mcCAs == {[pathLen |-> p, notAfter |-> 2] : p \in {Unconstrained, 0, 1}}
mcRealChains == [ca : mcCAs, chain : BoundedSeq(mcReal, MaxChain) \ {<<>>}]

\* Bundles: names 1 to 3, keys named after them or after a second key pair, so
\* that a name can be signed by, or belong to, the wrong key.
member(s, i, k, b) == [sub |-> s, iss |-> i, key |-> <<1, k>>, by |-> <<1, b>>,
                       notAfter |-> 3, isCA |-> TRUE]
mcMembers == {member(s, i, k, b) : s \in 1 .. 2, i \in 1 .. 2, k \in 1 .. 2, b \in 1 .. 2}
mcBundles == [cert : {member(3, i, 3, b) : i \in {1, 3}, b \in {1, 3}},
              pool : BoundedSeq(mcMembers, MaxPool)]

\* X-Forwarded-For in one or two lines, a load balancer that may be chained.
mcHop == Peer \cup {"?"}
mcSeeds == BoundedSeq(mcHop, 1)
mcForwardings == [peer : Peer, lines : BoundedSeq(BoundedSeq(mcHop, 2), 2), xri : mcHop]

\* Gates of up to two credentials of a kind; passwords and tokens may hold a colon.
secrets == {<<"p">>, <<"p", Colon>>}
mcChar == chars \cup {Star, " ", "0", "1", "u", "v", "p", "i", "j", Colon} \cup ToSet(BadHash)
mcBasic == {[user |-> u, hash |-> h] : u \in {<<>>, <<"u">>, <<"v">>, <<"u", Colon, "p">>},
                                       h \in secrets \cup {BadHash}}
mcBearer == {[id |-> i, hash |-> h] : i \in {<<"i">>, <<"j">>}, h \in secrets}
mcHeaders ==
    {Absent} \cup {[scheme |-> "Basic", value |-> u \o <<Colon>> \o h] :
                      u \in {<<"u">>, <<"v">>, <<"u", Colon, "p">>}, h \in secrets}
    \cup {[scheme |-> s, value |-> h] : s \in {"Basic", "Bearer", "Digest"}, h \in secrets}
mcVerdicts == {Refused, Broken, NoPrincipal, <<"b">>}
mcGates == [required : BOOLEAN, basic : BoundedSeq(mcBasic, 2), bearer : BoundedSeq(mcBearer, 2),
            broker : SUBSET {"socket", "url", "path"}]

\* The names of an https listener at one start and at a later one.
mcIPOf == (<<"1", ":">> :> "ip1") @@ (<<"0", "1">> :> "ip1") @@ (<<"1">> :> "ip2")
mcSingle == {<<n>> : n \in BoundedSeq({"a", Dot, Dash, " "}, 5) \ {<<>>}}
mcListed == BoundedSeq({<<"a">>, <<"b">>, <<"a", "b">>, <<"A", " ">>, <<" ">>} \cup DOMAIN IPOf, 2) \ {<<>>}
mcListenings ==
    [first : mcListed, second : mcListed, later : {0, 2}, end : {3, 12}]
    \cup [first : {<<<<"a">>>>}, second : mcSingle, later : {0, 2}, end : {3, 12}]

\* "Storage, which stays the sole source of truth" (CertCache): every stored
\* clone reloads, also of a chain that repeats a certificate.
AllClonesReload == input.kind = "chain" => EveryCloneReloads(input.ca, input.chain)
=============================================================================
