------------------------------ MODULE OwnCerts ------------------------------
(***************************************************************************)
(* The certificates that are no clones: the identity of the --listen-https-*)
(* proxy listener (internal/cert/selfcert.go), minted once and kept in the *)
(* leaf cache, and the fallback leaf of an error page (fallback.go).  A    *)
(* name is a sequence of characters; time is a number.                     *)
(***************************************************************************)
EXTENDS HostIndex

CONSTANTS
    IPOf,          \* the names net.ParseIP accepts, with the address they spell
    MaxLabel,      \* 63
    MaxName,       \* 255
    SelfValidity,  \* ten years
    FallbackValidity

Nul == "nul"

ASSUME ValidityAssumption ==
    MaxLabel \in Nat /\ MaxName \in Nat /\ SelfValidity \in Nat /\ FallbackValidity \in Nat

IsIP(n) == n \in DOMAIN IPOf

isValidDNSName(s) ==
    /\ s # <<>> /\ Len(s) <= MaxName
    /\ \A x \in {Label(s, b) : b \in Starts(s)} :
          /\ x # <<>> /\ Len(x) <= MaxLabel
          /\ \A i \in DOMAIN x : \/ x[i] \in Lower \cup Upper
                                 \/ x[i] = Dash /\ i \notin {1, Len(x)}

\* tagSANs: the DNS names, then the addresses.
tagSANs(dns, ips) == [i \in DOMAIN dns |-> <<"dns", dns[i]>>] \o [i \in DOMAIN ips |-> <<"ip", ips[i]>>]

\* LeafKey sorts the tagged names: a key is a bag of them.
LeafKey(tags) == [t \in Range(tags) |-> Cardinality({i \in DOMAIN tags : tags[i] = t})]

\* Mutant: the names are joined without a separator.
selfCertIdentityJoined(names) == <<"self">> \o Concat(names)

\* selfCertIdentityHash: the raw names, each after a NUL.  A hash is its input.
selfCertIdentityHash(names) ==
    <<"self">> \o Concat([i \in DOMAIN names |-> <<Nul>> \o names[i]])

\* One name of the list: an address, a DNS name, or no SAN at all.
addSAN(sans, n) ==
    IF IsIP(n) THEN [sans EXCEPT !.ips = Append(@, IPOf[n])]
    ELSE IF isValidDNSName(n) THEN [sans EXCEPT !.dns = Append(@, n)] ELSE sans

SANsOf(names) ==
    LET sans[k \in 0 .. Len(names)] ==
            IF k = 0 THEN [dns |-> <<>>, ips |-> <<>>] ELSE addSAN(sans[k - 1], names[k])
    IN sans[Len(names)]

\* What SelfCert mints at time now under a CA valid until caEnd.
MintSelf(names, now, caEnd) ==
    LET sans == SANsOf(names) IN
    [cn |-> names[1], dns |-> sans.dns, ips |-> sans.ips, serial |-> selfCertIdentityHash(names),
     key |-> LeafKey(tagSANs(sans.dns, sans.ips)),
     notAfter |-> IF now + SelfValidity > caEnd THEN caEnd ELSE now + SelfValidity]

\* verify and selfCertFromChain: the key is derived from the names in the
\* certificate.
Rekeyed(cert) == LeafKey(tagSANs(cert.dns, cert.ips))

\* SelfCert on a cache of certificates by id: a hit, or a mint that is stored.
SelfCert(cache, names, now, caEnd) ==
    LET id == selfCertIdentityHash(names) IN
    IF id \in DOMAIN cache /\ cache[id].key = Rekeyed(cache[id])
    THEN [cert |-> cache[id], key |-> Rekeyed(cache[id]), cache |-> cache]
    ELSE LET c == MintSelf(names, now, caEnd) IN
         [cert |-> c, key |-> c.key,
          cache |-> [i \in DOMAIN cache \cup {id} |-> IF i = id THEN c ELSE cache[i]]]

\* Fallback: a leaf for one name, never stored.
Fallback(sni, now, caEnd) ==
    LET dns == IF IsIP(sni) THEN <<>> ELSE <<sni>>
        ips == IF IsIP(sni) THEN <<IPOf[sni]>> ELSE <<>>
    IN [cn |-> sni, dns |-> dns, ips |-> ips, serial |-> <<"fallback", Nul>> \o sni,
        key |-> LeafKey(tagSANs(dns, ips)),
        notAfter |-> IF now + FallbackValidity > caEnd THEN caEnd ELSE now + FallbackValidity]

-----------------------------------------------------------------------------
(* Properties *)

\* The letter-digit-hyphen rule of RFC 952 and 1123, character by character.
LDH(s) ==
    LET edge(i) == i \in {0, Len(s) + 1} \/ s[i] = Dot IN
    /\ Len(s) \in 1 .. MaxName
    /\ \A i \in DOMAIN s : s[i] \in Lower \cup Upper \cup {Dot, Dash}
    /\ \A i \in 1 .. Len(s) - MaxLabel : \E j \in i .. i + MaxLabel : s[j] = Dot
    /\ \A i \in 1 .. Len(s) + 1 : ~(edge(i - 1) /\ edge(i))
    /\ \A i \in DOMAIN s : s[i] = Dash => ~edge(i - 1) /\ ~edge(i + 1)

\* A listener's certificate, minted by one start and loaded by a later one that
\* may be configured with other names, is the one for the names it is asked for:
\* same common name, exactly their valid names as SANs, the key that fits, no
\* longer valid than the CA; only the same list gets the stored one.  One bad SAN
\* would make clients reject the whole certificate.
ListenerKeepsIdentity(first, second, later, caEnd) ==
    LET a == SelfCert(<<>>, first, 0, caEnd)
        b == SelfCert(a.cache, second, later, caEnd)
    IN /\ b.cert.cn = second[1] /\ b.key = b.cert.key
       /\ \A n \in Range(second) \ DOMAIN IPOf : LDH(n) => n \in Range(b.cert.dns)
       /\ \A n \in Range(b.cert.dns) : n \in Range(second) /\ LDH(n)
       /\ Range(b.cert.ips) = {IPOf[n] : n \in Range(second) \cap DOMAIN IPOf}
       /\ b.cert.notAfter <= caEnd
       /\ first = second => b = a
       /\ first # second => b.cert = MintSelf(second, later, caEnd)
       /\ LET f == Fallback(second[1], later, caEnd) IN
             f.notAfter <= caEnd /\ f.serial # b.cert.serial
=============================================================================
