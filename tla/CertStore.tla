----------------------------- MODULE CertStore -----------------------------
(***************************************************************************)
(* SslCertStore of packages/http-proxy: the certificates that an           *)
(* SslBumpProxy presents in place of the remote host's, issued as          *)
(* connections come and kept in an LRU cache with a time to live.          *)
(*                                                                         *)
(* Time passes in hours.  A hostname is the sequence of its labels, and    *)
(* never empty: no connection is made to an empty one.                     *)
(***************************************************************************)
EXTENDS Integers, Sequences, SequencesExt

CONSTANTS
    Hostname,           \* hostnames that clients ask for
    Address,            \* those that are IP addresses
    CertTtl,            \* certTtlDays, in hours
    MaxEntries,         \* certCacheMaxEntries
    MaxTime             \* hours that pass (bound)

HOUR == 1

ASSUME HostnameAssumption ==
    /\ \A h \in Hostname : h \in Seq(STRING) /\ h # <<>>
    /\ Address \subseteq Hostname
ASSUME CertAssumption ==
    CertTtl \in Nat /\ CertTtl > HOUR /\ MaxEntries \in Nat \ {0}

VARIABLES
    now,                \* the time
    cache,              \* certPemCache: certificates, the last used one last
    presented           \* the certificates given to clients, latest (history)

certVars == <<now, cache, presented>>

Certificate == [subject : Hostname, issued : Nat]
Nothing == [host |-> <<>>]

CertInit == now = 0 /\ cache = <<>> /\ presented = Nothing

-----------------------------------------------------------------------------
notAfter(cert) == cert.issued + CertTtl

(* subjectAltName: two DNS names, whatever the hostname is.                *)
altNames(cert) == {cert.subject, <<"*">> \o cert.subject}

(* Mutant: the two first labels are cut.                                   *)
parentDomainSkips(h) == IF Len(h) < 2 THEN <<>> ELSE Tail(Tail(h))

parentDomain(h) == Tail(h)

(* Mutant: entries live as long as their certificates.                     *)
FreshToTheEnd(cert) == now - cert.issued <= CertTtl

(* lru-cache: an entry is returned until its time to live is over.         *)
Fresh(cert) == now - cert.issued <= CertTtl - HOUR

Cached(h) == {cert \in Range(cache) : cert.subject = h /\ Fresh(cert)}

(* The cache without its entry for h, when it has one.                     *)
Without(s, h) == RemoveFirstMatch(s, LAMBDA cert : cert.subject = h)

(* lru-cache: a new entry beyond the maximum pushes out the first.         *)
Bounded(s) == IF Len(s) > MaxEntries THEN Tail(s) ELSE s

(* What lru-cache returns or stores moves to the end.                      *)
Present(cert, h, s) ==
    /\ cache' = Bounded(Append(Without(s, cert.subject), cert))
    /\ presented' = [host |-> h, cert |-> cert, at |-> now]
    /\ UNCHANGED now

(* getCertificate, createCertificate: the certificate of the hostname or   *)
(* of its parent domain from the cache, or a new one for the hostname; an  *)
(* entry that get() finds too old goes.                                    *)
getCertificate(h) ==
    LET parent == parentDomain(h)
    IN  \/ \E cert \in Cached(h) : Present(cert, h, cache)
        \/ /\ Cached(h) = {}
           /\ \E cert \in Cached(parent) : Present(cert, h, Without(cache, h))
        \/ /\ Cached(h) = {} /\ Cached(parent) = {}
           /\ Present([subject |-> h, issued |-> now], h,
                      Without(Without(cache, h), parent))

Tick ==
    /\ now < MaxTime
    /\ now' = now + 1
    /\ UNCHANGED <<cache, presented>>

CertNext == Tick \/ \E h \in Hostname : getCertificate(h)

CertSpec == CertInit /\ [][CertNext]_certVars

-----------------------------------------------------------------------------
(* What a TLS client accepts for the host it asked for: the name itself,   *)
(* or with "*" for the first label if two more follow at least.  A DNS     *)
(* name never stands for an address.                                       *)
Matches(name, h) ==
    /\ h \notin Address
    /\ \/ name = h
       \/ /\ name[1] = "*" /\ Len(name) = Len(h) /\ Len(name) > 2
          /\ \A k \in 2 .. Len(h) : name[k] = h[k]

Accepted(cert, h) == \E name \in altNames(cert) : Matches(name, h)

(* However old the cache and whatever was pushed out of it, the client is  *)
(* presented a certificate that it accepts for the hostname and that stays *)
(* valid for another hour, in all cases but two: an address is accepted in *)
(* no certificate of this store, and "b.a" not in one issued for "a" that  *)
(* is still in the cache.  There are never more entries than the maximum   *)
(* that was configured, nor two for the same name.                         *)
CertificateServes ==
    /\ presented # Nothing =>
          /\ \/ Accepted(presented.cert, presented.host)
             \/ presented.host \in Address
             \/ /\ Len(presented.host) = 2
                /\ presented.cert.subject = Tail(presented.host)
          /\ notAfter(presented.cert) - presented.at >= HOUR
    /\ Len(cache) <= MaxEntries
    /\ \A i, j \in DOMAIN cache : cache[i].subject = cache[j].subject => i = j
=============================================================================
