---------------------------- MODULE Certificates ----------------------------
(***************************************************************************)
(* The certificates a site brings (internal/cert): what is read from the   *)
(* files, the gate they pass, the bundle made of them, and what a client   *)
(* makes of what is served (internal/verify).                              *)
(*                                                                         *)
(* Time is in days.  A key is a name; a certificate names the key that     *)
(* signed it, which stands for the signature and the key identifiers.      *)
(***************************************************************************)
EXTENDS Document

CONSTANTS Contents,     \* the body of a reference -> what its files hold, by file name
          Labels,       \* a host name -> its labels, the leftmost first
          SystemRoots,  \* the certificates the machine itself trusts
          ACMEChain,    \* what an ACME server signs with, up to a root
          Now

\* What a file holds, one after another.
Cert(subject, issuer, key, signer, ca, names, from, to) ==
    [block |-> "cert", subject |-> subject, issuer |-> issuer, key |-> key, signer |-> signer,
     ca |-> ca, names |-> names, from |-> from, to |-> to]
Key(key, phrase) == [block |-> "key", key |-> key, phrase |-> phrase]

Block == [block : {"cert"}, subject : STRING, issuer : STRING, key : STRING, signer : STRING,
          ca : BOOLEAN, names : SUBSET STRING, from : Int, to : Int]
         \cup [block : {"key"}, key : STRING, phrase : STRING]

ASSUME ContentsAssumption == \A body \in DOMAIN Contents : Contents[body] \in Seq(Block)
ASSUME LabelsAssumption == \A host \in DOMAIN Labels : Labels[host] \in Seq(STRING) \ {<<>>}
ASSUME NowAssumption == Now \in Int

DefaultExpiryWarningDays == 45

\* What an issuer answers a request with.
IssuedBundle(host, key, chain) ==
    LET leaf == Cert(host, chain[1].subject, key, chain[1].key, FALSE, {host}, Now, Now + 90) IN
    [leaf |-> leaf, certs |-> <<leaf>> \o chain, key |-> key, ca |-> {}, fingerprint |-> leaf]

-----------------------------------------------------------------------------
(* Reading them.  The names of the files say nothing.                      *)

classify(c) ==
    IF ~c.ca THEN "leaf" ELSE IF c.subject = c.issuer THEN "root" ELSE "intermediate"

\* A certificate found twice is one; a key that its passphrase does not open
\* is locked.
Scan(blocks, passphrase) ==
    LET certs == {b \in ToSet(blocks) : b.block = "cert"}
        keys == ToSet(blocks) \ certs
        opened == {k \in keys : k.phrase \in {"", passphrase}}
        Kind(kind) == {c \in certs : classify(c) = kind}
    IN  [order |-> blocks, leaves |-> Kind("leaf"), intermediates |-> Kind("intermediate"),
         roots |-> Kind("root"), keys |-> opened, locked |-> keys \ opened]

Certs(m) == m.leaves \cup m.intermediates \cup m.roots

\* Of some certificates, the one that was read first.
Foremost(certs, m) == m.order[Min({i \in DOMAIN m.order : m.order[i] \in certs})]

\* RFC 6125: a wildcard stands for one whole label, the leftmost.
matchName(san, host) ==
    \/ san = host
    \/ /\ Head(Labels[san]) = "*"
       /\ Len(Labels[san]) > 1
       /\ Tail(Labels[san]) = Tail(Labels[host])

Covers(c, host) ==
    IF host \in IPs THEN host \in c.names ELSE \E san \in c.names \ IPs : matchName(san, host)

Signed(issuer, c) == issuer.ca /\ c.issuer = issuer.subject /\ c.signer = issuer.key
isSelfSigned(c) == Signed(c, c)

-----------------------------------------------------------------------------
(* The chain: from the leaf to the first candidate that signed it, and so  *)
(* on.  There is no way back from a candidate that leads nowhere.          *)

\* Intermediates are tried before roots.
findIssuer(path, m) ==
    LET signed == {c \in Certs(m) \ ToSet(path) : Signed(c, Last(path))}
        nearer == signed \cap m.intermediates
    IN  IF signed = {} THEN <<>> ELSE <<Foremost(IF nearer # {} THEN nearer ELSE signed, m)>>

Ended(path, m) == \/ isSelfSigned(Last(path))
                  \/ classify(Last(path)) = "root"
                  \/ findIssuer(path, m) = <<>>

Longer(path, m) == IF Ended(path, m) THEN path ELSE path \o findIssuer(path, m)

Walk(leaf, m) ==
    LET walk[n \in 0..Len(m.order)] == IF n = 0 THEN <<leaf>> ELSE Longer(walk[n - 1], m)
    IN  walk

ChainOf(path) ==
    LET reached == classify(Last(path)) = "root"
    IN  [certs |-> IF reached THEN Front(path) ELSE path,
         root |-> IF reached THEN {Last(path)} ELSE {},
         complete |-> reached \/ isSelfSigned(Last(path))]

Build(leaf, m) == ChainOf(Walk(leaf, m)[Len(m.order)])

\* What a client does: any way from the leaf to what it trusts, through
\* what it is sent, of certificates valid at the time.  There is one when no
\* set of certificates is closed under going on and has none it trusts.
Trusted(certs, roots, time) ==
    LET valid == {c \in ToSet(certs) \cup roots : c.from <= time /\ time <= c.to} IN
    /\ Head(certs) \in valid
    /\ \A reached \in SUBSET valid :
          /\ Head(certs) \in reached
          /\ \A c \in reached, i \in valid : Signed(i, c) => i \in reached
          => reached \cap roots # {}

\* At the moment the leaf became valid, so that age is not what is judged.
chainsToPublicRoot(chain) == Trusted(chain.certs, SystemRoots, chain.certs[1].from)
isPrivateRoot(root) == root \notin SystemRoots

-----------------------------------------------------------------------------
(* The gate: the codes that stop a build.                                  *)

\* The keys Envoy serves.
Supported(key) == key \notin {"rsa1024", "ed25519"}

Matching(c, m) == {k \in m.keys : k.key = c.key}

\* The leaf for the hostnames; with none given, the only one there is.
selectLeaf(in, m) ==
    LET chosen == {l \in m.leaves : \A h \in in.hostnames : Covers(l, h)} IN
    IF Cardinality(chosen) = 1 THEN chosen ELSE {}

Presentable(chain) == chain.complete \/ chainsToPublicRoot(chain)

gate(in, m) ==
    LET leaf == selectLeaf(in, m) IN
    Broken({
    <<"PF-910", \E k \in m.keys, r \in m.roots : k.key = r.key>>,
    <<"PF-906", m.locked # {}>>,
    <<"PF-912", \E k, l \in m.leaves : k # l /\ (k.names \cap l.names) \ IPs # {}>>,
    <<"PF-903", leaf = {}>>,
    <<"PF-901", \E l \in leaf : Matching(l, m) = {}>>,
    <<"PF-902", \E l \in leaf : ~Presentable(Build(l, m))>>,
    <<"PF-911", \E l \in leaf : l.from > Now>>,
    <<"PF-904", \E l \in leaf : l.to < Now>>,
    <<"PF-905", \E l \in leaf : ~Supported(l.key)>>})

\* The certificate is close to its end, which stops nothing.
Expiring(in, m) == \E l \in selectLeaf(in, m) : l.to >= Now /\ l.to - Now <= in.warningDays

BundleOf(leaf, chain) ==
    [leaf |-> leaf, certs |-> chain.certs, key |-> leaf.key,
     ca |-> {r \in chain.root : isPrivateRoot(r)}, fingerprint |-> leaf]

\* The bundle that is served; none when the gate is not passed.
Assemble(in) ==
    LET m == Scan(in.blocks, in.passphrase) IN
    IF gate(in, m) # {} THEN {}
    ELSE {BundleOf(l, Build(l, m)) : l \in selectLeaf(in, m)}

-----------------------------------------------------------------------------
(* What a client that connects is given.                                   *)

\* A name a wildcard listener would be asked for.
exampleFor(host) == IF Head(Labels[host]) = "*" THEN <<"malmok-verify">> \o Tail(Labels[host])
                    ELSE Labels[host]

NamedBy(c, labels) ==
    \E san \in c.names \ IPs : \/ Labels[san] = labels
                               \/ Head(Labels[san]) = "*" /\ Tail(Labels[san]) = Tail(labels)

\* The chain verifies as it is sent, for the name it is asked for.
selfSufficient(certs, name, roots) ==
    Trusted(certs, roots, Now) /\ (name # <<>> => NamedBy(certs[1], name))

notExpired(certs) == \A c \in ToSet(certs) : c.to >= Now

\* The listener answers to its own hostname with a certificate for it.
perHostname(certs, name) == name # <<>> => NamedBy(certs[1], name)

\* The checks of a listener that stop the command; roots is what the
\* verifier trusts.  What is warned of or noted (revocation points, what is
\* served without a name, versions of TLS) is left out.
Verify(answers, certs, hostname, roots) ==
    LET name == IF hostname = "" THEN <<>> ELSE exampleFor(hostname) IN
    IF ~answers THEN {"PV-001"}
    ELSE Broken({<<"PV-002", ~selfSufficient(certs, name, roots)>>,
                 <<"PV-003", ~notExpired(certs)>>,
                 <<"PV-007", ~perHostname(certs, name)>>})

=============================================================================
