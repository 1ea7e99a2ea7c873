---------------------------- MODULE MCX509Verify ----------------------------
(* Certificates, CRLs and settings for the runs. *)
EXTENDS X509Verify, TLC

Leaf(subject, issuer) ==
  [subject |-> subject, issuer |-> issuer, key |-> subject, sigKey |-> issuer, aki |-> issuer,
   v3 |-> TRUE, ca |-> FALSE, pathLen |-> NoLimit, keyUsage |-> "none",
   valid |-> TRUE, hasExt |-> TRUE, critical |-> FALSE, usageFitsKey |-> TRUE, strong |-> TRUE, strongHash |-> TRUE, fits |-> TRUE, named |-> TRUE]
Ca(subject, issuer, pathLen) == [Leaf(subject, issuer) EXCEPT !.ca = TRUE, !.pathLen = pathLen, !.keyUsage = "both"]

\* leaf <- inter <- root; other is issued by somebody unknown.
Base == [leaf |-> Leaf("l", "i"), inter |-> Ca("i", "r", 0), root |-> Ca("r", "r", NoLimit), other |-> Leaf("o", "x")]
AllCerts == DOMAIN Base

CrlOf(issuer, revoked) == [issuer |-> issuer, sigKey |-> issuer, aki |-> "absent", valid |-> TRUE, critical |-> FALSE, revoked |-> revoked]
BaseCrls == [crlRoot |-> CrlOf("r", {}), crlInter |-> CrlOf("i", {"other"})]
AllCrls == DOMAIN BaseCrls

World(certs) == [cert |-> certs, crl |-> BaseCrls, files |-> <<>>]

Broken(c) ==
  {[Base EXCEPT ![c].ca = ~@], [Base EXCEPT ![c].pathLen = 0], [Base EXCEPT ![c].keyUsage = "crlSign"],
   [Base EXCEPT ![c].keyUsage = "absent"], [Base EXCEPT ![c].valid = FALSE], [Base EXCEPT ![c].critical = TRUE],
   [Base EXCEPT ![c].strong = FALSE], [Base EXCEPT ![c].strongHash = FALSE], [Base EXCEPT ![c].fits = FALSE],
   [Base EXCEPT ![c].named = FALSE], [Base EXCEPT ![c].sigKey = "x"], [Base EXCEPT ![c].aki = "absent"],
   [Base EXCEPT ![c].usageFitsKey = FALSE], [Base EXCEPT ![c].v3 = FALSE],
   \* A certificate of version 1.
   [Base EXCEPT ![c] = [@ EXCEPT !.v3 = FALSE, !.hasExt = FALSE, !.ca = FALSE, !.pathLen = NoLimit, !.keyUsage = "absent", !.aki = "absent"]]}

\* other has issued a certificate of the intermediate's key: leaf <- inter <- other <- inter ...
Circle == [Base EXCEPT !.inter = Ca("i", "o", NoLimit), !.other = Ca("o", "i", NoLimit)]
\* other issues leaf's issuer, below the root: one certificate more than inter's pathLen and the depths allow.
Long == [Base EXCEPT !.inter = Ca("i", "o", NoLimit), !.other = Ca("o", "r", 0)]
\* The root's name signed by its former key.
Rollover == [Base EXCEPT !.root.aki = "x", !.root.sigKey = "x"]

CertWorlds == {World(b) : b \in UNION {Broken(c) : c \in {"leaf", "inter", "root"}} \cup {Base, Circle, Long, Rollover}}
PathWorlds == {[World(b) EXCEPT !.files = f] : b \in {Base, Circle, Long}, f \in {<<"other">>, <<"root">>, <<"inter", "root">>}}

CrlChanges ==
  {[BaseCrls EXCEPT ![r].sigKey = "x"] : r \in AllCrls} \cup {[BaseCrls EXCEPT ![r].aki = "x"] : r \in AllCrls}
  \cup {[BaseCrls EXCEPT ![r].valid = FALSE] : r \in AllCrls} \cup {[BaseCrls EXCEPT ![r].critical = TRUE] : r \in AllCrls}
  \cup {[BaseCrls EXCEPT ![r].revoked = {"leaf", "inter"}] : r \in AllCrls}
  \* Two CRLs of one issuer, the second of which revokes.
  \cup {[BaseCrls EXCEPT !.crlRoot = CrlOf("i", {"leaf"})], [BaseCrls EXCEPT !.crlRoot = [CrlOf("i", {"leaf"}) EXCEPT !.valid = FALSE]],
        [BaseCrls EXCEPT !.crlInter.aki = "i"]}
CrlWorlds == {[World(b) EXCEPT !.crl = r] : b \in {Base, [Base EXCEPT !.inter.keyUsage = "certSign"]}, r \in CrlChanges \cup {BaseCrls}}

Peers == {<<"leaf">>, <<"leaf", "inter">>, <<"leaf", "inter", "other">>, <<"leaf", "inter", "root">>, <<"root">>, <<"other">>, <<"inter", "other">>}

AnyError == {{}, {"ERR_VFY_NOTAFTER_EXPIRED", "ERR_CHAIN_DEPTH_UP_LIMIT"},
             {"ERR_VFY_CERT_SIGN_FAIL", "ERR_VFY_INTERCA_INVALID_BCONS", "ERR_VFY_PATHLEN_EXCEEDED", "ERR_VFY_EXTENSIONS_REQUIRE_V3", "ERR_EXT_KU"}}
CrlErrors == {{}, {"ERR_VFY_CERT_REVOKED"}, {"ERR_VFY_CRL_NOT_FOUND"}, {"ERR_VFY_NEXTUPDATE_EXPIRED", "ERR_VFY_AKI_SKI_NOT_MATCH"}}

MCScenarios ==
  [certs |-> [worlds |-> CertWorlds, peers |-> Peers, crls |-> {},
              flags |-> {{}, {"PARTIAL_CHAIN"}, {"SECBITS", "HOST"}, {"DISABLE_TIME_CHECK"}},
              tolerances |-> AnyError, depths |-> {2, 3, MaxDepth}, calls |-> 1],
   crls |-> [worlds |-> CrlWorlds, peers |-> {<<"leaf", "inter">>}, crls |-> AllCrls,
             flags |-> {{"CRL_ALL"}, {"CRL_DEV"}, {"CRL_ALL", "DISABLE_TIME_CHECK"}, {"CRL_ALL", "PARTIAL_CHAIN"}},
             tolerances |-> CrlErrors, depths |-> {MaxDepth}, calls |-> 1],
   path |-> [worlds |-> PathWorlds, peers |-> Peers, crls |-> {}, flags |-> {{}, {"PARTIAL_CHAIN"}},
             tolerances |-> {{}}, depths |-> {MaxDepth}, calls |-> 2]]
=============================================================================
