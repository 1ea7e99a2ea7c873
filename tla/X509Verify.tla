----------------------------- MODULE X509Verify -----------------------------
(***************************************************************************)
(* Certificate chain building and verification: HITLS_X509_StoreCtx,       *)
(* HITLS_X509_CertVerify and HITLS_X509_CertChainBuild of                  *)
(* pki/x509_verify/src/hitls_x509_verify.c, with HITLS_X509_CheckIssued of *)
(* pki/x509_cert and the caller in tls/cert/hitls_x509_adapt.              *)
(*                                                                         *)
(* A step is one round of a loop of the code: one issuer looked for, one   *)
(* certificate checked, one CRL consulted.  Names, keys and serial numbers *)
(* are model values; a signature is the key that made it.                  *)
(***************************************************************************)
EXTENDS Integers, Sequences, FiniteSets, FiniteSetsExt

CONSTANTS
  Certs, Crls,     \* the certificates and CRLs of a world
  Scenarios,       \* by name, what the application and the peer do in a scenario, sets of
                   \*   worlds: what certificates and CRLs look like, [cert, crl, files]
                   \*   peers: certificate lists handed to HITLS_X509_CertVerify
                   \*   crls, flags, tolerances, depths: what the store is given
                   \* and calls, a bound: verifications on one store
  MaxDepth,        \* HITLS_X509_MAX_DEPTH, 20 in the code
  MaxFindNum       \* rounds of X509_BuildChain, 100 in the code

NoCert == "no certificate"
NoLimit == -1

(* A certificate: subject, issuer, key, sigKey (the key that signed it), aki   *)
(* (or "absent"), v3, ca, pathLen, keyUsage ("absent": no such extension),     *)
(* valid (now is within its validity), hasExt (has extensions), critical (has  *)
(* an unknown critical one), usageFitsKey (a post-quantum key has no usage but *)
(* those of its algorithm; always so for another key), strong and strongHash (enough security bits of the key and of   *)
(* the signature's hash), fits (its usages fit the purpose) and named (has the *)
(* host name asked for).                                                       *)
KeyUsages == {"absent", "none", "certSign", "crlSign", "both"}

ASSUME X509Assumption ==
  /\ MaxDepth \in Nat /\ MaxFindNum \in Nat /\ MaxDepth <= MaxFindNum
  /\ NoCert \notin Certs
  /\ \A n \in DOMAIN Scenarios : LET e == Scenarios[n] IN
       /\ \A w \in e.worlds : w.files \in Seq(Certs)
       /\ \A w \in e.worlds, c \in Certs : w.cert[c].keyUsage \in KeyUsages /\ w.cert[c].pathLen \in Nat \cup {NoLimit}
       /\ \A p \in e.peers : p \in Seq(Certs) /\ p # <<>>
       /\ e.crls \subseteq Crls /\ e.depths \subseteq 0..MaxDepth /\ e.calls \in Nat

VARIABLES
  scenario, \* the name of the scenario
  world,    \* certificates, CRLs, and the files of the CA path
  ctx,      \* the HITLS_X509_StoreCtx
  vfy,      \* the verification under way
  last,     \* the last one that ended
  calls

vars == <<scenario, world, ctx, vfy, last, calls>>
In == Scenarios[scenario]

C(c) == world.cert[c]
R(r) == world.crl[r]
KeyUsageAllows(c, use) == C(c).keyUsage \in {"absent", use, "both"}

-----------------------------------------------------------------------------
(* The store.                                                              *)

\* HITLS_X509_StoreCtxNew.  given records the certificates that the application puts in.
StoreCtxNew == [store |-> <<>>, crl |-> <<>>, maxDepth |-> MaxDepth, flags |-> {}, tolerate |-> {}, error |-> "SUCCESS", given |-> {}]

Stored(c) == \E i \in DOMAIN ctx.store : ctx.store[i] = c

\* HITLS_X509_CertIsCA.
CertIsCA(c) == C(c).v3 => C(c).ca

\* The store is set between verifications; after the last one nothing depends on it.
Settable == vfy.pc = "idle" /\ calls < In.calls

\* X509_SetCA: in front of the list; an equal certificate or one that is no CA changes nothing.
SetCA(c) ==
  /\ Settable /\ CertIsCA(c) /\ ~Stored(c)
  /\ ctx' = [ctx EXCEPT !.store = <<c>> \o @, !.given = @ \cup {c}]
  /\ UNCHANGED <<world, vfy, last, calls>>

\* X509_SetCRL.
SetCRL(r) ==
  /\ Settable /\ \A i \in DOMAIN ctx.crl : ctx.crl[i] # r
  /\ ctx' = [ctx EXCEPT !.crl = <<r>> \o @]
  /\ UNCHANGED <<world, vfy, last, calls>>

\* X509_ClearCRL.
ClearCRL ==
  /\ Settable /\ ctx.crl # <<>>
  /\ ctx' = [ctx EXCEPT !.crl = <<>>]
  /\ UNCHANGED <<world, vfy, last, calls>>

\* X509_SetParamFlag, X509_ClearParamFlag, X509_SetMaxDepth and X509_SetVerifyCb.
SetParam ==
  /\ Settable
  /\ \E flags \in In.flags, tolerate \in In.tolerances, depth \in In.depths :
       ctx' = [ctx EXCEPT !.flags = flags, !.tolerate = tolerate, !.maxDepth = depth]
  /\ UNCHANGED <<world, vfy, last, calls>>

-----------------------------------------------------------------------------
(* VFYCBK_FAIL_IF: the conditions a step checks, in order.  One that fails *)
(* is reported to verifyCb, and ends the verification unless verifyCb      *)
(* accepts the error.                                                      *)

Check(failed, err) == [failed |-> failed, err |-> err]
Refused(checks) == {i \in DOMAIN checks : checks[i].failed /\ checks[i].err \notin ctx.tolerate}
Passed(checks) == Refused(checks) = {}
Ret(checks) == IF Passed(checks) THEN "SUCCESS" ELSE checks[Min(Refused(checks))].err

\* The conditions that were reported: those that fail, up to the one that is refused.
Reported(checks) ==
  {i \in DOMAIN checks : checks[i].failed /\ \A j \in Refused(checks) : i <= j}

\* VerifyCertCbk leaves the last error reported in storeCtx->error.
Record(checks) ==
  IF Reported(checks) = {} THEN ctx.error ELSE checks[Max(Reported(checks))].err
Errors(checks) == {checks[i].err : i \in Reported(checks)}

None == [kind |-> "none"]
Idle == [pc |-> "idle"]

\* The caller, HITLS_X509_Adapt_VerifyCertChain, asks the store for the error of a verification that failed.
Ended(ret, error, reported) ==
  /\ vfy' = Idle
  /\ last' = [kind |-> vfy.kind, ret |-> ret, chain |-> vfy.chain, peer |-> vfy.peer, reported |-> reported \cup {ret}, ctx |-> ctx,
              verifyResult |-> IF ret = "SUCCESS" THEN ret ELSE IF error # "SUCCESS" THEN error ELSE ret]

\* A step that checks something goes on with next or ends the verification.
Decide(checks, next) ==
  LET reported == vfy.reported \cup Errors(checks) IN
  /\ ctx' = [ctx EXCEPT !.error = Record(checks)]
  /\ IF Passed(checks) THEN vfy' = [next EXCEPT !.reported = reported] /\ UNCHANGED last
     ELSE Ended(Ret(checks), Record(checks), reported)
  /\ UNCHANGED <<world, calls>>

-----------------------------------------------------------------------------
(* Building the chain.                                                     *)

\* HITLS_X509_CheckIssued and HITLS_X509_CheckAki.
CheckIssued(issue, subject) ==
  /\ C(issue).subject = C(subject).issuer
  /\ C(issue).v3 /\ C(subject).v3 /\ C(subject).aki # "absent" => C(subject).aki = C(issue).key

SelfSigned(c) == CheckIssued(c, c)

\* X509_GetIssueFromChain.
GetIssueFromChain(list, cert) ==
  LET found == {i \in DOMAIN list : CheckIssued(list[i], cert)} IN
  IF found = {} THEN NoCert ELSE list[Min(found)]

\* HITLS_X509_GetCertBySubjectDer and CheckAndAddIssuerCert: the files of the CA path are tried in turn.
GetCertBySubject(cert) ==
  LET found == {i \in DOMAIN world.files : CheckIssued(world.files[i], cert) /\ CertIsCA(world.files[i])} IN
  IF found = {} THEN NoCert ELSE world.files[Min(found)]

\* Mutant: an issuer that the peer sent is kept in the store.
FindIssueCertKeepAll(cert) ==
  LET stored == GetIssueFromChain(ctx.store, cert)
      sent == GetIssueFromChain(vfy.peer, cert) IN
  IF stored # NoCert \/ sent = NoCert THEN [issue |-> stored, isTrustCa |-> stored # NoCert, store |-> ctx.store]
  ELSE [issue |-> sent, isTrustCa |-> FALSE, store |-> <<sent>> \o ctx.store]

\* X509_FindIssueCert: the store, then the CA path, whose certificate is added to the store, then the peer's list.
FindIssueCert(cert) ==
  LET stored == GetIssueFromChain(ctx.store, cert)
      loaded == GetCertBySubject(cert)
      sent == IF vfy.kind = "verify" THEN GetIssueFromChain(vfy.peer, cert) ELSE NoCert IN
  IF stored # NoCert THEN [issue |-> stored, isTrustCa |-> TRUE, store |-> ctx.store]
  ELSE IF loaded # NoCert
       THEN [issue |-> loaded, isTrustCa |-> TRUE, store |-> IF Stored(loaded) THEN ctx.store ELSE <<loaded>> \o ctx.store]
  ELSE [issue |-> sent, isTrustCa |-> FALSE, store |-> ctx.store]

\* HITLS_X509_CertVerify; HITLS_X509_CertChainBuild with and without the root.
Begin(kind, peer) ==
  /\ vfy.pc = "idle" /\ calls < In.calls
  /\ calls' = calls + 1
  /\ IF kind = "build" /\ SelfSigned(peer[1])
     THEN /\ last' = [kind |-> kind, ret |-> "SUCCESS", chain |-> <<peer[1]>>, peer |-> peer, ctx |-> ctx,
                      reported |-> {"SUCCESS"}, verifyResult |-> "SUCCESS"]
          /\ vfy' = Idle
     ELSE /\ vfy' = [pc |-> "build", kind |-> kind, peer |-> peer, chain |-> <<peer[1]>>, find |-> MaxFindNum,
                     depth |-> 0, crlIdx |-> 0, crlRet |-> "SUCCESS", reported |-> {}]
          /\ last' = None
  /\ UNCHANGED <<world, ctx>>

\* The end of X509_BuildChain in HITLS_X509_CertChainBuildWithRoot, or its result ignored.
Built(ret, root) ==
  LET err == IF ret # "SUCCESS" THEN ret ELSE "ERR_ROOT_CERT_NOT_FOUND"
      chain == IF root # NoCert /\ root # vfy.chain[1] THEN Append(vfy.chain, root) ELSE vfy.chain IN
  IF vfy.kind = "build" THEN Ended("SUCCESS", ctx.error, vfy.reported)
  ELSE IF ret # "SUCCESS" \/ root = NoCert THEN Ended(err, ctx.error, vfy.reported)
  ELSE IF vfy.kind = "buildWithRoot"
       THEN /\ vfy' = Idle
            /\ last' = [kind |-> vfy.kind, ret |-> "SUCCESS", chain |-> chain, peer |-> vfy.peer, ctx |-> ctx,
                        reported |-> vfy.reported \cup {"SUCCESS"}, verifyResult |-> "SUCCESS"]
  ELSE vfy' = [vfy EXCEPT !.pc = IF "SECBITS" \in ctx.flags THEN "secbits" ELSE "ext", !.chain = chain] /\ UNCHANGED last

\* Mutant: a round that adds an issuer is not counted.
BuildChainUncounted ==
  LET f == FindIssueCert(vfy.chain[Len(vfy.chain)])
      depth == <<Check(Len(vfy.chain) + 1 > ctx.maxDepth, "ERR_CHAIN_DEPTH_UP_LIMIT")>>
      partial == vfy.kind = "verify" /\ "PARTIAL_CHAIN" \in ctx.flags /\ f.isTrustCa IN
  /\ vfy.pc = "build"
  /\ IF vfy.find = 0 THEN Built("SUCCESS", NoCert) /\ UNCHANGED ctx
     ELSE IF f.issue = NoCert THEN Built("ERR_ISSUE_CERT_NOT_FOUND", NoCert) /\ UNCHANGED ctx
     ELSE /\ ctx' = [ctx EXCEPT !.store = f.store, !.error = Record(depth)]
          /\ IF ~Passed(depth)
             THEN IF vfy.kind = "build" THEN Ended("SUCCESS", Record(depth), vfy.reported)
                  ELSE Ended(Ret(depth), Record(depth), vfy.reported \cup Errors(depth))
             ELSE IF partial \/ SelfSigned(f.issue)
                  THEN Built("SUCCESS", IF f.isTrustCa THEN f.issue ELSE NoCert)
                  ELSE vfy' = [vfy EXCEPT !.chain = Append(@, f.issue),
                                          !.reported = @ \cup Errors(depth)] /\ UNCHANGED last
  /\ UNCHANGED <<world, calls>>

\* One round of X509_BuildChain.
BuildChain ==
  LET f == FindIssueCert(vfy.chain[Len(vfy.chain)])
      depth == <<Check(Len(vfy.chain) + 1 > ctx.maxDepth, "ERR_CHAIN_DEPTH_UP_LIMIT")>>
      partial == vfy.kind = "verify" /\ "PARTIAL_CHAIN" \in ctx.flags /\ f.isTrustCa IN
  /\ vfy.pc = "build"
  /\ IF vfy.find = 0 THEN Built("SUCCESS", NoCert) /\ UNCHANGED ctx
     ELSE IF f.issue = NoCert THEN Built("ERR_ISSUE_CERT_NOT_FOUND", NoCert) /\ UNCHANGED ctx
     ELSE /\ ctx' = [ctx EXCEPT !.store = f.store, !.error = Record(depth)]
          /\ IF ~Passed(depth)
             THEN IF vfy.kind = "build" THEN Ended("SUCCESS", Record(depth), vfy.reported)
                  ELSE Ended(Ret(depth), Record(depth), vfy.reported \cup Errors(depth))
             ELSE IF partial \/ SelfSigned(f.issue)
                  THEN Built("SUCCESS", IF f.isTrustCa THEN f.issue ELSE NoCert)
                  ELSE vfy' = [vfy EXCEPT !.chain = Append(@, f.issue), !.find = @ - 1,
                                          !.reported = @ \cup Errors(depth)] /\ UNCHANGED last
  /\ UNCHANGED <<world, calls>>

-----------------------------------------------------------------------------
(* Checking the chain.                                                     *)

Count == Len(vfy.chain)
At(depth) == vfy.chain[depth + 1]
Upwards(next, from) == IF vfy.depth + 1 < Count THEN [vfy EXCEPT !.depth = @ + 1] ELSE [vfy EXCEPT !.pc = next, !.depth = from]

\* HITLS_X509_SecBitsCheck.
SecBitsCheck ==
  /\ vfy.pc = "secbits"
  /\ Decide(<<Check(~C(At(vfy.depth)).strong, "ERR_VFY_CHECK_SECBITS")>>, Upwards("hash", 0))

\* HITLS_X509_HashAlgSecBitsCheck, which skips the root.
HashAlgSecBitsCheck ==
  /\ vfy.pc = "hash"
  /\ Decide(<<Check(vfy.depth < Count - 1 /\ ~C(At(vfy.depth)).strongHash, "ERR_VFY_CHECK_SECBITS")>>, Upwards("ext", 0))

\* Only certificates of version 3 may have extensions; HITLS_X509_CheckCertExtNode looks at theirs.
ExtChecks(c) ==
  <<Check(~C(c).v3 /\ C(c).hasExt, "ERR_VFY_EXTENSIONS_REQUIRE_V3"), Check(C(c).v3 /\ C(c).critical, "ERR_PROCESS_CRITICALEXT")>>

\* HITLS_X509_CheckCertExt.  CheckPqcSigKeyUsage and CheckMlKemKeyUsage refuse without asking verifyCb.
CheckCertExt ==
  LET c == At(vfy.depth) IN
  /\ vfy.pc = "ext"
  /\ IF C(c).v3 /\ ~C(c).usageFitsKey
     THEN Ended("ERR_EXT_KU", ctx.error, vfy.reported) /\ UNCHANGED <<world, ctx, calls>>
     ELSE Decide(ExtChecks(c), Upwards("usage", Count - 1))

\* Mutant: pathLen counts the end entity.
UsageChecksStrict(c, depth, isRoot) ==
  IF depth > 0
  THEN <<Check(~C(c).ca, "ERR_VFY_INVALID_CA"), Check(~KeyUsageAllows(c, "certSign"), "ERR_VFY_KU_NO_CERTSIGN"),
         Check(C(c).ca /\ C(c).pathLen # NoLimit /\ C(c).pathLen < depth, "ERR_VFY_PATHLEN_EXCEEDED")>>
  ELSE <<Check(~C(c).fits, "ERR_VFY_PURPOSE_UNMATCH")>>

\* X509_CheckExt, from the root to the end entity.
UsageChecks(c, depth, isRoot) ==
  IF depth > 0
  THEN (IF isRoot THEN <<Check(C(c).v3 /\ ~C(c).ca, "ERR_VFY_INVALID_CA")>>
        ELSE <<Check(~C(c).v3, "ERR_VFY_INTERCA_INVALID_VERSION"), Check(~C(c).ca, "ERR_VFY_INTERCA_INVALID_BCONS")>>)
       \o <<Check(~KeyUsageAllows(c, "certSign"), "ERR_VFY_KU_NO_CERTSIGN"),
            Check(C(c).ca /\ C(c).pathLen # NoLimit /\ C(c).pathLen < depth - 1, "ERR_VFY_PATHLEN_EXCEEDED")>>
  ELSE <<Check(~C(c).fits, "ERR_VFY_PURPOSE_UNMATCH")>>

\* HITLS_X509_VerifyCrl: not without a flag and not for a single certificate.
CrlWanted == {"CRL_ALL", "CRL_DEV"} \cap ctx.flags # {} /\ Count > 1

StartSign == [vfy EXCEPT !.pc = "sign", !.depth = Count - 1, !.crlIdx = 0]
StartCrl == IF CrlWanted THEN [vfy EXCEPT !.pc = "crl", !.depth = 0, !.crlIdx = 0] ELSE StartSign

CheckExt ==
  /\ vfy.pc = "usage"
  /\ Decide(UsageChecks(At(vfy.depth), vfy.depth, vfy.depth = Count - 1),
            IF vfy.depth > 0 THEN [vfy EXCEPT !.depth = @ - 1] ELSE StartCrl)

Timed == "DISABLE_TIME_CHECK" \notin ctx.flags

\* HITLS_X509_CheckCertCrl, before its loop.
CheckCertCrl ==
  /\ vfy.pc = "crl" /\ vfy.crlIdx = 0
  /\ Decide(<<Check(~KeyUsageAllows(At(vfy.depth + 1), "crlSign"), "ERR_VFY_KU_NO_CRLSIGN")>>,
            [vfy EXCEPT !.crlIdx = 1, !.crlRet = "ERR_VFY_CRL_NOT_FOUND"])

\* A CRL of another issuer is skipped, and so is one that verifyCb does not let pass.
SkipChecks(cert, parent, r) ==
  <<Check(C(cert).v3 /\ R(r).aki # "absent" /\ R(r).aki # C(parent).key, "ERR_VFY_AKI_SKI_NOT_MATCH"),
    Check(Timed /\ ~R(r).valid, "ERR_VFY_NEXTUPDATE_EXPIRED")>>

CrlChecks(cert, parent, r) ==
  <<Check(R(r).critical, "ERR_PROCESS_CRITICALEXT"),
    Check(R(r).sigKey # C(parent).key, "ERR_VFY_CRLSIGN_FAIL"),
    Check(cert \in R(r).revoked, "ERR_VFY_CERT_REVOKED")>>

\* One round of the loop of HITLS_X509_CheckCertCrl.
ConsultCrl ==
  LET cert == At(vfy.depth)
      parent == At(vfy.depth + 1)
      r == ctx.crl[vfy.crlIdx]
      skip == SkipChecks(cert, parent, r)
      next == [vfy EXCEPT !.crlIdx = @ + 1] IN
  /\ vfy.pc = "crl" /\ vfy.crlIdx \in 1..Len(ctx.crl)
  /\ IF R(r).issuer # C(parent).subject THEN vfy' = next /\ UNCHANGED <<world, ctx, last, calls>>
     ELSE IF ~Passed(skip)
          THEN /\ ctx' = [ctx EXCEPT !.error = Record(skip)]
               /\ vfy' = [next EXCEPT !.reported = @ \cup Errors(skip)]
               /\ UNCHANGED <<world, last, calls>>
     ELSE Decide(skip \o CrlChecks(cert, parent, r),
                 [next EXCEPT !.crlRet = IF cert \in R(r).revoked THEN "ERR_VFY_CERT_REVOKED" ELSE "SUCCESS"])

\* The end of HITLS_X509_CheckCertCrl, and of HITLS_X509_VerifyCrl after the last certificate that has an issuer.
EndCrl ==
  /\ vfy.pc = "crl" /\ vfy.crlIdx = Len(ctx.crl) + 1
  /\ Decide(<<Check(vfy.crlRet # "SUCCESS", "ERR_VFY_CRL_NOT_FOUND")>>,
            IF "CRL_ALL" \in ctx.flags /\ vfy.depth + 2 < Count THEN [vfy EXCEPT !.depth = @ + 1, !.crlIdx = 0]
            ELSE StartSign)

\* X509_VerifyChainCert, from the root; a trusted certificate that is not self-signed is only checked for its time.
SignChecks(depth) ==
  LET c == At(depth)
      anchor == depth = Count - 1
      issuer == IF anchor THEN c ELSE At(depth + 1)
      signed == anchor /\ "PARTIAL_CHAIN" \in ctx.flags /\ ~SelfSigned(c) /\ depth > 0 IN
  <<Check(Timed /\ ~C(c).valid, "ERR_VFY_NOTAFTER_EXPIRED")>>
  \o (IF signed THEN <<>> ELSE <<Check(C(c).sigKey # C(issuer).key, "ERR_VFY_CERT_SIGN_FAIL")>>)

VerifyChainCert ==
  /\ vfy.pc = "sign"
  /\ Decide(SignChecks(vfy.depth), IF vfy.depth > 0 THEN [vfy EXCEPT !.depth = @ - 1] ELSE [vfy EXCEPT !.pc = "host"])

\* X509_CheckHost; the flag HOST stands for host names in verifyParam.
CheckHost ==
  /\ vfy.pc = "host"
  /\ Decide(<<Check("HOST" \in ctx.flags /\ ~C(At(0)).named, "ERR_VFY_HOSTNAME_FAIL")>>, [vfy EXCEPT !.pc = "done"])

\* The last call of verifyCb, without an error, and EXIT.
Done ==
  /\ vfy.pc = "done"
  /\ Ended("SUCCESS", ctx.error, vfy.reported)
  /\ UNCHANGED <<world, ctx, calls>>

Init ==
  /\ scenario \in DOMAIN Scenarios
  /\ world \in In.worlds
  /\ ctx = StoreCtxNew
  /\ vfy = Idle
  /\ last = None
  /\ calls = 0

Ctrl == (\E c \in Certs : SetCA(c)) \/ (\E r \in In.crls : SetCRL(r)) \/ ClearCRL \/ SetParam
Call == \E kind \in {"verify", "build", "buildWithRoot"}, peer \in In.peers : Begin(kind, peer)
Step == BuildChain \/ SecBitsCheck \/ HashAlgSecBitsCheck \/ CheckCertExt \/ CheckExt \/ CheckCertCrl \/ ConsultCrl \/ EndCrl \/ VerifyChainCert \/ CheckHost \/ Done

Next == (Ctrl \/ Call \/ Step) /\ UNCHANGED scenario

Spec == Init /\ [][Next]_vars

-----------------------------------------------------------------------------
(* Properties.                                                             *)

Elements(list) == {list[i] : i \in DOMAIN list}

\* A verification keeps a chain from the peer's certificate and a depth within it.
TypeOK ==
  /\ Elements(ctx.store) \subseteq Certs /\ Elements(ctx.crl) \subseteq Crls
  /\ \A c \in Elements(ctx.store) : CertIsCA(c)
  /\ \A i, j \in DOMAIN ctx.store : ctx.store[i] = ctx.store[j] => i = j
  /\ vfy.pc # "idle" =>
       /\ vfy.chain \in Seq(Certs) /\ vfy.chain[1] = vfy.peer[1]
       /\ vfy.depth \in 0..(Count - 1) /\ vfy.crlIdx \in 0..(Len(ctx.crl) + 1)
       /\ vfy.pc = "crl" => vfy.depth + 1 < Count

(* What makes a path bad, whatever the order it is looked at.                  *)
\* The CRLs that count for p[i]: of its issuer and in force, or accepted all the same.
CrlsInForce(p, i, s) ==
  {r \in Elements(s.crl) :
     /\ R(r).issuer = C(p[i + 1]).subject
     /\ R(r).aki \in {"absent", C(p[i + 1]).key} \/ ~C(p[i]).v3 \/ "ERR_VFY_AKI_SKI_NOT_MATCH" \in s.tolerate
     /\ R(r).valid \/ "DISABLE_TIME_CHECK" \in s.flags \/ "ERR_VFY_NEXTUPDATE_EXPIRED" \in s.tolerate}
MustHaveCrl(p, s) == IF "CRL_ALL" \in s.flags THEN 1..(Len(p) - 1) ELSE IF "CRL_DEV" \in s.flags /\ Len(p) > 1 THEN {1} ELSE {}

DefectNames ==
  {"ERR_VFY_CHECK_SECBITS", "ERR_PROCESS_CRITICALEXT", "ERR_VFY_INVALID_CA", "ERR_VFY_INTERCA_INVALID_VERSION",
   "ERR_VFY_INTERCA_INVALID_BCONS", "ERR_VFY_KU_NO_CERTSIGN", "ERR_VFY_PATHLEN_EXCEEDED", "ERR_VFY_PURPOSE_UNMATCH",
   "ERR_VFY_KU_NO_CRLSIGN", "ERR_VFY_CRLSIGN_FAIL", "ERR_VFY_CERT_REVOKED", "ERR_VFY_CRL_NOT_FOUND",
   "ERR_VFY_NOTAFTER_EXPIRED", "ERR_VFY_CERT_SIGN_FAIL", "ERR_VFY_HOSTNAME_FAIL", "ERR_CHAIN_DEPTH_UP_LIMIT",
   "ERR_VFY_EXTENSIONS_REQUIRE_V3", "ERR_EXT_KU"}

\* e is wrong with the certificates, the signatures or the length of the path p.
PathDefect(e, p, s) ==
  LET n == Len(p)
      cas == 2..n IN
  \/ e = "ERR_VFY_CHECK_SECBITS" /\ "SECBITS" \in s.flags /\ \E i \in 1..n : ~C(p[i]).strong \/ (i < n /\ ~C(p[i]).strongHash)
  \/ e = "ERR_PROCESS_CRITICALEXT" /\ \E i \in 1..n : C(p[i]).v3 /\ C(p[i]).critical
  \/ e = "ERR_VFY_EXTENSIONS_REQUIRE_V3" /\ \E i \in 1..n : ~C(p[i]).v3 /\ C(p[i]).hasExt
  \/ e = "ERR_EXT_KU" /\ \E i \in 1..n : C(p[i]).v3 /\ ~C(p[i]).usageFitsKey
  \/ e = "ERR_VFY_INVALID_CA" /\ n > 1 /\ C(p[n]).v3 /\ ~C(p[n]).ca
  \/ e = "ERR_VFY_INTERCA_INVALID_VERSION" /\ \E i \in cas \ {n} : ~C(p[i]).v3
  \/ e = "ERR_VFY_INTERCA_INVALID_BCONS" /\ \E i \in cas \ {n} : ~C(p[i]).ca
  \/ e = "ERR_VFY_KU_NO_CERTSIGN" /\ \E i \in cas : C(p[i]).keyUsage \in {"none", "crlSign"}
  \/ e = "ERR_VFY_PATHLEN_EXCEEDED" /\ \E i \in cas : C(p[i]).ca /\ C(p[i]).pathLen # NoLimit /\ Cardinality(2..(i - 1)) > C(p[i]).pathLen
  \/ e = "ERR_VFY_PURPOSE_UNMATCH" /\ ~C(p[1]).fits
  \/ e = "ERR_VFY_NOTAFTER_EXPIRED" /\ "DISABLE_TIME_CHECK" \notin s.flags /\ \E i \in 1..n : ~C(p[i]).valid
  \/ /\ e = "ERR_VFY_CERT_SIGN_FAIL"
     /\ \/ \E i \in 1..(n - 1) : C(p[i]).sigKey # C(p[i + 1]).key
        \/ SelfSigned(p[n]) /\ C(p[n]).sigKey # C(p[n]).key
  \/ e = "ERR_VFY_HOSTNAME_FAIL" /\ "HOST" \in s.flags /\ ~C(p[1]).named
  \/ e = "ERR_CHAIN_DEPTH_UP_LIMIT" /\ (IF n = 1 THEN 2 ELSE n) > s.maxDepth

\* e is wrong with the CRLs for the path p.
CrlDefect(e, p, s) ==
  \E i \in MustHaveCrl(p, s) :
    \/ e = "ERR_VFY_KU_NO_CRLSIGN" /\ C(p[i + 1]).keyUsage \in {"none", "certSign"}
    \/ e = "ERR_VFY_CRL_NOT_FOUND" /\ CrlsInForce(p, i, s) = {}
    \/ \E r \in CrlsInForce(p, i, s) :
         \/ e = "ERR_PROCESS_CRITICALEXT" /\ R(r).critical
         \/ e = "ERR_VFY_CRLSIGN_FAIL" /\ R(r).sigKey # C(p[i + 1]).key
         \/ e = "ERR_VFY_CERT_REVOKED" /\ p[i] \in R(r).revoked

Defects(p, s) == {e \in DefectNames : PathDefect(e, p, s) \/ CrlDefect(e, p, s)}

Linked(p) == \A i \in 1..(Len(p) - 1) : CheckIssued(p[i + 1], p[i])

\* What the application trusts: what it gave to the store, and the CAs of the CA path.
Known == ctx.given \cup {c \in Elements(world.files) : CertIsCA(c)}

\* A chain that HITLS_X509_CertVerify accepts goes from the peer's certificate, link by link, to one that
\* the application trusts (never one that only the peer sent, in this verification or an earlier one),
\* which is a root unless partial chains are allowed; it ends there, or where the chain has come back to
\* the peer's own certificate.  It has no defect but those that the application's callback accepted.
Sound ==
  last.kind = "verify" /\ last.ret = "SUCCESS" =>
    LET p == last.chain IN
    /\ p[1] = last.peer[1] /\ Linked(p)
    /\ \E root \in Known :
         /\ root = p[Len(p)] \/ (root = p[1] /\ CheckIssued(root, p[Len(p)]))
         /\ SelfSigned(root) \/ "PARTIAL_CHAIN" \in last.ctx.flags
    /\ \A i \in 2..Len(p) : p[i] \in Known \cup Elements(last.peer)
    /\ Defects(p, last.ctx) \subseteq last.ctx.tolerate

\* The paths from the peer's certificate to a trusted one.
Trusted(s) == Elements(s.store) \cup {c \in Elements(world.files) : CertIsCA(c)}
IsPath(p, peer, s) ==
  /\ p[1] = peer[1] /\ Linked(p)
  /\ \A i \in 1..Len(p) : p[i] \in Trusted(s) \cup Elements(peer)
  /\ p[Len(p)] \in Trusted(s)
  /\ SelfSigned(p[Len(p)]) \/ ("PARTIAL_CHAIN" \in s.flags /\ Len(p) > 1)
Paths(peer, s) ==
  UNION {{p \in [1..n -> Trusted(s) \cup Elements(peer)] : IsPath(p, peer, s)} : n \in 1..Cardinality(Certs)}

Unambiguous == \A c, i, j \in Certs : CheckIssued(i, c) /\ CheckIssued(j, c) => i = j

\* When no certificate has two possible issuers, a chain that is refused is one that could not be built
\* well: no path from the peer's certificate to a trusted one is free of defects.
Complete ==
  last.kind = "verify" /\ last.ret # "SUCCESS" /\ last.ctx.tolerate = {} /\ Unambiguous =>
    \A p \in Paths(last.peer, last.ctx) : Defects(p, last.ctx) # {}

\* The stages of a verification and the rounds that are left of each.
Stages == <<"build", "secbits", "hash", "ext", "usage", "crl", "sign", "host", "done">>
Stage(v) == CHOOSE i \in DOMAIN Stages : Stages[i] = v.pc
RoundsLeft(v) ==
  CASE v.pc = "build" -> v.find
    [] v.pc \in {"secbits", "hash", "ext"} -> Len(v.chain) - v.depth
    [] v.pc \in {"usage", "sign"} -> v.depth
    [] v.pc = "crl" -> (Len(v.chain) - v.depth) * (Len(ctx.crl) + 2) - v.crlIdx
    [] v.pc \in {"host", "done"} -> 0

\* Every step brings a verification nearer to its end, so that it terminates, certificates that issue
\* each other in a circle included (maxFindNum in X509_BuildChain and the loops of the checks).
Terminates ==
  [][vfy.pc # "idle" =>
       \/ vfy'.pc = "idle"
       \/ Stage(vfy') > Stage(vfy)
       \/ Stage(vfy') = Stage(vfy) /\ RoundsLeft(vfy') \in 0..(RoundsLeft(vfy) - 1)]_vars

\* HITLS_X509_CheckIssued, as its comment says: what it takes for an issuer is a CA that may sign certificates.
IssuerIsCA ==
  vfy.pc # "idle" => \A i \in 2..Count : CertIsCA(vfy.chain[i]) /\ KeyUsageAllows(vfy.chain[i], "certSign")

\* The last certificate of a chain is the one that is trusted, as X509_VerifyChainCert takes for granted.
AnchorIsLast == last.kind = "verify" /\ last.ret = "SUCCESS" => last.chain[Len(last.chain)] \in Known

\* The verification result of a connection is of the verification that failed last.
ResultIsCurrent == last.kind = "verify" => last.verifyResult \in last.reported
=============================================================================
