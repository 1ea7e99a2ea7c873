-------------------------- MODULE X509VerifyProofs --------------------------
(***************************************************************************)
(* Proofs about the verification of certificate chains: whatever the       *)
(* certificates, the CRLs, the flags and the callback, a chain that is     *)
(* accepted is sound (Sound), one that is refused has a defect on every    *)
(* path that could have been taken (Complete), and every verification      *)
(* terminates (Terminates).                                                *)
(*                                                                         *)
(* Sound: each check of the code is about one certificate of the chain,    *)
(* and its loop has made it for the certificates on one side of depth.  A  *)
(* loop that ends has made it for all of them, and the store never holds   *)
(* what is not trusted.                                                    *)
(*                                                                         *)
(* Complete: where issuers are unique the chain can only go along a path   *)
(* that has no defect (CompInv); no check stops it there, and it cannot    *)
(* run out of rounds before its depth is exceeded.                         *)
(***************************************************************************)
EXTENDS X509Verify, FiniteSetTheorems, SequenceTheorems, WellFoundedInduction, TLAPS

-----------------------------------------------------------------------------
(* The inductive invariant.                                                *)

CtxFields == {"store", "crl", "maxDepth", "flags", "tolerate", "error", "given"}
VfyFields == {"pc", "kind", "peer", "chain", "find", "depth", "crlIdx", "crlRet", "reported"}
Kinds == {"verify", "build", "buildWithRoot"}
Pcs == {"build", "secbits", "hash", "ext", "usage", "crl", "sign", "host", "done"}

\* What is in the store is trusted.
CtxInv ==
  /\ DOMAIN ctx = CtxFields
  /\ ctx.store \in Seq(Certs) /\ ctx.crl \in Seq(Crls) /\ ctx.maxDepth \in 0..MaxDepth
  /\ \A i \in DOMAIN ctx.store : ctx.store[i] \in Known

VfyType(v) ==
  /\ DOMAIN v = VfyFields /\ v.pc \in Pcs /\ v.kind \in Kinds
  /\ v.peer \in Seq(Certs) /\ v.chain \in Seq(Certs) /\ Len(v.chain) >= 1
  /\ v.find \in Nat /\ v.depth \in 0..(Len(v.chain) - 1) /\ v.crlIdx \in 0..(Len(ctx.crl) + 1)
  /\ v.kind # "verify" => v.pc = "build"
  /\ v.pc = "build" => v.depth = 0
  /\ v.pc = "crl" => v.depth + 1 < Len(v.chain)

ChainInv(v) ==
  /\ v.chain[1] = v.peer[1] /\ Linked(v.chain)
  /\ \A i \in 2..Len(v.chain) : v.chain[i] \in Known \cup Elements(v.peer)

Ok(e) == e \in ctx.tolerate

\* The chain p ends at something trusted.
Anchored(p, s) ==
  \E root \in Known :
    /\ root = p[Len(p)] \/ (root = p[1] /\ CheckIssued(root, p[Len(p)]))
    /\ SelfSigned(root) \/ "PARTIAL_CHAIN" \in s.flags

BuildInv(v) ==
  /\ v.pc = "build" => Len(v.chain) = 1 \/ Len(v.chain) <= ctx.maxDepth \/ Ok("ERR_CHAIN_DEPTH_UP_LIMIT")
  /\ v.pc # "build" =>
       /\ Anchored(v.chain, ctx)
       /\ (IF Len(v.chain) = 1 THEN 2 ELSE Len(v.chain)) > ctx.maxDepth => Ok("ERR_CHAIN_DEPTH_UP_LIMIT")

(* What each check says of the i-th certificate of a chain, and the positions *)
(* for which it has been made.                                                *)

StrongOK(p, i) == ~C(p[i]).strong => Ok("ERR_VFY_CHECK_SECBITS")
StrongDone(v) ==
  IF v.pc = "secbits" THEN 1..v.depth
  ELSE IF "SECBITS" \in ctx.flags /\ v.pc # "build" THEN 1..Len(v.chain) ELSE {}

HashOK(p, i) == i < Len(p) /\ ~C(p[i]).strongHash => Ok("ERR_VFY_CHECK_SECBITS")
HashDone(v) ==
  IF v.pc = "hash" THEN 1..v.depth
  ELSE IF "SECBITS" \in ctx.flags /\ v.pc \notin {"build", "secbits"} THEN 1..Len(v.chain) ELSE {}

ExtOK(p, i) ==
  /\ ~C(p[i]).v3 /\ C(p[i]).hasExt => Ok("ERR_VFY_EXTENSIONS_REQUIRE_V3")
  /\ C(p[i]).v3 /\ C(p[i]).critical => Ok("ERR_PROCESS_CRITICALEXT")
  /\ ~(C(p[i]).v3 /\ ~C(p[i]).usageFitsKey)
ExtDone(v) ==
  IF v.pc = "ext" THEN 1..v.depth
  ELSE IF v.pc \notin {"build", "secbits", "hash"} THEN 1..Len(v.chain) ELSE {}

UsageOK(p, i) ==
  /\ i = 1 /\ ~C(p[1]).fits => Ok("ERR_VFY_PURPOSE_UNMATCH")
  /\ i > 1 =>
       /\ i = Len(p) /\ C(p[i]).v3 /\ ~C(p[i]).ca => Ok("ERR_VFY_INVALID_CA")
       /\ i # Len(p) /\ ~C(p[i]).v3 => Ok("ERR_VFY_INTERCA_INVALID_VERSION")
       /\ i # Len(p) /\ ~C(p[i]).ca => Ok("ERR_VFY_INTERCA_INVALID_BCONS")
       /\ ~KeyUsageAllows(p[i], "certSign") => Ok("ERR_VFY_KU_NO_CERTSIGN")
       /\ C(p[i]).ca /\ C(p[i]).pathLen # NoLimit /\ C(p[i]).pathLen < i - 2 => Ok("ERR_VFY_PATHLEN_EXCEEDED")
UsageDone(v) ==
  IF v.pc = "usage" THEN (v.depth + 2)..Len(v.chain)
  ELSE IF v.pc \in {"crl", "sign", "host", "done"} THEN 1..Len(v.chain) ELSE {}

CrlOK(p, i, r) ==
  /\ R(r).critical => Ok("ERR_PROCESS_CRITICALEXT")
  /\ R(r).sigKey # C(p[i + 1]).key => Ok("ERR_VFY_CRLSIGN_FAIL")
  /\ p[i] \in R(r).revoked => Ok("ERR_VFY_CERT_REVOKED")
SignsCrls(p, i) == ~KeyUsageAllows(p[i + 1], "crlSign") => Ok("ERR_VFY_KU_NO_CRLSIGN")
CrlsOK(p, i) ==
  /\ SignsCrls(p, i)
  /\ CrlsInForce(p, i, ctx) = {} => Ok("ERR_VFY_CRL_NOT_FOUND")
  /\ \A r \in CrlsInForce(p, i, ctx) : CrlOK(p, i, r)
CrlsDone(v) ==
  IF v.pc = "crl" THEN 1..v.depth
  ELSE IF v.pc \in {"sign", "host", "done"} THEN MustHaveCrl(v.chain, ctx) ELSE {}

\* The CRLs consulted so far for the certificate at v.depth.
Consulted(v) == {ctx.crl[j] : j \in 1..(v.crlIdx - 1)} \cap CrlsInForce(v.chain, v.depth + 1, ctx)
CrlLoop(v) == v.pc = "crl" =>
  /\ {"CRL_ALL", "CRL_DEV"} \cap ctx.flags # {} /\ (v.depth > 0 => "CRL_ALL" \in ctx.flags)
  /\ v.crlIdx > 0 =>
       /\ SignsCrls(v.chain, v.depth + 1)
       /\ Consulted(v) = {} => v.crlRet = "ERR_VFY_CRL_NOT_FOUND"
       /\ \A r \in Consulted(v) : CrlOK(v.chain, v.depth + 1, r)

SignOK(p, i) ==
  /\ Timed /\ ~C(p[i]).valid => Ok("ERR_VFY_NOTAFTER_EXPIRED")
  /\ i < Len(p) /\ C(p[i]).sigKey # C(p[i + 1]).key => Ok("ERR_VFY_CERT_SIGN_FAIL")
  /\ i = Len(p) /\ SelfSigned(p[i]) /\ C(p[i]).sigKey # C(p[i]).key => Ok("ERR_VFY_CERT_SIGN_FAIL")
SignDone(v) ==
  IF v.pc = "sign" THEN (v.depth + 2)..Len(v.chain)
  ELSE IF v.pc \in {"host", "done"} THEN 1..Len(v.chain) ELSE {}

HostOK(v) == v.pc = "done" /\ "HOST" \in ctx.flags /\ ~C(v.chain[1]).named => Ok("ERR_VFY_HOSTNAME_FAIL")

CheckedInv(v) ==
  /\ \A i \in StrongDone(v) : StrongOK(v.chain, i)
  /\ \A i \in HashDone(v) : HashOK(v.chain, i)
  /\ \A i \in ExtDone(v) : ExtOK(v.chain, i)
  /\ \A i \in UsageDone(v) : UsageOK(v.chain, i)
  /\ \A i \in CrlsDone(v) : CrlsOK(v.chain, i)
  /\ CrlLoop(v)
  /\ \A i \in SignDone(v) : SignOK(v.chain, i)
  /\ HostOK(v)

VfyInv(v) == VfyType(v) /\ ChainInv(v) /\ BuildInv(v) /\ CheckedInv(v)

IInv ==
  /\ scenario \in DOMAIN Scenarios /\ world \in In.worlds
  /\ CtxInv /\ (vfy = Idle \/ VfyInv(vfy)) /\ Sound

-----------------------------------------------------------------------------
(* Least elements, and the checks of a step.                               *)

\* A nonempty set of numbers has a least element.
LEMMA NatMin ==
  ASSUME NEW S \in SUBSET Nat, S # {}
  PROVE  \E n \in S : \A m \in S : n <= m
  <1> DEFINE Below == OpToRel(<, Nat)
  <1>1. IsWellFoundedOn(Below, Nat)
    BY NatLessThanWellFounded
  <1>2. \A x, y \in Nat : x < y => <<x, y>> \in Below
    BY DEF OpToRel
  <1> HIDE DEF Below
  <1>3. PICK n \in S : \A m \in S : ~(<<m, n>> \in Below)
    BY <1>1, WFMin
  <1>4. ASSUME NEW m \in S
        PROVE  n <= m
    <2>1. ~(m < n)
      BY <1>2, <1>3
    <2>2. QED
      BY <2>1
  <1>5. QED
    BY <1>4

LEMMA MinIn ==
  ASSUME NEW S \in SUBSET Nat, S # {}
  PROVE  Min(S) \in S
  <1>1. PICK n \in S : \A m \in S : n <= m
    BY NatMin
  <1>2. QED
    BY <1>1, Zenon DEF Min

\* A step whose checks do not all pass ends with the error of one of them.
LEMMA RetIsError ==
  ASSUME NEW checks, DOMAIN checks \subseteq Nat, \A i \in DOMAIN checks : checks[i].err # "SUCCESS",
         ~Passed(checks)
  PROVE  Ret(checks) # "SUCCESS"
  <1>1. Refused(checks) \in SUBSET Nat /\ Refused(checks) # {} /\ Refused(checks) \subseteq DOMAIN checks
    BY DEF Refused, Passed
  <1>2. Min(Refused(checks)) \in DOMAIN checks
    BY <1>1, MinIn
  <1>3. QED
    BY <1>2 DEF Ret

-----------------------------------------------------------------------------
(* The world does not change.                                              *)

LEMMA SameWorld ==
  ASSUME world' = world
  PROVE  /\ \A c : C(c)' = C(c)
         /\ \A r : R(r)' = R(r)
         /\ \A c : CertIsCA(c)' <=> CertIsCA(c)
         /\ \A c, use : KeyUsageAllows(c, use)' <=> KeyUsageAllows(c, use)
         /\ \A c, d : CheckIssued(c, d)' <=> CheckIssued(c, d)
         /\ \A c : SelfSigned(c)' <=> SelfSigned(c)
         /\ \A p : Linked(p)' <=> Linked(p)
  BY DEF C, R, CertIsCA, KeyUsageAllows, CheckIssued, SelfSigned, Linked

LEMMA SameCrlsInForce ==
  ASSUME world' = world, NEW p, NEW i, NEW s, NEW t,
         t.crl = s.crl, t.flags = s.flags, t.tolerate = s.tolerate
  PROVE  CrlsInForce(p, i, t)' = CrlsInForce(p, i, s)
  BY DEF CrlsInForce, C, R, Elements

LEMMA SamePathDefect ==
  ASSUME world' = world, NEW p, NEW s, NEW e
  PROVE  PathDefect(e, p, s)' <=> PathDefect(e, p, s)
  BY DEF PathDefect, C, SelfSigned, CheckIssued

LEMMA SameCrlDefect ==
  ASSUME world' = world, NEW p, NEW s, NEW e
  PROVE  CrlDefect(e, p, s)' <=> CrlDefect(e, p, s)
  BY DEF CrlDefect, CrlsInForce, MustHaveCrl, C, R, Elements

LEMMA SameDefects ==
  ASSUME world' = world, NEW p, NEW s
  PROVE  Defects(p, s)' = Defects(p, s)
  BY SamePathDefect, SameCrlDefect DEF Defects, DefectNames

\* A verification leaves what the application set as it is.
SameSettings ==
  /\ world' = world /\ scenario' = scenario
  /\ ctx'.flags = ctx.flags /\ ctx'.tolerate = ctx.tolerate /\ ctx'.crl = ctx.crl
  /\ ctx'.maxDepth = ctx.maxDepth /\ ctx'.given = ctx.given

LEMMA KnownGrows ==
  ASSUME world' = world, ctx.given \subseteq ctx'.given
  PROVE  Known \subseteq Known'
  BY DEF Known, Elements, CertIsCA, C

LEMMA SoundKept ==
  ASSUME world' = world, ctx.given \subseteq ctx'.given, last' = last, Sound
  PROVE  Sound'
  <1>1. SUFFICES ASSUME last.kind = "verify", last.ret = "SUCCESS"
                 PROVE  Sound'
    BY DEF Sound
  <1> DEFINE p == last.chain
  <1>2. Known \subseteq Known'
    BY KnownGrows
  <1>3. p[1] = last.peer[1] /\ Linked(p) /\ Defects(p, last.ctx) \subseteq last.ctx.tolerate
    BY <1>1 DEF Sound
  <1>4. PICK root \in Known :
          /\ root = p[Len(p)] \/ (root = p[1] /\ CheckIssued(root, p[Len(p)]))
          /\ SelfSigned(root) \/ "PARTIAL_CHAIN" \in last.ctx.flags
    BY <1>1 DEF Sound
  <1>5. \A i \in 2..Len(p) : p[i] \in Known \cup Elements(last.peer)
    BY <1>1 DEF Sound
  <1>6. PICK P, Q : P = last.chain /\ Q = last.ctx
    OBVIOUS
  <1>7. Linked(P)' /\ Defects(P, Q)' \subseteq Q.tolerate
    <2>1. Linked(P) /\ Defects(P, Q) \subseteq Q.tolerate
      BY <1>3, <1>6
    <2>2. QED
      BY <2>1, SameWorld, SameDefects
  <1>8. Linked(last.chain)' /\ Defects(last.chain, last.ctx)' \subseteq last'.ctx.tolerate
    <2>1. P = last'.chain /\ Q = last'.ctx
      BY <1>6
    <2>2. QED
      BY <1>7, <2>1
  <1>9. \E root1 \in Known' :
          /\ root1 = p[Len(p)] \/ (root1 = p[1] /\ CheckIssued(root1, p[Len(p)]))
          /\ SelfSigned(root1) \/ "PARTIAL_CHAIN" \in last.ctx.flags
    BY <1>2, <1>4
  <1>10. \A i \in 2..Len(p) : p[i] \in Known' \cup Elements(last.peer)
    BY <1>2, <1>5
  <1>11. QED
    BY <1>3, <1>8, <1>9, <1>10 DEF Sound, Elements, SelfSigned, CheckIssued, C

\* A verification that fails, or that only builds a chain, claims nothing.
LEMMA NothingClaimed ==
  ASSUME last'.kind # "verify" \/ last'.ret # "SUCCESS"
  PROVE  Sound'
  BY DEF Sound

\* What is known of a verification does not depend on the errors reported.
LEMMA SameVfy ==
  ASSUME NEW v, NEW w, VfyInv(v), DOMAIN w = VfyFields, w.pc = v.pc, w.kind = v.kind, w.peer = v.peer,
         w.chain = v.chain, w.find = v.find, w.depth = v.depth, w.crlIdx = v.crlIdx, w.crlRet = v.crlRet
  PROVE  VfyInv(w)
  <1>1. VfyType(w) /\ ChainInv(w) /\ BuildInv(w)
    BY DEF VfyInv, VfyType, ChainInv, BuildInv
  <1>2. /\ StrongDone(w) = StrongDone(v) /\ HashDone(w) = HashDone(v) /\ ExtDone(w) = ExtDone(v)
        /\ UsageDone(w) = UsageDone(v) /\ CrlsDone(w) = CrlsDone(v) /\ SignDone(w) = SignDone(v)
        /\ Consulted(w) = Consulted(v)
    BY DEF StrongDone, HashDone, ExtDone, UsageDone, CrlsDone, SignDone, Consulted
  <1>3. CrlLoop(w) /\ HostOK(w)
    BY <1>2 DEF VfyInv, CheckedInv, CrlLoop, HostOK
  <1>4. QED
    BY <1>1, <1>2, <1>3 DEF VfyInv, CheckedInv

\* Nor on the store, as long as what was trusted still is.
LEMMA Carry ==
  ASSUME NEW CONSTANT v, VfyInv(v), SameSettings
  PROVE  VfyInv(v)'
  <1> USE DEF SameSettings
  <1>1. Known' = Known
    BY DEF Known, Elements, CertIsCA, C
  <1>2. VfyType(v)' /\ ChainInv(v)' /\ BuildInv(v)'
    <2>1. VfyType(v)'
      BY DEF VfyInv, VfyType
    <2>2. ChainInv(v)'
      BY <1>1, SameWorld DEF VfyInv, ChainInv, Elements
    <2>3. Anchored(v.chain, ctx) => Anchored(v.chain, ctx)'
      BY <1>1 DEF Anchored, SelfSigned, CheckIssued, C
    <2>4. QED
      BY <2>1, <2>2, <2>3 DEF VfyInv, BuildInv, Ok
  <1>3. /\ StrongDone(v)' = StrongDone(v) /\ HashDone(v)' = HashDone(v) /\ ExtDone(v)' = ExtDone(v)
        /\ UsageDone(v)' = UsageDone(v) /\ CrlsDone(v)' = CrlsDone(v) /\ SignDone(v)' = SignDone(v)
    BY DEF StrongDone, HashDone, ExtDone, UsageDone, CrlsDone, SignDone, MustHaveCrl
  <1>4. \A p, i : /\ StrongOK(p, i)' <=> StrongOK(p, i)
                  /\ HashOK(p, i)' <=> HashOK(p, i)
                  /\ ExtOK(p, i)' <=> ExtOK(p, i)
    BY DEF StrongOK, HashOK, ExtOK, C, Ok
  <1>5. \A p, i : /\ UsageOK(p, i)' <=> UsageOK(p, i)
                  /\ SignOK(p, i)' <=> SignOK(p, i)
    BY DEF UsageOK, SignOK, C, Ok, KeyUsageAllows, Timed, SelfSigned, CheckIssued
  <1>6. \A p, i : SignsCrls(p, i)' <=> SignsCrls(p, i)
    BY DEF SignsCrls, KeyUsageAllows, C, Ok
  <1>7. \A p, i, r : CrlOK(p, i, r)' <=> CrlOK(p, i, r)
    BY DEF CrlOK, C, R, Ok
  <1>8. Consulted(v)' = Consulted(v)
    BY DEF Consulted, CrlsInForce, C, R, Elements
  <1>9. \A p, i : CrlsOK(p, i)' <=> CrlsOK(p, i)
    BY DEF CrlsOK, CrlsInForce, CrlOK, SignsCrls, KeyUsageAllows, C, R, Ok, Elements
  <1>10. CrlLoop(v)' /\ HostOK(v)'
    BY <1>6, <1>7, <1>8 DEF VfyInv, CheckedInv, CrlLoop, HostOK, C, Ok
  <1>11. QED
    BY <1>2, <1>3, <1>4, <1>5, <1>9, <1>10 DEF VfyInv, CheckedInv

-----------------------------------------------------------------------------
(* What every step of a verification keeps.                                *)

\* The certificates of the store stay known.
LEMMA CtxKept ==
  ASSUME SameSettings, CtxInv, DOMAIN ctx' = CtxFields, ctx'.store \in Seq(Certs),
         \A i \in DOMAIN ctx'.store : ctx'.store[i] \in Known
  PROVE  CtxInv'
  BY DEF SameSettings, CtxInv, Known, Elements, CertIsCA, C

LEMMA ErrorOnly ==
  ASSUME CtxInv, NEW e, ctx' = [ctx EXCEPT !.error = e], world' = world, scenario' = scenario
  PROVE  SameSettings /\ CtxInv'
  <1>1. DOMAIN ctx' = CtxFields /\ ctx'.store = ctx.store /\ SameSettings
    BY DEF CtxInv, CtxFields, SameSettings
  <1>2. QED
    BY <1>1, CtxKept DEF CtxInv

\* A step that checks something ends the verification with an error, or goes on with next.
LEMMA DecideNext ==
  ASSUME NEW checks, NEW next, DOMAIN checks \subseteq Nat, \A i \in DOMAIN checks : checks[i].err # "SUCCESS",
         Decide(checks, next), Passed(checks) => DOMAIN next = VfyFields
  PROVE  \/ vfy' = Idle /\ last'.ret # "SUCCESS"
         \/ /\ Passed(checks) /\ last' = last /\ DOMAIN vfy' = VfyFields
            /\ vfy'.pc = next.pc /\ vfy'.kind = next.kind /\ vfy'.peer = next.peer /\ vfy'.chain = next.chain
            /\ vfy'.find = next.find /\ vfy'.depth = next.depth /\ vfy'.crlIdx = next.crlIdx /\ vfy'.crlRet = next.crlRet
  <1>1. CASE Passed(checks)
    <2>1. PICK e : vfy' = [next EXCEPT !.reported = e]
      BY <1>1 DEF Decide
    <2>2. QED
      BY <1>1, <2>1 DEF Decide, VfyFields
  <1>2. CASE ~Passed(checks)
    <2>1. PICK e, errs : Ended(Ret(checks), e, errs)
      BY <1>2 DEF Decide
    <2>2. QED
      BY <1>2, <2>1, RetIsError DEF Ended
  <1>3. QED
    BY <1>1, <1>2

LEMMA DecideStep ==
  ASSUME IInv, NEW checks, NEW next, DOMAIN checks \subseteq Nat, \A i \in DOMAIN checks : checks[i].err # "SUCCESS",
         Decide(checks, next), Passed(checks) => VfyInv(next), UNCHANGED scenario
  PROVE  IInv'
  <1>1. SameSettings /\ CtxInv'
    BY ErrorOnly DEF IInv, Decide
  <1>2. Passed(checks) => DOMAIN next = VfyFields
    BY DEF VfyInv, VfyType
  <1>3. CASE vfy' = Idle /\ last'.ret # "SUCCESS"
    BY <1>1, <1>3, NothingClaimed DEF IInv, SameSettings, In
  <1>4. CASE Passed(checks) /\ vfy' # Idle
    <2>1. PICK v : v = vfy'
      OBVIOUS
    <2>2. VfyInv(v)
      BY <1>2, <1>4, <2>1, DecideNext, SameVfy
    <2>3. VfyInv(v)'
      BY <1>1, <2>2, Carry
    <2>4. VfyInv(vfy)'
      BY <2>1, <2>3
    <2>5. last' = last
      BY <1>2, <1>4, DecideNext
    <2>6. Sound'
      BY <1>1, <2>5, SoundKept DEF SameSettings, IInv
    <2>7. QED
      BY <1>1, <2>4, <2>6 DEF IInv, SameSettings, In
  <1>5. DOMAIN Idle # VfyFields
    BY DEF Idle, VfyFields
  <1>6. QED
    BY <1>2, <1>3, <1>4, <1>5, DecideNext

-----------------------------------------------------------------------------
(* The checks of a chain.                                                  *)

\* w is a later state of a verification whose chain is built.
Moved(v, w) ==
  /\ DOMAIN w = VfyFields /\ w.kind = v.kind /\ w.peer = v.peer /\ w.chain = v.chain /\ w.find = v.find
  /\ v.pc # "build" /\ w.pc \in Pcs \ {"build"}
  /\ w.depth \in 0..(Len(v.chain) - 1) /\ w.crlIdx \in 0..(Len(ctx.crl) + 1)
  /\ w.pc = "crl" => w.depth + 1 < Len(v.chain)

LEMMA MovedKeeps ==
  ASSUME NEW v, NEW w, VfyInv(v), Moved(v, w), CheckedInv(w)
  PROVE  VfyInv(w)
  <1>1. VfyType(w)
    BY DEF VfyInv, Moved, VfyType
  <1>2. ChainInv(w) /\ BuildInv(w)
    BY DEF VfyInv, Moved, ChainInv, BuildInv
  <1>3. QED
    BY <1>1, <1>2 DEF VfyInv

LEMMA SecBitsNext ==
  ASSUME VfyInv(vfy), vfy.pc = "secbits", StrongOK(vfy.chain, vfy.depth + 1)
  PROVE  VfyInv(Upwards("hash", 0))
  <1>1. PICK w : w = Upwards("hash", 0)
    OBVIOUS
  <1> DEFINE n == Len(vfy.chain)
  <1>2. /\ VfyType(vfy) /\ n \in Nat /\ vfy.depth \in 0..(n - 1) /\ DOMAIN vfy = VfyFields
        /\ \A i \in 1..vfy.depth : StrongOK(vfy.chain, i)
    BY DEF VfyInv, VfyType, CheckedInv, StrongDone
  <1>3. \/ w = [vfy EXCEPT !.depth = @ + 1] /\ vfy.depth + 1 < n
        \/ w = [vfy EXCEPT !.pc = "hash", !.depth = 0] /\ vfy.depth + 1 = n
    BY <1>1, <1>2 DEF Upwards, Count
  <1>4. /\ Moved(vfy, w) /\ w.chain = vfy.chain
        /\ \/ w.pc = "secbits" /\ w.depth = vfy.depth + 1
           \/ w.pc = "hash" /\ w.depth = 0 /\ vfy.depth + 1 = n
    <2>1. CASE w = [vfy EXCEPT !.depth = @ + 1] /\ vfy.depth + 1 < n
      BY <1>2, <2>1 DEF Moved, VfyFields, Pcs, VfyType
    <2>2. CASE w = [vfy EXCEPT !.pc = "hash", !.depth = 0] /\ vfy.depth + 1 = n
      BY <1>2, <2>2 DEF Moved, VfyFields, Pcs, VfyType
    <2>3. QED
      BY <1>3, <2>1, <2>2
  <1>5. \A i \in StrongDone(w) : StrongOK(w.chain, i)
    BY <1>2, <1>4 DEF StrongDone
  <1>6. HashDone(w) = {} /\ ExtDone(w) = {} /\ UsageDone(w) = {} /\ CrlsDone(w) = {} /\ SignDone(w) = {}
    BY <1>2, <1>4 DEF HashDone, ExtDone, UsageDone, CrlsDone, SignDone
  <1>7. CheckedInv(w)
    BY <1>4, <1>5, <1>6 DEF CheckedInv, CrlLoop, HostOK
  <1>8. QED
    BY <1>1, <1>4, <1>7, MovedKeeps

LEMMA HashNext ==
  ASSUME VfyInv(vfy), vfy.pc = "hash", HashOK(vfy.chain, vfy.depth + 1)
  PROVE  VfyInv(Upwards("ext", 0))
  <1>1. PICK w : w = Upwards("ext", 0)
    OBVIOUS
  <1> DEFINE n == Len(vfy.chain)
  <1>2. /\ VfyType(vfy) /\ n \in Nat /\ vfy.depth \in 0..(n - 1) /\ DOMAIN vfy = VfyFields
        /\ \A i \in 1..vfy.depth : HashOK(vfy.chain, i)
        /\ \A i \in StrongDone(vfy) : StrongOK(vfy.chain, i)
    BY DEF VfyInv, VfyType, CheckedInv, HashDone
  <1>3. \/ w = [vfy EXCEPT !.depth = @ + 1] /\ vfy.depth + 1 < n
        \/ w = [vfy EXCEPT !.pc = "ext", !.depth = 0] /\ vfy.depth + 1 = n
    BY <1>1, <1>2 DEF Upwards, Count
  <1>4. /\ Moved(vfy, w) /\ w.chain = vfy.chain
        /\ \/ w.pc = "hash" /\ w.depth = vfy.depth + 1
           \/ w.pc = "ext" /\ w.depth = 0 /\ vfy.depth + 1 = n
    <2>1. CASE w = [vfy EXCEPT !.depth = @ + 1] /\ vfy.depth + 1 < n
      BY <1>2, <2>1 DEF Moved, VfyFields, Pcs, VfyType
    <2>2. CASE w = [vfy EXCEPT !.pc = "ext", !.depth = 0] /\ vfy.depth + 1 = n
      BY <1>2, <2>2 DEF Moved, VfyFields, Pcs, VfyType
    <2>3. QED
      BY <1>3, <2>1, <2>2
  <1>5. \A i \in HashDone(w) : HashOK(w.chain, i)
    BY <1>2, <1>4 DEF HashDone
  <1>6. /\ StrongDone(w) = StrongDone(vfy)
        /\ ExtDone(w) = {} /\ UsageDone(w) = {} /\ CrlsDone(w) = {} /\ SignDone(w) = {}
    BY <1>2, <1>4 DEF StrongDone, ExtDone, UsageDone, CrlsDone, SignDone
  <1>7. CheckedInv(w)
    BY <1>2, <1>4, <1>5, <1>6 DEF CheckedInv, CrlLoop, HostOK
  <1>8. QED
    BY <1>1, <1>4, <1>7, MovedKeeps

LEMMA ExtNext ==
  ASSUME VfyInv(vfy), vfy.pc = "ext", ExtOK(vfy.chain, vfy.depth + 1)
  PROVE  VfyInv(Upwards("usage", Count - 1))
  <1>1. PICK w : w = Upwards("usage", Count - 1)
    OBVIOUS
  <1> DEFINE n == Len(vfy.chain)
  <1>2. /\ VfyType(vfy) /\ n \in Nat /\ vfy.depth \in 0..(n - 1) /\ DOMAIN vfy = VfyFields
        /\ \A i \in 1..vfy.depth : ExtOK(vfy.chain, i)
        /\ \A i \in StrongDone(vfy) : StrongOK(vfy.chain, i)
        /\ \A i \in HashDone(vfy) : HashOK(vfy.chain, i)
    BY DEF VfyInv, VfyType, CheckedInv, ExtDone
  <1>3. \/ w = [vfy EXCEPT !.depth = @ + 1] /\ vfy.depth + 1 < n
        \/ w = [vfy EXCEPT !.pc = "usage", !.depth = n - 1] /\ vfy.depth + 1 = n
    BY <1>1, <1>2 DEF Upwards, Count
  <1>4. /\ Moved(vfy, w) /\ w.chain = vfy.chain
        /\ \/ w.pc = "ext" /\ w.depth = vfy.depth + 1
           \/ w.pc = "usage" /\ w.depth = n - 1 /\ vfy.depth + 1 = n
    <2>1. CASE w = [vfy EXCEPT !.depth = @ + 1] /\ vfy.depth + 1 < n
      BY <1>2, <2>1 DEF Moved, VfyFields, Pcs, VfyType
    <2>2. CASE w = [vfy EXCEPT !.pc = "usage", !.depth = n - 1] /\ vfy.depth + 1 = n
      BY <1>2, <2>2 DEF Moved, VfyFields, Pcs, VfyType
    <2>3. QED
      BY <1>3, <2>1, <2>2
  <1>5. \A i \in ExtDone(w) : ExtOK(w.chain, i)
    BY <1>2, <1>4 DEF ExtDone
  <1>6. /\ StrongDone(w) = StrongDone(vfy) /\ HashDone(w) = HashDone(vfy)
        /\ UsageDone(w) = {} /\ CrlsDone(w) = {} /\ SignDone(w) = {}
    BY <1>2, <1>4 DEF StrongDone, HashDone, UsageDone, CrlsDone, SignDone
  <1>7. CheckedInv(w)
    BY <1>2, <1>4, <1>5, <1>6 DEF CheckedInv, CrlLoop, HostOK
  <1>8. QED
    BY <1>1, <1>4, <1>7, MovedKeeps

\* What has been checked before the usages, and stays so.
EarlyInv(v) ==
  /\ \A i \in StrongDone(v) : StrongOK(v.chain, i)
  /\ \A i \in HashDone(v) : HashOK(v.chain, i)
  /\ \A i \in ExtDone(v) : ExtOK(v.chain, i)

LEMMA EarlyKept ==
  ASSUME NEW v, NEW w, CheckedInv(v), w.chain = v.chain, {v.pc, w.pc} \subseteq {"usage", "crl", "sign", "host", "done"}
  PROVE  EarlyInv(w)
  <1>1. StrongDone(w) = StrongDone(v) /\ HashDone(w) = HashDone(v) /\ ExtDone(w) = ExtDone(v)
    BY DEF StrongDone, HashDone, ExtDone
  <1>2. QED
    BY <1>1 DEF CheckedInv, EarlyInv

LEMMA UsageNext ==
  ASSUME VfyInv(vfy), vfy.pc = "usage", UsageOK(vfy.chain, vfy.depth + 1)
  PROVE  VfyInv(IF vfy.depth > 0 THEN [vfy EXCEPT !.depth = @ - 1] ELSE StartCrl)
  <1> DEFINE n == Len(vfy.chain)
  <1>1. PICK w : w = IF vfy.depth > 0 THEN [vfy EXCEPT !.depth = @ - 1] ELSE StartCrl
    OBVIOUS
  <1>2. /\ VfyType(vfy) /\ n \in Nat /\ vfy.depth \in 0..(n - 1) /\ DOMAIN vfy = VfyFields /\ CheckedInv(vfy)
        /\ \A i \in (vfy.depth + 2)..n : UsageOK(vfy.chain, i)
    BY DEF VfyInv, VfyType, CheckedInv, UsageDone
  <1>3. \A i \in (vfy.depth + 1)..n : UsageOK(vfy.chain, i)
    BY <1>2
  <1>4. CASE w = [vfy EXCEPT !.depth = @ - 1] /\ vfy.depth > 0
    <2>1. Moved(vfy, w) /\ w.chain = vfy.chain /\ w.pc = "usage" /\ w.depth = vfy.depth - 1
      BY <1>2, <1>4 DEF Moved, VfyFields, Pcs, VfyType
    <2>2. EarlyInv(w)
      BY <1>2, <2>1, EarlyKept
    <2>3. CheckedInv(w)
      BY <1>2, <1>3, <2>1, <2>2 DEF CheckedInv, EarlyInv, UsageDone, CrlsDone, SignDone, CrlLoop, HostOK
    <2>4. QED
      BY <1>1, <2>1, <2>3, MovedKeeps
  <1>5. CASE w = [vfy EXCEPT !.pc = "crl", !.depth = 0, !.crlIdx = 0] /\ CrlWanted /\ vfy.depth = 0
    <2>1. Moved(vfy, w) /\ w.chain = vfy.chain /\ w.pc = "crl" /\ w.depth = 0 /\ w.crlIdx = 0
      BY <1>2, <1>5 DEF Moved, VfyFields, Pcs, VfyType, CrlWanted, Count
    <2>2. EarlyInv(w)
      BY <1>2, <2>1, EarlyKept
    <2>3. CrlLoop(w)
      BY <1>5, <2>1 DEF CrlLoop, CrlWanted
    <2>4. CheckedInv(w)
      BY <1>2, <1>3, <1>5, <2>1, <2>2, <2>3 DEF CheckedInv, EarlyInv, UsageDone, CrlsDone, SignDone, HostOK
    <2>5. QED
      BY <1>1, <2>1, <2>4, MovedKeeps
  <1>6. CASE w = [vfy EXCEPT !.pc = "sign", !.depth = n - 1, !.crlIdx = 0] /\ ~CrlWanted /\ vfy.depth = 0
    <2>1. Moved(vfy, w) /\ w.chain = vfy.chain /\ w.pc = "sign" /\ w.depth = n - 1 /\ w.crlIdx = 0
      BY <1>2, <1>6 DEF Moved, VfyFields, Pcs, VfyType
    <2>2. EarlyInv(w)
      BY <1>2, <2>1, EarlyKept
    <2>3. MustHaveCrl(vfy.chain, ctx) = {}
      BY <1>2, <1>6 DEF MustHaveCrl, CrlWanted, Count
    <2>4. CheckedInv(w)
      BY <1>2, <1>3, <1>6, <2>1, <2>2, <2>3 DEF CheckedInv, EarlyInv, UsageDone, CrlsDone, SignDone, CrlLoop, HostOK
    <2>5. QED
      BY <1>1, <2>1, <2>4, MovedKeeps
  <1>7. QED
    BY <1>1, <1>2, <1>4, <1>5, <1>6 DEF StartCrl, StartSign, Count

LEMMA SignNext ==
  ASSUME VfyInv(vfy), vfy.pc = "sign", SignOK(vfy.chain, vfy.depth + 1)
  PROVE  VfyInv(IF vfy.depth > 0 THEN [vfy EXCEPT !.depth = @ - 1] ELSE [vfy EXCEPT !.pc = "host"])
  <1> DEFINE n == Len(vfy.chain)
  <1>1. PICK w : w = IF vfy.depth > 0 THEN [vfy EXCEPT !.depth = @ - 1] ELSE [vfy EXCEPT !.pc = "host"]
    OBVIOUS
  <1>2. /\ VfyType(vfy) /\ n \in Nat /\ vfy.depth \in 0..(n - 1) /\ DOMAIN vfy = VfyFields /\ CheckedInv(vfy)
        /\ \A i \in (vfy.depth + 2)..n : SignOK(vfy.chain, i)
    BY DEF VfyInv, VfyType, CheckedInv, SignDone
  <1>3. \A i \in (vfy.depth + 1)..n : SignOK(vfy.chain, i)
    BY <1>2
  <1>4. /\ Moved(vfy, w) /\ w.chain = vfy.chain
        /\ \/ w.pc = "sign" /\ w.depth = vfy.depth - 1
           \/ w.pc = "host" /\ vfy.depth = 0
    <2>1. CASE w = [vfy EXCEPT !.depth = @ - 1] /\ vfy.depth > 0
      BY <1>2, <2>1 DEF Moved, VfyFields, Pcs, VfyType
    <2>2. CASE w = [vfy EXCEPT !.pc = "host"] /\ vfy.depth = 0
      BY <1>2, <2>2 DEF Moved, VfyFields, Pcs, VfyType
    <2>3. QED
      BY <1>1, <1>2, <2>1, <2>2
  <1>5. EarlyInv(w)
    BY <1>2, <1>4, EarlyKept
  <1>6. UsageDone(w) = UsageDone(vfy) /\ CrlsDone(w) = CrlsDone(vfy)
    BY <1>4 DEF UsageDone, CrlsDone
  <1>7. \A i \in SignDone(w) : SignOK(w.chain, i)
    BY <1>2, <1>3, <1>4 DEF SignDone
  <1>8. CheckedInv(w)
    BY <1>2, <1>4, <1>5, <1>6, <1>7 DEF CheckedInv, EarlyInv, CrlLoop, HostOK
  <1>9. QED
    BY <1>1, <1>4, <1>8, MovedKeeps

LEMMA HostNext ==
  ASSUME VfyInv(vfy), vfy.pc = "host", "HOST" \in ctx.flags /\ ~C(vfy.chain[1]).named => Ok("ERR_VFY_HOSTNAME_FAIL")
  PROVE  VfyInv([vfy EXCEPT !.pc = "done"])
  <1>1. PICK w : w = [vfy EXCEPT !.pc = "done"]
    OBVIOUS
  <1>2. VfyType(vfy) /\ DOMAIN vfy = VfyFields /\ CheckedInv(vfy)
    BY DEF VfyInv, VfyType
  <1>3. Moved(vfy, w) /\ w.chain = vfy.chain /\ w.pc = "done"
    BY <1>1, <1>2 DEF Moved, VfyFields, Pcs, VfyType
  <1>4. EarlyInv(w)
    BY <1>2, <1>3, EarlyKept
  <1>5. UsageDone(w) = UsageDone(vfy) /\ CrlsDone(w) = CrlsDone(vfy) /\ SignDone(w) = SignDone(vfy)
    BY <1>3 DEF UsageDone, CrlsDone, SignDone
  <1>6. CheckedInv(w)
    BY <1>2, <1>3, <1>4, <1>5 DEF CheckedInv, EarlyInv, CrlLoop, HostOK
  <1>7. QED
    BY <1>1, <1>3, <1>6, MovedKeeps

\* Between two CRLs of a certificate, what was checked of the chain stays so.
LEMMA CrlMoved ==
  ASSUME NEW w, VfyInv(vfy), vfy.pc = "crl", w.pc = "crl", Moved(vfy, w), w.depth = vfy.depth, CrlLoop(w)
  PROVE  VfyInv(w)
  <1>1. CheckedInv(vfy) /\ w.chain = vfy.chain
    BY DEF VfyInv, Moved
  <1>2. EarlyInv(w)
    BY <1>1, EarlyKept
  <1>3. UsageDone(w) = UsageDone(vfy) /\ CrlsDone(w) = CrlsDone(vfy) /\ SignDone(w) = {}
    BY <1>1 DEF UsageDone, CrlsDone, SignDone
  <1>4. CheckedInv(w)
    BY <1>1, <1>2, <1>3 DEF CheckedInv, EarlyInv, HostOK
  <1>5. QED
    BY <1>4, MovedKeeps

LEMMA CheckCertCrlNext ==
  ASSUME VfyInv(vfy), CtxInv, vfy.pc = "crl", SignsCrls(vfy.chain, vfy.depth + 1)
  PROVE  VfyInv([vfy EXCEPT !.crlIdx = 1, !.crlRet = "ERR_VFY_CRL_NOT_FOUND"])
  <1>1. PICK w : w = [vfy EXCEPT !.crlIdx = 1, !.crlRet = "ERR_VFY_CRL_NOT_FOUND"]
    OBVIOUS
  <1>2. VfyType(vfy) /\ DOMAIN vfy = VfyFields /\ CrlLoop(vfy) /\ Len(ctx.crl) \in Nat
    BY DEF VfyInv, VfyType, CheckedInv, CtxInv
  <1>3. /\ Moved(vfy, w) /\ w.chain = vfy.chain /\ w.pc = "crl" /\ w.depth = vfy.depth
        /\ w.crlIdx = 1 /\ w.crlRet = "ERR_VFY_CRL_NOT_FOUND"
    BY <1>1, <1>2 DEF Moved, VfyFields, Pcs, VfyType
  <1>4. Consulted(w) = {}
    BY <1>3 DEF Consulted
  <1>5. CrlLoop(w)
    BY <1>2, <1>3, <1>4 DEF CrlLoop
  <1>6. QED
    BY <1>1, <1>3, <1>5, CrlMoved

\* One more CRL is consulted: it does not count, or it says nothing against the certificate.
LEMMA ConsultNext ==
  ASSUME VfyInv(vfy), CtxInv, vfy.pc = "crl", vfy.crlIdx \in 1..Len(ctx.crl),
         NEW w, DOMAIN w = VfyFields, w.pc = "crl", w.kind = vfy.kind, w.peer = vfy.peer, w.chain = vfy.chain,
         w.find = vfy.find, w.depth = vfy.depth, w.crlIdx = vfy.crlIdx + 1,
         NEW r, r = ctx.crl[vfy.crlIdx],
         r \in CrlsInForce(vfy.chain, vfy.depth + 1, ctx) => CrlOK(vfy.chain, vfy.depth + 1, r),
         r \notin CrlsInForce(vfy.chain, vfy.depth + 1, ctx) => w.crlRet = vfy.crlRet
  PROVE  VfyInv(w)
  <1>1. VfyType(vfy) /\ CrlLoop(vfy) /\ Len(ctx.crl) \in Nat
    BY DEF VfyInv, VfyType, CheckedInv, CtxInv
  <1>2. Moved(vfy, w)
    BY <1>1 DEF Moved, Pcs, VfyType
  <1>3. 1..(w.crlIdx - 1) = 1..(vfy.crlIdx - 1) \cup {vfy.crlIdx}
    BY SMT
  <1>4. {ctx.crl[j] : j \in 1..(w.crlIdx - 1)} = {ctx.crl[j] : j \in 1..(vfy.crlIdx - 1)} \cup {r}
    BY <1>3
  <1>5. Consulted(w) = Consulted(vfy) \cup ({r} \cap CrlsInForce(vfy.chain, vfy.depth + 1, ctx))
    BY <1>4 DEF Consulted
  <1>6. CrlLoop(w)
    BY <1>1, <1>5 DEF CrlLoop
  <1>7. QED
    BY <1>2, <1>6, CrlMoved

LEMMA EndCrlNext ==
  ASSUME VfyInv(vfy), CtxInv, vfy.pc = "crl", vfy.crlIdx = Len(ctx.crl) + 1,
         vfy.crlRet # "SUCCESS" => Ok("ERR_VFY_CRL_NOT_FOUND")
  PROVE  VfyInv(IF "CRL_ALL" \in ctx.flags /\ vfy.depth + 2 < Count THEN [vfy EXCEPT !.depth = @ + 1, !.crlIdx = 0]
                ELSE StartSign)
  <1> DEFINE n == Len(vfy.chain)
             p == vfy.chain
             d == vfy.depth + 1
  <1>1. PICK w : w = IF "CRL_ALL" \in ctx.flags /\ vfy.depth + 2 < Count
                     THEN [vfy EXCEPT !.depth = @ + 1, !.crlIdx = 0] ELSE StartSign
    OBVIOUS
  <1>2. /\ VfyType(vfy) /\ DOMAIN vfy = VfyFields /\ n \in Nat /\ vfy.depth \in 0..(n - 1) /\ d < n
        /\ Len(ctx.crl) \in Nat /\ CheckedInv(vfy) /\ CrlLoop(vfy)
        /\ \A i \in 1..vfy.depth : CrlsOK(p, i)
    BY DEF VfyInv, VfyType, CheckedInv, CtxInv, CrlsDone
  <1>3. Consulted(vfy) = CrlsInForce(p, d, ctx)
    <2>1. Elements(ctx.crl) = {ctx.crl[j] : j \in 1..(vfy.crlIdx - 1)}
      BY <1>2 DEF CtxInv, Elements
    <2>2. CrlsInForce(p, d, ctx) \subseteq Elements(ctx.crl)
      BY DEF CrlsInForce
    <2>3. QED
      BY <2>1, <2>2 DEF Consulted
  <1>4. CrlsOK(p, d)
    BY <1>2, <1>3 DEF CrlLoop, CrlsOK
  <1>5. \A i \in 1..d : CrlsOK(p, i)
    BY <1>2, <1>4
  <1>6. CASE w = [vfy EXCEPT !.depth = @ + 1, !.crlIdx = 0] /\ "CRL_ALL" \in ctx.flags /\ vfy.depth + 2 < n
    <2>1. Moved(vfy, w) /\ w.chain = p /\ w.pc = "crl" /\ w.depth = d /\ w.crlIdx = 0
      BY <1>2, <1>6 DEF Moved, VfyFields, Pcs, VfyType
    <2>2. EarlyInv(w)
      BY <1>2, <2>1, EarlyKept
    <2>3. CrlLoop(w)
      BY <1>6, <2>1 DEF CrlLoop
    <2>4. UsageDone(w) = UsageDone(vfy) /\ CrlsDone(w) = 1..d /\ SignDone(w) = {}
      BY <2>1 DEF UsageDone, CrlsDone, SignDone
    <2>5. CheckedInv(w)
      BY <1>2, <1>5, <2>1, <2>2, <2>3, <2>4 DEF CheckedInv, EarlyInv, HostOK
    <2>6. QED
      BY <1>1, <2>1, <2>5, MovedKeeps
  <1>7. CASE /\ w = [vfy EXCEPT !.pc = "sign", !.depth = n - 1, !.crlIdx = 0]
             /\ ~("CRL_ALL" \in ctx.flags /\ vfy.depth + 2 < n)
    <2>1. Moved(vfy, w) /\ w.chain = p /\ w.pc = "sign" /\ w.depth = n - 1 /\ w.crlIdx = 0
      BY <1>2, <1>7 DEF Moved, VfyFields, Pcs, VfyType
    <2>2. EarlyInv(w)
      BY <1>2, <2>1, EarlyKept
    <2>3. MustHaveCrl(p, ctx) \subseteq 1..d
      BY <1>2, <1>7 DEF MustHaveCrl, CrlLoop
    <2>4. UsageDone(w) = UsageDone(vfy) /\ CrlsDone(w) = MustHaveCrl(p, ctx) /\ SignDone(w) = {}
      BY <1>2, <2>1 DEF UsageDone, CrlsDone, SignDone
    <2>5. CheckedInv(w)
      BY <1>2, <1>5, <2>1, <2>2, <2>3, <2>4 DEF CheckedInv, EarlyInv, HostOK, CrlLoop
    <2>6. QED
      BY <1>1, <2>1, <2>5, MovedKeeps
  <1>8. QED
    BY <1>1, <1>2, <1>6, <1>7 DEF StartSign, Count

-----------------------------------------------------------------------------
(* The steps that check something.                                         *)

Reports(checks) == DOMAIN checks \subseteq Nat /\ \A i \in DOMAIN checks : checks[i].err # "SUCCESS"

LEMMA Concat ==
  ASSUME NEW S, NEW s \in Seq(S), NEW t \in Seq(S)
  PROVE  /\ Reports(s) /\ Reports(t) => Reports(s \o t)
         /\ Passed(s \o t) => Passed(s) /\ Passed(t)
  <1> DEFINE st == s \o t
  <1>1. /\ Len(s) \in Nat /\ Len(t) \in Nat /\ DOMAIN s = 1..Len(s) /\ DOMAIN t = 1..Len(t)
        /\ DOMAIN st = 1..(Len(s) + Len(t))
        /\ \A i \in 1..Len(s) : st[i] = s[i]
        /\ \A i \in 1..Len(t) : st[Len(s) + i] = t[i]
    BY SMT
  <1> HIDE DEF st
  <1>2. Reports(s) /\ Reports(t) => Reports(st)
    <2>1. ASSUME NEW i \in DOMAIN st, i \notin DOMAIN s
          PROVE  i - Len(s) \in DOMAIN t /\ st[i] = t[i - Len(s)]
      BY <1>1, <2>1
    <2>2. QED
      BY <1>1, <2>1 DEF Reports
  <1>3. ASSUME Passed(st)
        PROVE  Passed(s) /\ Passed(t)
    <2>1. \A i \in DOMAIN st : st[i].failed => st[i].err \in ctx.tolerate
      BY <1>3 DEF Passed, Refused
    <2>2. \A i \in DOMAIN s : s[i].failed => s[i].err \in ctx.tolerate
      BY <1>1, <2>1
    <2>3. \A i \in DOMAIN t : t[i].failed => t[i].err \in ctx.tolerate
      <3>1. ASSUME NEW i \in DOMAIN t
            PROVE  Len(s) + i \in DOMAIN st /\ st[Len(s) + i] = t[i]
        BY <1>1, <3>1
      <3>2. QED
        BY <2>1, <3>1
    <2>4. QED
      BY <2>2, <2>3 DEF Passed, Refused
  <1>4. QED
    BY <1>2, <1>3 DEF st

\* A condition that passed: it did not fail, or its error was accepted.
Fine(a) == a.failed => Ok(a.err)

LEMMA Pass1 ==
  ASSUME NEW a, a.err # "SUCCESS"
  PROVE  Reports(<<a>>) /\ (Passed(<<a>>) => Fine(a))
  BY DEF Reports, Passed, Refused, Fine, Ok

LEMMA Pass2 ==
  ASSUME NEW a, NEW b, a.err # "SUCCESS", b.err # "SUCCESS"
  PROVE  Reports(<<a, b>>) /\ (Passed(<<a, b>>) => Fine(a) /\ Fine(b))
  BY DEF Reports, Passed, Refused, Fine, Ok

LEMMA Pass3 ==
  ASSUME NEW a, NEW b, NEW c, a.err # "SUCCESS", b.err # "SUCCESS", c.err # "SUCCESS"
  PROVE  Reports(<<a, b, c>>) /\ (Passed(<<a, b, c>>) => Fine(a) /\ Fine(b) /\ Fine(c))
  BY DEF Reports, Passed, Refused, Fine, Ok

\* What X509_CheckExt finds out about the certificate c.
UsageFine(c, depth, isRoot) ==
  /\ depth = 0 /\ ~C(c).fits => Ok("ERR_VFY_PURPOSE_UNMATCH")
  /\ depth > 0 =>
       /\ isRoot /\ C(c).v3 /\ ~C(c).ca => Ok("ERR_VFY_INVALID_CA")
       /\ ~isRoot /\ ~C(c).v3 => Ok("ERR_VFY_INTERCA_INVALID_VERSION")
       /\ ~isRoot /\ ~C(c).ca => Ok("ERR_VFY_INTERCA_INVALID_BCONS")
       /\ ~KeyUsageAllows(c, "certSign") => Ok("ERR_VFY_KU_NO_CERTSIGN")
       /\ C(c).ca /\ C(c).pathLen # NoLimit /\ C(c).pathLen < depth - 1 => Ok("ERR_VFY_PATHLEN_EXCEEDED")

LEMMA UsageChecksPass ==
  ASSUME NEW c, NEW depth \in Nat, NEW isRoot, NEW checks, checks = UsageChecks(c, depth, isRoot)
  PROVE  Reports(checks) /\ (Passed(checks) => UsageFine(c, depth, isRoot))
  <1> DEFINE z == Check(~C(c).fits, "ERR_VFY_PURPOSE_UNMATCH")
             a == Check(C(c).v3 /\ ~C(c).ca, "ERR_VFY_INVALID_CA")
             b == Check(~C(c).v3, "ERR_VFY_INTERCA_INVALID_VERSION")
             d == Check(~C(c).ca, "ERR_VFY_INTERCA_INVALID_BCONS")
             e == Check(~KeyUsageAllows(c, "certSign"), "ERR_VFY_KU_NO_CERTSIGN")
             f == Check(C(c).ca /\ C(c).pathLen # NoLimit /\ C(c).pathLen < depth - 1, "ERR_VFY_PATHLEN_EXCEEDED")
             S == {a, b, d, e, f}
  <1>1. /\ z.err # "SUCCESS" /\ a.err # "SUCCESS" /\ b.err # "SUCCESS" /\ d.err # "SUCCESS"
        /\ e.err # "SUCCESS" /\ f.err # "SUCCESS"
    BY DEF Check
  <1>2. /\ Fine(z) => (~C(c).fits => Ok("ERR_VFY_PURPOSE_UNMATCH"))
        /\ Fine(a) => (C(c).v3 /\ ~C(c).ca => Ok("ERR_VFY_INVALID_CA"))
        /\ Fine(b) => (~C(c).v3 => Ok("ERR_VFY_INTERCA_INVALID_VERSION"))
    BY DEF Check, Fine
  <1>3. /\ Fine(d) => (~C(c).ca => Ok("ERR_VFY_INTERCA_INVALID_BCONS"))
        /\ Fine(e) => (~KeyUsageAllows(c, "certSign") => Ok("ERR_VFY_KU_NO_CERTSIGN"))
        /\ Fine(f) => (C(c).ca /\ C(c).pathLen # NoLimit /\ C(c).pathLen < depth - 1 => Ok("ERR_VFY_PATHLEN_EXCEEDED"))
    BY DEF Check, Fine
  <1>4. checks = IF depth > 0 THEN (IF isRoot THEN <<a>> ELSE <<b, d>>) \o <<e, f>> ELSE <<z>>
    BY Zenon DEF UsageChecks
  <1> HIDE DEF a, b, d, e, f, z
  <1>5. CASE depth = 0
    <2>1. checks = <<z>>
      BY <1>4, <1>5
    <2>2. Reports(checks) /\ (Passed(checks) => Fine(z))
      BY <1>1, <2>1, Pass1
    <2>3. QED
      BY <1>2, <1>5, <2>2 DEF UsageFine
  <1>6. <<a>> \in Seq(S) /\ <<b, d>> \in Seq(S) /\ <<e, f>> \in Seq(S)
    OBVIOUS
  <1> HIDE DEF S
  <1>7. CASE depth > 0 /\ isRoot
    <2>1. checks = <<a>> \o <<e, f>>
      BY <1>4, <1>7
    <2>2. Reports(checks) /\ (Passed(checks) => Passed(<<a>>) /\ Passed(<<e, f>>))
      BY <1>1, <1>6, <2>1, Pass1, Pass2, Concat
    <2>3. Passed(checks) => Fine(a) /\ Fine(e) /\ Fine(f)
      BY <1>1, <2>2, Pass1, Pass2
    <2>4. depth # 0
      BY <1>7
    <2>5. QED
      BY <1>2, <1>3, <1>7, <2>2, <2>3, <2>4, Zenon DEF UsageFine
  <1>8. CASE depth > 0 /\ ~isRoot
    <2>1. checks = <<b, d>> \o <<e, f>>
      BY <1>4, <1>8
    <2>2. Reports(checks) /\ (Passed(checks) => Passed(<<b, d>>) /\ Passed(<<e, f>>))
      BY <1>1, <1>6, <2>1, Pass2, Concat
    <2>3. Passed(checks) => Fine(b) /\ Fine(d) /\ Fine(e) /\ Fine(f)
      BY <1>1, <2>2, Pass2
    <2>4. QED
      BY <1>2, <1>3, <1>8, <2>2, <2>3 DEF UsageFine
  <1>9. QED
    BY <1>5, <1>7, <1>8

\* What X509_VerifyChainCert finds out about the certificate c.
SignFine(c, issuer, signed) ==
  /\ Timed /\ ~C(c).valid => Ok("ERR_VFY_NOTAFTER_EXPIRED")
  /\ ~signed /\ C(c).sigKey # C(issuer).key => Ok("ERR_VFY_CERT_SIGN_FAIL")

LEMMA SignChecksPass ==
  ASSUME NEW c, NEW issuer, NEW signed, NEW checks,
         checks = <<Check(Timed /\ ~C(c).valid, "ERR_VFY_NOTAFTER_EXPIRED")>>
                  \o (IF signed THEN <<>> ELSE <<Check(C(c).sigKey # C(issuer).key, "ERR_VFY_CERT_SIGN_FAIL")>>)
  PROVE  Reports(checks) /\ (Passed(checks) => SignFine(c, issuer, signed))
  <1> DEFINE a == Check(Timed /\ ~C(c).valid, "ERR_VFY_NOTAFTER_EXPIRED")
             b == Check(C(c).sigKey # C(issuer).key, "ERR_VFY_CERT_SIGN_FAIL")
             t == IF signed THEN <<>> ELSE <<b>>
             S == {a, b}
  <1>1. a.err # "SUCCESS" /\ b.err # "SUCCESS"
    BY DEF Check
  <1>2. /\ Fine(a) => (Timed /\ ~C(c).valid => Ok("ERR_VFY_NOTAFTER_EXPIRED"))
        /\ Fine(b) => (C(c).sigKey # C(issuer).key => Ok("ERR_VFY_CERT_SIGN_FAIL"))
    BY DEF Check, Fine
  <1>3. checks = <<a>> \o t
    BY Zenon
  <1> HIDE DEF a, b
  <1>4. <<a>> \in Seq(S) /\ t \in Seq(S)
    <2>1. <<a>> \in Seq(S) /\ <<>> \in Seq(S) /\ <<b>> \in Seq(S)
      OBVIOUS
    <2>2. QED
      BY <2>1, Zenon
  <1>5. Reports(t)
    BY <1>1, Pass1 DEF Reports
  <1>6. ~signed => (Passed(t) => Fine(b))
    BY <1>1, Pass1
  <1> HIDE DEF S, t
  <1>7. Reports(checks) /\ (Passed(checks) => Passed(<<a>>) /\ Passed(t))
    BY <1>1, <1>3, <1>4, <1>5, Pass1, Concat
  <1>8. Passed(checks) => Fine(a)
    BY <1>1, <1>7, Pass1
  <1>9. QED
    BY <1>2, <1>6, <1>7, <1>8 DEF SignFine

\* What HITLS_X509_CheckCertCrl finds out from a CRL that it does not skip.
LEMMA CrlChecksPass ==
  ASSUME NEW cert, NEW parent, NEW r, NEW checks, checks = SkipChecks(cert, parent, r) \o CrlChecks(cert, parent, r)
  PROVE  /\ Reports(checks)
         /\ Passed(checks) => /\ R(r).critical => Ok("ERR_PROCESS_CRITICALEXT")
                              /\ R(r).sigKey # C(parent).key => Ok("ERR_VFY_CRLSIGN_FAIL")
                              /\ cert \in R(r).revoked => Ok("ERR_VFY_CERT_REVOKED")
  <1> DEFINE a == Check(C(cert).v3 /\ R(r).aki # "absent" /\ R(r).aki # C(parent).key, "ERR_VFY_AKI_SKI_NOT_MATCH")
             b == Check(Timed /\ ~R(r).valid, "ERR_VFY_NEXTUPDATE_EXPIRED")
             d == Check(R(r).critical, "ERR_PROCESS_CRITICALEXT")
             e == Check(R(r).sigKey # C(parent).key, "ERR_VFY_CRLSIGN_FAIL")
             f == Check(cert \in R(r).revoked, "ERR_VFY_CERT_REVOKED")
             S == {a, b, d, e, f}
  <1>1. a.err # "SUCCESS" /\ b.err # "SUCCESS" /\ d.err # "SUCCESS" /\ e.err # "SUCCESS" /\ f.err # "SUCCESS"
    BY DEF Check
  <1>2. /\ Fine(d) => (R(r).critical => Ok("ERR_PROCESS_CRITICALEXT"))
        /\ Fine(e) => (R(r).sigKey # C(parent).key => Ok("ERR_VFY_CRLSIGN_FAIL"))
        /\ Fine(f) => (cert \in R(r).revoked => Ok("ERR_VFY_CERT_REVOKED"))
    BY DEF Check, Fine
  <1>3. checks = <<a, b>> \o <<d, e, f>>
    BY Zenon DEF SkipChecks, CrlChecks
  <1> HIDE DEF a, b, d, e, f
  <1>4. <<a, b>> \in Seq(S) /\ <<d, e, f>> \in Seq(S)
    OBVIOUS
  <1> HIDE DEF S
  <1>5. Reports(checks) /\ (Passed(checks) => Passed(<<d, e, f>>))
    BY <1>1, <1>3, <1>4, Pass2, Pass3, Concat
  <1>6. Passed(checks) => Fine(d) /\ Fine(e) /\ Fine(f)
    BY <1>1, <1>5, Pass3
  <1>7. QED
    BY <1>2, <1>5, <1>6

\* A step that checks one certificate.
LEMMA DecideOne ==
  ASSUME IInv, NEW a, NEW next, a.err # "SUCCESS", Decide(<<a>>, next), Fine(a) => VfyInv(next), UNCHANGED scenario
  PROVE  IInv'
  <1>1. Reports(<<a>>) /\ (Passed(<<a>>) => VfyInv(next))
    BY Pass1
  <1>2. PICK checks : checks = <<a>>
    OBVIOUS
  <1>3. Reports(checks) /\ (Passed(checks) => VfyInv(next)) /\ Decide(checks, next)
    BY <1>1, <1>2
  <1>4. QED
    BY <1>3, DecideStep DEF Reports

\* A verification that is under way.
LEMMA UnderWay ==
  ASSUME IInv, vfy.pc # "idle"
  PROVE  VfyInv(vfy) /\ VfyType(vfy) /\ CtxInv /\ Len(vfy.chain) \in Nat /\ vfy.depth \in 0..(Len(vfy.chain) - 1)
  BY DEF IInv, Idle, VfyInv, VfyType

LEMMA SecBitsStep ==
  ASSUME IInv, SecBitsCheck, UNCHANGED scenario
  PROVE  IInv'
  <1> DEFINE a == Check(~C(At(vfy.depth)).strong, "ERR_VFY_CHECK_SECBITS")
  <1>1. VfyInv(vfy) /\ vfy.pc = "secbits"
    BY UnderWay DEF SecBitsCheck
  <1>2. a.err # "SUCCESS" /\ (Fine(a) => StrongOK(vfy.chain, vfy.depth + 1))
    BY DEF Check, Fine, StrongOK, At
  <1>3. Fine(a) => VfyInv(Upwards("hash", 0))
    BY <1>1, <1>2, SecBitsNext
  <1>4. Decide(<<a>>, Upwards("hash", 0))
    BY DEF SecBitsCheck
  <1> HIDE DEF a
  <1>5. QED
    BY <1>2, <1>3, <1>4, DecideOne

LEMMA HashStep ==
  ASSUME IInv, HashAlgSecBitsCheck, UNCHANGED scenario
  PROVE  IInv'
  <1> DEFINE a == Check(vfy.depth < Count - 1 /\ ~C(At(vfy.depth)).strongHash, "ERR_VFY_CHECK_SECBITS")
  <1>1. VfyInv(vfy) /\ vfy.pc = "hash" /\ vfy.depth \in 0..(Count - 1) /\ Count \in Nat
    BY UnderWay DEF HashAlgSecBitsCheck, Count
  <1>2. a.err # "SUCCESS" /\ (Fine(a) => HashOK(vfy.chain, vfy.depth + 1))
    <2>1. /\ a.err # "SUCCESS"
          /\ Fine(a) => (vfy.depth < Count - 1 /\ ~C(At(vfy.depth)).strongHash => Ok("ERR_VFY_CHECK_SECBITS"))
      BY DEF Check, Fine
    <2>2. At(vfy.depth) = vfy.chain[vfy.depth + 1] /\ (vfy.depth < Count - 1 <=> vfy.depth + 1 < Len(vfy.chain))
      BY <1>1 DEF At, Count
    <2>3. QED
      BY <2>1, <2>2 DEF HashOK
  <1>3. Fine(a) => VfyInv(Upwards("ext", 0))
    BY <1>1, <1>2, HashNext
  <1>4. Decide(<<a>>, Upwards("ext", 0))
    BY DEF HashAlgSecBitsCheck
  <1> HIDE DEF a
  <1>5. QED
    BY <1>2, <1>3, <1>4, DecideOne

\* The two ways HITLS_X509_CheckCertExt goes: the refusal nobody is asked about, and the checks.
Unasked == Ended("ERR_EXT_KU", ctx.error, vfy.reported) /\ UNCHANGED <<world, ctx, calls>>
FitsKey(c) == ~(C(c).v3 /\ ~C(c).usageFitsKey)

LEMMA ExtWays ==
  ASSUME CheckCertExt
  PROVE  /\ vfy.pc = "ext"
         /\ ~FitsKey(At(vfy.depth)) => Unasked
         /\ FitsKey(At(vfy.depth)) => Decide(ExtChecks(At(vfy.depth)), Upwards("usage", Count - 1))
  BY Zenon DEF CheckCertExt, Unasked, FitsKey

LEMMA ExtChecksPass ==
  ASSUME NEW c, NEW checks, checks = ExtChecks(c)
  PROVE  /\ Reports(checks)
         /\ Passed(checks) => /\ ~C(c).v3 /\ C(c).hasExt => Ok("ERR_VFY_EXTENSIONS_REQUIRE_V3")
                              /\ C(c).v3 /\ C(c).critical => Ok("ERR_PROCESS_CRITICALEXT")
  <1> DEFINE a == Check(~C(c).v3 /\ C(c).hasExt, "ERR_VFY_EXTENSIONS_REQUIRE_V3")
             b == Check(C(c).v3 /\ C(c).critical, "ERR_PROCESS_CRITICALEXT")
  <1>1. /\ a.err # "SUCCESS" /\ b.err # "SUCCESS"
        /\ Fine(a) => (~C(c).v3 /\ C(c).hasExt => Ok("ERR_VFY_EXTENSIONS_REQUIRE_V3"))
        /\ Fine(b) => (C(c).v3 /\ C(c).critical => Ok("ERR_PROCESS_CRITICALEXT"))
    BY DEF Check, Fine
  <1>2. checks = <<a, b>>
    BY DEF ExtChecks
  <1> HIDE DEF a, b
  <1>3. QED
    BY <1>1, <1>2, Pass2

LEMMA ExtStep ==
  ASSUME IInv, CheckCertExt, UNCHANGED scenario
  PROVE  IInv'
  <1>1. VfyInv(vfy) /\ CtxInv /\ vfy.pc = "ext"
    BY UnderWay DEF CheckCertExt
  <1>2. PICK c, checks, next : c = At(vfy.depth) /\ checks = ExtChecks(c) /\ next = Upwards("usage", Count - 1)
    OBVIOUS
  <1>3. CASE ~FitsKey(c)
    <2>1. Unasked
      BY <1>2, <1>3, ExtWays
    <2>2. SameSettings /\ CtxInv'
      <3>1. SameSettings
        BY <2>1 DEF Unasked, SameSettings
      <3>2. QED
        BY <1>1, <2>1, <3>1, CtxKept DEF Unasked, CtxInv
    <2>3. vfy' = Idle /\ last'.ret # "SUCCESS"
      BY <2>1 DEF Unasked, Ended
    <2>4. QED
      BY <2>2, <2>3, NothingClaimed DEF IInv, SameSettings, In
  <1>4. CASE FitsKey(c)
    <2>1. Decide(checks, next)
      BY <1>2, <1>4, ExtWays
    <2>2. /\ Reports(checks)
          /\ Passed(checks) => /\ ~C(c).v3 /\ C(c).hasExt => Ok("ERR_VFY_EXTENSIONS_REQUIRE_V3")
                               /\ C(c).v3 /\ C(c).critical => Ok("ERR_PROCESS_CRITICALEXT")
      BY <1>2, ExtChecksPass
    <2>3. Passed(checks) => ExtOK(vfy.chain, vfy.depth + 1)
      BY <1>2, <1>4, <2>2 DEF FitsKey, ExtOK, At
    <2>4. Passed(checks) => VfyInv(next)
      BY <1>1, <1>2, <2>3, ExtNext
    <2>5. QED
      BY <2>1, <2>2, <2>4, DecideStep DEF Reports
  <1>5. QED
    BY <1>3, <1>4

LEMMA UsageStep ==
  ASSUME IInv, CheckExt, UNCHANGED scenario
  PROVE  IInv'
  <1> DEFINE next == IF vfy.depth > 0 THEN [vfy EXCEPT !.depth = @ - 1] ELSE StartCrl
             isRoot == vfy.depth = Count - 1
  <1>1. VfyInv(vfy) /\ vfy.pc = "usage" /\ vfy.depth \in 0..(Count - 1) /\ Count \in Nat
    BY UnderWay DEF CheckExt, Count
  <1>2. PICK checks : checks = UsageChecks(At(vfy.depth), vfy.depth, isRoot)
    OBVIOUS
  <1>3. Decide(checks, next)
    BY <1>2 DEF CheckExt
  <1>4. Reports(checks) /\ (Passed(checks) => UsageFine(At(vfy.depth), vfy.depth, isRoot))
    <2>1. PICK c : c = At(vfy.depth)
      OBVIOUS
    <2>2. checks = UsageChecks(c, vfy.depth, isRoot) /\ vfy.depth \in Nat
      BY <1>1, <1>2, <2>1
    <2> HIDE DEF isRoot
    <2>3. QED
      BY <2>1, <2>2, UsageChecksPass
  <1>5. UsageFine(At(vfy.depth), vfy.depth, isRoot) => UsageOK(vfy.chain, vfy.depth + 1)
    BY <1>1 DEF UsageFine, UsageOK, At, Count
  <1>6. Passed(checks) => VfyInv(next)
    BY <1>1, <1>4, <1>5, UsageNext
  <1> HIDE DEF next
  <1>7. QED
    BY <1>3, <1>4, <1>6, DecideStep DEF Reports

LEMMA CheckCertCrlStep ==
  ASSUME IInv, CheckCertCrl, UNCHANGED scenario
  PROVE  IInv'
  <1> DEFINE a == Check(~KeyUsageAllows(At(vfy.depth + 1), "crlSign"), "ERR_VFY_KU_NO_CRLSIGN")
             next == [vfy EXCEPT !.crlIdx = 1, !.crlRet = "ERR_VFY_CRL_NOT_FOUND"]
  <1>1. VfyInv(vfy) /\ CtxInv /\ vfy.pc = "crl"
    BY UnderWay DEF CheckCertCrl
  <1>2. a.err # "SUCCESS" /\ (Fine(a) => SignsCrls(vfy.chain, vfy.depth + 1))
    BY DEF Check, Fine, SignsCrls, At
  <1>3. Fine(a) => VfyInv(next)
    BY <1>1, <1>2, CheckCertCrlNext
  <1>4. Decide(<<a>>, next)
    BY DEF CheckCertCrl
  <1> HIDE DEF a, next
  <1>5. QED
    BY <1>2, <1>3, <1>4, DecideOne

LEMMA EndCrlStep ==
  ASSUME IInv, EndCrl, UNCHANGED scenario
  PROVE  IInv'
  <1> DEFINE a == Check(vfy.crlRet # "SUCCESS", "ERR_VFY_CRL_NOT_FOUND")
             next == IF "CRL_ALL" \in ctx.flags /\ vfy.depth + 2 < Count
                     THEN [vfy EXCEPT !.depth = @ + 1, !.crlIdx = 0] ELSE StartSign
  <1>1. VfyInv(vfy) /\ CtxInv /\ vfy.pc = "crl" /\ vfy.crlIdx = Len(ctx.crl) + 1
    BY UnderWay DEF EndCrl
  <1>2. a.err # "SUCCESS" /\ (Fine(a) => (vfy.crlRet # "SUCCESS" => Ok("ERR_VFY_CRL_NOT_FOUND")))
    BY DEF Check, Fine
  <1>3. Fine(a) => VfyInv(next)
    BY <1>1, <1>2, EndCrlNext
  <1>4. Decide(<<a>>, next)
    BY DEF EndCrl
  <1> HIDE DEF a, next
  <1>5. QED
    BY <1>2, <1>3, <1>4, DecideOne

LEMMA SignStep ==
  ASSUME IInv, VerifyChainCert, UNCHANGED scenario
  PROVE  IInv'
  <1> DEFINE next == IF vfy.depth > 0 THEN [vfy EXCEPT !.depth = @ - 1] ELSE [vfy EXCEPT !.pc = "host"]
             anchor == vfy.depth = Count - 1
             signed == anchor /\ "PARTIAL_CHAIN" \in ctx.flags /\ ~SelfSigned(At(vfy.depth)) /\ vfy.depth > 0
  <1>1. VfyInv(vfy) /\ vfy.pc = "sign" /\ vfy.depth \in 0..(Count - 1) /\ Count \in Nat
    BY UnderWay DEF VerifyChainCert, Count
  <1>2. PICK checks : checks = SignChecks(vfy.depth)
    OBVIOUS
  <1>3. Decide(checks, next)
    BY <1>2 DEF VerifyChainCert
  <1>4. PICK c, issuer : c = At(vfy.depth) /\ issuer = IF anchor THEN c ELSE At(vfy.depth + 1)
    OBVIOUS
  <1>5. Reports(checks) /\ (Passed(checks) => SignFine(c, issuer, signed))
    <2>1. checks = <<Check(Timed /\ ~C(c).valid, "ERR_VFY_NOTAFTER_EXPIRED")>>
                   \o (IF signed THEN <<>> ELSE <<Check(C(c).sigKey # C(issuer).key, "ERR_VFY_CERT_SIGN_FAIL")>>)
      BY <1>2, <1>4, Zenon DEF SignChecks
    <2> HIDE DEF signed
    <2>2. QED
      BY <2>1, SignChecksPass
  <1>6. SignFine(c, issuer, signed) => SignOK(vfy.chain, vfy.depth + 1)
    BY <1>1, <1>4 DEF SignFine, SignOK, At, Count
  <1>7. Passed(checks) => VfyInv(next)
    BY <1>1, <1>5, <1>6, SignNext
  <1> HIDE DEF next
  <1>8. QED
    BY <1>3, <1>5, <1>7, DecideStep DEF Reports

LEMMA HostStep ==
  ASSUME IInv, CheckHost, UNCHANGED scenario
  PROVE  IInv'
  <1> DEFINE a == Check("HOST" \in ctx.flags /\ ~C(At(0)).named, "ERR_VFY_HOSTNAME_FAIL")
             next == [vfy EXCEPT !.pc = "done"]
  <1>1. VfyInv(vfy) /\ vfy.pc = "host"
    BY UnderWay DEF CheckHost
  <1>2. a.err # "SUCCESS" /\ (Fine(a) => ("HOST" \in ctx.flags /\ ~C(vfy.chain[1]).named => Ok("ERR_VFY_HOSTNAME_FAIL")))
    <2>1. At(0) = vfy.chain[1]
      BY DEF At
    <2>2. a.err # "SUCCESS" /\ (Fine(a) => ("HOST" \in ctx.flags /\ ~C(At(0)).named => Ok("ERR_VFY_HOSTNAME_FAIL")))
      BY DEF Check, Fine
    <2>3. QED
      BY <2>1, <2>2
  <1>3. Fine(a) => VfyInv(next)
    BY <1>1, <1>2, HostNext
  <1>4. Decide(<<a>>, next)
    BY DEF CheckHost
  <1> HIDE DEF a, next
  <1>5. QED
    BY <1>2, <1>3, <1>4, DecideOne

\* A step that only moves a verification on.
LEMMA GoOn ==
  ASSUME IInv, SameSettings, CtxInv', last' = last, NEW w, w = vfy', VfyInv(w)
  PROVE  IInv'
  <1>1. VfyInv(w)'
    BY Carry
  <1>2. VfyInv(vfy)'
    BY <1>1
  <1>3. Sound'
    BY SoundKept DEF SameSettings, IInv
  <1>4. QED
    BY <1>2, <1>3 DEF IInv, SameSettings, In

LEMMA SkipsOthers ==
  ASSUME NEW p, NEW i, NEW r, NEW cert, NEW parent, cert = p[i], parent = p[i + 1],
         r \in CrlsInForce(p, i, ctx)
  PROVE  R(r).issuer = C(parent).subject /\ Passed(SkipChecks(cert, parent, r))
  <1> DEFINE a == Check(C(cert).v3 /\ R(r).aki # "absent" /\ R(r).aki # C(parent).key, "ERR_VFY_AKI_SKI_NOT_MATCH")
             b == Check(Timed /\ ~R(r).valid, "ERR_VFY_NEXTUPDATE_EXPIRED")
  <1>1. /\ R(r).issuer = C(parent).subject
        /\ R(r).aki \in {"absent", C(parent).key} \/ ~C(cert).v3 \/ Ok("ERR_VFY_AKI_SKI_NOT_MATCH")
        /\ R(r).valid \/ ~Timed \/ Ok("ERR_VFY_NEXTUPDATE_EXPIRED")
    BY DEF CrlsInForce, Timed, Ok
  <1>2. Fine(a)
    BY <1>1 DEF Fine, Check
  <1>3. Fine(b)
    BY <1>1 DEF Fine, Check
  <1>4. SkipChecks(cert, parent, r) = <<a, b>>
    BY Zenon DEF SkipChecks
  <1> HIDE DEF a, b
  <1>5. Passed(<<a, b>>)
    BY <1>2, <1>3 DEF Passed, Refused, Fine, Ok
  <1>6. QED
    BY <1>1, <1>4, <1>5

LEMMA NotSkipped ==
  ASSUME NEW p, NEW i, NEW r, NEW cert, NEW parent, cert = p[i], parent = p[i + 1],
         r \in Elements(ctx.crl), R(r).issuer = C(parent).subject, Passed(SkipChecks(cert, parent, r))
  PROVE  r \in CrlsInForce(p, i, ctx)
  <1> DEFINE a == Check(C(cert).v3 /\ R(r).aki # "absent" /\ R(r).aki # C(parent).key, "ERR_VFY_AKI_SKI_NOT_MATCH")
             b == Check(Timed /\ ~R(r).valid, "ERR_VFY_NEXTUPDATE_EXPIRED")
  <1>1. SkipChecks(cert, parent, r) = <<a, b>>
    BY Zenon DEF SkipChecks
  <1>2. a.err # "SUCCESS" /\ b.err # "SUCCESS"
    BY DEF Check
  <1>3. /\ Fine(a) => R(r).aki \in {"absent", C(parent).key} \/ ~C(cert).v3 \/ Ok("ERR_VFY_AKI_SKI_NOT_MATCH")
        /\ Fine(b) => R(r).valid \/ ~Timed \/ Ok("ERR_VFY_NEXTUPDATE_EXPIRED")
    BY DEF Fine, Check
  <1> HIDE DEF a, b
  <1>4. Fine(a) /\ Fine(b)
    BY <1>1, <1>2, Pass2
  <1>5. QED
    BY <1>3, <1>4 DEF CrlsInForce, Timed, Ok

LEMMA ConsultStep ==
  ASSUME IInv, ConsultCrl, UNCHANGED scenario
  PROVE  IInv'
  <1> DEFINE d == vfy.depth + 1
             p == vfy.chain
  <1>1. /\ VfyInv(vfy) /\ VfyType(vfy) /\ CtxInv /\ vfy.pc = "crl" /\ vfy.crlIdx \in 1..Len(ctx.crl)
        /\ DOMAIN vfy = VfyFields /\ vfy.depth \in 0..(Len(p) - 1)
    BY UnderWay DEF ConsultCrl, VfyType
  <1>2. PICK cert, parent, r : cert = p[d] /\ parent = p[d + 1] /\ r = ctx.crl[vfy.crlIdx]
    OBVIOUS
  <1>3. At(vfy.depth) = cert /\ At(vfy.depth + 1) = parent
    BY <1>1, <1>2 DEF At
  <1>4. r \in CrlsInForce(p, d, ctx) => R(r).issuer = C(parent).subject /\ Passed(SkipChecks(cert, parent, r))
    BY <1>2, SkipsOthers
  <1>5. PICK next : next = [vfy EXCEPT !.crlIdx = @ + 1]
    OBVIOUS
  <1>6. /\ DOMAIN next = VfyFields /\ next.pc = "crl" /\ next.kind = vfy.kind /\ next.peer = vfy.peer /\ next.chain = p
        /\ next.find = vfy.find /\ next.depth = vfy.depth /\ next.crlIdx = vfy.crlIdx + 1 /\ next.crlRet = vfy.crlRet
    BY <1>1, <1>5 DEF VfyFields
  <1>7. r \notin CrlsInForce(p, d, ctx) => VfyInv(next)
    BY <1>1, <1>2, <1>6, ConsultNext
  <1>8. CASE R(r).issuer # C(parent).subject
    <2>1. vfy' = next /\ UNCHANGED <<world, ctx, last, calls>>
      BY <1>1, <1>2, <1>3, <1>5, <1>8 DEF ConsultCrl
    <2>2. SameSettings /\ CtxInv'
      <3>1. SameSettings
        BY <2>1 DEF SameSettings
      <3>2. QED
        BY <1>1, <2>1, <3>1, CtxKept DEF CtxInv
    <2>3. QED
      BY <1>4, <1>7, <1>8, <2>1, <2>2, GoOn
  <1>9. CASE R(r).issuer = C(parent).subject /\ ~Passed(SkipChecks(cert, parent, r))
    <2>1. PICK e, errs : /\ ctx' = [ctx EXCEPT !.error = e] /\ vfy' = [next EXCEPT !.reported = errs]
                         /\ UNCHANGED <<world, last, calls>>
      BY <1>1, <1>2, <1>3, <1>5, <1>9, Zenon DEF ConsultCrl
    <2>2. SameSettings /\ CtxInv'
      BY <1>1, <2>1, ErrorOnly
    <2>3. PICK w : w = vfy'
      OBVIOUS
    <2>4. /\ DOMAIN w = VfyFields /\ w.pc = next.pc /\ w.kind = next.kind /\ w.peer = next.peer /\ w.chain = next.chain
          /\ w.find = next.find /\ w.depth = next.depth /\ w.crlIdx = next.crlIdx /\ w.crlRet = next.crlRet
      BY <1>6, <2>1, <2>3 DEF VfyFields
    <2>5. VfyInv(w)
      BY <1>4, <1>7, <1>9, <2>4, SameVfy
    <2>6. QED
      BY <2>1, <2>2, <2>3, <2>5, GoOn
  <1>10. CASE R(r).issuer = C(parent).subject /\ Passed(SkipChecks(cert, parent, r))
    <2>1. PICK checks : checks = SkipChecks(cert, parent, r) \o CrlChecks(cert, parent, r)
      OBVIOUS
    <2>2. PICK ret, next1 : next1 = [next EXCEPT !.crlRet = ret] /\ Decide(checks, next1)
      BY <1>1, <1>2, <1>3, <1>5, <1>10, <2>1, Zenon DEF ConsultCrl
    <2>3. /\ DOMAIN next1 = VfyFields /\ next1.pc = "crl" /\ next1.kind = vfy.kind /\ next1.peer = vfy.peer
          /\ next1.chain = p /\ next1.find = vfy.find /\ next1.depth = vfy.depth /\ next1.crlIdx = vfy.crlIdx + 1
      BY <1>6, <2>2 DEF VfyFields
    <2>4. Reports(checks) /\ (Passed(checks) => CrlOK(p, d, r))
      BY <1>2, <2>1, CrlChecksPass, ZenonT(60) DEF CrlOK
    <2>5. r \in CrlsInForce(p, d, ctx)
      <3>1. r \in Elements(ctx.crl)
        BY <1>1, <1>2 DEF Elements, CtxInv
      <3>2. QED
        BY <1>2, <1>10, <3>1, NotSkipped
    <2>6. Passed(checks) => VfyInv(next1)
      BY <1>1, <1>2, <2>3, <2>4, <2>5, ConsultNext
    <2>7. QED
      BY <2>2, <2>4, <2>6, DecideStep DEF Reports
  <1>11. QED
    BY <1>8, <1>9, <1>10

-----------------------------------------------------------------------------
(* Building the chain.                                                     *)

LEMMA GetIssue ==
  ASSUME NEW list \in Seq(Certs), NEW cert, NEW issue, issue = GetIssueFromChain(list, cert), issue # NoCert
  PROVE  \E i \in DOMAIN list : issue = list[i] /\ CheckIssued(issue, cert)
  <1> DEFINE found == {i \in DOMAIN list : CheckIssued(list[i], cert)}
  <1>1. found # {} /\ issue = list[Min(found)]
    BY Zenon DEF GetIssueFromChain
  <1>2. found \in SUBSET Nat
    BY SMT
  <1>3. Min(found) \in found
    BY <1>1, <1>2, MinIn
  <1>4. QED
    BY <1>1, <1>3

LEMMA Loaded ==
  ASSUME world.files \in Seq(Certs), NEW cert, NEW issue, issue = GetCertBySubject(cert), issue # NoCert
  PROVE  issue \in Certs /\ issue \in Known /\ CheckIssued(issue, cert)
  <1> DEFINE found == {i \in DOMAIN world.files : CheckIssued(world.files[i], cert) /\ CertIsCA(world.files[i])}
  <1>1. found # {} /\ issue = world.files[Min(found)]
    BY Zenon DEF GetCertBySubject
  <1>2. found \in SUBSET Nat
    BY SMT
  <1>3. Min(found) \in found
    BY <1>1, <1>2, MinIn
  <1>4. PICK k \in DOMAIN world.files : issue = world.files[k] /\ CheckIssued(issue, cert) /\ CertIsCA(issue)
    BY <1>1, <1>3
  <1>5. issue \in Certs /\ issue \in Elements(world.files)
    BY <1>4 DEF Elements
  <1>6. QED
    BY <1>4, <1>5 DEF Known

\* What X509_FindIssueCert finds is an issuer; it says so only of one that is trusted, and stores no other.
Found(cert, f) ==
  /\ f.issue # NoCert => /\ f.issue \in Certs /\ CheckIssued(f.issue, cert) /\ f.issue \in Known \cup Elements(vfy.peer)
                         /\ f.isTrustCa => f.issue \in Known
  /\ f.store \in Seq(Certs) /\ \A i \in DOMAIN f.store : f.store[i] \in Known

LEMMA FindIssue ==
  ASSUME CtxInv, world.files \in Seq(Certs), vfy.peer \in Seq(Certs), NEW cert, NEW f, f = FindIssueCert(cert)
  PROVE  Found(cert, f)
  <1>1. PICK stored, loaded, sent : /\ stored = GetIssueFromChain(ctx.store, cert)
                                    /\ loaded = GetCertBySubject(cert)
                                    /\ sent = IF vfy.kind = "verify" THEN GetIssueFromChain(vfy.peer, cert) ELSE NoCert
    OBVIOUS
  <1>2. ctx.store \in Seq(Certs) /\ \A i \in DOMAIN ctx.store : ctx.store[i] \in Known
    BY DEF CtxInv
  <1>3. CASE stored # NoCert
    <2>1. f = [issue |-> stored, isTrustCa |-> TRUE, store |-> ctx.store]
      BY <1>1, <1>3, Zenon DEF FindIssueCert
    <2>2. stored \in Certs /\ stored \in Known /\ CheckIssued(stored, cert)
      BY <1>1, <1>2, <1>3, GetIssue
    <2>3. QED
      BY <1>2, <2>1, <2>2 DEF Found
  <1>4. CASE stored = NoCert /\ loaded # NoCert
    <2>1. f = [issue |-> loaded, isTrustCa |-> TRUE, store |-> IF Stored(loaded) THEN ctx.store ELSE <<loaded>> \o ctx.store]
      BY <1>1, <1>4, Zenon DEF FindIssueCert
    <2>2. loaded \in Certs /\ loaded \in Known /\ CheckIssued(loaded, cert)
      BY <1>1, <1>4, Loaded
    <2>3. PICK store : store = <<loaded>> \o ctx.store
      OBVIOUS
    <2>4. store \in Seq(Certs) /\ \A i \in DOMAIN store : store[i] \in Known
      <3>1. <<loaded>> \in Seq(Certs)
        BY <2>2
      <3>2. /\ store \in Seq(Certs) /\ Len(store) = 1 + Len(ctx.store)
            /\ \A i \in 1..Len(store) : store[i] = IF i = 1 THEN loaded ELSE ctx.store[i - 1]
        BY <1>2, <2>2, <2>3
      <3>3. QED
        BY <1>2, <2>2, <3>2
    <2>5. f.store = IF Stored(loaded) THEN ctx.store ELSE store
      BY <2>1, <2>3
    <2>6. QED
      BY <1>2, <2>1, <2>2, <2>4, <2>5 DEF Found
  <1>5. CASE stored = NoCert /\ loaded = NoCert
    <2>1. f = [issue |-> sent, isTrustCa |-> FALSE, store |-> ctx.store]
      BY <1>1, <1>5, Zenon DEF FindIssueCert
    <2>2. sent # NoCert => sent \in Certs /\ sent \in Elements(vfy.peer) /\ CheckIssued(sent, cert)
      BY <1>1, GetIssue DEF Elements
    <2>3. QED
      BY <1>2, <2>1, <2>2 DEF Found
  <1>6. QED
    BY <1>3, <1>4, <1>5

\* The chain q, of n certificates and the issuer c.
ChainTo(q, n, c) ==
  /\ q \in Seq(Certs) /\ Len(q) = n + 1 /\ q[Len(q)] = c /\ q[1] = vfy.peer[1] /\ Linked(q)
  /\ \A i \in 2..Len(q) : q[i] \in Known \cup Elements(vfy.peer)

LEMMA Extended ==
  ASSUME ChainInv(vfy), NEW p, p = vfy.chain, p \in Seq(Certs), Len(p) >= 1,
         NEW c \in Certs, CheckIssued(c, p[Len(p)]), c \in Known \cup Elements(vfy.peer), NEW q, q = Append(p, c)
  PROVE  ChainTo(q, Len(p), c)
  <1>1. /\ q \in Seq(Certs) /\ Len(q) = Len(p) + 1 /\ q[Len(p) + 1] = c /\ Len(p) \in Nat
        /\ \A i \in 1..Len(p) : q[i] = p[i]
    OBVIOUS
  <1>2. p[1] = vfy.peer[1] /\ (\A i \in 1..(Len(p) - 1) : CheckIssued(p[i + 1], p[i]))
        /\ \A i \in 2..Len(p) : p[i] \in Known \cup Elements(vfy.peer)
    BY DEF ChainInv, Linked
  <1>3. Linked(q)
    <2>1. ASSUME NEW i \in 1..(Len(q) - 1)
          PROVE  CheckIssued(q[i + 1], q[i])
      <3>1. CASE i = Len(p)
        BY <1>1, <3>1
      <3>2. CASE i < Len(p)
        <4>1. i \in 1..(Len(p) - 1) /\ q[i] = p[i] /\ q[i + 1] = p[i + 1]
          BY <1>1, <3>2
        <4>2. QED
          BY <1>2, <4>1
      <3>3. QED
        BY <1>1, <3>1, <3>2
    <2>2. QED
      BY <2>1 DEF Linked
  <1>4. \A i \in 2..Len(q) : q[i] \in Known \cup Elements(vfy.peer)
    BY <1>1, <1>2
  <1>5. QED
    BY <1>1, <1>2, <1>3, <1>4 DEF ChainTo

\* The chain is built, and verified from here on.
LEMMA BuiltNext ==
  ASSUME VfyInv(vfy), vfy.pc = "build", vfy.kind = "verify", NEW root \in Certs, root \in Known,
         CheckIssued(root, vfy.chain[Len(vfy.chain)]), SelfSigned(root) \/ "PARTIAL_CHAIN" \in ctx.flags,
         Len(vfy.chain) + 1 > ctx.maxDepth => Ok("ERR_CHAIN_DEPTH_UP_LIMIT"), CtxInv,
         NEW q, q = IF root # vfy.chain[1] THEN Append(vfy.chain, root) ELSE vfy.chain,
         NEW w, w = [vfy EXCEPT !.pc = IF "SECBITS" \in ctx.flags THEN "secbits" ELSE "ext", !.chain = q]
  PROVE  VfyInv(w)
  <1>1. PICK p : p = vfy.chain
    OBVIOUS
  <1>2. /\ VfyType(vfy) /\ ChainInv(vfy) /\ DOMAIN vfy = VfyFields /\ p \in Seq(Certs) /\ Len(p) \in Nat /\ Len(p) >= 1
        /\ vfy.depth = 0 /\ ctx.maxDepth \in Nat
    BY <1>1, X509Assumption DEF VfyInv, VfyType, CtxInv
  <1>3. /\ DOMAIN w = VfyFields /\ w.kind = "verify" /\ w.peer = vfy.peer /\ w.chain = q /\ w.find = vfy.find
        /\ w.depth = 0 /\ w.crlIdx = vfy.crlIdx /\ w.crlRet = vfy.crlRet
        /\ w.pc = IF "SECBITS" \in ctx.flags THEN "secbits" ELSE "ext"
    BY <1>2 DEF VfyFields
  <1>4. /\ q \in Seq(Certs) /\ Len(q) >= 1 /\ q[1] = vfy.peer[1] /\ Linked(q)
        /\ \A i \in 2..Len(q) : q[i] \in Known \cup Elements(vfy.peer)
        /\ root = q[Len(q)] \/ (root = q[1] /\ CheckIssued(root, q[Len(q)]))
        /\ (IF Len(q) = 1 THEN 2 ELSE Len(q)) <= Len(p) + 1
    <2>1. CASE root # p[1]
      <3>1. q = Append(p, root) /\ CheckIssued(root, p[Len(p)]) /\ root \in Known \cup Elements(vfy.peer)
        BY <1>1, <2>1
      <3>2. ChainTo(q, Len(p), root)
        BY <1>1, <1>2, <3>1, Extended
      <3>3. QED
        BY <1>2, <3>2 DEF ChainTo
    <2>2. CASE root = p[1]
      <3>1. q = p
        BY <1>1, <2>2
      <3>2. QED
        BY <1>1, <1>2, <2>2, <3>1 DEF ChainInv
    <2>3. QED
      BY <2>1, <2>2
  <1>5. VfyType(w)
    BY <1>2, <1>3, <1>4 DEF VfyType, Pcs, Kinds
  <1>6. ChainInv(w)
    BY <1>3, <1>4 DEF ChainInv
  <1>7. BuildInv(w)
    <2>1. Anchored(w.chain, ctx)
      BY <1>3, <1>4 DEF Anchored
    <2>2. (IF Len(q) = 1 THEN 2 ELSE Len(q)) > ctx.maxDepth => Len(p) + 1 > ctx.maxDepth
      <3>1. Len(q) \in Nat
        BY <1>4
      <3>2. QED
        BY <1>2, <1>4, <3>1
    <2>3. QED
      BY <1>1, <1>3, <2>1, <2>2 DEF BuildInv
  <1>8. /\ StrongDone(w) = {} /\ HashDone(w) = {} /\ ExtDone(w) = {} /\ UsageDone(w) = {} /\ CrlsDone(w) = {}
        /\ SignDone(w) = {}
    BY <1>3 DEF StrongDone, HashDone, ExtDone, UsageDone, CrlsDone, SignDone
  <1>9. CheckedInv(w)
    BY <1>3, <1>8 DEF CheckedInv, CrlLoop, HostOK
  <1>10. QED
    BY <1>5, <1>6, <1>7, <1>9 DEF VfyInv

\* An issuer is added to the chain.
LEMMA RoundNext ==
  ASSUME VfyInv(vfy), vfy.pc = "build", vfy.find # 0, NEW c \in Certs, CheckIssued(c, vfy.chain[Len(vfy.chain)]),
         c \in Known \cup Elements(vfy.peer), CtxInv,
         Len(vfy.chain) + 1 > ctx.maxDepth => Ok("ERR_CHAIN_DEPTH_UP_LIMIT"),
         NEW errs, NEW w, w = [vfy EXCEPT !.chain = Append(@, c), !.find = @ - 1, !.reported = errs]
  PROVE  VfyInv(w)
  <1>1. PICK p, q : p = vfy.chain /\ q = Append(p, c)
    OBVIOUS
  <1>2. /\ VfyType(vfy) /\ ChainInv(vfy) /\ DOMAIN vfy = VfyFields /\ p \in Seq(Certs) /\ Len(p) \in Nat /\ Len(p) >= 1
        /\ vfy.depth = 0 /\ ctx.maxDepth \in Nat /\ vfy.find \in Nat
    BY <1>1, X509Assumption DEF VfyInv, VfyType, CtxInv
  <1>3. /\ DOMAIN w = VfyFields /\ w.kind = vfy.kind /\ w.peer = vfy.peer /\ w.chain = q /\ w.find = vfy.find - 1
        /\ w.depth = 0 /\ w.crlIdx = vfy.crlIdx /\ w.crlRet = vfy.crlRet /\ w.pc = "build"
    BY <1>1, <1>2 DEF VfyFields
  <1>4. /\ q \in Seq(Certs) /\ Len(q) = Len(p) + 1 /\ q[1] = vfy.peer[1] /\ Linked(q)
        /\ \A i \in 2..Len(q) : q[i] \in Known \cup Elements(vfy.peer)
    <2>1. CheckIssued(c, p[Len(p)])
      BY <1>1
    <2>2. ChainTo(q, Len(p), c)
      BY <1>1, <1>2, <2>1, Extended
    <2>3. QED
      BY <2>2 DEF ChainTo
  <1>5. VfyType(w)
    BY <1>2, <1>3, <1>4 DEF VfyType, Pcs, Kinds
  <1>6. ChainInv(w)
    BY <1>3, <1>4 DEF ChainInv
  <1>7. BuildInv(w)
    BY <1>1, <1>2, <1>3, <1>4 DEF BuildInv
  <1>8. /\ StrongDone(w) = {} /\ HashDone(w) = {} /\ ExtDone(w) = {} /\ UsageDone(w) = {} /\ CrlsDone(w) = {}
        /\ SignDone(w) = {}
    BY <1>3 DEF StrongDone, HashDone, ExtDone, UsageDone, CrlsDone, SignDone
  <1>9. CheckedInv(w)
    BY <1>3, <1>8 DEF CheckedInv, CrlLoop, HostOK
  <1>10. QED
    BY <1>5, <1>6, <1>7, <1>9 DEF VfyInv

\* A verification that ends without success, or that only builds a chain.
LEMMA EndsOtherwise ==
  ASSUME IInv, SameSettings, CtxInv', vfy' = Idle, last'.kind # "verify" \/ last'.ret # "SUCCESS"
  PROVE  IInv'
  BY NothingClaimed DEF IInv, SameSettings, In

LEMMA EndedOtherwise ==
  ASSUME IInv, SameSettings, CtxInv', NEW ret, NEW error, NEW errs, Ended(ret, error, errs), vfy.kind # "verify" \/ ret # "SUCCESS"
  PROVE  IInv'
  <1>1. vfy' = Idle /\ (last'.kind # "verify" \/ last'.ret # "SUCCESS")
    BY DEF Ended
  <1>2. QED
    BY <1>1, EndsOtherwise

\* The end of X509_BuildChain.
LEMMA BuiltStep ==
  ASSUME IInv, vfy.pc = "build", SameSettings, CtxInv', NEW ret, NEW root, Built(ret, root),
         root # NoCert => /\ root \in Certs /\ root \in Known /\ CheckIssued(root, vfy.chain[Len(vfy.chain)])
                          /\ vfy.kind = "verify" => SelfSigned(root) \/ "PARTIAL_CHAIN" \in ctx.flags
                          /\ Len(vfy.chain) + 1 > ctx.maxDepth => Ok("ERR_CHAIN_DEPTH_UP_LIMIT")
  PROVE  IInv'
  <1> DEFINE err == IF ret # "SUCCESS" THEN ret ELSE "ERR_ROOT_CERT_NOT_FOUND"
             q == IF root # NoCert /\ root # vfy.chain[1] THEN Append(vfy.chain, root) ELSE vfy.chain
  <1>1. VfyInv(vfy) /\ CtxInv /\ vfy.kind \in Kinds
    BY UnderWay DEF VfyType
  <1>2. CASE vfy.kind = "build"
    <2>1. Ended("SUCCESS", ctx.error, vfy.reported)
      BY <1>2, Zenon DEF Built
    <2>2. QED
      BY <1>2, <2>1, EndedOtherwise
  <1>3. CASE vfy.kind # "build" /\ (ret # "SUCCESS" \/ root = NoCert)
    <2>1. Ended(err, ctx.error, vfy.reported)
      BY <1>3, Zenon DEF Built
    <2>2. err # "SUCCESS"
      OBVIOUS
    <2> HIDE DEF err
    <2>3. QED
      BY <2>1, <2>2, EndedOtherwise
  <1>4. CASE vfy.kind = "buildWithRoot" /\ ret = "SUCCESS" /\ root # NoCert
    <2>1. vfy' = Idle /\ last'.kind = vfy.kind
      BY <1>4 DEF Built
    <2>2. QED
      BY <1>4, <2>1, EndsOtherwise
  <1>5. CASE vfy.kind = "verify" /\ ret = "SUCCESS" /\ root # NoCert
    <2>1. PICK w : w = vfy'
      OBVIOUS
    <2>2. /\ w = [vfy EXCEPT !.pc = IF "SECBITS" \in ctx.flags THEN "secbits" ELSE "ext", !.chain = q]
          /\ last' = last
      BY <1>5, <2>1 DEF Built
    <2>3. q = IF root # vfy.chain[1] THEN Append(vfy.chain, root) ELSE vfy.chain
      BY <1>5
    <2> HIDE DEF q
    <2>4. VfyInv(w)
      BY <1>1, <1>5, <2>2, <2>3, BuiltNext
    <2>5. QED
      BY <2>1, <2>2, <2>4, GoOn
  <1>6. QED
    BY <1>1, <1>2, <1>3, <1>4, <1>5 DEF Kinds

LEMMA Files ==
  ASSUME IInv
  PROVE  world.files \in Seq(Certs)
  BY X509Assumption DEF IInv, In

LEMMA BuildStep ==
  ASSUME IInv, BuildChain, UNCHANGED scenario
  PROVE  IInv'
  <1>1. /\ VfyInv(vfy) /\ CtxInv /\ vfy.pc = "build" /\ vfy.peer \in Seq(Certs) /\ vfy.kind \in Kinds
        /\ world' = world /\ scenario' = scenario /\ DOMAIN ctx = CtxFields
    BY UnderWay DEF BuildChain, VfyType, CtxInv
  <1>2. PICK f : f = FindIssueCert(vfy.chain[Len(vfy.chain)])
    OBVIOUS
  <1>3. Found(vfy.chain[Len(vfy.chain)], f)
    BY <1>1, <1>2, Files, FindIssue
  <1> DEFINE a == Check(Len(vfy.chain) + 1 > ctx.maxDepth, "ERR_CHAIN_DEPTH_UP_LIMIT")
             partial == vfy.kind = "verify" /\ "PARTIAL_CHAIN" \in ctx.flags /\ f.isTrustCa
  <1>4. PICK depth : depth = <<a>>
    OBVIOUS
  <1>5. Reports(depth) /\ (Passed(depth) => (Len(vfy.chain) + 1 > ctx.maxDepth => Ok("ERR_CHAIN_DEPTH_UP_LIMIT")))
    <2>1. a.err # "SUCCESS" /\ (Fine(a) => (Len(vfy.chain) + 1 > ctx.maxDepth => Ok("ERR_CHAIN_DEPTH_UP_LIMIT")))
      BY DEF Check, Fine
    <2> HIDE DEF a
    <2>2. Reports(depth) /\ (Passed(depth) => Fine(a))
      BY <1>4, <2>1, Pass1
    <2>3. QED
      BY <2>1, <2>2
  <1>6. IF vfy.find = 0 THEN Built("SUCCESS", NoCert) /\ UNCHANGED ctx
        ELSE IF f.issue = NoCert THEN Built("ERR_ISSUE_CERT_NOT_FOUND", NoCert) /\ UNCHANGED ctx
        ELSE /\ ctx' = [ctx EXCEPT !.store = f.store, !.error = Record(depth)]
             /\ IF ~Passed(depth)
                THEN IF vfy.kind = "build" THEN Ended("SUCCESS", Record(depth), vfy.reported)
                     ELSE Ended(Ret(depth), Record(depth), vfy.reported \cup Errors(depth))
                ELSE IF partial \/ SelfSigned(f.issue)
                     THEN Built("SUCCESS", IF f.isTrustCa THEN f.issue ELSE NoCert)
                     ELSE vfy' = [vfy EXCEPT !.chain = Append(@, f.issue), !.find = @ - 1,
                                             !.reported = @ \cup Errors(depth)] /\ UNCHANGED last
    BY <1>2, <1>4, Zenon DEF BuildChain
  <1> HIDE DEF a
  <1>7. CASE vfy.find = 0 \/ f.issue = NoCert
    <2>1. PICK ret : Built(ret, NoCert) /\ UNCHANGED ctx
      BY <1>6, <1>7, Zenon
    <2>2. SameSettings
      BY <1>1, <2>1 DEF SameSettings
    <2>3. CtxInv'
      BY <1>1, <2>1, <2>2, CtxKept DEF CtxInv
    <2>4. QED
      BY <1>1, <2>1, <2>2, <2>3, BuiltStep
  <1>8. CASE vfy.find # 0 /\ f.issue # NoCert
    <2>1. ctx' = [ctx EXCEPT !.store = f.store, !.error = Record(depth)]
      BY <1>6, <1>8, Zenon
    <2>2. SameSettings /\ DOMAIN ctx' = CtxFields /\ ctx'.store = f.store
      BY <1>1, <2>1 DEF SameSettings, CtxFields
    <2>3. CtxInv'
      BY <1>1, <1>3, <2>2, CtxKept DEF Found
    <2>4. /\ f.issue \in Certs /\ CheckIssued(f.issue, vfy.chain[Len(vfy.chain)])
          /\ f.issue \in Known \cup Elements(vfy.peer) /\ (f.isTrustCa => f.issue \in Known)
      BY <1>3, <1>8 DEF Found
    <2>5. CASE ~Passed(depth) /\ vfy.kind = "build"
      <3>1. Ended("SUCCESS", Record(depth), vfy.reported)
        BY <1>6, <1>8, <2>5, Zenon
      <3>2. QED
        BY <2>2, <2>3, <2>5, <3>1, EndedOtherwise
    <2>6. CASE ~Passed(depth) /\ vfy.kind # "build"
      <3>1. Ended(Ret(depth), Record(depth), vfy.reported \cup Errors(depth))
        BY <1>6, <1>8, <2>6, Zenon
      <3>2. Ret(depth) # "SUCCESS"
        BY <1>5, <2>6, RetIsError DEF Reports
      <3>3. QED
        BY <2>2, <2>3, <3>1, <3>2, EndedOtherwise
    <2>7. CASE Passed(depth) /\ (partial \/ SelfSigned(f.issue))
      <3>1. PICK root : root = IF f.isTrustCa THEN f.issue ELSE NoCert
        OBVIOUS
      <3>2. Built("SUCCESS", root)
        BY <1>6, <1>8, <2>7, <3>1, Zenon
      <3>3. root # NoCert => root = f.issue /\ f.isTrustCa
        BY <3>1
      <3>4. QED
        BY <1>1, <1>5, <2>2, <2>3, <2>4, <2>7, <3>2, <3>3, BuiltStep
    <2>8. CASE Passed(depth) /\ ~(partial \/ SelfSigned(f.issue))
      <3>1. PICK w, errs : /\ w = vfy' /\ last' = last
                           /\ w = [vfy EXCEPT !.chain = Append(@, f.issue), !.find = @ - 1, !.reported = errs]
        <4>1. vfy' = [vfy EXCEPT !.chain = Append(@, f.issue), !.find = @ - 1, !.reported = @ \cup Errors(depth)] /\ UNCHANGED last
          BY <1>6, <1>8, <2>8, Zenon
        <4>2. PICK errs : errs = vfy.reported \cup Errors(depth)
          OBVIOUS
        <4>3. QED
          BY <4>1, <4>2
      <3>2. VfyInv(w)
        BY <1>1, <1>5, <1>8, <2>4, <2>8, <3>1, RoundNext
      <3>3. QED
        BY <2>2, <2>3, <3>1, <3>2, GoOn
    <2>9. QED
      BY <2>5, <2>6, <2>7, <2>8
  <1>9. QED
    BY <1>7, <1>8

-----------------------------------------------------------------------------
(* The end of a verification.                                              *)

LEMMA NoPathDefect ==
  ASSUME VfyInv(vfy), CtxInv, vfy.pc = "done", NEW e, NEW p, p = vfy.chain, PathDefect(e, p, ctx)
  PROVE  e \in ctx.tolerate
  <1> DEFINE n == Len(p)
  <1>1. n \in Nat /\ n >= 1
    BY DEF VfyInv, VfyType
  <1>2. /\ "SECBITS" \in ctx.flags => \A i \in 1..n : StrongOK(p, i) /\ HashOK(p, i)
        /\ \A i \in 1..n : ExtOK(p, i) /\ UsageOK(p, i) /\ SignOK(p, i)
    BY DEF VfyInv, CheckedInv, StrongDone, HashDone, ExtDone, UsageDone, SignDone
  <1>3. "HOST" \in ctx.flags /\ ~C(p[1]).named => Ok("ERR_VFY_HOSTNAME_FAIL")
    BY DEF VfyInv, CheckedInv, HostOK
  <1>4. (IF n = 1 THEN 2 ELSE n) > ctx.maxDepth => Ok("ERR_CHAIN_DEPTH_UP_LIMIT")
    BY DEF VfyInv, BuildInv
  <1>5. ASSUME "SECBITS" \in ctx.flags, \E i \in 1..n : ~C(p[i]).strong \/ (i < n /\ ~C(p[i]).strongHash)
        PROVE  Ok("ERR_VFY_CHECK_SECBITS")
    BY <1>2, <1>5 DEF StrongOK, HashOK
  <1>6. ASSUME \E i \in 1..n : C(p[i]).v3 /\ C(p[i]).critical
        PROVE  Ok("ERR_PROCESS_CRITICALEXT")
    BY <1>2, <1>6 DEF ExtOK
  <1>6a. ASSUME \E i \in 1..n : ~C(p[i]).v3 /\ C(p[i]).hasExt
         PROVE  Ok("ERR_VFY_EXTENSIONS_REQUIRE_V3")
    BY <1>2, <1>6a DEF ExtOK
  <1>6b. ~\E i \in 1..n : C(p[i]).v3 /\ ~C(p[i]).usageFitsKey
    BY <1>2 DEF ExtOK
  <1>7. ASSUME n > 1, C(p[n]).v3, ~C(p[n]).ca
        PROVE  Ok("ERR_VFY_INVALID_CA")
    <2>1. UsageOK(p, n)
      BY <1>1, <1>2
    <2>2. QED
      BY <1>7, <2>1 DEF UsageOK
  <1>8. ASSUME NEW i \in 2..n, i # n
        PROVE  /\ ~C(p[i]).v3 => Ok("ERR_VFY_INTERCA_INVALID_VERSION")
               /\ ~C(p[i]).ca => Ok("ERR_VFY_INTERCA_INVALID_BCONS")
    <2>1. UsageOK(p, i) /\ i > 1
      BY <1>1, <1>2, <1>8
    <2>2. QED
      BY <1>8, <2>1 DEF UsageOK
  <1>9. ASSUME NEW i \in 2..n, C(p[i]).keyUsage \in {"none", "crlSign"}
        PROVE  Ok("ERR_VFY_KU_NO_CERTSIGN")
    <2>1. UsageOK(p, i) /\ i > 1
      BY <1>1, <1>2, <1>9
    <2>2. ~KeyUsageAllows(p[i], "certSign")
      BY <1>9 DEF KeyUsageAllows
    <2>3. QED
      BY <2>1, <2>2 DEF UsageOK
  <1>10. ASSUME NEW i \in 2..n, C(p[i]).ca, C(p[i]).pathLen # NoLimit, Cardinality(2..(i - 1)) > C(p[i]).pathLen
         PROVE  Ok("ERR_VFY_PATHLEN_EXCEEDED")
    <2>1. UsageOK(p, i) /\ i > 1
      BY <1>1, <1>2, <1>10
    <2>2. Cardinality(2..(i - 1)) = i - 2
      <3>1. 2 \in Int /\ i - 1 \in Int
        BY <1>1
      <3>2. Cardinality(2..(i - 1)) = IF 2 > i - 1 THEN 0 ELSE (i - 1) - 2 + 1
        BY <3>1, FS_Interval
      <3>3. QED
        BY <1>1, <3>2
    <2>3. QED
      BY <1>10, <2>1, <2>2 DEF UsageOK
  <1>11. ASSUME ~C(p[1]).fits
         PROVE  Ok("ERR_VFY_PURPOSE_UNMATCH")
    <2>1. UsageOK(p, 1)
      BY <1>1, <1>2
    <2>2. QED
      BY <1>11, <2>1 DEF UsageOK
  <1>12. ASSUME "DISABLE_TIME_CHECK" \notin ctx.flags, \E i \in 1..n : ~C(p[i]).valid
         PROVE  Ok("ERR_VFY_NOTAFTER_EXPIRED")
    BY <1>2, <1>12 DEF SignOK, Timed
  <1>13. ASSUME \/ \E i \in 1..(n - 1) : C(p[i]).sigKey # C(p[i + 1]).key
                \/ SelfSigned(p[n]) /\ C(p[n]).sigKey # C(p[n]).key
         PROVE  Ok("ERR_VFY_CERT_SIGN_FAIL")
    <2>1. CASE \E i \in 1..(n - 1) : C(p[i]).sigKey # C(p[i + 1]).key
      <3>1. PICK i \in 1..(n - 1) : C(p[i]).sigKey # C(p[i + 1]).key
        BY <2>1
      <3>2. SignOK(p, i) /\ i < n
        BY <1>1, <1>2, <3>1
      <3>3. QED
        BY <3>1, <3>2 DEF SignOK
    <2>2. CASE SelfSigned(p[n]) /\ C(p[n]).sigKey # C(p[n]).key
      <3>1. SignOK(p, n)
        BY <1>1, <1>2
      <3>2. QED
        BY <2>2, <3>1 DEF SignOK
    <2>3. QED
      BY <1>13, <2>1, <2>2
  <1>14. QED
    <2>1. e = "ERR_VFY_CHECK_SECBITS" \/ e = "ERR_PROCESS_CRITICALEXT" \/ e = "ERR_VFY_INVALID_CA" => (PathDefect(e, p, ctx) => Ok(e))
      BY <1>5, <1>6, <1>7 DEF PathDefect
    <2>2. e = "ERR_VFY_INTERCA_INVALID_VERSION" \/ e = "ERR_VFY_INTERCA_INVALID_BCONS" => (PathDefect(e, p, ctx) => Ok(e))
      BY <1>8 DEF PathDefect
    <2>3. e = "ERR_VFY_KU_NO_CERTSIGN" \/ e = "ERR_VFY_PATHLEN_EXCEEDED" \/ e = "ERR_VFY_PURPOSE_UNMATCH" => (PathDefect(e, p, ctx) => Ok(e))
      BY <1>9, <1>10, <1>11 DEF PathDefect
    <2>4. e = "ERR_VFY_NOTAFTER_EXPIRED" \/ e = "ERR_VFY_CERT_SIGN_FAIL" => (PathDefect(e, p, ctx) => Ok(e))
      BY <1>12, <1>13 DEF PathDefect
    <2>5. e = "ERR_VFY_HOSTNAME_FAIL" \/ e = "ERR_CHAIN_DEPTH_UP_LIMIT" => (PathDefect(e, p, ctx) => Ok(e))
      BY <1>3, <1>4 DEF PathDefect
    <2>5a. e = "ERR_VFY_EXTENSIONS_REQUIRE_V3" \/ e = "ERR_EXT_KU" => (PathDefect(e, p, ctx) => Ok(e))
      BY <1>6a, <1>6b DEF PathDefect
    <2>6. \/ e = "ERR_VFY_EXTENSIONS_REQUIRE_V3" \/ e = "ERR_EXT_KU"
          \/ e = "ERR_VFY_CHECK_SECBITS" \/ e = "ERR_PROCESS_CRITICALEXT" \/ e = "ERR_VFY_INVALID_CA"
          \/ e = "ERR_VFY_INTERCA_INVALID_VERSION" \/ e = "ERR_VFY_INTERCA_INVALID_BCONS" \/ e = "ERR_VFY_KU_NO_CERTSIGN"
          \/ e = "ERR_VFY_PATHLEN_EXCEEDED" \/ e = "ERR_VFY_PURPOSE_UNMATCH" \/ e = "ERR_VFY_NOTAFTER_EXPIRED"
          \/ e = "ERR_VFY_CERT_SIGN_FAIL" \/ e = "ERR_VFY_HOSTNAME_FAIL" \/ e = "ERR_CHAIN_DEPTH_UP_LIMIT"
      BY Zenon DEF PathDefect
    <2>7. QED
      BY <2>1, <2>2, <2>3, <2>4, <2>5, <2>5a, <2>6 DEF Ok

LEMMA NoCrlDefect ==
  ASSUME VfyInv(vfy), vfy.pc = "done", NEW e, NEW p, p = vfy.chain, CrlDefect(e, p, ctx)
  PROVE  e \in ctx.tolerate
  <1>1. PICK i \in MustHaveCrl(p, ctx) :
          \/ e = "ERR_VFY_KU_NO_CRLSIGN" /\ C(p[i + 1]).keyUsage \in {"none", "certSign"}
          \/ e = "ERR_VFY_CRL_NOT_FOUND" /\ CrlsInForce(p, i, ctx) = {}
          \/ \E r \in CrlsInForce(p, i, ctx) :
               \/ e = "ERR_PROCESS_CRITICALEXT" /\ R(r).critical
               \/ e = "ERR_VFY_CRLSIGN_FAIL" /\ R(r).sigKey # C(p[i + 1]).key
               \/ e = "ERR_VFY_CERT_REVOKED" /\ p[i] \in R(r).revoked
    BY DEF CrlDefect
  <1>2. CrlsOK(p, i)
    BY <1>1 DEF VfyInv, CheckedInv, CrlsDone
  <1>3. C(p[i + 1]).keyUsage \in {"none", "certSign"} => Ok("ERR_VFY_KU_NO_CRLSIGN")
    BY <1>2 DEF CrlsOK, SignsCrls, KeyUsageAllows
  <1>4. CrlsInForce(p, i, ctx) = {} => Ok("ERR_VFY_CRL_NOT_FOUND")
    BY <1>2 DEF CrlsOK
  <1>5. \A r \in CrlsInForce(p, i, ctx) : CrlOK(p, i, r)
    BY <1>2 DEF CrlsOK
  <1>6. QED
    BY <1>1, <1>3, <1>4, <1>5 DEF CrlOK, Ok

LEMMA DoneStep ==
  ASSUME IInv, Done, UNCHANGED scenario
  PROVE  IInv'
  <1>1. VfyInv(vfy) /\ CtxInv /\ vfy.pc = "done" /\ vfy' = Idle /\ UNCHANGED <<world, ctx>>
    BY UnderWay DEF Done, Ended
  <1>2. PICK p, s, peer : p = vfy.chain /\ s = ctx /\ peer = vfy.peer
    OBVIOUS
  <1>3. last'.chain = p /\ last'.ctx = s /\ last'.peer = peer
    BY <1>2 DEF Done, Ended
  <1>4. Defects(p, s) \subseteq s.tolerate
    BY <1>1, <1>2, NoPathDefect, NoCrlDefect DEF Defects
  <1>5. Defects(p, s)' \subseteq s.tolerate /\ Linked(p)'
    BY <1>1, <1>2, <1>4, SameDefects, SameWorld DEF VfyInv, ChainInv
  <1>6. Defects(last.chain, last.ctx)' \subseteq last'.ctx.tolerate /\ Linked(last.chain)'
    BY <1>3, <1>5
  <1>7. Known' = Known
    BY <1>1 DEF Known, Elements, CertIsCA, C
  <1>8. p[1] = peer[1] /\ \A i \in 2..Len(p) : p[i] \in Known \cup Elements(peer)
    BY <1>1, <1>2 DEF VfyInv, ChainInv
  <1>9. PICK root \in Known :
          /\ root = p[Len(p)] \/ (root = p[1] /\ CheckIssued(root, p[Len(p)]))
          /\ SelfSigned(root) \/ "PARTIAL_CHAIN" \in s.flags
    BY <1>1, <1>2 DEF VfyInv, BuildInv, Anchored
  <1>10. \E root1 \in Known' :
           /\ root1 = p[Len(p)] \/ (root1 = p[1] /\ CheckIssued(root1, p[Len(p)])')
           /\ SelfSigned(root1)' \/ "PARTIAL_CHAIN" \in s.flags
    BY <1>1, <1>7, <1>9, SameWorld
  <1>11. Sound'
    BY <1>3, <1>6, <1>7, <1>8, <1>10 DEF Sound, Elements, SelfSigned, CheckIssued, C
  <1>12. CtxInv'
    BY <1>1, <1>7 DEF CtxInv
  <1>13. QED
    BY <1>1, <1>11, <1>12 DEF IInv, In

-----------------------------------------------------------------------------
(* Between verifications.                                                  *)

LEMMA IsIdle ==
  ASSUME IInv, vfy.pc = "idle"
  PROVE  vfy = Idle
  BY DEF IInv, VfyInv, VfyType, Pcs

\* The application sets the store.
LEMMA Set ==
  ASSUME IInv, vfy.pc = "idle", UNCHANGED <<scenario, world, vfy, last>>,
         DOMAIN ctx' = CtxFields, ctx'.crl \in Seq(Crls), ctx'.maxDepth \in 0..MaxDepth, ctx.given \subseteq ctx'.given,
         ctx'.store \in Seq(Certs), \A i \in DOMAIN ctx'.store : ctx'.store[i] \in Known \cup ctx'.given
  PROVE  IInv'
  <1>1. vfy' = Idle
    BY IsIdle
  <1>2. Known \subseteq Known' /\ ctx'.given \subseteq Known'
    BY KnownGrows DEF Known
  <1>3. CtxInv'
    BY <1>2 DEF CtxInv
  <1>4. Sound'
    BY SoundKept DEF IInv
  <1>5. QED
    BY <1>1, <1>3, <1>4 DEF IInv, In

LEMMA CtrlStep ==
  ASSUME IInv, Ctrl, UNCHANGED scenario
  PROVE  IInv'
  <1>1. /\ DOMAIN ctx = CtxFields /\ ctx.store \in Seq(Certs) /\ ctx.crl \in Seq(Crls) /\ ctx.maxDepth \in 0..MaxDepth
        /\ \A i \in DOMAIN ctx.store : ctx.store[i] \in Known
    BY DEF IInv, CtxInv
  <1>2. In.crls \subseteq Crls /\ In.depths \subseteq 0..MaxDepth
    BY X509Assumption DEF IInv, In
  <1>3. ASSUME NEW c \in Certs, SetCA(c)
        PROVE  IInv'
    <2>1. PICK store : store = <<c>> \o ctx.store
      OBVIOUS
    <2>2. /\ store \in Seq(Certs) /\ Len(store) = 1 + Len(ctx.store)
          /\ \A i \in 1..Len(store) : store[i] = IF i = 1 THEN c ELSE ctx.store[i - 1]
      BY <1>1, <2>1
    <2>3. \A i \in DOMAIN store : store[i] \in Known \cup {c}
      BY <1>1, <2>2
    <2>4. /\ DOMAIN ctx' = CtxFields /\ ctx'.store = store /\ ctx'.given = ctx.given \cup {c}
          /\ ctx'.crl = ctx.crl /\ ctx'.maxDepth = ctx.maxDepth
      BY <1>1, <1>3, <2>1 DEF SetCA, CtxFields
    <2>5. QED
      BY <1>1, <1>3, <2>2, <2>3, <2>4, Set DEF SetCA, Settable
  <1>4. ASSUME NEW r \in In.crls, SetCRL(r)
        PROVE  IInv'
    <2>1. PICK crl : crl = <<r>> \o ctx.crl
      OBVIOUS
    <2>2. crl \in Seq(Crls)
      BY <1>1, <1>2, <2>1
    <2>3. /\ DOMAIN ctx' = CtxFields /\ ctx'.store = ctx.store /\ ctx'.given = ctx.given
          /\ ctx'.crl = crl /\ ctx'.maxDepth = ctx.maxDepth
      BY <1>1, <1>4, <2>1 DEF SetCRL, CtxFields
    <2>4. QED
      BY <1>1, <1>4, <2>2, <2>3, Set DEF SetCRL, Settable
  <1>5. ASSUME ClearCRL
        PROVE  IInv'
    <2>1. /\ DOMAIN ctx' = CtxFields /\ ctx'.store = ctx.store /\ ctx'.given = ctx.given
          /\ ctx'.crl = <<>> /\ ctx'.maxDepth = ctx.maxDepth
      BY <1>1, <1>5 DEF ClearCRL, CtxFields
    <2>2. QED
      BY <1>1, <1>5, <2>1, Set DEF ClearCRL, Settable
  <1>6. ASSUME SetParam
        PROVE  IInv'
    <2>1. PICK flags \in In.flags, tolerate \in In.tolerances, depth \in In.depths :
            ctx' = [ctx EXCEPT !.flags = flags, !.tolerate = tolerate, !.maxDepth = depth]
      BY <1>6 DEF SetParam
    <2>2. /\ DOMAIN ctx' = CtxFields /\ ctx'.store = ctx.store /\ ctx'.given = ctx.given
          /\ ctx'.crl = ctx.crl /\ ctx'.maxDepth \in 0..MaxDepth
      BY <1>1, <1>2, <2>1 DEF CtxFields
    <2>3. QED
      BY <1>1, <1>6, <2>2, Set DEF SetParam, Settable
  <1>7. QED
    BY <1>3, <1>4, <1>5, <1>6 DEF Ctrl

LEMMA BeginStep ==
  ASSUME IInv, NEW kind \in Kinds, NEW peer \in In.peers, Begin(kind, peer), UNCHANGED scenario
  PROVE  IInv'
  <1>1. SameSettings /\ CtxInv'
    <2>1. SameSettings /\ UNCHANGED ctx
      BY DEF Begin, SameSettings
    <2>2. QED
      BY <2>1, CtxKept DEF IInv, CtxInv
  <1>2. CASE kind = "build" /\ SelfSigned(peer[1])
    <2>1. vfy' = Idle /\ last'.kind = "build"
      BY <1>2 DEF Begin
    <2>2. QED
      BY <1>1, <2>1, EndsOtherwise
  <1>3. CASE ~(kind = "build" /\ SelfSigned(peer[1]))
    <2>1. PICK w, p : /\ p = <<peer[1]>> /\ w = vfy'
                      /\ w = [pc |-> "build", kind |-> kind, peer |-> peer, chain |-> p, find |-> MaxFindNum,
                              depth |-> 0, crlIdx |-> 0, crlRet |-> "SUCCESS", reported |-> {}]
                      /\ last' = None
      BY <1>3 DEF Begin
    <2>2. /\ DOMAIN w = VfyFields /\ w.pc = "build" /\ w.kind = kind /\ w.peer = peer /\ w.chain = p
          /\ w.find = MaxFindNum /\ w.depth = 0 /\ w.crlIdx = 0
      BY <2>1 DEF VfyFields
    <2>3. peer \in Seq(Certs) /\ peer # <<>> /\ MaxFindNum \in Nat
      BY X509Assumption DEF IInv, In
    <2>4. p \in Seq(Certs) /\ Len(p) = 1 /\ p[1] = peer[1]
      BY <2>1, <2>3
    <2>5. VfyType(w)
      BY <2>2, <2>3, <2>4 DEF VfyType, Pcs, IInv, CtxInv
    <2>6. ChainInv(w) /\ BuildInv(w)
      BY <2>2, <2>4 DEF ChainInv, BuildInv, Linked
    <2>7. /\ StrongDone(w) = {} /\ HashDone(w) = {} /\ ExtDone(w) = {} /\ UsageDone(w) = {} /\ CrlsDone(w) = {}
          /\ SignDone(w) = {}
      BY <2>2 DEF StrongDone, HashDone, ExtDone, UsageDone, CrlsDone, SignDone
    <2>8. CheckedInv(w)
      BY <2>2, <2>7 DEF CheckedInv, CrlLoop, HostOK
    <2>9. VfyInv(w)'
      BY <1>1, <2>5, <2>6, <2>8, Carry DEF VfyInv
    <2>10. VfyInv(vfy)'
      BY <2>1, <2>9
    <2>11. Sound'
      BY <2>1, NothingClaimed DEF None
    <2>12. QED
      BY <1>1, <2>10, <2>11 DEF IInv, SameSettings, In
  <1>4. QED
    BY <1>2, <1>3

LEMMA InitInv ==
  ASSUME Init
  PROVE  IInv
  <1>1. CtxInv
    BY X509Assumption DEF Init, StoreCtxNew, CtxInv, CtxFields
  <1>2. Sound
    BY DEF Init, None, Sound
  <1>3. QED
    BY <1>1, <1>2 DEF Init, IInv

LEMMA NextInv ==
  ASSUME IInv, [Next]_vars
  PROVE  IInv'
  <1>1. CASE UNCHANGED vars
    <2>1. SameSettings /\ UNCHANGED <<scenario, world, ctx, vfy, last>>
      BY <1>1 DEF vars, SameSettings
    <2>2. CtxInv'
      BY <2>1, CtxKept DEF IInv, CtxInv
    <2>3. Sound'
      BY <2>1, SoundKept DEF IInv
    <2>4. CASE vfy = Idle
      BY <2>1, <2>2, <2>3, <2>4 DEF IInv, In, Idle
    <2>5. CASE VfyInv(vfy)
      <3>1. PICK w : w = vfy
        OBVIOUS
      <3>2. w = vfy' /\ VfyInv(w)
        BY <2>1, <2>5, <3>1
      <3>3. QED
        BY <2>1, <2>2, <3>2, GoOn
    <2>6. QED
      BY <2>4, <2>5 DEF IInv
  <1>2. CASE Next
    <2>1. CASE Ctrl
      BY <1>2, <2>1, CtrlStep DEF Next
    <2>2. CASE Call
      BY <1>2, <2>2, BeginStep DEF Next, Call, Kinds
    <2>3. CASE Step
      BY <1>2, <2>3, BuildStep, SecBitsStep, HashStep, ExtStep, UsageStep, CheckCertCrlStep, ConsultStep, EndCrlStep,
         SignStep, HostStep, DoneStep DEF Next, Step
    <2>4. QED
      BY <1>2, <2>1, <2>2, <2>3 DEF Next
  <1>3. QED
    BY <1>1, <1>2

\* The invariant of the verification.
THEOREM InvTheorem == Spec => []IInv
  <1>1. Init => IInv
    BY InitInv
  <1>2. IInv /\ [Next]_vars => IInv'
    BY NextInv
  <1>3. QED
    BY <1>1, <1>2, PTL DEF Spec

\* A chain that HITLS_X509_CertVerify accepts leads from the peer's certificate to a certificate that the
\* application trusts, and has no defect that the application's callback did not accept: for any certificates,
\* CRLs and flags, whatever was verified on the store before.
THEOREM SoundTheorem == Spec => []Sound
  <1>1. IInv => Sound
    BY DEF IInv
  <1>2. QED
    BY <1>1, InvTheorem, PTL

-----------------------------------------------------------------------------
(* Termination.                                                            *)

LEMMA StageOf ==
  ASSUME NEW v, NEW i \in 1..9, Stages[i] = v.pc
  PROVE  Stage(v) = i
  <1>1. DOMAIN Stages = 1..9 /\ \A j \in 1..9 : Stages[j] = Stages[i] => j = i
    BY DEF Stages
  <1>2. Stage(v) \in 1..9 /\ Stages[Stage(v)] = v.pc
    BY <1>1, Zenon DEF Stage
  <1>3. QED
    BY <1>1, <1>2

LEMMA StageIs ==
  ASSUME NEW v
  PROVE  /\ v.pc = "build" => Stage(v) = 1
         /\ v.pc = "secbits" => Stage(v) = 2
         /\ v.pc = "hash" => Stage(v) = 3
         /\ v.pc = "ext" => Stage(v) = 4
         /\ v.pc = "usage" => Stage(v) = 5
         /\ v.pc = "crl" => Stage(v) = 6
         /\ v.pc = "sign" => Stage(v) = 7
         /\ v.pc = "host" => Stage(v) = 8
         /\ v.pc = "done" => Stage(v) = 9
  <1>1. /\ Stages[1] = "build" /\ Stages[2] = "secbits" /\ Stages[3] = "hash" /\ Stages[4] = "ext" /\ Stages[5] = "usage"
        /\ Stages[6] = "crl" /\ Stages[7] = "sign" /\ Stages[8] = "host" /\ Stages[9] = "done"
    BY DEF Stages
  <1>2. QED
    BY <1>1, StageOf

LEMMA RoundsAre ==
  ASSUME NEW v
  PROVE  /\ v.pc = "build" => RoundsLeft(v) = v.find
         /\ v.pc = "secbits" \/ v.pc = "hash" \/ v.pc = "ext" => RoundsLeft(v) = Len(v.chain) - v.depth
         /\ v.pc = "usage" \/ v.pc = "sign" => RoundsLeft(v) = v.depth
         /\ v.pc = "crl" => RoundsLeft(v) = (Len(v.chain) - v.depth) * (Len(ctx.crl) + 2) - v.crlIdx
  BY DEF RoundsLeft

\* w is nearer to the end than vfy.
Nearer(w) == Stage(w) > Stage(vfy) \/ (Stage(w) = Stage(vfy) /\ RoundsLeft(w) \in 0..(RoundsLeft(vfy) - 1))

\* The verification ends, or is where next is.
Goes(next) ==
  \/ vfy' = Idle
  \/ /\ vfy'.pc = next.pc /\ vfy'.chain = next.chain /\ vfy'.find = next.find
     /\ vfy'.depth = next.depth /\ vfy'.crlIdx = next.crlIdx

LEMMA DecideGoes ==
  ASSUME NEW checks, NEW next, Decide(checks, next), DOMAIN next = VfyFields
  PROVE  Goes(next)
  <1>1. CASE Passed(checks)
    <2>1. PICK e : vfy' = [next EXCEPT !.reported = e]
      BY <1>1 DEF Decide
    <2>2. QED
      BY <2>1 DEF Goes, VfyFields
  <1>2. CASE ~Passed(checks)
    BY <1>2 DEF Decide, Ended, Goes
  <1>3. QED
    BY <1>1, <1>2

LEMMA UpwardsNearer ==
  ASSUME VfyType(vfy), NEW pc, NEW from, Goes(Upwards(pc, from)),
         \/ vfy.pc = "secbits" /\ pc = "hash"
         \/ vfy.pc = "hash" /\ pc = "ext"
         \/ vfy.pc = "ext" /\ pc = "usage"
  PROVE  vfy' = Idle \/ Nearer(vfy')
  <1>1. PICK w, v : w = Upwards(pc, from) /\ v = vfy'
    OBVIOUS
  <1>2. DOMAIN vfy = VfyFields /\ Len(vfy.chain) \in Nat /\ vfy.depth \in 0..(Len(vfy.chain) - 1)
    BY DEF VfyType
  <1>3. SUFFICES ASSUME vfy' # Idle
                 PROVE  Nearer(v)
    BY <1>1
  <1>4. CASE vfy.depth + 1 < Len(vfy.chain)
    <2>1. v.pc = vfy.pc /\ v.chain = vfy.chain /\ v.depth = vfy.depth + 1
      BY <1>1, <1>2, <1>3, <1>4 DEF Goes, Upwards, Count, VfyFields
    <2>2. Stage(v) = Stage(vfy) /\ Stage(v) \in Nat /\ RoundsLeft(v) = RoundsLeft(vfy) - 1 /\ RoundsLeft(v) \in Nat
      BY <1>2, <1>4, <2>1, StageIs, RoundsAre, SMTT(30)
    <2>3. QED
      BY <2>2 DEF Nearer
  <1>5. CASE ~(vfy.depth + 1 < Len(vfy.chain))
    <2>1. v.pc = pc
      BY <1>1, <1>2, <1>3, <1>5 DEF Goes, Upwards, Count, VfyFields
    <2>2. Stage(v) > Stage(vfy)
      BY <2>1, StageIs
    <2>3. QED
      BY <2>2 DEF Nearer
  <1>6. QED
    BY <1>4, <1>5

\* A loop that goes down, and what comes after it.
LEMMA DownNearer ==
  ASSUME VfyType(vfy), NEW v,
         \/ /\ vfy.pc \in {"usage", "sign"} /\ v.pc = vfy.pc /\ v.depth = vfy.depth - 1 /\ vfy.depth > 0
         \/ vfy.pc = "usage" /\ v.pc \in {"crl", "sign"}
         \/ vfy.pc = "sign" /\ v.pc = "host"
         \/ vfy.pc = "host" /\ v.pc = "done"
         \/ vfy.pc = "crl" /\ v.pc = "sign"
         \/ vfy.pc = "build" /\ v.pc \in {"secbits", "ext"}
  PROVE  Nearer(v)
  <1>1. vfy.depth \in Nat
    BY DEF VfyType
  <1>2. QED
    BY <1>1, StageIs, RoundsAre DEF Nearer

LEMMA Product ==
  ASSUME NEW x \in Nat, NEW y \in Nat, x > 0
  PROVE  x * y = (x - 1) * y + y /\ (x - 1) * y \in Nat /\ x * y \in Nat
  OBVIOUS

\* The next CRL, and the next certificate after the last CRL.
LEMMA CrlNearer ==
  ASSUME VfyType(vfy), vfy.pc = "crl", Len(ctx.crl) \in Nat, NEW v, v.pc = "crl", v.chain = vfy.chain,
         \/ v.depth = vfy.depth /\ v.crlIdx = vfy.crlIdx + 1 /\ vfy.crlIdx <= Len(ctx.crl)
         \/ v.depth = vfy.depth + 1 /\ vfy.crlIdx = Len(ctx.crl) + 1 /\ v.crlIdx = 0
  PROVE  Nearer(v)
  <1>1. PICK n, d, k, c : n = Len(vfy.chain) /\ d = vfy.depth /\ k = Len(ctx.crl) /\ c = vfy.crlIdx
    OBVIOUS
  <1>2. n \in Nat /\ d \in Nat /\ k \in Nat /\ c \in Nat /\ d + 1 < n /\ c <= k + 1
    BY <1>1 DEF VfyType
  <1>3. PICK x \in Nat, y \in Nat : x = n - d /\ y = k + 2 /\ x > 0
    BY <1>2
  <1>4. RoundsLeft(vfy) = x * y - c /\ Stage(vfy) = 6 /\ Stage(v) = 6
    BY <1>1, <1>3, StageIs, RoundsAre
  <1>5. RoundsLeft(v) = (n - v.depth) * y - v.crlIdx
    BY <1>1, <1>3, RoundsAre
  <1>6. x * y = (x - 1) * y + y /\ (x - 1) * y \in Nat /\ x * y \in Nat
    BY <1>3, Product
  <1>7. PICK a \in Nat, b \in Nat : a = x * y /\ b = (x - 1) * y
    BY <1>6
  <1>8. CASE v.depth = d /\ v.crlIdx = c + 1 /\ c <= k
    <2>1. RoundsLeft(v) = a - (c + 1) /\ RoundsLeft(vfy) = a - c
      BY <1>3, <1>4, <1>5, <1>7, <1>8
    <2>2. a = b + (k + 2)
      BY <1>3, <1>6, <1>7
    <2>3. QED
      BY <1>2, <1>4, <1>8, <2>1, <2>2 DEF Nearer
  <1>9. CASE v.depth = d + 1 /\ c = k + 1 /\ v.crlIdx = 0
    <2>1. n - v.depth = x - 1
      BY <1>2, <1>3, <1>9
    <2>2. RoundsLeft(v) = b /\ RoundsLeft(vfy) = a - c
      BY <1>4, <1>5, <1>7, <1>9, <2>1
    <2>3. a = b + (k + 2)
      BY <1>3, <1>6, <1>7
    <2>4. QED
      BY <1>2, <1>4, <1>9, <2>2, <2>3 DEF Nearer
  <1>10. QED
    BY <1>1, <1>8, <1>9

LEMMA LoopsNearer ==
  ASSUME VfyType(vfy), SecBitsCheck \/ HashAlgSecBitsCheck \/ CheckCertExt
  PROVE  vfy' = Idle \/ Nearer(vfy')
  <1>1. DOMAIN Upwards("hash", 0) = VfyFields /\ DOMAIN Upwards("ext", 0) = VfyFields
        /\ DOMAIN Upwards("usage", Count - 1) = VfyFields
    BY DEF VfyType, Upwards
  <1>2. CASE SecBitsCheck
    <2>1. vfy.pc = "secbits" /\ Goes(Upwards("hash", 0))
      BY <1>1, <1>2, DecideGoes DEF SecBitsCheck
    <2>2. QED
      BY <2>1, UpwardsNearer
  <1>3. CASE HashAlgSecBitsCheck
    <2>1. vfy.pc = "hash" /\ Goes(Upwards("ext", 0))
      BY <1>1, <1>3, DecideGoes DEF HashAlgSecBitsCheck
    <2>2. QED
      BY <2>1, UpwardsNearer
  <1>4. CASE CheckCertExt
    <2>1. vfy.pc = "ext" /\ Goes(Upwards("usage", Count - 1))
      <3>1. CASE Unasked
        BY <1>4, <3>1, ExtWays DEF Unasked, Ended, Goes
      <3>2. QED
        BY <1>1, <1>4, <3>1, ExtWays, DecideGoes
    <2>2. QED
      BY <2>1, UpwardsNearer
  <1>5. QED
    BY <1>2, <1>3, <1>4

LEMMA UsageNearer ==
  ASSUME VfyType(vfy), CheckExt
  PROVE  vfy' = Idle \/ Nearer(vfy')
  <1>1. PICK next, v : next = (IF vfy.depth > 0 THEN [vfy EXCEPT !.depth = @ - 1] ELSE StartCrl) /\ v = vfy'
    OBVIOUS
  <1>2. /\ DOMAIN next = VfyFields
        /\ (next.pc = "usage" /\ next.depth = vfy.depth - 1 /\ vfy.depth > 0) \/ next.pc \in {"crl", "sign"}
    BY <1>1 DEF VfyType, VfyFields, StartCrl, StartSign, CheckExt
  <1>3. vfy.pc = "usage" /\ Goes(next)
    BY <1>1, <1>2, DecideGoes DEF CheckExt
  <1>4. v = Idle \/ (v.pc = next.pc /\ v.depth = next.depth)
    BY <1>1, <1>3 DEF Goes
  <1>5. v = Idle \/ Nearer(v)
    BY <1>2, <1>3, <1>4, DownNearer
  <1>6. QED
    BY <1>1, <1>5

LEMMA SignNearer ==
  ASSUME VfyType(vfy), VerifyChainCert \/ CheckHost
  PROVE  vfy' = Idle \/ Nearer(vfy')
  <1>1. CASE VerifyChainCert
    <2>1. PICK next, v : /\ next = (IF vfy.depth > 0 THEN [vfy EXCEPT !.depth = @ - 1] ELSE [vfy EXCEPT !.pc = "host"])
                         /\ v = vfy'
      OBVIOUS
    <2>2. /\ DOMAIN next = VfyFields
          /\ (next.pc = "sign" /\ next.depth = vfy.depth - 1 /\ vfy.depth > 0) \/ next.pc = "host"
      BY <1>1, <2>1 DEF VfyType, VfyFields, VerifyChainCert
    <2>3. vfy.pc = "sign" /\ Goes(next)
      BY <1>1, <2>1, <2>2, DecideGoes DEF VerifyChainCert
    <2>4. v = Idle \/ (v.pc = next.pc /\ v.depth = next.depth)
      BY <2>1, <2>3 DEF Goes
    <2>5. v = Idle \/ Nearer(v)
      BY <2>2, <2>3, <2>4, DownNearer
    <2>6. QED
      BY <2>1, <2>5
  <1>2. CASE CheckHost
    <2>1. PICK next, v : next = [vfy EXCEPT !.pc = "done"] /\ v = vfy'
      OBVIOUS
    <2>2. DOMAIN next = VfyFields /\ next.pc = "done"
      BY <2>1 DEF VfyType, VfyFields
    <2>3. vfy.pc = "host" /\ Goes(next)
      BY <1>2, <2>1, <2>2, DecideGoes DEF CheckHost
    <2>4. v = Idle \/ v.pc = "done"
      BY <2>1, <2>2, <2>3 DEF Goes
    <2>5. v = Idle \/ Nearer(v)
      BY <2>3, <2>4, DownNearer
    <2>6. QED
      BY <2>1, <2>5
  <1>3. QED
    BY <1>1, <1>2

LEMMA CrlsNearer ==
  ASSUME VfyType(vfy), Len(ctx.crl) \in Nat, CheckCertCrl \/ ConsultCrl \/ EndCrl
  PROVE  vfy' = Idle \/ Nearer(vfy')
  <1>1. DOMAIN vfy = VfyFields /\ vfy.pc = "crl"
    BY DEF VfyType, CheckCertCrl, ConsultCrl, EndCrl
  <1>2. PICK v : v = vfy'
    OBVIOUS
  <1>3. CASE CheckCertCrl
    <2>1. PICK next : next = [vfy EXCEPT !.crlIdx = 1, !.crlRet = "ERR_VFY_CRL_NOT_FOUND"]
      OBVIOUS
    <2>2. DOMAIN next = VfyFields /\ next.pc = "crl" /\ next.chain = vfy.chain /\ next.depth = vfy.depth /\ next.crlIdx = 1
      BY <1>1, <2>1 DEF VfyFields
    <2>3. vfy.crlIdx = 0 /\ Goes(next)
      BY <1>3, <2>1, <2>2, DecideGoes DEF CheckCertCrl
    <2>4. v = Idle \/ (v.pc = "crl" /\ v.chain = vfy.chain /\ v.depth = vfy.depth /\ v.crlIdx = vfy.crlIdx + 1)
      BY <1>2, <2>2, <2>3 DEF Goes
    <2>5. QED
      BY <1>1, <1>2, <2>3, <2>4, CrlNearer
  <1>4. CASE ConsultCrl
    <2>1. PICK next : next = [vfy EXCEPT !.crlIdx = @ + 1]
      OBVIOUS
    <2>2. DOMAIN next = VfyFields /\ next.pc = "crl" /\ next.chain = vfy.chain /\ next.depth = vfy.depth /\ next.crlIdx = vfy.crlIdx + 1
      BY <1>1, <2>1 DEF VfyFields
    <2>3. \/ v = next
          \/ \E errs : v = [next EXCEPT !.reported = errs]
          \/ \E checks, ret : Decide(checks, [next EXCEPT !.crlRet = ret])
      BY <1>2, <1>4, <2>1, Zenon DEF ConsultCrl
    <2>4. vfy.crlIdx <= Len(ctx.crl)
      BY <1>4 DEF ConsultCrl
    <2>5. v = Idle \/ (v.pc = "crl" /\ v.chain = vfy.chain /\ v.depth = vfy.depth /\ v.crlIdx = vfy.crlIdx + 1)
      <3>1. CASE v = next
        BY <2>2, <3>1
      <3>2. CASE \E errs : v = [next EXCEPT !.reported = errs]
        BY <2>2, <3>2 DEF VfyFields
      <3>3. CASE \E checks, ret : Decide(checks, [next EXCEPT !.crlRet = ret])
        <4>1. PICK checks, ret, next1 : Decide(checks, next1) /\ next1 = [next EXCEPT !.crlRet = ret]
          BY <3>3
        <4>2. /\ DOMAIN next1 = VfyFields /\ next1.pc = "crl" /\ next1.chain = vfy.chain /\ next1.depth = vfy.depth
              /\ next1.crlIdx = vfy.crlIdx + 1
          BY <2>2, <4>1 DEF VfyFields
        <4>3. Goes(next1)
          BY <4>1, <4>2, DecideGoes
        <4>4. QED
          BY <1>2, <4>2, <4>3 DEF Goes
      <3>4. QED
        BY <2>3, <3>1, <3>2, <3>3
    <2>6. QED
      BY <1>1, <1>2, <2>4, <2>5, CrlNearer
  <1>5. CASE EndCrl
    <2>1. PICK next : next = IF "CRL_ALL" \in ctx.flags /\ vfy.depth + 2 < Count
                             THEN [vfy EXCEPT !.depth = @ + 1, !.crlIdx = 0] ELSE StartSign
      OBVIOUS
    <2>2. /\ DOMAIN next = VfyFields
          /\ \/ next.pc = "crl" /\ next.chain = vfy.chain /\ next.depth = vfy.depth + 1 /\ next.crlIdx = 0
             \/ next.pc = "sign"
      BY <1>1, <2>1 DEF VfyFields, StartSign
    <2>3. vfy.crlIdx = Len(ctx.crl) + 1 /\ Goes(next)
      BY <1>5, <2>1, <2>2, DecideGoes DEF EndCrl
    <2>4. \/ v = Idle \/ v.pc = "sign"
          \/ v.pc = "crl" /\ v.chain = vfy.chain /\ v.depth = vfy.depth + 1 /\ v.crlIdx = 0
      BY <1>2, <2>2, <2>3 DEF Goes
    <2>5. v.pc = "sign" => Nearer(v)
      BY <1>1, DownNearer
    <2>6. v.pc = "crl" /\ v.chain = vfy.chain /\ v.depth = vfy.depth + 1 /\ v.crlIdx = 0 => Nearer(v)
      BY <1>1, <2>3, CrlNearer
    <2>7. QED
      BY <1>2, <2>4, <2>5, <2>6
  <1>6. QED
    BY <1>3, <1>4, <1>5

LEMMA BuildNearer ==
  ASSUME VfyType(vfy), BuildChain
  PROVE  vfy' = Idle \/ Nearer(vfy')
  <1>1. DOMAIN vfy = VfyFields /\ vfy.pc = "build" /\ vfy.find \in Nat
    BY DEF VfyType, BuildChain
  <1>2. PICK v : v = vfy'
    OBVIOUS
  <1>3. ASSUME NEW ret, NEW root, Built(ret, root)
        PROVE  v = Idle \/ v.pc \in {"secbits", "ext"}
    <2>1. \/ v = Idle
          \/ \E q : v = [vfy EXCEPT !.pc = IF "SECBITS" \in ctx.flags THEN "secbits" ELSE "ext", !.chain = q]
      BY <1>2, <1>3, Zenon DEF Built, Ended
    <2>2. QED
      BY <1>1, <2>1 DEF VfyFields
  <1>4. \/ \E ret, root : Built(ret, root)
        \/ v = Idle
        \/ vfy.find # 0 /\ \E c, errs : v = [vfy EXCEPT !.chain = Append(@, c), !.find = @ - 1, !.reported = errs]
    <2>1. PICK f, depth : /\ f = FindIssueCert(vfy.chain[Len(vfy.chain)])
                          /\ depth = <<Check(Len(vfy.chain) + 1 > ctx.maxDepth, "ERR_CHAIN_DEPTH_UP_LIMIT")>>
      OBVIOUS
    <2>2. \/ Built("SUCCESS", NoCert) \/ Built("ERR_ISSUE_CERT_NOT_FOUND", NoCert)
          \/ Ended("SUCCESS", Record(depth), vfy.reported)
          \/ Ended(Ret(depth), Record(depth), vfy.reported \cup Errors(depth))
          \/ Built("SUCCESS", IF f.isTrustCa THEN f.issue ELSE NoCert)
          \/ /\ vfy.find # 0
             /\ vfy' = [vfy EXCEPT !.chain = Append(@, f.issue), !.find = @ - 1, !.reported = @ \cup Errors(depth)]
      BY <2>1, Zenon DEF BuildChain
    <2>3. PICK errs : errs = vfy.reported \cup Errors(depth)
      OBVIOUS
    <2>4. \A ret, e, er : Ended(ret, e, er) => v = Idle
      BY <1>2 DEF Ended
    <2>5. vfy' = [vfy EXCEPT !.chain = Append(@, f.issue), !.find = @ - 1, !.reported = @ \cup Errors(depth)]
          => \E c, er : v = [vfy EXCEPT !.chain = Append(@, c), !.find = @ - 1, !.reported = er]
      BY <1>2, Zenon
    <2>6. QED
      BY <2>2, <2>4, <2>5, Zenon
  <1>5. ASSUME vfy.find # 0, \E c, errs : v = [vfy EXCEPT !.chain = Append(@, c), !.find = @ - 1, !.reported = errs]
        PROVE  Nearer(v)
    <2>1. v.pc = "build" /\ v.find = vfy.find - 1
      BY <1>1, <1>5 DEF VfyFields
    <2>2. Stage(v) = 1 /\ Stage(vfy) = 1
      BY <1>1, <2>1, StageIs
    <2>3. RoundsLeft(v) = vfy.find - 1 /\ RoundsLeft(vfy) = vfy.find
      BY <1>1, <2>1, RoundsAre
    <2>4. QED
      BY <1>1, <1>5, <2>2, <2>3 DEF Nearer
  <1>6. v.pc \in {"secbits", "ext"} => Nearer(v)
    BY <1>1, DownNearer
  <1>7. QED
    BY <1>2, <1>3, <1>4, <1>5, <1>6

\* Every step brings a verification nearer to its end, however the certificates issue each other.
THEOREM TerminatesTheorem == Spec => Terminates
  <1> DEFINE Down == vfy.pc # "idle" =>
                       \/ vfy'.pc = "idle"
                       \/ Stage(vfy') > Stage(vfy)
                       \/ Stage(vfy') = Stage(vfy) /\ RoundsLeft(vfy') \in 0..(RoundsLeft(vfy) - 1)
  <1>1. IInv /\ [Next]_vars => [Down]_vars
    <2>1. SUFFICES ASSUME IInv, Next, vfy.pc # "idle"
                   PROVE  vfy' = Idle \/ Nearer(vfy')
      BY DEF Nearer, Idle
    <2>2. VfyType(vfy) /\ Len(ctx.crl) \in Nat
      BY <2>1, UnderWay DEF CtxInv
    <2>3. Step
      BY <2>1 DEF Next, Ctrl, Call, SetCA, SetCRL, ClearCRL, SetParam, Settable, Begin
    <2>4. CASE Done
      BY <2>4 DEF Done, Ended
    <2>5. QED
      BY <2>2, <2>3, <2>4, BuildNearer, LoopsNearer, UsageNearer, CrlsNearer, SignNearer DEF Step
  <1>2. QED
    BY <1>1, InvTheorem, PTL DEF Spec, Terminates

-----------------------------------------------------------------------------
(* The store.                                                              *)

\* The store holds CAs, none of them twice.
StoreInv ==
  /\ \A c \in Elements(ctx.store) : CertIsCA(c)
  /\ \A i, j \in DOMAIN ctx.store : ctx.store[i] = ctx.store[j] => i = j

\* A step adds at most one CA to the store, in front, that it does not hold.
Adds(store) == store = ctx.store \/ \E c : store = <<c>> \o ctx.store /\ CertIsCA(c) /\ ~Stored(c)

LEMMA FindAdds ==
  ASSUME world.files \in Seq(Certs), NEW cert
  PROVE  Adds(FindIssueCert(cert).store)
  <1> DEFINE loaded == GetCertBySubject(cert)
             found == {i \in DOMAIN world.files : CheckIssued(world.files[i], cert) /\ CertIsCA(world.files[i])}
  <1>1. PICK f : f = FindIssueCert(cert)
    OBVIOUS
  <1>2. loaded # NoCert => CertIsCA(loaded)
    <2>1. loaded # NoCert => found # {} /\ loaded = world.files[Min(found)]
      BY Zenon DEF GetCertBySubject
    <2>2. found \in SUBSET Nat
      BY SMT
    <2>3. found # {} => Min(found) \in found
      BY <2>2, MinIn
    <2>4. QED
      BY <2>1, <2>3
  <1> HIDE DEF loaded, found
  <1>3. \/ f.store = ctx.store
        \/ loaded # NoCert /\ ~Stored(loaded) /\ f.store = <<loaded>> \o ctx.store
    BY <1>1 DEF FindIssueCert, loaded
  <1>4. QED
    BY <1>1, <1>2, <1>3 DEF Adds

LEMMA StepAdds ==
  ASSUME IInv, [Next]_vars
  PROVE  Adds(ctx'.store) /\ world' = world
  <1> USE DEF Adds
  <1>1. DOMAIN ctx = CtxFields /\ world.files \in Seq(Certs)
    BY Files DEF IInv, CtxInv
  <1>2. ASSUME NEW checks, NEW next, Decide(checks, next)
        PROVE  ctx'.store = ctx.store /\ world' = world
    BY <1>1, <1>2 DEF Decide, CtxFields
  <1>3. CASE BuildChain
    <2>1. PICK f : f = FindIssueCert(vfy.chain[Len(vfy.chain)])
      OBVIOUS
    <2>2. UNCHANGED ctx \/ \E e : ctx' = [ctx EXCEPT !.store = f.store, !.error = e]
      BY <1>3, <2>1, Zenon DEF BuildChain
    <2>3. ctx'.store = ctx.store \/ ctx'.store = f.store
      BY <1>1, <2>2 DEF CtxFields
    <2>4. Adds(f.store)
      BY <1>1, <2>1, FindAdds
    <2>5. QED
      BY <1>3, <2>3, <2>4 DEF BuildChain
  <1>4. CASE Ctrl
    BY <1>1, <1>4 DEF Ctrl, SetCA, SetCRL, ClearCRL, SetParam, CtxFields
  <1>5. CASE Call \/ Done
    BY <1>5 DEF Call, Begin, Done
  <1>6. CASE ConsultCrl
    <2>1. \/ UNCHANGED <<world, ctx>>
          \/ world' = world /\ \E e : ctx' = [ctx EXCEPT !.error = e]
          \/ \E checks, next : Decide(checks, next)
      BY <1>6, Zenon DEF ConsultCrl
    <2>2. QED
      BY <1>1, <1>2, <2>1 DEF CtxFields
  <1>7. CASE SecBitsCheck \/ HashAlgSecBitsCheck \/ CheckCertExt \/ CheckExt
    <2>1. (\E checks, next : Decide(checks, next)) \/ UNCHANGED <<world, ctx>>
      BY <1>7, ExtWays, Zenon DEF SecBitsCheck, HashAlgSecBitsCheck, CheckExt, Unasked
    <2>2. QED
      BY <1>2, <2>1
  <1>8. CASE CheckCertCrl \/ EndCrl \/ VerifyChainCert \/ CheckHost
    <2>1. \E checks, next : Decide(checks, next)
      BY <1>8, Zenon DEF CheckCertCrl, EndCrl, VerifyChainCert, CheckHost
    <2>2. QED
      BY <1>2, <2>1
  <1>9. CASE UNCHANGED vars
    BY <1>9 DEF vars
  <1>10. QED
    BY <1>3, <1>4, <1>5, <1>6, <1>7, <1>8, <1>9 DEF Next, Step

LEMMA StoreStep ==
  ASSUME IInv, StoreInv, [Next]_vars
  PROVE  StoreInv'
  <1>1. Adds(ctx'.store) /\ world' = world /\ ctx.store \in Seq(Certs) /\ ctx'.store \in Seq(Certs)
    BY StepAdds, NextInv DEF IInv, CtxInv
  <1>2. PICK s, t : s = ctx.store /\ t = ctx'.store
    OBVIOUS
  <1>3. \A c : CertIsCA(c)' <=> CertIsCA(c)
    BY <1>1, SameWorld
  <1>4. /\ \A i \in DOMAIN s : CertIsCA(s[i])
        /\ \A i, j \in DOMAIN s : s[i] = s[j] => i = j
    BY <1>2 DEF StoreInv, Elements
  <1>5. /\ \A i \in DOMAIN t : CertIsCA(t[i])
        /\ \A i, j \in DOMAIN t : t[i] = t[j] => i = j
    <2>1. CASE t = s
      BY <1>4, <2>1
    <2>2. ASSUME NEW c, t = <<c>> \o s, CertIsCA(c), ~Stored(c)
          PROVE  /\ \A i \in DOMAIN t : CertIsCA(t[i])
                 /\ \A i, j \in DOMAIN t : t[i] = t[j] => i = j
      <3>1. s \in Seq(Certs) /\ Len(s) \in Nat /\ DOMAIN s = 1..Len(s)
        BY <1>1, <1>2
      <3>2. /\ DOMAIN t = 1..(Len(s) + 1) /\ t[1] = c
            /\ \A i \in 2..(Len(s) + 1) : t[i] = s[i - 1] /\ i - 1 \in DOMAIN s
        BY <2>2, <3>1
      <3>3. \A i \in DOMAIN s : s[i] # c
        BY <1>2, <2>2 DEF Stored
      <3>4. \A i \in DOMAIN t : i = 1 \/ i \in 2..(Len(s) + 1)
        BY <3>1, <3>2
      <3>5. QED
        BY <1>4, <2>2, <3>1, <3>2, <3>3, <3>4
    <2>3. QED
      BY <1>1, <1>2, <2>1, <2>2 DEF Adds
  <1>6. QED
    BY <1>2, <1>3, <1>5 DEF StoreInv, Elements

\* The store holds CAs, none of them twice; a verification keeps a chain from the peer's certificate and a depth
\* within it.
THEOREM TypeTheorem == Spec => []TypeOK
  <1>1. Init => StoreInv
    BY DEF Init, StoreCtxNew, StoreInv, Elements
  <1>2. IInv /\ StoreInv /\ [Next]_vars => StoreInv'
    BY StoreStep
  <1>3. IInv /\ StoreInv => TypeOK
    <2>1. SUFFICES ASSUME IInv, StoreInv
                   PROVE  TypeOK
      OBVIOUS
    <2>2. Elements(ctx.store) \subseteq Certs /\ Elements(ctx.crl) \subseteq Crls
      BY <2>1 DEF IInv, CtxInv, Elements
    <2>3. vfy.pc # "idle" =>
            /\ vfy.chain \in Seq(Certs) /\ vfy.chain[1] = vfy.peer[1]
            /\ vfy.depth \in 0..(Count - 1) /\ vfy.crlIdx \in 0..(Len(ctx.crl) + 1)
            /\ vfy.pc = "crl" => vfy.depth + 1 < Count
      BY <2>1, UnderWay DEF VfyInv, VfyType, ChainInv, Count
    <2>4. QED
      BY <2>1, <2>2, <2>3 DEF StoreInv, TypeOK
  <1>4. QED
    BY <1>1, <1>2, <1>3, InvTheorem, PTL DEF Spec

-----------------------------------------------------------------------------
(* Completeness: the chain follows a path without defects, if there is one. *)

\* p is a path without defects for the verification v.
Asked(v, p) ==
  /\ v.kind = "verify" /\ ctx.tolerate = {} /\ Unambiguous
  /\ p \in Seq(Certs) /\ Len(p) >= 1 /\ IsPath(p, v.peer, ctx) /\ Defects(p, ctx) = {}

\* The chain of v goes along p.
Along(v, p) ==
  /\ Len(v.chain) <= Len(p) /\ \A i \in 1..Len(v.chain) : v.chain[i] = p[i]
  /\ v.pc = "build" =>
       /\ v.find + Len(v.chain) = MaxFindNum + 1
       /\ Len(v.chain) < Len(p) \/ Len(p) = 1
       /\ Len(v.chain) > 1 => ~SelfSigned(p[1])
  /\ v.pc # "build" => ("PARTIAL_CHAIN" \in ctx.flags /\ Len(v.chain) > 1) \/ SelfSigned(p[Len(v.chain)])
  /\ v.pc \in {"secbits", "hash"} => "SECBITS" \in ctx.flags
  /\ v.pc = "crl" /\ v.crlIdx > 0 => (Consulted(v) # {} => v.crlRet = "SUCCESS")

CompInv == vfy # Idle => \A p \in Seq(Certs) : Asked(vfy, p) => Along(vfy, p)

\* What it means that the path p has no defect.
CleanPath(p) ==
  LET n == Len(p) IN
  /\ "SECBITS" \in ctx.flags => \A i \in 1..n : C(p[i]).strong /\ (i < n => C(p[i]).strongHash)
  /\ \A i \in 1..n : ~(C(p[i]).v3 /\ C(p[i]).critical)
  /\ \A i \in 1..n : ~(~C(p[i]).v3 /\ C(p[i]).hasExt) /\ FitsKey(p[i])
  /\ n > 1 => ~(C(p[n]).v3 /\ ~C(p[n]).ca)
  /\ \A i \in 2..n : i # n => C(p[i]).v3 /\ C(p[i]).ca
  /\ \A i \in 2..n : C(p[i]).keyUsage \notin {"none", "crlSign"}
  /\ \A i \in 2..n : ~(C(p[i]).ca /\ C(p[i]).pathLen # NoLimit /\ Cardinality(2..(i - 1)) > C(p[i]).pathLen)
  /\ C(p[1]).fits
  /\ Timed => \A i \in 1..n : C(p[i]).valid
  /\ \A i \in 1..(n - 1) : C(p[i]).sigKey = C(p[i + 1]).key
  /\ SelfSigned(p[n]) => C(p[n]).sigKey = C(p[n]).key
  /\ "HOST" \in ctx.flags => C(p[1]).named
  /\ ~((IF n = 1 THEN 2 ELSE n) > ctx.maxDepth)

CleanCrls(p) ==
  \A i \in MustHaveCrl(p, ctx) :
    /\ C(p[i + 1]).keyUsage \notin {"none", "certSign"}
    /\ CrlsInForce(p, i, ctx) # {}
    /\ \A r \in CrlsInForce(p, i, ctx) : ~R(r).critical /\ R(r).sigKey = C(p[i + 1]).key /\ p[i] \notin R(r).revoked

LEMMA Clean ==
  ASSUME NEW p, Defects(p, ctx) = {}
  PROVE  CleanPath(p) /\ CleanCrls(p)
  <1>1. \A e \in DefectNames : ~PathDefect(e, p, ctx) /\ ~CrlDefect(e, p, ctx)
    BY DEF Defects
  <1>2. /\ ~PathDefect("ERR_VFY_EXTENSIONS_REQUIRE_V3", p, ctx) /\ ~PathDefect("ERR_EXT_KU", p, ctx)
        /\ ~PathDefect("ERR_VFY_CHECK_SECBITS", p, ctx) /\ ~PathDefect("ERR_PROCESS_CRITICALEXT", p, ctx)
        /\ ~PathDefect("ERR_VFY_INVALID_CA", p, ctx) /\ ~PathDefect("ERR_VFY_INTERCA_INVALID_VERSION", p, ctx)
        /\ ~PathDefect("ERR_VFY_INTERCA_INVALID_BCONS", p, ctx) /\ ~PathDefect("ERR_VFY_KU_NO_CERTSIGN", p, ctx)
        /\ ~PathDefect("ERR_VFY_PATHLEN_EXCEEDED", p, ctx) /\ ~PathDefect("ERR_VFY_PURPOSE_UNMATCH", p, ctx)
        /\ ~PathDefect("ERR_VFY_NOTAFTER_EXPIRED", p, ctx) /\ ~PathDefect("ERR_VFY_CERT_SIGN_FAIL", p, ctx)
        /\ ~PathDefect("ERR_VFY_HOSTNAME_FAIL", p, ctx) /\ ~PathDefect("ERR_CHAIN_DEPTH_UP_LIMIT", p, ctx)
    BY <1>1 DEF DefectNames
  <1>3. /\ ~CrlDefect("ERR_VFY_KU_NO_CRLSIGN", p, ctx) /\ ~CrlDefect("ERR_VFY_CRL_NOT_FOUND", p, ctx)
        /\ ~CrlDefect("ERR_PROCESS_CRITICALEXT", p, ctx) /\ ~CrlDefect("ERR_VFY_CRLSIGN_FAIL", p, ctx)
        /\ ~CrlDefect("ERR_VFY_CERT_REVOKED", p, ctx)
    BY <1>1 DEF DefectNames
  <1> DEFINE n == Len(p)
  <1>4. /\ "SECBITS" \in ctx.flags => \A i \in 1..n : C(p[i]).strong /\ (i < n => C(p[i]).strongHash)
        /\ \A i \in 1..n : ~(C(p[i]).v3 /\ C(p[i]).critical)
        /\ n > 1 => ~(C(p[n]).v3 /\ ~C(p[n]).ca)
    BY <1>2 DEF PathDefect
  <1>4a. \A i \in 1..n : ~(~C(p[i]).v3 /\ C(p[i]).hasExt) /\ FitsKey(p[i])
    BY <1>2 DEF PathDefect, FitsKey
  <1>5. /\ \A i \in 2..n : i # n => C(p[i]).v3 /\ C(p[i]).ca
        /\ \A i \in 2..n : C(p[i]).keyUsage \notin {"none", "crlSign"}
    BY <1>2 DEF PathDefect
  <1>6. \A i \in 2..n : ~(C(p[i]).ca /\ C(p[i]).pathLen # NoLimit /\ Cardinality(2..(i - 1)) > C(p[i]).pathLen)
    BY <1>2 DEF PathDefect
  <1>7. C(p[1]).fits /\ (Timed => \A i \in 1..n : C(p[i]).valid)
    BY <1>2 DEF PathDefect, Timed
  <1>8. /\ \A i \in 1..(n - 1) : C(p[i]).sigKey = C(p[i + 1]).key
        /\ SelfSigned(p[n]) => C(p[n]).sigKey = C(p[n]).key
    BY <1>2 DEF PathDefect
  <1>9. ("HOST" \in ctx.flags => C(p[1]).named) /\ ~((IF n = 1 THEN 2 ELSE n) > ctx.maxDepth)
    BY <1>2 DEF PathDefect
  <1>10. CleanPath(p)
    BY <1>4, <1>4a, <1>5, <1>6, <1>7, <1>8, <1>9 DEF CleanPath
  <1>11. CleanCrls(p)
    <2>1. SUFFICES ASSUME NEW i \in MustHaveCrl(p, ctx)
                   PROVE  /\ C(p[i + 1]).keyUsage \notin {"none", "certSign"}
                          /\ CrlsInForce(p, i, ctx) # {}
                          /\ \A r \in CrlsInForce(p, i, ctx) :
                               ~R(r).critical /\ R(r).sigKey = C(p[i + 1]).key /\ p[i] \notin R(r).revoked
      BY DEF CleanCrls
    <2>2. C(p[i + 1]).keyUsage \notin {"none", "certSign"} /\ CrlsInForce(p, i, ctx) # {}
      BY <1>3 DEF CrlDefect
    <2>3. \A r \in CrlsInForce(p, i, ctx) : ~R(r).critical
      BY <1>3 DEF CrlDefect
    <2>4. \A r \in CrlsInForce(p, i, ctx) : R(r).sigKey = C(p[i + 1]).key /\ p[i] \notin R(r).revoked
      BY <1>3 DEF CrlDefect
    <2>5. QED
      BY <2>2, <2>3, <2>4
  <1>12. QED
    BY <1>10, <1>11

\* Checks of which none fails.
LEMMA PassIf ==
  ASSUME NEW a, NEW b, NEW c, ~a.failed
  PROVE  /\ Passed(<<a>>)
         /\ ~b.failed => Passed(<<a, b>>)
         /\ ~b.failed /\ ~c.failed => Passed(<<a, b, c>>)
  BY DEF Passed, Refused

LEMMA ConcatPasses ==
  ASSUME NEW S, NEW s \in Seq(S), NEW t \in Seq(S), Passed(s), Passed(t)
  PROVE  Passed(s \o t)
  <1> DEFINE st == s \o t
  <1>1. /\ Len(s) \in Nat /\ Len(t) \in Nat /\ DOMAIN s = 1..Len(s) /\ DOMAIN t = 1..Len(t)
        /\ DOMAIN st = 1..(Len(s) + Len(t))
        /\ \A i \in 1..Len(s) : st[i] = s[i]
        /\ \A i \in 1..Len(t) : st[Len(s) + i] = t[i]
    BY SMT
  <1>2. /\ \A i \in DOMAIN s : s[i].failed => s[i].err \in ctx.tolerate
        /\ \A i \in DOMAIN t : t[i].failed => t[i].err \in ctx.tolerate
    BY DEF Passed, Refused
  <1> HIDE DEF st
  <1>3. ASSUME NEW i \in DOMAIN st
        PROVE  st[i].failed => st[i].err \in ctx.tolerate
    <2>1. CASE i \in DOMAIN s
      BY <1>1, <1>2, <2>1
    <2>2. CASE i \notin DOMAIN s
      <3>1. i - Len(s) \in DOMAIN t /\ Len(s) + (i - Len(s)) = i
        BY <1>1, <2>2
      <3>2. st[i] = t[i - Len(s)]
        BY <1>1, <3>1
      <3>3. QED
        BY <1>2, <3>1, <3>2
    <2>3. QED
      BY <2>1, <2>2
  <1>4. Passed(st)
    BY <1>3 DEF Passed, Refused
  <1>5. QED
    BY <1>4 DEF st

\* The chain that is checked is the beginning of the path p.
Prefix(v, p) ==
  /\ Len(v.chain) \in Nat /\ Len(p) \in Nat /\ Len(v.chain) <= Len(p) /\ v.depth \in 0..(Len(v.chain) - 1)
  /\ \A i \in 1..Len(v.chain) : v.chain[i] = p[i] /\ p[i] \in Certs

LEMMA IsPrefix ==
  ASSUME NEW p, VfyType(vfy), Asked(vfy, p), Along(vfy, p)
  PROVE  Prefix(vfy, p) /\ CleanPath(p) /\ CleanCrls(p) /\ ctx.tolerate = {}
  <1>1. CleanPath(p) /\ CleanCrls(p) /\ ctx.tolerate = {} /\ p \in Seq(Certs)
    BY Clean DEF Asked
  <1>2. Prefix(vfy, p)
    BY <1>1 DEF VfyType, Along, Prefix
  <1>3. QED
    BY <1>1, <1>2

\* A step whose checks pass goes on.
LEMMA PassGoes ==
  ASSUME NEW checks, NEW next, Decide(checks, next), Passed(checks), DOMAIN next = VfyFields
  PROVE  /\ DOMAIN vfy' = VfyFields /\ last' = last
         /\ vfy'.pc = next.pc /\ vfy'.kind = next.kind /\ vfy'.peer = next.peer /\ vfy'.chain = next.chain
         /\ vfy'.find = next.find /\ vfy'.depth = next.depth /\ vfy'.crlIdx = next.crlIdx /\ vfy'.crlRet = next.crlRet
  <1>1. PICK e : vfy' = [next EXCEPT !.reported = e] /\ last' = last
    BY DEF Decide
  <1>2. QED
    BY <1>1 DEF VfyFields

\* A step that goes on along p.
Follows(p) == DOMAIN vfy' = VfyFields /\ last' = last /\ vfy'.kind = vfy.kind /\ vfy'.peer = vfy.peer /\ Along(vfy', p)

\* Most steps leave the chain as it is.
LEMMA AlongKept ==
  ASSUME NEW p, NEW v, Along(vfy, p), vfy.pc # "build", v.chain = vfy.chain, v.pc # "build",
         v.pc \in {"secbits", "hash"} => vfy.pc \in {"secbits", "hash"},
         v.pc = "crl" => v.crlIdx = 0
  PROVE  Along(v, p)
  BY DEF Along

LEMMA LoopsFollow ==
  ASSUME NEW p, VfyType(vfy), Asked(vfy, p), Along(vfy, p), SecBitsCheck \/ HashAlgSecBitsCheck \/ CheckCertExt
  PROVE  Follows(p)
  <1> DEFINE d == vfy.depth + 1
             c == p[d]
             n == Len(p)
  <1>1. Prefix(vfy, p) /\ CleanPath(p)
    BY IsPrefix
  <1>2. /\ At(vfy.depth) = c /\ d \in 1..n /\ (vfy.depth < Count - 1 => d < n)
        /\ n \in Nat /\ Count \in Nat /\ vfy.depth \in Nat
    BY <1>1 DEF Prefix, At, Count
  <1>3. DOMAIN vfy = VfyFields
    BY DEF VfyType
  <1>4. ASSUME NEW pc, NEW from, vfy.pc \in {"secbits", "hash", "ext"}, pc \in {"hash", "ext", "usage"},
               pc = "hash" => vfy.pc = "secbits",
               NEW checks, Passed(checks), Decide(checks, Upwards(pc, from))
        PROVE  Follows(p)
    <2>1. PICK next, v : next = Upwards(pc, from) /\ v = vfy'
      OBVIOUS
    <2>2. /\ DOMAIN next = VfyFields /\ next.chain = vfy.chain /\ next.kind = vfy.kind /\ next.peer = vfy.peer
          /\ next.pc \in {vfy.pc, pc}
      BY <1>3, <2>1 DEF Upwards, VfyFields
    <2>5. Decide(checks, next) /\ Passed(checks)
      BY <1>4, <2>1
    <2>6. DOMAIN v = VfyFields /\ last' = last /\ v.kind = vfy.kind /\ v.peer = vfy.peer /\ v.chain = vfy.chain /\ v.pc = next.pc
      BY <2>1, <2>2, <2>5, PassGoes
    <2>7. Along(v, p)
      BY <1>4, <2>2, <2>6, AlongKept
    <2>8. QED
      BY <2>1, <2>6, <2>7 DEF Follows
  <1>5. CASE SecBitsCheck
    <2> DEFINE a == Check(~C(At(vfy.depth)).strong, "ERR_VFY_CHECK_SECBITS")
    <2>1. vfy.pc = "secbits" /\ Decide(<<a>>, Upwards("hash", 0))
      BY <1>5 DEF SecBitsCheck
    <2>2. C(c).strong
      BY <1>1, <1>2, <2>1 DEF CleanPath, Along
    <2>3. ~a.failed
      BY <1>2, <2>2 DEF Check
    <2> HIDE DEF a
    <2>4. Passed(<<a>>)
      BY <2>3, PassIf
    <2>5. QED
      BY <1>4, <2>1, <2>4
  <1>6. CASE HashAlgSecBitsCheck
    <2> DEFINE a == Check(vfy.depth < Count - 1 /\ ~C(At(vfy.depth)).strongHash, "ERR_VFY_CHECK_SECBITS")
    <2>1. vfy.pc = "hash" /\ Decide(<<a>>, Upwards("ext", 0))
      BY <1>6 DEF HashAlgSecBitsCheck
    <2>2. d < n => C(c).strongHash
      BY <1>1, <1>2, <2>1 DEF CleanPath, Along
    <2>3. ~(vfy.depth < Count - 1 /\ ~C(At(vfy.depth)).strongHash)
      BY <1>2, <2>2
    <2>4. ~a.failed
      BY <2>3 DEF Check
    <2> HIDE DEF a
    <2>5. Passed(<<a>>)
      BY <2>4, PassIf
    <2>6. QED
      BY <1>4, <2>1, <2>5
  <1>7. CASE CheckCertExt
    <2> DEFINE a == Check(~C(c).v3 /\ C(c).hasExt, "ERR_VFY_EXTENSIONS_REQUIRE_V3")
               b == Check(C(c).v3 /\ C(c).critical, "ERR_PROCESS_CRITICALEXT")
    <2>1. ~(C(c).v3 /\ C(c).critical) /\ ~(~C(c).v3 /\ C(c).hasExt) /\ FitsKey(c)
      BY <1>1, <1>2 DEF CleanPath
    <2>2. ~a.failed /\ ~b.failed
      BY <2>1 DEF Check
    <2>3. vfy.pc = "ext" /\ Decide(ExtChecks(c), Upwards("usage", Count - 1))
      BY <1>2, <1>7, <2>1, ExtWays
    <2>4. ExtChecks(c) = <<a, b>>
      BY DEF ExtChecks
    <2> HIDE DEF a, b
    <2>5. Passed(ExtChecks(c))
      BY <2>2, <2>4, PassIf
    <2>6. QED
      BY <1>4, <2>3, <2>5
  <1>8. QED
    BY <1>5, <1>6, <1>7

\* What X509_CheckExt asks of the certificate c.
UsageClean(c, depth, isRoot) ==
  /\ depth = 0 => C(c).fits
  /\ depth > 0 =>
       /\ isRoot => ~(C(c).v3 /\ ~C(c).ca)
       /\ ~isRoot => C(c).v3 /\ C(c).ca
       /\ KeyUsageAllows(c, "certSign")
       /\ ~(C(c).ca /\ C(c).pathLen # NoLimit /\ C(c).pathLen < depth - 1)

LEMMA UsagePasses ==
  ASSUME NEW c, NEW depth \in Nat, NEW isRoot, NEW checks, checks = UsageChecks(c, depth, isRoot),
         UsageClean(c, depth, isRoot)
  PROVE  Passed(checks)
  <1> DEFINE z == Check(~C(c).fits, "ERR_VFY_PURPOSE_UNMATCH")
             a == Check(C(c).v3 /\ ~C(c).ca, "ERR_VFY_INVALID_CA")
             b == Check(~C(c).v3, "ERR_VFY_INTERCA_INVALID_VERSION")
             d == Check(~C(c).ca, "ERR_VFY_INTERCA_INVALID_BCONS")
             e == Check(~KeyUsageAllows(c, "certSign"), "ERR_VFY_KU_NO_CERTSIGN")
             f == Check(C(c).ca /\ C(c).pathLen # NoLimit /\ C(c).pathLen < depth - 1, "ERR_VFY_PATHLEN_EXCEEDED")
             S == {a, b, d, e, f}
  <1>1. depth = 0 => ~z.failed
    BY DEF Check, UsageClean
  <1>2. depth > 0 /\ isRoot => ~a.failed
    BY Zenon DEF Check, UsageClean
  <1>3. depth > 0 /\ ~isRoot => ~b.failed /\ ~d.failed
    BY DEF Check, UsageClean
  <1>4. depth > 0 => ~e.failed /\ ~f.failed
    BY DEF Check, UsageClean
  <1>5. checks = IF depth > 0 THEN (IF isRoot THEN <<a>> ELSE <<b, d>>) \o <<e, f>> ELSE <<z>>
    BY Zenon DEF UsageChecks
  <1> HIDE DEF a, b, d, e, f, z
  <1>6. CASE depth = 0
    <2>1. checks = <<z>>
      BY <1>5, <1>6
    <2>2. QED
      BY <1>1, <1>6, <2>1, PassIf
  <1>7. <<a>> \in Seq(S) /\ <<b, d>> \in Seq(S) /\ <<e, f>> \in Seq(S)
    OBVIOUS
  <1> HIDE DEF S
  <1>8. CASE depth > 0 /\ isRoot
    <2>1. checks = <<a>> \o <<e, f>>
      BY <1>5, <1>8
    <2>2. Passed(<<a>>) /\ Passed(<<e, f>>)
      BY <1>2, <1>4, <1>8, PassIf
    <2>3. QED
      BY <1>7, <2>1, <2>2, ConcatPasses
  <1>9. CASE depth > 0 /\ ~isRoot
    <2>1. checks = <<b, d>> \o <<e, f>>
      BY <1>5, <1>9
    <2>2. Passed(<<b, d>>) /\ Passed(<<e, f>>)
      BY <1>3, <1>4, <1>9, PassIf
    <2>3. QED
      BY <1>7, <2>1, <2>2, ConcatPasses
  <1>10. QED
    BY <1>6, <1>8, <1>9

\* The key usages and path lengths that certificates have.
LEMMA Usages ==
  ASSUME IInv, NEW c \in Certs
  PROVE  C(c).keyUsage \in KeyUsages /\ C(c).pathLen \in Nat \cup {NoLimit}
  BY X509Assumption DEF IInv, In, C

LEMMA UsageFollows ==
  ASSUME NEW p, IInv, Asked(vfy, p), Along(vfy, p), CheckExt
  PROVE  Follows(p)
  <1> DEFINE d == vfy.depth
             c == p[d + 1]
             n == Len(p)
             m == Len(vfy.chain)
  <1>1. vfy.pc = "usage"
    BY DEF CheckExt
  <1>2. VfyType(vfy)
    BY <1>1, UnderWay
  <1>3. Prefix(vfy, p) /\ CleanPath(p)
    BY <1>2, IsPrefix
  <1>4. At(d) = c /\ c \in Certs /\ Count = m /\ d \in 0..(m - 1) /\ m \in Nat /\ n \in Nat /\ m <= n /\ d \in Nat
    BY <1>3 DEF Prefix, At, Count
  <1>5. UsageClean(c, d, d = m - 1)
    <2>1. d = 0 => C(c).fits
      BY <1>3 DEF CleanPath
    <2>2. ASSUME d > 0
          PROVE  /\ d = m - 1 => ~(C(c).v3 /\ ~C(c).ca)
                 /\ d # m - 1 => C(c).v3 /\ C(c).ca
      <3>1. d + 1 \in 2..n /\ n > 1 /\ (d # m - 1 => d + 1 # n)
        BY <1>4, <2>2
      <3>2. d + 1 = n => ~(C(c).v3 /\ ~C(c).ca)
        BY <1>3, <3>1 DEF CleanPath
      <3>3. d + 1 # n => C(c).v3 /\ C(c).ca
        BY <1>3, <3>1 DEF CleanPath
      <3>4. QED
        BY <3>1, <3>2, <3>3
    <2>3. ASSUME d > 0
          PROVE  KeyUsageAllows(c, "certSign")
      <3>1. d + 1 \in 2..n
        BY <1>4, <2>3
      <3>2. C(c).keyUsage \notin {"none", "crlSign"}
        BY <1>3, <3>1 DEF CleanPath
      <3>3. C(c).keyUsage \in KeyUsages
        BY <1>4, Usages
      <3>4. QED
        BY <3>2, <3>3 DEF KeyUsageAllows, KeyUsages
    <2>4. ASSUME d > 0
          PROVE  ~(C(c).ca /\ C(c).pathLen # NoLimit /\ C(c).pathLen < d - 1)
      <3>1. d + 1 \in 2..n
        BY <1>4, <2>4
      <3>2. PICK i : i = d + 1
        OBVIOUS
      <3>3. i \in 2..n /\ c = p[i]
        BY <3>1, <3>2
      <3>4. ~(C(p[i]).ca /\ C(p[i]).pathLen # NoLimit /\ Cardinality(2..(i - 1)) > C(p[i]).pathLen)
        BY <1>3, <3>3 DEF CleanPath
      <3>5. 2 \in Int /\ i - 1 \in Int
        BY <1>4, <3>3
      <3>6. Cardinality(2..(i - 1)) = IF 2 > i - 1 THEN 0 ELSE (i - 1) - 2 + 1
        BY <3>5, FS_Interval
      <3>7. Cardinality(2..(i - 1)) = d - 1
        BY <1>4, <2>4, <3>2, <3>6
      <3>8. C(c).pathLen \in Nat \cup {NoLimit}
        BY <1>4, Usages
      <3>9. PICK l, k : l = C(c).pathLen /\ k = Cardinality(2..(i - 1))
        OBVIOUS
      <3>10. ~(C(c).ca /\ l # NoLimit /\ k > l)
        BY <3>3, <3>4, <3>9
      <3>11. QED
        BY <1>4, <3>7, <3>8, <3>9, <3>10
    <2>5. QED
      BY <2>1, <2>2, <2>3, <2>4 DEF UsageClean
  <1>6. PICK checks, next, v : /\ checks = UsageChecks(c, d, d = m - 1) /\ v = vfy'
                               /\ next = IF vfy.depth > 0 THEN [vfy EXCEPT !.depth = @ - 1] ELSE StartCrl
    OBVIOUS
  <1>7. Decide(checks, next)
    BY <1>4, <1>6 DEF CheckExt
  <1>8. Passed(checks)
    BY <1>4, <1>5, <1>6, UsagePasses
  <1>9. /\ DOMAIN next = VfyFields /\ next.kind = vfy.kind /\ next.peer = vfy.peer /\ next.chain = vfy.chain
        /\ next.pc \in {"usage", "crl", "sign"} /\ (next.pc = "crl" => next.crlIdx = 0)
    BY <1>1, <1>2, <1>6 DEF StartCrl, StartSign, VfyType, VfyFields
  <1>10. /\ DOMAIN v = VfyFields /\ last' = last /\ v.kind = vfy.kind /\ v.peer = vfy.peer /\ v.chain = vfy.chain
         /\ v.pc = next.pc /\ v.crlIdx = next.crlIdx
    BY <1>6, <1>7, <1>8, <1>9, PassGoes, ZenonT(60)
  <1>11. Along(v, p)
    BY <1>1, <1>9, <1>10, AlongKept
  <1>12. QED
    BY <1>6, <1>10, <1>11 DEF Follows

\* The CRLs of a path are found in order, and none of them revokes its certificate.
LEMMA CrlPasses ==
  ASSUME NEW cert, NEW parent, NEW r, NEW checks, checks = SkipChecks(cert, parent, r) \o CrlChecks(cert, parent, r),
         Passed(SkipChecks(cert, parent, r)), ~R(r).critical, R(r).sigKey = C(parent).key, cert \notin R(r).revoked
  PROVE  Passed(checks)
  <1> DEFINE a == Check(C(cert).v3 /\ R(r).aki # "absent" /\ R(r).aki # C(parent).key, "ERR_VFY_AKI_SKI_NOT_MATCH")
             b == Check(Timed /\ ~R(r).valid, "ERR_VFY_NEXTUPDATE_EXPIRED")
             d == Check(R(r).critical, "ERR_PROCESS_CRITICALEXT")
             e == Check(R(r).sigKey # C(parent).key, "ERR_VFY_CRLSIGN_FAIL")
             f == Check(cert \in R(r).revoked, "ERR_VFY_CERT_REVOKED")
             S == {a, b, d, e, f}
  <1>1. ~d.failed /\ ~e.failed /\ ~f.failed
    BY DEF Check
  <1>2. checks = <<a, b>> \o <<d, e, f>> /\ Passed(<<a, b>>)
    BY Zenon DEF SkipChecks, CrlChecks
  <1> HIDE DEF a, b, d, e, f
  <1>3. <<a, b>> \in Seq(S) /\ <<d, e, f>> \in Seq(S)
    OBVIOUS
  <1> HIDE DEF S
  <1>4. Passed(<<d, e, f>>)
    BY <1>1, PassIf
  <1>5. QED
    BY <1>2, <1>3, <1>4, ConcatPasses

\* The CRLs that count are those that count for the path.
LEMMA CrlsOfPath ==
  ASSUME NEW p, IInv, vfy.pc = "crl", Asked(vfy, p), Along(vfy, p), NEW d, d = vfy.depth + 1
  PROVE  /\ VfyType(vfy) /\ d \in Nat /\ d + 1 <= Len(vfy.chain)
         /\ vfy.chain[d] = p[d] /\ vfy.chain[d + 1] = p[d + 1] /\ p[d + 1] \in Certs
         /\ At(vfy.depth) = p[d] /\ At(vfy.depth + 1) = p[d + 1]
         /\ CrlsInForce(vfy.chain, d, ctx) = CrlsInForce(p, d, ctx)
         /\ C(p[d + 1]).keyUsage \notin {"none", "certSign"}
         /\ CrlsInForce(p, d, ctx) # {}
         /\ \A r \in CrlsInForce(p, d, ctx) : ~R(r).critical /\ R(r).sigKey = C(p[d + 1]).key /\ p[d] \notin R(r).revoked
  <1>1. VfyType(vfy) /\ CrlLoop(vfy)
    BY UnderWay DEF VfyInv, CheckedInv
  <1>2. Prefix(vfy, p) /\ CleanCrls(p)
    BY <1>1, IsPrefix
  <1>3. /\ d \in Nat /\ d >= 1 /\ d + 1 <= Len(vfy.chain) /\ Len(vfy.chain) <= Len(p)
        /\ Len(vfy.chain) \in Nat /\ Len(p) \in Nat
    BY <1>1, <1>2 DEF VfyType, Prefix
  <1>4. vfy.chain[d] = p[d] /\ vfy.chain[d + 1] = p[d + 1] /\ p[d + 1] \in Certs
    <2>1. \A i \in 1..Len(vfy.chain) : vfy.chain[i] = p[i] /\ p[i] \in Certs
      BY <1>2 DEF Prefix
    <2>2. d \in 1..Len(vfy.chain) /\ d + 1 \in 1..Len(vfy.chain)
      BY <1>3
    <2>3. QED
      BY <2>1, <2>2
  <1>5. At(vfy.depth) = p[d] /\ At(vfy.depth + 1) = p[d + 1]
    BY <1>3, <1>4 DEF At
  <1>6. CrlsInForce(vfy.chain, d, ctx) = CrlsInForce(p, d, ctx)
    BY <1>4 DEF CrlsInForce
  <1>7. d \in MustHaveCrl(p, ctx)
    <2>1. CASE "CRL_ALL" \in ctx.flags
      BY <1>3, <2>1 DEF MustHaveCrl
    <2>2. CASE "CRL_ALL" \notin ctx.flags
      <3>1. "CRL_DEV" \in ctx.flags /\ ~(vfy.depth > 0)
        BY <1>1, <2>2 DEF CrlLoop
      <3>2. d = 1 /\ Len(p) > 1
        BY <1>1, <1>3, <3>1 DEF VfyType
      <3>3. QED
        BY <2>2, <3>1, <3>2 DEF MustHaveCrl
    <2>3. QED
      BY <2>1, <2>2
  <1>8. QED
    BY <1>1, <1>2, <1>3, <1>4, <1>5, <1>6, <1>7 DEF CleanCrls

\* A step that leaves the chain as it is, and what it knows of the CRLs.
LEMMA FollowsBy ==
  ASSUME NEW p, NEW checks, NEW next, Decide(checks, next), Passed(checks), DOMAIN next = VfyFields,
         next.kind = vfy.kind, next.peer = vfy.peer, Along(next, p)
  PROVE  Follows(p)
  <1>1. PICK v : v = vfy'
    OBVIOUS
  <1>2. /\ DOMAIN v = VfyFields /\ last' = last /\ v.kind = vfy.kind /\ v.peer = vfy.peer
        /\ v.pc = next.pc /\ v.chain = next.chain /\ v.find = next.find /\ v.depth = next.depth
        /\ v.crlIdx = next.crlIdx /\ v.crlRet = next.crlRet
    BY <1>1, PassGoes
  <1>3. Consulted(v) = Consulted(next)
    BY <1>2 DEF Consulted
  <1>4. Along(v, p)
    BY <1>2, <1>3 DEF Along
  <1>5. QED
    BY <1>1, <1>2, <1>4 DEF Follows

LEMMA CheckCertCrlFollows ==
  ASSUME NEW p, IInv, Asked(vfy, p), Along(vfy, p), CheckCertCrl
  PROVE  Follows(p)
  <1>1. PICK d : d = vfy.depth + 1
    OBVIOUS
  <1>2. vfy.pc = "crl"
    BY DEF CheckCertCrl
  <1>3. /\ VfyType(vfy) /\ At(vfy.depth + 1) = p[d + 1] /\ p[d + 1] \in Certs
        /\ C(p[d + 1]).keyUsage \notin {"none", "certSign"}
    BY <1>1, <1>2, CrlsOfPath
  <1>4. KeyUsageAllows(At(vfy.depth + 1), "crlSign")
    BY <1>3, Usages DEF KeyUsageAllows, KeyUsages
  <1> DEFINE a == Check(~KeyUsageAllows(At(vfy.depth + 1), "crlSign"), "ERR_VFY_KU_NO_CRLSIGN")
  <1>5. ~a.failed
    BY <1>4 DEF Check
  <1>6. PICK next : next = [vfy EXCEPT !.crlIdx = 1, !.crlRet = "ERR_VFY_CRL_NOT_FOUND"]
    OBVIOUS
  <1>7. Decide(<<a>>, next)
    BY <1>6 DEF CheckCertCrl
  <1> HIDE DEF a
  <1>8. /\ DOMAIN next = VfyFields /\ next.kind = vfy.kind /\ next.peer = vfy.peer /\ next.chain = vfy.chain
        /\ next.pc = "crl" /\ next.crlIdx = 1
    BY <1>2, <1>3, <1>6 DEF VfyType, VfyFields
  <1>9. Consulted(next) = {}
    BY <1>8 DEF Consulted
  <1>10. Along(next, p)
    BY <1>2, <1>8, <1>9 DEF Along
  <1>11. Passed(<<a>>)
    BY <1>5, PassIf
  <1>12. QED
    BY <1>7, <1>8, <1>10, <1>11, FollowsBy

LEMMA EndCrlFollows ==
  ASSUME NEW p, IInv, Asked(vfy, p), Along(vfy, p), EndCrl
  PROVE  Follows(p)
  <1>1. PICK d : d = vfy.depth + 1
    OBVIOUS
  <1>2. vfy.pc = "crl" /\ vfy.crlIdx = Len(ctx.crl) + 1 /\ Len(ctx.crl) \in Nat /\ ctx.crl \in Seq(Crls)
    BY DEF EndCrl, IInv, CtxInv
  <1>3. /\ VfyType(vfy) /\ CrlsInForce(vfy.chain, d, ctx) = CrlsInForce(p, d, ctx) /\ CrlsInForce(p, d, ctx) # {}
    BY <1>1, <1>2, CrlsOfPath
  <1>4. Consulted(vfy) = CrlsInForce(vfy.chain, d, ctx)
    <2>1. Elements(ctx.crl) = {ctx.crl[j] : j \in 1..(vfy.crlIdx - 1)}
      BY <1>2 DEF Elements
    <2>2. CrlsInForce(vfy.chain, d, ctx) \subseteq Elements(ctx.crl)
      BY DEF CrlsInForce
    <2>3. QED
      BY <1>1, <2>1, <2>2 DEF Consulted
  <1>5. vfy.crlRet = "SUCCESS"
    BY <1>2, <1>3, <1>4 DEF Along
  <1> DEFINE a == Check(vfy.crlRet # "SUCCESS", "ERR_VFY_CRL_NOT_FOUND")
  <1>6. ~a.failed
    BY <1>5 DEF Check
  <1>7. PICK next : next = IF "CRL_ALL" \in ctx.flags /\ vfy.depth + 2 < Count
                           THEN [vfy EXCEPT !.depth = @ + 1, !.crlIdx = 0] ELSE StartSign
    OBVIOUS
  <1>8. Decide(<<a>>, next)
    BY <1>7 DEF EndCrl
  <1> HIDE DEF a
  <1>9. /\ DOMAIN next = VfyFields /\ next.kind = vfy.kind /\ next.peer = vfy.peer /\ next.chain = vfy.chain
        /\ next.pc \in {"crl", "sign"} /\ next.crlIdx = 0
    BY <1>2, <1>3, <1>7 DEF VfyType, VfyFields, StartSign
  <1>10. Along(next, p)
    BY <1>2, <1>9, AlongKept
  <1>11. Passed(<<a>>)
    BY <1>6, PassIf
  <1>12. QED
    BY <1>8, <1>9, <1>10, <1>11, FollowsBy

LEMMA ConsultAlong ==
  ASSUME NEW p, Along(vfy, p), VfyType(vfy), vfy.pc = "crl", ctx.crl \in Seq(Crls), vfy.crlIdx \in 1..Len(ctx.crl),
         NEW w, w.pc = "crl", w.chain = vfy.chain, w.depth = vfy.depth, w.crlIdx = vfy.crlIdx + 1,
         NEW r, r = ctx.crl[vfy.crlIdx],
         IF r \in CrlsInForce(vfy.chain, vfy.depth + 1, ctx) THEN w.crlRet = "SUCCESS" ELSE w.crlRet = vfy.crlRet
  PROVE  Along(w, p)
  <1>1. 1..(w.crlIdx - 1) = 1..(vfy.crlIdx - 1) \cup {vfy.crlIdx}
    BY SMT
  <1>2. {ctx.crl[j] : j \in 1..(w.crlIdx - 1)} = {ctx.crl[j] : j \in 1..(vfy.crlIdx - 1)} \cup {r}
    BY <1>1
  <1>3. Consulted(w) = Consulted(vfy) \cup ({r} \cap CrlsInForce(vfy.chain, vfy.depth + 1, ctx))
    BY <1>2 DEF Consulted
  <1>4. Consulted(w) # {} => w.crlRet = "SUCCESS"
    BY <1>3 DEF Along
  <1>5. QED
    BY <1>4 DEF Along

LEMMA ConsultFollows ==
  ASSUME NEW p, IInv, Asked(vfy, p), Along(vfy, p), ConsultCrl
  PROVE  Follows(p)
  <1>1. PICK d : d = vfy.depth + 1
    OBVIOUS
  <1>2. vfy.pc = "crl" /\ vfy.crlIdx \in 1..Len(ctx.crl) /\ ctx.crl \in Seq(Crls)
    BY DEF ConsultCrl, IInv, CtxInv
  <1>3. PICK cert, parent, r : cert = p[d] /\ parent = p[d + 1] /\ r = ctx.crl[vfy.crlIdx]
    OBVIOUS
  <1>4. /\ VfyType(vfy) /\ DOMAIN vfy = VfyFields /\ At(vfy.depth) = cert /\ At(vfy.depth + 1) = parent
        /\ vfy.chain[d] = cert /\ vfy.chain[d + 1] = parent
        /\ CrlsInForce(vfy.chain, d, ctx) = CrlsInForce(p, d, ctx)
        /\ r \in CrlsInForce(p, d, ctx) => ~R(r).critical /\ R(r).sigKey = C(parent).key /\ cert \notin R(r).revoked
    BY <1>1, <1>2, <1>3, CrlsOfPath, SMTT(30) DEF VfyType
  <1>5. PICK next : next = [vfy EXCEPT !.crlIdx = @ + 1]
    OBVIOUS
  <1>6. /\ DOMAIN next = VfyFields /\ next.pc = "crl" /\ next.kind = vfy.kind /\ next.peer = vfy.peer /\ next.chain = vfy.chain
        /\ next.depth = vfy.depth /\ next.crlIdx = vfy.crlIdx + 1 /\ next.crlRet = vfy.crlRet
    BY <1>2, <1>4, <1>5 DEF VfyFields
  <1>7. r \notin CrlsInForce(p, d, ctx) => Along(next, p)
    BY <1>1, <1>2, <1>3, <1>4, <1>6, ConsultAlong
  <1>8. r \in CrlsInForce(p, d, ctx) => R(r).issuer = C(parent).subject /\ Passed(SkipChecks(cert, parent, r))
    BY <1>3, SkipsOthers
  <1>9. CASE R(r).issuer # C(parent).subject
    <2>1. vfy' = next /\ last' = last
      BY <1>2, <1>3, <1>4, <1>5, <1>9 DEF ConsultCrl
    <2>2. PICK v : v = vfy'
      OBVIOUS
    <2>3. QED
      BY <1>6, <1>7, <1>8, <1>9, <2>1, <2>2 DEF Follows
  <1>10. CASE R(r).issuer = C(parent).subject /\ ~Passed(SkipChecks(cert, parent, r))
    <2>1. PICK errs : vfy' = [next EXCEPT !.reported = errs] /\ last' = last
      BY <1>2, <1>3, <1>4, <1>5, <1>10, Zenon DEF ConsultCrl
    <2>2. PICK w : w = vfy'
      OBVIOUS
    <2>3. /\ DOMAIN w = VfyFields /\ w.pc = "crl" /\ w.kind = vfy.kind /\ w.peer = vfy.peer /\ w.chain = vfy.chain
          /\ w.depth = vfy.depth /\ w.crlIdx = vfy.crlIdx + 1 /\ w.crlRet = vfy.crlRet
      BY <1>6, <2>1, <2>2 DEF VfyFields
    <2>4. Along(w, p)
      BY <1>1, <1>2, <1>3, <1>4, <1>8, <1>10, <2>3, ConsultAlong
    <2>5. QED
      BY <2>1, <2>2, <2>3, <2>4 DEF Follows
  <1>11. CASE R(r).issuer = C(parent).subject /\ Passed(SkipChecks(cert, parent, r))
    <2>1. PICK checks : checks = SkipChecks(cert, parent, r) \o CrlChecks(cert, parent, r)
      OBVIOUS
    <2>2. PICK ret, next1 : /\ next1 = [next EXCEPT !.crlRet = ret] /\ Decide(checks, next1)
                            /\ ret = IF cert \in R(r).revoked THEN "ERR_VFY_CERT_REVOKED" ELSE "SUCCESS"
      BY <1>2, <1>3, <1>4, <1>5, <1>11, <2>1, Zenon DEF ConsultCrl
    <2>3. r \in CrlsInForce(p, d, ctx)
      <3>1. r \in Elements(ctx.crl)
        BY <1>2, <1>3 DEF Elements
      <3>2. QED
        BY <1>3, <1>11, <3>1, NotSkipped
    <2>4. ret = "SUCCESS" /\ Passed(checks)
      BY <1>4, <1>11, <2>1, <2>2, <2>3, CrlPasses
    <2>5. /\ DOMAIN next1 = VfyFields /\ next1.pc = "crl" /\ next1.kind = vfy.kind /\ next1.peer = vfy.peer
          /\ next1.chain = vfy.chain /\ next1.depth = vfy.depth /\ next1.crlIdx = vfy.crlIdx + 1 /\ next1.crlRet = "SUCCESS"
      BY <1>6, <2>2, <2>4 DEF VfyFields
    <2>6. Along(next1, p)
      BY <1>1, <1>2, <1>3, <1>4, <2>3, <2>5, ConsultAlong
    <2>7. QED
      BY <2>2, <2>4, <2>5, <2>6, FollowsBy
  <1>12. QED
    BY <1>9, <1>10, <1>11

-----------------------------------------------------------------------------
(* Signatures, the host name and the end.                                  *)

LEMMA SignPasses ==
  ASSUME NEW c, NEW issuer, NEW signed, NEW checks,
         checks = <<Check(Timed /\ ~C(c).valid, "ERR_VFY_NOTAFTER_EXPIRED")>>
                  \o (IF signed THEN <<>> ELSE <<Check(C(c).sigKey # C(issuer).key, "ERR_VFY_CERT_SIGN_FAIL")>>),
         ~(Timed /\ ~C(c).valid), ~signed => C(c).sigKey = C(issuer).key
  PROVE  Passed(checks)
  <1> DEFINE a == Check(Timed /\ ~C(c).valid, "ERR_VFY_NOTAFTER_EXPIRED")
             b == Check(C(c).sigKey # C(issuer).key, "ERR_VFY_CERT_SIGN_FAIL")
             t == IF signed THEN <<>> ELSE <<b>>
             S == {a, b}
  <1>1. ~a.failed /\ (~signed => ~b.failed)
    BY DEF Check
  <1>2. checks = <<a>> \o t
    BY Zenon
  <1> HIDE DEF a, b
  <1>3. <<a>> \in Seq(S) /\ t \in Seq(S)
    <2>1. <<a>> \in Seq(S) /\ <<>> \in Seq(S) /\ <<b>> \in Seq(S)
      OBVIOUS
    <2>2. QED
      BY <2>1, Zenon
  <1>4. Passed(<<a>>) /\ Passed(t)
    <2>1. CASE signed
      <3>1. t = <<>> /\ Passed(<<>>)
        BY <2>1 DEF Passed, Refused
      <3>2. QED
        BY <1>1, <3>1, PassIf
    <2>2. CASE ~signed
      <3>1. t = <<b>>
        BY <2>2
      <3>2. QED
        BY <1>1, <2>2, <3>1, PassIf
    <2>3. QED
      BY <2>1, <2>2
  <1> HIDE DEF S, t
  <1>5. QED
    BY <1>2, <1>3, <1>4, ConcatPasses

LEMMA SignFollows ==
  ASSUME NEW p, IInv, Asked(vfy, p), Along(vfy, p), VerifyChainCert
  PROVE  Follows(p)
  <1> DEFINE d == vfy.depth
             n == Len(p)
             m == Len(vfy.chain)
             anchor == d = Count - 1
             signed == anchor /\ "PARTIAL_CHAIN" \in ctx.flags /\ ~SelfSigned(At(d)) /\ d > 0
  <1>1. vfy.pc = "sign"
    BY DEF VerifyChainCert
  <1>2. VfyType(vfy)
    BY <1>1, UnderWay
  <1>3. Prefix(vfy, p) /\ CleanPath(p)
    BY <1>2, IsPrefix
  <1>4. PICK c, issuer : c = At(d) /\ issuer = IF anchor THEN c ELSE At(d + 1)
    OBVIOUS
  <1>5. c = p[d + 1] /\ Count = m /\ d \in 0..(m - 1) /\ m \in Nat /\ n \in Nat /\ m <= n /\ d \in Nat /\ c \in Certs
    BY <1>3, <1>4, SMTT(30) DEF Prefix, At, Count
  <1>6. ~(Timed /\ ~C(c).valid)
    BY <1>3, <1>5 DEF CleanPath
  <1>7. ASSUME ~signed
        PROVE  C(c).sigKey = C(issuer).key
    <2>1. CASE d # m - 1
      <3>1. d + 1 \in 1..(n - 1) /\ d + 2 \in 1..m /\ d + 1 + 1 = d + 2
        BY <1>5, <2>1
      <3>2. issuer = p[d + 2]
        BY <1>3, <1>4, <1>5, <2>1, <3>1 DEF Prefix, At
      <3>3. QED
        BY <1>3, <1>5, <3>1, <3>2 DEF CleanPath
    <2>2. CASE d = m - 1
      <3>1. issuer = c /\ c = p[m]
        BY <1>4, <1>5, <2>2
      <3>2. SelfSigned(c)
        <4>1. ("PARTIAL_CHAIN" \in ctx.flags /\ m > 1) \/ SelfSigned(p[m])
          BY <1>1 DEF Along
        <4>2. QED
          BY <1>4, <1>5, <1>7, <2>2, <3>1, <4>1
      <3>3. CASE m = n
        BY <1>3, <3>1, <3>2, <3>3 DEF CleanPath
      <3>4. CASE m < n
        <4>1. m \in 1..(n - 1) /\ m + 1 \in 1..n
          BY <1>5, <3>4
        <4>2. CheckIssued(p[m + 1], p[m]) /\ p[m + 1] \in Certs /\ Unambiguous
          BY <4>1 DEF Asked, IsPath, Linked
        <4>3. p[m + 1] = c
          BY <1>5, <3>1, <3>2, <4>2 DEF Unambiguous, SelfSigned
        <4>4. QED
          BY <1>3, <3>1, <4>1, <4>3 DEF CleanPath
      <3>5. QED
        BY <1>5, <3>3, <3>4
    <2>3. QED
      BY <2>1, <2>2
  <1>8. PICK checks, next : /\ checks = SignChecks(d)
                            /\ next = IF vfy.depth > 0 THEN [vfy EXCEPT !.depth = @ - 1] ELSE [vfy EXCEPT !.pc = "host"]
    OBVIOUS
  <1>9. Decide(checks, next)
    BY <1>8 DEF VerifyChainCert
  <1>10. Passed(checks)
    <2>1. checks = <<Check(Timed /\ ~C(c).valid, "ERR_VFY_NOTAFTER_EXPIRED")>>
                   \o (IF signed THEN <<>> ELSE <<Check(C(c).sigKey # C(issuer).key, "ERR_VFY_CERT_SIGN_FAIL")>>)
      BY <1>4, <1>8, Zenon DEF SignChecks
    <2> HIDE DEF signed
    <2>2. QED
      BY <1>6, <1>7, <2>1, SignPasses
  <1>11. /\ DOMAIN next = VfyFields /\ next.kind = vfy.kind /\ next.peer = vfy.peer /\ next.chain = vfy.chain
         /\ next.pc \in {"sign", "host"}
    BY <1>1, <1>2, <1>8 DEF VfyType, VfyFields
  <1>12. Along(next, p)
    BY <1>1, <1>11, AlongKept
  <1>13. QED
    BY <1>9, <1>10, <1>11, <1>12, FollowsBy

LEMMA HostFollows ==
  ASSUME NEW p, IInv, Asked(vfy, p), Along(vfy, p), CheckHost
  PROVE  Follows(p)
  <1>1. vfy.pc = "host"
    BY DEF CheckHost
  <1>2. VfyType(vfy)
    BY <1>1, UnderWay
  <1>3. Prefix(vfy, p) /\ CleanPath(p)
    BY <1>2, IsPrefix
  <1>4. At(0) = p[1]
    BY <1>3 DEF Prefix, At
  <1> DEFINE a == Check("HOST" \in ctx.flags /\ ~C(At(0)).named, "ERR_VFY_HOSTNAME_FAIL")
  <1>5. ~("HOST" \in ctx.flags /\ ~C(At(0)).named)
    BY <1>3, <1>4 DEF CleanPath
  <1>6. ~a.failed
    BY <1>5 DEF Check
  <1>7. PICK next : next = [vfy EXCEPT !.pc = "done"]
    OBVIOUS
  <1>8. Decide(<<a>>, next)
    BY <1>7 DEF CheckHost
  <1> HIDE DEF a
  <1>9. /\ DOMAIN next = VfyFields /\ next.kind = vfy.kind /\ next.peer = vfy.peer /\ next.chain = vfy.chain
        /\ next.pc = "done"
    BY <1>2, <1>7 DEF VfyType, VfyFields
  <1>10. Along(next, p)
    BY <1>1, <1>9, AlongKept
  <1>11. Passed(<<a>>)
    BY <1>6, PassIf
  <1>12. QED
    BY <1>8, <1>9, <1>10, <1>11, FollowsBy

-----------------------------------------------------------------------------
(* The chain that is built follows the path.                               *)

\* Induction from a to n.
LEMMA UpTo ==
  ASSUME NEW a \in Nat, NEW n \in Nat, a <= n, NEW S, a \in S, \A i \in a..(n - 1) : i \in S => i + 1 \in S
  PROVE  n \in S
  <1> DEFINE T == {i \in a..n : i \notin S}
  <1>1. SUFFICES ASSUME T # {}
                 PROVE  FALSE
    OBVIOUS
  <1>2. PICK m \in T : \A k \in T : m <= k
    <2>1. T \in SUBSET Nat
      BY SMT
    <2> HIDE DEF T
    <2>2. QED
      BY <1>1, <2>1, NatMin
  <1>3. m # a /\ m - 1 \in a..(n - 1) /\ m - 1 \notin T
    BY <1>2
  <1>4. m - 1 \in S
    BY <1>3
  <1>5. QED
    BY <1>3, <1>4

\* Only a certificate itself issues one that is self-signed, so that a path stays there.
LEMMA StaysAtRoot ==
  ASSUME Unambiguous, NEW p \in Seq(Certs), Linked(p), NEW k \in 1..Len(p), SelfSigned(p[k])
  PROVE  p[Len(p)] = p[k]
  <1> DEFINE n == Len(p)
             S == {i \in k..n : p[i] = p[k]}
  <1>1. n \in Nat /\ k \in Nat /\ k <= n /\ k \in S
    BY SMT
  <1>2. ASSUME NEW i \in k..(n - 1), i \in S
        PROVE  i + 1 \in S
    <2>1. i \in 1..(n - 1) /\ i + 1 \in k..n /\ p[i] = p[k] /\ p[i] \in Certs /\ p[i + 1] \in Certs
      BY <1>1, <1>2
    <2>2. CheckIssued(p[i + 1], p[i])
      BY <2>1 DEF Linked
    <2>3. p[i + 1] = p[i]
      BY <2>1, <2>2 DEF Unambiguous, SelfSigned
    <2>4. QED
      BY <2>1, <2>3
  <1> HIDE DEF S
  <1>3. n \in S
    BY <1>1, <1>2, UpTo
  <1>4. QED
    BY <1>3 DEF S

\* t is the only possible issuer of cert.
Issues(t, cert) == t \in Certs /\ CheckIssued(t, cert) /\ \A i \in Certs : CheckIssued(i, cert) => i = t

LEMMA GetsIssue ==
  ASSUME NEW list \in Seq(Certs), NEW cert, NEW t, Issues(t, cert)
  PROVE  GetIssueFromChain(list, cert) = IF t \in Elements(list) THEN t ELSE NoCert
  <1> DEFINE found == {i \in DOMAIN list : CheckIssued(list[i], cert)}
  <1>1. \A i \in DOMAIN list : CheckIssued(list[i], cert) <=> list[i] = t
    BY DEF Issues
  <1>2. found = {} <=> t \notin Elements(list)
    BY <1>1 DEF Elements
  <1>3. found \in SUBSET Nat
    BY SMT
  <1>4. found # {} => Min(found) \in found
    BY <1>3, MinIn
  <1>5. found # {} => list[Min(found)] = t
    BY <1>1, <1>4
  <1>6. QED
    BY <1>2, <1>5, Zenon DEF GetIssueFromChain

LEMMA LoadsIssue ==
  ASSUME world.files \in Seq(Certs), NEW cert, NEW t, Issues(t, cert)
  PROVE  GetCertBySubject(cert) = IF t \in Elements(world.files) /\ CertIsCA(t) THEN t ELSE NoCert
  <1> DEFINE list == world.files
             found == {i \in DOMAIN list : CheckIssued(list[i], cert) /\ CertIsCA(list[i])}
  <1>1. \A i \in DOMAIN list : CheckIssued(list[i], cert) <=> list[i] = t
    BY DEF Issues
  <1>2. found = {} <=> ~(t \in Elements(list) /\ CertIsCA(t))
    BY <1>1 DEF Elements
  <1>3. found \in SUBSET Nat
    BY SMT
  <1>4. found # {} => Min(found) \in found
    BY <1>3, MinIn
  <1>5. found # {} => list[Min(found)] = t
    BY <1>1, <1>4
  <1>6. QED
    BY <1>2, <1>5, Zenon DEF GetCertBySubject

LEMMA FindsIssue ==
  ASSUME IInv, vfy.kind = "verify", vfy.peer \in Seq(Certs), NEW cert, NEW t, Issues(t, cert),
         t \in Trusted(ctx) \cup Elements(vfy.peer), NEW f, f = FindIssueCert(cert)
  PROVE  f.issue = t /\ (f.isTrustCa <=> t \in Trusted(ctx))
  <1>1. ctx.store \in Seq(Certs) /\ world.files \in Seq(Certs) /\ t # NoCert
    BY Files, X509Assumption DEF IInv, CtxInv, Issues
  <1>2. PICK stored, loaded, sent : /\ stored = GetIssueFromChain(ctx.store, cert)
                                    /\ loaded = GetCertBySubject(cert)
                                    /\ sent = IF vfy.kind = "verify" THEN GetIssueFromChain(vfy.peer, cert) ELSE NoCert
    OBVIOUS
  <1>3. /\ stored = IF t \in Elements(ctx.store) THEN t ELSE NoCert
        /\ loaded = IF t \in Elements(world.files) /\ CertIsCA(t) THEN t ELSE NoCert
        /\ sent = IF t \in Elements(vfy.peer) THEN t ELSE NoCert
    BY <1>1, <1>2, GetsIssue, LoadsIssue
  <1>4. CASE stored # NoCert
    <2>1. f = [issue |-> stored, isTrustCa |-> TRUE, store |-> ctx.store]
      BY <1>2, <1>4, Zenon DEF FindIssueCert
    <2>2. QED
      BY <1>3, <1>4, <2>1 DEF Trusted
  <1>5. CASE stored = NoCert /\ loaded # NoCert
    <2>1. f = [issue |-> loaded, isTrustCa |-> TRUE, store |-> IF Stored(loaded) THEN ctx.store ELSE <<loaded>> \o ctx.store]
      BY <1>2, <1>5, Zenon DEF FindIssueCert
    <2>2. QED
      BY <1>3, <1>5, <2>1 DEF Trusted
  <1>6. CASE stored = NoCert /\ loaded = NoCert
    <2>1. f = [issue |-> sent, isTrustCa |-> FALSE, store |-> ctx.store]
      BY <1>2, <1>6, Zenon DEF FindIssueCert
    <2>2. t \notin Trusted(ctx)
      BY <1>1, <1>3, <1>6 DEF Trusted
    <2>3. QED
      BY <1>3, <2>1, <2>2
  <1>7. QED
    BY <1>4, <1>5, <1>6

\* The issuer that is next on the path.
PathIssue(p, k) == IF k < Len(p) THEN p[k + 1] ELSE p[1]

LEMMA NextOnPath ==
  ASSUME NEW p, IInv, vfy.pc = "build", Asked(vfy, p), Along(vfy, p), NEW k, k = Len(vfy.chain), NEW t, t = PathIssue(p, k)
  PROVE  /\ k \in Nat /\ k >= 1 /\ Len(p) \in Nat /\ (k < Len(p) \/ (k = 1 /\ Len(p) = 1))
         /\ vfy.chain[k] = p[k] /\ Issues(t, p[k]) /\ t \in Trusted(ctx) \cup Elements(vfy.peer)
         /\ k + 1 <= ctx.maxDepth /\ vfy.find \in Nat /\ vfy.find # 0
         /\ SelfSigned(t) => t \in Trusted(ctx)
  <1>1. VfyType(vfy)
    BY UnderWay
  <1>2. Prefix(vfy, p) /\ CleanPath(p)
    BY <1>1, IsPrefix
  <1>3. /\ p \in Seq(Certs) /\ Len(p) >= 1 /\ Unambiguous /\ Linked(p)
        /\ \A i \in 1..Len(p) : p[i] \in Trusted(ctx) \cup Elements(vfy.peer)
        /\ p[Len(p)] \in Trusted(ctx)
        /\ SelfSigned(p[Len(p)]) \/ ("PARTIAL_CHAIN" \in ctx.flags /\ Len(p) > 1)
    BY DEF Asked, IsPath
  <1>4. k \in Nat /\ k >= 1 /\ Len(p) \in Nat /\ (k < Len(p) \/ (k = 1 /\ Len(p) = 1))
    BY <1>1, <1>2, <1>3 DEF VfyType, Prefix, Along
  <1>5. vfy.chain[k] = p[k] /\ p[k] \in Certs
    BY <1>2, <1>4 DEF Prefix
  <1>6. CheckIssued(t, p[k]) /\ t \in Certs /\ t \in Trusted(ctx) \cup Elements(vfy.peer)
    <2>1. CASE k < Len(p)
      <3>1. t = p[k + 1] /\ k \in 1..(Len(p) - 1) /\ k + 1 \in 1..Len(p)
        BY <1>4, <2>1 DEF PathIssue
      <3>2. QED
        BY <1>3, <3>1 DEF Linked
    <2>2. CASE k = 1 /\ Len(p) = 1
      <3>1. t = p[1] /\ SelfSigned(p[1])
        BY <1>3, <2>2 DEF PathIssue
      <3>2. QED
        BY <1>3, <2>2, <3>1 DEF SelfSigned
    <2>3. QED
      BY <1>4, <2>1, <2>2
  <1>7. Issues(t, p[k])
    BY <1>3, <1>5, <1>6 DEF Issues, Unambiguous
  <1>8. k + 1 <= ctx.maxDepth
    <2>1. ~((IF Len(p) = 1 THEN 2 ELSE Len(p)) > ctx.maxDepth)
      BY <1>2 DEF CleanPath
    <2>2. ctx.maxDepth \in Nat
      BY X509Assumption DEF IInv, CtxInv
    <2>3. PICK n, x : n = Len(p) /\ x = ctx.maxDepth
      OBVIOUS
    <2>4. CASE n = 1
      <3>1. k = 1 /\ ~(2 > x) /\ x \in Nat
        BY <1>4, <2>1, <2>2, <2>3, <2>4
      <3>2. QED
        BY <2>3, <3>1
    <2>5. CASE n # 1
      <3>1. k < n /\ ~(n > x) /\ n \in Nat /\ x \in Nat
        BY <1>4, <2>1, <2>2, <2>3, <2>5
      <3>2. QED
        BY <1>4, <2>3, <3>1
    <2>6. QED
      BY <2>4, <2>5
  <1>9. vfy.find \in Nat /\ vfy.find # 0
    <2>1. vfy.find + k = MaxFindNum + 1 /\ vfy.find \in Nat
      BY <1>1 DEF Along, VfyType
    <2>2. ctx.maxDepth \in 0..MaxDepth /\ MaxDepth <= MaxFindNum /\ MaxDepth \in Nat /\ MaxFindNum \in Nat
      BY X509Assumption DEF IInv, CtxInv
    <2>3. QED
      BY <1>4, <1>8, <2>1, <2>2
  <1>10. SelfSigned(t) => t \in Trusted(ctx)
    <2>1. SUFFICES ASSUME SelfSigned(t)
                   PROVE  t = p[Len(p)]
      BY <1>3
    <2>2. PICK j \in 1..Len(p) : t = p[j]
      BY <1>4 DEF PathIssue
    <2>3. QED
      BY <1>3, <2>1, <2>2, StaysAtRoot
  <1>11. QED
    BY <1>4, <1>5, <1>6, <1>7, <1>8, <1>9, <1>10

\* The chain q is the path p up to its k-th certificate.
LEMMA AlongNext ==
  ASSUME NEW p \in Seq(Certs), NEW k, NEW q, NEW t, q \in Seq(Certs), k = Len(q), k < Len(p),
         \A i \in 1..k : q[i] = p[i], t = p[k + 1], NEW r, r = Append(q, t)
  PROVE  Len(r) = k + 1 /\ k \in Nat /\ Len(r) <= Len(p) /\ \A i \in 1..Len(r) : r[i] = p[i]
  <1>1. k \in Nat /\ Len(p) \in Nat /\ t \in Certs /\ k + 1 \in 1..Len(p)
    BY SMT
  <1>2. Len(r) = k + 1 /\ r[k + 1] = t /\ \A i \in 1..k : r[i] = q[i]
    BY <1>1
  <1>3. QED
    BY <1>1, <1>2

LEMMA BuildFollows ==
  ASSUME NEW p, IInv, Asked(vfy, p), Along(vfy, p), BuildChain
  PROVE  Follows(p)
  <1> DEFINE n == Len(p)
  <1>1. vfy.pc = "build" /\ vfy.kind = "verify"
    BY DEF BuildChain, Asked
  <1>2. /\ VfyType(vfy) /\ DOMAIN vfy = VfyFields /\ vfy.chain \in Seq(Certs) /\ vfy.peer \in Seq(Certs)
        /\ \A i \in 1..Len(vfy.chain) : vfy.chain[i] = p[i]
    BY <1>1, UnderWay DEF VfyType, Along
  <1>3. /\ p \in Seq(Certs) /\ n >= 1 /\ Unambiguous /\ Linked(p) /\ p[n] \in Trusted(ctx)
        /\ SelfSigned(p[n]) \/ ("PARTIAL_CHAIN" \in ctx.flags /\ n > 1)
    BY DEF Asked, IsPath
  <1>4. PICK k, t, f, depth : /\ k = Len(vfy.chain) /\ t = PathIssue(p, k) /\ f = FindIssueCert(vfy.chain[k])
                              /\ depth = <<Check(Len(vfy.chain) + 1 > ctx.maxDepth, "ERR_CHAIN_DEPTH_UP_LIMIT")>>
    OBVIOUS
  <1>5. /\ k \in Nat /\ k >= 1 /\ n \in Nat /\ (k < n \/ (k = 1 /\ n = 1))
        /\ vfy.chain[k] = p[k] /\ Issues(t, p[k]) /\ t \in Trusted(ctx) \cup Elements(vfy.peer)
        /\ k + 1 <= ctx.maxDepth /\ vfy.find \in Nat /\ vfy.find # 0
        /\ SelfSigned(t) => t \in Trusted(ctx)
    BY <1>1, <1>4, NextOnPath
  <1>6. f.issue = t /\ (f.isTrustCa <=> t \in Trusted(ctx)) /\ t # NoCert /\ t \in Certs
    BY <1>1, <1>2, <1>4, <1>5, FindsIssue, X509Assumption DEF Issues
  <1>7. Passed(depth)
    <2> DEFINE a == Check(Len(vfy.chain) + 1 > ctx.maxDepth, "ERR_CHAIN_DEPTH_UP_LIMIT")
    <2>1. ctx.maxDepth \in Nat
      BY X509Assumption DEF IInv, CtxInv
    <2>2. ~(Len(vfy.chain) + 1 > ctx.maxDepth)
      BY <1>4, <1>5, <2>1
    <2>3. ~a.failed /\ depth = <<a>>
      BY <1>4, <2>2, Zenon DEF Check
    <2> HIDE DEF a
    <2>4. QED
      BY <2>3, PassIf
  <1> DEFINE stops == ("PARTIAL_CHAIN" \in ctx.flags /\ f.isTrustCa) \/ SelfSigned(t)
  <1>8. IF stops THEN Built("SUCCESS", IF f.isTrustCa THEN f.issue ELSE NoCert)
        ELSE vfy' = [vfy EXCEPT !.chain = Append(@, f.issue), !.find = @ - 1, !.reported = @ \cup Errors(depth)] /\ UNCHANGED last
    BY <1>1, <1>4, <1>5, <1>6, <1>7, Zenon DEF BuildChain
  <1>9. PICK v : v = vfy'
    OBVIOUS
  <1>10. k < n => t = p[k + 1] /\ CheckIssued(p[2], p[1]) /\ p[1] \in Certs /\ p[2] \in Certs
    <2>1. k < n => 1 \in 1..(n - 1) /\ 2 \in 1..n /\ 1 \in 1..n
      BY <1>5
    <2>2. QED
      BY <1>3, <1>4, <2>1 DEF Linked, PathIssue
  <1>11. k > 1 => ~SelfSigned(p[1])
    BY <1>1, <1>4 DEF Along
  <1>12. vfy.chain[1] = p[1]
    BY <1>2, <1>4, <1>5
  <1>13. CASE stops
    <2>1. f.isTrustCa /\ Built("SUCCESS", t)
      BY <1>5, <1>6, <1>8, <1>13, Zenon
    <2>2. PICK q : q = IF t # NoCert /\ t # vfy.chain[1] THEN Append(vfy.chain, t) ELSE vfy.chain
      OBVIOUS
    <2>3. v = [vfy EXCEPT !.pc = IF "SECBITS" \in ctx.flags THEN "secbits" ELSE "ext", !.chain = q] /\ last' = last
      BY <1>1, <1>6, <1>9, <2>1, <2>2, Zenon DEF Built
    <2>4. /\ DOMAIN v = VfyFields /\ v.kind = vfy.kind /\ v.peer = vfy.peer /\ v.chain = q
          /\ v.pc = IF "SECBITS" \in ctx.flags THEN "secbits" ELSE "ext"
      BY <1>2, <2>3 DEF VfyFields
    <2>5. /\ Len(q) <= n /\ (\A i \in 1..Len(q) : q[i] = p[i])
          /\ ("PARTIAL_CHAIN" \in ctx.flags /\ Len(q) > 1) \/ SelfSigned(p[Len(q)])
      <3>1. CASE t # p[1]
        <4>1. q = Append(vfy.chain, t)
          BY <1>6, <1>12, <2>2, <3>1
        <4>2. k < n
          BY <1>4, <1>5, <3>1 DEF PathIssue
        <4>3. Len(q) = k + 1 /\ Len(q) <= n /\ \A i \in 1..Len(q) : q[i] = p[i]
          BY <1>2, <1>3, <1>4, <1>10, <4>1, <4>2, AlongNext
        <4>4. p[Len(q)] = t /\ Len(q) > 1
          BY <1>5, <1>10, <4>2, <4>3
        <4>5. QED
          BY <1>13, <4>3, <4>4
      <3>2. CASE t = p[1]
        <4>1. q = vfy.chain /\ Len(q) = k /\ Len(q) <= n /\ \A i \in 1..Len(q) : q[i] = p[i]
          BY <1>2, <1>4, <1>5, <1>12, <2>2, <3>2
        <4>2. CASE k = 1
          <5>1. SelfSigned(p[1])
            BY <1>3, <1>5, <1>10, <3>2, <4>2 DEF SelfSigned
          <5>2. QED
            BY <4>1, <4>2, <5>1
        <4>3. CASE k > 1
          <5>1. "PARTIAL_CHAIN" \in ctx.flags
            BY <1>11, <1>13, <3>2, <4>3
          <5>2. QED
            BY <4>1, <4>3, <5>1
        <4>4. QED
          BY <1>5, <4>2, <4>3
      <3>3. QED
        BY <3>1, <3>2
    <2>6. Along(v, p)
      BY <2>4, <2>5 DEF Along
    <2>7. QED
      BY <1>9, <2>3, <2>4, <2>6 DEF Follows
  <1>14. CASE ~stops
    <2>1. PICK errs : v = [vfy EXCEPT !.chain = Append(@, t), !.find = @ - 1, !.reported = errs] /\ last' = last
      <3>1. PICK errs : errs = vfy.reported \cup Errors(depth)
        OBVIOUS
      <3>2. QED
        BY <1>6, <1>8, <1>9, <1>14, <3>1
    <2>2. PICK q : q = Append(vfy.chain, t)
      OBVIOUS
    <2>3. /\ DOMAIN v = VfyFields /\ v.kind = vfy.kind /\ v.peer = vfy.peer /\ v.chain = q /\ v.pc = "build"
          /\ v.find = vfy.find - 1
      BY <1>1, <1>2, <2>1, <2>2 DEF VfyFields
    <2>4. k < n
      BY <1>3, <1>4, <1>5, <1>14 DEF PathIssue
    <2>5. Len(q) = k + 1 /\ Len(q) <= n /\ \A i \in 1..Len(q) : q[i] = p[i]
      BY <1>2, <1>3, <1>4, <1>10, <2>2, <2>4, AlongNext
    <2>6. Len(q) < n
      <3>1. k + 1 = n => t \in Trusted(ctx) /\ (SelfSigned(t) \/ "PARTIAL_CHAIN" \in ctx.flags)
        BY <1>3, <1>10, <2>4
      <3>2. k + 1 # n
        BY <1>6, <1>14, <3>1
      <3>3. QED
        BY <1>5, <2>5, <3>2
    <2>7. ~SelfSigned(p[1])
      <3>1. CASE k = 1
        <4>1. t = p[2]
          BY <1>10, <2>4, <3>1
        <4>2. SelfSigned(p[1]) => p[2] = p[1]
          BY <1>3, <1>10, <2>4 DEF SelfSigned, Unambiguous
        <4>3. QED
          BY <1>14, <4>1, <4>2
      <3>2. CASE k > 1
        BY <1>11, <3>2
      <3>3. QED
        BY <1>5, <3>1, <3>2
    <2>8. v.find + Len(v.chain) = MaxFindNum + 1
      <3>1. vfy.find + k = MaxFindNum + 1
        BY <1>1, <1>4 DEF Along
      <3>2. PICK a \in Nat : a = vfy.find
        BY <1>5
      <3>3. v.find = a - 1 /\ Len(v.chain) = k + 1 /\ a + k = MaxFindNum + 1
        BY <2>3, <2>5, <3>1, <3>2
      <3>4. QED
        BY <1>5, <3>3
    <2>9. Along(v, p)
      BY <2>3, <2>5, <2>6, <2>7, <2>8 DEF Along
    <2>10. QED
      BY <1>9, <2>1, <2>3, <2>9 DEF Follows
  <1>15. QED
    BY <1>13, <1>14

-----------------------------------------------------------------------------
(* A path without defects is followed to its end.                          *)

LEMMA StepFollows ==
  ASSUME NEW p, IInv, Asked(vfy, p), Along(vfy, p), Step
  PROVE  Done \/ Follows(p)
  <1>1. SecBitsCheck \/ HashAlgSecBitsCheck \/ CheckCertExt => VfyType(vfy)
    BY UnderWay DEF SecBitsCheck, HashAlgSecBitsCheck, CheckCertExt
  <1>2. SecBitsCheck \/ HashAlgSecBitsCheck \/ CheckCertExt => Follows(p)
    BY <1>1, LoopsFollow
  <1>3. QED
    BY <1>2, BuildFollows, UsageFollows, CheckCertCrlFollows, ConsultFollows, EndCrlFollows, SignFollows, HostFollows DEF Step

\* A step ends the verification, which leaves its result in last, or goes on with it.
Outcome ==
  \/ vfy' = Idle /\ last'.kind = vfy.kind /\ last'.peer = vfy.peer /\ last'.ctx = ctx
  \/ last' = last /\ vfy'.kind = vfy.kind /\ vfy'.peer = vfy.peer

LEMMA EndedOutcome ==
  ASSUME NEW ret, NEW error, NEW errs, Ended(ret, error, errs)
  PROVE  Outcome /\ last'.ret = ret
  BY DEF Ended, Outcome

LEMMA DecideOutcome ==
  ASSUME NEW checks, NEW next, Decide(checks, next), DOMAIN next = VfyFields, next.kind = vfy.kind, next.peer = vfy.peer
  PROVE  Outcome
  <1>1. CASE Passed(checks)
    BY <1>1, PassGoes DEF Outcome
  <1>2. CASE ~Passed(checks)
    <2>1. \E ret, error, errs : Ended(ret, error, errs)
      BY <1>2, Zenon DEF Decide
    <2>2. QED
      BY <2>1, EndedOutcome
  <1>3. QED
    BY <1>1, <1>2

LEMMA BuildOutcome ==
  ASSUME VfyType(vfy), BuildChain
  PROVE  Outcome
  <1>1. DOMAIN vfy = VfyFields
    BY DEF VfyType
  <1>2. ASSUME NEW ret, NEW root, Built(ret, root)
        PROVE  Outcome
    <2>1. \/ \E r, e, errs : Ended(r, e, errs)
          \/ \E q, errs : /\ vfy' = Idle
                          /\ last' = [kind |-> vfy.kind, ret |-> "SUCCESS", chain |-> q, peer |-> vfy.peer, ctx |-> ctx,
                                      reported |-> errs, verifyResult |-> "SUCCESS"]
          \/ last' = last /\ \E pc, q : vfy' = [vfy EXCEPT !.pc = pc, !.chain = q]
      BY <1>2, Zenon DEF Built
    <2>2. CASE \E r, e, errs : Ended(r, e, errs)
      BY <2>2, EndedOutcome
    <2>3. CASE \E q, errs : /\ vfy' = Idle
                            /\ last' = [kind |-> vfy.kind, ret |-> "SUCCESS", chain |-> q, peer |-> vfy.peer, ctx |-> ctx,
                                        reported |-> errs, verifyResult |-> "SUCCESS"]
      BY <2>3 DEF Outcome
    <2>4. CASE last' = last /\ \E pc, q : vfy' = [vfy EXCEPT !.pc = pc, !.chain = q]
      BY <1>1, <2>4 DEF Outcome, VfyFields
    <2>5. QED
      BY <2>1, <2>2, <2>3, <2>4
  <1>3. PICK f, depth : /\ f = FindIssueCert(vfy.chain[Len(vfy.chain)])
                        /\ depth = <<Check(Len(vfy.chain) + 1 > ctx.maxDepth, "ERR_CHAIN_DEPTH_UP_LIMIT")>>
    OBVIOUS
  <1>4. \/ Built("SUCCESS", NoCert) \/ Built("ERR_ISSUE_CERT_NOT_FOUND", NoCert)
        \/ Ended("SUCCESS", Record(depth), vfy.reported)
        \/ Ended(Ret(depth), Record(depth), vfy.reported \cup Errors(depth))
        \/ Built("SUCCESS", IF f.isTrustCa THEN f.issue ELSE NoCert)
        \/ /\ vfy' = [vfy EXCEPT !.chain = Append(@, f.issue), !.find = @ - 1, !.reported = @ \cup Errors(depth)]
           /\ last' = last
    BY <1>3, Zenon DEF BuildChain
  <1>5. CASE /\ vfy' = [vfy EXCEPT !.chain = Append(@, f.issue), !.find = @ - 1, !.reported = @ \cup Errors(depth)]
             /\ last' = last
    BY <1>1, <1>5 DEF Outcome, VfyFields
  <1>6. QED
    BY <1>2, <1>4, <1>5, EndedOutcome

LEMMA ConsultOutcome ==
  ASSUME VfyType(vfy), ConsultCrl
  PROVE  Outcome
  <1>1. DOMAIN vfy = VfyFields
    BY DEF VfyType
  <1>2. PICK next : next = [vfy EXCEPT !.crlIdx = @ + 1]
    OBVIOUS
  <1>3. DOMAIN next = VfyFields /\ next.kind = vfy.kind /\ next.peer = vfy.peer
    BY <1>1, <1>2 DEF VfyFields
  <1>4. \/ vfy' = next /\ last' = last
        \/ last' = last /\ \E errs : vfy' = [next EXCEPT !.reported = errs]
        \/ \E checks, ret : Decide(checks, [next EXCEPT !.crlRet = ret])
    BY <1>2, Zenon DEF ConsultCrl
  <1>5. CASE vfy' = next /\ last' = last
    BY <1>3, <1>5 DEF Outcome
  <1>6. CASE last' = last /\ \E errs : vfy' = [next EXCEPT !.reported = errs]
    BY <1>3, <1>6 DEF Outcome, VfyFields
  <1>7. CASE \E checks, ret : Decide(checks, [next EXCEPT !.crlRet = ret])
    <2>1. PICK checks, ret, next1 : next1 = [next EXCEPT !.crlRet = ret] /\ Decide(checks, next1)
      BY <1>7
    <2>2. DOMAIN next1 = VfyFields /\ next1.kind = vfy.kind /\ next1.peer = vfy.peer
      BY <1>3, <2>1 DEF VfyFields
    <2>3. QED
      BY <2>1, <2>2, DecideOutcome
  <1>8. QED
    BY <1>4, <1>5, <1>6, <1>7

LEMMA StepOutcome ==
  ASSUME IInv, Step
  PROVE  Outcome
  <1>1. VfyType(vfy) /\ DOMAIN vfy = VfyFields
    BY UnderWay DEF Step, BuildChain, SecBitsCheck, HashAlgSecBitsCheck, CheckCertExt, CheckExt, CheckCertCrl, ConsultCrl, EndCrl,
       VerifyChainCert, CheckHost, Done, VfyType
  <1>2. CASE Done
    BY <1>2, EndedOutcome DEF Done
  <1>3. CASE SecBitsCheck \/ HashAlgSecBitsCheck \/ CheckCertExt
    <2>0. CASE Unasked
      BY <2>0, EndedOutcome DEF Unasked
    <2>1. Unasked \/ \E checks, pc, from : Decide(checks, Upwards(pc, from))
      BY <1>3, ExtWays, Zenon DEF SecBitsCheck, HashAlgSecBitsCheck
    <2>a. SUFFICES ASSUME ~Unasked PROVE Outcome
      BY <2>0
    <2>2. PICK checks, pc, from, next : next = Upwards(pc, from) /\ Decide(checks, next)
      BY <2>1, <2>a
    <2>3. DOMAIN next = VfyFields /\ next.kind = vfy.kind /\ next.peer = vfy.peer
      BY <1>1, <2>2 DEF Upwards, VfyFields
    <2>4. QED
      BY <2>2, <2>3, DecideOutcome
  <1>4. CASE CheckExt
    <2>1. PICK checks, next : /\ next = IF vfy.depth > 0 THEN [vfy EXCEPT !.depth = @ - 1] ELSE StartCrl
                              /\ Decide(checks, next)
      BY <1>4, Zenon DEF CheckExt
    <2>2. DOMAIN next = VfyFields /\ next.kind = vfy.kind /\ next.peer = vfy.peer
      BY <1>1, <2>1 DEF StartCrl, StartSign, VfyFields
    <2>3. QED
      BY <2>1, <2>2, DecideOutcome
  <1>5. CASE CheckCertCrl
    <2>1. PICK checks, next : /\ next = [vfy EXCEPT !.crlIdx = 1, !.crlRet = "ERR_VFY_CRL_NOT_FOUND"]
                              /\ Decide(checks, next)
      BY <1>5, Zenon DEF CheckCertCrl
    <2>2. DOMAIN next = VfyFields /\ next.kind = vfy.kind /\ next.peer = vfy.peer
      BY <1>1, <2>1 DEF VfyFields
    <2>3. QED
      BY <2>1, <2>2, DecideOutcome
  <1>6. CASE EndCrl
    <2>1. PICK checks, next : /\ next = IF "CRL_ALL" \in ctx.flags /\ vfy.depth + 2 < Count
                                        THEN [vfy EXCEPT !.depth = @ + 1, !.crlIdx = 0] ELSE StartSign
                              /\ Decide(checks, next)
      BY <1>6, Zenon DEF EndCrl
    <2>2. DOMAIN next = VfyFields /\ next.kind = vfy.kind /\ next.peer = vfy.peer
      BY <1>1, <2>1 DEF StartSign, VfyFields
    <2>3. QED
      BY <2>1, <2>2, DecideOutcome
  <1>7. CASE VerifyChainCert
    <2>1. PICK checks, next : /\ next = IF vfy.depth > 0 THEN [vfy EXCEPT !.depth = @ - 1] ELSE [vfy EXCEPT !.pc = "host"]
                              /\ Decide(checks, next)
      BY <1>7, Zenon DEF VerifyChainCert
    <2>2. DOMAIN next = VfyFields /\ next.kind = vfy.kind /\ next.peer = vfy.peer
      BY <1>1, <2>1 DEF VfyFields
    <2>3. QED
      BY <2>1, <2>2, DecideOutcome
  <1>8. CASE CheckHost
    <2>1. PICK checks, next : next = [vfy EXCEPT !.pc = "done"] /\ Decide(checks, next)
      BY <1>8, Zenon DEF CheckHost
    <2>2. DOMAIN next = VfyFields /\ next.kind = vfy.kind /\ next.peer = vfy.peer
      BY <1>1, <2>1 DEF VfyFields
    <2>3. QED
      BY <2>1, <2>2, DecideOutcome
  <1>9. QED
    BY <1>1, <1>2, <1>3, <1>4, <1>5, <1>6, <1>7, <1>8, BuildOutcome, ConsultOutcome DEF Step

\* A verification adds nothing to the store but what is in the CA path.
LEMMA FindsTrusted ==
  ASSUME IInv, NEW cert, NEW f, f = FindIssueCert(cert)
  PROVE  Elements(f.store) \subseteq Trusted(ctx)
  <1> DEFINE loaded == GetCertBySubject(cert)
             found == {i \in DOMAIN world.files : CheckIssued(world.files[i], cert) /\ CertIsCA(world.files[i])}
  <1>1. world.files \in Seq(Certs) /\ ctx.store \in Seq(Certs)
    BY Files DEF IInv, CtxInv
  <1>2. loaded # NoCert => loaded \in Certs /\ loaded \in Trusted(ctx)
    <2>1. loaded # NoCert => found # {} /\ loaded = world.files[Min(found)]
      BY Zenon DEF GetCertBySubject
    <2>2. found \in SUBSET Nat
      BY <1>1, SMT
    <2>3. found # {} => Min(found) \in found
      BY <2>2, MinIn
    <2>4. loaded # NoCert => \E i \in DOMAIN world.files : loaded = world.files[i] /\ CertIsCA(loaded)
      BY <2>1, <2>3
    <2>5. QED
      BY <1>1, <2>4 DEF Trusted, Elements
  <1> HIDE DEF loaded, found
  <1>3. \/ f.store = ctx.store
        \/ loaded # NoCert /\ f.store = <<loaded>> \o ctx.store
    BY DEF FindIssueCert, loaded
  <1>4. Elements(ctx.store) \subseteq Trusted(ctx)
    BY DEF Trusted
  <1>5. CASE loaded # NoCert /\ f.store = <<loaded>> \o ctx.store
    <2>1. PICK s, t : s = ctx.store /\ t = f.store
      OBVIOUS
    <2>2. s \in Seq(Certs) /\ loaded \in Certs /\ t = <<loaded>> \o s
      BY <1>1, <1>2, <1>5, <2>1
    <2>3. DOMAIN t = 1..(Len(s) + 1) /\ DOMAIN s = 1..Len(s) /\ Len(s) \in Nat
      BY <2>2
    <2>4. \A i \in DOMAIN t : t[i] = loaded \/ \E j \in DOMAIN s : t[i] = s[j]
      BY <2>2, <2>3
    <2>5. QED
      BY <1>2, <1>4, <1>5, <2>1, <2>4 DEF Elements
  <1>6. QED
    BY <1>3, <1>4, <1>5

LEMMA StepSettings ==
  ASSUME IInv, Step, UNCHANGED scenario
  PROVE  SameSettings /\ Elements(ctx'.store) \subseteq Trusted(ctx)
  <1>1. DOMAIN ctx = CtxFields /\ Elements(ctx.store) \subseteq Trusted(ctx)
    BY DEF IInv, CtxInv, Trusted
  <1>2. ASSUME world' = world, NEW e, ctx' = [ctx EXCEPT !.error = e]
        PROVE  SameSettings /\ Elements(ctx'.store) \subseteq Trusted(ctx)
    <2>1. SameSettings /\ ctx'.store = ctx.store
      BY <1>1, <1>2 DEF SameSettings, CtxFields
    <2>2. QED
      BY <1>1, <2>1
  <1>3. ASSUME UNCHANGED <<world, ctx>>
        PROVE  SameSettings /\ Elements(ctx'.store) \subseteq Trusted(ctx)
    BY <1>1, <1>3 DEF SameSettings
  <1>4. ASSUME NEW checks, NEW next, Decide(checks, next)
        PROVE  SameSettings /\ Elements(ctx'.store) \subseteq Trusted(ctx)
    BY <1>2, <1>4 DEF Decide
  <1>5. CASE BuildChain
    <2>1. PICK f : f = FindIssueCert(vfy.chain[Len(vfy.chain)])
      OBVIOUS
    <2>2. world' = world /\ (UNCHANGED ctx \/ \E e : ctx' = [ctx EXCEPT !.store = f.store, !.error = e])
      BY <1>5, <2>1, Zenon DEF BuildChain
    <2>3. CASE \E e : ctx' = [ctx EXCEPT !.store = f.store, !.error = e]
      <3>1. SameSettings /\ ctx'.store = f.store
        BY <1>1, <2>2, <2>3 DEF SameSettings, CtxFields
      <3>2. QED
        BY <2>1, <3>1, FindsTrusted
    <2>4. QED
      BY <1>3, <2>2, <2>3
  <1>6. CASE Done
    BY <1>3, <1>6 DEF Done
  <1>7. CASE ConsultCrl
    <2>1. \/ UNCHANGED <<world, ctx>>
          \/ world' = world /\ \E e : ctx' = [ctx EXCEPT !.error = e]
          \/ \E checks, next : Decide(checks, next)
      BY <1>7, Zenon DEF ConsultCrl
    <2>2. QED
      BY <1>2, <1>3, <1>4, <2>1
  <1>8. CASE SecBitsCheck \/ HashAlgSecBitsCheck \/ CheckCertExt \/ CheckExt
    <2>1. (\E checks, next : Decide(checks, next)) \/ UNCHANGED <<world, ctx>>
      BY <1>8, ExtWays, Zenon DEF SecBitsCheck, HashAlgSecBitsCheck, CheckExt, Unasked
    <2>2. QED
      BY <1>3, <1>4, <2>1
  <1>9. CASE CheckCertCrl \/ EndCrl \/ VerifyChainCert \/ CheckHost
    <2>1. \E checks, next : Decide(checks, next)
      BY <1>9, Zenon DEF CheckCertCrl, EndCrl, VerifyChainCert, CheckHost
    <2>2. QED
      BY <1>4, <2>1
  <1>10. QED
    BY <1>5, <1>6, <1>7, <1>8, <1>9 DEF Step

\* Defects depend on what the application set, and on the world.
LEMMA SettingsDefects ==
  ASSUME SameSettings, NEW CONSTANT p
  PROVE  Defects(p, ctx)' = Defects(p, ctx)
  <1> USE DEF SameSettings
  <1>1. \A e : PathDefect(e, p, ctx)' <=> PathDefect(e, p, ctx)
    BY DEF PathDefect, C, SelfSigned, CheckIssued
  <1>2. \A i : CrlsInForce(p, i, ctx)' = CrlsInForce(p, i, ctx)
    BY DEF CrlsInForce, C, R, Elements
  <1>3. \A e : CrlDefect(e, p, ctx)' <=> CrlDefect(e, p, ctx)
    BY DEF CrlDefect, CrlsInForce, MustHaveCrl, C, R, Elements
  <1>4. QED
    BY <1>1, <1>3 DEF Defects, DefectNames

\* What is asked of a verification does not change while it is under way.
LEMMA AskedBefore ==
  ASSUME SameSettings, Elements(ctx'.store) \subseteq Trusted(ctx), NEW CONSTANT p, NEW CONSTANT w,
         w.kind = vfy.kind, w.peer = vfy.peer, Asked(w, p)'
  PROVE  Asked(vfy, p)
  <1>1. world' = world /\ ctx'.flags = ctx.flags /\ ctx'.tolerate = ctx.tolerate
    BY DEF SameSettings
  <1>2. Trusted(ctx)' \subseteq Trusted(ctx)
    BY <1>1 DEF Trusted, Elements, CertIsCA, C
  <1>3. /\ w.kind = "verify" /\ ctx'.tolerate = {} /\ Unambiguous' /\ p \in Seq(Certs) /\ Len(p) >= 1
        /\ IsPath(p, w.peer, ctx)' /\ Defects(p, ctx)' = {}
    BY DEF Asked
  <1>4. Unambiguous /\ Defects(p, ctx) = {}
    <2>1. Unambiguous
      BY <1>1, <1>3 DEF Unambiguous, CheckIssued, C
    <2>2. QED
      BY <1>3, <2>1, SettingsDefects
  <1>5. IsPath(p, w.peer, ctx)
    <2>1. PICK Q : Q = Trusted(ctx)'
      OBVIOUS
    <2>2. /\ p[1] = w.peer[1] /\ Linked(p)'
          /\ \A i \in 1..Len(p) : p[i] \in Q \cup Elements(w.peer)'
          /\ p[Len(p)] \in Q
          /\ SelfSigned(p[Len(p)])' \/ ("PARTIAL_CHAIN" \in ctx'.flags /\ Len(p) > 1)
      BY <1>3, <2>1 DEF IsPath
    <2>3. Linked(p)' <=> Linked(p)
      BY <1>1, SameWorld
    <2>4. SelfSigned(p[Len(p)])' <=> SelfSigned(p[Len(p)])
      BY <1>1, SameWorld
    <2>5. Elements(w.peer)' = Elements(w.peer)
      BY DEF Elements
    <2>6. QED
      BY <1>1, <1>2, <2>1, <2>2, <2>3, <2>4, <2>5 DEF IsPath
  <1>6. QED
    BY <1>1, <1>3, <1>4, <1>5 DEF Asked

LEMMA AlongAfter ==
  ASSUME SameSettings, NEW CONSTANT p, NEW CONSTANT w, Along(w, p)
  PROVE  Along(w, p)'
  <1>1. Consulted(w)' = Consulted(w)
    BY DEF SameSettings, Consulted, CrlsInForce, C, R, Elements
  <1>2. \A c : SelfSigned(c)' <=> SelfSigned(c)
    BY SameWorld DEF SameSettings
  <1>3. QED
    BY <1>1, <1>2 DEF SameSettings, Along

LEMMA CompNext ==
  ASSUME IInv, CompInv, [Next]_vars
  PROVE  CompInv'
  <1>1. PICK w : w = vfy'
    OBVIOUS
  <1>2. SUFFICES ASSUME w # Idle, NEW CONSTANT p \in Seq(Certs), Asked(w, p)'
                 PROVE  Along(w, p)'
    BY <1>1 DEF CompInv, Idle
  <1>3. CASE UNCHANGED vars
    <2>1. w = vfy /\ SameSettings /\ ctx'.store = ctx.store
      BY <1>1, <1>3 DEF vars, SameSettings
    <2>2. Elements(ctx'.store) \subseteq Trusted(ctx)
      BY <2>1 DEF Trusted
    <2>3. Asked(vfy, p)
      BY <1>2, <2>1, <2>2, AskedBefore
    <2>4. Along(w, p)
      BY <1>2, <2>1, <2>3 DEF CompInv
    <2>5. QED
      BY <2>1, <2>4, AlongAfter
  <1>4. CASE Next /\ Ctrl
    <2>1. vfy.pc = "idle" /\ vfy' = vfy
      BY <1>4 DEF Ctrl, SetCA, SetCRL, ClearCRL, SetParam, Settable
    <2>2. QED
      BY <1>1, <1>2, <2>1, IsIdle
  <1>5. CASE Next /\ Call
    <2>1. PICK kind \in Kinds, peer \in In.peers : Begin(kind, peer)
      BY <1>5 DEF Call, Kinds
    <2>2. PICK q : q = <<peer[1]>>
      OBVIOUS
    <2>3. w = [pc |-> "build", kind |-> kind, peer |-> peer, chain |-> q, find |-> MaxFindNum,
               depth |-> 0, crlIdx |-> 0, crlRet |-> "SUCCESS", reported |-> {}]
      BY <1>1, <1>2, <2>1, <2>2 DEF Begin
    <2>4. w.pc = "build" /\ w.peer = peer /\ w.chain = q /\ w.find = MaxFindNum
      BY <2>3
    <2>5. Len(q) = 1 /\ q[1] = peer[1]
      BY <2>2
    <2>6. p[1] = peer[1] /\ Len(p) >= 1 /\ Len(p) \in Nat
      BY <1>2, <2>4 DEF Asked, IsPath
    <2>7. Along(w, p)
      <3>1. Len(w.chain) <= Len(p) /\ \A i \in 1..Len(w.chain) : w.chain[i] = p[i]
        BY <2>4, <2>5, <2>6
      <3>2. w.find + Len(w.chain) = MaxFindNum + 1 /\ (Len(w.chain) < Len(p) \/ Len(p) = 1) /\ ~(Len(w.chain) > 1)
        <4>1. w.find = MaxFindNum /\ Len(w.chain) = 1
          BY <2>4, <2>5
        <4>2. PICK n, l : n = Len(p) /\ n \in Nat /\ n >= 1 /\ l = Len(w.chain)
          BY <2>6
        <4>3. l = 1
          BY <4>1, <4>2
        <4>4. w.find + l = MaxFindNum + 1 /\ (l < n \/ n = 1) /\ ~(l > 1)
          BY <4>1, <4>2, <4>3
        <4>5. QED
          BY <4>2, <4>4
      <3>3. QED
        BY <2>4, <3>1, <3>2 DEF Along
    <2>8. SameSettings
      BY <1>5, <2>1 DEF Begin, SameSettings, Next
    <2>9. QED
      BY <2>7, <2>8, AlongAfter
  <1>6. CASE Next /\ Step
    <2>1. SameSettings /\ Elements(ctx'.store) \subseteq Trusted(ctx)
      BY <1>6, StepSettings DEF Next
    <2>2. w.kind = vfy.kind /\ w.peer = vfy.peer
      BY <1>1, <1>2, <1>6, StepOutcome DEF Outcome
    <2>3. Asked(vfy, p)
      BY <1>2, <2>1, <2>2, AskedBefore
    <2>4. vfy # Idle
      BY <2>3, <1>6 DEF Idle, Step, BuildChain, SecBitsCheck, HashAlgSecBitsCheck, CheckCertExt, CheckExt, CheckCertCrl, ConsultCrl,
         EndCrl, VerifyChainCert, CheckHost, Done
    <2>5. Along(vfy, p)
      BY <2>3, <2>4 DEF CompInv
    <2>6. ~Done
      BY <1>1, <1>2 DEF Done, Ended
    <2>7. Along(w, p)
      BY <1>1, <1>6, <2>3, <2>5, <2>6, StepFollows DEF Follows
    <2>8. QED
      BY <2>1, <2>7, AlongAfter
  <1>7. QED
    BY <1>3, <1>4, <1>5, <1>6 DEF Next

\* Paths depend on the world and on the store alone.
LEMMA SamePaths ==
  ASSUME world' = world, NEW CONSTANT peer, NEW CONSTANT s
  PROVE  Paths(peer, s)' = Paths(peer, s)
  BY DEF Paths, IsPath, Trusted, Linked, SelfSigned, CheckIssued, CertIsCA, C, Elements

\* Paths go through certificates that the peer sent or the application trusts.
LEMMA PathIsAsked ==
  ASSUME IInv, VfyType(vfy), vfy.kind = "verify", ctx.tolerate = {}, Unambiguous,
         NEW p \in Paths(vfy.peer, ctx), Defects(p, ctx) = {}
  PROVE  p \in Seq(Certs) /\ Asked(vfy, p)
  <1>1. Elements(vfy.peer) \subseteq Certs
    BY DEF VfyType, Elements
  <1>2. Trusted(ctx) \subseteq Certs
    BY Files DEF Trusted, Elements, IInv, CtxInv
  <1>3. PICK n \in 1..Cardinality(Certs) : p \in [1..n -> Trusted(ctx) \cup Elements(vfy.peer)] /\ IsPath(p, vfy.peer, ctx)
    BY DEF Paths
  <1>4. n \in Nat /\ n >= 1
    BY <1>3
  <1>5. p \in [1..n -> Certs]
    BY <1>1, <1>2, <1>3
  <1>6. p \in Seq(Certs) /\ Len(p) = n
    BY <1>4, <1>5
  <1>7. QED
    BY <1>3, <1>4, <1>6 DEF Asked

LEMMA CompleteNext ==
  ASSUME IInv, CompInv, Complete, [Next]_vars
  PROVE  Complete'
  <1>1. world' = world
    BY StepAdds
  <1>2. PICK P, S, rest : P = last'.peer /\ S = last'.ctx /\ rest = last'
    OBVIOUS
  <1>3. SUFFICES ASSUME rest.kind = "verify", rest.ret # "SUCCESS", S.tolerate = {}, Unambiguous',
                        NEW CONSTANT p, p \in Paths(P, S)', Defects(p, S)' = {}
                 PROVE  FALSE
    BY <1>2 DEF Complete
  <1>4. Unambiguous /\ p \in Paths(P, S) /\ Defects(p, S) = {}
    <2>1. Unambiguous
      BY <1>1, <1>3 DEF Unambiguous, CheckIssued, C
    <2>2. QED
      BY <1>1, <1>3, <2>1, SamePaths, SameDefects
  <1>5. CASE last' = last
    BY <1>2, <1>3, <1>4, <1>5 DEF Complete
  <1>6. CASE last' # last /\ Step
    <2>1. last'.kind = vfy.kind /\ P = vfy.peer /\ S = ctx
      BY <1>2, <1>6, StepOutcome DEF Outcome
    <2>2. vfy.pc # "idle"
      BY <1>6 DEF Step, BuildChain, SecBitsCheck, HashAlgSecBitsCheck, CheckCertExt, CheckExt, CheckCertCrl, ConsultCrl,
         EndCrl, VerifyChainCert, CheckHost, Done
    <2>3. VfyType(vfy) /\ vfy # Idle
      BY <2>2, UnderWay DEF Idle
    <2>4. p \in Seq(Certs) /\ Asked(vfy, p)
      BY <1>2, <1>3, <1>4, <2>1, <2>3, PathIsAsked
    <2>5. Along(vfy, p)
      BY <2>3, <2>4 DEF CompInv
    <2>6. Done
      BY <1>6, <2>4, <2>5, StepFollows DEF Follows
    <2>7. last'.ret = "SUCCESS"
      BY <2>6, EndedOutcome DEF Done
    <2>8. QED
      BY <1>2, <1>3, <2>7
  <1>7. CASE last' # last /\ Call
    <2>1. last'.kind # "verify"
      BY <1>7 DEF Call, Begin, None
    <2>2. QED
      BY <1>2, <1>3, <2>1
  <1>8. QED
    <2>1. Ctrl \/ UNCHANGED vars => last' = last
      BY DEF Ctrl, SetCA, SetCRL, ClearCRL, SetParam, vars
    <2>2. QED
      BY <1>5, <1>6, <1>7, <2>1 DEF Next

\* HITLS_X509_CertVerify refuses no certificate for which there is a path without defects to a trusted one, when no
\* certificate has two possible issuers: for any certificates, CRLs, flags, and whatever was verified before.
THEOREM CompleteTheorem == Spec => []Complete
  <1>1. Init => CompInv /\ Complete
    BY DEF Init, CompInv, Complete, None
  <1>2. IInv /\ CompInv /\ Complete /\ [Next]_vars => CompInv' /\ Complete'
    BY CompNext, CompleteNext
  <1>3. QED
    BY <1>1, <1>2, InvTheorem, PTL DEF Spec
====
