-------------------------------- MODULE Drbg --------------------------------
(***************************************************************************)
(* The deterministic random bit generators of openHiTLS and their life in  *)
(* the EAL: crypto/drbg/src/drbg.c (instantiate, reseed, generate, restart *)
(* after a failure, fork detection) and crypto/eal/src/eal_rand.c (the     *)
(* contexts of the user, the shared seed DRBG behind the default entropy   *)
(* source, its reference count, the lock of a context).  The generators    *)
(* themselves are in DrbgCtx and DrbgCore.                                 *)
(*                                                                         *)
(* A process holds user contexts and at most one seed DRBG.  Fork copies   *)
(* all of it.  The working state V of a generator is abstracted to the     *)
(* entropy it was last seeded with and the number of requests served since:*)
(* generators with the same V yield the same bits, and nothing else does.  *)
(* Mixing the old V into a reseed is left out, so that only fresh entropy  *)
(* makes a stream new.  Additional input is the caller's and left out, and *)
(* so is the reseed after a time of the GM profiles, which can only add    *)
(* reseeds to the ones below.                                              *)
(*                                                                         *)
(* The draws of seed material inside one DRBG_Generate are one step: each  *)
(* of them holds the lock of the seed DRBG, and which of two contexts      *)
(* draws first makes no difference to any property below.  Contexts are    *)
(* created and released by one thread, as crypt_eal_rand.h requires.       *)
(***************************************************************************)
EXTENDS DrbgCtx, FiniteSets

CONSTANTS
  Pids,          \* process ids
  Ctxs,          \* handles of user contexts (CRYPT_EAL_RndCtx)
  SeedInterval,  \* reseedInterval of the seed DRBG: DRBG_RESEED_INTERVAL
  MaxEntropy,    \* bound: draws from the entropy pool; later ones fail
  Bounds,        \* sets of bounds, of which one holds: [ctxs, blocks, forks, intervals], namely
                 \* contexts of a process, blocks of maxRequest bytes in one request, calls of
                 \* fork, and the reseed intervals that a user may ask for
  PidReuse       \* may the system give the id of a dead process again?

\* 2^Width is a number greater than 2: stated, for the provers do not compute ^.
ASSUME DrbgAssumption ==
  /\ Width \in Nat /\ 2^Width \in Nat /\ 2^Width > 2
  /\ \A b \in Bounds : b.ctxs \in Nat /\ b.blocks \in Nat /\ b.forks \in Nat /\ b.intervals \subseteq Nat
  /\ SeedInterval \in Nat /\ SeedInterval < 2^Width - 1
  /\ MaxEntropy \in Nat
  /\ PidReuse \in BOOLEAN
  /\ IsFiniteSet(Ctxs)

VARIABLES
  proc,     \* per process: its life, its contexts, seed DRBG, references
  drawn,    \* number of draws from the entropy pool, over all processes
  forks,    \* number of forks
  emitted,  \* history: the V behind every block handed to a user
  repeated, \* history: some block was handed out twice
  stale,    \* history: a block came from a V older than its interval
  bound     \* the bounds of this behaviour, an element of Bounds

vars == <<proc, drawn, forks, emitted, repeated, stale, bound>>

-----------------------------------------------------------------------------
(* Sources of entropy.                                                      *)

\* The seed pool, counted over all processes: a draw is fresh or fails.
PoolDraw(c, n, pid) ==
  {[e |-> n, ok |-> FALSE, out |-> <<>>]}
  \cup (IF n < MaxEntropy THEN {[e |-> n + 1, ok |-> TRUE, out |-> <<n + 1>>]} ELSE {})

\* The seed DRBG draws from the pool.
SeedDrbg == INSTANCE DrbgCore WITH Source <- PoolDraw

\* What a context draws from: e is [s |-> seed DRBG of the process, n |-> draws].
OwnDraw(c, e, pid) ==
  { [e |-> [e EXCEPT !.n = d.e], ok |-> d.ok, out |-> d.out] : d \in PoolDraw(c, e.n, pid) }

GetSeedDrbgEntropy(e, pid) ==
  IF ~e.s.working THEN {[e |-> e, ok |-> FALSE, out |-> <<>>]}
  ELSE { [e |-> [s |-> g.c, n |-> g.e], ok |-> g.ok, out |-> <<g.out.seed, g.out.gen>>]
       : g \in SeedDrbg!DRBG_Generate(e.s, e.n, pid) }

DRBG_GetEntropy(c, e, pid) == IF c.isDefaultSeed THEN GetSeedDrbgEntropy(e, pid) ELSE OwnDraw(c, e, pid)

\* A context of the user draws from the source it was made with.
User == INSTANCE DrbgCore WITH Source <- DRBG_GetEntropy

-----------------------------------------------------------------------------
(* The EAL.                                                                 *)

Alive(p) == proc[p].life = "alive"

NoProc == [life |-> "unborn", ctx |-> [i \in Ctxs |-> NoCtx], seed |-> NoCtx, refs |-> 0]

Init ==
  /\ \E p \in Pids : proc = [q \in Pids |-> IF q = p THEN [NoProc EXCEPT !.life = "alive"] ELSE NoProc]
  /\ drawn = 0 /\ forks = 0
  /\ emitted = {} /\ repeated = FALSE /\ stale = FALSE
  /\ bound \in Bounds

NoOutput == UNCHANGED <<emitted, repeated, stale>>

Env(p) == [s |-> proc[p].seed, n |-> drawn]

\* Context i of process p, the seed DRBG and the pool after an operation.
Put(p, i, c, e) ==
  /\ proc' = [proc EXCEPT ![p].ctx[i] = c, ![p].seed = e.s]
  /\ drawn' = e.n

\* EAL_SeedDrbgInit: outcomes of making the seed DRBG.
EAL_SeedDrbgInit(p) ==
  { IF o.ok THEN [Outcome([o.c EXCEPT !.working = TRUE], o.e, TRUE) EXCEPT !.out = NoSeed]
    ELSE Outcome(NoCtx, o.e, FALSE)
  : o \in SeedDrbg!DRBG_Instantiate(DRBG_New(p, SeedInterval), drawn, p) }

\* Mutant: the last but one user frees the seed DRBG.
DeinitTooEarly(q) ==
  IF q.refs > 2 THEN [q EXCEPT !.refs = @ - 1] ELSE [q EXCEPT !.refs = 0, !.seed = NoCtx]

\* The references after a default-seeded context went away.
EAL_SeedDrbgDeinit(q) ==
  IF q.refs > 1 THEN [q EXCEPT !.refs = @ - 1]
  ELSE [q EXCEPT !.refs = 0, !.seed = NoCtx]

\* Mutant: UINT32_MAX is accepted.
IntervalUpToMax(n) == n < 2^Width

\* The intervals that CRYPT_EAL_DrbgCtrl takes before instantiation.
DRBG_SetReseedInterval(n) == n < 2^Width - 1

\* A free handle, within the bounds.
MayCreate(p, i) ==
  /\ Alive(p) /\ proc[p].ctx[i].state = "NONE"
  /\ Cardinality({j \in Ctxs : proc[p].ctx[j].state # "NONE"}) < bound.ctxs

\* CRYPT_EAL_DrbgNew and CRYPT_EAL_DrbgCtrl for a context with its own source.
CRYPT_EAL_DrbgNewOwnSeed(p, i) ==
  /\ MayCreate(p, i)
  /\ \E n \in bound.intervals, pr \in BOOLEAN :
       /\ DRBG_SetReseedInterval(n)
       /\ proc' = [proc EXCEPT ![p].ctx[i] = [DRBG_New(p, n) EXCEPT !.pr = pr]]
  /\ UNCHANGED <<drawn, forks>> /\ NoOutput

\* The same on the default source: the seed DRBG is found or made; a late
\* failure gives the reference back.
CRYPT_EAL_DrbgNewDefaultSeed(p, i) ==
  /\ MayCreate(p, i)
  /\ \E late \in BOOLEAN, n \in bound.intervals, pr \in BOOLEAN :
       LET new  == [DRBG_New(p, n) EXCEPT !.pr = pr, !.isDefaultSeed = TRUE]
           with(q) == IF late THEN EAL_SeedDrbgDeinit(q) ELSE [q EXCEPT !.ctx[i] = new]
       IN /\ DRBG_SetReseedInterval(n)
          /\ IF proc[p].seed.state # "NONE"
             THEN /\ proc' = [proc EXCEPT ![p] = with([proc[p] EXCEPT !.refs = @ + 1])]
                  /\ UNCHANGED drawn
             ELSE \E o \in EAL_SeedDrbgInit(p) :
                    /\ drawn' = o.e
                    /\ proc' = IF o.ok
                               THEN [proc EXCEPT ![p] = with([proc[p] EXCEPT !.seed = o.c, !.refs = 1])]
                               ELSE proc
  /\ UNCHANGED forks /\ NoOutput

\* The operations of a context on the source it was made with.
Usable(p, i) == Alive(p) /\ proc[p].ctx[i].state # "NONE" /\ proc[p].ctx[i].lock = "free"

CRYPT_EAL_DrbgInstantiate(p, i) ==
  /\ Usable(p, i)
  /\ LET c == proc[p].ctx[i]
     IN \E o \in User!DRBG_Instantiate(c, Env(p), p) :
          Put(p, i, IF o.ok THEN [o.c EXCEPT !.working = TRUE] ELSE o.c, o.e)
  /\ UNCHANGED forks /\ NoOutput

EAL_DrbgSeedWithAdin(p, i) ==
  /\ Usable(p, i) /\ proc[p].ctx[i].working
  /\ LET c == proc[p].ctx[i]
     IN \E o \in User!DRBG_Reseed(c, Env(p), p) : Put(p, i, o.c, o.e)
  /\ UNCHANGED forks /\ NoOutput

\* EAL_DrbgbytesWithAdin: take the lock, then DRBG_GenerateBytes block by block.
EAL_DrbgbytesWithAdin(p, i) ==
  /\ Usable(p, i) /\ proc[p].ctx[i].working
  /\ \E n \in 1 .. bound.blocks :
       proc' = [proc EXCEPT ![p].ctx[i].left = n, ![p].ctx[i].lock = "held"]
  /\ UNCHANGED <<drawn, forks>> /\ NoOutput

\* The blocks one seeding may serve; the interval 0 reseeds before each block.
SeedLife(c) == IF c.reseedInterval = 0 THEN 1 ELSE c.reseedInterval

\* One round of the loop; an error or the last block releases the lock.
DRBG_GenerateBytes(p, i) ==
  /\ Alive(p) /\ proc[p].ctx[i].lock = "held"
  /\ LET c == proc[p].ctx[i]
     IN \E o \in User!DRBG_Generate(c, Env(p), p) :
          LET left == IF o.ok THEN c.left - 1 ELSE 0
          IN /\ Put(p, i, [o.c EXCEPT !.left = left, !.lock = IF left = 0 THEN "free" ELSE "held"], o.e)
             /\ emitted'  = IF o.ok THEN emitted \cup {o.out} ELSE emitted
             /\ repeated' = (repeated \/ (o.ok /\ o.out \in emitted))
             /\ stale'    = (stale \/ (o.ok /\ o.c.age > SeedLife(o.c)))
  /\ UNCHANGED forks

\* EAL_RandDeinit of a context no thread uses.
EAL_RandDeinit(p, i) ==
  /\ Usable(p, i)
  /\ LET q == [proc[p] EXCEPT !.ctx[i] = NoCtx]
     IN proc' = [proc EXCEPT ![p] =
                   IF proc[p].ctx[i].isDefaultSeed THEN EAL_SeedDrbgDeinit(q) ELSE q]
  /\ UNCHANGED <<drawn, forks>> /\ NoOutput

-----------------------------------------------------------------------------
(* The operating system.                                                    *)

\* fork copies the memory, locks included; only the calling thread goes on,
\* so a lock another thread held in the parent is never released in the child.
ForkLock(c) == IF c.lock = "held" THEN [c EXCEPT !.lock = "orphaned"] ELSE c

Fork(p, q) ==
  /\ Alive(p) /\ ~Alive(q) /\ forks < bound.forks
  /\ PidReuse \/ proc[q].life = "unborn"
  /\ proc' = [proc EXCEPT ![q] = [proc[p] EXCEPT !.ctx = [i \in Ctxs |-> ForkLock(@[i])]]]
  /\ forks' = forks + 1
  /\ UNCHANGED drawn /\ NoOutput

Exit(p) ==
  /\ Alive(p) /\ \E q \in Pids \ {p} : Alive(q)
  /\ proc' = [proc EXCEPT ![p] = [NoProc EXCEPT !.life = "dead"]]
  /\ UNCHANGED <<drawn, forks>> /\ NoOutput

Operation(p, i) ==
  \/ CRYPT_EAL_DrbgNewOwnSeed(p, i)
  \/ CRYPT_EAL_DrbgNewDefaultSeed(p, i)
  \/ CRYPT_EAL_DrbgInstantiate(p, i)
  \/ EAL_DrbgSeedWithAdin(p, i)
  \/ EAL_DrbgbytesWithAdin(p, i)
  \/ DRBG_GenerateBytes(p, i)
  \/ EAL_RandDeinit(p, i)

Next ==
  /\ \/ \E p \in Pids, i \in Ctxs : Operation(p, i)
     \/ \E p, q \in Pids : Fork(p, q)
     \/ \E p \in Pids : Exit(p)
  /\ UNCHANGED bound

Spec == Init /\ [][Next]_vars

-----------------------------------------------------------------------------
(* Properties.                                                              *)

CtxOK(c) ==
  /\ c.state \in States
  /\ c.reseedCtr \in 0 .. (2^Width - 1) /\ c.reseedInterval \in Nat
  /\ c.forkId \in Pids \cup {0} /\ c.lock \in {"free", "held", "orphaned"}
  /\ c.left \in 0 .. bound.blocks /\ c.age \in Nat

\* Types of the contexts; in particular a context that holds a seed is READY
\* or was left in the middle of a reseed.
TypeOK ==
  /\ \A p \in Pids : /\ CtxOK(proc[p].seed)
                     /\ \A i \in Ctxs : CtxOK(proc[p].ctx[i])
                     /\ proc[p].refs \in 0 .. Cardinality(Ctxs)
  /\ drawn \in 0 .. MaxEntropy /\ forks \in 0 .. bound.forks

\* No two blocks of random bits are the same: not by two contexts, not by a
\* parent and its children after fork (DRBG_IsNeedReseed), not around a
\* failed reseed and the restart after it, not by two contexts that share a
\* seed DRBG ("the generated random numbers are different",
\* testcode/sdv/testcase/crypto/drbg/test_suite_sdv_drbg.c:1097).
NoRepeatedOutput == ~repeated

\* No block is generated from a seed that served more than reseedInterval
\* blocks (or one, if that is 0, which DRBG_SetReseedInterval accepts), although
\* the counter it is compared with is a 32-bit word.
SeedNotStale == ~stale

\* The seed DRBG lives exactly as long as a context that draws from it, in
\* every process: references counts those contexts.
DefaultUsers(p) == {i \in Ctxs : proc[p].ctx[i].isDefaultSeed}

SeedHeld ==
  \A p \in Pids : /\ proc[p].refs = Cardinality(DefaultUsers(p))
                  /\ (proc[p].refs > 0) <=> (proc[p].seed.state # "NONE")
=============================================================================
