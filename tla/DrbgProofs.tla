------------------------------ MODULE DrbgProofs ------------------------------
(***************************************************************************)
(* Drbg for any number of processes, contexts, forks, draws, blocks, and  *)
(* any width of the reseed counter.                                        *)
(***************************************************************************)
EXTENDS Drbg, Integers, FiniteSetTheorems, TLAPS

-------------------------------------------------------------------------------
(* Types. *)

\* The material of a seeding: a draw from the pool, or what the seed DRBG gave
\* out, which is known by the V behind it.
PoolSeeds == {<<k>> : k \in Nat}
Materials == {<<>>} \cup PoolSeeds \cup (PoolSeeds \X Nat)
Vs == [seed : Materials, gen : Nat]

DrbgCtxs ==
  [state : States, reseedCtr : Nat, reseedInterval : Nat, pr : BOOLEAN,
   forkId : Pids \cup {0}, v : Vs, age : Nat,
   isDefaultSeed : BOOLEAN, working : BOOLEAN, left : Int,
   lock : {"free", "held", "orphaned"}]

Processes ==
  [life : {"unborn", "alive", "dead"}, ctx : [Ctxs -> DrbgCtxs], seed : DrbgCtxs, refs : Nat]

TypeInv ==
  /\ proc \in [Pids -> Processes] /\ drawn \in Nat /\ forks \in Nat
  /\ emitted \subseteq Vs /\ repeated \in BOOLEAN /\ stale \in BOOLEAN /\ bound \in Bounds

-------------------------------------------------------------------------------
(* The parts of the inductive invariant. *)

\* The counter of a seeded generator is one ahead of the blocks it served, and
\* has not wrapped.
CounterOK(c) ==
  /\ c.reseedInterval < 2^Width - 1
  /\ c.state = "READY" => c.reseedCtr = c.age + 1 /\ c.age <= SeedLife(c)

CounterInv == \A p \in Pids, i \in Ctxs : CounterOK(proc[p].ctx[i])

\* A handle that is free does not hold a reference.
FreeHandles == \A p \in Pids, i \in Ctxs :
  proc[p].ctx[i].state = "NONE" => ~proc[p].ctx[i].isDefaultSeed

\* Generators that will produce without reseeding first: seeded in this process.
Active(c, p) == c.state = "READY" /\ c.forkId = p
ActiveUsers == {a \in Pids \X Ctxs : Active(proc[a[1]].ctx[a[2]], a[1])}
VOf(a) == proc[a[1]].ctx[a[2]].v

\* The materials that active contexts run on or that blocks were made from.
Used == {VOf(a).seed : a \in ActiveUsers} \cup {x.seed : x \in emitted}

\* u was made from at most the first n draws.
DrawnBy(u, n) ==
  \A k \in Nat : (u = <<k>> => k <= n) /\ \A g \in Nat : u = <<<<k>>, g>> => k <= n

\* The seed DRBG of q when process p has the entropy environment e.
SeedOf(q, p, e) == IF q = p THEN e.s ELSE proc[q].seed

Envs == [s : DrbgCtxs, n : Nat]

\* Every seed DRBG of the processes P can go on: its seed comes from the pool, no
\* other process runs on it, and the materials U it gave out are behind its V.
SeedsSafe(P, p, e, U) ==
  /\ e \in Envs
  /\ \A u \in U : DrawnBy(u, e.n)
  /\ \A q \in P : LET s == SeedOf(q, p, e) IN
       /\ s.state = "READY" => s.v.seed \in PoolSeeds /\ DrawnBy(s.v.seed, e.n)
       /\ Active(s, q) => \A g \in Nat : <<s.v.seed, g>> \in U => g < s.v.gen
  /\ \A q, r \in P :
       LET s == SeedOf(q, p, e)
           t == SeedOf(r, p, e)
       IN q # r /\ Active(s, q) /\ Active(t, r) => s.v.seed # t.v.seed

\* The same of all processes as they are.
SeedInv ==
  /\ \A u \in Used : DrawnBy(u, drawn)
  /\ \A q \in Pids :
       /\ proc[q].seed.state = "READY" =>
            proc[q].seed.v.seed \in PoolSeeds /\ DrawnBy(proc[q].seed.v.seed, drawn)
       /\ Active(proc[q].seed, q) =>
            \A g \in Nat : <<proc[q].seed.v.seed, g>> \in Used => g < proc[q].seed.v.gen
  /\ \A q, r \in Pids : q # r /\ Active(proc[q].seed, q) /\ Active(proc[r].seed, r)
                          => proc[q].seed.v.seed # proc[r].seed.v.seed

\* No two active contexts share a stream, and what was emitted is behind them.
StreamInv ==
  /\ \A a, b \in ActiveUsers : a # b => VOf(a).seed # VOf(b).seed
  /\ \A a \in ActiveUsers : \A x \in emitted : x.seed = VOf(a).seed => x.gen < VOf(a).gen

\* No generator claims a process id that was never given out.
UnbornInv ==
  \A q \in Pids : proc[q].life = "unborn" =>
    \A p \in Pids :
      /\ proc[p].seed.state # "NONE" => proc[p].seed.forkId # q
      /\ \A i \in Ctxs : proc[p].ctx[i].state # "NONE" => proc[p].ctx[i].forkId # q

-------------------------------------------------------------------------------
(* Materials and generators. *)

\* Materials of different draws, or of different V, differ.
LEMMA MaterialFacts ==
  /\ \A k \in Nat : <<k>> \in PoolSeeds /\ <<k>> \in Materials
  /\ \A k, l \in Nat : <<k>> = <<l>> => k = l
  /\ \A s \in PoolSeeds, g \in Nat : <<s, g>> \in Materials
  /\ \A s \in PoolSeeds, g, k \in Nat : <<s, g>> # <<k>>
  /\ \A s, t \in PoolSeeds, g, h \in Nat : <<s, g>> = <<t, h>> => s = t /\ g = h
<1>1. \A k \in Nat : <<k>> \in PoolSeeds /\ <<k>> \in Materials
  BY DEF PoolSeeds, Materials
<1>2. \A k, l \in Nat : <<k>> = <<l>> => k = l
  OBVIOUS
<1>3. \A s \in PoolSeeds, g \in Nat : <<s, g>> \in Materials
  BY DEF Materials
<1>4. \A s, g, k : <<s, g>> # <<k>>
  OBVIOUS
<1>5. \A s, t, g, h : <<s, g>> = <<t, h>> => s = t /\ g = h
  OBVIOUS
<1> QED BY <1>1, <1>2, <1>3, <1>4, <1>5

\* The generator after an operation of process p on c: what it is, how it is
\* seeded from, and its interval stay, and its counter stays right.
Reached(c, d, p) ==
  /\ d \in DrbgCtxs
  /\ d.isDefaultSeed = c.isDefaultSeed
  /\ d.reseedInterval = c.reseedInterval
  /\ d.state = "NONE" <=> c.state = "NONE"
  /\ d.forkId \in {c.forkId, p}
  /\ CounterOK(c) => CounterOK(d)

\* The value of a generator that was never seeded.
LEMMA NoSeedType == NoSeed \in Vs
  BY DEF NoSeed, Vs, Materials

\* A context that does not exist has no state that the invariants speak of.
LEMMA NoCtxType == NoCtx \in DrbgCtxs /\ CounterOK(NoCtx) /\ NoCtx.state = "NONE"
                   /\ NoCtx.isDefaultSeed = FALSE
  BY NoSeedType, DrbgAssumption DEF NoCtx, DrbgCtxs, States, CounterOK

\* A new generator is not seeded yet.
LEMMA NewType ==
  ASSUME NEW p \in Pids, NEW n \in Nat
  PROVE  /\ DRBG_New(p, n) \in DrbgCtxs /\ DRBG_New(p, n).state = "UNINITIALISED"
         /\ DRBG_New(p, n).reseedInterval = n /\ DRBG_New(p, n).forkId = p
         /\ DRBG_New(p, n).isDefaultSeed = FALSE
<1>1. DRBG_New(p, n) = [NoCtx EXCEPT !.state = "UNINITIALISED", !.reseedInterval = n, !.forkId = p]
  BY DEF DRBG_New
<1> QED BY <1>1, NoCtxType DEF DrbgCtxs, States

\* Cleansing the working state.
LEMMA UninstantiateType ==
  ASSUME NEW c \in DrbgCtxs, NEW p \in Pids, c.state = "ERROR"
  PROVE  Reached(c, DRBG_Uninstantiate(c), p) /\ DRBG_Uninstantiate(c).state = "UNINITIALISED"
  BY NoSeedType DEF DRBG_Uninstantiate, Reached, DrbgCtxs, States, CounterOK

\* A failed operation.
LEMMA ErrorType ==
  ASSUME NEW c \in DrbgCtxs, NEW p \in Pids, c.state # "NONE"
  PROVE  LET d == [c EXCEPT !.state = "ERROR"] IN Reached(c, d, p) /\ d.state = "ERROR"
  BY DEF Reached, DrbgCtxs, States, CounterOK

\* d is c seeded with m, in process f.
SeededAs(c, d, m, f) ==
  /\ d.state = "READY" /\ d.v = [seed |-> m, gen |-> 0] /\ d.forkId = f /\ d.reseedCtr = 1

\* Seeding, and seeding again in process p.
LEMMA SeededType ==
  ASSUME NEW c \in DrbgCtxs, NEW p \in Pids, NEW m \in Materials, c.state # "NONE"
  PROVE  /\ Reached(c, Seeded(c, m), p) /\ SeededAs(c, Seeded(c, m), m, c.forkId)
         /\ Reached(c, [Seeded(c, m) EXCEPT !.forkId = p], p)
         /\ SeededAs(c, [Seeded(c, m) EXCEPT !.forkId = p], m, p)
<1> DEFINE v == [seed |-> m, gen |-> 0]
<1>1. v \in Vs
  BY DEF Vs
<1> HIDE DEF v
<1> DEFINE d == Seeded(c, m)
           f == [d EXCEPT !.forkId = p]
<1>2. d = [c EXCEPT !.state = "READY", !.reseedCtr = 1, !.age = 0, !.v = v]
  BY DEF Seeded, v
<1> HIDE DEF d
<1>2a. d \in DrbgCtxs
  BY <1>1, <1>2 DEF DrbgCtxs, States
<1>3. d \in DrbgCtxs /\ d.state = "READY" /\ d.v = v /\ d.forkId = c.forkId /\ d.reseedCtr = 1
      /\ d.age = 0 /\ d.isDefaultSeed = c.isDefaultSeed /\ d.reseedInterval = c.reseedInterval
  BY <1>2, <1>2a DEF DrbgCtxs
<1>4. f \in DrbgCtxs /\ f.state = "READY" /\ f.v = v /\ f.forkId = p /\ f.reseedCtr = 1
      /\ f.age = 0 /\ f.isDefaultSeed = c.isDefaultSeed /\ f.reseedInterval = c.reseedInterval
  BY <1>3 DEF DrbgCtxs
<1> HIDE DEF f
<1>5. Reached(c, d, p) /\ Reached(c, f, p)
  BY <1>3, <1>4 DEF Reached, CounterOK, SeedLife, DrbgCtxs
<1> QED BY <1>3, <1>4, <1>5 DEF d, f, v, SeededAs

\* The counter after a block.
NextCounter(c) == (c.reseedCtr + 1) % 2^Width

\* o is the outcome of asking a seeded c for a block: V and the counter move, or
\* the mode fails and nothing does.
BlockOf(c, e, o) ==
  /\ o.e = e
  /\ \/ ~o.ok /\ o.c = c
     \/ /\ o.ok /\ o.out = c.v /\ o.c \in DrbgCtxs
        /\ o.c.v = [seed |-> c.v.seed, gen |-> c.v.gen + 1]
        /\ o.c.state = "READY" /\ o.c.forkId = c.forkId
        /\ o.c.isDefaultSeed = c.isDefaultSeed
        /\ o.c.reseedInterval = c.reseedInterval
        /\ o.c.age = c.age + 1
        /\ o.c.reseedCtr = NextCounter(c)

\* A block from the generator: the value moves on by one, or nothing happens.
LEMMA ModeGenerateType ==
  ASSUME NEW c \in DrbgCtxs, NEW e, NEW o \in ModeGenerate(c, e), c.state = "READY"
  PROVE  BlockOf(c, e, o)
<1> DEFINE d == [c EXCEPT !.v.gen = @ + 1, !.age = @ + 1, !.reseedCtr = (@ + 1) % 2^Width]
<1>1. \/ o = [c |-> c, e |-> e, ok |-> FALSE, out |-> NoSeed]
      \/ o = [c |-> d, e |-> e, ok |-> TRUE, out |-> c.v]
  BY DEF ModeGenerate, Outcome
<1>2. c.v.seed \in Materials /\ c.v.gen \in Nat /\ c.v = [seed |-> c.v.seed, gen |-> c.v.gen]
  BY DEF DrbgCtxs, Vs
<1>3. [c.v EXCEPT !.gen = c.v.gen + 1] = [seed |-> c.v.seed, gen |-> c.v.gen + 1]
  BY <1>2
<1>4. [seed |-> c.v.seed, gen |-> c.v.gen + 1] \in Vs
  BY <1>2 DEF Vs
<1>5. NextCounter(c) \in Nat
  BY DrbgAssumption DEF DrbgCtxs, NextCounter
<1> DEFINE v == [seed |-> c.v.seed, gen |-> c.v.gen + 1]
           r == NextCounter(c)
           a == c.age + 1
<1>6. d = [c EXCEPT !.v = v, !.age = a, !.reseedCtr = r]
  BY <1>3 DEF DrbgCtxs, NextCounter
<1>6a. v \in Vs /\ r \in Nat /\ a \in Nat
  BY <1>4, <1>5 DEF DrbgCtxs
<1> HIDE DEF v, r, a, d
<1>6b. d \in DrbgCtxs
  BY <1>6, <1>6a DEF DrbgCtxs
<1>7. /\ d \in DrbgCtxs /\ d.v = v
      /\ d.state = "READY" /\ d.forkId = c.forkId /\ d.isDefaultSeed = c.isDefaultSeed
      /\ d.reseedInterval = c.reseedInterval /\ d.age = a /\ d.reseedCtr = r
  BY <1>6, <1>6b DEF DrbgCtxs
<1> QED BY <1>1, <1>7 DEF v, r, a, BlockOf

\* The counter after a block that was allowed: it does not wrap.
LEMMA CounterStep ==
  ASSUME NEW c \in DrbgCtxs, NEW e, NEW o, BlockOf(c, e, o), c.state = "READY",
         CounterOK(c), c.reseedCtr <= SeedLife(c)
  PROVE  CounterOK(o.c) /\ (o.ok => o.c.age <= SeedLife(o.c))
<1>1. /\ 2^Width \in Nat /\ 2^Width > 2 /\ c.reseedCtr \in Nat /\ c.age \in Nat
      /\ c.reseedInterval \in Nat
  BY DrbgAssumption DEF DrbgCtxs
<1>2. SeedLife(c) \in Nat /\ SeedLife(c) + 1 < 2^Width
  BY <1>1 DEF SeedLife, CounterOK
<1>3. NextCounter(c) = c.reseedCtr + 1
  BY <1>1, <1>2 DEF NextCounter
<1>4. CASE ~o.ok
  BY <1>4 DEF BlockOf
<1>5. CASE o.ok
  <2>1. /\ o.c.age = c.age + 1 /\ o.c.reseedCtr = NextCounter(c)
        /\ o.c.state = "READY" /\ o.c.reseedInterval = c.reseedInterval
    BY <1>5 DEF BlockOf
  <2> QED BY <1>1, <1>2, <1>3, <2>1 DEF CounterOK, SeedLife
<1> QED BY <1>4, <1>5

\* Nothing happened.
LEMMA ReachedSelf == ASSUME NEW c \in DrbgCtxs, NEW p PROVE Reached(c, c, p)
  BY DEF Reached

\* Two operations in a row.
LEMMA ReachedTrans ==
  ASSUME NEW c, NEW d, NEW f, NEW p, Reached(c, d, p), Reached(d, f, p)
  PROVE  Reached(c, f, p)
  BY DEF Reached

-------------------------------------------------------------------------------
(* The seed DRBG: it draws from the pool. *)

\* The operations of DrbgCtx are the same for every generator.
LEMMA SeedOps ==
  /\ \A c, e, ok : SeedDrbg!Outcome(c, e, ok) = Outcome(c, e, ok)
  /\ \A c, m : SeedDrbg!Seeded(c, m) = Seeded(c, m)
  /\ \A c : SeedDrbg!DRBG_Uninstantiate(c) = DRBG_Uninstantiate(c)
  /\ \A c, pid : SeedDrbg!DRBG_IsNeedReseed(c, pid) <=> DRBG_IsNeedReseed(c, pid)
  /\ \A c, e : SeedDrbg!ModeGenerate(c, e) = ModeGenerate(c, e)
<1>1. \A c, e, ok : SeedDrbg!Outcome(c, e, ok) = Outcome(c, e, ok)
  BY DEF SeedDrbg!Outcome, Outcome, SeedDrbg!NoSeed, NoSeed
<1>2. \A c, m : SeedDrbg!Seeded(c, m) = Seeded(c, m)
  BY Zenon DEF SeedDrbg!Seeded, Seeded
<1>3. \A c : SeedDrbg!DRBG_Uninstantiate(c) = DRBG_Uninstantiate(c)
  BY Zenon DEF SeedDrbg!DRBG_Uninstantiate, DRBG_Uninstantiate, SeedDrbg!NoSeed, NoSeed
<1>4. \A c, pid : SeedDrbg!DRBG_IsNeedReseed(c, pid) <=> DRBG_IsNeedReseed(c, pid)
  BY DEF SeedDrbg!DRBG_IsNeedReseed, DRBG_IsNeedReseed
<1>5. \A c, e : SeedDrbg!ModeGenerate(c, e) = ModeGenerate(c, e)
  BY Zenon DEF SeedDrbg!ModeGenerate, ModeGenerate, SeedDrbg!Outcome, Outcome, SeedDrbg!NoSeed, NoSeed
<1> QED BY <1>1, <1>2, <1>3, <1>4, <1>5

\* A draw after the first n is fresh, or fails.
PoolOutcome(n, d) ==
  d.e \in Nat /\ n <= d.e /\ (d.ok => d.e = n + 1 /\ d.out = <<n + 1>>)

\* A draw from the entropy pool takes the next number or fails.
LEMMA PoolDrawStep ==
  ASSUME NEW c, NEW n \in Nat, NEW p, NEW d \in PoolDraw(c, n, p)
  PROVE  PoolOutcome(n, d)
  BY DEF PoolDraw, PoolOutcome

\* An operation on the seed DRBG s after n draws: it is seeded as before, or
\* from a new draw.
SeedAfter(p, s, n, o) ==
  /\ Reached(s, o.c, p) /\ o.e \in Nat /\ n <= o.e
  /\ o.c.state = "READY" =>
       \/ s.state = "READY" /\ o.c.v = s.v /\ o.c.forkId = s.forkId
       \/ \E k \in Nat : n < k /\ k <= o.e /\ o.c.v = [seed |-> <<k>>, gen |-> 0]

\* Two operations on the seed DRBG one after the other.
LEMMA SeedAfterTrans ==
  ASSUME NEW p, NEW s, NEW n \in Nat, NEW r, NEW o,
         SeedAfter(p, s, n, r), SeedAfter(p, r.c, r.e, o)
  PROVE  SeedAfter(p, s, n, o)
<1>1. Reached(s, o.c, p)
  BY ReachedTrans DEF SeedAfter
<1>2. r.e \in Nat /\ o.e \in Nat /\ n <= r.e /\ r.e <= o.e
  BY DEF SeedAfter
<1>3. ASSUME o.c.state = "READY"
      PROVE  \/ s.state = "READY" /\ o.c.v = s.v /\ o.c.forkId = s.forkId
             \/ \E k \in Nat : n < k /\ k <= o.e /\ o.c.v = [seed |-> <<k>>, gen |-> 0]
  <2>1. CASE r.c.state = "READY" /\ o.c.v = r.c.v /\ o.c.forkId = r.c.forkId
    BY <1>2, <2>1 DEF SeedAfter
  <2>2. CASE \E k \in Nat : r.e < k /\ k <= o.e /\ o.c.v = [seed |-> <<k>>, gen |-> 0]
    BY <1>2, <2>2
  <2> QED BY <1>3, <2>1, <2>2 DEF SeedAfter
<1> QED BY <1>1, <1>2, <1>3 DEF SeedAfter

\* The outcome of a seeding that failed, and of one that worked.
LEMMA SeedFails ==
  ASSUME NEW p \in Pids, NEW s \in DrbgCtxs, NEW n \in Nat, NEW e \in Nat, n <= e,
         s.state # "NONE"
  PROVE  SeedAfter(p, s, n, Outcome([s EXCEPT !.state = "ERROR"], e, FALSE))
<1> DEFINE d == [s EXCEPT !.state = "ERROR"]
<1>1. Reached(s, d, p) /\ d.state = "ERROR"
  BY ErrorType
<1> HIDE DEF d
<1>2. SeedAfter(p, s, n, Outcome(d, e, FALSE))
  BY <1>1 DEF SeedAfter, Outcome
<1> QED BY <1>2 DEF d

\* The seed DRBG is seeded with the number e.
LEMMA SeedWorks ==
  ASSUME NEW p \in Pids, NEW s \in DrbgCtxs, NEW n \in Nat, NEW e \in Nat, n < e,
         NEW d, NEW f, Reached(s, d, p), SeededAs(s, d, <<e>>, f)
  PROVE  SeedAfter(p, s, n, Outcome(d, e, TRUE))
  BY DEF SeedAfter, SeededAs, Outcome

\* DRBG_Instantiate of the seed DRBG.
LEMMA SeedInstantiateStep ==
  ASSUME NEW p \in Pids, NEW s \in DrbgCtxs, NEW n \in Nat,
         NEW o \in SeedDrbg!DRBG_Instantiate(s, n, p)
  PROVE  SeedAfter(p, s, n, o) /\ (o.ok => o.c.state = "READY")
<1>1. CASE s.state # "UNINITIALISED"
  <2>1. o = Outcome(s, n, FALSE)
    BY <1>1, SeedOps DEF SeedDrbg!DRBG_Instantiate
  <2> QED BY <2>1, ReachedSelf DEF SeedAfter, Outcome
<1>2. CASE s.state = "UNINITIALISED"
  <2> DEFINE failed == [s EXCEPT !.state = "ERROR"]
  <2>0. \E nonce \in PoolDraw(s, n, p) :
          \/ ~nonce.ok /\ o = SeedDrbg!Outcome(failed, nonce.e, FALSE)
          \/ \E ent \in PoolDraw(s, nonce.e, p) :
               \/ o = SeedDrbg!Outcome(failed, ent.e, FALSE)
               \/ ent.ok /\ o = SeedDrbg!Outcome(SeedDrbg!Seeded(s, ent.out), ent.e, TRUE)
    BY <1>2 DEF SeedDrbg!DRBG_Instantiate
  <2> HIDE DEF failed
  <2>1. PICK nonce \in PoolDraw(s, n, p) :
          \/ ~nonce.ok /\ o = Outcome(failed, nonce.e, FALSE)
          \/ \E ent \in PoolDraw(s, nonce.e, p) :
               \/ o = Outcome(failed, ent.e, FALSE)
               \/ ent.ok /\ o = Outcome(Seeded(s, ent.out), ent.e, TRUE)
    BY <2>0, SeedOps
  <2>2. nonce.e \in Nat /\ n <= nonce.e
    BY PoolDrawStep DEF PoolOutcome
  <2>3. CASE ~nonce.ok /\ o = Outcome(failed, nonce.e, FALSE)
    BY <1>2, <2>2, <2>3, SeedFails DEF Outcome, failed
  <2>4. ASSUME NEW ent \in PoolDraw(s, nonce.e, p),
               \/ o = Outcome(failed, ent.e, FALSE)
               \/ ent.ok /\ o = Outcome(Seeded(s, ent.out), ent.e, TRUE)
        PROVE  SeedAfter(p, s, n, o) /\ (o.ok => o.c.state = "READY")
    <3>1. PoolOutcome(nonce.e, ent)
      BY <2>2, PoolDrawStep
    <3>2. ent.e \in Nat /\ n <= ent.e
      BY <2>2, <3>1 DEF PoolOutcome
    <3>3. CASE o = Outcome(failed, ent.e, FALSE)
      BY <1>2, <3>2, <3>3, SeedFails DEF Outcome, failed
    <3>4. CASE ent.ok /\ o = Outcome(Seeded(s, ent.out), ent.e, TRUE)
      <4>1. ent.out = <<ent.e>> /\ n < ent.e
        BY <2>2, <3>1, <3>4 DEF PoolOutcome
      <4>2. <<ent.e>> \in Materials
        BY <3>2, MaterialFacts
      <4>3. Reached(s, Seeded(s, ent.out), p) /\ SeededAs(s, Seeded(s, ent.out), <<ent.e>>, s.forkId)
        BY <1>2, <4>1, <4>2, SeededType
      <4> DEFINE d == Seeded(s, ent.out)
      <4> HIDE DEF d
      <4>4. SeedAfter(p, s, n, Outcome(d, ent.e, TRUE))
        BY <3>2, <4>1, <4>3, SeedWorks DEF d
      <4>5. Outcome(d, ent.e, TRUE).c.state = "READY"
        BY <4>3 DEF SeededAs, Outcome, d
      <4> QED BY <3>4, <4>4, <4>5 DEF d
    <3> QED BY <2>4, <3>3, <3>4
  <2> QED BY <2>1, <2>3, <2>4
<1> QED BY <1>1, <1>2

\* DRBG_Restart of the seed DRBG.
LEMMA SeedRestartStep ==
  ASSUME NEW p \in Pids, NEW s \in DrbgCtxs, NEW n \in Nat,
         NEW o \in SeedDrbg!DRBG_Restart(s, n, p)
  PROVE  SeedAfter(p, s, n, o) /\ (o.ok => o.c.state = "READY")
<1>1. CASE s.state = "READY"
  <2>1. o = Outcome(s, n, TRUE)
    BY <1>1, SeedOps DEF SeedDrbg!DRBG_Restart
  <2> QED BY <1>1, <2>1, ReachedSelf DEF SeedAfter, Outcome
<1>2. CASE s.state = "ERROR"
  <2> DEFINE d == DRBG_Uninstantiate(s)
  <2>1. o \in SeedDrbg!DRBG_Instantiate(d, n, p)
    BY <1>2, SeedOps DEF SeedDrbg!DRBG_Restart
  <2>2. Reached(s, d, p) /\ d.state = "UNINITIALISED" /\ d \in DrbgCtxs
    BY <1>2, UninstantiateType DEF Reached
  <2> HIDE DEF d
  <2>3. SeedAfter(p, d, n, o) /\ (o.ok => o.c.state = "READY")
    BY <2>1, <2>2, SeedInstantiateStep
  <2>4. Reached(s, o.c, p)
    BY <2>2, <2>3, ReachedTrans DEF SeedAfter
  <2> QED BY <2>2, <2>3, <2>4 DEF SeedAfter
<1>3. CASE s.state # "READY" /\ s.state # "ERROR"
  <2>1. o \in SeedDrbg!DRBG_Instantiate(s, n, p)
    BY <1>3, SeedOps DEF SeedDrbg!DRBG_Restart
  <2> QED BY <2>1, SeedInstantiateStep
<1> QED BY <1>1, <1>2, <1>3

\* DRBG_Reseed of the seed DRBG.
LEMMA SeedReseedStep ==
  ASSUME NEW p \in Pids, NEW s \in DrbgCtxs, NEW n \in Nat,
         NEW o \in SeedDrbg!DRBG_Reseed(s, n, p)
  PROVE  SeedAfter(p, s, n, o) /\ (o.ok => Active(o.c, p))
<1>1. PICK r \in SeedDrbg!DRBG_Restart(s, n, p) :
        (~r.ok /\ o = r) \/ (r.ok /\ o \in SeedDrbg!ReseedReady(r.c, r.e, p))
  BY DEF SeedDrbg!DRBG_Reseed
<1>2. SeedAfter(p, s, n, r) /\ (r.ok => r.c.state = "READY")
  BY SeedRestartStep
<1>3. CASE ~r.ok /\ o = r
  BY <1>2, <1>3
<1>4. CASE r.ok /\ o \in SeedDrbg!ReseedReady(r.c, r.e, p)
  <2>0. r.c \in DrbgCtxs /\ r.e \in Nat /\ r.c.state = "READY"
    BY <1>2, <1>4 DEF SeedAfter, Reached
  <2> DEFINE c == r.c
             e == r.e
             failed == [c EXCEPT !.state = "ERROR"]
  <2>1. \E ent \in PoolDraw(c, e, p) :
          \/ o = SeedDrbg!Outcome(failed, ent.e, FALSE)
          \/ ent.ok /\ o = SeedDrbg!Outcome([SeedDrbg!Seeded(c, ent.out) EXCEPT !.forkId = p], ent.e, TRUE)
    BY <1>4 DEF SeedDrbg!ReseedReady
  <2> HIDE DEF failed, c, e
  <2>2. PICK ent \in PoolDraw(c, e, p) :
          \/ o = Outcome(failed, ent.e, FALSE)
          \/ ent.ok /\ o = Outcome([Seeded(c, ent.out) EXCEPT !.forkId = p], ent.e, TRUE)
    BY <2>1, SeedOps
  <2>3. c \in DrbgCtxs /\ e \in Nat /\ c.state # "NONE"
    BY <2>0 DEF c, e
  <2>4. PoolOutcome(e, ent) /\ ent.e \in Nat /\ e <= ent.e
    BY <2>3, PoolDrawStep DEF PoolOutcome
  <2>5. SeedAfter(p, c, e, o) /\ (o.ok => Active(o.c, p))
    <3>1. CASE o = Outcome(failed, ent.e, FALSE)
      BY <2>3, <2>4, <3>1, SeedFails DEF Outcome, failed
    <3>2. CASE ent.ok /\ o = Outcome([Seeded(c, ent.out) EXCEPT !.forkId = p], ent.e, TRUE)
      <4> DEFINE d == [Seeded(c, ent.out) EXCEPT !.forkId = p]
      <4>1. ent.out = <<ent.e>> /\ e < ent.e /\ <<ent.e>> \in Materials
        BY <2>3, <2>4, <3>2, MaterialFacts DEF PoolOutcome
      <4>2. Reached(c, d, p) /\ SeededAs(c, d, <<ent.e>>, p)
        BY <2>3, <4>1, SeededType
      <4> HIDE DEF d
      <4>3. SeedAfter(p, c, e, Outcome(d, ent.e, TRUE))
        BY <2>3, <2>4, <4>1, <4>2, SeedWorks
      <4>4. Active(Outcome(d, ent.e, TRUE).c, p)
        BY <4>2 DEF SeededAs, Outcome, Active
      <4> QED BY <3>2, <4>3, <4>4 DEF d
    <3> QED BY <2>2, <3>1, <3>2
  <2> QED BY <1>2, <2>5, SeedAfterTrans DEF c, e
<1> QED BY <1>1, <1>3, <1>4

\* Asking the seed DRBG for a block: a failure on the way, or a block from a
\* generator that is seeded in this process.
SeedBlock(p, s, n, o) ==
  \/ ~o.ok /\ SeedAfter(p, s, n, o)
  \/ \E r : SeedAfter(p, s, n, r) /\ Active(r.c, p) /\ BlockOf(r.c, r.e, o)

\* DRBG_Generate of the seed DRBG: a block from its value, or from a new seed.
LEMMA SeedGenerateStep ==
  ASSUME NEW p \in Pids, NEW s \in DrbgCtxs, NEW n \in Nat,
         NEW o \in SeedDrbg!DRBG_Generate(s, n, p)
  PROVE  SeedBlock(p, s, n, o)
<1>0. \E r \in SeedDrbg!DRBG_Restart(s, n, p) :
        \/ ~r.ok /\ o = r
        \/ r.ok /\ ~SeedDrbg!DRBG_IsNeedReseed(r.c, p) /\ o \in SeedDrbg!ModeGenerate(r.c, r.e)
        \/ r.ok /\ \E t \in SeedDrbg!DRBG_Reseed(r.c, r.e, p) :
             (~t.ok /\ o = t) \/ (t.ok /\ o \in SeedDrbg!ModeGenerate(t.c, t.e))
  BY DEF SeedDrbg!DRBG_Generate
<1>1. PICK r \in SeedDrbg!DRBG_Restart(s, n, p) :
        \/ ~r.ok /\ o = r
        \/ r.ok /\ ~DRBG_IsNeedReseed(r.c, p) /\ o \in ModeGenerate(r.c, r.e)
        \/ r.ok /\ \E t \in SeedDrbg!DRBG_Reseed(r.c, r.e, p) :
             (~t.ok /\ o = t) \/ (t.ok /\ o \in ModeGenerate(t.c, t.e))
  BY <1>0, SeedOps
<1>2. SeedAfter(p, s, n, r) /\ (r.ok => r.c.state = "READY")
  BY SeedRestartStep
<1>3. r.c \in DrbgCtxs /\ r.e \in Nat
  BY <1>2 DEF SeedAfter, Reached
<1>4. CASE ~r.ok /\ o = r
  BY <1>2, <1>4 DEF SeedBlock
<1>5. CASE r.ok /\ ~DRBG_IsNeedReseed(r.c, p) /\ o \in ModeGenerate(r.c, r.e)
  <2>1. Active(r.c, p)
    BY <1>2, <1>5 DEF DRBG_IsNeedReseed, Active
  <2>2. BlockOf(r.c, r.e, o)
    BY <1>2, <1>3, <1>5, ModeGenerateType
  <2> QED BY <1>2, <2>1, <2>2 DEF SeedBlock
<1>6. ASSUME NEW t \in SeedDrbg!DRBG_Reseed(r.c, r.e, p),
             (~t.ok /\ o = t) \/ (t.ok /\ o \in ModeGenerate(t.c, t.e))
      PROVE  SeedBlock(p, s, n, o)
  <2>1. SeedAfter(p, r.c, r.e, t) /\ (t.ok => Active(t.c, p))
    BY <1>3, SeedReseedStep
  <2>2. SeedAfter(p, s, n, t)
    BY <1>2, <2>1, SeedAfterTrans
  <2>3. CASE ~t.ok /\ o = t
    BY <2>2, <2>3 DEF SeedBlock
  <2>4. CASE t.ok /\ o \in ModeGenerate(t.c, t.e)
    <3>1. t.c \in DrbgCtxs /\ t.c.state = "READY"
      BY <2>1, <2>4 DEF SeedAfter, Reached, Active
    <3>2. BlockOf(t.c, t.e, o)
      BY <2>4, <3>1, ModeGenerateType
    <3> QED BY <2>1, <2>2, <2>4, <3>2 DEF SeedBlock
  <2> QED BY <1>6, <2>3, <2>4
<1> QED BY <1>1, <1>4, <1>5, <1>6

-------------------------------------------------------------------------------
(* The entropy of a user's context: its own source or the seed DRBG. *)

\* What holds of more materials holds of fewer.
LEMMA SafeSubset ==
  ASSUME NEW P, NEW p, NEW e, NEW U, NEW W, SeedsSafe(P, p, e, U), W \subseteq U
  PROVE  SeedsSafe(P, p, e, W)
  BY DEF SeedsSafe

\* Materials stay bounded while draws go on.
LEMMA DrawnByMore ==
  ASSUME NEW u, NEW n \in Nat, NEW m \in Nat, n <= m, DrawnBy(u, n)
  PROVE  DrawnBy(u, m)
  BY DEF DrawnBy

\* A material from the next draw is new.
LEMMA DrawnByNext ==
  ASSUME NEW n \in Nat, NEW k \in Nat, n < k
  PROVE  ~DrawnBy(<<k>>, n) /\ DrawnBy(<<k>>, k) /\ \A g \in Nat : ~DrawnBy(<<<<k>>, g>>, n)
<1>1. <<k>> = <<k>> /\ \A g : <<<<k>>, g>> = <<<<k>>, g>>
  OBVIOUS
<1>2. ~DrawnBy(<<k>>, n) /\ \A g \in Nat : ~DrawnBy(<<<<k>>, g>>, n)
  BY DEF DrawnBy
<1>3. DrawnBy(<<k>>, k)
  BY MaterialFacts DEF DrawnBy
<1> QED BY <1>2, <1>3

\* More draws from the pool leave the seeds to come as they were.
LEMMA SafeAdvance ==
  ASSUME NEW P, NEW p, NEW e, NEW U, NEW n \in Nat, SeedsSafe(P, p, e, U), e.n <= n
  PROVE  SeedsSafe(P, p, [s |-> e.s, n |-> n], U)
<1> DEFINE f == [s |-> e.s, n |-> n]
<1>1. f \in Envs /\ f.s = e.s /\ f.n = n /\ e.n \in Nat
  BY DEF SeedsSafe, Envs
<1> HIDE DEF f
<1>2. \A q \in P : SeedOf(q, p, f) = SeedOf(q, p, e)
  BY <1>1 DEF SeedOf
<1>3. \A u : DrawnBy(u, e.n) => DrawnBy(u, n)
  BY <1>1, DrawnByMore DEF SeedsSafe
<1>4. SeedsSafe(P, p, f, U)
  BY <1>1, <1>2, <1>3 DEF SeedsSafe
<1> QED BY <1>4 DEF f

\* A seed DRBG of p that is seeded as before, or from a new draw, or not at all.
LEMMA SafeReplace ==
  ASSUME NEW P \in SUBSET Pids, NEW p \in P, NEW e, NEW U, SeedsSafe(P, p, e, U),
         NEW s \in DrbgCtxs, NEW n \in Nat, e.n <= n,
         s.state = "READY" =>
           \/ e.s.state = "READY" /\ s.v = e.s.v /\ s.forkId = e.s.forkId
           \/ \E k \in Nat : e.n < k /\ k <= n /\ s.v = [seed |-> <<k>>, gen |-> 0]
  PROVE  SeedsSafe(P, p, [s |-> s, n |-> n], U)
<1> DEFINE f == [s |-> s, n |-> n]
<1>0. e \in Envs /\ e.n \in Nat /\ e.s \in DrbgCtxs
  BY DEF SeedsSafe, Envs
<1>1. f \in Envs /\ f.s = s /\ f.n = n
  BY DEF Envs
<1> SUFFICES SeedsSafe(P, p, f, U)
  OBVIOUS
<1> HIDE DEF f
<1>2. SeedOf(p, p, f) = s /\ SeedOf(p, p, e) = e.s
      /\ \A q \in P : q # p => SeedOf(q, p, f) = SeedOf(q, p, e)
  BY <1>1 DEF SeedOf
<1>3. \A u : DrawnBy(u, e.n) => DrawnBy(u, n)
  BY <1>0, <1>1, DrawnByMore
<1>4. CASE s.state # "READY"
  BY <1>1, <1>2, <1>3, <1>4 DEF SeedsSafe, Active
<1>5. CASE s.state = "READY" /\ e.s.state = "READY" /\ s.v = e.s.v /\ s.forkId = e.s.forkId
  <2>1. Active(s, p) <=> Active(e.s, p)
    BY <1>5 DEF Active
  <2> QED BY <1>1, <1>2, <1>3, <1>5, <2>1 DEF SeedsSafe
<1>6. ASSUME NEW k \in Nat, e.n < k, k <= n, s.v = [seed |-> <<k>>, gen |-> 0]
      PROVE  SeedsSafe(P, p, f, U)
  <2>1. <<k>> \in PoolSeeds /\ DrawnBy(<<k>>, n) /\ ~DrawnBy(<<k>>, e.n)
        /\ \A g \in Nat : ~DrawnBy(<<<<k>>, g>>, e.n)
    BY <1>0, <1>6, MaterialFacts, DrawnByNext, DrawnByMore
  <2> DEFINE m == <<k>>
  <2>2. s.v.seed = m
    BY <1>6
  <2>3. m \in PoolSeeds /\ DrawnBy(m, n) /\ ~DrawnBy(m, e.n) /\ \A g \in Nat : <<m, g>> \notin U
    BY <2>1 DEF SeedsSafe
  <2> HIDE DEF m
  <2>4. \A q \in P : q # p /\ Active(SeedOf(q, p, e), q) => SeedOf(q, p, e).v.seed # m
    BY <2>3 DEF SeedsSafe, Active
  <2> QED BY <1>1, <1>2, <1>3, <2>2, <2>3, <2>4 DEF SeedsSafe
<1> QED BY <1>4, <1>5, <1>6

\* An operation on the seed DRBG of p keeps every seed DRBG safe.
LEMMA SafeSeedStep ==
  ASSUME NEW P \in SUBSET Pids, NEW p \in P, NEW e, NEW U, NEW o,
         SeedsSafe(P, p, e, U), SeedAfter(p, e.s, e.n, o)
  PROVE  SeedsSafe(P, p, [s |-> o.c, n |-> o.e], U)
<1>1. o.c \in DrbgCtxs /\ o.e \in Nat /\ e.n <= o.e
  BY DEF SeedAfter, Reached
<1>2. o.c.state = "READY" =>
           \/ e.s.state = "READY" /\ o.c.v = e.s.v /\ o.c.forkId = e.s.forkId
           \/ \E k \in Nat : e.n < k /\ k <= o.e /\ o.c.v = [seed |-> <<k>>, gen |-> 0]
  BY DEF SeedAfter
<1> QED BY <1>1, <1>2, SafeReplace

\* A block of an active seed DRBG is new material, and is then behind its V.
LEMMA SafeBlock ==
  ASSUME NEW P \in SUBSET Pids, NEW p \in P, NEW c, NEW n, NEW U, NEW o, SeedsSafe(P, p, [s |-> c, n |-> n], U),
         Active(c, p), BlockOf(c, n, o), o.ok
  PROVE  LET m == <<o.out.seed, o.out.gen>> IN
         /\ m \in Materials /\ m \notin U
         /\ SeedsSafe(P, p, [s |-> o.c, n |-> o.e], U \cup {m})
<1> DEFINE e == [s |-> c, n |-> n]
           f == [s |-> o.c, n |-> o.e]
           m == <<o.out.seed, o.out.gen>>
<1>1. /\ e \in Envs /\ e.s = c /\ e.n = n /\ n \in Nat /\ c \in DrbgCtxs
      /\ SeedOf(p, p, e) = c
  BY DEF SeedsSafe, Envs, SeedOf
<1>2. SeedsSafe(P, p, e, U)
  OBVIOUS
<1> HIDE DEF e
<1>3. /\ o.e = n /\ o.out = c.v /\ o.c \in DrbgCtxs /\ o.c.state = "READY"
      /\ o.c.v = [seed |-> c.v.seed, gen |-> c.v.gen + 1] /\ o.c.forkId = c.forkId
  BY DEF BlockOf
<1>4. /\ o.c.v.seed = c.v.seed /\ o.c.v.gen = c.v.gen + 1 /\ c.v.gen \in Nat
      /\ o.out.seed = c.v.seed /\ o.out.gen = c.v.gen
  BY <1>1, <1>3 DEF DrbgCtxs, Vs
<1>5. /\ c.v.seed \in PoolSeeds /\ DrawnBy(c.v.seed, n)
      /\ \A g \in Nat : <<c.v.seed, g>> \in U => g < c.v.gen
  BY <1>1, <1>2 DEF SeedsSafe, Active
<1>6. f \in Envs /\ f.s = o.c /\ f.n = n /\ SeedOf(p, p, f) = o.c
      /\ \A q \in P : q # p => SeedOf(q, p, f) = SeedOf(q, p, e)
  BY <1>1, <1>3 DEF Envs, SeedOf, e
<1> HIDE DEF f
<1>7. m = <<c.v.seed, c.v.gen>> /\ m \in Materials /\ m \notin U
  BY <1>4, <1>5, MaterialFacts
<1>8. DrawnBy(m, n)
  <2>1. \A k \in Nat : m # <<k>>
    BY <1>4, <1>5, <1>7, MaterialFacts
  <2>2. \A k, g \in Nat : m = <<<<k>>, g>> => c.v.seed = <<k>>
    BY <1>4, <1>5, <1>7, MaterialFacts
  <2> QED BY <1>5, <2>1, <2>2 DEF DrawnBy
<1>9. \A g \in Nat, t \in PoolSeeds : <<t, g>> = m => t = c.v.seed /\ g = c.v.gen
  BY <1>4, <1>5, <1>7, MaterialFacts
<1> HIDE DEF m
<1>10. Active(o.c, p)
  BY <1>3 DEF Active
<1>11. \A g \in Nat : <<o.c.v.seed, g>> \in U \cup {m} => g < o.c.v.gen
  BY <1>4, <1>5, <1>9
<1>12. ASSUME NEW q \in P, q # p, Active(SeedOf(q, p, e), q), NEW g \in Nat,
              <<SeedOf(q, p, e).v.seed, g>> \in U \cup {m}
       PROVE  g < SeedOf(q, p, e).v.gen
  <2>1. SeedOf(q, p, e).v.seed # c.v.seed /\ SeedOf(q, p, e).v.seed \in PoolSeeds
    BY <1>1, <1>2, <1>12 DEF SeedsSafe, Active
  <2>2. <<SeedOf(q, p, e).v.seed, g>> \in U
    BY <1>9, <1>12, <2>1
  <2> QED BY <1>2, <1>12, <2>2 DEF SeedsSafe
<1>13. SeedsSafe(P, p, f, U \cup {m})
  <2>1. \A u \in U \cup {m} : DrawnBy(u, n)
    BY <1>1, <1>2, <1>8 DEF SeedsSafe
  <2>2. \A q \in P :
          /\ SeedOf(q, p, f).state = "READY" =>
               SeedOf(q, p, f).v.seed \in PoolSeeds /\ DrawnBy(SeedOf(q, p, f).v.seed, n)
          /\ Active(SeedOf(q, p, f), q) =>
               \A g \in Nat : <<SeedOf(q, p, f).v.seed, g>> \in U \cup {m} => g < SeedOf(q, p, f).v.gen
    <3> TAKE q \in P
    <3>1. CASE q = p
      BY <3>1, <1>4, <1>5, <1>6, <1>11
    <3>2. CASE q # p
      BY <3>2, <1>1, <1>2, <1>6, <1>12 DEF SeedsSafe
    <3> QED BY <3>1, <3>2
  <2>3. \A q, r \in P : q # r /\ Active(SeedOf(q, p, f), q) /\ Active(SeedOf(r, p, f), r)
          => SeedOf(q, p, f).v.seed # SeedOf(r, p, f).v.seed
    <3>1. \A q \in P : SeedOf(q, p, f).v.seed = SeedOf(q, p, e).v.seed
                          /\ (Active(SeedOf(q, p, f), q) => Active(SeedOf(q, p, e), q))
      BY <1>1, <1>4, <1>6
    <3> QED BY <1>2, <3>1 DEF SeedsSafe
  <2> QED BY <1>6, <2>1, <2>2, <2>3 DEF SeedsSafe
<1> QED BY <1>7, <1>13 DEF f, m

\* The environment after a draw of process p.
EnvStep(p, e, f) ==
  /\ e \in Envs /\ f \in Envs /\ e.n <= f.n
  /\ (f.s.state = "NONE" <=> e.s.state = "NONE") /\ f.s.forkId \in {e.s.forkId, p}

\* A draw leaves the seed DRBGs safe and, if it works, is new material.
DrawOutcome(P, p, e, U, d) ==
  /\ SeedsSafe(P, p, d.e, U) /\ EnvStep(p, e, d.e)
  /\ d.ok => d.out \in Materials /\ d.out \notin U /\ SeedsSafe(P, p, d.e, U \cup {d.out})

\* A draw of a context that has its own entropy source.
LEMMA OwnDrawStep ==
  ASSUME NEW P \in SUBSET Pids, NEW p \in P, NEW c, NEW e, NEW U, SeedsSafe(P, p, e, U), NEW d \in OwnDraw(c, e, p)
  PROVE  DrawOutcome(P, p, e, U, d)
<1>0. e \in Envs /\ e.n \in Nat
  BY DEF SeedsSafe, Envs
<1>1. PICK x \in PoolDraw(c, e.n, p) :
        d = [e |-> [e EXCEPT !.n = x.e], ok |-> x.ok, out |-> x.out]
  BY DEF OwnDraw
<1>2. PoolOutcome(e.n, x)
  BY <1>0, PoolDrawStep
<1> DEFINE n == x.e
<1>3. n \in Nat /\ e.n <= n /\ (x.ok => n = e.n + 1 /\ x.out = <<n>>)
  BY <1>0, <1>2 DEF PoolOutcome
<1> HIDE DEF n
<1> DEFINE f == [s |-> e.s, n |-> n]
<1>4. d.e = f /\ (d.ok <=> x.ok) /\ d.out = x.out
  BY <1>0, <1>1 DEF Envs, n
<1>5. SeedsSafe(P, p, f, U)
  BY <1>3, SafeAdvance
<1>6. f \in Envs /\ f.n = n /\ EnvStep(p, e, f)
  BY <1>0, <1>3 DEF Envs, EnvStep
<1> HIDE DEF f
<1>7. ASSUME x.ok PROVE <<n>> \in Materials /\ <<n>> \notin U /\ SeedsSafe(P, p, f, U \cup {<<n>>})
  <2>1. e.n < n /\ <<n>> \in Materials
    BY <1>0, <1>3, <1>7, MaterialFacts
  <2>2. ~DrawnBy(<<n>>, e.n) /\ DrawnBy(<<n>>, n)
    BY <1>0, <1>3, <2>1, DrawnByNext
  <2>3. \A t \in PoolSeeds, g \in Nat : <<t, g>> # <<n>>
    BY <1>3, MaterialFacts
  <2> DEFINE m == <<n>>
  <2>4. DrawnBy(m, n) /\ m \notin U /\ \A t \in PoolSeeds, g \in Nat : <<t, g>> # m
    BY <2>2, <2>3 DEF SeedsSafe
  <2> HIDE DEF m
  <2>5. SeedsSafe(P, p, f, U \cup {m})
    <3>1. \A q \in P : Active(SeedOf(q, p, f), q) => SeedOf(q, p, f).v.seed \in PoolSeeds
      BY <1>5 DEF SeedsSafe, Active
    <3> QED BY <1>5, <1>6, <2>4, <3>1 DEF SeedsSafe
  <2> QED BY <2>1, <2>4, <2>5 DEF m
<1> QED BY <1>3, <1>4, <1>5, <1>6, <1>7 DEF DrawOutcome

\* A draw of a context that is seeded by the seed DRBG (GetSeedDrbgEntropy).
LEMMA SeedDrawStep ==
  ASSUME NEW P \in SUBSET Pids, NEW p \in P, NEW e, NEW U, SeedsSafe(P, p, e, U), NEW d \in GetSeedDrbgEntropy(e, p)
  PROVE  DrawOutcome(P, p, e, U, d)
<1>0. e \in Envs /\ e.n \in Nat /\ e.s \in DrbgCtxs /\ EnvStep(p, e, e)
  BY DEF SeedsSafe, Envs, EnvStep
<1>1. CASE ~e.s.working
  <2>1. d = [e |-> e, ok |-> FALSE, out |-> <<>>]
    BY <1>1 DEF GetSeedDrbgEntropy
  <2> QED BY <1>0, <2>1 DEF DrawOutcome
<1>2. CASE e.s.working
  <2>1. PICK o \in SeedDrbg!DRBG_Generate(e.s, e.n, p) :
          d = [e |-> [s |-> o.c, n |-> o.e], ok |-> o.ok, out |-> <<o.out.seed, o.out.gen>>]
    BY <1>2 DEF GetSeedDrbgEntropy
  <2> DEFINE f == [s |-> o.c, n |-> o.e]
             m == <<o.out.seed, o.out.gen>>
  <2>2. d.e = f /\ (d.ok <=> o.ok) /\ d.out = m
    BY <2>1
  <2>3. SeedBlock(p, e.s, e.n, o)
    BY <1>0, SeedGenerateStep
  <2>4. CASE ~o.ok /\ SeedAfter(p, e.s, e.n, o)
    <3>1. SeedsSafe(P, p, f, U)
      BY <2>4, SafeSeedStep
    <3>2. EnvStep(p, e, f)
      BY <1>0, <2>4 DEF SeedAfter, Reached, EnvStep, Envs
    <3> QED BY <2>2, <2>4, <3>1, <3>2 DEF DrawOutcome
  <2>5. ASSUME NEW r, SeedAfter(p, e.s, e.n, r), Active(r.c, p), BlockOf(r.c, r.e, o)
        PROVE  DrawOutcome(P, p, e, U, d)
    <3>1. SeedsSafe(P, p, [s |-> r.c, n |-> r.e], U)
      BY <2>5, SafeSeedStep
    <3>2. EnvStep(p, e, [s |-> r.c, n |-> r.e])
      BY <1>0, <2>5 DEF SeedAfter, Reached, EnvStep, Envs
    <3>3. CASE ~o.ok
      <4>1. o.c = r.c /\ o.e = r.e
        BY <2>5, <3>3 DEF BlockOf
      <4> QED BY <2>2, <3>1, <3>2, <3>3, <4>1 DEF DrawOutcome
    <3>4. CASE o.ok
      <4>1. m \in Materials /\ m \notin U /\ SeedsSafe(P, p, f, U \cup {m})
        BY <2>5, <3>1, <3>4, SafeBlock
      <4> HIDE DEF m
      <4>2. SeedsSafe(P, p, f, U)
        BY <4>1, SafeSubset
      <4>3. o.c.state = "READY" /\ o.c.forkId = r.c.forkId /\ r.c.state = "READY"
            /\ o.c \in DrbgCtxs /\ o.e = r.e
        BY <2>5, <3>4 DEF BlockOf, Active
      <4>4. EnvStep(p, e, f)
        BY <3>2, <4>3 DEF EnvStep, Envs
      <4> HIDE DEF f
      <4> QED BY <2>2, <3>4, <4>1, <4>2, <4>4 DEF DrawOutcome
    <3> QED BY <3>3, <3>4
  <2> QED BY <2>3, <2>4, <2>5 DEF SeedBlock
<1> QED BY <1>1, <1>2

\* Either draw (DRBG_GetEntropy).
LEMMA DrawStep ==
  ASSUME NEW P \in SUBSET Pids, NEW p \in P, NEW c, NEW e, NEW U, SeedsSafe(P, p, e, U),
         NEW d \in DRBG_GetEntropy(c, e, p)
  PROVE  DrawOutcome(P, p, e, U, d)
  BY OwnDrawStep, SeedDrawStep DEF DRBG_GetEntropy

-------------------------------------------------------------------------------
(* The contexts of the user. *)

\* The operations that both instances of DrbgCore share.
LEMMA UserOps ==
  /\ \A c, e, ok : User!Outcome(c, e, ok) = Outcome(c, e, ok)
  /\ \A c, m : User!Seeded(c, m) = Seeded(c, m)
  /\ \A c : User!DRBG_Uninstantiate(c) = DRBG_Uninstantiate(c)
  /\ \A c, pid : User!DRBG_IsNeedReseed(c, pid) <=> DRBG_IsNeedReseed(c, pid)
  /\ \A c, e : User!ModeGenerate(c, e) = ModeGenerate(c, e)
<1>1. \A c, e, ok : User!Outcome(c, e, ok) = Outcome(c, e, ok)
  BY DEF User!Outcome, Outcome, User!NoSeed, NoSeed
<1>2. \A c, m : User!Seeded(c, m) = Seeded(c, m)
  BY Zenon DEF User!Seeded, Seeded
<1>3. \A c : User!DRBG_Uninstantiate(c) = DRBG_Uninstantiate(c)
  BY Zenon DEF User!DRBG_Uninstantiate, DRBG_Uninstantiate, User!NoSeed, NoSeed
<1>4. \A c, pid : User!DRBG_IsNeedReseed(c, pid) <=> DRBG_IsNeedReseed(c, pid)
  BY DEF User!DRBG_IsNeedReseed, DRBG_IsNeedReseed
<1>5. \A c, e : User!ModeGenerate(c, e) = ModeGenerate(c, e)
  BY Zenon DEF User!ModeGenerate, ModeGenerate, User!Outcome, Outcome, User!NoSeed, NoSeed
<1> QED BY <1>1, <1>2, <1>3, <1>4, <1>5

\* The context of o runs on new material.
Fresh(P, p, U, o) ==
  o.c.v.seed \notin U /\ SeedsSafe(P, p, o.e, U \cup {o.c.v.seed}) /\ o.c.v.gen = 0

\* And was seeded so in process f, just now.
JustSeeded(P, p, U, o, f) == Fresh(P, p, U, o) /\ Active(o.c, f) /\ o.c.reseedCtr = 1

\* An operation of p on context c in environment e, when the materials U are in
\* use: c is as it was, or not seeded, or freshly so.
UserAfter(P, p, c, e, U, o) ==
  /\ Reached(c, o.c, p) /\ SeedsSafe(P, p, o.e, U) /\ EnvStep(p, e, o.e)
  /\ o.c.state = "READY" => o.c = c \/ Fresh(P, p, U, o)

\* Two changes of the seed DRBG and the pool one after the other.
LEMMA EnvTrans ==
  ASSUME NEW p, NEW e, NEW f, NEW h, EnvStep(p, e, f), EnvStep(p, f, h)
  PROVE  EnvStep(p, e, h)
<1>1. e.n \in Nat /\ f.n \in Nat /\ h.n \in Nat
  BY DEF EnvStep, Envs
<1> QED BY <1>1 DEF EnvStep

Failed(o) == ~o.ok /\ o.c.state = "ERROR"

\* The outcome of a seeding that failed, and of one that worked.
LEMMA UserFails ==
  ASSUME NEW P \in SUBSET Pids, NEW p \in P, NEW c \in DrbgCtxs, NEW e, NEW U, NEW f,
         c.state # "NONE", SeedsSafe(P, p, f, U), EnvStep(p, e, f),
         NEW o, o = Outcome([c EXCEPT !.state = "ERROR"], f, FALSE)
  PROVE  UserAfter(P, p, c, e, U, o) /\ Failed(o)
<1> DEFINE d == [c EXCEPT !.state = "ERROR"]
<1>1. Reached(c, d, p) /\ d.state = "ERROR"
  BY ErrorType
<1>2. o = Outcome(d, f, FALSE)
  OBVIOUS
<1> HIDE DEF d
<1>3. o.c = d /\ o.e = f /\ o.ok = FALSE
  BY <1>2 DEF Outcome
<1> QED BY <1>1, <1>3 DEF UserAfter, Failed

\* A context is seeded with what was drawn.
LEMMA UserWorks ==
  ASSUME NEW P \in SUBSET Pids, NEW p \in P, NEW c \in DrbgCtxs, NEW e, NEW U, NEW ent, NEW d, NEW f,
         DrawOutcome(P, p, e, U, ent), ent.ok, Reached(c, d, p), SeededAs(c, d, ent.out, f),
         NEW o, o = Outcome(d, ent.e, TRUE)
  PROVE  UserAfter(P, p, c, e, U, o) /\ JustSeeded(P, p, U, o, f)
<1>1. o.c = d /\ o.e = ent.e /\ o.c.v.seed = ent.out /\ o.c.v.gen = 0
  BY DEF Outcome, SeededAs
<1>2. Fresh(P, p, U, o)
  BY <1>1 DEF Fresh, DrawOutcome
<1>3. Active(o.c, f) /\ o.c.reseedCtr = 1
  BY <1>1 DEF Active, SeededAs
<1> QED BY <1>1, <1>2, <1>3 DEF UserAfter, DrawOutcome, JustSeeded

\* DRBG_Instantiate of a context.
LEMMA UserInstantiateStep ==
  ASSUME NEW P \in SUBSET Pids, NEW p \in P, NEW c \in DrbgCtxs, NEW e, NEW U, SeedsSafe(P, p, e, U),
         NEW o \in User!DRBG_Instantiate(c, e, p)
  PROVE  /\ UserAfter(P, p, c, e, U, o) /\ (o.ok => o.c.state = "READY")
         /\ o.c.state = "READY" => o.ok \/ o.c = c
<1>0. EnvStep(p, e, e)
  BY DEF EnvStep, SeedsSafe, Envs
<1>1. CASE c.state # "UNINITIALISED"
  <2>1. o = Outcome(c, e, FALSE)
    BY <1>1, UserOps DEF User!DRBG_Instantiate
  <2> QED BY <1>0, <2>1, ReachedSelf DEF UserAfter, Outcome
<1>2. CASE c.state = "UNINITIALISED"
  <2> DEFINE failed == [c EXCEPT !.state = "ERROR"]
  <2>0. \E nonce \in DRBG_GetEntropy(c, e, p) :
          \/ ~nonce.ok /\ o = User!Outcome(failed, nonce.e, FALSE)
          \/ \E ent \in DRBG_GetEntropy(c, nonce.e, p) :
               \/ o = User!Outcome(failed, ent.e, FALSE)
               \/ ent.ok /\ o = User!Outcome(User!Seeded(c, ent.out), ent.e, TRUE)
    BY <1>2 DEF User!DRBG_Instantiate
  <2> HIDE DEF failed
  <2>1. PICK nonce \in DRBG_GetEntropy(c, e, p) :
          \/ ~nonce.ok /\ o = Outcome(failed, nonce.e, FALSE)
          \/ \E ent \in DRBG_GetEntropy(c, nonce.e, p) :
               \/ o = Outcome(failed, ent.e, FALSE)
               \/ ent.ok /\ o = Outcome(Seeded(c, ent.out), ent.e, TRUE)
    BY <2>0, UserOps
  <2>2. SeedsSafe(P, p, nonce.e, U) /\ EnvStep(p, e, nonce.e)
    BY DrawStep DEF DrawOutcome
  <2>3. CASE ~nonce.ok /\ o = Outcome(failed, nonce.e, FALSE)
    <3>1. UserAfter(P, p, c, e, U, o) /\ Failed(o)
      BY <1>2, <2>2, <2>3, UserFails DEF failed
    <3> QED BY <3>1 DEF Failed
  <2>4. ASSUME NEW ent \in DRBG_GetEntropy(c, nonce.e, p),
               \/ o = Outcome(failed, ent.e, FALSE)
               \/ ent.ok /\ o = Outcome(Seeded(c, ent.out), ent.e, TRUE)
        PROVE  /\ UserAfter(P, p, c, e, U, o) /\ (o.ok => o.c.state = "READY")
               /\ o.c.state = "READY" => o.ok \/ o.c = c
    <3>1. DrawOutcome(P, p, nonce.e, U, ent)
      BY <2>2, DrawStep
    <3>2. DrawOutcome(P, p, e, U, ent)
      BY <2>2, <3>1, EnvTrans DEF DrawOutcome
    <3>3. CASE o = Outcome(failed, ent.e, FALSE)
      <4>1. UserAfter(P, p, c, e, U, o) /\ Failed(o)
        BY <1>2, <3>2, <3>3, UserFails DEF failed, DrawOutcome
      <4> QED BY <4>1 DEF Failed
    <3>4. CASE ent.ok /\ o = Outcome(Seeded(c, ent.out), ent.e, TRUE)
      <4>1. ent.out \in Materials
        BY <3>2, <3>4 DEF DrawOutcome
      <4>2. Reached(c, Seeded(c, ent.out), p) /\ SeededAs(c, Seeded(c, ent.out), ent.out, c.forkId)
        BY <1>2, <4>1, SeededType
      <4>3. UserAfter(P, p, c, e, U, o) /\ JustSeeded(P, p, U, o, c.forkId)
        BY <3>2, <3>4, <4>2, UserWorks
      <4>4. o.ok
        BY <3>4 DEF Outcome
      <4> QED BY <4>3, <4>4 DEF Active, JustSeeded
    <3> QED BY <2>4, <3>3, <3>4
  <2> QED BY <2>1, <2>3, <2>4
<1> QED BY <1>1, <1>2

\* DRBG_Restart of a context.
LEMMA UserRestartStep ==
  ASSUME NEW P \in SUBSET Pids, NEW p \in P, NEW c \in DrbgCtxs, NEW e, NEW U, SeedsSafe(P, p, e, U),
         NEW o \in User!DRBG_Restart(c, e, p)
  PROVE  UserAfter(P, p, c, e, U, o) /\ (o.ok <=> o.c.state = "READY")
<1>0. EnvStep(p, e, e)
  BY DEF EnvStep, SeedsSafe, Envs
<1>1. CASE c.state = "READY"
  <2>1. o = Outcome(c, e, TRUE)
    BY <1>1, UserOps DEF User!DRBG_Restart
  <2> QED BY <1>0, <1>1, <2>1, ReachedSelf DEF UserAfter, Outcome
<1>2. CASE c.state = "ERROR"
  <2> DEFINE d == DRBG_Uninstantiate(c)
  <2>1. o \in User!DRBG_Instantiate(d, e, p)
    BY <1>2, UserOps DEF User!DRBG_Restart
  <2>2. Reached(c, d, p) /\ d.state = "UNINITIALISED" /\ d \in DrbgCtxs
    BY <1>2, UninstantiateType DEF Reached
  <2> HIDE DEF d
  <2>3. /\ UserAfter(P, p, d, e, U, o) /\ (o.ok => o.c.state = "READY")
        /\ o.c.state = "READY" => o.ok \/ o.c = d
    BY <2>1, <2>2, UserInstantiateStep
  <2>4. Reached(c, o.c, p)
    BY <2>2, <2>3, ReachedTrans DEF UserAfter
  <2> QED BY <2>2, <2>3, <2>4 DEF UserAfter
<1>3. CASE c.state # "READY" /\ c.state # "ERROR"
  <2>1. o \in User!DRBG_Instantiate(c, e, p)
    BY <1>3, UserOps DEF User!DRBG_Restart
  <2>2. /\ UserAfter(P, p, c, e, U, o) /\ (o.ok => o.c.state = "READY")
        /\ o.c.state = "READY" => o.ok \/ o.c = c
    BY <2>1, UserInstantiateStep
  <2> QED BY <1>3, <2>2
<1> QED BY <1>1, <1>2, <1>3

\* DRBG_Reseed of a context.
LEMMA UserReseedStep ==
  ASSUME NEW P \in SUBSET Pids, NEW p \in P, NEW c \in DrbgCtxs, NEW e, NEW U, SeedsSafe(P, p, e, U),
         NEW o \in User!DRBG_Reseed(c, e, p)
  PROVE  /\ UserAfter(P, p, c, e, U, o)
         /\ o.ok => JustSeeded(P, p, U, o, p)
         /\ ~o.ok => o.c.state # "READY"
<1>1. PICK r \in User!DRBG_Restart(c, e, p) :
        (~r.ok /\ o = r) \/ (r.ok /\ o \in User!ReseedReady(r.c, r.e, p))
  BY DEF User!DRBG_Reseed
<1>2. UserAfter(P, p, c, e, U, r) /\ (r.ok <=> r.c.state = "READY")
  BY UserRestartStep
<1>3. CASE ~r.ok /\ o = r
  BY <1>2, <1>3
<1>4. CASE r.ok /\ o \in User!ReseedReady(r.c, r.e, p)
  <2>0. r.c \in DrbgCtxs /\ SeedsSafe(P, p, r.e, U) /\ r.c.state = "READY"
    BY <1>2, <1>4 DEF UserAfter, Reached
  <2> DEFINE b == r.c
             h == r.e
             failed == [b EXCEPT !.state = "ERROR"]
  <2>1. \E ent \in DRBG_GetEntropy(b, h, p) :
          \/ o = User!Outcome(failed, ent.e, FALSE)
          \/ ent.ok /\ o = User!Outcome([User!Seeded(b, ent.out) EXCEPT !.forkId = p], ent.e, TRUE)
    BY <1>4 DEF User!ReseedReady
  <2> HIDE DEF failed, b, h
  <2>2. PICK ent \in DRBG_GetEntropy(b, h, p) :
          \/ o = Outcome(failed, ent.e, FALSE)
          \/ ent.ok /\ o = Outcome([Seeded(b, ent.out) EXCEPT !.forkId = p], ent.e, TRUE)
    BY <2>1, UserOps
  <2>3. b \in DrbgCtxs /\ SeedsSafe(P, p, h, U) /\ b.state # "NONE"
    BY <2>0 DEF b, h
  <2>4. DrawOutcome(P, p, h, U, ent)
    BY <2>3, DrawStep
  <2>5. /\ UserAfter(P, p, b, h, U, o)
        /\ \/ ~o.ok /\ o.c.state = "ERROR"
           \/ o.ok /\ JustSeeded(P, p, U, o, p)
    <3>1. CASE o = Outcome(failed, ent.e, FALSE)
      <4>1. UserAfter(P, p, b, h, U, o) /\ Failed(o)
        BY <2>3, <2>4, <3>1, UserFails DEF failed, DrawOutcome
      <4> QED BY <4>1 DEF Failed
    <3>2. CASE ent.ok /\ o = Outcome([Seeded(b, ent.out) EXCEPT !.forkId = p], ent.e, TRUE)
      <4> DEFINE d == [Seeded(b, ent.out) EXCEPT !.forkId = p]
      <4>1. ent.out \in Materials
        BY <2>4, <3>2 DEF DrawOutcome
      <4>2. Reached(b, d, p) /\ SeededAs(b, d, ent.out, p)
        BY <2>3, <4>1, SeededType
      <4> HIDE DEF d
      <4>3. o = Outcome(d, ent.e, TRUE) /\ o.ok
        BY <3>2 DEF d, Outcome
      <4>4. UserAfter(P, p, b, h, U, o) /\ JustSeeded(P, p, U, o, p)
        BY <2>3, <2>4, <3>2, <4>2, <4>3, UserWorks
      <4> QED BY <4>3, <4>4
    <3> QED BY <2>2, <3>1, <3>2
  <2>6. Reached(c, o.c, p) /\ SeedsSafe(P, p, o.e, U) /\ EnvStep(p, e, o.e)
    BY <1>2, <2>5, ReachedTrans, EnvTrans DEF UserAfter, b, h
  <2> QED BY <2>5, <2>6 DEF UserAfter, JustSeeded
<1> QED BY <1>1, <1>3, <1>4

\* Asking a context for a block: a failure on the way, or a block from a
\* context that is seeded in this process and within its interval.
UserBlock(P, p, c, e, U, o) ==
  \/ ~o.ok /\ UserAfter(P, p, c, e, U, o)
  \/ \E r : /\ UserAfter(P, p, c, e, U, r) /\ Active(r.c, p) /\ r.c.reseedCtr <= SeedLife(r.c)
            /\ BlockOf(r.c, r.e, o)

\* DRBG_Generate of a context: a block from its value, or from a new seed.
LEMMA UserGenerateStep ==
  ASSUME NEW P \in SUBSET Pids, NEW p \in P, NEW c \in DrbgCtxs, NEW e, NEW U, SeedsSafe(P, p, e, U),
         NEW o \in User!DRBG_Generate(c, e, p)
  PROVE  UserBlock(P, p, c, e, U, o)
<1>0. \E r \in User!DRBG_Restart(c, e, p) :
        \/ ~r.ok /\ o = r
        \/ r.ok /\ ~User!DRBG_IsNeedReseed(r.c, p) /\ o \in User!ModeGenerate(r.c, r.e)
        \/ r.ok /\ \E t \in User!DRBG_Reseed(r.c, r.e, p) :
             (~t.ok /\ o = t) \/ (t.ok /\ o \in User!ModeGenerate(t.c, t.e))
  BY DEF User!DRBG_Generate
<1>1. PICK r \in User!DRBG_Restart(c, e, p) :
        \/ ~r.ok /\ o = r
        \/ r.ok /\ ~DRBG_IsNeedReseed(r.c, p) /\ o \in ModeGenerate(r.c, r.e)
        \/ r.ok /\ \E t \in User!DRBG_Reseed(r.c, r.e, p) :
             (~t.ok /\ o = t) \/ (t.ok /\ o \in ModeGenerate(t.c, t.e))
  BY <1>0, UserOps
<1>2. UserAfter(P, p, c, e, U, r) /\ (r.ok <=> r.c.state = "READY")
  BY UserRestartStep
<1>3. r.c \in DrbgCtxs /\ SeedsSafe(P, p, r.e, U)
  BY <1>2 DEF UserAfter, Reached
<1>4. CASE ~r.ok /\ o = r
  BY <1>2, <1>4 DEF UserBlock
<1>5. CASE r.ok /\ ~DRBG_IsNeedReseed(r.c, p) /\ o \in ModeGenerate(r.c, r.e)
  <2>1. Active(r.c, p)
    BY <1>2, <1>5 DEF DRBG_IsNeedReseed, Active
  <2>2. r.c.reseedCtr <= SeedLife(r.c)
    BY <1>3, <1>5 DEF DRBG_IsNeedReseed, SeedLife, DrbgCtxs
  <2>3. BlockOf(r.c, r.e, o)
    BY <1>2, <1>3, <1>5, ModeGenerateType
  <2> QED BY <1>2, <2>1, <2>2, <2>3 DEF UserBlock
<1>6. ASSUME NEW t \in User!DRBG_Reseed(r.c, r.e, p), r.ok,
             (~t.ok /\ o = t) \/ (t.ok /\ o \in ModeGenerate(t.c, t.e))
      PROVE  UserBlock(P, p, c, e, U, o)
  <2>1. /\ UserAfter(P, p, r.c, r.e, U, t)
        /\ t.ok => JustSeeded(P, p, U, t, p)
        /\ ~t.ok => t.c.state # "READY"
    BY <1>3, UserReseedStep
  <2>2. Reached(c, t.c, p) /\ SeedsSafe(P, p, t.e, U) /\ EnvStep(p, e, t.e)
    BY <1>2, <2>1, ReachedTrans, EnvTrans DEF UserAfter
  <2>3. CASE ~t.ok /\ o = t
    BY <2>1, <2>2, <2>3 DEF UserBlock, UserAfter
  <2>4. CASE t.ok /\ o \in ModeGenerate(t.c, t.e)
    <3>1. t.c \in DrbgCtxs /\ t.c.state = "READY" /\ UserAfter(P, p, c, e, U, t)
      BY <2>1, <2>2, <2>4 DEF UserAfter, Reached, Active, JustSeeded
    <3>2. BlockOf(t.c, t.e, o)
      BY <2>4, <3>1, ModeGenerateType
    <3>3. t.c.reseedCtr <= SeedLife(t.c)
      BY <2>1, <2>4, <3>1 DEF SeedLife, DrbgCtxs, JustSeeded
    <3> QED BY <2>1, <2>4, <3>1, <3>2, <3>3 DEF UserBlock, JustSeeded
  <2> QED BY <1>6, <2>3, <2>4
<1> QED BY <1>1, <1>4, <1>5, <1>6

-------------------------------------------------------------------------------
(* Types, counters and references: whether or not process ids are reused. *)

\* A seed DRBG that is seeded was seeded from the pool.
SeedDrawn == \A p \in Pids : SeedsSafe({p}, p, Env(p), {})

BaseInv ==
  TypeInv /\ CounterInv /\ FreeHandles /\ SeedDrawn /\ SeedHeld /\ SeedNotStale

\* Context i of p becomes c, the seed DRBG s, with r references.
CtxStep(p, i, c, s, r) ==
  /\ proc' \in [Pids -> Processes]
  /\ proc'[p].ctx[i] = c /\ \A j \in Ctxs \ {i} : proc'[p].ctx[j] = proc[p].ctx[j]
  /\ proc'[p].seed = s /\ proc'[p].refs = r /\ proc'[p].life = proc[p].life
  /\ \A q \in Pids \ {p} : proc'[q] = proc[q]

\* The same, for a process written as a record.
LEMMA RecordStep ==
  ASSUME TypeInv, NEW p \in Pids, NEW i \in Ctxs, NEW c \in DrbgCtxs, NEW s \in DrbgCtxs,
         NEW r \in Nat,
         proc' = [proc EXCEPT ![p] =
                    [proc[p] EXCEPT !.ctx = [proc[p].ctx EXCEPT ![i] = c], !.seed = s, !.refs = r]]
  PROVE  CtxStep(p, i, c, s, r)
<1>1. proc[p] \in Processes /\ proc \in [Pids -> Processes]
  BY DEF TypeInv
<1> DEFINE x == [proc[p].ctx EXCEPT ![i] = c]
           y == [proc[p] EXCEPT !.ctx = x, !.seed = s, !.refs = r]
<1>2. x \in [Ctxs -> DrbgCtxs] /\ x[i] = c /\ \A j \in Ctxs \ {i} : x[j] = proc[p].ctx[j]
  BY <1>1 DEF Processes
<1> HIDE DEF x
<1>3. y \in Processes
  BY <1>1, <1>2 DEF Processes
<1>4. y.ctx = x /\ y.seed = s /\ y.refs = r /\ y.life = proc[p].life
  BY <1>1 DEF Processes
<1>5. proc' = [proc EXCEPT ![p] = y]
  BY DEF x
<1> HIDE DEF y
<1>6. proc' \in [Pids -> Processes] /\ proc'[p] = y /\ \A q \in Pids \ {p} : proc'[q] = proc[q]
  BY <1>1, <1>3, <1>5
<1> QED BY <1>2, <1>4, <1>6 DEF CtxStep

\* And for the operations of a context.
LEMMA PutStep ==
  ASSUME TypeInv, NEW p \in Pids, NEW i \in Ctxs, NEW c \in DrbgCtxs, NEW e \in Envs,
         Put(p, i, c, e)
  PROVE  CtxStep(p, i, c, e.s, proc[p].refs) /\ drawn' = e.n
<1>1. proc[p] \in Processes /\ proc \in [Pids -> Processes] /\ proc[p].refs \in Nat
      /\ proc[p].ctx \in [Ctxs -> DrbgCtxs] /\ e.s \in DrbgCtxs
  BY DEF TypeInv, Processes, Envs
<1>2. proc' = [proc EXCEPT ![p].ctx[i] = c, ![p].seed = e.s] /\ drawn' = e.n
  BY DEF Put
<1>3. proc' = [proc EXCEPT ![p] =
         [proc[p] EXCEPT !.ctx = [proc[p].ctx EXCEPT ![i] = c], !.seed = e.s, !.refs = proc[p].refs]]
  BY <1>1, <1>2 DEF Processes
<1> QED BY <1>1, <1>2, <1>3, RecordStep

\* The references after a step of the kinds there are.
HeldCase(p, i, c, s, r) ==
  \/ /\ c.isDefaultSeed = proc[p].ctx[i].isDefaultSeed /\ r = proc[p].refs
     /\ s.state = "NONE" <=> proc[p].seed.state = "NONE"
  \/ /\ c.isDefaultSeed /\ ~proc[p].ctx[i].isDefaultSeed
     /\ r = proc[p].refs + 1 /\ s.state # "NONE"
  \/ /\ ~c.isDefaultSeed /\ proc[p].ctx[i].isDefaultSeed
     /\ r = proc[p].refs - 1 /\ (s.state = "NONE" <=> r = 0)

\* A step of one context keeps the count of the users of the seed DRBG.
LEMMA HeldStep ==
  ASSUME TypeInv, SeedHeld, NEW p \in Pids, NEW i \in Ctxs, NEW c, NEW s, NEW r,
         CtxStep(p, i, c, s, r), HeldCase(p, i, c, s, r)
  PROVE  SeedHeld'
<1> DEFINE D == DefaultUsers(p)
<1>1. /\ proc'[p].ctx[i] = c /\ \A j \in Ctxs \ {i} : proc'[p].ctx[j] = proc[p].ctx[j]
      /\ proc'[p].seed = s /\ proc'[p].refs = r
      /\ \A q \in Pids \ {p} : proc'[q] = proc[q]
  BY DEF CtxStep
<1>2. \A q \in Pids \ {p} : DefaultUsers(q)' = DefaultUsers(q)
  BY <1>1 DEF DefaultUsers
<1>3. /\ proc[p].refs = Cardinality(D)
      /\ (proc[p].refs > 0) <=> (proc[p].seed.state # "NONE")
  BY DEF SeedHeld
<1>4. IsFiniteSet(D) /\ Cardinality(D) \in Nat
  <2>1. IsFiniteSet(Ctxs) /\ D \subseteq Ctxs
    BY DrbgAssumption DEF DefaultUsers
  <2>2. IsFiniteSet(D)
    BY <2>1, FS_Subset
  <2> QED BY <2>2, FS_CardinalityType
<1> SUFFICES /\ proc'[p].refs = Cardinality(DefaultUsers(p)')
             /\ (proc'[p].refs > 0) <=> (proc'[p].seed.state # "NONE")
  BY <1>1, <1>2 DEF SeedHeld
<1>5. CASE /\ c.isDefaultSeed = proc[p].ctx[i].isDefaultSeed /\ r = proc[p].refs
           /\ s.state = "NONE" <=> proc[p].seed.state = "NONE"
  <2>1. DefaultUsers(p)' = D
    BY <1>1, <1>5 DEF DefaultUsers
  <2> QED BY <1>1, <1>3, <1>5, <2>1
<1>6. CASE /\ c.isDefaultSeed /\ ~proc[p].ctx[i].isDefaultSeed
           /\ r = proc[p].refs + 1 /\ s.state # "NONE"
  <2>1. DefaultUsers(p)' = D \cup {i} /\ i \notin D
    BY <1>1, <1>6 DEF DefaultUsers
  <2> HIDE DEF D
  <2>2. Cardinality(D \cup {i}) = Cardinality(D) + 1
    BY <1>4, <2>1, FS_AddElement
  <2> QED BY <1>1, <1>3, <1>4, <1>6, <2>1, <2>2
<1>7. CASE /\ ~c.isDefaultSeed /\ proc[p].ctx[i].isDefaultSeed
           /\ r = proc[p].refs - 1 /\ (s.state = "NONE" <=> r = 0)
  <2>1. DefaultUsers(p)' = D \ {i} /\ i \in D
    BY <1>1, <1>7 DEF DefaultUsers
  <2> HIDE DEF D
  <2>2. Cardinality(D \ {i}) = Cardinality(D) - 1 /\ IsFiniteSet(D \ {i})
    BY <1>4, <2>1, FS_RemoveElement
  <2>3. Cardinality(D \ {i}) \in Nat
    BY <2>2, FS_CardinalityType
  <2> QED BY <1>1, <1>3, <1>4, <1>7, <2>1, <2>2, <2>3
<1> QED BY <1>5, <1>6, <1>7 DEF HeldCase

\* What a step of one context keeps.
LEMMA BaseKept ==
  ASSUME BaseInv, NEW p \in Pids, NEW i \in Ctxs, NEW c, NEW s, NEW r,
         CtxStep(p, i, c, s, r), HeldCase(p, i, c, s, r), CounterOK(c),
         c.state = "NONE" => ~c.isDefaultSeed,
         drawn' \in Nat, drawn <= drawn', SeedsSafe({p}, p, [s |-> s, n |-> drawn'], {}),
         forks' \in Nat, emitted' \subseteq Vs, repeated' \in BOOLEAN, stale' = FALSE,
         bound' = bound
  PROVE  BaseInv'
<1>1. /\ proc' \in [Pids -> Processes]
      /\ proc'[p].ctx[i] = c /\ \A j \in Ctxs \ {i} : proc'[p].ctx[j] = proc[p].ctx[j]
      /\ proc'[p].seed = s /\ \A q \in Pids \ {p} : proc'[q] = proc[q]
  BY DEF CtxStep
<1>2. TypeInv'
  BY <1>1 DEF BaseInv, TypeInv
<1>3. CounterInv'
  BY <1>1 DEF BaseInv, CounterInv
<1>4. FreeHandles'
  BY <1>1 DEF BaseInv, FreeHandles
<1>5. SeedDrawn'
  <2> SUFFICES ASSUME NEW q \in Pids PROVE SeedsSafe({q}, q, Env(q), {})'
    BY DEF SeedDrawn
  <2>1. SeedsSafe({q}, q, Env(q), {}) /\ drawn \in Nat
    BY DEF BaseInv, SeedDrawn, TypeInv
  <2>2. CASE q = p
    <3>1. Env(p)' = [s |-> s, n |-> drawn']
      BY <1>1 DEF Env
    <3> QED BY <2>2, <3>1 DEF SeedsSafe, SeedOf
  <2>3. CASE q # p
    <3>1. Env(q)' = [s |-> Env(q).s, n |-> drawn'] /\ Env(q).n = drawn
      BY <1>1, <2>3 DEF Env
    <3>2. SeedsSafe({q}, q, Env(q)', {})
      BY <2>1, <3>1, SafeAdvance
    <3> QED BY <3>2 DEF SeedsSafe, SeedOf
  <2> QED BY <2>2, <2>3
<1>6. SeedHeld'
  BY HeldStep DEF BaseInv
<1> QED BY <1>2, <1>3, <1>4, <1>5, <1>6 DEF BaseInv, SeedNotStale

\* d is the generator c, for what the properties see of it.
SameGen(c, d) ==
  /\ d \in DrbgCtxs /\ d.state = c.state /\ d.v = c.v /\ d.forkId = c.forkId
  /\ d.isDefaultSeed = c.isDefaultSeed /\ d.reseedInterval = c.reseedInterval
  /\ d.reseedCtr = c.reseedCtr /\ d.age = c.age

\* The reseed counter is judged by the generator alone.
LEMMA SameGenCounter == ASSUME NEW c, NEW d, SameGen(c, d), CounterOK(c) PROVE CounterOK(d)
  BY DEF SameGen, CounterOK, SeedLife

\* Marking a context as working leaves its generator alone.
LEMMA SetWorking == ASSUME NEW c \in DrbgCtxs PROVE SameGen(c, [c EXCEPT !.working = TRUE])
  BY DEF SameGen, DrbgCtxs

\* The prediction resistance flag is no part of the generator.
LEMMA SetPr ==
  ASSUME NEW c \in DrbgCtxs, NEW b \in BOOLEAN PROVE SameGen(c, [c EXCEPT !.pr = b])
  BY DEF SameGen, DrbgCtxs

\* Neither is the lock, nor the number of blocks still to come.
LEMMA SetLock ==
  ASSUME NEW c \in DrbgCtxs, NEW n \in Int, NEW k \in {"free", "held", "orphaned"}
  PROVE  SameGen(c, [c EXCEPT !.left = n, !.lock = k])
  BY DEF SameGen, DrbgCtxs

\* A fork leaves the generator of a context alone.
LEMMA ForkLockSame == ASSUME NEW c \in DrbgCtxs PROVE SameGen(c, ForkLock(c))
  BY DEF SameGen, DrbgCtxs, ForkLock

\* The contexts, seed DRBGs and counts of a process.
LEMMA ProcTypes ==
  ASSUME TypeInv, NEW p \in Pids
  PROVE  /\ proc[p] \in Processes /\ proc[p].seed \in DrbgCtxs /\ proc[p].refs \in Nat
         /\ \A i \in Ctxs : proc[p].ctx[i] \in DrbgCtxs
         /\ Env(p) \in Envs /\ Env(p).s = proc[p].seed /\ Env(p).n = drawn /\ drawn \in Nat
  BY DEF TypeInv, Processes, Env, Envs

\* An operation of a context that exists.
LEMMA UserOpBase ==
  ASSUME BaseInv, NEW p \in Pids, NEW i \in Ctxs, NEW d \in DrbgCtxs, NEW e,
         d.state = "NONE" => proc[p].ctx[i].state = "NONE",
         d.isDefaultSeed = proc[p].ctx[i].isDefaultSeed, CounterOK(d),
         SeedsSafe({p}, p, e, {}), EnvStep(p, Env(p), e), Put(p, i, d, e),
         forks' = forks, emitted' \subseteq Vs, repeated' \in BOOLEAN, stale' = FALSE,
         bound' = bound
  PROVE  BaseInv'
<1>1. e \in Envs /\ e.s \in DrbgCtxs /\ e.n \in Nat /\ e = [s |-> e.s, n |-> e.n]
  BY DEF SeedsSafe, Envs
<1>2. CtxStep(p, i, d, e.s, proc[p].refs) /\ drawn' = e.n
  BY <1>1, PutStep DEF BaseInv
<1>3. drawn <= drawn' /\ drawn' \in Nat
  BY <1>1, <1>2, ProcTypes DEF EnvStep, BaseInv
<1>4. HeldCase(p, i, d, e.s, proc[p].refs)
  BY ProcTypes DEF HeldCase, EnvStep, BaseInv
<1>5. SeedsSafe({p}, p, [s |-> e.s, n |-> drawn'], {})
  BY <1>1, <1>2
<1>6. d.state = "NONE" => ~d.isDefaultSeed
  BY DEF BaseInv, FreeHandles
<1> QED BY <1>2, <1>3, <1>4, <1>5, <1>6, BaseKept DEF BaseInv, TypeInv

\* The seed DRBG when it is made.
InitOutcome(p, o) ==
  /\ o.e \in Nat /\ drawn <= o.e
  /\ o.ok => /\ o.c \in DrbgCtxs /\ o.c.state = "READY" /\ o.c.forkId = p
             /\ \E k \in Nat : drawn < k /\ k <= o.e /\ o.c.v = [seed |-> <<k>>, gen |-> 0]

\* EAL_SeedDrbgInit: the seed DRBG is set up once and its users are counted.
LEMMA SeedInitStep ==
  ASSUME TypeInv, NEW p \in Pids, NEW o \in EAL_SeedDrbgInit(p)
  PROVE  InitOutcome(p, o)
<1> DEFINE new == DRBG_New(p, SeedInterval)
<1>1. new \in DrbgCtxs /\ new.state = "UNINITIALISED" /\ new.forkId = p
  BY DrbgAssumption, NewType
<1> HIDE DEF new
<1>2. PICK x \in SeedDrbg!DRBG_Instantiate(new, drawn, p) :
        o = IF x.ok THEN [Outcome([x.c EXCEPT !.working = TRUE], x.e, TRUE) EXCEPT !.out = NoSeed]
            ELSE Outcome(NoCtx, x.e, FALSE)
  BY DEF EAL_SeedDrbgInit, new
<1>3. SeedAfter(p, new, drawn, x) /\ (x.ok => x.c.state = "READY")
  BY <1>1, SeedInstantiateStep DEF TypeInv
<1>4. x.e \in Nat /\ drawn <= x.e /\ x.c \in DrbgCtxs /\ x.c.forkId = p
  BY <1>1, <1>3 DEF SeedAfter, Reached
<1>5. CASE ~x.ok
  <2>1. o.e = x.e /\ o.ok = FALSE
    BY <1>2, <1>5 DEF Outcome
  <2> QED BY <1>4, <2>1 DEF InitOutcome
<1>6. CASE x.ok
  <2> DEFINE w == [x.c EXCEPT !.working = TRUE]
  <2>1. SameGen(x.c, w)
    BY <1>4, SetWorking
  <2> HIDE DEF w
  <2>2. o.c = w /\ o.e = x.e
    BY <1>2, <1>6 DEF Outcome, w
  <2>3. \E k \in Nat : drawn < k /\ k <= x.e /\ x.c.v = [seed |-> <<k>>, gen |-> 0]
    BY <1>1, <1>3, <1>6 DEF SeedAfter
  <2> QED BY <1>3, <1>4, <1>6, <2>1, <2>2, <2>3 DEF InitOutcome, SameGen
<1> QED BY <1>5, <1>6

\* A seed DRBG that was just made, or is absent, is safe on its own.
LEMMA InitSafe ==
  ASSUME NEW p \in Pids, NEW s \in DrbgCtxs, NEW n \in Nat,
         s.state = "READY" =>
           \E k \in Nat : k <= n /\ s.v = [seed |-> <<k>>, gen |-> 0]
  PROVE  SeedsSafe({p}, p, [s |-> s, n |-> n], {})
<1> DEFINE e == [s |-> s, n |-> n]
<1>1. e \in Envs /\ e.s = s /\ e.n = n /\ SeedOf(p, p, e) = s
  BY DEF Envs, SeedOf
<1>2. s.state = "READY" => s.v.seed \in PoolSeeds /\ DrawnBy(s.v.seed, n)
  <2> SUFFICES ASSUME NEW k \in Nat, k <= n, s.v = [seed |-> <<k>>, gen |-> 0]
               PROVE  s.v.seed \in PoolSeeds /\ DrawnBy(s.v.seed, n)
    OBVIOUS
  <2>1. DrawnBy(<<k>>, n) /\ <<k>> \in PoolSeeds
    BY MaterialFacts DEF DrawnBy
  <2> QED BY <2>1
<1> HIDE DEF e
<1>3. SeedsSafe({p}, p, e, {})
  BY <1>1, <1>2 DEF SeedsSafe
<1> QED BY <1>3 DEF e

\* Steps that seed no context and produce nothing: contexts come and go, and so
\* does the seed DRBG.
QuietCtx(p, i, c) ==
  /\ c \in DrbgCtxs /\ CounterOK(c) /\ (c.state = "NONE" => ~c.isDefaultSeed)
  /\ \/ SameGen(proc[p].ctx[i], c)
     \/ c.state = "NONE"
     \/ c.state = "UNINITIALISED" /\ c.forkId = p

QuietSeed(p, s) ==
  /\ s \in DrbgCtxs
  /\ \/ s = proc[p].seed
     \/ s.state = "NONE"
     \/ /\ s.state = "READY" /\ s.forkId = p
        /\ \E k \in Nat : drawn < k /\ k <= drawn' /\ s.v = [seed |-> <<k>>, gen |-> 0]

QuietStep(p, i) ==
  /\ \E c, s, r : /\ CtxStep(p, i, c, s, r) /\ HeldCase(p, i, c, s, r)
                  /\ QuietCtx(p, i, c) /\ QuietSeed(p, s)
  /\ drawn' \in Nat /\ drawn <= drawn'
  /\ UNCHANGED <<forks, emitted, repeated, stale, bound>>

\* The context as it was.
LEMMA QuietSelf ==
  ASSUME BaseInv, NEW p \in Pids, NEW i \in Ctxs
  PROVE  QuietCtx(p, i, proc[p].ctx[i])
<1>1. proc[p].ctx[i] \in DrbgCtxs
  BY ProcTypes DEF BaseInv
<1> QED BY <1>1 DEF BaseInv, CounterInv, FreeHandles, QuietCtx, SameGen

\* A context that was just allocated.
LEMMA QuietNew ==
  ASSUME NEW p \in Pids, NEW i \in Ctxs, NEW n \in Nat, NEW b \in BOOLEAN, NEW t \in BOOLEAN,
         DRBG_SetReseedInterval(n)
  PROVE  LET c == [DRBG_New(p, n) EXCEPT !.pr = b, !.isDefaultSeed = t]
         IN QuietCtx(p, i, c) /\ c \in DrbgCtxs /\ (c.isDefaultSeed <=> t)
<1> DEFINE new == DRBG_New(p, n)
           c == [new EXCEPT !.pr = b, !.isDefaultSeed = t]
<1>1. new \in DrbgCtxs /\ new.state = "UNINITIALISED" /\ new.forkId = p /\ new.reseedInterval = n
  BY NewType
<1> HIDE DEF new
<1>2. c \in DrbgCtxs
  BY <1>1 DEF DrbgCtxs
<1>3. c.state = "UNINITIALISED" /\ c.forkId = p /\ c.reseedInterval = n /\ c.isDefaultSeed = t
  BY <1>1 DEF DrbgCtxs
<1> HIDE DEF c
<1>4. QuietCtx(p, i, c)
  BY <1>2, <1>3 DEF QuietCtx, CounterOK, DRBG_SetReseedInterval
<1> QED BY <1>2, <1>3, <1>4 DEF c, new

\* A new context with an entropy source of its own.
LEMMA OwnSeedQuiet ==
  ASSUME BaseInv, NEW p \in Pids, NEW i \in Ctxs, CRYPT_EAL_DrbgNewOwnSeed(p, i), bound' = bound
  PROVE  QuietStep(p, i)
<1>1. PICK n \in bound.intervals, b \in BOOLEAN :
        /\ DRBG_SetReseedInterval(n)
        /\ proc' = [proc EXCEPT ![p].ctx[i] = [DRBG_New(p, n) EXCEPT !.pr = b]]
  BY DEF CRYPT_EAL_DrbgNewOwnSeed
<1>2. n \in Nat
  BY DrbgAssumption DEF BaseInv, TypeInv
<1> DEFINE new == DRBG_New(p, n)
           c == [new EXCEPT !.pr = b]
           old == proc[p].ctx[i]
<1>3. new \in DrbgCtxs /\ new.state = "UNINITIALISED" /\ new.forkId = p /\ new.reseedInterval = n
      /\ new.isDefaultSeed = FALSE
  BY <1>2, NewType
<1>3a. proc' = [proc EXCEPT ![p].ctx[i] = c]
  BY <1>1
<1> HIDE DEF new
<1>3b. SameGen(new, c)
  BY <1>3, SetPr
<1> HIDE DEF c
<1>4. QuietCtx(p, i, c) /\ c \in DrbgCtxs /\ ~c.isDefaultSeed
  BY <1>1, <1>3, <1>3b DEF SameGen, QuietCtx, CounterOK, DRBG_SetReseedInterval
<1>5. proc' = [proc EXCEPT ![p] =
         [proc[p] EXCEPT !.ctx = [proc[p].ctx EXCEPT ![i] = c], !.seed = proc[p].seed,
                         !.refs = proc[p].refs]]
  BY <1>3a, ProcTypes DEF Processes, BaseInv, TypeInv
<1>6. CtxStep(p, i, c, proc[p].seed, proc[p].refs)
  BY <1>4, <1>5, ProcTypes, RecordStep DEF BaseInv
<1>7. ~old.isDefaultSeed /\ old.isDefaultSeed \in BOOLEAN /\ c.isDefaultSeed \in BOOLEAN
  BY <1>4, ProcTypes DEF CRYPT_EAL_DrbgNewOwnSeed, MayCreate, BaseInv, FreeHandles, DrbgCtxs
<1>8. HeldCase(p, i, c, proc[p].seed, proc[p].refs)
  BY <1>4, <1>7 DEF HeldCase
<1>9. QuietSeed(p, proc[p].seed)
  BY ProcTypes DEF QuietSeed, BaseInv
<1>10. drawn' = drawn /\ UNCHANGED <<forks, emitted, repeated, stale>> /\ drawn \in Nat
  BY DEF CRYPT_EAL_DrbgNewOwnSeed, NoOutput, BaseInv, TypeInv
<1> QED BY <1>4, <1>6, <1>8, <1>9, <1>10 DEF QuietStep

\* EAL_DrbgbytesWithAdin takes the lock.
LEMMA BytesQuiet ==
  ASSUME BaseInv, NEW p \in Pids, NEW i \in Ctxs, EAL_DrbgbytesWithAdin(p, i), bound' = bound
  PROVE  QuietStep(p, i)
<1> DEFINE old == proc[p].ctx[i]
<1>0. old \in DrbgCtxs
  BY ProcTypes DEF BaseInv
<1>1. PICK n \in 1 .. bound.blocks :
        proc' = [proc EXCEPT ![p].ctx[i].left = n, ![p].ctx[i].lock = "held"]
  BY DEF EAL_DrbgbytesWithAdin
<1>2. n \in Int
  BY DrbgAssumption DEF BaseInv, TypeInv
<1> DEFINE c == [old EXCEPT !.left = n, !.lock = "held"]
<1>3. SameGen(old, c) /\ c \in DrbgCtxs
  BY <1>0, <1>2, SetLock DEF SameGen
<1>3a. proc \in [Pids -> Processes] /\ proc[p] \in Processes /\ proc[p].ctx \in [Ctxs -> DrbgCtxs]
  BY ProcTypes DEF BaseInv, TypeInv, Processes
<1> DEFINE c1 == [old EXCEPT !.left = n]
           A == [proc EXCEPT ![p] = [proc[p] EXCEPT !.ctx = [proc[p].ctx EXCEPT ![i] = c1]]]
<1>3b. proc' = [A EXCEPT ![p].ctx[i].lock = "held"]
  BY <1>1
<1>3c. A[p] = [proc[p] EXCEPT !.ctx = [proc[p].ctx EXCEPT ![i] = c1]] /\ DOMAIN A = Pids
       /\ A[p].ctx[i] = c1 /\ c = [c1 EXCEPT !.lock = "held"]
  BY <1>0, <1>3a DEF Processes, DrbgCtxs
<1>3d. proc' = [A EXCEPT ![p] = [A[p] EXCEPT !.ctx = [A[p].ctx EXCEPT ![i] = c]]]
  BY <1>3b, <1>3c
<1> HIDE DEF c, c1
<1>3e. [A[p].ctx EXCEPT ![i] = c] = [proc[p].ctx EXCEPT ![i] = c]
  BY <1>3a, <1>3c DEF Processes
<1>3f. [A[p] EXCEPT !.ctx = [A[p].ctx EXCEPT ![i] = c]]
         = [proc[p] EXCEPT !.ctx = [proc[p].ctx EXCEPT ![i] = c], !.seed = proc[p].seed,
                           !.refs = proc[p].refs]
  BY <1>3a, <1>3c, <1>3e DEF Processes
<1> DEFINE y == [A[p] EXCEPT !.ctx = [A[p].ctx EXCEPT ![i] = c]]
<1>3g. proc' = [proc EXCEPT ![p] = y]
  <2> DEFINE z == [proc[p] EXCEPT !.ctx = [proc[p].ctx EXCEPT ![i] = c1]]
  <2>1. A = [proc EXCEPT ![p] = z] /\ proc' = [A EXCEPT ![p] = y]
    BY <1>3d
  <2> HIDE DEF y, z, A
  <2> QED BY <1>3a, <2>1
<1>4. proc' = [proc EXCEPT ![p] =
         [proc[p] EXCEPT !.ctx = [proc[p].ctx EXCEPT ![i] = c], !.seed = proc[p].seed,
                         !.refs = proc[p].refs]]
  BY <1>3f, <1>3g
<1>5. CtxStep(p, i, c, proc[p].seed, proc[p].refs)
  BY <1>3, <1>4, ProcTypes, RecordStep DEF BaseInv
<1>6. QuietCtx(p, i, c) /\ c.isDefaultSeed = old.isDefaultSeed
  BY <1>3, SameGenCounter DEF QuietCtx, SameGen, BaseInv, CounterInv, FreeHandles
<1>7. HeldCase(p, i, c, proc[p].seed, proc[p].refs) /\ QuietSeed(p, proc[p].seed)
  BY <1>6, ProcTypes DEF HeldCase, QuietSeed, BaseInv
<1>8. drawn' = drawn /\ UNCHANGED <<forks, emitted, repeated, stale>> /\ drawn \in Nat
  BY DEF EAL_DrbgbytesWithAdin, NoOutput, BaseInv, TypeInv
<1> QED BY <1>5, <1>6, <1>7, <1>8 DEF QuietStep

\* EAL_RandDeinit frees the context and its hold on the seed DRBG.
LEMMA DeinitQuiet ==
  ASSUME BaseInv, NEW p \in Pids, NEW i \in Ctxs, EAL_RandDeinit(p, i), bound' = bound
  PROVE  QuietStep(p, i)
<1> DEFINE old == proc[p].ctx[i]
           q == [proc[p] EXCEPT !.ctx[i] = NoCtx]
           x == [proc[p].ctx EXCEPT ![i] = NoCtx]
<1>0. /\ old \in DrbgCtxs /\ proc[p] \in Processes /\ proc[p].refs \in Nat
      /\ proc[p].seed \in DrbgCtxs /\ drawn \in Nat /\ proc[p].ctx \in [Ctxs -> DrbgCtxs]
  BY ProcTypes DEF BaseInv, Processes
<1>1. proc' = [proc EXCEPT ![p] = IF old.isDefaultSeed THEN EAL_SeedDrbgDeinit(q) ELSE q]
      /\ drawn' = drawn /\ UNCHANGED <<forks, emitted, repeated, stale>>
  BY DEF EAL_RandDeinit, NoOutput
<1>2. q = [proc[p] EXCEPT !.ctx = x, !.seed = proc[p].seed, !.refs = proc[p].refs]
      /\ q.refs = proc[p].refs
  BY <1>0 DEF Processes
<1>3. QuietCtx(p, i, NoCtx) /\ NoCtx.isDefaultSeed = FALSE
  BY NoCtxType DEF QuietCtx
<1>4. CASE ~old.isDefaultSeed
  <2>1. CtxStep(p, i, NoCtx, proc[p].seed, proc[p].refs)
    BY <1>0, <1>1, <1>2, <1>4, NoCtxType, RecordStep DEF BaseInv
  <2>2. HeldCase(p, i, NoCtx, proc[p].seed, proc[p].refs) /\ QuietSeed(p, proc[p].seed)
    <3>1. old.isDefaultSeed \in BOOLEAN
      BY <1>0 DEF DrbgCtxs
    <3> QED BY <1>0, <1>3, <1>4, <3>1 DEF HeldCase, QuietSeed
  <2> QED BY <1>0, <1>1, <1>3, <2>1, <2>2 DEF QuietStep
<1>5. CASE old.isDefaultSeed
  <2>1. i \in DefaultUsers(p) /\ IsFiniteSet(DefaultUsers(p)) /\ proc[p].refs = Cardinality(DefaultUsers(p))
        /\ (proc[p].refs > 0 <=> proc[p].seed.state # "NONE")
    <3>1. IsFiniteSet(Ctxs) /\ DefaultUsers(p) \subseteq Ctxs
      BY DrbgAssumption DEF DefaultUsers
    <3> QED BY <1>5, <3>1, FS_Subset DEF DefaultUsers, BaseInv, SeedHeld
  <2>2. proc[p].refs > 0
    BY <1>0, <2>1, FS_EmptySet
  <2>3. CASE proc[p].refs > 1
    <3>1. EAL_SeedDrbgDeinit(q) = [q EXCEPT !.refs = proc[p].refs - 1]
      BY <1>2, <2>3 DEF EAL_SeedDrbgDeinit
    <3>2. EAL_SeedDrbgDeinit(q) = [proc[p] EXCEPT !.ctx = x, !.seed = proc[p].seed, !.refs = proc[p].refs - 1]
      BY <1>0, <1>2, <3>1 DEF Processes
    <3> DEFINE r == proc[p].refs - 1
    <3>a. r \in Nat /\ r # 0 /\ proc[p].seed.state # "NONE" /\ ~NoCtx.isDefaultSeed
      BY <1>0, <1>3, <2>1, <2>2, <2>3
    <3>3. CtxStep(p, i, NoCtx, proc[p].seed, r)
      BY <1>0, <1>1, <1>5, <3>2, <3>a, NoCtxType, RecordStep DEF BaseInv
    <3>4. HeldCase(p, i, NoCtx, proc[p].seed, r)
      BY <1>5, <3>a DEF HeldCase
    <3>5. QuietSeed(p, proc[p].seed)
      BY <1>0 DEF QuietSeed
    <3> QED BY <1>0, <1>1, <1>3, <3>3, <3>4, <3>5 DEF QuietStep
  <2>4. CASE ~(proc[p].refs > 1)
    <3>1. EAL_SeedDrbgDeinit(q) = [q EXCEPT !.refs = 0, !.seed = NoCtx]
      BY <1>2, <2>4 DEF EAL_SeedDrbgDeinit
    <3>2. EAL_SeedDrbgDeinit(q) = [proc[p] EXCEPT !.ctx = x, !.seed = NoCtx, !.refs = 0]
      BY <1>0, <1>2, <3>1 DEF Processes
    <3>3. CtxStep(p, i, NoCtx, NoCtx, 0)
      BY <1>0, <1>1, <1>5, <3>2, NoCtxType, RecordStep DEF BaseInv
    <3>a. 0 = proc[p].refs - 1 /\ ~NoCtx.isDefaultSeed /\ NoCtx.state = "NONE" /\ NoCtx \in DrbgCtxs
      BY <1>0, <1>3, <2>2, <2>4, NoCtxType
    <3>4. HeldCase(p, i, NoCtx, NoCtx, 0) /\ QuietSeed(p, NoCtx)
      BY <1>5, <3>a DEF HeldCase, QuietSeed
    <3> QED BY <1>0, <1>1, <1>3, <3>3, <3>4 DEF QuietStep
  <2> QED BY <2>3, <2>4
<1> QED BY <1>4, <1>5
\* Process q with context i, the seed DRBG and the references as given.
With(q, i, c, s, r) == [q EXCEPT !.ctx = [q.ctx EXCEPT ![i] = c], !.seed = s, !.refs = r]

SetRef(q, s, r) == [q EXCEPT !.seed = s, !.refs = r]
AddRef(q, r) == [q EXCEPT !.refs = r]
SetCtx(q, i, c) == [q EXCEPT !.ctx[i] = c]

\* A process in which one context, the seed DRBG and the count are replaced.
LEMMA WithStep ==
  ASSUME TypeInv, NEW p \in Pids, NEW i \in Ctxs, NEW c \in DrbgCtxs, NEW s \in DrbgCtxs,
         NEW r \in Nat, NEW y, proc' = [proc EXCEPT ![p] = y], y = With(proc[p], i, c, s, r)
  PROVE  CtxStep(p, i, c, s, r)
  BY RecordStep DEF With

\* A process as a record with context i, the seed DRBG and the references in view.
LEMMA ProcForms ==
  ASSUME TypeInv, NEW p \in Pids, NEW i \in Ctxs, NEW c \in DrbgCtxs, NEW s \in DrbgCtxs, NEW r \in Nat
  PROVE  /\ SetCtx(SetRef(proc[p], s, r), i, c) = With(proc[p], i, c, s, r)
         /\ SetRef(proc[p], s, r) = With(proc[p], i, proc[p].ctx[i], s, r)
         /\ AddRef(proc[p], r) = SetRef(proc[p], proc[p].seed, r)
         /\ proc[p] = With(proc[p], i, proc[p].ctx[i], proc[p].seed, proc[p].refs)
<1>1. /\ proc[p] \in Processes /\ proc[p].ctx \in [Ctxs -> DrbgCtxs]
  BY ProcTypes DEF Processes
<1>2. [proc[p].ctx EXCEPT ![i] = proc[p].ctx[i]] = proc[p].ctx
  BY <1>1
<1>3. SetCtx(SetRef(proc[p], s, r), i, c) = With(proc[p], i, c, s, r)
  BY <1>1 DEF Processes, With, SetCtx, SetRef
<1>4. AddRef(proc[p], r) = SetRef(proc[p], proc[p].seed, r)
  BY <1>1 DEF Processes, SetRef, AddRef
<1>5. /\ [proc[p] EXCEPT !.seed = s, !.refs = r]
              = [proc[p] EXCEPT !.ctx = proc[p].ctx, !.seed = s, !.refs = r]
      /\ proc[p] = [proc[p] EXCEPT !.ctx = proc[p].ctx, !.seed = proc[p].seed, !.refs = proc[p].refs]
  BY <1>1 DEF Processes
<1> QED BY <1>2, <1>3, <1>4, <1>5 DEF With, SetRef

\* A reference that is taken and given back.
LEMMA DeinitForms ==
  ASSUME TypeInv, NEW p \in Pids, NEW s \in DrbgCtxs
  PROVE  /\ proc[p].refs > 0 =>
              EAL_SeedDrbgDeinit(SetRef(proc[p], proc[p].seed, proc[p].refs + 1)) = proc[p]
         /\ EAL_SeedDrbgDeinit(SetRef(proc[p], s, 1)) = SetRef(proc[p], NoCtx, 0)
<1>1. proc[p] \in Processes /\ proc[p].refs \in Nat
  BY ProcTypes
<1> DEFINE a == SetRef(proc[p], proc[p].seed, proc[p].refs + 1)
           b == SetRef(proc[p], s, 1)
<1>2. a.refs = proc[p].refs + 1 /\ b.refs = 1
  BY <1>1 DEF Processes, SetRef
<1>3. ASSUME proc[p].refs > 0 PROVE EAL_SeedDrbgDeinit(a) = proc[p]
  <2>0. a.refs > 1 /\ a.refs - 1 = proc[p].refs
    BY <1>1, <1>2, <1>3
  <2> HIDE DEF a
  <2>1. EAL_SeedDrbgDeinit(a) = [a EXCEPT !.refs = proc[p].refs]
    BY <2>0 DEF EAL_SeedDrbgDeinit
  <2> USE DEF a
  <2> QED BY <1>1, <2>1 DEF Processes, SetRef
<1>4. EAL_SeedDrbgDeinit(b) = SetRef(proc[p], NoCtx, 0)
  <2>1. EAL_SeedDrbgDeinit(b) = [b EXCEPT !.refs = 0, !.seed = NoCtx]
    BY <1>1, <1>2 DEF EAL_SeedDrbgDeinit
  <2> QED BY <1>1, <2>1 DEF Processes, SetRef
<1> QED BY <1>3, <1>4

\* The process after a context was made on the default source, q being the process
\* with its reference: a late failure gives the reference back.
MadeOn(i, late, new, q) == IF late THEN EAL_SeedDrbgDeinit(q) ELSE SetCtx(q, i, new)

\* A new context seeded by the seed DRBG.
LEMMA DefaultSeedQuiet ==
  ASSUME BaseInv, NEW p \in Pids, NEW i \in Ctxs, CRYPT_EAL_DrbgNewDefaultSeed(p, i), bound' = bound
  PROVE  QuietStep(p, i)
<1> DEFINE old == proc[p].ctx[i]
           s0 == proc[p].seed
           r0 == proc[p].refs
<1>0. /\ TypeInv /\ old \in DrbgCtxs /\ proc[p] \in Processes /\ r0 \in Nat
      /\ s0 \in DrbgCtxs /\ drawn \in Nat /\ ~old.isDefaultSeed /\ QuietCtx(p, i, old)
      /\ (r0 > 0 <=> s0.state # "NONE")
  BY ProcTypes, QuietSelf DEF BaseInv, SeedHeld, CRYPT_EAL_DrbgNewDefaultSeed, MayCreate, FreeHandles, TypeInv
<1>1. PICK late \in BOOLEAN, n \in bound.intervals, b \in BOOLEAN :
        /\ DRBG_SetReseedInterval(n)
        /\ s0.state # "NONE" =>
             /\ proc' = [proc EXCEPT ![p] =
                   MadeOn(i, late, [DRBG_New(p, n) EXCEPT !.pr = b, !.isDefaultSeed = TRUE],
                          [proc[p] EXCEPT !.refs = @ + 1])]
             /\ UNCHANGED drawn
        /\ s0.state = "NONE" =>
             \E o \in EAL_SeedDrbgInit(p) :
               /\ drawn' = o.e
               /\ proc' = IF o.ok
                          THEN [proc EXCEPT ![p] =
                            MadeOn(i, late, [DRBG_New(p, n) EXCEPT !.pr = b, !.isDefaultSeed = TRUE],
                                   [proc[p] EXCEPT !.seed = o.c, !.refs = 1])]
                          ELSE proc
  BY Zenon DEF CRYPT_EAL_DrbgNewDefaultSeed, MadeOn, SetCtx
<1>2. UNCHANGED <<forks, emitted, repeated, stale, bound>>
  BY DEF CRYPT_EAL_DrbgNewDefaultSeed, NoOutput
<1>3. n \in Nat /\ DRBG_SetReseedInterval(n)
  BY <1>1, DrbgAssumption DEF BaseInv, TypeInv
<1> DEFINE new == [DRBG_New(p, n) EXCEPT !.pr = b, !.isDefaultSeed = TRUE]
<1>4. QuietCtx(p, i, new) /\ new \in DrbgCtxs /\ new.isDefaultSeed
  BY <1>3, QuietNew
<1> HIDE DEF new
<1>5. CASE s0.state # "NONE"
  <2> DEFINE y == MadeOn(i, late, new, SetRef(proc[p], s0, r0 + 1))
  <2>0. AddRef(proc[p], r0 + 1) = SetRef(proc[p], s0, r0 + 1)
    BY <1>0, <1>4, ProcForms
  <2>1. drawn' = drawn /\ proc' = [proc EXCEPT ![p] = y]
    BY <1>1, <1>5, <2>0, Zenon DEF new, AddRef
  <2>2. QuietSeed(p, s0) /\ r0 + 1 \in Nat
    BY <1>0 DEF QuietSeed
  <2>3. CASE late
    <3>1. y = proc[p]
      BY <1>0, <1>5, <2>3, DeinitForms DEF MadeOn
    <3>2. y = With(proc[p], i, old, s0, r0)
      BY <1>0, <3>1, ProcForms
    <3> HIDE DEF y
    <3>3. CtxStep(p, i, old, s0, r0)
      BY <1>0, <2>1, <3>2, WithStep
    <3>4. HeldCase(p, i, old, s0, r0)
      BY DEF HeldCase
    <3> HIDE DEF old, s0, r0
    <3> QED BY <1>0, <1>2, <2>1, <2>2, <3>3, <3>4 DEF QuietStep
  <2>4. CASE ~late
    <3>1. y = SetCtx(SetRef(proc[p], s0, r0 + 1), i, new)
      BY <2>4 DEF MadeOn
    <3> HIDE DEF y
    <3>2. y = With(proc[p], i, new, s0, r0 + 1)
      BY <1>0, <1>4, <2>2, <3>1, ProcForms
    <3>3. CtxStep(p, i, new, s0, r0 + 1)
      BY <1>0, <1>4, <2>1, <2>2, <3>2, WithStep
    <3>4. HeldCase(p, i, new, s0, r0 + 1)
      BY <1>0, <1>4, <1>5 DEF HeldCase
    <3> HIDE DEF old, s0, r0
    <3> QED BY <1>0, <1>2, <1>4, <2>1, <2>2, <3>3, <3>4 DEF QuietStep
  <2> QED BY <2>3, <2>4
<1>6. CASE s0.state = "NONE"
  <2>0. r0 = 0
    BY <1>0, <1>6
  <2>1. PICK o \in EAL_SeedDrbgInit(p) :
          /\ drawn' = o.e
          /\ proc' = IF o.ok
                     THEN [proc EXCEPT ![p] = MadeOn(i, late, new, SetRef(proc[p], o.c, 1))]
                     ELSE proc
    BY <1>1, <1>6, Zenon DEF new, SetRef
  <2>2. InitOutcome(p, o)
    BY <1>0, SeedInitStep
  <2>3. drawn' \in Nat /\ drawn <= drawn'
    BY <2>1, <2>2 DEF InitOutcome
  <2> DEFINE y == MadeOn(i, late, new, SetRef(proc[p], o.c, 1))
  <2>4. CASE ~o.ok
    <3>1. proc' = [proc EXCEPT ![p] = proc[p]]
      BY <2>1, <2>4 DEF BaseInv, TypeInv
    <3>2. proc[p] = With(proc[p], i, old, s0, r0)
      BY <1>0, ProcForms
    <3>3. CtxStep(p, i, old, s0, r0)
      BY <1>0, <3>1, <3>2, WithStep
    <3>4. HeldCase(p, i, old, s0, r0) /\ QuietSeed(p, s0)
      BY <1>0 DEF HeldCase, QuietSeed
    <3> HIDE DEF old, s0, r0
    <3> QED BY <1>0, <1>2, <2>3, <3>3, <3>4 DEF QuietStep
  <2>5. CASE o.ok /\ late
    <3>0. o.c \in DrbgCtxs /\ proc' = [proc EXCEPT ![p] = y]
      BY <2>1, <2>2, <2>5 DEF InitOutcome
    <3>1. y = SetRef(proc[p], NoCtx, 0)
      BY <1>0, <2>5, <3>0, DeinitForms DEF MadeOn
    <3> HIDE DEF y
    <3>2. y = With(proc[p], i, old, NoCtx, 0)
      BY <1>0, <3>1, ProcForms, NoCtxType
    <3>3. CtxStep(p, i, old, NoCtx, 0)
      BY <1>0, <3>0, <3>2, WithStep, NoCtxType
    <3>4. HeldCase(p, i, old, NoCtx, 0) /\ QuietSeed(p, NoCtx)
      BY <1>6, <2>0, NoCtxType DEF HeldCase, QuietSeed
    <3> HIDE DEF old, s0, r0
    <3> QED BY <1>0, <1>2, <2>3, <3>3, <3>4 DEF QuietStep
  <2>6. CASE o.ok /\ ~late
    <3>0. o.c \in DrbgCtxs /\ o.c.state = "READY" /\ proc' = [proc EXCEPT ![p] = y]
      BY <2>1, <2>2, <2>6 DEF InitOutcome
    <3>1. y = SetCtx(SetRef(proc[p], o.c, 1), i, new)
      BY <2>6 DEF MadeOn
    <3> HIDE DEF y
    <3>2. y = With(proc[p], i, new, o.c, 1)
      BY <1>0, <1>4, <3>0, <3>1, ProcForms
    <3>3. CtxStep(p, i, new, o.c, 1)
      BY <1>0, <1>4, <3>0, <3>2, WithStep
    <3>4. HeldCase(p, i, new, o.c, 1)
      BY <1>0, <1>4, <2>0, <3>0 DEF HeldCase
    <3>5. QuietSeed(p, o.c)
      BY <2>1, <2>2, <2>6 DEF QuietSeed, InitOutcome
    <3> HIDE DEF old, s0, r0
    <3> QED BY <1>2, <1>4, <2>3, <3>3, <3>4, <3>5 DEF QuietStep
  <2> QED BY <2>4, <2>5, <2>6
<1> QED BY <1>5, <1>6
\* A context that is used, with what BaseInv says of it.
LEMMA UsedCtx ==
  ASSUME BaseInv, NEW p \in Pids, NEW i \in Ctxs
  PROVE  /\ proc[p].ctx[i] \in DrbgCtxs /\ CounterOK(proc[p].ctx[i])
         /\ SeedsSafe({p}, p, Env(p), {}) /\ {p} \in SUBSET Pids /\ p \in {p}
  BY ProcTypes DEF BaseInv, CounterInv, SeedDrawn

\* What a seeding operation on context i of p leaves: context d, the seed DRBG and
\* the pool.
SeedingStep(P, p, i, U, d, o) ==
  /\ UserAfter(P, p, proc[p].ctx[i], Env(p), U, o) /\ SameGen(o.c, d) /\ Put(p, i, d, o.e)
  /\ UNCHANGED <<forks, emitted, repeated, stale>>

\* CRYPT_EAL_DrbgInstantiate as a step that seeds.
LEMMA InstantiateForm ==
  ASSUME BaseInv, NEW P \in SUBSET Pids, NEW p \in P, NEW i \in Ctxs, NEW U,
         SeedsSafe(P, p, Env(p), U), CRYPT_EAL_DrbgInstantiate(p, i)
  PROVE  \E d, o : SeedingStep(P, p, i, U, d, o)
<1> DEFINE c == proc[p].ctx[i]
<1>1. c \in DrbgCtxs
  BY UsedCtx
<1>2. PICK o \in User!DRBG_Instantiate(c, Env(p), p) :
        Put(p, i, IF o.ok THEN [o.c EXCEPT !.working = TRUE] ELSE o.c, o.e)
  BY DEF CRYPT_EAL_DrbgInstantiate
<1> DEFINE w == [o.c EXCEPT !.working = TRUE]
           d == IF o.ok THEN w ELSE o.c
<1> HIDE DEF c
<1>3. UserAfter(P, p, c, Env(p), U, o)
  BY <1>1, UserInstantiateStep
<1>4. o.c \in DrbgCtxs
  BY <1>3 DEF UserAfter, Reached
<1>5. SameGen(o.c, w) /\ SameGen(o.c, o.c)
  BY <1>4, SetWorking DEF SameGen
<1>6. Put(p, i, d, o.e)
  BY <1>2
<1> HIDE DEF w
<1>7. SameGen(o.c, d)
  BY <1>5
<1>8. UNCHANGED <<forks, emitted, repeated, stale>>
  BY DEF CRYPT_EAL_DrbgInstantiate, NoOutput
<1> HIDE DEF d
<1> QED BY <1>3, <1>6, <1>7, <1>8 DEF SeedingStep, c

\* EAL_DrbgSeedWithAdin as a step that seeds.
LEMMA ReseedForm ==
  ASSUME BaseInv, NEW P \in SUBSET Pids, NEW p \in P, NEW i \in Ctxs, NEW U,
         SeedsSafe(P, p, Env(p), U), EAL_DrbgSeedWithAdin(p, i)
  PROVE  \E d, o : SeedingStep(P, p, i, U, d, o)
<1> DEFINE c == proc[p].ctx[i]
<1>1. c \in DrbgCtxs
  BY UsedCtx
<1>2. PICK o \in User!DRBG_Reseed(c, Env(p), p) : Put(p, i, o.c, o.e)
  BY DEF EAL_DrbgSeedWithAdin
<1> HIDE DEF c
<1>3. UserAfter(P, p, c, Env(p), U, o)
  BY <1>1, UserReseedStep
<1>4. SameGen(o.c, o.c)
  BY <1>3 DEF UserAfter, Reached, SameGen
<1>5. UNCHANGED <<forks, emitted, repeated, stale>>
  BY DEF EAL_DrbgSeedWithAdin, NoOutput
<1> QED BY <1>2, <1>3, <1>4, <1>5 DEF SeedingStep, c

\* And what a block leaves.
BlockStep(P, p, i, U, d, o) ==
  /\ UserBlock(P, p, proc[p].ctx[i], Env(p), U, o) /\ SameGen(o.c, d) /\ Put(p, i, d, o.e)
  /\ emitted' = IF o.ok THEN emitted \cup {o.out} ELSE emitted
  /\ repeated' = (repeated \/ (o.ok /\ o.out \in emitted))
  /\ stale' = (stale \/ (o.ok /\ o.c.age > SeedLife(o.c)))
  /\ forks' = forks

\* What a block leaves behind, whether it comes from a new seed or not.
LEMMA BlockType ==
  ASSUME NEW P \in SUBSET Pids, NEW p \in P, NEW c \in DrbgCtxs, NEW e, NEW U, NEW o,
         UserBlock(P, p, c, e, U, o)
  PROVE  /\ o.c \in DrbgCtxs /\ o.c.isDefaultSeed = c.isDefaultSeed
         /\ o.c.state = "NONE" <=> c.state = "NONE"
         /\ EnvStep(p, e, o.e) /\ SeedsSafe(P, p, o.e, U)
         /\ o.ok => o.out \in Vs
         /\ CounterOK(c) => CounterOK(o.c) /\ (o.ok => ~(o.c.age > SeedLife(o.c)))
<1>1. CASE ~o.ok /\ UserAfter(P, p, c, e, U, o)
  BY <1>1 DEF UserAfter, Reached
<1>2. ASSUME NEW r, UserAfter(P, p, c, e, U, r), Active(r.c, p), r.c.reseedCtr <= SeedLife(r.c),
             BlockOf(r.c, r.e, o)
      PROVE  /\ o.c \in DrbgCtxs /\ o.c.isDefaultSeed = c.isDefaultSeed
             /\ o.c.state = "NONE" <=> c.state = "NONE"
             /\ EnvStep(p, e, o.e) /\ SeedsSafe(P, p, o.e, U)
             /\ o.ok => o.out \in Vs
             /\ CounterOK(c) => CounterOK(o.c) /\ (o.ok => ~(o.c.age > SeedLife(o.c)))
  <2>1. /\ r.c \in DrbgCtxs /\ r.c.state = "READY" /\ r.c.isDefaultSeed = c.isDefaultSeed
        /\ c.state # "NONE" /\ EnvStep(p, e, r.e) /\ SeedsSafe(P, p, r.e, U) /\ r.c.v \in Vs
        /\ CounterOK(c) => CounterOK(r.c)
    BY <1>2 DEF UserAfter, Reached, Active, DrbgCtxs
  <2>2. /\ o.e = r.e /\ o.c \in DrbgCtxs /\ o.c.state = "READY"
        /\ o.c.isDefaultSeed = r.c.isDefaultSeed /\ (o.ok => o.out \in Vs)
    BY <1>2, <2>1 DEF BlockOf
  <2>3. CounterOK(c) => CounterOK(o.c) /\ (o.ok => o.c.age <= SeedLife(o.c))
    BY <1>2, <2>1, CounterStep
  <2>4. o.c.age \in Nat /\ SeedLife(o.c) \in Nat
    BY <2>2 DEF DrbgCtxs, SeedLife
  <2>5. o.c.age <= SeedLife(o.c) => ~(o.c.age > SeedLife(o.c))
    BY <2>4
  <2> QED BY <2>1, <2>2, <2>3, <2>5
<1> QED BY <1>1, <1>2 DEF UserBlock

\* DRBG_GenerateBytes as a step that emits a block.
LEMMA GenerateForm ==
  ASSUME BaseInv, NEW P \in SUBSET Pids, NEW p \in P, NEW i \in Ctxs, NEW U,
         SeedsSafe(P, p, Env(p), U), DRBG_GenerateBytes(p, i)
  PROVE  \E d, o : BlockStep(P, p, i, U, d, o)
<1> DEFINE c == proc[p].ctx[i]
<1>1. c \in DrbgCtxs
  BY UsedCtx
<1>2. PICK o \in User!DRBG_Generate(c, Env(p), p) :
          LET left == IF o.ok THEN c.left - 1 ELSE 0
          IN /\ Put(p, i, [o.c EXCEPT !.left = left, !.lock = IF left = 0 THEN "free" ELSE "held"], o.e)
             /\ emitted'  = IF o.ok THEN emitted \cup {o.out} ELSE emitted
             /\ repeated' = (repeated \/ (o.ok /\ o.out \in emitted))
             /\ stale'    = (stale \/ (o.ok /\ o.c.age > SeedLife(o.c)))
  BY Zenon DEF DRBG_GenerateBytes
<1> DEFINE left == IF o.ok THEN c.left - 1 ELSE 0
           lock == IF left = 0 THEN "free" ELSE "held"
           d == [o.c EXCEPT !.left = left, !.lock = lock]
<1>3. left \in Int /\ lock \in {"free", "held", "orphaned"}
  BY <1>1 DEF DrbgCtxs
<1>4. Put(p, i, d, o.e)
  BY <1>2
<1> HIDE DEF c, left, lock
<1>5. UserBlock(P, p, c, Env(p), U, o)
  BY <1>1, UserGenerateStep
<1>6. o.c \in DrbgCtxs
  BY <1>1, <1>5, BlockType
<1>7. SameGen(o.c, d)
  BY <1>3, <1>6, SetLock
<1> HIDE DEF d
<1>8. forks' = forks
  BY DEF DRBG_GenerateBytes
<1> QED BY <1>2, <1>4, <1>5, <1>7, <1>8 DEF BlockStep, c
\* A step that seeds keeps the first invariant.
LEMMA SeedingBase ==
  ASSUME BaseInv, NEW p \in Pids, NEW i \in Ctxs, NEW d, NEW o,
         SeedingStep({p}, p, i, {}, d, o), bound' = bound
  PROVE  BaseInv'
<1> DEFINE c == proc[p].ctx[i]
<1>1. c \in DrbgCtxs /\ CounterOK(c)
  BY UsedCtx
<1>2. /\ UserAfter({p}, p, c, Env(p), {}, o) /\ SameGen(o.c, d) /\ Put(p, i, d, o.e)
      /\ UNCHANGED <<forks, emitted, repeated, stale>>
  BY DEF SeedingStep
<1>3. /\ Reached(c, o.c, p) /\ CounterOK(o.c) /\ SeedsSafe({p}, p, o.e, {})
      /\ EnvStep(p, Env(p), o.e)
  BY <1>1, <1>2 DEF UserAfter, Reached
<1>4. d \in DrbgCtxs /\ (d.state = "NONE" => c.state = "NONE") /\ d.isDefaultSeed = c.isDefaultSeed /\ CounterOK(d)
  BY <1>2, <1>3, SameGenCounter DEF SameGen, Reached
<1>5. emitted' \subseteq Vs /\ repeated' \in BOOLEAN /\ stale' = FALSE /\ forks' = forks
  BY <1>2, Zenon DEF BaseInv, TypeInv, SeedNotStale
<1> HIDE DEF c
<1> QED BY <1>2, <1>3, <1>4, <1>5, UserOpBase DEF c

\* A step that emits a block keeps the first invariant.
LEMMA BlockBase ==
  ASSUME BaseInv, NEW p \in Pids, NEW i \in Ctxs, NEW d, NEW o,
         BlockStep({p}, p, i, {}, d, o), bound' = bound
  PROVE  BaseInv'
<1> DEFINE c == proc[p].ctx[i]
<1>1. c \in DrbgCtxs /\ CounterOK(c) /\ {p} \in SUBSET Pids /\ p \in {p}
  BY UsedCtx
<1>2. /\ UserBlock({p}, p, c, Env(p), {}, o) /\ SameGen(o.c, d) /\ Put(p, i, d, o.e)
      /\ emitted' = IF o.ok THEN emitted \cup {o.out} ELSE emitted
      /\ repeated' = (repeated \/ (o.ok /\ o.out \in emitted))
      /\ stale' = (stale \/ (o.ok /\ o.c.age > SeedLife(o.c)))
      /\ forks' = forks
  BY DEF BlockStep
<1> HIDE DEF c
<1>3. /\ o.c \in DrbgCtxs /\ o.c.isDefaultSeed = c.isDefaultSeed
      /\ o.c.state = "NONE" <=> c.state = "NONE"
      /\ EnvStep(p, Env(p), o.e) /\ SeedsSafe({p}, p, o.e, {})
      /\ o.ok => o.out \in Vs
      /\ CounterOK(o.c) /\ (o.ok => ~(o.c.age > SeedLife(o.c)))
  BY <1>1, <1>2, BlockType
<1>4. d \in DrbgCtxs /\ (d.state = "NONE" => c.state = "NONE") /\ d.isDefaultSeed = c.isDefaultSeed /\ CounterOK(d)
  BY <1>2, <1>3, SameGenCounter DEF SameGen, c
<1>5. emitted' \subseteq Vs
  BY <1>2, <1>3 DEF BaseInv, TypeInv
<1>6. repeated' \in BOOLEAN /\ stale' = FALSE
  BY <1>2, <1>3, Zenon DEF BaseInv, TypeInv, SeedNotStale
<1> QED BY <1>2, <1>3, <1>4, <1>5, <1>6, UserOpBase DEF c

\* A step without output keeps what holds of a seed DRBG.
LEMMA QuietBase ==
  ASSUME BaseInv, NEW p \in Pids, NEW i \in Ctxs, QuietStep(p, i)
  PROVE  BaseInv'
<1>1. PICK c, s, r : CtxStep(p, i, c, s, r) /\ HeldCase(p, i, c, s, r)
                     /\ QuietCtx(p, i, c) /\ QuietSeed(p, s)
  BY DEF QuietStep
<1>2. drawn' \in Nat /\ drawn <= drawn' /\ UNCHANGED <<forks, emitted, repeated, stale, bound>>
  BY DEF QuietStep
<1>3. SeedsSafe({p}, p, [s |-> s, n |-> drawn'], {})
  <2>1. SeedsSafe({p}, p, Env(p), {}) /\ Env(p).s = proc[p].seed /\ Env(p).n = drawn
    BY UsedCtx, ProcTypes DEF BaseInv
  <2>2. CASE s = proc[p].seed
    BY <1>2, <2>1, <2>2, SafeAdvance
  <2>3. CASE s # proc[p].seed
    <3>1. s \in DrbgCtxs
      BY <1>1 DEF QuietSeed
    <3>2. s.state = "READY" => \E k \in Nat : k <= drawn' /\ s.v = [seed |-> <<k>>, gen |-> 0]
      BY <1>1, <2>3 DEF QuietSeed
    <3> QED BY <1>2, <3>1, <3>2, InitSafe
  <2> QED BY <2>2, <2>3
<1>4. CounterOK(c) /\ (c.state = "NONE" => ~c.isDefaultSeed)
  BY <1>1 DEF QuietCtx
<1>5. emitted' \subseteq Vs /\ repeated' \in BOOLEAN /\ stale' = FALSE /\ forks' \in Nat
  BY <1>2, Zenon DEF BaseInv, TypeInv, SeedNotStale
<1> QED BY <1>1, <1>2, <1>3, <1>4, <1>5, BaseKept

\* The child of fork has the memory of its parent.
ForkStep(p, q) ==
  /\ proc' \in [Pids -> Processes]
  /\ proc'[q].seed = proc[p].seed /\ proc'[q].refs = proc[p].refs /\ proc'[q].life = "alive"
  /\ \A i \in Ctxs : SameGen(proc[p].ctx[i], proc'[q].ctx[i])
  /\ \A o \in Pids \ {q} : proc'[o] = proc[o]

\* Fork in terms of the two processes.
LEMMA ForkForm ==
  ASSUME TypeInv, NEW p \in Pids, NEW q \in Pids, Fork(p, q)
  PROVE  ForkStep(p, q) /\ forks' = forks + 1 /\ UNCHANGED <<drawn, emitted, repeated, stale>>
<1>1. proc[p] \in Processes /\ proc \in [Pids -> Processes] /\ proc[p].ctx \in [Ctxs -> DrbgCtxs]
      /\ proc[p].life = "alive"
  BY DEF TypeInv, Processes, Fork, Alive
<1> DEFINE x == [i \in Ctxs |-> ForkLock(proc[p].ctx[i])]
           y == [proc[p] EXCEPT !.ctx = x]
<1>2. proc' = [proc EXCEPT ![q] = y]
  BY Zenon DEF Fork
<1>3. \A i \in Ctxs : SameGen(proc[p].ctx[i], ForkLock(proc[p].ctx[i]))
  BY <1>1, ForkLockSame
<1>4. \A i \in Ctxs : SameGen(proc[p].ctx[i], x[i])
  BY <1>3
<1>5. x \in [Ctxs -> DrbgCtxs]
  BY <1>3 DEF SameGen
<1> HIDE DEF x
<1>6. y \in Processes
  BY <1>1, <1>5 DEF Processes
<1>7. y.ctx = x /\ y.seed = proc[p].seed /\ y.refs = proc[p].refs /\ y.life = "alive"
  BY <1>1 DEF Processes
<1> HIDE DEF y
<1>8. proc' \in [Pids -> Processes] /\ proc'[q] = y /\ \A o \in Pids \ {q} : proc'[o] = proc[o]
  BY <1>1, <1>2, <1>6
<1>9. forks' = forks + 1 /\ UNCHANGED <<drawn, emitted, repeated, stale>>
  BY DEF Fork, NoOutput
<1> QED BY <1>4, <1>7, <1>8, <1>9 DEF ForkStep

\* A process that ends leaves nothing.
ExitStep(p) ==
  /\ proc' \in [Pids -> Processes]
  /\ proc'[p].seed = NoCtx /\ proc'[p].refs = 0 /\ proc'[p].life = "dead"
  /\ \A i \in Ctxs : proc'[p].ctx[i] = NoCtx
  /\ \A q \in Pids \ {p} : proc'[q] = proc[q]

\* Exit in terms of the process.
LEMMA ExitForm ==
  ASSUME TypeInv, NEW p \in Pids, Exit(p)
  PROVE  ExitStep(p) /\ UNCHANGED <<drawn, forks, emitted, repeated, stale>>
<1> DEFINE y == [NoProc EXCEPT !.life = "dead"]
<1>1. proc' = [proc EXCEPT ![p] = y] /\ proc \in [Pids -> Processes]
  BY DEF Exit, TypeInv
<1>2. y = [life |-> "dead", ctx |-> [i \in Ctxs |-> NoCtx], seed |-> NoCtx, refs |-> 0]
  BY DEF NoProc
<1> HIDE DEF y
<1>3. y \in Processes
  BY <1>2, NoCtxType DEF Processes
<1>4. y.seed = NoCtx /\ y.refs = 0 /\ y.life = "dead" /\ \A i \in Ctxs : y.ctx[i] = NoCtx
  BY <1>2
<1>5. proc' \in [Pids -> Processes] /\ proc'[p] = y /\ \A q \in Pids \ {p} : proc'[q] = proc[q]
  BY <1>1, <1>3
<1>6. UNCHANGED <<drawn, forks, emitted, repeated, stale>>
  BY DEF Exit, NoOutput
<1> QED BY <1>4, <1>5, <1>6 DEF ExitStep
\* The start.
LEMMA BaseInit == ASSUME Init PROVE BaseInv
<1> USE DrbgAssumption
<1> DEFINE None == [i \in Ctxs |-> NoCtx]
           q(l) == [life |-> l, ctx |-> None, seed |-> NoCtx, refs |-> 0]
<1>1. NoProc = q("unborn") /\ [NoProc EXCEPT !.life = "alive"] = q("alive")
  BY DEF NoProc
<1>2. None \in [Ctxs -> DrbgCtxs] /\ \A i \in Ctxs : None[i] = NoCtx
  BY NoCtxType
<1> HIDE DEF None
<1>3. \A l \in {"unborn", "alive", "dead"} : q(l) \in Processes
  BY <1>2, NoCtxType DEF Processes
<1>4. \A l : q(l).ctx = None /\ q(l).seed = NoCtx /\ q(l).refs = 0
  OBVIOUS
<1> HIDE DEF q
<1>5. PICK p \in Pids : proc = [o \in Pids |-> IF o = p THEN q("alive") ELSE q("unborn")]
  BY <1>1 DEF Init
<1>6. proc \in [Pids -> Processes]
  BY <1>3, <1>5
<1>7. \A o \in Pids : proc[o].seed = NoCtx /\ proc[o].refs = 0 /\ \A i \in Ctxs : proc[o].ctx[i] = NoCtx
  BY <1>2, <1>4, <1>5
<1>8. drawn = 0 /\ forks = 0 /\ emitted = {} /\ repeated = FALSE /\ stale = FALSE /\ bound \in Bounds
  BY DEF Init
<1>9. TypeInv
  BY <1>6, <1>8 DEF TypeInv
<1>10. CounterInv /\ FreeHandles
  BY <1>7, NoCtxType DEF CounterInv, FreeHandles
<1>11. SeedDrawn
  <2> SUFFICES ASSUME NEW o \in Pids PROVE SeedsSafe({o}, o, Env(o), {})
    BY DEF SeedDrawn
  <2>1. Env(o) = [s |-> NoCtx, n |-> 0]
    BY <1>7, <1>8 DEF Env
  <2>2. SeedsSafe({o}, o, [s |-> NoCtx, n |-> 0], {})
    BY NoCtxType, InitSafe
  <2> QED BY <2>1, <2>2
<1>12. SeedHeld
  <2> SUFFICES ASSUME NEW o \in Pids
               PROVE  /\ proc[o].refs = Cardinality(DefaultUsers(o))
                      /\ (proc[o].refs > 0) <=> (proc[o].seed.state # "NONE")
    BY DEF SeedHeld
  <2>1. DefaultUsers(o) = {}
    BY <1>7, NoCtxType DEF DefaultUsers
  <2> QED BY <1>7, <2>1, NoCtxType, FS_EmptySet
<1> QED BY <1>8, <1>9, <1>10, <1>11, <1>12 DEF BaseInv, SeedNotStale

\* Fork keeps the first invariant.
LEMMA ForkBase ==
  ASSUME BaseInv, NEW p \in Pids, NEW q \in Pids, Fork(p, q), bound' = bound
  PROVE  BaseInv'
<1>1. ForkStep(p, q) /\ forks' = forks + 1 /\ UNCHANGED <<drawn, emitted, repeated, stale>>
  BY ForkForm DEF BaseInv
<1>2. /\ proc' \in [Pids -> Processes]
      /\ proc'[q].seed = proc[p].seed /\ proc'[q].refs = proc[p].refs
      /\ \A i \in Ctxs : SameGen(proc[p].ctx[i], proc'[q].ctx[i])
      /\ \A o \in Pids \ {q} : proc'[o] = proc[o]
  BY <1>1 DEF ForkStep
<1>2a. forks' \in Nat
  BY <1>1 DEF BaseInv, TypeInv
<1>3. TypeInv'
  BY <1>1, <1>2, <1>2a, Zenon DEF BaseInv, TypeInv
<1>4. CounterInv'
  <2>1. \A i \in Ctxs : CounterOK(proc'[q].ctx[i])
    BY <1>2, SameGenCounter DEF BaseInv, CounterInv
  <2> QED BY <1>2, <2>1 DEF BaseInv, CounterInv
<1>5. FreeHandles'
  BY <1>2 DEF BaseInv, FreeHandles, SameGen
<1>6. SeedDrawn'
  <2> SUFFICES ASSUME NEW o \in Pids PROVE SeedsSafe({o}, o, Env(o), {})'
    BY DEF SeedDrawn
  <2>1. CASE o # q
    <3>1. Env(o)' = Env(o) /\ SeedsSafe({o}, o, Env(o), {})
      BY <1>1, <1>2, <2>1 DEF Env, BaseInv, SeedDrawn
    <3> QED BY <3>1 DEF SeedsSafe, SeedOf
  <2>2. CASE o = q
    <3>1. Env(q)' = Env(p) /\ SeedsSafe({p}, p, Env(p), {})
      BY <1>1, <1>2 DEF Env, BaseInv, SeedDrawn
    <3> QED BY <2>2, <3>1 DEF SeedsSafe, SeedOf
  <2> QED BY <2>1, <2>2
<1>7. SeedHeld'
  <2>1. \A o \in Pids \ {q} : DefaultUsers(o)' = DefaultUsers(o)
    BY <1>2 DEF DefaultUsers
  <2>2. DefaultUsers(q)' = DefaultUsers(p)
    BY <1>2 DEF DefaultUsers, SameGen
  <2> QED BY <1>2, <2>1, <2>2 DEF BaseInv, SeedHeld
<1> QED BY <1>1, <1>3, <1>4, <1>5, <1>6, <1>7 DEF BaseInv, SeedNotStale

\* Exit keeps the first invariant.
LEMMA ExitBase ==
  ASSUME BaseInv, NEW p \in Pids, Exit(p), bound' = bound
  PROVE  BaseInv'
<1>1. ExitStep(p) /\ UNCHANGED <<drawn, forks, emitted, repeated, stale>>
  BY ExitForm DEF BaseInv
<1>2. /\ proc' \in [Pids -> Processes]
      /\ proc'[p].seed = NoCtx /\ proc'[p].refs = 0
      /\ \A i \in Ctxs : proc'[p].ctx[i] = NoCtx
      /\ \A q \in Pids \ {p} : proc'[q] = proc[q]
  BY <1>1 DEF ExitStep
<1>3. TypeInv'
  BY <1>1, <1>2, Zenon DEF BaseInv, TypeInv
<1>4. CounterInv' /\ FreeHandles'
  BY <1>2, NoCtxType DEF BaseInv, CounterInv, FreeHandles
<1>5. SeedDrawn'
  <2> SUFFICES ASSUME NEW o \in Pids PROVE SeedsSafe({o}, o, Env(o), {})'
    BY DEF SeedDrawn
  <2>1. CASE o # p
    <3>1. Env(o)' = Env(o) /\ SeedsSafe({o}, o, Env(o), {})
      BY <1>1, <1>2, <2>1 DEF Env, BaseInv, SeedDrawn
    <3> QED BY <3>1 DEF SeedsSafe, SeedOf
  <2>2. CASE o = p
    <3>1. Env(p)' = [s |-> NoCtx, n |-> drawn] /\ drawn \in Nat
      BY <1>1, <1>2 DEF Env, BaseInv, TypeInv
    <3>2. SeedsSafe({p}, p, [s |-> NoCtx, n |-> drawn], {})
      BY <3>1, NoCtxType, InitSafe
    <3> QED BY <2>2, <3>1, <3>2 DEF SeedsSafe, SeedOf
  <2> QED BY <2>1, <2>2
<1>6. SeedHeld'
  <2>1. \A o \in Pids \ {p} : DefaultUsers(o)' = DefaultUsers(o)
    BY <1>2 DEF DefaultUsers
  <2>2. DefaultUsers(p)' = {}
    BY <1>2, NoCtxType DEF DefaultUsers
  <2>3. Cardinality({}) = 0
    BY FS_EmptySet
  <2>4. \A o \in Pids : /\ proc'[o].refs = Cardinality(DefaultUsers(o)')
                        /\ (proc'[o].refs > 0) <=> (proc'[o].seed.state # "NONE")
    <3> TAKE o \in Pids
    <3>1. CASE o = p
      BY <1>2, <2>2, <2>3, <3>1, NoCtxType
    <3>2. CASE o # p
      BY <1>2, <2>1, <3>2 DEF BaseInv, SeedHeld
    <3> QED BY <3>1, <3>2
  <2> QED BY <2>4 DEF SeedHeld
<1> QED BY <1>1, <1>3, <1>4, <1>5, <1>6 DEF BaseInv, SeedNotStale

\* Every step keeps the first invariant.
LEMMA BaseNext == ASSUME BaseInv, [Next]_vars PROVE BaseInv'
<1>1. CASE UNCHANGED vars
  BY <1>1 DEF vars, BaseInv, TypeInv, CounterInv, FreeHandles, SeedDrawn, SeedHeld, SeedNotStale,
              SeedsSafe, SeedOf, Env, DefaultUsers
<1>2. CASE Next
  <2>0. bound' = bound
    BY <1>2 DEF Next
  <2>1. ASSUME NEW p \in Pids, NEW i \in Ctxs, Operation(p, i) PROVE BaseInv'
    <3>0. SeedsSafe({p}, p, Env(p), {}) /\ {p} \in SUBSET Pids /\ p \in {p}
      BY UsedCtx
    <3>1. CASE CRYPT_EAL_DrbgNewOwnSeed(p, i)
      BY <2>0, <3>1, OwnSeedQuiet, QuietBase
    <3>2. CASE CRYPT_EAL_DrbgNewDefaultSeed(p, i)
      BY <2>0, <3>2, DefaultSeedQuiet, QuietBase
    <3>3. CASE CRYPT_EAL_DrbgInstantiate(p, i)
      BY <2>0, <3>0, <3>3, InstantiateForm, SeedingBase
    <3>4. CASE EAL_DrbgSeedWithAdin(p, i)
      BY <2>0, <3>0, <3>4, ReseedForm, SeedingBase
    <3>5. CASE EAL_DrbgbytesWithAdin(p, i)
      BY <2>0, <3>5, BytesQuiet, QuietBase
    <3>6. CASE DRBG_GenerateBytes(p, i)
      BY <2>0, <3>0, <3>6, GenerateForm, BlockBase
    <3>7. CASE EAL_RandDeinit(p, i)
      BY <2>0, <3>7, DeinitQuiet, QuietBase
    <3> QED BY <2>1, <3>1, <3>2, <3>3, <3>4, <3>5, <3>6, <3>7 DEF Operation
  <2> QED BY <1>2, <2>0, <2>1, ForkBase, ExitBase DEF Next
<1> QED BY <1>1, <1>2

\* Types, counters, references and ages in every reachable state.
LEMMA BaseAlways == Spec => []BaseInv
<1>1. Init => BaseInv
  BY BaseInit
<1>2. BaseInv /\ [Next]_vars => BaseInv'
  BY BaseNext
<1> QED BY <1>1, <1>2, PTL DEF Spec

\* references is the number of contexts on the default source, and the seed DRBG
\* exists exactly while there are some: through failures of EAL_SeedDrbgInit, of
\* the steps after it, deinitialisation in any order, fork and exit.
THEOREM SeedHeldTheorem == Spec => []SeedHeld
<1>1. BaseInv => SeedHeld
  BY DEF BaseInv
<1> QED BY <1>1, BaseAlways, PTL

\* No block comes from a seed older than its interval: a counter of any width does
\* not wrap before DRBG_IsNeedReseed compares it, for every interval that
\* DRBG_SetReseedInterval accepts.
THEOREM SeedNotStaleTheorem == Spec => []SeedNotStale
<1>1. BaseInv => SeedNotStale
  BY DEF BaseInv
<1> QED BY <1>1, BaseAlways, PTL
-------------------------------------------------------------------------------
(* Streams: as long as a process id is not given again. *)

StreamIInv == BaseInv /\ SeedInv /\ StreamInv /\ UnbornInv /\ NoRepeatedOutput

\* The seed DRBGs as process p finds them.
LEMMA SeedInvSafe ==
  ASSUME TypeInv, SeedInv, NEW p \in Pids
  PROVE  SeedsSafe(Pids, p, Env(p), Used)
<1>1. Env(p) \in Envs /\ Env(p).n = drawn
  BY ProcTypes
<1>2. \A q \in Pids : SeedOf(q, p, Env(p)) = proc[q].seed
  BY ProcTypes DEF SeedOf
<1> QED BY <1>1, <1>2 DEF SeedsSafe, SeedInv

\* And as p leaves them, when the materials in use are in W.
LEMMA SafeSeedInv ==
  ASSUME NEW p \in Pids, NEW i, NEW c, NEW s, NEW r, NEW W, CtxStep(p, i, c, s, r),
         SeedsSafe(Pids, p, [s |-> s, n |-> drawn'], W), Used' \subseteq W
  PROVE  SeedInv'
<1> DEFINE e == [s |-> s, n |-> drawn']
<1>1. e.n = drawn' /\ \A q \in Pids : SeedOf(q, p, e) = proc'[q].seed
  BY DEF SeedOf, CtxStep
<1>2. SeedsSafe(Pids, p, e, W)
  OBVIOUS
<1> HIDE DEF e
<1> QED BY <1>1, <1>2 DEF SeedsSafe, SeedInv

\* A step of one context, which from w on is the stream of that context: it is its
\* old one or a new one, and w is put out or kept.
StreamCase(p, i, d, w) ==
  /\ w.gen \in Nat
  /\ Active(d, p) => /\ d.v.seed = w.seed
                     /\ \/ Active(proc[p].ctx[i], p) /\ w = proc[p].ctx[i].v
                        \/ w.seed \notin Used
  /\ \/ emitted' = emitted /\ (Active(d, p) => d.v.gen = w.gen)
     \/ Active(d, p) /\ emitted' = emitted \cup {w} /\ d.v.gen = w.gen + 1

\* Seeds in use and seeds of blocks emitted are used ones.
LEMMA UsedFacts ==
  /\ \A a \in ActiveUsers : VOf(a).seed \in Used
  /\ \A x \in emitted : x.seed \in Used
  BY DEF Used

\* The seed of an active context is a used one.
LEMMA OwnUsed ==
  ASSUME NEW p \in Pids, NEW i \in Ctxs, NEW c, c = proc[p].ctx[i], Active(c, p)
  PROVE  c.v.seed \in Used
<1>1. <<p, i>> \in ActiveUsers /\ VOf(<<p, i>>) = c.v
  BY DEF ActiveUsers, VOf
<1> QED BY <1>1, UsedFacts

\* The contexts that are active after a step, and their streams.
LEMMA ActiveAfter ==
  ASSUME NEW p \in Pids, NEW i \in Ctxs, NEW d, NEW s, NEW r, CtxStep(p, i, d, s, r)
  PROVE  /\ \A a \in ActiveUsers' : a # <<p, i>> => a \in ActiveUsers /\ VOf(a)' = VOf(a)
         /\ <<p, i>> \in ActiveUsers' => Active(d, p) /\ VOf(<<p, i>>)' = d.v
         /\ Active(proc[p].ctx[i], p) => <<p, i>> \in ActiveUsers /\ VOf(<<p, i>>) = proc[p].ctx[i].v
<1>1. ASSUME NEW a \in ActiveUsers', a # <<p, i>> PROVE a \in ActiveUsers /\ VOf(a)' = VOf(a)
  <2>1. PICK q \in Pids, j \in Ctxs : a = <<q, j>>
    BY DEF ActiveUsers
  <2>2. proc'[q].ctx[j] = proc[q].ctx[j]
    BY <1>1, <2>1 DEF CtxStep
  <2> QED BY <1>1, <2>1, <2>2 DEF ActiveUsers, VOf
<1>2. <<p, i>> \in ActiveUsers' => Active(d, p) /\ VOf(<<p, i>>)' = d.v
  BY DEF ActiveUsers, VOf, CtxStep
<1>3. Active(proc[p].ctx[i], p) => <<p, i>> \in ActiveUsers /\ VOf(<<p, i>>) = proc[p].ctx[i].v
  BY DEF ActiveUsers, VOf
<1> QED BY <1>1, <1>2, <1>3
\* A step of one context keeps the streams apart.
LEMMA StreamKept ==
  ASSUME TypeInv, StreamInv, NEW p \in Pids, NEW i \in Ctxs, NEW d, NEW s, NEW r, NEW w,
         CtxStep(p, i, d, s, r), StreamCase(p, i, d, w)
  PROVE  /\ StreamInv' /\ Used' \subseteq Used \cup {w.seed}
         /\ ~Active(d, p) => Used' \subseteq Used
         /\ Active(d, p) => w \notin emitted
<1> DEFINE A == <<p, i>>
           c == proc[p].ctx[i]
<1>1. /\ \A a \in ActiveUsers' : a # A => a \in ActiveUsers /\ VOf(a)' = VOf(a)
      /\ A \in ActiveUsers' => Active(d, p) /\ VOf(A)' = d.v
      /\ Active(c, p) => A \in ActiveUsers /\ VOf(A) = c.v
  BY ActiveAfter
<1>2. w.gen \in Nat
  BY DEF StreamCase
<1>3. /\ \A a, b \in ActiveUsers : a # b => VOf(a).seed # VOf(b).seed
      /\ \A a \in ActiveUsers : \A x \in emitted : x.seed = VOf(a).seed => x.gen < VOf(a).gen
  BY DEF StreamInv
<1>4. Active(d, p) => /\ d.v.seed = w.seed
                      /\ (Active(c, p) /\ w = c.v) \/ w.seed \notin Used
  BY DEF StreamCase
<1> HIDE DEF A, c
<1>5. ASSUME Active(d, p), NEW b \in ActiveUsers, b # A PROVE VOf(b).seed # w.seed
  BY <1>1, <1>3, <1>4, <1>5, UsedFacts
<1>6. ASSUME Active(d, p), NEW x \in emitted, x.seed = w.seed PROVE x.gen < w.gen
  BY <1>1, <1>3, <1>4, <1>6, UsedFacts
<1>7. \A a, b \in ActiveUsers' : a # b => VOf(a)'.seed # VOf(b)'.seed
  BY <1>1, <1>3, <1>4, <1>5
<1>8. \A x \in emitted : x.gen \in Nat
  BY DEF TypeInv, Vs
<1>9. CASE emitted' = emitted /\ (Active(d, p) => d.v.gen = w.gen)
  <2>1. ASSUME NEW a \in ActiveUsers', NEW x \in emitted, x.seed = VOf(a)'.seed
        PROVE  x.gen < VOf(a)'.gen
    BY <1>1, <1>3, <1>4, <1>6, <1>9, <2>1
  <2>2. StreamInv'
    BY <1>7, <1>9, <2>1 DEF StreamInv
  <2>3. \A a \in ActiveUsers' : VOf(a)'.seed \in Used \cup {w.seed} /\ (~Active(d, p) => VOf(a)'.seed \in Used)
    BY <1>1, <1>4, UsedFacts
  <2>4. Used' = {VOf(a)'.seed : a \in ActiveUsers'} \cup {x.seed : x \in emitted}
    BY <1>9 DEF Used
  <2>5. Used' \subseteq Used \cup {w.seed} /\ (~Active(d, p) => Used' \subseteq Used)
    BY <2>3, <2>4, UsedFacts
  <2> QED BY <1>2, <1>6, <2>2, <2>5
<1>10. CASE Active(d, p) /\ emitted' = emitted \cup {w} /\ d.v.gen = w.gen + 1
  <2>1. ASSUME NEW a \in ActiveUsers', NEW x \in emitted', x.seed = VOf(a)'.seed
        PROVE  x.gen < VOf(a)'.gen
    <3>1. CASE a = A
      <4>1. VOf(a)'.seed = w.seed /\ VOf(a)'.gen = w.gen + 1
        BY <1>1, <1>4, <1>10, <3>1
      <4>2. CASE x = w
        BY <1>2, <4>1, <4>2
      <4>3. CASE x \in emitted
        BY <1>2, <1>6, <1>8, <1>10, <2>1, <4>1, <4>3
      <4> QED BY <1>10, <4>2, <4>3
    <3>2. CASE a # A
      <4>1. a \in ActiveUsers /\ VOf(a)' = VOf(a) /\ VOf(a).seed # w.seed
        BY <1>1, <1>5, <1>10, <3>2
      <4> QED BY <1>3, <1>10, <2>1, <4>1
    <3> QED BY <3>1, <3>2
  <2>2. StreamInv'
    BY <1>7, <2>1 DEF StreamInv
  <2>3. \A a \in ActiveUsers' : VOf(a)'.seed \in Used \cup {w.seed}
    BY <1>1, <1>4, UsedFacts
  <2>4. Used' = {VOf(a)'.seed : a \in ActiveUsers'} \cup {x.seed : x \in emitted \cup {w}}
    BY <1>10 DEF Used
  <2>5. Used' \subseteq Used \cup {w.seed}
    BY <2>3, <2>4, UsedFacts
  <2> QED BY <1>2, <1>6, <1>10, <2>2, <2>5
<1> QED BY <1>9, <1>10 DEF StreamCase

\* No generator of p claims an id that was never given out.
LEMMA UnbornKept ==
  ASSUME UnbornInv, NEW p \in Pids, NEW i \in Ctxs, NEW c, NEW s, NEW r, CtxStep(p, i, c, s, r),
         proc[p].life = "alive",
         c.state # "NONE" =>
           c.forkId = p \/ (proc[p].ctx[i].state # "NONE" /\ c.forkId = proc[p].ctx[i].forkId),
         s.state # "NONE" =>
           s.forkId = p \/ (proc[p].seed.state # "NONE" /\ s.forkId = proc[p].seed.forkId)
  PROVE  UnbornInv'
<1> SUFFICES ASSUME NEW q \in Pids, proc'[q].life = "unborn", NEW o \in Pids
             PROVE  /\ proc'[o].seed.state # "NONE" => proc'[o].seed.forkId # q
                    /\ \A j \in Ctxs : proc'[o].ctx[j].state # "NONE" => proc'[o].ctx[j].forkId # q
  BY DEF UnbornInv
<1>1. /\ proc'[p].ctx[i] = c /\ \A j \in Ctxs \ {i} : proc'[p].ctx[j] = proc[p].ctx[j]
      /\ proc'[p].seed = s /\ proc'[p].life = proc[p].life
      /\ \A u \in Pids \ {p} : proc'[u] = proc[u]
  BY DEF CtxStep
<1>2. q # p /\ proc[q].life = "unborn"
  BY <1>1
<1>3. \A u \in Pids :
        /\ proc[u].seed.state # "NONE" => proc[u].seed.forkId # q
        /\ \A j \in Ctxs : proc[u].ctx[j].state # "NONE" => proc[u].ctx[j].forkId # q
  BY <1>2 DEF UnbornInv
<1>4. CASE o # p
  BY <1>1, <1>3, <1>4
<1>5. CASE o = p
  BY <1>1, <1>2, <1>3, <1>5
<1> QED BY <1>4, <1>5
\* The part of the invariant beyond BaseInv.
StreamPart == SeedInv /\ StreamInv /\ UnbornInv /\ NoRepeatedOutput

\* A step that emits nothing keeps the streams apart.
LEMMA QuietStream ==
  ASSUME StreamIInv, NEW p \in Pids, NEW i \in Ctxs, proc[p].life = "alive", QuietStep(p, i)
  PROVE  StreamPart'
<1>0. TypeInv /\ SeedInv /\ StreamInv /\ UnbornInv /\ ~repeated
  BY DEF StreamIInv, BaseInv, NoRepeatedOutput
<1>1. PICK c, s, r : CtxStep(p, i, c, s, r) /\ QuietCtx(p, i, c) /\ QuietSeed(p, s)
  BY DEF QuietStep
<1>2. drawn' \in Nat /\ drawn <= drawn' /\ emitted' = emitted /\ repeated' = repeated
  BY DEF QuietStep
<1> DEFINE old == proc[p].ctx[i]
           w == old.v
<1>3. old \in DrbgCtxs /\ w.gen \in Nat
  BY <1>0, ProcTypes DEF DrbgCtxs, Vs
<1>4. Active(c, p) => Active(old, p) /\ c.v = w
  BY <1>1 DEF QuietCtx, Active, SameGen
<1>5. StreamCase(p, i, c, w)
  BY <1>2, <1>3, <1>4 DEF StreamCase
<1>6. StreamInv' /\ Used' \subseteq Used \cup {w.seed} /\ (~Active(c, p) => Used' \subseteq Used)
  BY <1>0, <1>1, <1>5, StreamKept
<1>7. Active(c, p) => w.seed \in Used
  BY <1>1, <1>4, ActiveAfter, UsedFacts
<1>8. Used' \subseteq Used
  BY <1>6, <1>7
<1>9. SeedsSafe(Pids, p, [s |-> s, n |-> drawn'], Used)
  <2>1. SeedsSafe(Pids, p, Env(p), Used) /\ Env(p).s = proc[p].seed /\ Env(p).n = drawn
    BY <1>0, SeedInvSafe, ProcTypes
  <2>2. s \in DrbgCtxs
    BY <1>1 DEF QuietSeed
  <2>3. s.state = "READY" =>
           \/ Env(p).s.state = "READY" /\ s.v = Env(p).s.v /\ s.forkId = Env(p).s.forkId
           \/ \E k \in Nat : Env(p).n < k /\ k <= drawn' /\ s.v = [seed |-> <<k>>, gen |-> 0]
    BY <1>1, <2>1 DEF QuietSeed
  <2> QED BY <1>2, <2>1, <2>2, <2>3, SafeReplace
<1>10. SeedInv'
  BY <1>1, <1>8, <1>9, SafeSeedInv
<1>11. UnbornInv'
  <2>1. c.state # "NONE" => c.forkId = p \/ (old.state # "NONE" /\ c.forkId = old.forkId)
    BY <1>1 DEF QuietCtx, SameGen
  <2>2. s.state # "NONE" =>
          s.forkId = p \/ (proc[p].seed.state # "NONE" /\ s.forkId = proc[p].seed.forkId)
    BY <1>1 DEF QuietSeed
  <2> QED BY <1>0, <1>1, <2>1, <2>2, UnbornKept
<1> QED BY <1>0, <1>2, <1>6, <1>10, <1>11 DEF StreamPart, NoRepeatedOutput

\* A context and the sources of entropy after a step: what the two kinds of
\* operations have in common.
LEMMA PutStream ==
  ASSUME StreamIInv, NEW p \in Pids, NEW i \in Ctxs, proc[p].life = "alive", NEW d \in DrbgCtxs, NEW e, NEW w,
         Put(p, i, d, e), SeedsSafe(Pids, p, e, Used), EnvStep(p, Env(p), e),
         d.state # "NONE" =>
           d.forkId = p \/ (proc[p].ctx[i].state # "NONE" /\ d.forkId = proc[p].ctx[i].forkId),
         StreamCase(p, i, d, w),
         Active(d, p) => w.seed \in Used \/ SeedsSafe(Pids, p, e, Used \cup {w.seed})
  PROVE  SeedInv' /\ StreamInv' /\ UnbornInv' /\ (Active(d, p) => w \notin emitted)
<1>0. TypeInv /\ SeedInv /\ StreamInv /\ UnbornInv
  BY DEF StreamIInv, BaseInv
<1>1. e \in Envs /\ e = [s |-> e.s, n |-> e.n]
  BY DEF SeedsSafe, Envs
<1>2. CtxStep(p, i, d, e.s, proc[p].refs) /\ drawn' = e.n
  BY <1>0, <1>1, PutStep
<1>3. e = [s |-> e.s, n |-> drawn']
  BY <1>1, <1>2
<1>4. /\ StreamInv' /\ Used' \subseteq Used \cup {w.seed}
      /\ ~Active(d, p) => Used' \subseteq Used
      /\ Active(d, p) => w \notin emitted
  BY <1>0, <1>2, StreamKept
<1>5. SeedInv'
  <2>1. CASE Active(d, p) /\ w.seed \notin Used
    BY <1>2, <1>3, <1>4, <2>1, SafeSeedInv
  <2>2. CASE ~(Active(d, p) /\ w.seed \notin Used)
    <3>1. Used' \subseteq Used
      BY <1>4, <2>2
    <3> QED BY <1>2, <1>3, <3>1, SafeSeedInv
  <2> QED BY <2>1, <2>2
<1>6. UnbornInv'
  <2>1. e.s.state # "NONE" =>
          e.s.forkId = p \/ (proc[p].seed.state # "NONE" /\ e.s.forkId = proc[p].seed.forkId)
    BY <1>0, ProcTypes DEF EnvStep
  <2> QED BY <1>0, <1>2, <2>1, UnbornKept
<1> QED BY <1>4, <1>5, <1>6

\* So does a step that seeds.
LEMMA SeedingStream ==
  ASSUME StreamIInv, NEW p \in Pids, NEW i \in Ctxs, proc[p].life = "alive", NEW d, NEW o,
         UserAfter(Pids, p, proc[p].ctx[i], Env(p), Used, o), SameGen(o.c, d), Put(p, i, d, o.e),
         emitted' = emitted, ~repeated'
  PROVE  StreamPart'
<1> DEFINE c == proc[p].ctx[i]
           w == d.v
<1>0. TypeInv
  BY DEF StreamIInv, BaseInv
<1>1. /\ Reached(c, o.c, p) /\ SeedsSafe(Pids, p, o.e, Used) /\ EnvStep(p, Env(p), o.e)
      /\ o.c.state = "READY" => o.c = c \/ Fresh(Pids, p, Used, o)
  BY DEF UserAfter
<1>2. d \in DrbgCtxs /\ d.v = o.c.v /\ d.state = o.c.state /\ d.forkId = o.c.forkId /\ w.gen \in Nat
  BY DEF SameGen, DrbgCtxs, Vs
<1>3. d.state # "NONE" => d.forkId = p \/ (c.state # "NONE" /\ d.forkId = c.forkId)
  BY <1>1, <1>2 DEF Reached
<1>4. Active(d, p) => \/ Active(c, p) /\ w = c.v
                      \/ w.seed \notin Used /\ SeedsSafe(Pids, p, o.e, Used \cup {w.seed})
  BY <1>1, <1>2 DEF Active, Fresh
<1>5. StreamCase(p, i, d, w)
  BY <1>2, <1>4 DEF StreamCase
<1>6. Active(c, p) => c.v.seed \in Used
  BY OwnUsed
<1>7. SeedInv' /\ StreamInv' /\ UnbornInv'
  BY <1>1, <1>2, <1>3, <1>4, <1>5, <1>6, PutStream
<1> QED BY <1>7 DEF StreamPart, NoRepeatedOutput

\* So does a step that emits a block, and the block is new.
LEMMA BlockStream ==
  ASSUME StreamIInv, NEW p \in Pids, NEW i \in Ctxs, proc[p].life = "alive", NEW d, NEW o,
         BlockStep(Pids, p, i, Used, d, o)
  PROVE  StreamPart'
<1> DEFINE c == proc[p].ctx[i]
<1>0. TypeInv /\ ~repeated
  BY DEF StreamIInv, BaseInv, NoRepeatedOutput
<1>1. /\ UserBlock(Pids, p, c, Env(p), Used, o) /\ SameGen(o.c, d) /\ Put(p, i, d, o.e)
      /\ emitted' = IF o.ok THEN emitted \cup {o.out} ELSE emitted
      /\ repeated' = (repeated \/ (o.ok /\ o.out \in emitted))
  BY DEF BlockStep
<1> HIDE DEF c
<1>2. CASE ~o.ok /\ UserAfter(Pids, p, c, Env(p), Used, o)
  <2>1. emitted' = emitted
    BY <1>1, <1>2
  <2>2. ~repeated'
    BY <1>0, <1>1, <1>2, Zenon
  <2> QED BY <1>1, <1>2, <2>1, <2>2, SeedingStream DEF c
<1>3. ASSUME NEW r, UserAfter(Pids, p, c, Env(p), Used, r), Active(r.c, p), BlockOf(r.c, r.e, o)
      PROVE  StreamPart'
  <2>1. CASE ~o.ok
    <3>1. o.c = r.c /\ o.e = r.e
      BY <1>3, <2>1 DEF BlockOf
    <3>2. emitted' = emitted
      BY <1>1, <2>1
    <3>3. ~repeated'
      BY <1>0, <1>1, <2>1, Zenon
    <3> QED BY <1>1, <1>3, <3>1, <3>2, <3>3, SeedingStream DEF c
  <2>2. CASE o.ok
    <3> DEFINE w == r.c.v
    <3>1. /\ o.e = r.e /\ o.out = w /\ o.c.v = [seed |-> w.seed, gen |-> w.gen + 1]
          /\ o.c.state = "READY" /\ o.c.forkId = p
      BY <1>3, <2>2 DEF BlockOf, Active
    <3>2. /\ d \in DrbgCtxs /\ d.v.seed = w.seed /\ d.v.gen = w.gen + 1 /\ d.forkId = p
          /\ d.state = "READY" /\ Active(d, p)
      BY <1>1, <3>1 DEF SameGen, Active
    <3>3. /\ Reached(c, r.c, p) /\ SeedsSafe(Pids, p, r.e, Used) /\ EnvStep(p, Env(p), r.e)
          /\ r.c = c \/ Fresh(Pids, p, Used, r)
      BY <1>3 DEF UserAfter, Active
    <3>4. w.gen \in Nat
      BY <3>3 DEF Reached, DrbgCtxs, Vs
    <3>5. \/ Active(c, p) /\ w = c.v
          \/ w.seed \notin Used /\ SeedsSafe(Pids, p, r.e, Used \cup {w.seed})
      BY <1>3, <3>3 DEF Fresh
    <3> HIDE DEF w
    <3>6. emitted' = emitted \cup {w}
      BY <1>1, <2>2, <3>1
    <3>7. StreamCase(p, i, d, w)
      BY <3>2, <3>4, <3>5, <3>6 DEF StreamCase, c
    <3>8. Active(c, p) => c.v.seed \in Used
      BY OwnUsed DEF c
    <3>9. Put(p, i, d, r.e)
      BY <1>1, <3>1
    <3>10. w.seed \in Used \/ SeedsSafe(Pids, p, r.e, Used \cup {w.seed})
      BY <3>5, <3>8
    <3>11. SeedInv' /\ StreamInv' /\ UnbornInv' /\ w \notin emitted
      BY <3>2, <3>3, <3>7, <3>9, <3>10, PutStream
    <3>12. ~repeated'
      BY <1>0, <1>1, <3>1, <3>11, Zenon
    <3> QED BY <3>11, <3>12 DEF StreamPart, NoRepeatedOutput
  <2> QED BY <2>1, <2>2
<1> QED BY <1>1, <1>2, <1>3 DEF UserBlock
\* The streams that are active stay, and none is added.
LEMMA FewerStreams ==
  ASSUME StreamInv, emitted' = emitted,
         \A a \in ActiveUsers' : a \in ActiveUsers /\ VOf(a)' = VOf(a)
  PROVE  StreamInv' /\ Used' \subseteq Used
<1>1. StreamInv'
  BY DEF StreamInv
<1>2. Used' = {VOf(a)'.seed : a \in ActiveUsers'} \cup {x.seed : x \in emitted}
  BY DEF Used
<1> QED BY <1>1, <1>2, UsedFacts

\* Seed DRBGs that are copied, and not taken for the copy's own, or vanish.
LEMMA SeedsCopied ==
  ASSUME SeedInv, drawn' = drawn, Used' \subseteq Used,
         \A q \in Pids :
           \/ proc'[q].seed = proc[q].seed
           \/ ~Active(proc'[q].seed, q) /\ \E o \in Pids : proc'[q].seed = proc[o].seed
           \/ proc'[q].seed.state = "NONE"
  PROVE  SeedInv'
<1>1. \A u \in Used' : DrawnBy(u, drawn')
  BY DEF SeedInv
<1>2. ASSUME NEW q \in Pids
      PROVE  /\ proc'[q].seed.state = "READY" =>
                  proc'[q].seed.v.seed \in PoolSeeds /\ DrawnBy(proc'[q].seed.v.seed, drawn)
             /\ Active(proc'[q].seed, q) => proc'[q].seed = proc[q].seed
  BY DEF SeedInv, Active
<1>3. \A q \in Pids : Active(proc'[q].seed, q) =>
        \A g \in Nat : <<proc'[q].seed.v.seed, g>> \in Used' => g < proc'[q].seed.v.gen
  BY <1>2 DEF SeedInv
<1>4. \A q, r \in Pids : q # r /\ Active(proc'[q].seed, q) /\ Active(proc'[r].seed, r)
                          => proc'[q].seed.v.seed # proc'[r].seed.v.seed
  BY <1>2 DEF SeedInv
<1> QED BY <1>1, <1>2, <1>3, <1>4 DEF SeedInv

\* So does a fork to a pid that is not used again.
LEMMA ForkStream ==
  ASSUME StreamIInv, NEW p \in Pids, NEW q \in Pids, Fork(p, q), ~PidReuse
  PROVE  StreamPart'
<1>0. TypeInv /\ SeedInv /\ StreamInv /\ UnbornInv /\ ~repeated
  BY DEF StreamIInv, BaseInv, NoRepeatedOutput
<1>1. ForkStep(p, q) /\ UNCHANGED <<drawn, emitted, repeated>>
  BY <1>0, ForkForm
<1>2. proc[q].life = "unborn"
  BY DEF Fork
<1>3. /\ proc'[q].seed = proc[p].seed /\ proc'[q].life = "alive"
      /\ \A i \in Ctxs : SameGen(proc[p].ctx[i], proc'[q].ctx[i])
      /\ \A o \in Pids \ {q} : proc'[o] = proc[o]
  BY <1>1 DEF ForkStep
<1>4. /\ ~Active(proc'[q].seed, q) /\ \A i \in Ctxs : ~Active(proc'[q].ctx[i], q)
  <2>1. /\ proc[p].seed.state # "NONE" => proc[p].seed.forkId # q
        /\ \A i \in Ctxs : proc[p].ctx[i].state # "NONE" => proc[p].ctx[i].forkId # q
    BY <1>0, <1>2 DEF UnbornInv
  <2> QED BY <1>3, <2>1 DEF Active, SameGen
<1>5. ASSUME NEW a \in ActiveUsers' PROVE a \in ActiveUsers /\ VOf(a)' = VOf(a)
  <2>1. PICK o \in Pids, j \in Ctxs : a = <<o, j>> /\ Active(proc'[o].ctx[j], o)
    BY DEF ActiveUsers
  <2>2. proc'[o] = proc[o]
    BY <1>3, <1>4, <2>1
  <2> QED BY <2>1, <2>2 DEF ActiveUsers, VOf
<1>6. StreamInv' /\ Used' \subseteq Used
  BY <1>0, <1>1, <1>5, FewerStreams
<1>7. SeedInv'
  <2>1. \A o \in Pids :
           \/ proc'[o].seed = proc[o].seed
           \/ ~Active(proc'[o].seed, o) /\ \E u \in Pids : proc'[o].seed = proc[u].seed
    BY <1>3, <1>4
  <2> QED BY <1>0, <1>1, <1>6, <2>1, SeedsCopied
<1>8. UnbornInv'
  <2> SUFFICES ASSUME NEW u \in Pids, proc'[u].life = "unborn", NEW o \in Pids
               PROVE  /\ proc'[o].seed.state # "NONE" => proc'[o].seed.forkId # u
                      /\ \A j \in Ctxs : proc'[o].ctx[j].state # "NONE" => proc'[o].ctx[j].forkId # u
    BY DEF UnbornInv
  <2>1. proc[u].life = "unborn"
    BY <1>3
  <2>2. \A t \in Pids :
          /\ proc[t].seed.state # "NONE" => proc[t].seed.forkId # u
          /\ \A j \in Ctxs : proc[t].ctx[j].state # "NONE" => proc[t].ctx[j].forkId # u
    BY <1>0, <2>1 DEF UnbornInv
  <2>3. CASE o = q
    BY <1>3, <2>2, <2>3 DEF SameGen
  <2>4. CASE o # q
    BY <1>3, <2>2, <2>4
  <2> QED BY <2>3, <2>4
<1> QED BY <1>0, <1>1, <1>6, <1>7, <1>8 DEF StreamPart, NoRepeatedOutput

\* So does an exit.
LEMMA ExitStream ==
  ASSUME StreamIInv, NEW p \in Pids, Exit(p)
  PROVE  StreamPart'
<1>0. TypeInv /\ SeedInv /\ StreamInv /\ UnbornInv /\ ~repeated
  BY DEF StreamIInv, BaseInv, NoRepeatedOutput
<1>1. ExitStep(p) /\ UNCHANGED <<drawn, emitted, repeated>>
  BY <1>0, ExitForm
<1>3. /\ proc'[p].seed.state = "NONE" /\ proc'[p].life = "dead"
      /\ \A i \in Ctxs : proc'[p].ctx[i].state = "NONE"
      /\ \A o \in Pids \ {p} : proc'[o] = proc[o]
  BY <1>1, NoCtxType DEF ExitStep
<1>5. ASSUME NEW a \in ActiveUsers' PROVE a \in ActiveUsers /\ VOf(a)' = VOf(a)
  <2>1. PICK o \in Pids, j \in Ctxs : a = <<o, j>> /\ Active(proc'[o].ctx[j], o)
    BY DEF ActiveUsers
  <2>2. proc'[o] = proc[o]
    BY <1>3, <2>1 DEF Active
  <2> QED BY <2>1, <2>2 DEF ActiveUsers, VOf
<1>6. StreamInv' /\ Used' \subseteq Used
  BY <1>0, <1>1, <1>5, FewerStreams
<1>7. SeedInv'
  BY <1>0, <1>1, <1>3, <1>6, SeedsCopied
<1>8. UnbornInv'
  <2> SUFFICES ASSUME NEW u \in Pids, proc'[u].life = "unborn", NEW o \in Pids
               PROVE  /\ proc'[o].seed.state # "NONE" => proc'[o].seed.forkId # u
                      /\ \A j \in Ctxs : proc'[o].ctx[j].state # "NONE" => proc'[o].ctx[j].forkId # u
    BY DEF UnbornInv
  <2>1. proc[u].life = "unborn"
    BY <1>3
  <2>2. CASE o = p
    BY <1>3, <2>2
  <2>3. CASE o # p
    BY <1>0, <1>3, <2>1, <2>3 DEF UnbornInv
  <2> QED BY <2>2, <2>3
<1> QED BY <1>0, <1>1, <1>6, <1>7, <1>8 DEF StreamPart, NoRepeatedOutput

\* At the start nothing is seeded and nothing emitted.
LEMMA StreamInit == ASSUME Init PROVE StreamIInv
<1>1. BaseInv
  BY BaseInit
<1>2. emitted = {} /\ repeated = FALSE /\ drawn = 0
  BY DEF Init
<1>3. \A o \in Pids : proc[o].seed = NoCtx /\ \A i \in Ctxs : proc[o].ctx[i] = NoCtx
  BY DEF Init, NoProc
<1>4. \A o \in Pids : proc[o].seed.state = "NONE" /\ \A i \in Ctxs : proc[o].ctx[i].state = "NONE"
  BY <1>3, NoCtxType
<1>5. ActiveUsers = {}
  BY <1>4 DEF ActiveUsers, Active
<1>6. Used = {}
  BY <1>2, <1>5 DEF Used
<1>7. SeedInv /\ StreamInv /\ UnbornInv
  BY <1>2, <1>4, <1>5, <1>6 DEF SeedInv, StreamInv, UnbornInv, Active
<1> QED BY <1>1, <1>2, <1>7 DEF StreamIInv, NoRepeatedOutput

\* Every step keeps the second invariant, without reuse of pids.
LEMMA StreamNext == ASSUME ~PidReuse, StreamIInv, [Next]_vars PROVE StreamIInv'
<1>0. BaseInv /\ BaseInv' /\ TypeInv
  BY BaseNext DEF StreamIInv, BaseInv
<1> SUFFICES StreamPart'
  BY <1>0 DEF StreamIInv, StreamPart
<1>1. CASE UNCHANGED vars
  <2>1. ActiveUsers' = ActiveUsers /\ \A a : VOf(a)' = VOf(a)
    BY <1>1 DEF vars, ActiveUsers, VOf
  <2>2. Used' = Used
    BY <1>1, <2>1 DEF vars, Used
  <2> QED BY <1>1, <2>1, <2>2 DEF vars, StreamIInv, StreamPart, SeedInv, StreamInv, UnbornInv, NoRepeatedOutput
<1>2. CASE Next
  <2>0. bound' = bound
    BY <1>2 DEF Next
  <2>1. ASSUME NEW p \in Pids, NEW i \in Ctxs, Operation(p, i) PROVE StreamPart'
    <3>0. SeedsSafe(Pids, p, Env(p), Used) /\ Pids \in SUBSET Pids
      BY <1>0, SeedInvSafe DEF StreamIInv
    <3>a. proc[p].life = "alive"
      BY <2>1 DEF Operation, CRYPT_EAL_DrbgNewOwnSeed, CRYPT_EAL_DrbgNewDefaultSeed, MayCreate, Usable,
         CRYPT_EAL_DrbgInstantiate, EAL_DrbgSeedWithAdin, EAL_DrbgbytesWithAdin, DRBG_GenerateBytes,
         EAL_RandDeinit, Alive
    <3>1. CASE CRYPT_EAL_DrbgNewOwnSeed(p, i)
      BY <1>0, <2>0, <3>a, <3>1, OwnSeedQuiet, QuietStream
    <3>2. CASE CRYPT_EAL_DrbgNewDefaultSeed(p, i)
      BY <1>0, <2>0, <3>a, <3>2, DefaultSeedQuiet, QuietStream
    <3>b. ASSUME NEW d, NEW o, SeedingStep(Pids, p, i, Used, d, o) PROVE StreamPart'
      <4>1. ~repeated' /\ emitted' = emitted
        BY <3>b DEF SeedingStep, StreamIInv, NoRepeatedOutput
      <4> QED BY <3>a, <3>b, <4>1, SeedingStream DEF SeedingStep
    <3>3. CASE CRYPT_EAL_DrbgInstantiate(p, i)
      BY <1>0, <3>0, <3>3, <3>b, InstantiateForm
    <3>4. CASE EAL_DrbgSeedWithAdin(p, i)
      BY <1>0, <3>0, <3>4, <3>b, ReseedForm
    <3>5. CASE EAL_DrbgbytesWithAdin(p, i)
      BY <1>0, <2>0, <3>a, <3>5, BytesQuiet, QuietStream
    <3>6. CASE DRBG_GenerateBytes(p, i)
      BY <1>0, <3>0, <3>a, <3>6, GenerateForm, BlockStream
    <3>7. CASE EAL_RandDeinit(p, i)
      BY <1>0, <2>0, <3>a, <3>7, DeinitQuiet, QuietStream
    <3> QED BY <2>1, <3>1, <3>2, <3>3, <3>4, <3>5, <3>6, <3>7 DEF Operation
  <2> QED BY <1>2, <2>1, ForkStream, ExitStream DEF Next
<1> QED BY <1>1, <1>2

\* No block of random bits is handed out twice, by any context of any process, as
\* long as the id of a dead process is not given to a new one (with which
\* DRBG_IsNeedReseed would take the child for its parent).
THEOREM NoRepeatedOutputTheorem == ~PidReuse => (Spec => []NoRepeatedOutput)
<1> SUFFICES ASSUME ~PidReuse PROVE Spec => []NoRepeatedOutput
  OBVIOUS
<1>1. Init => StreamIInv
  BY StreamInit
<1>2. StreamIInv /\ [Next]_vars => StreamIInv'
  BY StreamNext
<1>3. StreamIInv => NoRepeatedOutput
  BY DEF StreamIInv
<1> QED BY <1>1, <1>2, <1>3, PTL DEF Spec


===============================================================================
