------------------------------ MODULE DrbgCtx ------------------------------
(***************************************************************************)
(* A generator of crypto/drbg/src: its fields, and the operations that     *)
(* need no entropy.                                                        *)
(***************************************************************************)
EXTENDS Naturals

CONSTANT Width   \* width of reseedCtr and reseedInterval: 32 in the code

(* Generators.  "NONE" is a generator that does not exist (a NULL pointer). *)

States == {"NONE", "UNINITIALISED", "READY", "ERROR"}

\* V of a generator that holds no seed: cleansed memory.
NoSeed == [seed |-> <<>>, gen |-> 0]

\* A DRBG_Ctx with the fields of the CRYPT_EAL_RndCtx around it.  age counts
\* the blocks since the last seeding without the limits of the counter.
NoCtx == [state |-> "NONE", reseedCtr |-> 0, reseedInterval |-> 0, pr |-> FALSE,
          forkId |-> 0, v |-> NoSeed, age |-> 0,
          isDefaultSeed |-> FALSE, working |-> FALSE, left |-> 0, lock |-> "free"]

DRBG_New(pid, interval) ==
  [NoCtx EXCEPT !.state = "UNINITIALISED", !.reseedInterval = interval, !.forkId = pid]

DRBG_Uninstantiate(c) ==
  [c EXCEPT !.state = "UNINITIALISED", !.reseedCtr = 0, !.v = NoSeed, !.age = 0]

Seeded(c, material) ==
  [c EXCEPT !.state = "READY", !.reseedCtr = 1, !.age = 0,
            !.v = [seed |-> material, gen |-> 0]]

(* An operation on a generator c yields a set of outcomes: the generator    *)
(* after it, the state e of its entropy source, the success, and the V used *)
(* for output.                                                              *)

Outcome(c, e, ok) == [c |-> c, e |-> e, ok |-> ok, out |-> NoSeed]

\* Mutant: the process id is not looked at.
NeedReseedIgnoresFork(c, pid) == c.pr \/ c.reseedCtr > c.reseedInterval

DRBG_IsNeedReseed(c, pid) ==
  \/ c.forkId # pid
  \/ c.pr
  \/ c.reseedCtr > c.reseedInterval

\* generate of the mode: it fails and leaves V, or yields a block and steps V;
\* the counter is a word of Width bits.
ModeGenerate(c, e) ==
  { Outcome(c, e, FALSE),
    [c |-> [c EXCEPT !.v.gen = @ + 1, !.age = @ + 1, !.reseedCtr = (@ + 1) % 2^Width],
     e |-> e, ok |-> TRUE, out |-> c.v] }
=============================================================================
