----------------------------- MODULE DrbgCore -----------------------------
(***************************************************************************)
(* The operations of crypto/drbg/src/drbg.c that draw entropy.  The seed   *)
(* DRBG draws from the pool and the contexts of the user from a source of  *)
(* their own or from the seed DRBG, by the same code: the source is a      *)
(* parameter.                                                              *)
(***************************************************************************)
EXTENDS DrbgCtx

CONSTANT Source(_, _, _)   \* outcomes of one draw by generator c from source e in process pid

DRBG_Instantiate(c, e, pid) ==
  IF c.state # "UNINITIALISED" THEN {Outcome(c, e, FALSE)}
  ELSE LET failed == [c EXCEPT !.state = "ERROR"]
       IN UNION { IF ~nonce.ok THEN {Outcome(failed, nonce.e, FALSE)}
                  ELSE UNION { IF ~ent.ok THEN {Outcome(failed, ent.e, FALSE)}
                               ELSE {Outcome(failed, ent.e, FALSE),
                                     Outcome(Seeded(c, ent.out), ent.e, TRUE)}
                             : ent \in Source(c, nonce.e, pid) }
                : nonce \in Source(c, e, pid) }

DRBG_Restart(c, e, pid) ==
  IF c.state = "READY" THEN {Outcome(c, e, TRUE)}
  ELSE DRBG_Instantiate(IF c.state = "ERROR" THEN DRBG_Uninstantiate(c) ELSE c, e, pid)

\* The middle of DRBG_Reseed, for a generator that is READY.
ReseedReady(c, e, pid) ==
  LET failed == [c EXCEPT !.state = "ERROR"]
  IN UNION { IF ~ent.ok THEN {Outcome(failed, ent.e, FALSE)}
             ELSE {Outcome(failed, ent.e, FALSE),
                   Outcome([Seeded(c, ent.out) EXCEPT !.forkId = pid], ent.e, TRUE)}
           : ent \in Source(c, e, pid) }

DRBG_Reseed(c, e, pid) ==
  UNION { IF ~r.ok THEN {r} ELSE ReseedReady(r.c, r.e, pid)
        : r \in DRBG_Restart(c, e, pid) }

DRBG_Generate(c, e, pid) ==
  UNION { IF ~r.ok THEN {r}
          ELSE IF ~DRBG_IsNeedReseed(r.c, pid) THEN ModeGenerate(r.c, r.e)
          ELSE UNION { IF ~s.ok THEN {s} ELSE ModeGenerate(s.c, s.e)
                     : s \in DRBG_Reseed(r.c, r.e, pid) }
        : r \in DRBG_Restart(c, e, pid) }
=============================================================================
