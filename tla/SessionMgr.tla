----------------------------- MODULE SessionMgr -----------------------------
(***************************************************************************)
(* Sessions of TLS 1.2 and DTLS 1.2 and the cache that the connections of  *)
(* one configuration share: tls/feature/session/src, and the handshake and *)
(* connection code that looks sessions up, stores, disables and drops them.*)
(*                                                                         *)
(* A session is an object with a reference count.  Connections run in      *)
(* threads of their own; a step of this module is the work between two     *)
(* acquisitions of a lock, so that lookup, validity check, clean-up and    *)
(* insertion of different connections interleave as the locks let them.    *)
(***************************************************************************)
EXTENDS Naturals, FiniteSets

CONSTANTS
  Servers, Clients,  \* connections, by role
  Sess,              \* session objects that memory can hold
  Ids,               \* session ids
  Timeout,           \* lifetime of a session
  MaxTime,           \* bound: time
  Settings           \* environments, of which one holds; a record of
                     \*   modes, limits: values given to HITLS_CFG_SetSessionCacheMode and Size
                     \*   external: the application installs sessionGetCb
                     \*   tickets: clients present session tickets
                     \* and of the bounds servers, clients: connections at a time,
                     \*   objects: session objects, app: application references to one

Flags == {"client", "server", "noStore", "noLookup", "noCleanup", "timeUpdate"}
None == "none"
Conns == Servers \cup Clients

ASSUME SessionMgrAssumption ==
  /\ None \notin Sess \cup Ids /\ Servers \cap Clients = {}
  /\ IsFiniteSet(Servers) /\ IsFiniteSet(Clients) /\ IsFiniteSet(Ids)
  /\ Timeout \in Nat /\ MaxTime \in Nat \ {0}
  /\ \A e \in Settings :
       /\ e.modes \subseteq SUBSET Flags /\ e.limits \subseteq Nat
       /\ {e.external, e.tickets} \subseteq BOOLEAN
       /\ {e.servers, e.clients, e.objects, e.app} \subseteq Nat

VARIABLES
  sess,   \* the session objects; references = 0: not allocated
  cache,  \* the hash table of the session manager
  mode,   \* sessCacheMode
  limit,  \* sessCacheSize
  conn,   \* the connections
  app,    \* references the application holds
  now,    \* BSL_SAL_CurrentSysTimeGet
  setting \* the environment of this behaviour, an element of Settings

vars == <<sess, cache, mode, limit, conn, app, now, setting>>
config == <<mode, limit>>

-----------------------------------------------------------------------------
(* Session objects.                                                        *)

\* left records that the session has been taken out of the cache.
NoSession == [references |-> 0, id |-> None, start |-> 0, enable |-> FALSE, left |-> FALSE]

\* SESS_CheckValidity.
Valid(s) == sess[s].enable /\ now < sess[s].start + Timeout

\* HITLS_SESS_IsResumable.
Resumable(s) == sess[s].enable /\ sess[s].id # None

\* HITLS_SESS_Dup, HITLS_SESS_UpRef and HITLS_SESS_Free on the objects f.
Dup(f, s) == IF s = None THEN f ELSE [f EXCEPT ![s].references = @ + 1]

Free(f, s) ==
  IF s = None THEN f
  ELSE IF f[s].references > 1 THEN [f EXCEPT ![s].references = @ - 1]
  ELSE [f EXCEPT ![s] = NoSession]

\* BSL_HASH_Erase of the entry of s.
Erase(f, s) == IF s = None THEN f ELSE Free([f EXCEPT ![s].left = TRUE], s)

\* SESS_Disable.
Disable(f, s) == IF s = None THEN f ELSE [f EXCEPT ![s].enable = FALSE]

Unused(f) ==
  {s \in Sess : /\ f[s].references = 0
                /\ Cardinality({t \in Sess : f[t].references > 0}) < setting.objects}

\* HITLS_SESS_New with the session id i; SESS_Copy makes its copy usable too.
New(f, s, i, start) ==
  [f EXCEPT ![s] = [references |-> 1, id |-> i, start |-> start, enable |-> TRUE, left |-> FALSE]]

-----------------------------------------------------------------------------
(* The cache.                                                              *)

Cached == {cache[i] : i \in Ids} \ {None}
CacheSize(h) == Cardinality({i \in Ids : h[i] # None})

\* Mutant: the entry that is replaced keeps its reference.
InsertLeaks(h, f, s) ==
  LET i == f[s].id IN
  IF i = None \/ (limit # 0 /\ CacheSize(h) >= limit) THEN [h |-> h, f |-> f]
  ELSE [h |-> [h EXCEPT ![i] = s], f |-> Dup(f, s)]

\* The cache and the objects after the session s is put in; [h, f].
SESSMGR_InsertSession(h, f, s) ==
  LET i == f[s].id IN
  IF i = None \/ (limit # 0 /\ CacheSize(h) >= limit) THEN [h |-> h, f |-> f]
  ELSE [h |-> [h EXCEPT ![i] = s], f |-> Dup(Erase(f, h[i]), s)]

\* The sessions that a clean-up at time t takes out.
Outdated(t) == {s \in Cached : t = 0 \/ ~(sess[s].enable /\ t < sess[s].start + Timeout)}

\* SESSMGR_ClearTimeout: every outdated session is disabled and erased.
SESSMGR_ClearTimeout(t) ==
  LET out == Outdated(t)
      Drop(s) == IF sess[s].references > 1
                 THEN [sess[s] EXCEPT !.references = @ - 1, !.enable = FALSE, !.left = TRUE]
                 ELSE NoSession IN
  [h |-> [i \in Ids |-> IF cache[i] \in out THEN None ELSE cache[i]],
   f |-> [s \in Sess |-> IF s \in out THEN Drop(s) ELSE sess[s]]]

\* SESSMGR_RemoveSession: erases the entry that has the id of the session.
SESSMGR_RemoveSession(s) ==
  LET i == sess[s].id IN
  IF i = None THEN [h |-> cache, f |-> sess]
  ELSE [h |-> [cache EXCEPT ![i] = None], f |-> Erase(sess, cache[i])]

\* SESSMGR_GernerateSessionId: ids that no cached session has.
FreshIds == {i \in Ids : cache[i] = None}

-----------------------------------------------------------------------------
(* Connections.  pc is where the thread of a connection is:                *)
(*   idle, found (session looked up and taken), checked (validity known),  *)
(*   store, touch (a session from sessionGetCb goes into the cache), hello *)
(*   (hello messages done), finish (clean-up done), saved (new session     *)
(*   stored), open, alerted, closed.                                       *)
(* session is ctx->session, tmp the session being looked up, want the id   *)
(* that the peer asked for, id the id that the server hello carries, mode  *)
(* the cache mode read by HsSetSessionInfo.  sent is HITLS_SENT_SHUTDOWN.  *)
(* off and old record the sessions that were disabled or had timed out     *)
(* when the lookup began.                                                  *)

NewConn == [pc |-> "idle", session |-> None, tmp |-> None, want |-> None, id |-> None,
            resume |-> FALSE, sent |-> FALSE, mode |-> {}, off |-> {}, old |-> {}]

Set(c, r) == conn' = [conn EXCEPT ![c] = r]

Init ==
  /\ setting \in Settings
  /\ sess = [s \in Sess |-> NoSession]
  /\ cache = [i \in Ids |-> None]
  /\ mode \in setting.modes /\ limit \in setting.limits
  /\ conn = [c \in Conns |-> NewConn]
  /\ app = [s \in Sess |-> 0]
  /\ now = 1

\* An object that is allocated anew is no longer the one off and old recorded.
Forget(f, s) == [c \in Conns |-> [f[c] EXCEPT !.off = @ \ {s}, !.old = @ \ {s}]]

\* A session whose start time is set anew is no longer one that had timed out.
Renew(f, s) == [c \in Conns |-> [f[c] EXCEPT !.old = @ \ {s}]]

Live == {s \in Sess : sess[s].references > 0}

\* The lookup of connection c begins.
Begin(c) == [conn[c] EXCEPT !.resume = FALSE, !.id = None,
               !.off = {s \in Live : ~sess[s].enable},
               !.old = {s \in Live : now >= sess[s].start + Timeout}]

\* A client hello without ticket: SESSMGR_Find takes the session out of the
\* cache's table under the read lock.
FindBegin(c, i) ==
  LET s == IF "noLookup" \in mode \/ i = None THEN None ELSE cache[i] IN
  /\ conn[c].pc = "idle"
  /\ sess' = Dup(sess, s)
  /\ Set(c, [Begin(c) EXCEPT !.pc = "found", !.tmp = s, !.want = i])
  /\ UNCHANGED <<cache, config, app, now>>

\* Mutant: only the time is checked.
FindChecksTime(c) ==
  LET s == conn[c].tmp
      ok == s # None /\ now < sess[s].start + Timeout IN
  /\ conn[c].pc = "found"
  /\ sess' = IF ok THEN sess ELSE Free(sess, s)
  /\ Set(c, [conn[c] EXCEPT !.pc = "checked", !.tmp = IF ok THEN s ELSE None])
  /\ UNCHANGED <<cache, config, app, now>>

\* SESSMGR_Find checks the session it has taken.
FindCheck(c) ==
  LET s == conn[c].tmp
      ok == s # None /\ Valid(s) IN
  /\ conn[c].pc = "found"
  /\ sess' = IF ok THEN sess ELSE Free(sess, s)
  /\ Set(c, [conn[c] EXCEPT !.pc = IF ~ok /\ setting.external /\ conn[c].want # None THEN "external" ELSE "checked",
                            !.tmp = IF ok THEN s ELSE None])
  /\ UNCHANGED <<cache, config, app, now>>

\* SESSMGR_Find asks the application, which answers with a session it holds
\* and hands over its reference (copy = 0) or not (copy = 1), or with none.
FindExternal(c, s, copy) ==
  /\ conn[c].pc = "external"
  /\ s # None => app[s] > 0 /\ sess[s].id = conn[c].want
  /\ LET taken == IF s # None /\ copy THEN Dup(sess, s) ELSE sess
         ok == s # None /\ Resumable(s) IN
     /\ sess' = IF ok THEN taken ELSE Free(taken, s)
     /\ app' = IF s # None /\ ~copy THEN [app EXCEPT ![s] = @ - 1] ELSE app
     /\ Set(c, [conn[c] EXCEPT !.tmp = IF ok THEN s ELSE None,
                               !.pc = IF ok /\ "noStore" \notin mode THEN "store" ELSE "checked"])
  /\ UNCHANGED <<cache, config, now>>

\* SESSMGR_Find stores the application's session: SESSMGR_InsertSession, and
\* after the unlock the update of the start time.
FindStore(c) ==
  LET r == SESSMGR_InsertSession(cache, sess, conn[c].tmp) IN
  /\ conn[c].pc = "store"
  /\ cache' = r.h /\ sess' = r.f
  /\ Set(c, [conn[c] EXCEPT !.pc = IF "timeUpdate" \in mode THEN "touch" ELSE "checked"])
  /\ UNCHANGED <<config, app, now>>

FindTouch(c) ==
  /\ conn[c].pc = "touch"
  /\ sess' = [sess EXCEPT ![conn[c].tmp].start = now]
  /\ conn' = Renew([conn EXCEPT ![c].pc = "checked"], conn[c].tmp)
  /\ UNCHANGED <<cache, config, app, now>>

\* The end of a failed handshake or connection: a fatal alert is sent or
\* received and the session of the connection is disabled.
Alerted(r) == [NewConn EXCEPT !.pc = "alerted", !.session = r.session]

\* ServerCheckResume: the session found is resumed, or it is given back
\* (extended master secret, server name), or the handshake fails.
CheckResumeAccept(c) ==
  /\ conn[c].pc = "checked" /\ conn[c].tmp # None
  /\ sess' = Free(sess, conn[c].session)
  /\ Set(c, [conn[c] EXCEPT !.pc = "hello", !.session = conn[c].tmp, !.tmp = None,
                            !.want = None, !.resume = TRUE])
  /\ UNCHANGED <<cache, config, app, now>>

\* The full handshake: ServerPrepareSessionId draws an id for the server
\* hello if the server caches sessions.
CheckResumeFull(c) ==
  /\ conn[c].pc = "checked"
  /\ sess' = Free(sess, conn[c].tmp)
  /\ \E i \in IF "server" \in mode THEN FreshIds ELSE {None} :
       Set(c, [conn[c] EXCEPT !.pc = "hello", !.tmp = None, !.want = None, !.id = i])
  /\ UNCHANGED <<cache, config, app, now>>

\* The handshake fails in between, or no unused id was drawn in ten attempts.
CheckResumeFail(c) ==
  /\ conn[c].pc = "checked"
  /\ conn[c].tmp # None \/ "server" \in mode
  /\ sess' = Disable(Free(sess, conn[c].tmp), conn[c].session)
  /\ Set(c, Alerted(conn[c]))
  /\ UNCHANGED <<cache, config, app, now>>

\* ServerCheckResumeParam: the session resumed belongs to another session id
\* context and the handshake goes on as a full one.
CheckResumeParam(c) ==
  /\ c \in Servers /\ conn[c].pc = "hello" /\ conn[c].resume
  /\ sess' = Free(sess, conn[c].session)
  /\ \E i \in IF "server" \in mode THEN FreshIds ELSE {None} :
       Set(c, [conn[c] EXCEPT !.session = None, !.resume = FALSE, !.id = i])
  /\ UNCHANGED <<cache, config, app, now>>

\* ServerCheckResumeTicket: the session in the ticket becomes an object of
\* its own and gets the session id i that the client hello carries.
CheckResumeTicket(c, s, i, start) ==
  /\ setting.tickets /\ conn[c].pc = "idle" /\ s \in Unused(sess) /\ start <= now
  /\ IF now < start + Timeout
     THEN /\ sess' = New(Free(sess, conn[c].session), s, i, start)
          /\ conn' = Forget([conn EXCEPT ![c] = [Begin(c) EXCEPT !.pc = "hello", !.session = s, !.resume = TRUE]], s)
     ELSE /\ Set(c, [Begin(c) EXCEPT !.pc = "hello"])
          /\ UNCHANGED sess
  /\ UNCHANGED <<cache, config, app, now>>

\* ClientPrepareSession: a client offers its session if it is still valid and
\* fits the configuration.
ClientPrepareSession(c) ==
  LET s == conn[c].session
      Drop == /\ sess' = Free(sess, s)
              /\ Set(c, [Begin(c) EXCEPT !.pc = "checked", !.session = None]) IN
  /\ conn[c].pc = "idle"
  /\ \/ Drop
     \/ /\ s # None /\ Valid(s)
        /\ Set(c, [Begin(c) EXCEPT !.pc = "checked"])
        /\ UNCHANGED sess
  /\ UNCHANGED <<cache, config, app, now>>

\* ClientCheckIfResumeFromSession: the server hello carries the id i; the
\* session is resumed if it is the session's.
ClientCheckIfResume(c, i) ==
  LET s == conn[c].session IN
  /\ conn[c].pc = "checked"
  /\ Set(c, [conn[c] EXCEPT !.pc = "hello", !.id = i,
                            !.resume = s # None /\ i # None /\ sess[s].id = i])
  /\ UNCHANGED <<sess, cache, config, app, now>>

\* UpdateTicket: a client that resumes gets a new ticket and goes on with a
\* copy of its session.
UpdateTicket(c, s) ==
  /\ conn[c].pc = "hello" /\ conn[c].resume /\ s \in Unused(sess)
  /\ sess' = New(Free(sess, conn[c].session), s, sess[conn[c].session].id, now)
  /\ conn' = Forget([conn EXCEPT ![c].session = s], s)
  /\ UNCHANGED <<cache, config, app, now>>

\* Mutant: a connection that resumes stores its session again.
FinishedStoresAll(c) ==
  LET r == IF "noCleanup" \in mode THEN [h |-> cache, f |-> sess] ELSE SESSMGR_ClearTimeout(now)
      q == IF conn[c].resume THEN SESSMGR_InsertSession(r.h, r.f, conn[c].session) ELSE r IN
  /\ conn[c].pc = "hello"
  /\ cache' = q.h /\ sess' = q.f
  /\ Set(c, [conn[c] EXCEPT !.mode = IF conn[c].resume THEN {} ELSE mode, !.off = {}, !.old = {},
                            !.pc = IF conn[c].resume THEN "open" ELSE "finish"])
  /\ UNCHANGED <<config, app, now>>

\* HsSetSessionInfo when the peer's Finished is right: the clean-up; a
\* connection that resumes is done then.
FinishedCleanup(c) ==
  LET r == IF "noCleanup" \in mode THEN [h |-> cache, f |-> sess] ELSE SESSMGR_ClearTimeout(now) IN
  /\ conn[c].pc = "hello"
  /\ cache' = r.h /\ sess' = r.f
  /\ Set(c, [conn[c] EXCEPT !.mode = IF conn[c].resume THEN {} ELSE mode, !.off = {}, !.old = {},
                            !.pc = IF conn[c].resume THEN "open" ELSE "finish"])
  /\ UNCHANGED <<config, app, now>>

Stores(c) == "noStore" \notin conn[c].mode
             /\ (IF c \in Clients THEN "client" ELSE "server") \in conn[c].mode

\* HsSetSessionInfo: the session of the new connection replaces the old one
\* and goes into the cache; SESSMGR_InsertSession reads the mode again.
FinishedStore(c, s) ==
  LET f == New(Free(sess, conn[c].session), s, conn[c].id, now)
      r == IF Stores(c) THEN SESSMGR_InsertSession(cache, f, s) ELSE [h |-> cache, f |-> f] IN
  /\ conn[c].pc = "finish"
  /\ s \in Unused(sess)
  /\ cache' = r.h /\ sess' = r.f
  /\ conn' = Forget([conn EXCEPT ![c] = [conn[c] EXCEPT !.session = s, !.pc = "saved",
                       !.mode = (conn[c].mode \ {"timeUpdate"}) \cup (mode \cap {"timeUpdate"})]], s)
  /\ UNCHANGED <<config, app, now>>

\* No memory for the session: the handshake fails with an alert.
FinishedFails(c) ==
  /\ conn[c].pc = "finish"
  /\ sess' = Free(sess, conn[c].session)
  /\ Set(c, [Alerted(conn[c]) EXCEPT !.session = None])
  /\ UNCHANGED <<cache, config, app, now>>

\* The end of HsSetSessionInfo: the start time is set again in timeUpdate
\* mode, and newSessionCb may keep a reference.
FinishedNotify(c) ==
  LET s == conn[c].session
      touch == Stores(c) /\ "timeUpdate" \in conn[c].mode /\ sess[s].id # None
      f == IF touch THEN [sess EXCEPT ![s].start = now] ELSE sess
      g == [conn EXCEPT ![c] = [conn[c] EXCEPT !.pc = "open", !.mode = {}, !.id = None]] IN
  /\ conn[c].pc = "saved"
  /\ \/ "noStore" \notin conn[c].mode /\ app[s] < setting.app
        /\ sess' = Dup(f, s) /\ app' = [app EXCEPT ![s] = @ + 1]
     \/ sess' = f /\ UNCHANGED app
  /\ conn' = IF touch THEN Renew(g, s) ELSE g
  /\ UNCHANGED <<cache, config, now>>

\* The handshake waits for the peer.
Waiting(c) == conn[c].pc = "hello" \/ (c \in Clients /\ conn[c].pc = "checked")

\* A fatal alert is sent or received (AlertEventProcess, AlertRecvProcess).
FatalAlert(c) ==
  /\ Waiting(c) \/ conn[c].pc = "open"
  /\ sess' = Disable(sess, conn[c].session)
  /\ Set(c, Alerted(conn[c]))
  /\ UNCHANGED <<cache, config, app, now>>

\* HITLS_Close sends close_notify, or the peer's close_notify ends the link.
Close(c, sent) ==
  /\ conn[c].pc = "open"
  /\ Set(c, [NewConn EXCEPT !.pc = "closed", !.session = conn[c].session, !.sent = sent])
  /\ UNCHANGED <<sess, cache, config, app, now>>

\* HITLS_ClearBadSession: the session of a connection that ends without
\* close_notify is taken out of the cache.
BadSession(c) == /\ conn[c].session # None /\ ~conn[c].sent
                 /\ conn[c].pc \in {"open", "alerted", "closed"}

Ended(c) == conn[c].pc \in {"idle", "open", "alerted", "closed"}

HITLS_Clear(c) ==
  LET s == conn[c].session
      r == SESSMGR_RemoveSession(s) IN
  /\ Waiting(c) \/ (Ended(c) /\ conn[c].pc # "idle")
  /\ IF BadSession(c)
     THEN /\ cache' = r.h /\ sess' = Free(r.f, s)
          /\ Set(c, NewConn)
     ELSE /\ Set(c, [NewConn EXCEPT !.session = s])
          /\ UNCHANGED <<cache, sess>>
  /\ UNCHANGED <<config, app, now>>

HITLS_Free(c) ==
  /\ Waiting(c) \/ (Ended(c) /\ conn[c] # NewConn)
  /\ sess' = Free(sess, conn[c].session)
  /\ Set(c, NewConn)
  /\ UNCHANGED <<cache, config, app, now>>

-----------------------------------------------------------------------------
(* The application.                                                        *)

\* HITLS_SetSession with a session the application holds.
HITLS_SetSession(c, s) ==
  LET r == IF BadSession(c) THEN SESSMGR_RemoveSession(conn[c].session) ELSE [h |-> cache, f |-> sess] IN
  /\ Ended(c) /\ app[s] > 0
  /\ cache' = r.h /\ sess' = Dup(Free(r.f, conn[c].session), s)
  /\ Set(c, [conn[c] EXCEPT !.session = s])
  /\ UNCHANGED <<config, app, now>>

HITLS_GetDupSession(c) ==
  LET s == conn[c].session IN
  /\ conn[c].pc = "open" /\ s # None /\ app[s] < setting.app
  /\ sess' = Dup(sess, s) /\ app' = [app EXCEPT ![s] = @ + 1]
  /\ UNCHANGED <<cache, config, conn, now>>

HITLS_SESS_Free(s) ==
  /\ app[s] > 0
  /\ app' = [app EXCEPT ![s] = @ - 1] /\ sess' = Free(sess, s)
  /\ UNCHANGED <<cache, config, conn, now>>

HITLS_CFG_RemoveSession(s) ==
  LET r == SESSMGR_RemoveSession(s) IN
  /\ app[s] > 0
  /\ cache' = r.h /\ sess' = r.f
  /\ UNCHANGED <<config, conn, app, now>>

\* HITLS_CFG_ClearTimeoutSession with a time t; 0 takes out every session.
HITLS_CFG_ClearTimeoutSession(t) ==
  LET r == SESSMGR_ClearTimeout(t) IN
  /\ cache' = r.h /\ sess' = r.f
  /\ UNCHANGED <<config, conn, app, now>>

SetCacheMode(m) == mode' = m /\ UNCHANGED <<sess, cache, limit, conn, app, now>>
SetCacheSize(n) == limit' = n /\ UNCHANGED <<sess, cache, mode, conn, app, now>>

Tick == now < MaxTime /\ now' = now + 1 /\ UNCHANGED <<sess, cache, config, conn, app>>

-----------------------------------------------------------------------------

Server(c) ==
  \/ \E i \in Ids \cup {None} : FindBegin(c, i)
  \/ FindCheck(c)
  \/ \E s \in Sess \cup {None}, copy \in BOOLEAN : FindExternal(c, s, copy)
  \/ FindStore(c) \/ FindTouch(c)
  \/ CheckResumeAccept(c) \/ CheckResumeFull(c) \/ CheckResumeFail(c) \/ CheckResumeParam(c)
  \/ \E s \in Sess, i \in Ids \cup {None}, t \in 0..MaxTime : CheckResumeTicket(c, s, i, t)

Client(c) ==
  \/ ClientPrepareSession(c)
  \/ \E i \in Ids \cup {None} : ClientCheckIfResume(c, i)
  \/ \E s \in Sess : UpdateTicket(c, s)
  \/ \E s \in Sess : HITLS_SetSession(c, s)

Connection(c) ==
  \/ FinishedCleanup(c) \/ FinishedFails(c) \/ FinishedNotify(c)
  \/ \E s \in Sess : FinishedStore(c, s)
  \/ FatalAlert(c) \/ HITLS_Clear(c) \/ HITLS_Free(c) \/ HITLS_GetDupSession(c)
  \/ \E sent \in BOOLEAN : Close(c, sent)

\* The connections with the role of c that can take a step within the bound n.
Within(n, role) ==
  LET used == {c \in role : conn[c] # NewConn}
  IN IF Cardinality(used) < n THEN role ELSE used

Next ==
  /\ \/ \E c \in Within(setting.servers, Servers) : Server(c) \/ Connection(c)
     \/ \E c \in Within(setting.clients, Clients) : Client(c) \/ Connection(c)
     \/ \E s \in Sess : HITLS_SESS_Free(s) \/ HITLS_CFG_RemoveSession(s)
     \/ \E t \in {0, now} : HITLS_CFG_ClearTimeoutSession(t)
     \/ \E m \in setting.modes : SetCacheMode(m)
     \/ \E n \in setting.limits : SetCacheSize(n)
     \/ Tick
  /\ UNCHANGED setting

Spec == Init /\ [][Next]_vars

-----------------------------------------------------------------------------
(* Properties.                                                             *)

TypeOK ==
  /\ sess \in [Sess -> [references : Nat, id : Ids \cup {None}, start : 0..MaxTime, enable : BOOLEAN, left : BOOLEAN]]
  /\ \A s \in Sess : sess[s].references = 0 => sess[s] = NoSession
  /\ cache \in [Ids -> Sess \cup {None}]
  /\ setting \in Settings /\ mode \in setting.modes /\ limit \in setting.limits /\ now \in 0..MaxTime
  /\ app \in [Sess -> 0..setting.app]
  /\ \A c \in Conns :
       /\ {conn[c].session, conn[c].tmp} \subseteq Sess \cup {None}
       /\ {conn[c].id, conn[c].want} \subseteq Ids \cup {None}
       /\ conn[c].resume \in BOOLEAN /\ conn[c].sent \in BOOLEAN
       /\ conn[c].mode \subseteq Flags /\ conn[c].off \cup conn[c].old \subseteq Sess

\* The reference count of a session is the number of its holders: the cache,
\* the connections, the lookups under way and the application.  Nobody holds
\* a session that has been freed, and no session outlives its holders
\* (HITLS_SESS_Dup and HITLS_SESS_Free in session.c and at all their callers).
References ==
  \A s \in Sess :
    sess[s].references = Cardinality({i \in Ids : cache[i] = s})
                         + Cardinality({c \in Conns : conn[c].session = s})
                         + Cardinality({c \in Conns : conn[c].tmp = s}) + app[s]

\* A session that is disabled (a fatal alert on any connection that uses it,
\* or a clean-up) is not resumed by a handshake that begins later, whatever
\* lookups, clean-ups and insertions happen at the same time.  Neither is one
\* whose lifetime is over when the handshake begins ("verify its validity
\* (time)", SESSMGR_Find), unless the application supplies it (sessionGetCb).
ResumesUsable ==
  \A c \in Conns : conn[c].resume =>
    /\ conn[c].session \notin conn[c].off
    /\ ~setting.external => conn[c].session \notin conn[c].old

\* The same for the sessions that sessionGetCb returns: SESSMGR_Find takes
\* them without a look at their age, so TLC refutes this one.
ExpiredNotResumed == \A c \in Conns : conn[c].resume => conn[c].session \notin conn[c].old

\* A session taken out of the cache does not come back while it lives on in a
\* connection or in the application: only a new session is ever inserted
\* (HsSetSessionInfo returns early when it resumes), or one that sessionGetCb
\* returns.
RemovedStaysRemoved == ~setting.external => \A s \in Cached : ~sess[s].left

\* HITLS_Clear takes at most the session of its own connection out of the
\* cache (SESSMGR_RemoveSession is given a session).
RemovesOwn ==
  [][\A c \in Conns : HITLS_Clear(c) =>
       \A i \in Ids : cache'[i] # cache[i] => cache[i] = conn[c].session]_vars
=============================================================================
