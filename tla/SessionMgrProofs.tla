-------------------------- MODULE SessionMgrProofs --------------------------
(***************************************************************************)
(* Proofs about the session cache: for any number of connections, session  *)
(* objects, ids and settings, the reference count of a session is the      *)
(* number of its holders (References), a session that leaves the cache     *)
(* does not come back (RemovedStaysRemoved), and no handshake resumes a    *)
(* session that was disabled or had timed out when it began                *)
(* (ResumesUsable).                                                        *)
(*                                                                         *)
(* The argument: every operation on the objects changes the count of one   *)
(* session by one, and so does every change of a holder; the sums agree    *)
(* because a holder that lets go of a session held it.  A session that is  *)
(* held is therefore an object in use, so that its id does not change and  *)
(* it is in the cache under its id and nowhere else.                       *)
(***************************************************************************)
EXTENDS SessionMgr, FiniteSetTheorems, TLAPS

-----------------------------------------------------------------------------
(* The inductive invariant.                                                *)

Held == Sess \cup {None}

Object == [references : Nat, id : Ids \cup {None}, start : 0..MaxTime, enable : BOOLEAN, left : BOOLEAN]

Objects == {f \in [Sess -> Object] : \A s \in Sess : f[s].references = 0 => f[s] = NoSession}

Places == {"idle", "found", "external", "store", "touch", "checked", "hello", "finish",
           "saved", "open", "alerted", "closed"}

ConnRec == [pc : Places, session : Held, tmp : Held, want : Ids \cup {None}, id : Ids \cup {None},
            resume : BOOLEAN, sent : BOOLEAN, mode : SUBSET Flags, off : SUBSET Sess, old : SUBSET Sess]

TypeInv ==
  /\ sess \in Objects
  /\ cache \in [Ids -> Held]
  /\ conn \in [Conns -> ConnRec]
  /\ app \in [Sess -> Nat]
  /\ now \in 0..MaxTime
  /\ setting \in Settings /\ mode \in setting.modes /\ limit \in setting.limits

\* A cached session is in the cache under its own id.
IdInv == \A i \in Ids : cache[i] # None => sess[cache[i]].id = i

\* What the place of a connection says about the sessions it holds.
Control(c, r) ==
  /\ r.pc \notin {"found", "store", "touch", "checked"} => r.tmp = None
  /\ c \in Clients => r.tmp = None
  /\ r.pc \in {"store", "touch"} => r.tmp # None
  /\ r.pc = "saved" => r.session # None
  /\ r.resume => r.session # None
  /\ r.pc \in {"external", "store", "touch"} => setting.external

\* The session s may be resumed by the handshake of the connection r.
Clean(r, s) == s \notin r.off /\ (~setting.external => s \notin r.old)

\* The sessions that the connection r recorded stay disabled or timed out; f and
\* n are the objects and the time.
Recorded(r, f, n) ==
  /\ \A s \in r.off : ~f[s].enable
  /\ \A s \in r.old : f[s].enable => n >= f[s].start + Timeout

\* The session that a connection is about to resume is none of them.
Ghost(c, r, f, n) ==
  /\ Recorded(r, f, n)
  /\ r.pc \in {"store", "touch", "checked"} /\ r.tmp # None => Clean(r, r.tmp)
  /\ c \in Clients /\ r.pc = "checked" /\ r.session # None => Clean(r, r.session)
  /\ r.resume => Clean(r, r.session)
  /\ r.pc \in {"idle", "finish", "saved", "open", "alerted", "closed"} => r.off = {} /\ r.old = {}

ControlInv == \A c \in Conns : Control(c, conn[c])
GhostInv == \A c \in Conns : Ghost(c, conn[c], sess, now)

IInv == TypeInv /\ References /\ IdInv /\ ControlInv /\ RemovedStaysRemoved /\ GhostInv

-----------------------------------------------------------------------------
(* Counting holders.                                                       *)

One(a, s) == IF a = s THEN 1 ELSE 0

CacheHeld(h, s) == Cardinality({i \in Ids : h[i] = s})
ConnHeld(g, s) == Cardinality({c \in Conns : g[c].session = s})
TmpHeld(g, s) == Cardinality({c \in Conns : g[c].tmp = s})

\* k agrees with h, or with the sessions and lookups of g, but at one place.
EntryOnly(h, k, i) == \A j \in Ids : j # i => k[j] = h[j]
ConnOnly(g, k, c) == \A d \in Conns : d # c => k[d].session = g[d].session /\ k[d].tmp = g[d].tmp

\* Two finite sets that differ in x at most.
LEMMA OnePoint ==
  ASSUME NEW S, NEW T, NEW x, IsFiniteSet(S), S \ {x} = T \ {x}
  PROVE  /\ IsFiniteSet(T)
         /\ Cardinality(S) \in Nat /\ Cardinality(T) \in Nat
         /\ x \in S /\ x \in T => Cardinality(T) = Cardinality(S)
         /\ x \in S /\ x \notin T => Cardinality(T) = Cardinality(S) - 1
         /\ x \notin S /\ x \in T => Cardinality(T) = Cardinality(S) + 1
         /\ x \notin S /\ x \notin T => Cardinality(T) = Cardinality(S)
  <1>1. CASE x \in S <=> x \in T
    <2>1. S = T
      BY <1>1
    <2>2. QED
      BY <2>1, <1>1, FS_CardinalityType
  <1>2. CASE x \in S /\ x \notin T
    <2>1. T = S \ {x}
      BY <1>2
    <2>2. IsFiniteSet(T) /\ Cardinality(T) = Cardinality(S) - 1
      BY <2>1, <1>2, FS_RemoveElement
    <2>3. QED
      BY <2>2, <1>2, FS_CardinalityType
  <1>3. CASE x \notin S /\ x \in T
    <2>1. T = S \cup {x}
      BY <1>3
    <2>2. IsFiniteSet(T) /\ Cardinality(T) = Cardinality(S) + 1
      BY <2>1, <1>3, FS_AddElement
    <2>3. QED
      BY <2>2, <1>3, FS_CardinalityType
  <1>4. QED
    BY <1>1, <1>2, <1>3

\* The weight of a holder.
LEMMA OneType == \A a, s : One(a, s) \in {0, 1} /\ (One(a, s) = 1 <=> a = s)
  BY DEF One

\* The connections of both roles together are finitely many.
LEMMA ConnsFinite == IsFiniteSet(Conns)
  BY SessionMgrAssumption, FS_Union DEF Conns

\* Changing one entry of the cache moves the count from the old session to the new.
LEMMA CacheCount ==
  ASSUME NEW h, NEW k, NEW i \in Ids, EntryOnly(h, k, i), NEW s
  PROVE  /\ CacheHeld(h, s) \in Nat /\ CacheHeld(k, s) \in Nat
         /\ CacheHeld(h, s) >= One(h[i], s)
         /\ CacheHeld(k, s) = CacheHeld(h, s) - One(h[i], s) + One(k[i], s)
  <1> DEFINE S == {j \in Ids : h[j] = s}
             T == {j \in Ids : k[j] = s}
  <1>1. IsFiniteSet(S)
    BY SessionMgrAssumption, FS_Subset
  <1>2. S \ {i} = T \ {i}
    BY DEF EntryOnly
  <1>3. (i \in S <=> h[i] = s) /\ (i \in T <=> k[i] = s)
    OBVIOUS
  <1>4. i \in S => Cardinality(S) # 0
    BY <1>1, FS_EmptySet
  <1>5. CacheHeld(h, s) = Cardinality(S) /\ CacheHeld(k, s) = Cardinality(T)
    BY DEF CacheHeld
  <1> HIDE DEF S, T
  <1>6. QED
    BY <1>1, <1>2, <1>3, <1>4, <1>5, OnePoint DEF One

\* The same for the session of one connection,
LEMMA ConnCount ==
  ASSUME NEW g, NEW k, NEW c \in Conns, ConnOnly(g, k, c), NEW s
  PROVE  /\ ConnHeld(g, s) \in Nat /\ ConnHeld(k, s) \in Nat
         /\ ConnHeld(g, s) >= One(g[c].session, s)
         /\ ConnHeld(k, s) = ConnHeld(g, s) - One(g[c].session, s) + One(k[c].session, s)
  <1> DEFINE S == {d \in Conns : g[d].session = s}
             T == {d \in Conns : k[d].session = s}
  <1>1. IsFiniteSet(S)
    BY ConnsFinite, FS_Subset
  <1>2. S \ {c} = T \ {c}
    BY DEF ConnOnly
  <1>3. (c \in S <=> g[c].session = s) /\ (c \in T <=> k[c].session = s)
    OBVIOUS
  <1>4. c \in S => Cardinality(S) # 0
    BY <1>1, FS_EmptySet
  <1>5. ConnHeld(g, s) = Cardinality(S) /\ ConnHeld(k, s) = Cardinality(T)
    BY DEF ConnHeld
  <1> HIDE DEF S, T
  <1>6. QED
    BY <1>1, <1>2, <1>3, <1>4, <1>5, OnePoint DEF One

\* and for the session one connection is looking up.
LEMMA TmpCount ==
  ASSUME NEW g, NEW k, NEW c \in Conns, ConnOnly(g, k, c), NEW s
  PROVE  /\ TmpHeld(g, s) \in Nat /\ TmpHeld(k, s) \in Nat
         /\ TmpHeld(g, s) >= One(g[c].tmp, s)
         /\ TmpHeld(k, s) = TmpHeld(g, s) - One(g[c].tmp, s) + One(k[c].tmp, s)
  <1> DEFINE S == {d \in Conns : g[d].tmp = s}
             T == {d \in Conns : k[d].tmp = s}
  <1>1. IsFiniteSet(S)
    BY ConnsFinite, FS_Subset
  <1>2. S \ {c} = T \ {c}
    BY DEF ConnOnly
  <1>3. (c \in S <=> g[c].tmp = s) /\ (c \in T <=> k[c].tmp = s)
    OBVIOUS
  <1>4. c \in S => Cardinality(S) # 0
    BY <1>1, FS_EmptySet
  <1>5. TmpHeld(g, s) = Cardinality(S) /\ TmpHeld(k, s) = Cardinality(T)
    BY DEF TmpHeld
  <1> HIDE DEF S, T
  <1>6. QED
    BY <1>1, <1>2, <1>3, <1>4, <1>5, OnePoint DEF One

-----------------------------------------------------------------------------
(* Session objects.                                                        *)

Same(f, g, s) == /\ g[s].id = f[s].id /\ g[s].start = f[s].start
                 /\ g[s].enable = f[s].enable /\ g[s].left = f[s].left

\* g is f with one reference more to a, and to nothing else.
Dupped(f, g, a) == \A s \in Sess :
  g[s].references = f[s].references + One(a, s) /\ Same(f, g, s)

\* g is f with one reference to a less, and with a gone if it was the last one.
Freed(f, g, a) == \A s \in Sess :
  /\ g[s].references = f[s].references - One(a, s)
  /\ g[s].references > 0 => Same(f, g, s)

\* The fields of an object.
LEMMA ObjectsFields ==
  ASSUME NEW f \in Objects, NEW s \in Sess
  PROVE  /\ f[s] \in Object /\ f[s].references \in Nat
         /\ f[s].start \in 0..MaxTime /\ f[s].start \in Nat
         /\ f[s].enable \in BOOLEAN /\ f[s].left \in BOOLEAN
         /\ f[s].references = 0 => ~f[s].enable
  BY SessionMgrAssumption DEF Objects, Object, NoSession

\* HITLS_SESS_Dup adds one reference.
LEMMA DupObjects ==
  ASSUME NEW f \in Objects, NEW a \in Held, NEW g, g = Dup(f, a)
  PROVE  g \in Objects /\ Dupped(f, g, a)
  <1>1. CASE a = None
    BY <1>1, SessionMgrAssumption, ObjectsFields DEF Dup, Dupped, Same, One
  <1>2. CASE a # None
    <2>1. a \in Sess
      BY <1>2 DEF Held
    <2>2. (\A s \in Sess : s # a => g[s] = f[s]) /\ g = [s \in Sess |-> g[s]]
      BY <1>2, <2>1 DEF Dup, Objects
    <2>3. g[a] \in Object /\ g[a].references = f[a].references + 1 /\ Same(f, g, a)
      <3>1. g[a] = [f[a] EXCEPT !.references = @ + 1]
        BY <1>2, <2>1 DEF Dup, Objects
      <3>2. QED
        BY <2>1, <3>1, ObjectsFields DEF Object, Same
    <2>4. g \in Objects
      BY <2>1, <2>2, <2>3, ObjectsFields DEF Objects
    <2>5. QED
      BY <2>1, <2>2, <2>3, <2>4, ObjectsFields DEF Dupped, Same, One
  <1>3. QED
    BY <1>1, <1>2

\* HITLS_SESS_Free takes one away.
LEMMA FreeObjects ==
  ASSUME NEW f \in Objects, NEW a \in Held, a # None => f[a].references > 0, NEW g, g = Free(f, a)
  PROVE  g \in Objects /\ Freed(f, g, a)
  <1>1. CASE a = None
    BY <1>1, SessionMgrAssumption, ObjectsFields DEF Free, Freed, Same, One
  <1>2. CASE a # None
    <2>1. a \in Sess
      BY <1>2 DEF Held
    <2>2. (\A s \in Sess : s # a => g[s] = f[s]) /\ g = [s \in Sess |-> g[s]]
      BY <1>2, <2>1 DEF Free, Objects
    <2>3. g[a] \in Object /\ g[a].references = f[a].references - 1
          /\ (g[a].references > 0 => Same(f, g, a)) /\ (g[a].references = 0 => g[a] = NoSession)
      <3>1. CASE f[a].references > 1
        <4>1. g[a] = [f[a] EXCEPT !.references = @ - 1]
          BY <3>1, <1>2, <2>1 DEF Free, Objects
        <4>2. g[a] \in Object /\ g[a].references = f[a].references - 1 /\ Same(f, g, a)
          BY <3>1, <4>1, <2>1, ObjectsFields DEF Object, Same
        <4>3. QED
          BY <3>1, <4>2, <2>1, ObjectsFields
      <3>2. CASE ~(f[a].references > 1)
        <4>1. g[a] = NoSession
          BY <3>2, <1>2, <2>1 DEF Free, Objects
        <4>2. f[a].references = 1 /\ NoSession \in Object /\ NoSession.references = 0
          BY <3>2, <1>2, <2>1, ObjectsFields, SessionMgrAssumption DEF Object, NoSession
        <4>3. QED
          BY <4>1, <4>2
      <3>3. QED
        BY <3>1, <3>2
    <2>4. g \in Objects
      BY <2>1, <2>2, <2>3, ObjectsFields DEF Objects
    <2>5. QED
      BY <2>1, <2>2, <2>3, <2>4, ObjectsFields DEF Freed, Same, One
  <1>3. QED
    BY <1>1, <1>2

\* g is f with a reference of the cache to a less.
Erased(f, g, a) == \A s \in Sess :
  /\ g[s].references = f[s].references - One(a, s)
  /\ g[s].references > 0 => g[s].id = f[s].id /\ g[s].start = f[s].start /\ g[s].enable = f[s].enable
  /\ g[s].references > 0 /\ s # a => g[s].left = f[s].left

\* BSL_HASH_Erase frees the session and marks it as taken out.
LEMMA EraseObjects ==
  ASSUME NEW f \in Objects, NEW a \in Held, a # None => f[a].references > 0, NEW g, g = Erase(f, a)
  PROVE  g \in Objects /\ Erased(f, g, a)
  <1>1. CASE a = None
    BY <1>1, SessionMgrAssumption, ObjectsFields DEF Erase, Erased, One
  <1>2. CASE a # None
    <2> DEFINE e == [f EXCEPT ![a].left = TRUE]
    <2>1. a \in Sess
      BY <1>2 DEF Held
    <2>2. (\A s \in Sess : s # a => e[s] = f[s]) /\ e = [s \in Sess |-> e[s]]
      BY <2>1 DEF Objects
    <2>3. /\ e[a] \in Object /\ e[a].references = f[a].references
          /\ e[a].id = f[a].id /\ e[a].start = f[a].start /\ e[a].enable = f[a].enable
      <3>1. e[a] = [f[a] EXCEPT !.left = TRUE]
        BY <2>1 DEF Objects
      <3> HIDE DEF e
      <3>2. QED
        BY <2>1, <3>1, ObjectsFields DEF Object
    <2>4. g = Free(e, a)
      BY <1>2 DEF Erase
    <2> HIDE DEF e
    <2>5. e \in Objects
      BY <1>2, <2>1, <2>2, <2>3, ObjectsFields DEF Objects
    <2>6. g \in Objects /\ Freed(e, g, a)
      BY <1>2, <2>3, <2>4, <2>5, FreeObjects
    <2>7. \A s \in Sess : /\ e[s].references = f[s].references /\ e[s].id = f[s].id
                          /\ e[s].start = f[s].start /\ e[s].enable = f[s].enable
                          /\ s # a => e[s].left = f[s].left
      BY <2>2, <2>3
    <2>8. QED
      BY <2>6, <2>7 DEF Freed, Erased, Same
  <1>3. QED
    BY <1>1, <1>2

\* g is f with a disabled.
Disabled(f, g, a) == \A s \in Sess :
  /\ g[s].references = f[s].references /\ g[s].id = f[s].id /\ g[s].start = f[s].start
  /\ g[s].left = f[s].left /\ (g[s].enable => f[s].enable)

\* SESS_Disable.
LEMMA DisableObjects ==
  ASSUME NEW f \in Objects, NEW a \in Held, a # None => f[a].references > 0, NEW g, g = Disable(f, a)
  PROVE  g \in Objects /\ Disabled(f, g, a)
  <1>1. CASE a = None
    BY <1>1, SessionMgrAssumption, ObjectsFields DEF Disable, Disabled
  <1>2. CASE a # None
    <2>1. a \in Sess
      BY <1>2 DEF Held
    <2>2. (\A s \in Sess : s # a => g[s] = f[s]) /\ g = [s \in Sess |-> g[s]]
      BY <1>2, <2>1 DEF Disable, Objects
    <2>3. /\ g[a] \in Object /\ g[a].references = f[a].references /\ g[a].id = f[a].id
          /\ g[a].start = f[a].start /\ g[a].left = f[a].left /\ ~g[a].enable
      <3>1. g[a] = [f[a] EXCEPT !.enable = FALSE]
        BY <1>2, <2>1 DEF Disable, Objects
      <3>2. QED
        BY <2>1, <3>1, ObjectsFields DEF Object
    <2>4. g \in Objects
      BY <1>2, <2>1, <2>2, <2>3, ObjectsFields DEF Objects
    <2>5. QED
      BY <2>2, <2>3, <2>4 DEF Disabled
  <1>3. QED
    BY <1>1, <1>2

\* g is f with a new session a.
Created(f, g, a, i, st) ==
  /\ \A s \in Sess : g[s].references = f[s].references + One(a, s) /\ (s # a => g[s] = f[s])
  /\ g[a].id = i /\ g[a].start = st /\ g[a].enable /\ ~g[a].left

\* HITLS_SESS_New.
LEMMA NewObjects ==
  ASSUME NEW f \in Objects, NEW a \in Sess, f[a].references = 0, NEW i \in Ids \cup {None},
         NEW st \in 0..MaxTime, NEW g, g = New(f, a, i, st)
  PROVE  g \in Objects /\ Created(f, g, a, i, st)
  <1>1. (\A s \in Sess : s # a => g[s] = f[s]) /\ g = [s \in Sess |-> g[s]]
    BY DEF New, Objects
  <1>2. g[a] \in Object /\ g[a].references = 1 /\ g[a].id = i /\ g[a].start = st
        /\ g[a].enable = TRUE /\ g[a].left = FALSE
    <2>1. g[a] = [references |-> 1, id |-> i, start |-> st, enable |-> TRUE, left |-> FALSE]
      BY DEF New, Objects
    <2>2. QED
      BY <2>1, SessionMgrAssumption DEF Object
  <1>3. g \in Objects
    BY <1>1, <1>2, ObjectsFields DEF Objects
  <1>4. QED
    BY <1>1, <1>2, <1>3, ObjectsFields DEF Created, One

Touch(f, a, st) == [f EXCEPT ![a].start = st]

\* g is f with the start time of a set to st.
Touched(f, g, a, st) == \A s \in Sess :
  /\ g[s].references = f[s].references /\ g[s].id = f[s].id /\ g[s].enable = f[s].enable
  /\ g[s].left = f[s].left /\ (s # a => g[s].start = f[s].start)

\* SESS_SetStartTime.
LEMMA TouchObjects ==
  ASSUME NEW f \in Objects, NEW a \in Sess, f[a].references > 0, NEW st \in 0..MaxTime,
         NEW g, g = Touch(f, a, st)
  PROVE  g \in Objects /\ Touched(f, g, a, st)
  <1>2. (\A s \in Sess : s # a => g[s] = f[s]) /\ g = [s \in Sess |-> g[s]]
    BY DEF Objects, Touch
  <1>3. /\ g[a] \in Object /\ g[a].references = f[a].references /\ g[a].id = f[a].id
        /\ g[a].enable = f[a].enable /\ g[a].left = f[a].left
    <2>1. g[a] = [f[a] EXCEPT !.start = st]
      BY DEF Objects, Touch
    <2>2. QED
      BY <2>1, ObjectsFields DEF Object
  <1>4. g \in Objects
    BY <1>2, <1>3, ObjectsFields DEF Objects
  <1>5. QED
    BY <1>2, <1>3, <1>4 DEF Touched

-----------------------------------------------------------------------------
(* Holders.                                                                *)

\* The counts are numbers.
LEMMA CountType ==
  ASSUME NEW h, NEW g, NEW s
  PROVE  CacheHeld(h, s) \in Nat /\ ConnHeld(g, s) \in Nat /\ TmpHeld(g, s) \in Nat
  <1>1. IsFiniteSet({i \in Ids : h[i] = s})
    BY SessionMgrAssumption, FS_Subset
  <1>2. IsFiniteSet({c \in Conns : g[c].session = s}) /\ IsFiniteSet({c \in Conns : g[c].tmp = s})
    BY ConnsFinite, FS_Subset
  <1>3. QED
    BY <1>1, <1>2, FS_CardinalityType DEF CacheHeld, ConnHeld, TmpHeld

\* References in terms of the counts.
LEMMA ReferencesAre ==
  References <=> \A s \in Sess : sess[s].references
                   = CacheHeld(cache, s) + ConnHeld(conn, s) + TmpHeld(conn, s) + app[s]
  BY DEF References, CacheHeld, ConnHeld, TmpHeld

\* A connection, an entry of the cache and the application hold what they name.
LEMMA ConnHolds ==
  ASSUME TypeInv, References, NEW c \in Conns, NEW s \in Sess
  PROVE  sess[s].references >= One(conn[c].session, s) + One(conn[c].tmp, s) + app[s]
  <1>1. ConnHeld(conn, s) >= One(conn[c].session, s) /\ TmpHeld(conn, s) >= One(conn[c].tmp, s)
    BY ConnCount, TmpCount DEF ConnOnly
  <1>2. CacheHeld(cache, s) \in Nat /\ ConnHeld(conn, s) \in Nat /\ TmpHeld(conn, s) \in Nat
    BY CountType
  <1>3. app[s] \in Nat
    BY DEF TypeInv
  <1>4. QED
    BY <1>1, <1>2, <1>3, ReferencesAre, OneType

\* The same for an entry of the cache.
LEMMA CacheHolds ==
  ASSUME TypeInv, References, NEW i \in Ids, NEW s \in Sess
  PROVE  sess[s].references >= One(cache[i], s) + app[s]
  <1>1. CacheHeld(cache, s) >= One(cache[i], s)
    BY CacheCount DEF EntryOnly
  <1>2. CacheHeld(cache, s) \in Nat /\ ConnHeld(conn, s) \in Nat /\ TmpHeld(conn, s) \in Nat
    BY CountType
  <1>3. app[s] \in Nat
    BY DEF TypeInv
  <1>4. QED
    BY <1>1, <1>2, <1>3, ReferencesAre, OneType

\* And for an entry and a connection together.
LEMMA BothHold ==
  ASSUME TypeInv, References, NEW i \in Ids, NEW c \in Conns, NEW s \in Sess
  PROVE  sess[s].references >= One(cache[i], s) + One(conn[c].session, s) + One(conn[c].tmp, s) + app[s]
  <1>1. CacheHeld(cache, s) >= One(cache[i], s)
    BY CacheCount DEF EntryOnly
  <1>2. ConnHeld(conn, s) >= One(conn[c].session, s) /\ TmpHeld(conn, s) >= One(conn[c].tmp, s)
    BY ConnCount, TmpCount DEF ConnOnly
  <1>3. CacheHeld(cache, s) \in Nat /\ ConnHeld(conn, s) \in Nat /\ TmpHeld(conn, s) \in Nat
    BY CountType
  <1>4. app[s] \in Nat
    BY DEF TypeInv
  <1>5. QED
    BY <1>1, <1>2, <1>3, <1>4, ReferencesAre, OneType

\* What is named by a connection or by the cache is in use.
LEMMA InUse ==
  ASSUME TypeInv, References
  PROVE  /\ \A c \in Conns : conn[c].session # None => sess[conn[c].session].references > 0
         /\ \A c \in Conns : conn[c].tmp # None => sess[conn[c].tmp].references > 0
         /\ \A i \in Ids : cache[i] # None => sess[cache[i]].references > 0
         /\ \A s \in Sess : app[s] > 0 => sess[s].references > 0
  <1>1. ASSUME NEW c \in Conns, conn[c].session # None
        PROVE  sess[conn[c].session].references > 0
    <2>1. conn[c].session \in Sess
      BY <1>1 DEF TypeInv, ConnRec, Held
    <2>2. sess[conn[c].session].references \in Nat /\ app[conn[c].session] \in Nat
      BY <2>1, ObjectsFields DEF TypeInv
    <2>3. QED
      BY <2>1, <2>2, ConnHolds, OneType
  <1>2. ASSUME NEW c \in Conns, conn[c].tmp # None
        PROVE  sess[conn[c].tmp].references > 0
    <2>1. conn[c].tmp \in Sess
      BY <1>2 DEF TypeInv, ConnRec, Held
    <2>2. sess[conn[c].tmp].references \in Nat /\ app[conn[c].tmp] \in Nat
      BY <2>1, ObjectsFields DEF TypeInv
    <2>3. QED
      BY <2>1, <2>2, ConnHolds, OneType
  <1>3. ASSUME NEW i \in Ids, cache[i] # None
        PROVE  sess[cache[i]].references > 0
    <2>1. cache[i] \in Sess
      BY <1>3 DEF TypeInv, Held
    <2>2. sess[cache[i]].references \in Nat /\ app[cache[i]] \in Nat
      BY <2>1, ObjectsFields DEF TypeInv
    <2>3. QED
      BY <2>1, <2>2, CacheHolds, OneType
  <1>4. ASSUME NEW s \in Sess, app[s] > 0
        PROVE  sess[s].references > 0
    <2>1. app[s] \in Nat
      BY DEF TypeInv
    <2>2. CacheHeld(cache, s) \in Nat /\ ConnHeld(conn, s) \in Nat /\ TmpHeld(conn, s) \in Nat
      BY CountType
    <2>3. QED
      BY <1>4, <2>1, <2>2, ReferencesAre
  <1>5. QED
    BY <1>1, <1>2, <1>3, <1>4

-----------------------------------------------------------------------------
(* Operations on the cache.                                                *)

\* The cache goes from h to k and the objects from f to g: the counts change
\* alike, and the objects that stay keep their ids and their lifetimes.
Moved(h, f, k, g) ==
  /\ k \in [Ids -> Held] /\ g \in Objects
  /\ \A s \in Sess : g[s].references = f[s].references + CacheHeld(k, s) - CacheHeld(h, s)
  /\ \A s \in Sess : g[s].references > 0 =>
       g[s].id = f[s].id /\ g[s].start = f[s].start /\ (g[s].enable => f[s].enable)

\* Nothing comes in, and what stays is not marked as taken out.
Shrunk(h, f, k, g) == \A i \in Ids : k[i] # None =>
  k[i] = h[i] /\ (g[k[i]].references > 0 => g[k[i]].left = f[k[i]].left)

\* SESSMGR_RemoveSession.
LEMMA RemoveMoves ==
  ASSUME TypeInv, References, IdInv, NEW a \in Sess, NEW r, r = SESSMGR_RemoveSession(a)
  PROVE  Moved(cache, sess, r.h, r.f) /\ Shrunk(cache, sess, r.h, r.f)
  <1> DEFINE i == sess[a].id
  <1>1. CASE i = None
    <2>1. r.h = cache /\ r.f = sess
      BY <1>1 DEF SESSMGR_RemoveSession
    <2>2. QED
      BY <2>1, CountType, ObjectsFields, SMTT(30) DEF Moved, Shrunk, TypeInv
  <1>2. CASE i # None
    <2>1. i \in Ids
      BY <1>2 DEF TypeInv, Objects, Object
    <2>2. r.h = [cache EXCEPT ![i] = None] /\ r.f = Erase(sess, cache[i])
      BY <1>2 DEF SESSMGR_RemoveSession
    <2>3. /\ r.h \in [Ids -> Held] /\ r.h[i] = None /\ \A j \in Ids : j # i => r.h[j] = cache[j]
      BY <2>1, <2>2 DEF TypeInv, Held
    <2>4. cache[i] \in Held /\ (cache[i] # None => sess[cache[i]].references > 0)
      BY <2>1, InUse DEF TypeInv
    <2>5. r.f \in Objects /\ Erased(sess, r.f, cache[i])
      BY <2>2, <2>4, EraseObjects DEF TypeInv
    <2>6. \A s \in Sess : One(None, s) = 0
      BY SessionMgrAssumption DEF One
    <2>7. \A s \in Sess : /\ CacheHeld(cache, s) \in Nat
                          /\ CacheHeld(r.h, s) = CacheHeld(cache, s) - One(cache[i], s) + One(None, s)
      <3>1. EntryOnly(cache, r.h, i)
        BY <2>3 DEF EntryOnly
      <3>2. QED
        BY <2>1, <2>3, <3>1, CacheCount
    <2>8. \A s \in Sess : r.f[s].references = sess[s].references + CacheHeld(r.h, s) - CacheHeld(cache, s)
      BY <2>5, <2>6, <2>7, OneType, ObjectsFields DEF TypeInv, Erased
    <2>9. Moved(cache, sess, r.h, r.f)
      BY <2>3, <2>5, <2>8 DEF Moved, Erased
    <2>10. ASSUME NEW j \in Ids, r.h[j] # None
           PROVE  r.h[j] = cache[j] /\ r.h[j] \in Sess /\ cache[j] # cache[i]
      BY <2>10, <2>1, <2>3 DEF IdInv, Held
    <2>11. QED
      BY <2>5, <2>9, <2>10 DEF Shrunk, Erased
  <1>3. QED
    BY <1>1, <1>2

\* Every outdated session is in the cache once, and all of them go.
LEMMA ClearMoves ==
  ASSUME TypeInv, References, IdInv, NEW t, NEW r, r = SESSMGR_ClearTimeout(t)
  PROVE  Moved(cache, sess, r.h, r.f) /\ Shrunk(cache, sess, r.h, r.f)
  <1> DEFINE out == Outdated(t)
             Drop(s) == IF sess[s].references > 1
                        THEN [sess[s] EXCEPT !.references = @ - 1, !.enable = FALSE, !.left = TRUE]
                        ELSE NoSession
  <1>1. /\ r.h = [i \in Ids |-> IF cache[i] \in out THEN None ELSE cache[i]]
        /\ r.f = [s \in Sess |-> IF s \in out THEN Drop(s) ELSE sess[s]]
    BY DEF SESSMGR_ClearTimeout
  <1>2. out \subseteq Sess /\ None \notin out /\ \A s \in out : \E i \in Ids : cache[i] = s
    BY SessionMgrAssumption DEF Outdated, Cached, TypeInv, Held
  <1>3. \A s \in out : s \in Sess /\ sess[s].references > 0
    BY <1>2, InUse
  <1>4. ASSUME NEW s \in out
        PROVE  /\ r.f[s] \in Object /\ r.f[s].references = sess[s].references - 1
               /\ r.f[s].references = 0 => r.f[s] = NoSession
               /\ r.f[s].references > 0 => r.f[s].id = sess[s].id /\ r.f[s].start = sess[s].start
               /\ ~r.f[s].enable
    <2>1. s \in Sess /\ sess[s].references \in Nat /\ sess[s].references > 0 /\ sess[s] \in Object
      BY <1>3, ObjectsFields DEF TypeInv
    <2>2. CASE sess[s].references > 1
      <3> DEFINE n == sess[s].references - 1
      <3>1. r.f[s] = [sess[s] EXCEPT !.references = n, !.enable = FALSE, !.left = TRUE]
        BY <1>1, <2>1, <2>2
      <3>5. n \in Nat
        BY <2>1, <2>2
      <3> HIDE DEF out, Drop, n
      <3>2. /\ r.f[s].references = n /\ r.f[s].id = sess[s].id
            /\ r.f[s].start = sess[s].start /\ r.f[s].enable = FALSE
        BY <2>1, <3>1 DEF Object
      <3>3. r.f[s] \in Object
        BY <2>1, <3>1, <3>5 DEF Object
      <3>4. QED
        BY <2>1, <2>2, <3>2, <3>3 DEF n
    <2>3. CASE ~(sess[s].references > 1)
      <3>1. r.f[s] = NoSession
        BY <1>1, <2>1, <2>3
      <3> HIDE DEF out, Drop
      <3>2. QED
        BY <2>1, <2>3, <3>1, SessionMgrAssumption DEF Object, NoSession
    <2>4. QED
      BY <2>2, <2>3
  <1>5. \A s \in Sess : s \notin out => r.f[s] = sess[s]
    BY <1>1
  <1>6. r.f = [s \in Sess |-> r.f[s]]
    BY <1>1
  <1>7. \A i \in Ids : r.h[i] = IF cache[i] \in out THEN None ELSE cache[i]
    BY <1>1
  <1>8. r.h \in [Ids -> Held]
    BY <1>1 DEF TypeInv, Held
  <1> HIDE DEF out, Drop
  <1>9. r.f \in Objects
    BY <1>4, <1>5, <1>6, ObjectsFields DEF TypeInv, Objects
  <1>10. ASSUME NEW s \in Sess
         PROVE  r.f[s].references = sess[s].references + CacheHeld(r.h, s) - CacheHeld(cache, s)
    <2>1. s # None
      BY SessionMgrAssumption
    <2>2. CASE s \in out
      <3>1. PICK i \in Ids : cache[i] = s
        BY <2>2, <1>2
      <3>2. {j \in Ids : cache[j] = s} = {i}
        BY <3>1, <2>1 DEF IdInv
      <3>3. {j \in Ids : r.h[j] = s} = {}
        BY <1>7, <2>1, <2>2
      <3>4. CacheHeld(cache, s) = 1 /\ CacheHeld(r.h, s) = 0
        BY <3>2, <3>3, FS_EmptySet, FS_Singleton DEF CacheHeld
      <3>5. QED
        BY <3>4, <2>2, <1>4, ObjectsFields DEF TypeInv
    <2>3. CASE s \notin out
      <3>1. {j \in Ids : r.h[j] = s} = {j \in Ids : cache[j] = s}
        BY <1>7, <2>1, <2>3
      <3>2. CacheHeld(cache, s) = CacheHeld(r.h, s) /\ CacheHeld(cache, s) \in Nat
        BY <3>1, CountType DEF CacheHeld
      <3>3. QED
        BY <3>2, <2>3, <1>5, ObjectsFields DEF TypeInv
    <2>4. QED
      BY <2>2, <2>3
  <1>11. Moved(cache, sess, r.h, r.f)
    BY <1>4, <1>5, <1>8, <1>9, <1>10 DEF Moved
  <1>12. ASSUME NEW i \in Ids, r.h[i] # None
         PROVE  r.h[i] = cache[i] /\ r.h[i] \in Sess /\ r.h[i] \notin out
    BY <1>12, <1>7, <1>8 DEF Held
  <1>13. QED
    BY <1>5, <1>11, <1>12 DEF Shrunk

\* At most a comes in, under its id; what stays is not marked as taken out if a
\* is new, and no object comes into use.
Added(h, f, k, g, a) ==
  /\ \A i \in Ids : k[i] # None =>
       /\ k[i] = h[i] \/ (k[i] = a /\ f[a].id = i)
       /\ (\A j \in Ids : h[j] # a) => g[k[i]].left = f[k[i]].left
  /\ \A s \in Sess : g[s].references > 0 => f[s].references > 0

\* SESSMGR_InsertSession: the entry that is replaced gives up its reference.
LEMMA InsertMoves ==
  ASSUME NEW h \in [Ids -> Held], NEW f \in Objects, NEW a \in Sess, f[a].references > 0,
         \A i \in Ids : h[i] # None => f[h[i]].references > 0 /\ f[h[i]].id = i,
         \A i \in Ids : h[i] = a => f[a].references > 1,
         NEW r, r = SESSMGR_InsertSession(h, f, a)
  PROVE  Moved(h, f, r.h, r.f) /\ Added(h, f, r.h, r.f, a)
  <1> DEFINE i == f[a].id
  <1>1. CASE i = None \/ (limit # 0 /\ CacheSize(h) >= limit)
    <2>1. r.h = h /\ r.f = f
      BY <1>1 DEF SESSMGR_InsertSession
    <2>2. QED
      BY <2>1, CountType, ObjectsFields DEF Moved, Added
  <1>2. CASE ~(i = None \/ (limit # 0 /\ CacheSize(h) >= limit))
    <2>1. i \in Ids
      BY <1>2 DEF Objects, Object
    <2> DEFINE e == Erase(f, h[i])
    <2>2. r.h = [h EXCEPT ![i] = a] /\ r.f = Dup(e, a)
      BY <1>2 DEF SESSMGR_InsertSession
    <2>3. r.h \in [Ids -> Held] /\ r.h[i] = a /\ \A j \in Ids : j # i => r.h[j] = h[j]
      BY <2>1, <2>2 DEF Held
    <2>4. h[i] \in Held /\ (h[i] # None => f[h[i]].references > 0)
      BY <2>1
    <2>5. e \in Objects /\ Erased(f, e, h[i])
      BY <2>4, EraseObjects
    <2> HIDE DEF e
    <2>6. r.f \in Objects /\ Dupped(e, r.f, a)
      BY <2>2, <2>5, DupObjects DEF Held
    <2>7. EntryOnly(h, r.h, i)
      BY <2>3 DEF EntryOnly
    <2>8. \A s \in Sess : /\ CacheHeld(h, s) \in Nat
                          /\ CacheHeld(r.h, s) = CacheHeld(h, s) - One(h[i], s) + One(a, s)
      BY <2>1, <2>3, <2>7, CacheCount
    <2>9. \A s \in Sess : r.f[s].references = f[s].references + CacheHeld(r.h, s) - CacheHeld(h, s)
      BY <2>5, <2>6, <2>8, OneType, ObjectsFields DEF Erased, Dupped
    <2>10. h[i] = a => f[a].references > 1
      BY <2>1
    <2>11. e[a].references > 0
      BY <2>5, <2>10, OneType, ObjectsFields DEF Erased
    <2>12. \A s \in Sess : r.f[s].references > 0 => e[s].references > 0
      <3>1. ASSUME NEW s \in Sess, r.f[s].references > 0, s # a
            PROVE  e[s].references > 0
        <4>1. One(a, s) = 0 /\ e[s].references \in Nat /\ r.f[s].references = e[s].references + One(a, s)
          BY <3>1, <2>5, <2>6, ObjectsFields DEF Dupped, One
        <4>2. QED
          BY <3>1, <4>1
      <3>2. QED
        BY <3>1, <2>11
    <2>13. Moved(h, f, r.h, r.f)
      BY <2>3, <2>5, <2>6, <2>9, <2>12 DEF Moved, Erased, Dupped, Same
    <2>14. ASSUME NEW j \in Ids, r.h[j] # None
           PROVE  /\ r.h[j] = h[j] \/ (r.h[j] = a /\ i = j)
                  /\ r.h[j] \in Sess
                  /\ (\A k \in Ids : h[k] # a) => r.h[j] # h[i] /\ e[r.h[j]].references > 0
      <3>1. CASE j = i
        BY <3>1, <2>1, <2>3, <2>11
      <3>2. CASE j # i
        <4>1. r.h[j] = h[j] /\ h[j] \in Sess /\ f[h[j]].id = j /\ f[h[j]].references > 0
          BY <3>2, <2>14, <2>3 DEF Held
        <4>2. h[j] # h[i]
          <5>1. h[i] # None => f[h[i]].id = i
            BY <2>1
          <5>2. h[j] # None
            BY <4>1, SessionMgrAssumption
          <5> HIDE DEF i
          <5>3. QED
            BY <3>2, <4>1, <5>1, <5>2
        <4>3. One(h[i], h[j]) = 0
          BY <4>2 DEF One
        <4>4. e[h[j]].references > 0
          BY <4>1, <4>3, <2>5, ObjectsFields DEF Erased
        <4>5. QED
          BY <4>1, <4>2, <4>4
      <3>3. QED
        BY <3>1, <3>2
    <2>15. Added(h, f, r.h, r.f, a)
      <3>1. \A s \in Sess : r.f[s].references > 0 => f[s].references > 0
        BY <2>5, <2>12, OneType, ObjectsFields DEF Erased
      <3>2. QED
        BY <3>1, <2>14, <2>5, <2>6 DEF Added, Erased, Dupped, Same
    <2>16. QED
      BY <2>13, <2>15
  <1>3. QED
    BY <1>1, <1>2

-----------------------------------------------------------------------------
(* What every step has to show.  N are the sessions it allocates, R those  *)
(* whose start time it sets, C the connections it moves.                   *)

Others(C, N, R) == \A d \in Conns \ C :
  /\ conn'[d].pc = conn[d].pc /\ conn'[d].session = conn[d].session /\ conn'[d].tmp = conn[d].tmp
  /\ conn'[d].resume = conn[d].resume
  /\ conn'[d].off = conn[d].off \ N /\ conn'[d].old = conn[d].old \ (N \cup R)

\* A session in use keeps its id; only allocation enables it, and only
\* allocation and SESS_SetStartTime change its start time.
Evolves(N, R) == \A s \in Sess :
  /\ s \notin N => (sess'[s].references > 0 => sess'[s].id = sess[s].id)
                   /\ (sess'[s].enable => sess[s].enable)
  /\ s \notin N \cup R => (sess'[s].enable => sess'[s].start = sess[s].start)

\* The sessions in the cache stay under their ids, and none of them has left it.
CacheKept == \A i \in Ids : cache'[i] # None =>
  /\ sess'[cache'[i]].id = i
  /\ ~setting.external => ~sess'[cache'[i]].left

MovedOK(C) == \A c \in C : Control(c, conn'[c]) /\ Ghost(c, conn'[c], sess', now')

\* The parts together.
LEMMA StepKeeps ==
  ASSUME IInv, TypeInv', References', UNCHANGED setting, now' >= now, CacheKept,
         NEW C \in SUBSET Conns, NEW N \in SUBSET Sess, NEW R \in SUBSET Sess,
         Others(C, N, R), Evolves(N, R), MovedOK(C)
  PROVE  IInv'
  <1>1. IdInv'
    BY DEF CacheKept, IdInv
  <1>2. RemovedStaysRemoved'
    BY DEF CacheKept, RemovedStaysRemoved, Cached
  <1>3. ASSUME NEW d \in Conns \ C
        PROVE  Control(d, conn[d])'
    BY <1>3 DEF IInv, ControlInv, Control, Others
  <1>4. ASSUME NEW d \in Conns \ C
        PROVE  Ghost(d, conn[d], sess, now)'
    <2>1. Ghost(d, conn[d], sess, now)
      BY DEF IInv, GhostInv
    <2>2. /\ conn'[d].pc = conn[d].pc /\ conn'[d].session = conn[d].session /\ conn'[d].tmp = conn[d].tmp
          /\ conn'[d].resume = conn[d].resume
          /\ conn'[d].off = conn[d].off \ N /\ conn'[d].old = conn[d].old \ (N \cup R)
      BY DEF Others
    <2>3. conn[d].off \subseteq Sess /\ conn[d].old \subseteq Sess
      BY DEF IInv, TypeInv, ConnRec
    <2>4. \A s \in conn'[d].off : ~sess'[s].enable
      BY <2>1, <2>2, <2>3 DEF Ghost, Recorded, Evolves
    <2>5. ASSUME NEW s \in conn'[d].old, sess'[s].enable
          PROVE  now' >= sess'[s].start + Timeout
      <3>1. s \in Sess /\ s \in conn[d].old /\ sess[s].enable /\ sess'[s].start = sess[s].start
        BY <2>2, <2>3, <2>5 DEF Evolves
      <3>2. now >= sess[s].start + Timeout
        BY <2>1, <3>1 DEF Ghost, Recorded
      <3>3. now \in Nat /\ now' \in Nat /\ sess[s].start \in Nat /\ Timeout \in Nat
        BY <3>1, SessionMgrAssumption, ObjectsFields DEF IInv, TypeInv
      <3>4. QED
        BY <3>1, <3>2, <3>3
    <2>6. QED
      BY <2>1, <2>2, <2>4, <2>5 DEF Ghost, Recorded, Clean
  <1>5. \A c \in C : Control(c, conn[c])' /\ Ghost(c, conn[c], sess, now)'
    BY DEF MovedOK, Control, Ghost, Recorded, Clean
  <1>6. ControlInv' /\ GhostInv'
    BY <1>3, <1>4, <1>5 DEF ControlInv, GhostInv
  <1>7. QED
    BY <1>1, <1>2, <1>6 DEF IInv

\* g follows f on all sessions but the new ones, with their marks.
Follows(f, g, N, R) == \A s \in Sess :
  /\ s \notin N => (g[s].references > 0 => g[s].id = f[s].id /\ g[s].left = f[s].left)
                   /\ (g[s].enable => f[s].enable)
  /\ s \notin N \cup R => (g[s].enable => g[s].start = f[s].start)

\* What the cache names after a step is in use then.
LEMMA CachedInUse ==
  ASSUME TypeInv', References', NEW i \in Ids, cache'[i] # None
  PROVE  cache'[i] \in Sess /\ sess'[cache'[i]].references > 0
  <1> DEFINE s == cache'[i]
  <1>1. s \in Sess /\ app'[s] \in Nat
    BY DEF TypeInv, Held
  <1>2. CacheHeld(cache', s) >= 1
    BY CacheCount DEF EntryOnly, One
  <1>3. CacheHeld(cache', s) \in Nat /\ ConnHeld(conn', s) \in Nat /\ TmpHeld(conn', s) \in Nat
    BY CountType
  <1>4. sess'[s].references = CacheHeld(cache', s) + ConnHeld(conn', s) + TmpHeld(conn', s) + app'[s]
    BY <1>1 DEF References, CacheHeld, ConnHeld, TmpHeld
  <1> HIDE DEF s
  <1>5. QED
    BY <1>1, <1>2, <1>3, <1>4 DEF s

\* A step that leaves the cache alone.
LEMMA PlainStep ==
  ASSUME IInv, TypeInv', References', UNCHANGED <<cache, setting>>, now' >= now,
         NEW C \in SUBSET Conns, NEW N \in SUBSET Sess, NEW R \in SUBSET Sess,
         Others(C, N, R), Follows(sess, sess', N, R), \A s \in N : sess[s].references = 0, MovedOK(C)
  PROVE  IInv'
  <1>1. Evolves(N, R)
    BY DEF Follows, Evolves
  <1>2. ASSUME NEW i \in Ids, cache'[i] # None
        PROVE  sess'[cache'[i]].id = i /\ (~setting.external => ~sess'[cache'[i]].left)
    <2>1. cache[i] \in Sess /\ cache'[i] = cache[i]
      BY <1>2 DEF IInv, TypeInv, Held
    <2>2. sess[cache[i]].references > 0
      BY <1>2, <2>1, InUse DEF IInv
    <2>3. sess'[cache[i]].references > 0
      BY <2>1, <1>2, CachedInUse
    <2>4. cache[i] \notin N
      BY <2>2, <2>1
    <2>5. sess[cache[i]].id = i /\ (~setting.external => ~sess[cache[i]].left)
      BY <1>2, <2>1 DEF IInv, IdInv, RemovedStaysRemoved, Cached
    <2>6. QED
      BY <2>1, <2>3, <2>4, <2>5 DEF Follows
  <1>3. CacheKept
    BY <1>2 DEF CacheKept
  <1>4. QED
    BY <1>1, <1>3, StepKeeps

\* The counts of a step that moves the connection c.
LEMMA RefStep ==
  ASSUME IInv, NEW c \in Conns, ConnOnly(conn, conn', c), app' \in [Sess -> Nat],
         sess' \in Objects,
         \A s \in Sess : sess'[s].references
           = sess[s].references - One(conn[c].session, s) - One(conn[c].tmp, s)
             + One(conn'[c].session, s) + One(conn'[c].tmp, s)
             + (CacheHeld(cache', s) - CacheHeld(cache, s)) + (app'[s] - app[s])
  PROVE  References'
  <1>1. ASSUME NEW s \in Sess
        PROVE  sess'[s].references
                 = CacheHeld(cache', s) + ConnHeld(conn', s) + TmpHeld(conn', s) + app'[s]
    <2>1. /\ ConnHeld(conn, s) \in Nat /\ ConnHeld(conn', s) \in Nat
          /\ ConnHeld(conn', s) = ConnHeld(conn, s) - One(conn[c].session, s) + One(conn'[c].session, s)
      BY ConnCount
    <2>2. /\ TmpHeld(conn, s) \in Nat /\ TmpHeld(conn', s) \in Nat
          /\ TmpHeld(conn', s) = TmpHeld(conn, s) - One(conn[c].tmp, s) + One(conn'[c].tmp, s)
      BY TmpCount
    <2>3. sess[s].references = CacheHeld(cache, s) + ConnHeld(conn, s) + TmpHeld(conn, s) + app[s]
      BY ReferencesAre DEF IInv
    <2>4. CacheHeld(cache, s) \in Nat /\ CacheHeld(cache', s) \in Nat
      BY CountType
    <2>5. app[s] \in Nat /\ app'[s] \in Nat
      BY DEF IInv, TypeInv
    <2>6. QED
      BY <2>1, <2>2, <2>3, <2>4, <2>5, OneType
  <1>2. QED
    BY <1>1 DEF References, CacheHeld, ConnHeld, TmpHeld

\* The counts of a step that moves no connection.
LEMMA AppStep ==
  ASSUME IInv, UNCHANGED conn, app' \in [Sess -> Nat],
         \A s \in Sess : sess'[s].references
           = sess[s].references + (CacheHeld(cache', s) - CacheHeld(cache, s)) + (app'[s] - app[s])
  PROVE  References'
  <1>1. ASSUME NEW s \in Sess
        PROVE  sess'[s].references
                 = CacheHeld(cache', s) + ConnHeld(conn', s) + TmpHeld(conn', s) + app'[s]
    <2>1. sess[s].references = CacheHeld(cache, s) + ConnHeld(conn, s) + TmpHeld(conn, s) + app[s]
      BY ReferencesAre DEF IInv
    <2>2. /\ CacheHeld(cache, s) \in Nat /\ CacheHeld(cache', s) \in Nat
          /\ ConnHeld(conn, s) \in Nat /\ TmpHeld(conn, s) \in Nat
      BY CountType
    <2>3. app[s] \in Nat /\ app'[s] \in Nat
      BY DEF IInv, TypeInv
    <2>4. QED
      BY <2>1, <2>2, <2>3
  <1>2. QED
    BY <1>1 DEF References, CacheHeld, ConnHeld, TmpHeld

\* The connection c becomes r and the others do not change.
LEMMA SetConn ==
  ASSUME TypeInv, NEW c \in Conns, NEW r \in ConnRec, Set(c, r)
  PROVE  /\ conn' \in [Conns -> ConnRec] /\ conn'[c] = r
         /\ ConnOnly(conn, conn', c) /\ Others({c}, {}, {})
  <1>1. conn' \in [Conns -> ConnRec] /\ conn'[c] = r /\ \A d \in Conns : d # c => conn'[d] = conn[d]
    BY DEF Set, TypeInv
  <1>2. QED
    BY <1>1 DEF ConnOnly, Others

\* The fields of a connection.
LEMMA ConnFields ==
  ASSUME TypeInv, NEW c \in Conns
  PROVE  /\ conn[c] \in ConnRec
         /\ conn[c].pc \in Places /\ conn[c].session \in Held /\ conn[c].tmp \in Held
         /\ conn[c].want \in Ids \cup {None} /\ conn[c].id \in Ids \cup {None}
         /\ conn[c].resume \in BOOLEAN /\ conn[c].sent \in BOOLEAN
         /\ conn[c].mode \in SUBSET Flags /\ conn[c].off \in SUBSET Sess /\ conn[c].old \in SUBSET Sess
  BY DEF TypeInv, ConnRec

\* The lookup begins: what is recorded is disabled or has timed out.
LEMMA BeginRec ==
  ASSUME TypeInv, NEW c \in Conns, NEW b, b = Begin(c)
  PROVE  /\ b \in ConnRec /\ b.session = conn[c].session /\ b.tmp = conn[c].tmp
         /\ b.pc = conn[c].pc /\ b.resume = FALSE /\ b.want = conn[c].want
         /\ Recorded(b, sess, now)
  <1> DEFINE off == {s \in Live : ~sess[s].enable}
             old == {s \in Live : now >= sess[s].start + Timeout}
  <1>1. off \in SUBSET Sess /\ old \in SUBSET Sess
    BY DEF Live
  <1>2. (\A s \in off : ~sess[s].enable) /\ (\A s \in old : now >= sess[s].start + Timeout)
    OBVIOUS
  <1>3. b = [conn[c] EXCEPT !.resume = FALSE, !.id = None, !.off = off, !.old = old]
    BY DEF Begin
  <1> HIDE DEF off, old
  <1>4. b.session = conn[c].session /\ b.tmp = conn[c].tmp /\ b.pc = conn[c].pc /\ b.resume = FALSE
        /\ b.want = conn[c].want /\ b.off = off /\ b.old = old
    BY <1>3, ConnFields DEF ConnRec
  <1>5. b \in ConnRec
    BY <1>1, <1>3, ConnFields DEF ConnRec
  <1>6. QED
    BY <1>2, <1>4, <1>5 DEF Recorded

\* What a free or a duplicate leaves behind follows the objects before.
LEMMA DuppedFollows ==
  ASSUME NEW f, NEW g, NEW a, Dupped(f, g, a), f \in Objects, g \in Objects
  PROVE  Follows(f, g, {}, {})
  BY DEF Dupped, Same, Follows

\* A free leaves objects that follow those before.
LEMMA FreedFollows ==
  ASSUME NEW f, NEW g, NEW a, Freed(f, g, a), f \in Objects, g \in Objects
  PROVE  Follows(f, g, {}, {})
  <1>1. ASSUME NEW s \in Sess
        PROVE  g[s].references > 0 \/ ~g[s].enable
    BY ObjectsFields
  <1>2. QED
    BY <1>1 DEF Freed, Same, Follows

\* What was recorded stays recorded.
LEMMA RecordedFollows ==
  ASSUME NEW b \in ConnRec, NEW r, r.off = b.off, r.old = b.old, NEW f, NEW g, NEW n,
         Recorded(b, f, n), Follows(f, g, {}, {})
  PROVE  Recorded(r, g, n)
  <1>1. b.off \subseteq Sess /\ b.old \subseteq Sess
    BY DEF ConnRec
  <1>2. QED
    BY <1>1 DEF Recorded, Follows

\* A step that leaves the objects alone.
LEMMA FollowsSelf == \A f : Follows(f, f, {}, {})
  BY DEF Follows

-----------------------------------------------------------------------------
(* The steps of a connection that leave the cache alone.                   *)

\* What is shown of each of them: the new record of the connection c fits the
\* objects, and the counts change by what c and the application hold.
LEMMA MoveStep ==
  ASSUME IInv, UNCHANGED <<cache, config, now, setting>>,
         app' \in [Sess -> Nat], conn' \in [Conns -> ConnRec], sess' \in Objects,
         NEW c \in Conns, NEW N \in SUBSET Sess, NEW R \in SUBSET Sess,
         Others({c}, N, R), Follows(sess, sess', N, R), \A s \in N : sess[s].references = 0,
         \A s \in Sess : sess'[s].references
           = sess[s].references - One(conn[c].session, s) - One(conn[c].tmp, s)
             + One(conn'[c].session, s) + One(conn'[c].tmp, s) + (app'[s] - app[s]),
         Control(c, conn'[c]), Ghost(c, conn'[c], sess', now)
  PROVE  IInv'
  <1>1. TypeInv'
    BY DEF IInv, TypeInv, config
  <1>2. ConnOnly(conn, conn', c)
    BY DEF Others, ConnOnly
  <1>3. References'
    <2>1. ASSUME NEW s \in Sess
          PROVE  CacheHeld(cache', s) - CacheHeld(cache, s) = 0
      BY CountType
    <2>2. ASSUME NEW s \in Sess
          PROVE  sess[s].references \in Nat /\ app[s] \in Nat /\ app'[s] \in Nat
      BY ObjectsFields DEF IInv, TypeInv
    <2>3. \A s \in Sess : sess'[s].references
           = sess[s].references - One(conn[c].session, s) - One(conn[c].tmp, s)
             + One(conn'[c].session, s) + One(conn'[c].tmp, s)
             + (CacheHeld(cache', s) - CacheHeld(cache, s)) + (app'[s] - app[s])
      BY <2>1, <2>2, OneType
    <2>4. QED
      BY <1>2, <2>3, RefStep
  <1>4. MovedOK({c})
    BY DEF MovedOK
  <1>5. now' >= now
    BY SessionMgrAssumption DEF IInv, TypeInv
  <1>6. QED
    BY <1>1, <1>3, <1>4, <1>5, PlainStep

\* The same when only c changes.
LEMMA ConnStep ==
  ASSUME IInv, UNCHANGED <<cache, config, app, now, setting>>,
         NEW c \in Conns, NEW r \in ConnRec, Set(c, r),
         sess' \in Objects, Follows(sess, sess', {}, {}),
         \A s \in Sess : sess'[s].references
           = sess[s].references - One(conn[c].session, s) - One(conn[c].tmp, s)
             + One(r.session, s) + One(r.tmp, s),
         Control(c, r), Ghost(c, r, sess', now)
  PROVE  IInv'
  <1>1. conn' \in [Conns -> ConnRec] /\ conn'[c] = r /\ Others({c}, {}, {})
    BY SetConn DEF IInv
  <1>2. app' \in [Sess -> Nat]
    BY DEF IInv, TypeInv
  <1>3. \A s \in Sess : sess[s].references \in Nat /\ app'[s] - app[s] = 0
    BY ObjectsFields DEF IInv, TypeInv
  <1>4. \A s \in Sess : sess'[s].references
           = sess[s].references - One(conn[c].session, s) - One(conn[c].tmp, s)
             + One(conn'[c].session, s) + One(conn'[c].tmp, s) + (app'[s] - app[s])
    BY <1>1, <1>3, OneType
  <1>5. QED
    BY <1>1, <1>2, <1>4, MoveStep

\* SESSMGR_Find takes a reference under the lock.
LEMMA FindBeginKeeps ==
  ASSUME IInv, UNCHANGED setting, NEW c \in Servers, NEW i \in Ids \cup {None}, FindBegin(c, i)
  PROVE  IInv'
  <1> DEFINE s == IF "noLookup" \in mode \/ i = None THEN None ELSE cache[i]
             b == Begin(c)
             r == [b EXCEPT !.pc = "found", !.tmp = s, !.want = i]
  <1>1. c \in Conns /\ c \notin Clients
    BY SessionMgrAssumption DEF Conns
  <1>2. s \in Held
    BY DEF IInv, TypeInv, Held
  <1>3. /\ sess' = Dup(sess, s) /\ Set(c, r) /\ conn[c].pc = "idle"
        /\ UNCHANGED <<cache, config, app, now>>
    BY DEF FindBegin
  <1>4. conn[c].tmp = None
    BY <1>1, <1>3 DEF IInv, ControlInv, Control
  <1>5. /\ b \in ConnRec /\ b.session = conn[c].session /\ b.resume = FALSE
        /\ Recorded(b, sess, now)
    BY <1>1, BeginRec DEF IInv
  <1> HIDE DEF s, b
  <1>6. /\ r.session = conn[c].session /\ r.tmp = s /\ r.pc = "found" /\ r.resume = FALSE
        /\ r.off = b.off /\ r.old = b.old
    BY <1>5 DEF ConnRec
  <1>7. r \in ConnRec
    BY <1>2, <1>5 DEF ConnRec, Places
  <1> HIDE DEF r
  <1>8. sess' \in Objects /\ Dupped(sess, sess', s) /\ Follows(sess, sess', {}, {})
    BY <1>2, <1>3, DupObjects, DuppedFollows DEF IInv, TypeInv
  <1>9. \A t \in Sess : sess'[t].references
          = sess[t].references - One(conn[c].session, t) - One(conn[c].tmp, t)
            + One(r.session, t) + One(r.tmp, t)
    <2>1. \A t \in Sess : One(None, t) = 0 /\ sess[t].references \in Nat
      BY SessionMgrAssumption, ObjectsFields DEF One, IInv, TypeInv
    <2>2. QED
      BY <2>1, <1>4, <1>6, <1>8, OneType DEF Dupped
  <1>10. Control(c, r)
    BY <1>1, <1>6 DEF Control
  <1>11. Ghost(c, r, sess', now)
    <2>1. Recorded(r, sess', now)
      BY <1>5, <1>6, <1>8, RecordedFollows
    <2>2. QED
      BY <2>1, <1>1, <1>6 DEF Ghost
  <1>12. QED
    BY <1>1, <1>3, <1>7, <1>8, <1>9, <1>10, <1>11, ConnStep

\* None is not counted.
LEMMA NoneCount == \A t \in Sess : One(None, t) = 0
  BY SessionMgrAssumption DEF One

\* A connection gives up a session it holds.
LEMMA HeldFree ==
  ASSUME IInv, NEW c \in Conns, NEW a, a = conn[c].session \/ a = conn[c].tmp, NEW g, g = Free(sess, a)
  PROVE  g \in Objects /\ Freed(sess, g, a) /\ Follows(sess, g, {}, {})
  <1>1. sess \in Objects /\ a \in Held
    BY ConnFields DEF IInv, TypeInv
  <1>2. a # None => sess[a].references > 0
    BY InUse DEF IInv
  <1>3. QED
    BY <1>1, <1>2, FreeObjects, FreedFollows

\* The validity check of SESSMGR_Find.
LEMMA FindCheckKeeps ==
  ASSUME IInv, UNCHANGED setting, NEW c \in Servers, FindCheck(c)
  PROVE  IInv'
  <1> DEFINE s == conn[c].tmp
             ok == s # None /\ Valid(s)
             p == IF ~ok /\ setting.external /\ conn[c].want # None THEN "external" ELSE "checked"
             q == IF ok THEN s ELSE None
             r == [conn[c] EXCEPT !.pc = p, !.tmp = q]
  <1>1. c \in Conns /\ c \notin Clients
    BY SessionMgrAssumption DEF Conns
  <1>2. /\ sess' = (IF ok THEN sess ELSE Free(sess, s)) /\ Set(c, r) /\ conn[c].pc = "found"
        /\ UNCHANGED <<cache, config, app, now>>
    BY DEF FindCheck
  <1>3. q \in Held /\ p \in Places /\ (p = "external" => setting.external /\ q = None) /\ p \in {"external", "checked"}
    BY <1>1, ConnFields DEF IInv, Places, Held
  <1>4. q # None => q = s /\ Valid(s)
    OBVIOUS
  <1>5. /\ sess' \in Objects /\ Follows(sess, sess', {}, {})
        /\ \A t \in Sess : sess'[t].references = sess[t].references - One(s, t) + One(q, t)
    <2>1. CASE ok
      <3>1. sess' = sess /\ q = s
        BY <2>1, <1>2
      <3>2. sess \in Objects
        BY DEF IInv, TypeInv
      <3> HIDE DEF s, q, ok
      <3>3. QED
        BY <3>1, <3>2, FollowsSelf, ObjectsFields, OneType
    <2>2. CASE ~ok
      <3>1. sess' = Free(sess, s) /\ q = None
        BY <2>2, <1>2
      <3>2. sess' \in Objects /\ Freed(sess, sess', s) /\ Follows(sess, sess', {}, {})
        BY <3>1, <1>1, HeldFree
      <3> HIDE DEF s, q, ok
      <3>3. QED
        BY <3>1, <3>2, NoneCount, ObjectsFields, OneType DEF Freed, IInv, TypeInv
    <2>3. QED
      BY <2>1, <2>2
  <1> HIDE DEF s, ok, p, q
  <1>6. /\ r.session = conn[c].session /\ r.tmp = q /\ r.pc = p /\ r.resume = conn[c].resume
        /\ r.off = conn[c].off /\ r.old = conn[c].old
    BY <1>1, ConnFields DEF IInv, ConnRec
  <1>7. r \in ConnRec
    BY <1>1, <1>3, ConnFields DEF IInv, ConnRec
  <1> HIDE DEF r
  <1>8. Control(c, conn[c]) /\ Ghost(c, conn[c], sess, now)
    BY <1>1 DEF IInv, ControlInv, GhostInv
  <1>9. Control(c, r)
    BY <1>1, <1>3, <1>6, <1>8 DEF Control
  <1>10. Ghost(c, r, sess', now)
    <2>1. Recorded(r, sess', now)
      BY <1>1, <1>5, <1>6, <1>8, ConnFields, RecordedFollows DEF IInv, Ghost
    <2>2. q # None => Clean(r, q)
      <3>1. q # None => q \in Sess /\ sess[q].enable /\ now < sess[q].start + Timeout
        BY <1>3, <1>4 DEF Valid, Held
      <3>2. q # None => q \notin conn[c].off /\ q \notin conn[c].old
        <4>1. q # None => now \in Nat /\ sess[q].start \in Nat /\ Timeout \in Nat
          BY <3>1, SessionMgrAssumption, ObjectsFields DEF IInv, TypeInv
        <4>2. QED
          BY <3>1, <4>1, <1>8 DEF Ghost, Recorded
      <3>3. QED
        BY <3>2, <1>6 DEF Clean
    <2>3. r.resume => Clean(r, r.session)
      BY <1>6, <1>8 DEF Ghost, Clean
    <2>4. QED
      BY <2>1, <2>2, <2>3, <1>1, <1>3, <1>6 DEF Ghost
  <1>11. \A t \in Sess : sess'[t].references
          = sess[t].references - One(conn[c].session, t) - One(conn[c].tmp, t)
            + One(r.session, t) + One(r.tmp, t)
    BY <1>5, <1>6, OneType, ObjectsFields DEF s, IInv, TypeInv
  <1>12. QED
    BY <1>1, <1>2, <1>5, <1>7, <1>9, <1>10, <1>11, ConnStep

\* ServerCheckResume resumes the session it found.
LEMMA CheckResumeAcceptKeeps ==
  ASSUME IInv, UNCHANGED setting, NEW c \in Servers, CheckResumeAccept(c)
  PROVE  IInv'
  <1> DEFINE r == [conn[c] EXCEPT !.pc = "hello", !.session = conn[c].tmp, !.tmp = None,
                                  !.want = None, !.resume = TRUE]
  <1>1. c \in Conns /\ c \notin Clients
    BY SessionMgrAssumption DEF Conns
  <1>2. /\ sess' = Free(sess, conn[c].session) /\ Set(c, r) /\ conn[c].pc = "checked" /\ conn[c].tmp # None
        /\ UNCHANGED <<cache, config, app, now>>
    BY DEF CheckResumeAccept
  <1>3. /\ sess' \in Objects /\ Freed(sess, sess', conn[c].session) /\ Follows(sess, sess', {}, {})
    BY <1>1, <1>2, HeldFree
  <1>4. /\ r.session = conn[c].tmp /\ r.tmp = None /\ r.pc = "hello" /\ r.resume = TRUE
        /\ r.off = conn[c].off /\ r.old = conn[c].old
    BY <1>1, ConnFields DEF IInv, ConnRec
  <1>5. r \in ConnRec
    BY <1>1, ConnFields DEF IInv, ConnRec, Places, Held
  <1> HIDE DEF r
  <1>6. Control(c, conn[c]) /\ Ghost(c, conn[c], sess, now)
    BY <1>1 DEF IInv, ControlInv, GhostInv
  <1>7. Control(c, r)
    BY <1>1, <1>2, <1>4, <1>6 DEF Control
  <1>8. Ghost(c, r, sess', now)
    <2>1. Recorded(r, sess', now)
      BY <1>1, <1>3, <1>4, <1>6, ConnFields, RecordedFollows DEF IInv, Ghost
    <2>2. Clean(r, r.session)
      BY <1>2, <1>4, <1>6 DEF Ghost, Clean
    <2>3. QED
      BY <2>1, <2>2, <1>4 DEF Ghost
  <1>9. \A t \in Sess : sess'[t].references
          = sess[t].references - One(conn[c].session, t) - One(conn[c].tmp, t)
            + One(r.session, t) + One(r.tmp, t)
    BY <1>3, <1>4, NoneCount, OneType, ObjectsFields DEF Freed, IInv, TypeInv
  <1>10. QED
    BY <1>1, <1>2, <1>3, <1>5, <1>7, <1>8, <1>9, ConnStep

\* ServerCheckResume gives the session back and goes on with a full handshake.
LEMMA CheckResumeFullKeeps ==
  ASSUME IInv, UNCHANGED setting, NEW c \in Servers, CheckResumeFull(c)
  PROVE  IInv'
  <1>1. c \in Conns /\ c \notin Clients
    BY SessionMgrAssumption DEF Conns
  <1>2. PICK i \in IF "server" \in mode THEN FreshIds ELSE {None} :
          Set(c, [conn[c] EXCEPT !.pc = "hello", !.tmp = None, !.want = None, !.id = i])
    BY DEF CheckResumeFull
  <1> DEFINE r == [conn[c] EXCEPT !.pc = "hello", !.tmp = None, !.want = None, !.id = i]
  <1>3. /\ sess' = Free(sess, conn[c].tmp) /\ conn[c].pc = "checked"
        /\ UNCHANGED <<cache, config, app, now>> /\ i \in Ids \cup {None}
    BY DEF CheckResumeFull, FreshIds
  <1>4. /\ sess' \in Objects /\ Freed(sess, sess', conn[c].tmp) /\ Follows(sess, sess', {}, {})
    BY <1>1, <1>3, HeldFree
  <1>5. /\ r.session = conn[c].session /\ r.tmp = None /\ r.pc = "hello" /\ r.resume = conn[c].resume
        /\ r.off = conn[c].off /\ r.old = conn[c].old
    BY <1>1, ConnFields DEF IInv, ConnRec
  <1>6. r \in ConnRec
    BY <1>1, <1>3, ConnFields, ZenonT(60) DEF IInv, ConnRec, Places, Held
  <1>7. Set(c, r)
    BY <1>2
  <1> HIDE DEF r
  <1>8. Control(c, conn[c]) /\ Ghost(c, conn[c], sess, now)
    BY <1>1 DEF IInv, ControlInv, GhostInv
  <1>9. Control(c, r)
    BY <1>1, <1>5, <1>8 DEF Control
  <1>10. Ghost(c, r, sess', now)
    <2>1. Recorded(r, sess', now)
      BY <1>1, <1>4, <1>5, <1>8, ConnFields, RecordedFollows DEF IInv, Ghost
    <2>2. r.resume => Clean(r, r.session)
      BY <1>5, <1>8 DEF Ghost, Clean
    <2>3. QED
      BY <2>1, <2>2, <1>5 DEF Ghost
  <1>11. \A t \in Sess : sess'[t].references
          = sess[t].references - One(conn[c].session, t) - One(conn[c].tmp, t)
            + One(r.session, t) + One(r.tmp, t)
    BY <1>4, <1>5, NoneCount, OneType, ObjectsFields DEF Freed, IInv, TypeInv
  <1>12. QED
    BY <1>1, <1>3, <1>4, <1>6, <1>7, <1>9, <1>10, <1>11, ConnStep

\* A connection that is at rest: reset, alerted or closed.
AtRest(r) == /\ r \in ConnRec /\ r.tmp = None /\ r.resume = FALSE /\ r.off = {} /\ r.old = {}
             /\ r.pc \in {"idle", "alerted", "closed"}

\* A connection at rest has nothing to keep to.
LEMMA RestFits ==
  ASSUME NEW r, AtRest(r), NEW c, NEW f, NEW n
  PROVE  Control(c, r) /\ Ghost(c, r, f, n)
  BY DEF AtRest, Control, Ghost, Recorded

\* A new connection is at rest.
LEMMA NewConnRest == AtRest(NewConn) /\ NewConn.session = None
  BY DEF AtRest, NewConn, ConnRec, Places, Held

\* So is one that has ended with an alert.
LEMMA AlertedRest ==
  ASSUME NEW q, q.session \in Held, NEW r, r = Alerted(q)
  PROVE  AtRest(r) /\ r.session = q.session
  BY NewConnRest DEF AtRest, NewConn, ConnRec, Places, Held, Alerted

\* A connection comes to rest and keeps its session or gives it up.
LEMMA RestStep ==
  ASSUME IInv, UNCHANGED <<cache, config, app, now, setting>>,
         NEW c \in Conns, conn[c].tmp = None, NEW r, AtRest(r), Set(c, r),
         sess' \in Objects, Follows(sess, sess', {}, {}),
         \A s \in Sess : sess'[s].references
           = sess[s].references - One(conn[c].session, s) + One(r.session, s)
  PROVE  IInv'
  <1>1. r \in ConnRec /\ r.tmp = None
    BY DEF AtRest
  <1>2. Control(c, r) /\ Ghost(c, r, sess', now)
    BY RestFits
  <1>3. \A s \in Sess : sess'[s].references
          = sess[s].references - One(conn[c].session, s) - One(conn[c].tmp, s)
            + One(r.session, s) + One(r.tmp, s)
    BY <1>1, NoneCount, OneType, ObjectsFields DEF IInv, TypeInv
  <1>4. QED
    BY <1>1, <1>2, <1>3, ConnStep

\* Disabling changes no count.
LEMMA DisabledFollows ==
  ASSUME NEW f, NEW g, NEW a, Disabled(f, g, a)
  PROVE  Follows(f, g, {}, {})
  BY DEF Disabled, Follows

\* ServerCheckResume fails: the session found is given back, and that of the
\* connection is disabled.
LEMMA CheckResumeFailKeeps ==
  ASSUME IInv, UNCHANGED setting, NEW c \in Servers, CheckResumeFail(c)
  PROVE  IInv'
  <1> DEFINE e == Free(sess, conn[c].tmp)
             r == Alerted(conn[c])
  <1>1. c \in Conns /\ c \notin Clients
    BY SessionMgrAssumption DEF Conns
  <1>2. /\ sess' = Disable(e, conn[c].session) /\ Set(c, r)
        /\ UNCHANGED <<cache, config, app, now>>
    BY DEF CheckResumeFail
  <1>3. /\ e \in Objects /\ Freed(sess, e, conn[c].tmp) /\ Follows(sess, e, {}, {})
    BY <1>1, HeldFree
  <1>4. conn[c].session \in Held
    BY <1>1, ConnFields DEF IInv
  <1>5. AtRest(r) /\ r.session = conn[c].session
    BY <1>4, AlertedRest
  <1> HIDE DEF e, r
  <1>6. conn[c].session # None => e[conn[c].session].references > 0
    <2> DEFINE s == conn[c].session
    <2> HIDE DEF s
    <2>1. CASE s # None
      <3>1. s \in Sess
        BY <2>1, <1>4 DEF Held, s
      <3>2. sess[s].references >= One(s, s) + One(conn[c].tmp, s) + app[s]
        BY <3>1, <1>1, ConnHolds DEF IInv, s
      <3>3. app[s] \in Nat /\ sess[s].references \in Nat
        BY <3>1, ObjectsFields DEF IInv, TypeInv
      <3>4. QED
        BY <3>1, <3>2, <3>3, <1>3, OneType DEF Freed, s
    <2>2. QED
      BY <2>1 DEF s
  <1>7. sess' \in Objects /\ Disabled(e, sess', conn[c].session)
    BY <1>2, <1>3, <1>4, <1>6, DisableObjects
  <1>8. Follows(sess, sess', {}, {})
    BY <1>3, <1>7 DEF Follows, Disabled
  <1>9. \A t \in Sess : sess'[t].references
          = sess[t].references - One(conn[c].session, t) - One(conn[c].tmp, t)
            + One(r.session, t) + One(r.tmp, t)
    <2>1. r.tmp = None
      BY <1>5 DEF AtRest
    <2>2. QED
      BY <2>1, <1>3, <1>5, <1>7, NoneCount, OneType, ObjectsFields DEF Freed, Disabled, IInv, TypeInv
  <1>10. Control(c, r) /\ Ghost(c, r, sess', now) /\ r \in ConnRec
    BY <1>5, RestFits DEF AtRest
  <1>11. QED
    BY <1>1, <1>2, <1>7, <1>8, <1>9, <1>10, ConnStep

\* Where a connection may be given a fatal alert, a reset or an end, it is not
\* looking up a session.
LEMMA WaitingTmp ==
  ASSUME IInv, NEW c \in Conns,
         Waiting(c) \/ Ended(c) \/ conn[c].pc \in {"open", "finish", "saved", "idle"}
  PROVE  conn[c].tmp = None
  <1>1. Control(c, conn[c])
    BY DEF IInv, ControlInv
  <1>2. QED
    BY <1>1 DEF Control, Waiting, Ended

\* A fatal alert disables the session of the connection.
LEMMA FatalAlertKeeps ==
  ASSUME IInv, UNCHANGED setting, NEW c \in Conns, FatalAlert(c)
  PROVE  IInv'
  <1> DEFINE r == Alerted(conn[c])
  <1>1. /\ sess' = Disable(sess, conn[c].session) /\ Set(c, r) /\ conn[c].tmp = None
        /\ UNCHANGED <<cache, config, app, now>>
    BY WaitingTmp DEF FatalAlert
  <1>2. conn[c].session \in Held /\ (conn[c].session # None => sess[conn[c].session].references > 0)
    BY ConnFields, InUse DEF IInv
  <1>3. AtRest(r) /\ r.session = conn[c].session
    BY <1>2, AlertedRest
  <1> HIDE DEF r
  <1>4. sess' \in Objects /\ Disabled(sess, sess', conn[c].session)
    BY <1>1, <1>2, DisableObjects DEF IInv, TypeInv
  <1>5. Follows(sess, sess', {}, {})
    BY <1>4, DisabledFollows
  <1>6. \A s \in Sess : sess'[s].references
          = sess[s].references - One(conn[c].session, s) + One(r.session, s)
    BY <1>3, <1>4, OneType, ObjectsFields DEF Disabled, IInv, TypeInv
  <1>7. QED
    BY <1>1, <1>3, <1>4, <1>5, <1>6, RestStep

\* HITLS_Close keeps the session.
LEMMA CloseKeeps ==
  ASSUME IInv, UNCHANGED setting, NEW c \in Conns, NEW sent \in BOOLEAN, Close(c, sent)
  PROVE  IInv'
  <1> DEFINE r == [NewConn EXCEPT !.pc = "closed", !.session = conn[c].session, !.sent = sent]
  <1>1. /\ UNCHANGED sess /\ Set(c, r) /\ conn[c].tmp = None
        /\ UNCHANGED <<cache, config, app, now>>
    BY WaitingTmp DEF Close
  <1>2. conn[c].session \in Held
    BY ConnFields DEF IInv
  <1>3. AtRest(r) /\ r.session = conn[c].session
    BY <1>2 DEF AtRest, NewConn, ConnRec, Places, Held
  <1> HIDE DEF r
  <1>4. sess' \in Objects /\ Follows(sess, sess', {}, {})
    BY <1>1, FollowsSelf DEF IInv, TypeInv
  <1>5. \A s \in Sess : sess'[s].references
          = sess[s].references - One(conn[c].session, s) + One(r.session, s)
    BY <1>1, <1>3, OneType, ObjectsFields DEF IInv, TypeInv
  <1>6. QED
    BY <1>1, <1>3, <1>4, <1>5, RestStep

\* HITLS_Free, and the end of a handshake that cannot allocate its session.
LEMMA GiveUpKeeps ==
  ASSUME IInv, UNCHANGED setting, NEW c \in Conns, conn[c].tmp = None, NEW r, AtRest(r), r.session = None,
         Set(c, r), sess' = Free(sess, conn[c].session), UNCHANGED <<cache, config, app, now>>
  PROVE  IInv'
  <1>1. /\ sess' \in Objects /\ Freed(sess, sess', conn[c].session) /\ Follows(sess, sess', {}, {})
    BY HeldFree
  <1>2. \A s \in Sess : sess'[s].references
          = sess[s].references - One(conn[c].session, s) + One(r.session, s)
    BY <1>1, NoneCount, OneType, ObjectsFields DEF Freed, IInv, TypeInv
  <1>3. QED
    BY <1>1, <1>2, RestStep

\* HITLS_Free.
LEMMA HITLS_FreeKeeps ==
  ASSUME IInv, UNCHANGED setting, NEW c \in Conns, HITLS_Free(c)
  PROVE  IInv'
  <1>1. /\ sess' = Free(sess, conn[c].session) /\ Set(c, NewConn) /\ conn[c].tmp = None
        /\ UNCHANGED <<cache, config, app, now>>
    BY WaitingTmp DEF HITLS_Free
  <1>2. QED
    BY <1>1, NewConnRest, GiveUpKeeps

\* HsSetSessionInfo without memory.
LEMMA FinishedFailsKeeps ==
  ASSUME IInv, UNCHANGED setting, NEW c \in Conns, FinishedFails(c)
  PROVE  IInv'
  <1> DEFINE r == [Alerted(conn[c]) EXCEPT !.session = None]
  <1>1. /\ sess' = Free(sess, conn[c].session) /\ Set(c, r) /\ conn[c].tmp = None
        /\ UNCHANGED <<cache, config, app, now>>
    BY WaitingTmp DEF FinishedFails
  <1>2. AtRest(r) /\ r.session = None
    BY DEF AtRest, Alerted, NewConn, ConnRec, Places, Held
  <1> HIDE DEF r
  <1>3. QED
    BY <1>1, <1>2, GiveUpKeeps

\* ServerCheckResumeParam gives the resumed session up.
LEMMA CheckResumeParamKeeps ==
  ASSUME IInv, UNCHANGED setting, NEW c \in Servers, CheckResumeParam(c)
  PROVE  IInv'
  <1>1. c \in Conns /\ c \notin Clients
    BY SessionMgrAssumption DEF Conns
  <1>2. PICK i \in IF "server" \in mode THEN FreshIds ELSE {None} :
          Set(c, [conn[c] EXCEPT !.session = None, !.resume = FALSE, !.id = i])
    BY DEF CheckResumeParam
  <1> DEFINE r == [conn[c] EXCEPT !.session = None, !.resume = FALSE, !.id = i]
  <1>3. /\ sess' = Free(sess, conn[c].session) /\ conn[c].pc = "hello"
        /\ UNCHANGED <<cache, config, app, now>> /\ i \in Ids \cup {None}
    BY DEF CheckResumeParam, FreshIds
  <1>4. /\ sess' \in Objects /\ Freed(sess, sess', conn[c].session) /\ Follows(sess, sess', {}, {})
    BY <1>1, <1>3, HeldFree
  <1>5. /\ r.session = None /\ r.tmp = conn[c].tmp /\ r.pc = "hello" /\ r.resume = FALSE
        /\ r.off = conn[c].off /\ r.old = conn[c].old
    BY <1>1, <1>3, ConnFields DEF IInv, ConnRec
  <1>6. r \in ConnRec
    BY <1>1, <1>3, ConnFields DEF IInv, ConnRec, Held
  <1>7. Set(c, r)
    BY <1>2
  <1> HIDE DEF r
  <1>8. Control(c, conn[c]) /\ Ghost(c, conn[c], sess, now)
    BY <1>1 DEF IInv, ControlInv, GhostInv
  <1>9. Control(c, r)
    BY <1>1, <1>3, <1>5, <1>8 DEF Control
  <1>10. Ghost(c, r, sess', now)
    <2>1. Recorded(r, sess', now)
      BY <1>1, <1>4, <1>5, <1>8, ConnFields, RecordedFollows DEF IInv, Ghost
    <2>2. QED
      BY <2>1, <1>5 DEF Ghost
  <1>11. \A t \in Sess : sess'[t].references
          = sess[t].references - One(conn[c].session, t) - One(conn[c].tmp, t)
            + One(r.session, t) + One(r.tmp, t)
    BY <1>4, <1>5, NoneCount, OneType, ObjectsFields DEF Freed, IInv, TypeInv
  <1>12. QED
    BY <1>1, <1>3, <1>4, <1>6, <1>7, <1>9, <1>10, <1>11, ConnStep

\* ClientPrepareSession offers a session that is valid now, or none.
LEMMA ClientPrepareKeeps ==
  ASSUME IInv, UNCHANGED setting, NEW c \in Clients, ClientPrepareSession(c)
  PROVE  IInv'
  <1> DEFINE s == conn[c].session
             b == Begin(c)
             r1 == [b EXCEPT !.pc = "checked", !.session = None]
             r2 == [b EXCEPT !.pc = "checked"]
  <1>1. c \in Conns
    BY DEF Conns
  <1>2. /\ conn[c].pc = "idle" /\ UNCHANGED <<cache, config, app, now>>
        /\ \/ sess' = Free(sess, s) /\ Set(c, r1)
           \/ s # None /\ Valid(s) /\ Set(c, r2) /\ UNCHANGED sess
    BY DEF ClientPrepareSession
  <1>3. conn[c].tmp = None
    BY <1>1, <1>2, WaitingTmp
  <1>4. b \in ConnRec /\ b.session = s /\ b.tmp = None /\ b.resume = FALSE /\ Recorded(b, sess, now)
    BY <1>1, <1>3, BeginRec DEF IInv
  <1>5. s \in Held
    BY <1>1, ConnFields DEF IInv
  <1> HIDE DEF b
  <1>6. /\ r1.session = None /\ r1.tmp = None /\ r1.pc = "checked" /\ r1.resume = FALSE
        /\ r1.off = b.off /\ r1.old = b.old
    BY <1>4 DEF ConnRec
  <1>7. r1 \in ConnRec
    BY <1>4, ZenonT(60) DEF ConnRec, Places, Held
  <1>8. /\ r2.session = s /\ r2.tmp = None /\ r2.pc = "checked" /\ r2.resume = FALSE
        /\ r2.off = b.off /\ r2.old = b.old
    BY <1>4 DEF ConnRec
  <1>9. r2 \in ConnRec
    BY <1>4 DEF ConnRec, Places, Held
  <1> HIDE DEF r1, r2
  <1>10. CASE sess' = Free(sess, s) /\ Set(c, r1)
    <2>1. /\ sess' \in Objects /\ Freed(sess, sess', s) /\ Follows(sess, sess', {}, {})
      BY <1>1, <1>10, HeldFree
    <2>2. Control(c, r1)
      BY <1>6 DEF Control
    <2>3. Recorded(r1, sess', now)
      BY <1>4, <1>6, <2>1, RecordedFollows
    <2>4. Ghost(c, r1, sess', now)
      BY <1>6, <2>3 DEF Ghost
    <2>5. \A t \in Sess : sess'[t].references
            = sess[t].references - One(conn[c].session, t) - One(conn[c].tmp, t)
              + One(r1.session, t) + One(r1.tmp, t)
      BY <1>3, <1>6, <2>1, NoneCount, OneType, ObjectsFields DEF Freed, IInv, TypeInv
    <2>6. QED
      BY <1>1, <1>2, <1>7, <1>10, <2>1, <2>2, <2>4, <2>5, ConnStep
  <1>11. CASE s # None /\ Valid(s) /\ Set(c, r2) /\ UNCHANGED sess
    <2>1. sess' \in Objects /\ Follows(sess, sess', {}, {})
      BY <1>11, FollowsSelf DEF IInv, TypeInv
    <2>2. Control(c, r2)
      BY <1>8 DEF Control
    <2>3. Recorded(r2, sess', now)
      BY <1>4, <1>8, <2>1, RecordedFollows
    <2>4. Clean(r2, s)
      <3>1. s \in Sess /\ sess[s].enable /\ now < sess[s].start + Timeout
        BY <1>5, <1>11 DEF Valid, Held
      <3>2. now \in Nat /\ sess[s].start \in Nat /\ Timeout \in Nat
        BY <3>1, SessionMgrAssumption, ObjectsFields DEF IInv, TypeInv
      <3>3. s \notin b.off /\ s \notin b.old
        BY <3>1, <3>2, <1>4 DEF Recorded
      <3>4. QED
        BY <3>3, <1>8 DEF Clean
    <2>5. Ghost(c, r2, sess', now)
      BY <1>8, <2>3, <2>4 DEF Ghost
    <2>6. \A t \in Sess : sess'[t].references
            = sess[t].references - One(conn[c].session, t) - One(conn[c].tmp, t)
              + One(r2.session, t) + One(r2.tmp, t)
      BY <1>3, <1>8, <1>11, NoneCount, OneType, ObjectsFields DEF IInv, TypeInv
    <2>7. QED
      BY <1>1, <1>2, <1>9, <1>11, <2>1, <2>2, <2>5, <2>6, ConnStep
  <1>12. QED
    BY <1>2, <1>10, <1>11

\* ClientCheckIfResumeFromSession.
LEMMA ClientResumeKeeps ==
  ASSUME IInv, UNCHANGED setting, NEW c \in Clients, NEW i \in Ids \cup {None}, ClientCheckIfResume(c, i)
  PROVE  IInv'
  <1> DEFINE s == conn[c].session
             q == s # None /\ i # None /\ sess[s].id = i
             r == [conn[c] EXCEPT !.pc = "hello", !.id = i, !.resume = q]
  <1>1. c \in Conns
    BY DEF Conns
  <1>2. conn[c].pc = "checked" /\ UNCHANGED <<sess, cache, config, app, now>> /\ Set(c, r)
    BY DEF ClientCheckIfResume
  <1>3. q \in BOOLEAN /\ (q => s # None)
    OBVIOUS
  <1> HIDE DEF q
  <1>4. /\ r.session = s /\ r.tmp = conn[c].tmp /\ r.pc = "hello" /\ r.resume = q
        /\ r.off = conn[c].off /\ r.old = conn[c].old
    BY <1>1, ConnFields DEF IInv, ConnRec
  <1>5. r \in ConnRec
    BY <1>1, <1>3, ConnFields DEF IInv, ConnRec, Places
  <1> HIDE DEF r
  <1>6. Control(c, conn[c]) /\ Ghost(c, conn[c], sess, now)
    BY <1>1 DEF IInv, ControlInv, GhostInv
  <1>7. Control(c, r)
    BY <1>3, <1>4, <1>6 DEF Control
  <1>8. sess' \in Objects /\ Follows(sess, sess', {}, {})
    BY <1>2, FollowsSelf DEF IInv, TypeInv
  <1>9. Ghost(c, r, sess', now)
    <2>1. Recorded(r, sess', now)
      BY <1>1, <1>4, <1>6, <1>8, ConnFields, RecordedFollows DEF IInv, Ghost
    <2>2. r.resume => Clean(r, r.session)
      BY <1>2, <1>3, <1>4, <1>6 DEF Ghost, Clean
    <2>3. QED
      BY <2>1, <2>2, <1>4 DEF Ghost
  <1>10. \A t \in Sess : sess'[t].references
          = sess[t].references - One(conn[c].session, t) - One(conn[c].tmp, t)
            + One(r.session, t) + One(r.tmp, t)
    BY <1>2, <1>4, OneType, ObjectsFields DEF IInv, TypeInv
  <1>11. QED
    BY <1>1, <1>2, <1>5, <1>7, <1>8, <1>9, <1>10, ConnStep

-----------------------------------------------------------------------------
(* The steps that allocate a session or set its start time.                *)

\* k is g without a trace of N, and without N and R among those timed out.
Without(g, k, N, R) == \A d \in Conns :
  /\ k[d].pc = g[d].pc /\ k[d].session = g[d].session /\ k[d].tmp = g[d].tmp /\ k[d].resume = g[d].resume
  /\ k[d].off = g[d].off \ N /\ k[d].old = g[d].old \ (N \cup R)

\* Forget changes only what was recorded.
LEMMA ForgetConns ==
  ASSUME NEW g \in [Conns -> ConnRec], NEW s, NEW k, k = Forget(g, s)
  PROVE  k \in [Conns -> ConnRec] /\ Without(g, k, {s}, {})
  <1>1. ASSUME NEW d \in Conns
        PROVE  /\ k[d] \in ConnRec
               /\ k[d].pc = g[d].pc /\ k[d].session = g[d].session /\ k[d].tmp = g[d].tmp
               /\ k[d].resume = g[d].resume /\ k[d].off = g[d].off \ {s} /\ k[d].old = g[d].old \ {s}
    <2> DEFINE off == g[d].off \ {s}
               old == g[d].old \ {s}
    <2>1. k[d] = [g[d] EXCEPT !.off = off, !.old = old]
      BY DEF Forget
    <2>2. g[d] \in ConnRec
      OBVIOUS
    <2>3. off \in SUBSET Sess /\ old \in SUBSET Sess
      BY <2>2 DEF ConnRec
    <2> HIDE DEF off, old
    <2>4. k[d] \in ConnRec
      BY <2>1, <2>2, <2>3 DEF ConnRec
    <2>5. /\ k[d].pc = g[d].pc /\ k[d].session = g[d].session /\ k[d].tmp = g[d].tmp
          /\ k[d].resume = g[d].resume /\ k[d].off = off /\ k[d].old = old
      BY <2>1, <2>2 DEF ConnRec
    <2>6. QED
      BY <2>4, <2>5 DEF off, old
  <1>2. k = [d \in Conns |-> k[d]]
    BY DEF Forget
  <1>3. QED
    BY <1>1, <1>2 DEF Without

\* So does Renew.
LEMMA RenewConns ==
  ASSUME NEW g \in [Conns -> ConnRec], NEW s, NEW k, k = Renew(g, s)
  PROVE  k \in [Conns -> ConnRec] /\ Without(g, k, {}, {s})
  <1>1. ASSUME NEW d \in Conns
        PROVE  /\ k[d] \in ConnRec
               /\ k[d].pc = g[d].pc /\ k[d].session = g[d].session /\ k[d].tmp = g[d].tmp
               /\ k[d].resume = g[d].resume /\ k[d].off = g[d].off /\ k[d].old = g[d].old \ {s}
    <2> DEFINE old == g[d].old \ {s}
    <2>1. k[d] = [g[d] EXCEPT !.old = old]
      BY DEF Renew
    <2>2. g[d] \in ConnRec
      OBVIOUS
    <2>3. old \in SUBSET Sess
      BY <2>2 DEF ConnRec
    <2> HIDE DEF old
    <2>4. k[d] \in ConnRec
      BY <2>1, <2>2, <2>3 DEF ConnRec
    <2>5. /\ k[d].pc = g[d].pc /\ k[d].session = g[d].session /\ k[d].tmp = g[d].tmp
          /\ k[d].resume = g[d].resume /\ k[d].off = g[d].off /\ k[d].old = old
      BY <2>1, <2>2 DEF ConnRec
    <2>6. QED
      BY <2>4, <2>5 DEF old
  <1>2. k = [d \in Conns |-> k[d]]
    BY DEF Renew
  <1>3. QED
    BY <1>1, <1>2 DEF Without

Becomes(c, r, N, R) ==
  /\ conn'[c].pc = r.pc /\ conn'[c].session = r.session /\ conn'[c].tmp = r.tmp
  /\ conn'[c].resume = r.resume
  /\ conn'[c].off = r.off \ N /\ conn'[c].old = r.old \ (N \cup R)

SetAt(c, r) == [conn EXCEPT ![c] = r]

\* The connection c becomes r, and then N and R are dropped from the records.
LEMMA WithoutConn ==
  ASSUME TypeInv, NEW c \in Conns, NEW r \in ConnRec, NEW g, g = SetAt(c, r),
         NEW N, NEW R, Without(g, conn', N, R)
  PROVE  Others({c}, N, R) /\ Becomes(c, r, N, R)
  <1>1. g[c] = r /\ (\A d \in Conns : d # c => g[d] = conn[d])
    BY DEF TypeInv, SetAt
  <1>2. QED
    BY <1>1 DEF Without, Others, Becomes

\* What was recorded stays recorded but for N and R.
LEMMA RecordedWithout ==
  ASSUME NEW b \in ConnRec, NEW r, NEW N, NEW R, r.off = b.off \ N, r.old = b.old \ (N \cup R),
         NEW f, NEW g, NEW n, Recorded(b, f, n), Follows(f, g, N, R)
  PROVE  Recorded(r, g, n)
  <1>1. b.off \subseteq Sess /\ b.old \subseteq Sess
    BY DEF ConnRec
  <1>2. QED
    BY <1>1 DEF Recorded, Follows

\* SESSMGR_InsertSession sets the start time after it has let go of the lock.
LEMMA FindTouchKeeps ==
  ASSUME IInv, UNCHANGED setting, NEW c \in Servers, FindTouch(c)
  PROVE  IInv'
  <1> DEFINE s == conn[c].tmp
             r == [conn[c] EXCEPT !.pc = "checked"]
             g == [conn EXCEPT ![c] = r]
  <1>1. c \in Conns /\ c \notin Clients
    BY SessionMgrAssumption DEF Conns
  <1>2. /\ sess' = Touch(sess, s, now) /\ conn' = Renew(g, s) /\ conn[c].pc = "touch"
        /\ UNCHANGED <<cache, config, app, now>>
    BY DEF FindTouch, Touch
  <1>3. s \in Sess /\ sess[s].references > 0
    BY <1>1, <1>2, ConnFields, InUse DEF IInv, ControlInv, Control, Held
  <1>4. /\ r.session = conn[c].session /\ r.tmp = s /\ r.pc = "checked" /\ r.resume = conn[c].resume
        /\ r.off = conn[c].off /\ r.old = conn[c].old
    BY <1>1, ConnFields DEF IInv, ConnRec
  <1>5. r \in ConnRec
    BY <1>1, ConnFields DEF IInv, ConnRec, Places
  <1> HIDE DEF r
  <1>6. g \in [Conns -> ConnRec] /\ g = SetAt(c, r)
    BY <1>5 DEF IInv, TypeInv, SetAt
  <1> HIDE DEF g
  <1>7. conn' \in [Conns -> ConnRec] /\ Without(g, conn', {}, {s})
    BY <1>2, <1>6, RenewConns
  <1>17. Others({c}, {}, {s}) /\ Becomes(c, r, {}, {s})
    BY <1>1, <1>5, <1>6, <1>7, WithoutConn DEF IInv
  <1>8. /\ Others({c}, {}, {s})
        /\ conn'[c].pc = r.pc /\ conn'[c].session = r.session /\ conn'[c].tmp = r.tmp
        /\ conn'[c].resume = r.resume
        /\ conn'[c].off = r.off \ {} /\ conn'[c].old = r.old \ ({} \cup {s})
    BY <1>17 DEF Becomes
  <1>9. sess' \in Objects /\ Touched(sess, sess', s, now)
    BY <1>2, <1>3, TouchObjects DEF IInv, TypeInv
  <1>10. Follows(sess, sess', {}, {s})
    BY <1>9 DEF Touched, Follows
  <1>11. Control(c, conn[c]) /\ Ghost(c, conn[c], sess, now)
    BY <1>1 DEF IInv, ControlInv, GhostInv
  <1>12. Control(c, conn'[c])
    BY <1>1, <1>2, <1>3, <1>4, <1>8, <1>11 DEF Control
  <1>13. Ghost(c, conn'[c], sess', now)
    <2>1. Recorded(conn[c], sess, now) /\ conn[c] \in ConnRec
      BY <1>1, <1>11, ConnFields DEF Ghost, IInv
    <2>2. Recorded(conn'[c], sess', now)
      BY <2>1, <1>4, <1>8, <1>10, RecordedWithout
    <2>3. /\ conn'[c].tmp # None => Clean(conn'[c], conn'[c].tmp)
          /\ conn'[c].resume => Clean(conn'[c], conn'[c].session)
      BY <1>2, <1>4, <1>8, <1>11 DEF Ghost, Clean
    <2>4. QED
      BY <2>2, <2>3, <1>1, <1>4, <1>8 DEF Ghost
  <1>14. \A t \in Sess : sess'[t].references
          = sess[t].references - One(conn[c].session, t) - One(conn[c].tmp, t)
            + One(conn'[c].session, t) + One(conn'[c].tmp, t) + (app'[t] - app[t])
    BY <1>2, <1>4, <1>8, <1>9, OneType, ObjectsFields DEF Touched, IInv, TypeInv
  <1>15. app' \in [Sess -> Nat]
    BY <1>2 DEF IInv, TypeInv
  <1>16. QED
    BY <1>1, <1>2, <1>3, <1>7, <1>8, <1>9, <1>10, <1>12, <1>13, <1>14, <1>15, MoveStep

\* g are the objects with s in the place of the session of the connection c.
InPlace(c, g, s) ==
  /\ g \in Objects /\ Follows(sess, g, {s}, {})
  /\ \A t \in Sess : g[t].references = sess[t].references - One(conn[c].session, t) + One(s, t)

\* A new session takes the place of the one that the connection held.
LEMMA NewInPlace ==
  ASSUME IInv, NEW c \in Conns, NEW s \in Sess, sess[s].references = 0, NEW i \in Ids \cup {None},
         NEW st \in 0..MaxTime, NEW g, g = New(Free(sess, conn[c].session), s, i, st)
  PROVE  InPlace(c, g, s) /\ g[s].id = i /\ ~g[s].left
  <1> DEFINE e == Free(sess, conn[c].session)
  <1>1. e \in Objects /\ Freed(sess, e, conn[c].session) /\ Follows(sess, e, {}, {})
    BY HeldFree
  <1>2. conn[c].session # s
    BY InUse, SessionMgrAssumption DEF IInv
  <1>3. One(conn[c].session, s) = 0
    BY <1>2 DEF One
  <1> HIDE DEF e
  <1>4. e[s].references = 0
    BY <1>1, <1>3 DEF Freed
  <1>5. g \in Objects /\ Created(e, g, s, i, st)
    BY <1>1, <1>4, NewObjects DEF e
  <1>6. Follows(sess, g, {s}, {})
    BY <1>1, <1>5 DEF Follows, Created
  <1>7. QED
    BY <1>1, <1>5, <1>6 DEF InPlace, Created, Freed

\* A session of a ticket.
LEMMA CheckResumeTicketKeeps ==
  ASSUME IInv, UNCHANGED setting, NEW c \in Servers, NEW s \in Sess, NEW i \in Ids \cup {None},
         NEW st \in 0..MaxTime, CheckResumeTicket(c, s, i, st)
  PROVE  IInv'
  <1> DEFINE b == Begin(c)
             r == [b EXCEPT !.pc = "hello", !.session = s, !.resume = TRUE]
             q == [b EXCEPT !.pc = "hello"]
             g == SetAt(c, r)
  <1>1. c \in Conns /\ c \notin Clients
    BY SessionMgrAssumption DEF Conns
  <1>2. conn[c].pc = "idle" /\ sess[s].references = 0 /\ UNCHANGED <<cache, config, app, now>>
    BY DEF CheckResumeTicket, Unused
  <1>3. conn[c].tmp = None
    BY <1>1, <1>2, WaitingTmp
  <1>4. b \in ConnRec /\ b.session = conn[c].session /\ b.tmp = None /\ b.resume = FALSE /\ Recorded(b, sess, now)
    BY <1>1, <1>3, BeginRec DEF IInv
  <1>5. CASE now < st + Timeout
    <2>1. sess' = New(Free(sess, conn[c].session), s, i, st) /\ conn' = Forget(g, s)
      BY <1>5 DEF CheckResumeTicket, SetAt
    <2> HIDE DEF b
    <2>2. /\ r.session = s /\ r.tmp = None /\ r.pc = "hello" /\ r.resume = TRUE
          /\ r.off = b.off /\ r.old = b.old
      BY <1>4 DEF ConnRec
    <2>3. r \in ConnRec
      BY <1>4 DEF ConnRec, Places, Held
    <2> HIDE DEF r
    <2>4. g \in [Conns -> ConnRec]
      BY <2>3 DEF IInv, TypeInv, SetAt
    <2>5. conn' \in [Conns -> ConnRec] /\ Without(g, conn', {s}, {})
      BY <2>1, <2>4, ForgetConns
    <2>6. Others({c}, {s}, {}) /\ Becomes(c, r, {s}, {})
      BY <1>1, <2>3, <2>5, WithoutConn DEF IInv
    <2> HIDE DEF g
    <2>7. /\ sess' \in Objects /\ Follows(sess, sess', {s}, {})
          /\ \A t \in Sess : sess'[t].references = sess[t].references - One(conn[c].session, t) + One(s, t)
      <3>1. InPlace(c, sess', s)
        BY <1>1, <1>2, <2>1, NewInPlace
      <3>2. QED
        BY <3>1 DEF InPlace
    <2>8. Control(c, conn'[c])
      BY <1>1, <2>2, <2>6, SessionMgrAssumption DEF Control, Becomes
    <2>9. Recorded(conn'[c], sess', now)
      BY <1>4, <2>2, <2>6, <2>7, RecordedWithout DEF Becomes
    <2>10. Ghost(c, conn'[c], sess', now)
      BY <1>1, <2>2, <2>6, <2>9 DEF Ghost, Clean, Becomes
    <2>11. \A t \in Sess : sess'[t].references
            = sess[t].references - One(conn[c].session, t) - One(conn[c].tmp, t)
              + One(conn'[c].session, t) + One(conn'[c].tmp, t) + (app'[t] - app[t])
      <3>1. conn'[c].session = s /\ conn'[c].tmp = None
        BY <2>2, <2>6 DEF Becomes
      <3>2. QED
        BY <1>2, <1>3, <2>7, <3>1, NoneCount, OneType, ObjectsFields DEF IInv, TypeInv
    <2>12. app' \in [Sess -> Nat]
      BY <1>2 DEF IInv, TypeInv
    <2>13. QED
      BY <1>1, <1>2, <2>5, <2>6, <2>7, <2>8, <2>10, <2>11, <2>12, MoveStep
  <1>6. CASE ~(now < st + Timeout)
    <2>1. UNCHANGED sess /\ Set(c, q)
      BY <1>6 DEF CheckResumeTicket
    <2> HIDE DEF b
    <2>2. /\ q.session = conn[c].session /\ q.tmp = None /\ q.pc = "hello" /\ q.resume = FALSE
          /\ q.off = b.off /\ q.old = b.old
      BY <1>4 DEF ConnRec
    <2>3. q \in ConnRec
      BY <1>4 DEF ConnRec, Places, Held
    <2> HIDE DEF q
    <2>4. sess' \in Objects /\ Follows(sess, sess', {}, {})
      BY <2>1, FollowsSelf DEF IInv, TypeInv
    <2>5. Recorded(q, sess', now)
      BY <1>4, <2>2, <2>4, RecordedFollows
    <2>6. Control(c, q) /\ Ghost(c, q, sess', now)
      BY <1>1, <2>2, <2>5 DEF Control, Ghost
    <2>7. \A t \in Sess : sess'[t].references
            = sess[t].references - One(conn[c].session, t) - One(conn[c].tmp, t)
              + One(q.session, t) + One(q.tmp, t)
      BY <1>3, <2>1, <2>2, OneType, ObjectsFields DEF IInv, TypeInv
    <2>8. QED
      BY <1>1, <1>2, <2>1, <2>3, <2>4, <2>6, <2>7, ConnStep
  <1>7. QED
    BY <1>5, <1>6

\* A client goes on with a copy of its session.
LEMMA UpdateTicketKeeps ==
  ASSUME IInv, UNCHANGED setting, NEW c \in Clients, NEW s \in Sess, UpdateTicket(c, s)
  PROVE  IInv'
  <1> DEFINE i == sess[conn[c].session].id
             r == [conn[c] EXCEPT !.session = s]
             g == SetAt(c, r)
  <1>1. c \in Conns
    BY DEF Conns
  <1>2. /\ conn[c].pc = "hello" /\ conn[c].resume /\ sess[s].references = 0
        /\ UNCHANGED <<cache, config, app, now>>
        /\ sess' = New(Free(sess, conn[c].session), s, i, now)
    BY DEF UpdateTicket, Unused
  <1>3. conn' = Forget(g, s)
    BY DEF UpdateTicket, SetAt
  <1>4. Control(c, conn[c]) /\ Ghost(c, conn[c], sess, now)
    BY <1>1 DEF IInv, ControlInv, GhostInv
  <1>5. conn[c].session \in Sess /\ i \in Ids \cup {None} /\ now \in 0..MaxTime
    BY <1>1, <1>2, <1>4, ConnFields, ObjectsFields DEF IInv, TypeInv, Control, Held, Object
  <1>6. /\ r.session = s /\ r.tmp = conn[c].tmp /\ r.pc = "hello" /\ r.resume = conn[c].resume
        /\ r.off = conn[c].off /\ r.old = conn[c].old
    BY <1>1, <1>2, ConnFields DEF IInv, ConnRec
  <1>7. r \in ConnRec
    BY <1>1, ConnFields DEF IInv, ConnRec, Held
  <1> HIDE DEF r, i
  <1>8. g \in [Conns -> ConnRec]
    BY <1>7 DEF IInv, TypeInv, SetAt
  <1>9. conn' \in [Conns -> ConnRec] /\ Without(g, conn', {s}, {})
    BY <1>3, <1>8, ForgetConns
  <1>10. Others({c}, {s}, {}) /\ Becomes(c, r, {s}, {})
    BY <1>1, <1>7, <1>9, WithoutConn DEF IInv
  <1> HIDE DEF g
  <1>11. /\ sess' \in Objects /\ Follows(sess, sess', {s}, {})
         /\ \A t \in Sess : sess'[t].references = sess[t].references - One(conn[c].session, t) + One(s, t)
    <2>1. sess' = New(Free(sess, conn[c].session), s, i, now)
      BY <1>2
    <2>5. sess[s].references = 0
      BY <1>2
    <2>2. i \in Ids \cup {None} /\ now \in 0..MaxTime
      BY <1>5
    <2>3. InPlace(c, sess', s)
      BY <2>1, <2>2, <2>5, <1>1, NewInPlace
    <2>4. QED
      BY <2>3 DEF InPlace
  <1>12. Control(c, conn'[c])
    BY <1>4, <1>6, <1>10, SessionMgrAssumption DEF Control, Becomes
  <1>13. Recorded(conn'[c], sess', now)
    <2>1. conn[c] \in ConnRec /\ Recorded(conn[c], sess, now)
      BY <1>1, <1>4, ConnFields DEF IInv, Ghost
    <2>2. conn'[c].off = conn[c].off \ {s} /\ conn'[c].old = conn[c].old \ ({s} \cup {})
      BY <1>6, <1>10 DEF Becomes
    <2>3. QED
      BY <2>1, <2>2, <1>11, RecordedWithout
  <1>14. Ghost(c, conn'[c], sess', now)
    BY <1>6, <1>10, <1>13 DEF Ghost, Clean, Becomes
  <1>15. \A t \in Sess : sess'[t].references
          = sess[t].references - One(conn[c].session, t) - One(conn[c].tmp, t)
            + One(conn'[c].session, t) + One(conn'[c].tmp, t) + (app'[t] - app[t])
    <2>1. conn'[c].session = s /\ conn'[c].tmp = conn[c].tmp
      BY <1>6, <1>10 DEF Becomes
    <2>2. QED
      BY <1>2, <1>11, <2>1, OneType, ObjectsFields DEF IInv, TypeInv
  <1>16. app' \in [Sess -> Nat]
    BY <1>2 DEF IInv, TypeInv
  <1>17. QED
    BY <1>1, <1>2, <1>9, <1>10, <1>11, <1>12, <1>14, <1>15, <1>16, MoveStep

\* The end of HsSetSessionInfo.
LEMMA FinishedNotifyKeeps ==
  ASSUME IInv, UNCHANGED setting, NEW c \in Conns, FinishedNotify(c)
  PROVE  IInv'
  <1> DEFINE s == conn[c].session
             touch == Stores(c) /\ "timeUpdate" \in conn[c].mode /\ sess[s].id # None
             f == IF touch THEN Touch(sess, s, now) ELSE sess
             r == [conn[c] EXCEPT !.pc = "open", !.mode = {}, !.id = None]
             g == SetAt(c, r)
             R == IF touch THEN {s} ELSE {}
  <1>1. /\ conn[c].pc = "saved" /\ UNCHANGED <<cache, config, now>>
        /\ \/ sess' = Dup(f, s) /\ app' = [app EXCEPT ![s] = @ + 1]
           \/ sess' = f /\ UNCHANGED app
        /\ conn' = IF touch THEN Renew(g, s) ELSE g
    BY DEF FinishedNotify, SetAt, Touch
  <1>2. Control(c, conn[c]) /\ Ghost(c, conn[c], sess, now)
    BY DEF IInv, ControlInv, GhostInv
  <1>3. s \in Sess /\ sess[s].references > 0
    BY <1>1, <1>2, ConnFields, InUse DEF IInv, Control, Held
  <1>4. /\ r.session = s /\ r.tmp = conn[c].tmp /\ r.pc = "open" /\ r.resume = conn[c].resume
        /\ r.off = conn[c].off /\ r.old = conn[c].old
    BY ConnFields DEF IInv, ConnRec
  <1>5. r \in ConnRec
    BY ConnFields DEF IInv, ConnRec, Places
  <1> HIDE DEF r
  <1>6. g \in [Conns -> ConnRec]
    BY <1>5 DEF IInv, TypeInv, SetAt
  <1> HIDE DEF g
  <1>7. conn' \in [Conns -> ConnRec] /\ Without(g, conn', {}, R)
    <2>1. CASE touch
      <3>1. conn' = Renew(g, s) /\ R = {s}
        BY <1>1, <2>1
      <3> HIDE DEF touch, R, s
      <3>2. QED
        BY <3>1, <1>6, RenewConns
    <2>2. CASE ~touch
      <3>1. conn' = g /\ R = {}
        BY <1>1, <2>2
      <3> HIDE DEF touch, R, s
      <3>2. QED
        BY <3>1, <1>6 DEF Without
    <2>3. QED
      BY <2>1, <2>2
  <1>8. /\ f \in Objects /\ Follows(sess, f, {}, R)
        /\ \A t \in Sess : f[t].references = sess[t].references
    <2>1. sess \in Objects /\ now \in 0..MaxTime
      BY DEF IInv, TypeInv
    <2>2. CASE touch
      <3>1. f = Touch(sess, s, now) /\ R = {s}
        BY <2>2
      <3> HIDE DEF touch, R, f, s
      <3>2. f \in Objects /\ Touched(sess, f, s, now)
        BY <3>1, <2>1, <1>3, TouchObjects
      <3>3. QED
        BY <3>1, <3>2 DEF Touched, Follows
    <2>3. CASE ~touch
      <3>1. f = sess /\ R = {}
        BY <2>3
      <3> HIDE DEF touch, R, f, s
      <3>2. QED
        BY <3>1, <2>1, FollowsSelf
    <2>4. QED
      BY <2>2, <2>3
  <1>9. R \subseteq Sess
    BY <1>3
  <1> HIDE DEF f, R, touch
  <1>10. /\ sess' \in Objects /\ Follows(sess, sess', {}, R) /\ app' \in [Sess -> Nat]
         /\ \A t \in Sess : sess'[t].references = sess[t].references + (app'[t] - app[t])
    <2>1. sess \in Objects /\ app \in [Sess -> Nat]
      BY DEF IInv, TypeInv
    <2>2. CASE sess' = Dup(f, s) /\ app' = [app EXCEPT ![s] = @ + 1]
      <3>1. app' \in [Sess -> Nat] /\ \A t \in Sess : app'[t] - app[t] = One(s, t)
        BY <2>1, <2>2, <1>3 DEF One
      <3>2. s \in Held
        BY <1>3 DEF Held
      <3>3. sess' = Dup(f, s)
        BY <2>2
      <3> HIDE DEF s
      <3>4. sess' \in Objects /\ Dupped(f, sess', s)
        BY <1>8, <3>2, <3>3, DupObjects
      <3>5. Follows(sess, sess', {}, R)
        <4>1. \A t \in Sess : /\ sess'[t].references > 0 => f[t].references > 0 \/ t = s
                              /\ Same(f, sess', t)
          BY <1>8, <3>4, OneType, ObjectsFields DEF Dupped
        <4>2. f[s].references > 0 /\ s \in Sess
          BY <1>3, <1>8 DEF s
        <4>3. QED
          BY <4>1, <4>2, <1>8 DEF Follows, Same
      <3>6. QED
        BY <3>1, <3>4, <3>5, <1>8 DEF Dupped
    <2>3. CASE sess' = f /\ UNCHANGED app
      BY <2>1, <2>3, <1>8, ObjectsFields
    <2>4. QED
      BY <1>1, <2>2, <2>3
  <1>11. Others({c}, {}, R) /\ Becomes(c, r, {}, R)
    BY <1>5, <1>7, WithoutConn DEF IInv, g
  <1>12. /\ conn'[c].pc = "open" /\ conn'[c].session = s /\ conn'[c].tmp = conn[c].tmp
         /\ conn'[c].resume = conn[c].resume /\ conn'[c].off = {} /\ conn'[c].old = {}
    BY <1>1, <1>2, <1>4, <1>11 DEF Becomes, Ghost
  <1>13. Control(c, conn'[c])
    BY <1>1, <1>2, <1>12 DEF Control
  <1>14. Ghost(c, conn'[c], sess', now)
    BY <1>12 DEF Ghost, Recorded, Clean
  <1>15. \A t \in Sess : sess'[t].references
          = sess[t].references - One(conn[c].session, t) - One(conn[c].tmp, t)
            + One(conn'[c].session, t) + One(conn'[c].tmp, t) + (app'[t] - app[t])
    BY <1>10, <1>12, OneType, ObjectsFields DEF IInv, TypeInv
  <1>16. QED
    BY <1>1, <1>7, <1>9, <1>10, <1>11, <1>13, <1>14, <1>15, MoveStep

\* A step in which only the application moves.
LEMMA PlainAppStep ==
  ASSUME IInv, UNCHANGED <<cache, config, conn, now, setting>>,
         app' \in [Sess -> Nat], sess' \in Objects, Follows(sess, sess', {}, {}),
         \A s \in Sess : sess'[s].references = sess[s].references + (app'[s] - app[s])
  PROVE  IInv'
  <1>1. TypeInv'
    BY DEF IInv, TypeInv, config
  <1>2. References'
    <2>1. ASSUME NEW s \in Sess
          PROVE  CacheHeld(cache', s) - CacheHeld(cache, s) = 0
      BY CountType
    <2>2. ASSUME NEW s \in Sess
          PROVE  sess[s].references \in Nat /\ app[s] \in Nat /\ app'[s] \in Nat
      BY ObjectsFields DEF IInv, TypeInv
    <2>3. \A s \in Sess : sess'[s].references
           = sess[s].references + (CacheHeld(cache', s) - CacheHeld(cache, s)) + (app'[s] - app[s])
      BY <2>1, <2>2
    <2>4. QED
      BY <2>3, AppStep
  <1>3. Others({}, {}, {}) /\ MovedOK({})
    BY DEF Others, MovedOK
  <1>4. now' >= now
    BY SessionMgrAssumption DEF IInv, TypeInv
  <1>5. QED
    BY <1>1, <1>2, <1>3, <1>4, PlainStep

\* HITLS_GetDupSession.
LEMMA GetDupSessionKeeps ==
  ASSUME IInv, UNCHANGED setting, NEW c \in Conns, HITLS_GetDupSession(c)
  PROVE  IInv'
  <1> DEFINE s == conn[c].session
  <1>1. s # None /\ sess' = Dup(sess, s) /\ UNCHANGED <<cache, config, conn, now>>
    BY DEF HITLS_GetDupSession
  <1>2. s \in Sess /\ s \in Held
    BY <1>1, ConnFields DEF IInv, Held
  <1>3. app' \in [Sess -> Nat] /\ \A t \in Sess : app'[t] - app[t] = One(s, t)
    BY <1>2 DEF HITLS_GetDupSession, IInv, TypeInv, One
  <1> HIDE DEF s
  <1>4. sess' \in Objects /\ Dupped(sess, sess', s) /\ Follows(sess, sess', {}, {})
    BY <1>1, <1>2, DupObjects, DuppedFollows DEF IInv, TypeInv
  <1>5. \A t \in Sess : sess'[t].references = sess[t].references + (app'[t] - app[t])
    BY <1>3, <1>4 DEF Dupped
  <1>6. QED
    BY <1>1, <1>3, <1>4, <1>5, PlainAppStep

\* HITLS_SESS_Free by the application.
LEMMA SessFreeKeeps ==
  ASSUME IInv, UNCHANGED setting, NEW s \in Sess, HITLS_SESS_Free(s)
  PROVE  IInv'
  <1>1. app[s] > 0 /\ sess' = Free(sess, s) /\ UNCHANGED <<cache, config, conn, now>>
    BY DEF HITLS_SESS_Free
  <1>2. app' \in [Sess -> Nat] /\ \A t \in Sess : app'[t] - app[t] = 0 - One(s, t)
    BY <1>1 DEF HITLS_SESS_Free, IInv, TypeInv, One
  <1>3. s \in Held /\ sess[s].references > 0
    BY <1>1, InUse DEF IInv, Held
  <1>4. sess' \in Objects /\ Freed(sess, sess', s) /\ Follows(sess, sess', {}, {})
    BY <1>1, <1>3, FreeObjects, FreedFollows DEF IInv, TypeInv
  <1>5. \A t \in Sess : sess'[t].references = sess[t].references + (app'[t] - app[t])
    BY <1>2, <1>4, OneType, ObjectsFields DEF Freed, IInv, TypeInv
  <1>6. QED
    BY <1>1, <1>2, <1>4, <1>5, PlainAppStep

\* The references after sessionGetCb has returned s, as FindExternal has them.
External(s, copy, ok) ==
  /\ sess' = IF ok THEN IF s # None /\ copy THEN Dup(sess, s) ELSE sess
             ELSE Free(IF s # None /\ copy THEN Dup(sess, s) ELSE sess, s)
  /\ app' = IF s # None /\ ~copy THEN [app EXCEPT ![s] = @ - 1] ELSE app

\* A session that the application supplies: the reference that the lookup gets
\* is a new one, or the application's own.
LEMMA ExternalCounts ==
  ASSUME IInv, NEW s \in Held, s # None => app[s] > 0, NEW copy \in BOOLEAN, NEW ok \in BOOLEAN,
         ok => s # None, External(s, copy, ok)
  PROVE  /\ sess' \in Objects /\ Follows(sess, sess', {}, {}) /\ app' \in [Sess -> Nat]
         /\ \A t \in Sess : sess'[t].references
              = sess[t].references + One(IF ok THEN s ELSE None, t) + (app'[t] - app[t])
  <1>1. sess \in Objects /\ app \in [Sess -> Nat] /\ \A t \in Sess : sess[t].references \in Nat
    BY ObjectsFields DEF IInv, TypeInv
  <1>2. CASE s = None
    <2>1. sess' = sess /\ app' = app /\ ~ok
      BY <1>2 DEF Free, External
    <2>2. \A t \in Sess : app'[t] - app[t] = 0
      BY <1>1, <2>1
    <2>3. QED
      BY <1>1, <2>1, <2>2, FollowsSelf, NoneCount
  <1>3. CASE s # None
    <2>1. s \in Sess /\ sess[s].references > 0
      BY <1>3, InUse DEF IInv, Held
    <2>2. CASE copy
      <3> DEFINE e == Dup(sess, s)
      <3>1. app' = app /\ sess' = IF ok THEN e ELSE Free(e, s)
        BY <1>3, <2>2 DEF External
      <3>2. app' \in [Sess -> Nat] /\ \A t \in Sess : app'[t] - app[t] = 0
        BY <1>1, <3>1
      <3>3. e \in Objects /\ Dupped(sess, e, s) /\ Follows(sess, e, {}, {})
        BY <1>1, DupObjects, DuppedFollows
      <3> HIDE DEF e
      <3>4. CASE ok
        BY <3>1, <3>2, <3>3, <3>4, <1>1, OneType DEF Dupped
      <3>5. CASE ~ok
        <4>1. e[s].references > 0
          BY <2>1, <3>3, <1>1, OneType DEF Dupped
        <4>2. sess' \in Objects /\ Freed(e, sess', s)
          BY <3>1, <3>3, <3>5, <4>1, FreeObjects
        <4>3. \A t \in Sess : sess'[t].references = sess[t].references
          BY <1>1, <3>3, <4>2, OneType DEF Dupped, Freed
        <4>4. \A t \in Sess : sess'[t].references > 0 => Same(sess, sess', t)
          BY <3>3, <4>2 DEF Dupped, Freed, Same
        <4>5. \A t \in Sess : sess'[t].references > 0 \/ ~sess'[t].enable
          BY <4>2, ObjectsFields
        <4>6. Follows(sess, sess', {}, {})
          BY <4>4, <4>5 DEF Follows, Same
        <4>7. QED
          BY <1>1, <3>2, <3>5, <4>2, <4>3, <4>6, NoneCount
      <3>6. QED
        BY <3>4, <3>5
    <2>3. CASE ~copy
      <3>1. app' = [app EXCEPT ![s] = @ - 1] /\ sess' = IF ok THEN sess ELSE Free(sess, s)
        BY <1>3, <2>3 DEF External
      <3>2. app' \in [Sess -> Nat] /\ \A t \in Sess : app'[t] - app[t] = 0 - One(s, t)
        BY <1>1, <1>3, <2>1, <3>1 DEF One
      <3>3. CASE ok
        BY <1>1, <3>1, <3>2, <3>3, FollowsSelf, OneType
      <3>4. CASE ~ok
        <4>1. sess' = Free(sess, s)
          BY <3>1, <3>4
        <4>2. sess' \in Objects /\ Freed(sess, sess', s) /\ Follows(sess, sess', {}, {})
          BY <1>1, <2>1, <4>1, FreeObjects, FreedFollows
        <4>3. QED
          BY <1>1, <3>2, <3>4, <4>2, NoneCount, OneType DEF Freed
      <3>5. QED
        BY <3>3, <3>4
    <2>4. QED
      BY <2>2, <2>3
  <1>4. QED
    BY <1>2, <1>3

\* SESSMGR_Find asks the application.
LEMMA FindExternalKeeps ==
  ASSUME IInv, UNCHANGED setting, NEW c \in Servers, NEW s \in Held, NEW copy \in BOOLEAN,
         FindExternal(c, s, copy)
  PROVE  IInv'
  <1> DEFINE ok == s # None /\ Resumable(s)
             q == IF ok THEN s ELSE None
             p == IF ok /\ "noStore" \notin mode THEN "store" ELSE "checked"
             r == [conn[c] EXCEPT !.tmp = q, !.pc = p]
  <1>1. c \in Conns /\ c \notin Clients
    BY SessionMgrAssumption DEF Conns
  <1>2. /\ conn[c].pc = "external" /\ (s # None => app[s] > 0) /\ Set(c, r)
        /\ UNCHANGED <<cache, config, now>>
    BY DEF FindExternal
  <1>3. /\ sess' \in Objects /\ Follows(sess, sess', {}, {}) /\ app' \in [Sess -> Nat]
        /\ \A t \in Sess : sess'[t].references = sess[t].references + One(q, t) + (app'[t] - app[t])
    <2>1. External(s, copy, ok)
      BY DEF FindExternal, External
    <2>2. ok \in BOOLEAN /\ (ok => s # None)
      BY DEF Resumable
    <2> HIDE DEF ok
    <2>3. QED
      BY <1>2, <2>1, <2>2, ExternalCounts
  <1>4. q \in Held /\ p \in {"store", "checked"} /\ (p = "store" => q # None)
    BY DEF Held
  <1>5. q # None => q \in Sess /\ sess[q].enable
    BY DEF Resumable, Held
  <1> HIDE DEF ok, q, p
  <1>6. /\ r.session = conn[c].session /\ r.tmp = q /\ r.pc = p /\ r.resume = conn[c].resume
        /\ r.off = conn[c].off /\ r.old = conn[c].old
    BY <1>1, ConnFields DEF IInv, ConnRec
  <1>7. r \in ConnRec
    BY <1>1, <1>4, ConnFields DEF IInv, ConnRec, Places
  <1> HIDE DEF r
  <1>8. Control(c, conn[c]) /\ Ghost(c, conn[c], sess, now)
    BY <1>1 DEF IInv, ControlInv, GhostInv
  <1>9. conn[c].tmp = None /\ setting.external
    BY <1>2, <1>8 DEF Control
  <1>10. Control(c, r)
    BY <1>1, <1>4, <1>6, <1>8, <1>9 DEF Control
  <1>11. Ghost(c, r, sess', now)
    <2>1. Recorded(r, sess', now)
      BY <1>1, <1>3, <1>6, <1>8, ConnFields, RecordedFollows DEF IInv, Ghost
    <2>2. q # None => Clean(r, q)
      BY <1>5, <1>6, <1>8, <1>9 DEF Ghost, Recorded, Clean
    <2>3. r.resume => Clean(r, r.session)
      BY <1>6, <1>8 DEF Ghost, Clean
    <2>4. QED
      BY <2>1, <2>2, <2>3, <1>1, <1>4, <1>6 DEF Ghost
  <1>12. conn' \in [Conns -> ConnRec] /\ conn'[c] = r /\ Others({c}, {}, {})
    BY <1>1, <1>2, <1>7, SetConn DEF IInv
  <1>13. \A t \in Sess : sess'[t].references
          = sess[t].references - One(conn[c].session, t) - One(conn[c].tmp, t)
            + One(conn'[c].session, t) + One(conn'[c].tmp, t) + (app'[t] - app[t])
    <2>1. \A t \in Sess : sess[t].references \in Nat /\ app[t] \in Nat /\ app'[t] \in Nat
      BY <1>3, ObjectsFields DEF IInv, TypeInv
    <2>2. QED
      BY <2>1, <1>3, <1>6, <1>9, <1>12, NoneCount, OneType
  <1>14. QED
    BY <1>1, <1>2, <1>3, <1>10, <1>11, <1>12, <1>13, MoveStep

-----------------------------------------------------------------------------
(* The steps that change the cache.                                        *)

\* What the cache holds and is in use is there under its id and has not left it.
CacheFits == \A i \in Ids : cache'[i] # None /\ sess'[cache'[i]].references > 0 =>
  /\ sess'[cache'[i]].id = i
  /\ ~setting.external => ~sess'[cache'[i]].left

\* What is shown of each of them.
LEMMA CacheStep ==
  ASSUME IInv, UNCHANGED <<config, app, now, setting>>,
         cache' \in [Ids -> Held], conn' \in [Conns -> ConnRec], sess' \in Objects,
         NEW c \in Conns, NEW N \in SUBSET Sess,
         Others({c}, N, {}), Evolves(N, {}), CacheFits,
         \A s \in Sess : sess'[s].references
           = sess[s].references - One(conn[c].session, s) - One(conn[c].tmp, s)
             + One(conn'[c].session, s) + One(conn'[c].tmp, s)
             + (CacheHeld(cache', s) - CacheHeld(cache, s)),
         Control(c, conn'[c]), Ghost(c, conn'[c], sess', now)
  PROVE  IInv'
  <1>1. TypeInv'
    BY DEF IInv, TypeInv, config
  <1>2. ConnOnly(conn, conn', c)
    BY DEF Others, ConnOnly
  <1>3. References'
    <2>1. ASSUME NEW s \in Sess
          PROVE  app'[s] - app[s] = 0 /\ sess[s].references \in Nat
                 /\ CacheHeld(cache', s) \in Nat /\ CacheHeld(cache, s) \in Nat
      <3>1. CacheHeld(cache', s) \in Nat /\ CacheHeld(cache, s) \in Nat
        BY CountType
      <3>2. app[s] \in Nat /\ app' = app /\ sess[s].references \in Nat
        BY ObjectsFields DEF IInv, TypeInv
      <3>3. QED
        BY <3>1, <3>2
    <2>2. app' \in [Sess -> Nat]
      BY DEF IInv, TypeInv
    <2>3. \A s \in Sess : sess'[s].references
           = sess[s].references - One(conn[c].session, s) - One(conn[c].tmp, s)
             + One(conn'[c].session, s) + One(conn'[c].tmp, s)
             + (CacheHeld(cache', s) - CacheHeld(cache, s)) + (app'[s] - app[s])
      BY <2>1, OneType
    <2>4. QED
      BY <1>2, <2>2, <2>3, RefStep
  <1>4. CacheKept
    BY <1>1, <1>3, CachedInUse DEF CacheFits, CacheKept
  <1>5. MovedOK({c})
    BY DEF MovedOK
  <1>6. now' >= now
    BY SessionMgrAssumption DEF IInv, TypeInv
  <1>7. QED
    BY <1>1, <1>3, <1>4, <1>5, <1>6, StepKeeps

\* The same when no connection moves.
LEMMA CacheAppStep ==
  ASSUME IInv, UNCHANGED <<config, app, conn, now, setting>>,
         Moved(cache, sess, cache', sess'), Shrunk(cache, sess, cache', sess')
  PROVE  IInv'
  <1>1. TypeInv'
    BY DEF IInv, TypeInv, config, Moved
  <1>2. References'
    <2>1. ASSUME NEW s \in Sess
          PROVE  app'[s] - app[s] = 0 /\ sess[s].references \in Nat
                 /\ CacheHeld(cache', s) \in Nat /\ CacheHeld(cache, s) \in Nat
      <3>1. CacheHeld(cache', s) \in Nat /\ CacheHeld(cache, s) \in Nat
        BY CountType
      <3>2. app[s] \in Nat /\ app' = app /\ sess[s].references \in Nat
        BY ObjectsFields DEF IInv, TypeInv
      <3>3. QED
        BY <3>1, <3>2
    <2>2. app' \in [Sess -> Nat]
      BY DEF IInv, TypeInv
    <2>3. \A s \in Sess : sess'[s].references
           = sess[s].references + (CacheHeld(cache', s) - CacheHeld(cache, s)) + (app'[s] - app[s])
      BY <2>1 DEF Moved
    <2>4. QED
      BY <2>2, <2>3, AppStep
  <1>3. CacheKept
    <2>1. ASSUME NEW i \in Ids, cache'[i] # None
          PROVE  sess'[cache'[i]].id = i /\ (~setting.external => ~sess'[cache'[i]].left)
      <3>1. cache'[i] = cache[i] /\ cache[i] \in Sess /\ sess'[cache[i]].references > 0
        BY <1>1, <1>2, <2>1, CachedInUse DEF Shrunk
      <3>2. sess'[cache[i]].id = sess[cache[i]].id /\ sess'[cache[i]].left = sess[cache[i]].left
        BY <2>1, <3>1 DEF Moved, Shrunk
      <3>3. sess[cache[i]].id = i /\ (~setting.external => ~sess[cache[i]].left)
        BY <2>1, <3>1 DEF IInv, IdInv, RemovedStaysRemoved, Cached
      <3>4. QED
        BY <3>1, <3>2, <3>3
    <2>2. QED
      BY <2>1 DEF CacheKept
  <1>4. Evolves({}, {})
    <2>1. \A s \in Sess : sess'[s].references > 0 \/ ~sess'[s].enable
      BY ObjectsFields DEF Moved
    <2>2. QED
      BY <2>1 DEF Moved, Evolves
  <1>5. Others({}, {}, {}) /\ MovedOK({})
    BY DEF Others, MovedOK
  <1>6. now' >= now
    BY SessionMgrAssumption DEF IInv, TypeInv
  <1>7. QED
    BY <1>1, <1>2, <1>3, <1>4, <1>5, <1>6, StepKeeps

\* HITLS_CFG_RemoveSession.
LEMMA RemoveSessionKeeps ==
  ASSUME IInv, UNCHANGED setting, NEW s \in Sess, HITLS_CFG_RemoveSession(s)
  PROVE  IInv'
  <1> DEFINE r == SESSMGR_RemoveSession(s)
  <1>1. cache' = r.h /\ sess' = r.f /\ UNCHANGED <<config, conn, app, now>>
    BY DEF HITLS_CFG_RemoveSession
  <1>2. Moved(cache, sess, r.h, r.f) /\ Shrunk(cache, sess, r.h, r.f)
    BY RemoveMoves DEF IInv
  <1> HIDE DEF r
  <1>3. QED
    BY <1>1, <1>2, CacheAppStep

\* HITLS_CFG_ClearTimeoutSession.
LEMMA ClearTimeoutSessionKeeps ==
  ASSUME IInv, UNCHANGED setting, NEW t, HITLS_CFG_ClearTimeoutSession(t)
  PROVE  IInv'
  <1> DEFINE r == SESSMGR_ClearTimeout(t)
  <1>1. cache' = r.h /\ sess' = r.f /\ UNCHANGED <<config, conn, app, now>>
    BY DEF HITLS_CFG_ClearTimeoutSession
  <1>2. Moved(cache, sess, r.h, r.f) /\ Shrunk(cache, sess, r.h, r.f)
    BY ClearMoves DEF IInv
  <1> HIDE DEF r
  <1>3. QED
    BY <1>1, <1>2, CacheAppStep

\* What a removal leaves in the cache fits, also when more references are given up after it.
LEMMA ShrunkFits ==
  ASSUME IInv, NEW f, Moved(cache, sess, cache', f), Shrunk(cache, sess, cache', f),
         \A s \in Sess : sess'[s].references > 0 /\ f[s].references > 0 =>
           sess'[s].id = f[s].id /\ sess'[s].left = f[s].left,
         \A i \in Ids : cache'[i] # None /\ sess'[cache'[i]].references > 0 => f[cache'[i]].references > 0
  PROVE  CacheFits
  <1>1. ASSUME NEW i \in Ids, cache'[i] # None, sess'[cache'[i]].references > 0
        PROVE  sess'[cache'[i]].id = i /\ (~setting.external => ~sess'[cache'[i]].left)
    <2>1. cache'[i] = cache[i] /\ cache[i] \in Sess /\ f[cache[i]].references > 0
      BY <1>1 DEF Shrunk, IInv, TypeInv, Held
    <2>2. sess'[cache[i]].id = sess[cache[i]].id /\ sess'[cache[i]].left = sess[cache[i]].left
      BY <1>1, <2>1 DEF Moved, Shrunk
    <2>3. sess[cache[i]].id = i /\ (~setting.external => ~sess[cache[i]].left)
      BY <1>1, <2>1 DEF IInv, IdInv, RemovedStaysRemoved, Cached
    <2>4. QED
      BY <2>1, <2>2, <2>3
  <1>2. QED
    BY <1>1 DEF CacheFits

\* A step that leaves cache and objects alone.
LEMMA MovedSelf ==
  ASSUME IInv
  PROVE  Moved(cache, sess, cache, sess) /\ Shrunk(cache, sess, cache, sess)
  <1>1. \A s \in Sess : CacheHeld(cache, s) \in Nat /\ sess[s].references \in Nat
    BY CountType, ObjectsFields DEF IInv, TypeInv
  <1>2. cache \in [Ids -> Held] /\ sess \in Objects
    BY DEF IInv, TypeInv
  <1>3. QED
    BY <1>1, <1>2 DEF Moved, Shrunk

\* The clean-up after Finished.
LEMMA FinishedCleanupKeeps ==
  ASSUME IInv, UNCHANGED setting, NEW c \in Conns, FinishedCleanup(c)
  PROVE  IInv'
  <1> DEFINE u == IF "noCleanup" \in mode THEN [h |-> cache, f |-> sess] ELSE SESSMGR_ClearTimeout(now)
             m == IF conn[c].resume THEN {} ELSE mode
             p == IF conn[c].resume THEN "open" ELSE "finish"
             r == [conn[c] EXCEPT !.mode = m, !.off = {}, !.old = {}, !.pc = p]
  <1>1. /\ conn[c].pc = "hello" /\ cache' = u.h /\ sess' = u.f /\ Set(c, r)
        /\ UNCHANGED <<config, app, now>>
    BY DEF FinishedCleanup
  <1>2. Moved(cache, sess, cache', sess') /\ Shrunk(cache, sess, cache', sess')
    <2>1. CASE "noCleanup" \in mode
      <3>1. cache' = cache /\ sess' = sess
        BY <1>1, <2>1
      <3>2. QED
        BY <3>1, MovedSelf
    <2>2. CASE "noCleanup" \notin mode
      BY <1>1, <2>2, ClearMoves DEF IInv
    <2>3. QED
      BY <2>1, <2>2
  <1>3. m \in SUBSET Flags /\ p \in {"open", "finish"}
    BY SessionMgrAssumption DEF IInv, TypeInv
  <1> HIDE DEF u, m, p
  <1>4. /\ r.session = conn[c].session /\ r.tmp = conn[c].tmp /\ r.pc = p /\ r.resume = conn[c].resume
        /\ r.off = {} /\ r.old = {}
    BY ConnFields DEF IInv, ConnRec
  <1>5. r \in ConnRec
    BY <1>3, ConnFields DEF IInv, ConnRec, Places
  <1> HIDE DEF r
  <1>6. conn' \in [Conns -> ConnRec] /\ conn'[c] = r /\ Others({c}, {}, {})
    BY <1>1, <1>5, SetConn DEF IInv
  <1>7. Control(c, conn[c])
    BY DEF IInv, ControlInv
  <1>8. Control(c, conn'[c])
    BY <1>1, <1>3, <1>4, <1>6, <1>7 DEF Control
  <1>9. Ghost(c, conn'[c], sess', now)
    BY <1>3, <1>4, <1>6 DEF Ghost, Recorded, Clean
  <1>10. CacheFits
    BY <1>2, ShrunkFits
  <1>11. Evolves({}, {})
    <2>1. \A s \in Sess : sess'[s].references > 0 \/ ~sess'[s].enable
      BY <1>2, ObjectsFields DEF Moved
    <2>2. QED
      BY <1>2, <2>1 DEF Moved, Evolves
  <1>12. \A s \in Sess : sess'[s].references
           = sess[s].references - One(conn[c].session, s) - One(conn[c].tmp, s)
             + One(conn'[c].session, s) + One(conn'[c].tmp, s)
             + (CacheHeld(cache', s) - CacheHeld(cache, s))
    <2>1. \A s \in Sess : /\ CacheHeld(cache', s) \in Nat /\ CacheHeld(cache, s) \in Nat
                          /\ sess[s].references \in Nat
      BY CountType, ObjectsFields DEF IInv, TypeInv
    <2>2. QED
      BY <1>2, <1>4, <1>6, <2>1, OneType DEF Moved
  <1>13. cache' \in [Ids -> Held] /\ sess' \in Objects
    BY <1>2 DEF Moved
  <1>14. QED
    BY <1>1, <1>6, <1>8, <1>9, <1>10, <1>11, <1>12, <1>13, CacheStep

\* A change of the cache leaves the other references in place.
LEMMA MovedHolds ==
  ASSUME IInv, NEW k, NEW g, Moved(cache, sess, k, g), NEW c \in Conns, NEW s \in Sess
  PROVE  g[s].references >= One(conn[c].session, s) + app[s]
  <1>1. ConnHeld(conn, s) >= One(conn[c].session, s)
    BY ConnCount DEF ConnOnly
  <1>2. /\ CacheHeld(cache, s) \in Nat /\ CacheHeld(k, s) \in Nat
        /\ ConnHeld(conn, s) \in Nat /\ TmpHeld(conn, s) \in Nat
    BY CountType
  <1>3. app[s] \in Nat
    BY DEF IInv, TypeInv
  <1>4. sess[s].references = CacheHeld(cache, s) + ConnHeld(conn, s) + TmpHeld(conn, s) + app[s]
    BY ReferencesAre DEF IInv
  <1>5. g[s].references = sess[s].references + CacheHeld(k, s) - CacheHeld(cache, s)
    BY DEF Moved
  <1>6. QED
    BY <1>1, <1>2, <1>3, <1>4, <1>5, OneType

\* HITLS_Clear drops the session of a connection that ended badly.
LEMMA HITLS_ClearKeeps ==
  ASSUME IInv, UNCHANGED setting, NEW c \in Conns, HITLS_Clear(c)
  PROVE  IInv'
  <1> DEFINE s == conn[c].session
             u == SESSMGR_RemoveSession(s)
             q == [NewConn EXCEPT !.session = s]
  <1>1. UNCHANGED <<config, app, now>> /\ conn[c].tmp = None /\ s \in Held
    BY WaitingTmp, ConnFields DEF HITLS_Clear, IInv
  <1>2. CASE BadSession(c)
    <2>1. cache' = u.h /\ sess' = Free(u.f, s) /\ Set(c, NewConn) /\ s \in Sess
      BY <1>1, <1>2 DEF HITLS_Clear, BadSession, Held
    <2>2. Moved(cache, sess, u.h, u.f) /\ Shrunk(cache, sess, u.h, u.f)
      BY <2>1, RemoveMoves DEF IInv
    <2> DEFINE f == u.f
    <2>3. Moved(cache, sess, cache', f) /\ Shrunk(cache, sess, cache', f) /\ sess' = Free(f, s)
      BY <2>1, <2>2
    <2> HIDE DEF u, f
    <2>4. f \in Objects /\ cache' \in [Ids -> Held]
      BY <2>3 DEF Moved
    <2>5. f[s].references > 0
      <3>1. f[s].references >= One(s, s) + app[s]
        BY <2>1, <2>3, MovedHolds
      <3>2. app[s] \in Nat /\ f[s].references \in Nat
        BY <2>1, <2>4, ObjectsFields DEF IInv, TypeInv
      <3>3. QED
        BY <3>1, <3>2, OneType
    <2>6. sess' \in Objects /\ Freed(f, sess', s)
      BY <1>1, <2>3, <2>4, <2>5, FreeObjects
    <2>7. \A t \in Sess : sess'[t].references > 0 => f[t].references > 0
      BY <2>4, <2>6, OneType, ObjectsFields DEF Freed
    <2>8. CacheFits
      <3>1. \A i \in Ids : cache'[i] # None /\ sess'[cache'[i]].references > 0 => f[cache'[i]].references > 0
        BY <2>4, <2>7 DEF Held
      <3>2. QED
        BY <2>3, <2>6, <3>1, ShrunkFits DEF Freed, Same
    <2>9. Evolves({}, {})
      <3>1. \A t \in Sess : sess'[t].references > 0 \/ ~sess'[t].enable
        BY <2>6, ObjectsFields
      <3>2. QED
        BY <2>3, <2>6, <2>7, <3>1 DEF Moved, Freed, Same, Evolves
    <2>10. conn' \in [Conns -> ConnRec] /\ conn'[c] = NewConn /\ Others({c}, {}, {})
      BY <2>1, NewConnRest, SetConn DEF IInv, AtRest
    <2>11. Control(c, conn'[c]) /\ Ghost(c, conn'[c], sess', now)
      BY <2>10, NewConnRest, RestFits
    <2>12. \A t \in Sess : sess'[t].references
             = sess[t].references - One(conn[c].session, t) - One(conn[c].tmp, t)
               + One(conn'[c].session, t) + One(conn'[c].tmp, t)
               + (CacheHeld(cache', t) - CacheHeld(cache, t))
      <3>1. \A t \in Sess : /\ CacheHeld(cache', t) \in Nat /\ CacheHeld(cache, t) \in Nat
                            /\ sess[t].references \in Nat
        BY CountType, ObjectsFields DEF IInv, TypeInv
      <3>2. conn'[c].session = None /\ conn'[c].tmp = None
        BY <2>10, NewConnRest DEF AtRest
      <3>3. QED
        BY <1>1, <2>3, <2>6, <3>1, <3>2, NoneCount, OneType DEF Moved, Freed
    <2>13. QED
      BY <1>1, <2>4, <2>6, <2>8, <2>9, <2>10, <2>11, <2>12, CacheStep
  <1>3. CASE ~BadSession(c)
    <2>1. UNCHANGED <<cache, sess>> /\ Set(c, q)
      BY <1>3 DEF HITLS_Clear
    <2>2. AtRest(q) /\ q.session = s
      BY <1>1 DEF AtRest, NewConn, ConnRec, Places, Held
    <2> HIDE DEF q
    <2>3. sess' \in Objects /\ Follows(sess, sess', {}, {})
      BY <2>1, FollowsSelf DEF IInv, TypeInv
    <2>4. \A t \in Sess : sess'[t].references
            = sess[t].references - One(conn[c].session, t) + One(q.session, t)
      BY <2>1, <2>2, OneType, ObjectsFields DEF IInv, TypeInv
    <2>5. QED
      BY <1>1, <2>1, <2>2, <2>3, <2>4, RestStep
  <1>4. QED
    BY <1>2, <1>3

\* HITLS_SetSession.
LEMMA SetSessionKeeps ==
  ASSUME IInv, UNCHANGED setting, NEW c \in Clients, NEW s \in Sess, HITLS_SetSession(c, s)
  PROVE  IInv'
  <1> DEFINE a == conn[c].session
             u == IF BadSession(c) THEN SESSMGR_RemoveSession(a) ELSE [h |-> cache, f |-> sess]
             f == u.f
             e == Free(f, a)
             r == [conn[c] EXCEPT !.session = s]
  <1>1. c \in Conns
    BY DEF Conns
  <1>2. /\ cache' = u.h /\ sess' = Dup(e, s) /\ Set(c, r) /\ Ended(c) /\ app[s] > 0
        /\ UNCHANGED <<config, app, now>>
    BY DEF HITLS_SetSession
  <1>3. conn[c].tmp = None /\ a \in Held
    BY <1>1, <1>2, WaitingTmp, ConnFields DEF IInv
  <1>4. Moved(cache, sess, cache', f) /\ Shrunk(cache, sess, cache', f)
    <2>1. CASE BadSession(c)
      <3>1. u = SESSMGR_RemoveSession(a) /\ a \in Sess
        BY <1>3, <2>1 DEF BadSession, Held
      <3>2. Moved(cache, sess, u.h, u.f) /\ Shrunk(cache, sess, u.h, u.f)
        BY <3>1, RemoveMoves DEF IInv
      <3>3. QED
        BY <3>2, <1>2
    <2>2. CASE ~BadSession(c)
      <3>1. cache' = cache /\ f = sess
        BY <1>2, <2>2
      <3>2. QED
        BY <3>1, MovedSelf
    <2>3. QED
      BY <2>1, <2>2
  <1>5. /\ r.session = s /\ r.tmp = None /\ r.pc = conn[c].pc /\ r.resume = conn[c].resume
        /\ r.off = conn[c].off /\ r.old = conn[c].old
    BY <1>1, <1>3, ConnFields DEF IInv, ConnRec
  <1>6. r \in ConnRec
    BY <1>1, ConnFields DEF IInv, ConnRec, Held
  <1> HIDE DEF u, f, r
  <1>7. f \in Objects /\ cache' \in [Ids -> Held] /\ s \in Held
    BY <1>4 DEF Moved, Held
  <1>8. ASSUME NEW t \in Sess
        PROVE  /\ f[t].references >= One(a, t) + app[t]
               /\ app[t] \in Nat /\ f[t].references \in Nat
    BY <1>1, <1>4, <1>7, MovedHolds, ObjectsFields DEF IInv, TypeInv
  <1>9. a # None => f[a].references > 0
    BY <1>3, <1>8, OneType DEF Held
  <1>10. e \in Objects /\ Freed(f, e, a)
    BY <1>3, <1>7, <1>9, FreeObjects
  <1> HIDE DEF e
  <1>11. e[s].references > 0
    BY <1>2, <1>8, <1>10, OneType DEF Freed
  <1>12. sess' \in Objects /\ Dupped(e, sess', s)
    BY <1>2, <1>7, <1>10, DupObjects
  <1>13. \A t \in Sess : sess'[t].references > 0 => e[t].references > 0 /\ f[t].references > 0
    BY <1>8, <1>10, <1>11, <1>12, OneType, ObjectsFields DEF Freed, Dupped
  <1>14. CacheFits
    <2>1. \A i \in Ids : cache'[i] # None /\ sess'[cache'[i]].references > 0 => f[cache'[i]].references > 0
      BY <1>7, <1>13 DEF Held
    <2>2. \A t \in Sess : sess'[t].references > 0 => sess'[t].id = f[t].id /\ sess'[t].left = f[t].left
      BY <1>10, <1>12, <1>13 DEF Freed, Dupped, Same
    <2>3. QED
      BY <1>4, <2>1, <2>2, ShrunkFits
  <1>15. Evolves({}, {})
    <2>1. \A t \in Sess : sess'[t].references > 0 \/ ~sess'[t].enable
      BY <1>12, ObjectsFields
    <2>2. QED
      BY <1>4, <1>10, <1>12, <1>13, <2>1 DEF Moved, Freed, Dupped, Same, Evolves
  <1>16. conn' \in [Conns -> ConnRec] /\ conn'[c] = r /\ Others({c}, {}, {})
    BY <1>1, <1>2, <1>6, SetConn DEF IInv
  <1>17. Control(c, conn[c]) /\ Ghost(c, conn[c], sess, now)
    BY <1>1 DEF IInv, ControlInv, GhostInv
  <1>18. Control(c, conn'[c])
    BY <1>2, <1>5, <1>16, <1>17, SessionMgrAssumption DEF Control, Ended
  <1>19. Ghost(c, conn'[c], sess', now)
    BY <1>2, <1>5, <1>16, <1>17 DEF Ghost, Recorded, Clean, Ended
  <1>20. \A t \in Sess : sess'[t].references
           = sess[t].references - One(conn[c].session, t) - One(conn[c].tmp, t)
             + One(conn'[c].session, t) + One(conn'[c].tmp, t)
             + (CacheHeld(cache', t) - CacheHeld(cache, t))
    <2>1. \A t \in Sess : /\ CacheHeld(cache', t) \in Nat /\ CacheHeld(cache, t) \in Nat
                          /\ sess[t].references \in Nat
      BY CountType, ObjectsFields DEF IInv, TypeInv
    <2>2. QED
      BY <1>3, <1>4, <1>5, <1>10, <1>12, <1>16, <2>1, NoneCount, OneType DEF Moved, Freed, Dupped
  <1>21. QED
    BY <1>1, <1>2, <1>7, <1>12, <1>14, <1>15, <1>16, <1>18, <1>19, <1>20, CacheStep

\* SESSMGR_Find puts the application's session into the cache.
LEMMA FindStoreKeeps ==
  ASSUME IInv, UNCHANGED setting, NEW c \in Servers, FindStore(c)
  PROVE  IInv'
  <1> DEFINE a == conn[c].tmp
             u == SESSMGR_InsertSession(cache, sess, a)
             p == IF "timeUpdate" \in mode THEN "touch" ELSE "checked"
             r == [conn[c] EXCEPT !.pc = p]
  <1>1. c \in Conns /\ c \notin Clients
    BY SessionMgrAssumption DEF Conns
  <1>2. conn[c].pc = "store" /\ cache' = u.h /\ sess' = u.f /\ Set(c, r) /\ UNCHANGED <<config, app, now>>
    BY DEF FindStore
  <1>3. Control(c, conn[c]) /\ Ghost(c, conn[c], sess, now)
    BY <1>1 DEF IInv, ControlInv, GhostInv
  <1>4. a # None /\ a \in Sess /\ setting.external
    BY <1>1, <1>2, <1>3, ConnFields DEF IInv, Control, Held
  <1>5. sess[a].references > 0
    BY <1>1, <1>4, InUse DEF IInv
  <1>6. ASSUME NEW i \in Ids, cache[i] # None
        PROVE  sess[cache[i]].references > 0 /\ sess[cache[i]].id = i
    BY <1>6, InUse DEF IInv, IdInv
  <1>7. ASSUME NEW i \in Ids, cache[i] = a
        PROVE  sess[a].references > 1
    <2>1. sess[a].references >= One(cache[i], a) + One(conn[c].session, a) + One(a, a) + app[a]
      BY <1>1, <1>4, BothHold DEF IInv
    <2>2. One(cache[i], a) = 1 /\ One(a, a) = 1
      BY <1>7 DEF One
    <2>3. sess[a].references \in Nat /\ app[a] \in Nat
      BY <1>4, ObjectsFields DEF IInv, TypeInv
    <2>4. QED
      BY <2>1, <2>2, <2>3, OneType
  <1>8. p \in {"touch", "checked"}
    OBVIOUS
  <1>9. Moved(cache, sess, u.h, u.f) /\ Added(cache, sess, u.h, u.f, a)
    <2>1. cache \in [Ids -> Held] /\ sess \in Objects
      BY DEF IInv, TypeInv
    <2> HIDE DEF a
    <2>2. QED
      BY <2>1, <1>4, <1>5, <1>6, <1>7, InsertMoves
  <1> HIDE DEF u, p
  <1>10. Moved(cache, sess, cache', sess') /\ Added(cache, sess, cache', sess', a)
    BY <1>2, <1>9
  <1>11. /\ r.session = conn[c].session /\ r.tmp = a /\ r.pc = p /\ r.resume = conn[c].resume
         /\ r.off = conn[c].off /\ r.old = conn[c].old
    BY <1>1, ConnFields DEF IInv, ConnRec
  <1>12. r \in ConnRec
    BY <1>1, <1>8, ConnFields DEF IInv, ConnRec, Places
  <1> HIDE DEF r
  <1>13. conn' \in [Conns -> ConnRec] /\ conn'[c] = r /\ Others({c}, {}, {})
    BY <1>1, <1>2, <1>12, SetConn DEF IInv
  <1>14. Control(c, conn'[c])
    BY <1>1, <1>2, <1>3, <1>4, <1>8, <1>11, <1>13 DEF Control
  <1>15. \A s \in Sess : sess'[s].references > 0 \/ ~sess'[s].enable
    BY <1>10, ObjectsFields DEF Moved
  <1>16. Ghost(c, conn'[c], sess', now)
    <2>1. Recorded(conn[c], sess, now) /\ conn[c].off \subseteq Sess /\ conn[c].old \subseteq Sess
      BY <1>1, <1>3, ConnFields DEF Ghost, IInv, ConnRec
    <2>2. Recorded(conn'[c], sess', now)
      BY <2>1, <1>10, <1>11, <1>13, <1>15 DEF Recorded, Moved
    <2>3. QED
      BY <2>2, <1>1, <1>2, <1>3, <1>4, <1>8, <1>11, <1>13 DEF Ghost, Clean
  <1>17. CacheFits
    <2>1. ASSUME NEW i \in Ids, cache'[i] # None, sess'[cache'[i]].references > 0
          PROVE  sess'[cache'[i]].id = i
      <3>1. cache'[i] \in Sess
        BY <1>10, <2>1 DEF Moved, Held
      <3>2. sess[cache'[i]].id = i
        BY <1>6, <1>10, <2>1 DEF Added
      <3>3. QED
        BY <1>10, <2>1, <3>1, <3>2 DEF Moved
    <2>2. QED
      BY <2>1, <1>4 DEF CacheFits
  <1>18. Evolves({}, {})
    BY <1>10, <1>15 DEF Moved, Evolves
  <1>19. \A s \in Sess : sess'[s].references
           = sess[s].references - One(conn[c].session, s) - One(conn[c].tmp, s)
             + One(conn'[c].session, s) + One(conn'[c].tmp, s)
             + (CacheHeld(cache', s) - CacheHeld(cache, s))
    <2>1. \A s \in Sess : /\ CacheHeld(cache', s) \in Nat /\ CacheHeld(cache, s) \in Nat
                          /\ sess[s].references \in Nat
      BY CountType, ObjectsFields DEF IInv, TypeInv
    <2>2. QED
      BY <1>10, <1>11, <1>13, <2>1, OneType DEF Moved
  <1>20. cache' \in [Ids -> Held] /\ sess' \in Objects
    BY <1>10 DEF Moved
  <1>21. QED
    BY <1>1, <1>2, <1>13, <1>14, <1>16, <1>17, <1>18, <1>19, <1>20, CacheStep

\* HsSetSessionInfo stores the session of a new connection.
LEMMA FinishedStoreKeeps ==
  ASSUME IInv, UNCHANGED setting, NEW c \in Conns, NEW s \in Sess, FinishedStore(c, s)
  PROVE  IInv'
  <1> DEFINE f == New(Free(sess, conn[c].session), s, conn[c].id, now)
             u == IF Stores(c) THEN SESSMGR_InsertSession(cache, f, s) ELSE [h |-> cache, f |-> f]
             m == (conn[c].mode \ {"timeUpdate"}) \cup (mode \cap {"timeUpdate"})
             r == [conn[c] EXCEPT !.session = s, !.pc = "saved", !.mode = m]
             g == SetAt(c, r)
  <1>1. /\ conn[c].pc = "finish" /\ sess[s].references = 0 /\ cache' = u.h /\ sess' = u.f
        /\ conn' = Forget(g, s) /\ UNCHANGED <<config, app, now>>
    BY DEF FinishedStore, Unused, SetAt
  <1>2. Control(c, conn[c]) /\ Ghost(c, conn[c], sess, now)
    BY DEF IInv, ControlInv, GhostInv
  <1>3. conn[c].id \in Ids \cup {None} /\ now \in 0..MaxTime
    BY ConnFields DEF IInv, TypeInv, ConnRec
  <1>4. InPlace(c, f, s) /\ f[s].id = conn[c].id /\ ~f[s].left
    BY <1>1, <1>3, NewInPlace
  <1>5. m \in SUBSET Flags
    BY ConnFields DEF IInv, ConnRec, Flags
  <1>6. \/ cache' = cache /\ sess' = f
        \/ \E v : v = SESSMGR_InsertSession(cache, f, s) /\ cache' = v.h /\ sess' = v.f
    BY <1>1
  <1> HIDE DEF f, u, m
  <1>7. /\ r.session = s /\ r.tmp = conn[c].tmp /\ r.pc = "saved" /\ r.resume = conn[c].resume
        /\ r.off = conn[c].off /\ r.old = conn[c].old
    BY ConnFields DEF IInv, ConnRec
  <1>8. r \in ConnRec
    BY <1>5, ConnFields DEF IInv, ConnRec, Places, Held
  <1> HIDE DEF r
  <1>9. g \in [Conns -> ConnRec]
    BY <1>8 DEF IInv, TypeInv, SetAt
  <1>10. conn' \in [Conns -> ConnRec] /\ Without(g, conn', {s}, {})
    BY <1>1, <1>9, ForgetConns
  <1>11. Others({c}, {s}, {}) /\ Becomes(c, r, {s}, {})
    BY <1>8, <1>10, WithoutConn DEF IInv
  <1> HIDE DEF g
  <1>12. /\ f \in Objects /\ Follows(sess, f, {s}, {})
         /\ \A t \in Sess : f[t].references = sess[t].references - One(conn[c].session, t) + One(s, t)
    BY <1>4 DEF InPlace
  <1>13. \A i \in Ids : cache[i] # s
    BY <1>1, InUse, SessionMgrAssumption DEF IInv
  <1>14. ASSUME NEW i \in Ids, cache[i] # None
         PROVE  /\ cache[i] \in Sess /\ f[cache[i]].references > 0 /\ f[cache[i]].id = i
                /\ f[cache[i]].left = sess[cache[i]].left
    <2> DEFINE t == cache[i]
    <2>1. t \in Sess /\ t # s
      BY <1>13, <1>14 DEF IInv, TypeInv, Held
    <2>2. sess[t].references >= One(cache[i], t) + One(conn[c].session, t) + One(conn[c].tmp, t) + app[t]
      BY <2>1, BothHold DEF IInv
    <2>3. One(cache[i], t) = 1 /\ One(s, t) = 0
      BY <2>1 DEF One
    <2>4. sess[t].references \in Nat /\ app[t] \in Nat
      BY <2>1, ObjectsFields DEF IInv, TypeInv
    <2>5. f[t].references = sess[t].references - One(conn[c].session, t) + One(s, t)
      BY <2>1, <1>12
    <2>6. f[t].references > 0
      <3> HIDE DEF t
      <3>1. QED
        BY <2>2, <2>3, <2>4, <2>5, OneType
    <2>7. f[t].id = sess[t].id /\ f[t].left = sess[t].left
      BY <2>1, <2>6, <1>12 DEF Follows
    <2>8. sess[t].id = i
      BY <1>14 DEF IInv, IdInv
    <2>9. QED
      BY <2>1, <2>6, <2>7, <2>8
  <1>15. f[s].references > 0
    <2>1. conn[c].session # s
      BY <1>1, InUse, SessionMgrAssumption DEF IInv
    <2>2. One(conn[c].session, s) = 0 /\ One(s, s) = 1
      BY <2>1 DEF One
    <2>3. QED
      BY <2>2, <1>1, <1>12
  <1>16. cache \in [Ids -> Held]
    BY DEF IInv, TypeInv
  <1>17. Moved(cache, f, cache', sess') /\ Added(cache, f, cache', sess', s)
    <2>1. CASE cache' = cache /\ sess' = f
      <3>1. \A t \in Sess : CacheHeld(cache, t) \in Nat /\ f[t].references \in Nat
        BY <1>12, CountType, ObjectsFields
      <3>2. QED
        BY <2>1, <3>1, <1>12, <1>16 DEF Moved, Added
    <2>2. ASSUME NEW v, v = SESSMGR_InsertSession(cache, f, s), cache' = v.h, sess' = v.f
          PROVE  Moved(cache, f, cache', sess') /\ Added(cache, f, cache', sess', s)
      <3>1. \A i \in Ids : cache[i] = s => f[s].references > 1
        BY <1>13
      <3>2. Moved(cache, f, v.h, v.f) /\ Added(cache, f, v.h, v.f, s)
        BY <2>2, <3>1, <1>12, <1>14, <1>15, <1>16, InsertMoves
      <3>3. QED
        BY <2>2, <3>2
    <2>3. QED
      BY <1>6, <2>1, <2>2
  <1>18. cache' \in [Ids -> Held] /\ sess' \in Objects
    BY <1>17 DEF Moved
  <1>19. CacheFits
    <2>1. ASSUME NEW i \in Ids, cache'[i] # None, sess'[cache'[i]].references > 0
          PROVE  sess'[cache'[i]].id = i /\ (~setting.external => ~sess'[cache'[i]].left)
      <3>1. cache'[i] \in Sess
        BY <2>1, <1>18 DEF Held
      <3>2. sess'[cache'[i]].id = f[cache'[i]].id /\ sess'[cache'[i]].left = f[cache'[i]].left
        BY <2>1, <3>1, <1>13, <1>17 DEF Moved, Added
      <3>3. CASE cache'[i] = cache[i]
        <4>1. ~setting.external => ~sess[cache[i]].left
          BY <2>1, <3>3 DEF IInv, RemovedStaysRemoved, Cached
        <4>2. QED
          BY <2>1, <3>2, <3>3, <4>1, <1>14
      <3>4. CASE cache'[i] = s /\ f[s].id = i
        BY <3>2, <3>4, <1>4
      <3>5. QED
        BY <2>1, <3>3, <3>4, <1>17 DEF Added
    <2>2. QED
      BY <2>1 DEF CacheFits
  <1>20. Evolves({s}, {})
    <2>1. \A t \in Sess : sess'[t].references > 0 \/ ~sess'[t].enable
      BY <1>18, ObjectsFields
    <2>2. QED
      BY <2>1, <1>12, <1>17 DEF Moved, Added, Follows, Evolves
  <1>21. conn'[c].session = s /\ conn'[c].tmp = None /\ conn[c].tmp = None
    BY <1>1, <1>2, <1>7, <1>11 DEF Becomes, Control
  <1>22. Control(c, conn'[c])
    BY <1>7, <1>11, <1>21, SessionMgrAssumption DEF Control, Becomes
  <1>23. Ghost(c, conn'[c], sess', now)
    BY <1>1, <1>2, <1>7, <1>11 DEF Ghost, Recorded, Clean, Becomes
  <1>24. \A t \in Sess : sess'[t].references
           = sess[t].references - One(conn[c].session, t) - One(conn[c].tmp, t)
             + One(conn'[c].session, t) + One(conn'[c].tmp, t)
             + (CacheHeld(cache', t) - CacheHeld(cache, t))
    <2>1. \A t \in Sess : /\ CacheHeld(cache', t) \in Nat /\ CacheHeld(cache, t) \in Nat
                          /\ sess[t].references \in Nat
      BY CountType, ObjectsFields DEF IInv, TypeInv
    <2>2. QED
      BY <1>12, <1>17, <1>21, <2>1, NoneCount, OneType DEF Moved
  <1>25. QED
    BY <1>1, <1>10, <1>11, <1>18, <1>19, <1>20, <1>22, <1>23, <1>24, CacheStep

-----------------------------------------------------------------------------
(* The configuration and time.                                             *)

\* SetCacheMode, SetCacheSize and the clock: nothing that was recorded becomes usable again.
LEMMA QuietStep ==
  ASSUME IInv, TypeInv', UNCHANGED <<sess, cache, conn, app, setting>>, now' >= now
  PROVE  IInv'
  <1>1. References'
    BY DEF IInv, References
  <1>2. CacheKept
    BY DEF IInv, IdInv, RemovedStaysRemoved, Cached, CacheKept
  <1>3. Others({}, {}, {}) /\ MovedOK({}) /\ Evolves({}, {})
    BY DEF Others, MovedOK, Evolves
  <1>4. QED
    BY <1>1, <1>2, <1>3, StepKeeps

\* HITLS_CFG_SetSessionCacheMode.
LEMMA SetCacheModeKeeps ==
  ASSUME IInv, UNCHANGED setting, NEW m \in setting.modes, SetCacheMode(m)
  PROVE  IInv'
  <1>1. TypeInv' /\ now' >= now
    BY SessionMgrAssumption DEF IInv, TypeInv, SetCacheMode
  <1>2. QED
    BY <1>1, QuietStep DEF SetCacheMode

\* HITLS_CFG_SetSessionCacheSize.
LEMMA SetCacheSizeKeeps ==
  ASSUME IInv, UNCHANGED setting, NEW n \in setting.limits, SetCacheSize(n)
  PROVE  IInv'
  <1>1. TypeInv' /\ now' >= now
    BY SessionMgrAssumption DEF IInv, TypeInv, SetCacheSize
  <1>2. QED
    BY <1>1, QuietStep DEF SetCacheSize

\* Time passes: what has timed out stays so.
LEMMA TickKeeps ==
  ASSUME IInv, UNCHANGED setting, Tick
  PROVE  IInv'
  <1>1. TypeInv' /\ now' >= now
    BY SessionMgrAssumption DEF IInv, TypeInv, Tick, config
  <1>2. QED
    BY <1>1, QuietStep DEF Tick

-----------------------------------------------------------------------------
(* The invariant.                                                          *)

\* At the start nobody holds anything.
LEMMA InitHolds == Init => IInv
  <1> SUFFICES ASSUME Init PROVE IInv
    OBVIOUS
  <1>1. sess \in Objects
    <2>1. NoSession \in Object
      BY SessionMgrAssumption DEF Object, NoSession
    <2>2. QED
      BY <2>1 DEF Init, Objects
  <1>2. NewConn \in ConnRec
    BY NewConnRest DEF AtRest
  <1>3. TypeInv
    BY <1>1, <1>2, SessionMgrAssumption DEF Init, TypeInv, Held
  <1>4. References
    <2>1. Cardinality({}) = 0
      BY FS_EmptySet
    <2>2. ASSUME NEW s \in Sess
          PROVE  CacheHeld(cache, s) = 0 /\ ConnHeld(conn, s) = 0 /\ TmpHeld(conn, s) = 0
      <3>1. /\ {i \in Ids : cache[i] = s} = {}
            /\ {c \in Conns : conn[c].session = s} = {}
            /\ {c \in Conns : conn[c].tmp = s} = {}
        BY SessionMgrAssumption DEF Init, NewConn
      <3>2. QED
        BY <2>1, <3>1 DEF CacheHeld, ConnHeld, TmpHeld
    <2>3. \A s \in Sess : sess[s].references = 0 /\ app[s] = 0
      BY DEF Init, NoSession
    <2>4. QED
      BY <2>2, <2>3, ReferencesAre
  <1>5. IdInv /\ RemovedStaysRemoved
    BY DEF Init, IdInv, RemovedStaysRemoved, Cached
  <1>6. ASSUME NEW c \in Conns
        PROVE  Control(c, conn[c]) /\ Ghost(c, conn[c], sess, now)
    BY NewConnRest, RestFits DEF Init
  <1>7. QED
    BY <1>3, <1>4, <1>5, <1>6 DEF IInv, ControlInv, GhostInv

\* A step that changes nothing.
LEMMA StutterKeeps == IInv /\ UNCHANGED vars => IInv'
  <1> SUFFICES ASSUME IInv, UNCHANGED vars PROVE IInv'
    OBVIOUS
  <1>1. TypeInv' /\ now' >= now
    BY SessionMgrAssumption DEF IInv, TypeInv, vars
  <1>2. QED
    BY <1>1, QuietStep DEF vars

\* Every step keeps the invariant.
LEMMA NextKeeps == IInv /\ Next => IInv'
  <1> SUFFICES ASSUME IInv, Next PROVE IInv'
    OBVIOUS
  <1>1. UNCHANGED setting
    BY DEF Next
  <1>2. ASSUME NEW c \in Conns, Connection(c) PROVE IInv'
    BY <1>1, <1>2, FinishedCleanupKeeps, FinishedFailsKeeps, FinishedNotifyKeeps, FinishedStoreKeeps,
       FatalAlertKeeps, HITLS_ClearKeeps, HITLS_FreeKeeps, GetDupSessionKeeps, CloseKeeps DEF Connection
  <1>3. ASSUME NEW c \in Servers, Server(c) PROVE IInv'
    BY <1>1, <1>3, FindBeginKeeps, FindCheckKeeps, FindExternalKeeps, FindStoreKeeps, FindTouchKeeps,
       CheckResumeAcceptKeeps, CheckResumeFullKeeps, CheckResumeFailKeeps, CheckResumeParamKeeps,
       CheckResumeTicketKeeps DEF Server, Held
  <1>4. ASSUME NEW c \in Clients, Client(c) PROVE IInv'
    BY <1>1, <1>4, ClientPrepareKeeps, ClientResumeKeeps, UpdateTicketKeeps, SetSessionKeeps DEF Client
  <1>5. ASSUME NEW c \in Within(setting.servers, Servers), Server(c) \/ Connection(c) PROVE IInv'
    BY <1>2, <1>3, <1>5 DEF Within, Conns
  <1>6. ASSUME NEW c \in Within(setting.clients, Clients), Client(c) \/ Connection(c) PROVE IInv'
    BY <1>2, <1>4, <1>6 DEF Within, Conns
  <1>7. ASSUME NEW s \in Sess, HITLS_SESS_Free(s) \/ HITLS_CFG_RemoveSession(s) PROVE IInv'
    BY <1>1, <1>7, SessFreeKeeps, RemoveSessionKeeps
  <1>8. ASSUME NEW t \in {0, now}, HITLS_CFG_ClearTimeoutSession(t) PROVE IInv'
    BY <1>1, <1>8, ClearTimeoutSessionKeeps
  <1>9. ASSUME NEW m \in setting.modes, SetCacheMode(m) PROVE IInv'
    BY <1>1, <1>9, SetCacheModeKeeps
  <1>10. ASSUME NEW n \in setting.limits, SetCacheSize(n) PROVE IInv'
    BY <1>1, <1>10, SetCacheSizeKeeps
  <1>11. ASSUME Tick PROVE IInv'
    BY <1>1, <1>11, TickKeeps
  <1>12. QED
    BY <1>5, <1>6, <1>7, <1>8, <1>9, <1>10, <1>11 DEF Next

\* The invariant holds in every state.
LEMMA Invariance == Spec => []IInv
  <1>1. IInv /\ [Next]_vars => IInv'
    BY NextKeeps, StutterKeeps
  <1>2. QED
    BY <1>1, InitHolds, PTL DEF Spec

\* The reference count of a session is the number of its holders in every state:
\* HITLS_SESS_Dup and HITLS_SESS_Free balance at all their callers, however many
\* connections, sessions and ids there are.
THEOREM ReferencesTheorem == Spec => []References
  <1>1. IInv => References
    BY DEF IInv
  <1>2. QED
    BY <1>1, Invariance, PTL

\* A handshake resumes no session that was disabled, or, without sessionGetCb, had
\* timed out, when it began: SESSMGR_Find, ServerCheckResume, ServerCheckResumeTicket
\* and ClientPrepareSession under every interleaving.
THEOREM ResumesUsableTheorem == Spec => []ResumesUsable
  <1>1. IInv => ResumesUsable
    BY DEF IInv, GhostInv, Ghost, Clean, ResumesUsable
  <1>2. QED
    BY <1>1, Invariance, PTL

\* Without sessionGetCb a session that left the cache is not inserted again
\* (SESSMGR_InsertSession is only reached with a new session).
THEOREM RemovedStaysRemovedTheorem == Spec => []RemovedStaysRemoved
  <1>1. IInv => RemovedStaysRemoved
    BY DEF IInv
  <1>2. QED
    BY <1>1, Invariance, PTL
=============================================================================
