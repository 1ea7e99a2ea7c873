------------------------- MODULE DtlsRecordReadProofs -------------------------
(***************************************************************************)
(* DtlsRecordRead for every window size, number of epochs, of sequence     *)
(* numbers and of cached records.                                          *)
(***************************************************************************)
EXTENDS DtlsRecordRead, SequenceTheorems, TLAPS

-------------------------------------------------------------------------------
(* The sliding window. *)

\* w remembers exactly the members of A that lie in its reach.
WindowTracks(w, A) ==
  /\ \A s \in A : s <= w.top
  /\ \A s \in A : w.top - s < WindowSize => (w.top - s) \in w.window
  /\ \A b \in w.window : b <= w.top /\ (w.top - b) \in A

\* An update keeps the window a window word.
LEMMA UpdateType ==
  ASSUME NEW w \in RecSlidWindow, NEW seq \in Nat
  PROVE  /\ RecAntiReplayUpdate(w, seq) \in RecSlidWindow
         /\ RecAntiReplayUpdate(w, seq).top \in {w.top, seq}
  BY WindowSizeAssumption DEF RecSlidWindow, RecAntiReplayUpdate, ShiftLeft

\* A number that passes the check is new, and the updated window tracks it.
LEMMA UpdateTracks ==
  ASSUME NEW w \in RecSlidWindow, NEW seq \in Nat, NEW A \in SUBSET Nat,
         WindowTracks(w, A), ~RecAntiReplayCheck(w, seq)
  PROVE  seq \notin A /\ WindowTracks(RecAntiReplayUpdate(w, seq), A \cup {seq})
<1>1. seq \notin A
  BY WindowSizeAssumption DEF RecSlidWindow, WindowTracks, RecAntiReplayCheck
<1>2. CASE seq <= w.top
  BY <1>1, <1>2, WindowSizeAssumption
  DEF RecSlidWindow, WindowTracks, RecAntiReplayCheck, RecAntiReplayUpdate
<1>3. CASE ~(seq <= w.top)
  <2> DEFINE u == RecAntiReplayUpdate(w, seq)
  <2>1. u.top = seq
    BY <1>3, WindowSizeAssumption DEF RecSlidWindow, RecAntiReplayUpdate
  <2>2. CASE seq - w.top >= WindowSize
    BY <1>1, <1>3, <2>2, WindowSizeAssumption
    DEF RecSlidWindow, WindowTracks, RecAntiReplayUpdate
  <2>3. CASE ~(seq - w.top >= WindowSize)
    <3>1. u = [top |-> seq, window |-> ShiftLeft(w.window, seq - w.top) \cup {0}]
      BY <1>3, <2>3, WindowSizeAssumption DEF RecSlidWindow, RecAntiReplayUpdate
    <3>2. \A b \in ShiftLeft(w.window, seq - w.top) : b <= seq /\ (seq - b) \in A
      BY <1>3, WindowSizeAssumption DEF RecSlidWindow, WindowTracks, ShiftLeft
    <3>3. \A s \in A : seq - s < WindowSize => (seq - s) \in ShiftLeft(w.window, seq - w.top)
      BY <1>3, WindowSizeAssumption DEF RecSlidWindow, WindowTracks, ShiftLeft
    <3>4. \A s \in A : s <= seq
      BY <1>3 DEF RecSlidWindow, WindowTracks
    <3> QED BY <1>1, <3>1, <3>2, <3>3, <3>4, WindowSizeAssumption DEF WindowTracks
  <2> QED BY <2>2, <2>3
<1> QED BY <1>1, <1>2, <1>3 DEF RecSlidWindow

\* A window that tracks A refuses a number in its reach only if it is in A.
LEMMA FreshPasses ==
  ASSUME NEW w \in RecSlidWindow, NEW A \in SUBSET Nat, WindowTracks(w, A),
         NEW s \in Nat, s \notin A, s + WindowSize > w.top
  PROVE  ~RecAntiReplayCheck(w, s)
  BY WindowSizeAssumption DEF RecSlidWindow, WindowTracks, RecAntiReplayCheck

-------------------------------------------------------------------------------
(* The inductive invariant. *)

Accepted(e) == {s \in Seqs : times[e][s] > 0}

\* The window tracks what was accepted in the current epoch; nothing was in a
\* later one.
WindowInv ==
  /\ window.top \in Seqs
  /\ WindowTracks(window, Accepted(readEpoch))
  /\ \A e \in Epochs : e > readEpoch => Accepted(e) = {}

\* The peer numbers its records, and a CCS is the last thing before an epoch.
NetInv ==
  \A r \in net :
    /\ r.seq < wSeq[r.epoch]
    /\ r.type = "ccs" => r.epoch < wEpoch
    /\ \A q \in net : q.epoch = r.epoch /\ q.seq = r.seq => q = r

\* What is cached came from the network.
CacheInv ==
  /\ unprocessedHsMsg # NoRecord =>
        unprocessedHsMsg.type = "handshake" /\ (unprocessedHsMsg.auth => unprocessedHsMsg \in net)
  /\ \A i \in DOMAIN unprocessedAppMsgList :
        unprocessedAppMsgList[i].auth => unprocessedAppMsgList[i] \in net

\* A CCS that waits for its keys shows that the peer is one epoch ahead; an
\* epoch whose Finished is missing was entered by a CCS of this handshake.
HandshakeInv ==
  /\ ccs.ccsRecvflag /\ ~ccs.activeCipherFlag => readEpoch < wEpoch
  /\ ccs.isAllowActiveCipher /\ ~ccs.activeCipherFlag => hsCtx = "running"
  /\ pendingState => readEpoch < MaxEpoch
  /\ hsCtx # "running" => finished = readEpoch
  /\ finished # readEpoch => ccs.ccsRecvflag /\ ccs.activeCipherFlag
  /\ finished <= readEpoch

\* The types of everything but the caches, whose types are CacheType.
CoreType ==
  /\ net \subseteq {r \in Record : r.auth}
  /\ wEpoch \in Epochs /\ wSeq \in [Epochs -> 0 .. MaxSeq + 1]
  /\ readEpoch \in Epochs /\ window \in RecSlidWindow /\ pendingState \in BOOLEAN
  /\ ccs \in CcsCtx /\ hsCtx \in {"none", "running", "finished"}
  /\ hsRecList \in Seq(Record) /\ appRecList \in Seq(Record) /\ fatal \in BOOLEAN
  /\ times \in [Epochs -> [Seqs -> Nat]] /\ finished \in Epochs

CacheType ==
  unprocessedHsMsg \in Record \cup {NoRecord} /\ unprocessedAppMsgList \in Seq(Record)

CoreInv ==
  /\ CoreType /\ NoReplay /\ OnlyAuthentic /\ EpochNotAhead /\ AppAfterFinished
  /\ WindowInv /\ NetInv /\ HandshakeInv

IInv == CoreInv /\ CacheType /\ CacheInv

vars_ == <<net, wEpoch, wSeq, readEpoch, window, pendingState, ccs, hsCtx, hsRecList,
           appRecList, fatal, times, finished>>

\* The core does not mention the caches.
LEMMA CoreStutter == CoreInv /\ UNCHANGED vars_ => CoreInv'
  BY DEF CoreInv, vars_, CoreType, NoReplay, OnlyAuthentic, EpochNotAhead,
         AppAfterFinished, WindowInv, NetInv, HandshakeInv, WindowTracks, Accepted,
         RecSlidWindow

\* The inductive invariant holds when the connection is created.
LEMMA InitIInv == Init => IInv
<1> SUFFICES ASSUME Init PROVE IInv
  OBVIOUS
<1> USE ReadBounds, TypesAssumption, WindowSizeAssumption
<1>1. ccs \in CcsCtx /\ fatal \in BOOLEAN /\ pendingState \in BOOLEAN
  BY Zenon DEF Init, CcsCtx, CcsIdle
<1>1a. window \in RecSlidWindow
  BY DEF Init, RecSlidWindow, RecAntiReplayReset
<1>1b. CoreType /\ CacheType
  BY <1>1, <1>1a DEF Init, CoreType, CacheType, Epochs, Seqs
<1>2. WindowInv
  BY DEF Init, WindowInv, WindowTracks, Accepted, RecAntiReplayReset, Epochs, Seqs
<1>3. NoReplay /\ OnlyAuthentic /\ EpochNotAhead /\ AppAfterFinished /\ NetInv
  BY DEF Init, NoReplay, OnlyAuthentic, EpochNotAhead, AppAfterFinished, NetInv, Epochs, Seqs
<1>4. CacheInv /\ HandshakeInv
  BY DEF Init, CacheInv, HandshakeInv, CcsIdle, Epochs
<1> QED BY <1>1b, <1>2, <1>3, <1>4 DEF IInv, CoreInv

\* Entering the next epoch starts from an empty window.
LEMMA FreshWindow ==
  ASSUME CoreInv, pendingState, readEpoch < wEpoch, REC_ActivePendingState,
         times' \in [Epochs -> [Seqs -> Nat]],
         \A e \in Epochs : e > readEpoch => times'[e] = times[e]
  PROVE  /\ readEpoch' = readEpoch + 1 /\ readEpoch' \in Epochs /\ readEpoch' <= wEpoch
         /\ window' \in RecSlidWindow /\ pendingState' = FALSE /\ WindowInv'
<1> USE ReadBounds, WindowSizeAssumption
<1>1. readEpoch' = readEpoch + 1 /\ readEpoch' \in Epochs /\ pendingState' = FALSE
      /\ readEpoch' <= wEpoch
  BY DEF CoreInv, CoreType, HandshakeInv, REC_ActivePendingState, Epochs
<1>2. window' = [top |-> 0, window |-> {}]
  BY DEF REC_ActivePendingState, RecAntiReplayReset
<1>3. window' \in RecSlidWindow
  BY <1>2 DEF RecSlidWindow
<1>4. \A e \in Epochs : e > readEpoch => Accepted(e)' = {}
  BY DEF CoreInv, CoreType, WindowInv, Accepted, Epochs
<1>5. WindowInv'
  BY <1>1, <1>2, <1>4 DEF WindowInv, WindowTracks, CoreInv, CoreType, Epochs, Seqs
<1> QED BY <1>1, <1>3, <1>5

\* The cleared CCS context is a CCS context.
LEMMA CcsIdleType ==
  /\ CcsIdle \in CcsCtx /\ ~CcsIdle.ccsRecvflag /\ ~CcsIdle.isAllowActiveCipher
  /\ ~CcsIdle.activeCipherFlag
  BY DEF CcsIdle, CcsCtx

\* What accepting r in the current epoch does to the counts and the window.
LEMMA AcceptCounts ==
  ASSUME CoreInv, NEW r \in net, r.epoch = readEpoch,
         ~RecAntiReplayCheck(window, r.seq),
         times' = [times EXCEPT ![r.epoch][r.seq] = @ + 1],
         UNCHANGED peer,
         r.type = "app" => finished = readEpoch
  PROVE  LET w == RecAntiReplayUpdate(window, r.seq) IN
         /\ times' \in [Epochs -> [Seqs -> Nat]]
         /\ \A e \in Epochs : e > readEpoch => times'[e] = times[e]
         /\ NoReplay'
         /\ \A e \in Epochs, s \in Seqs : times'[e][s] > 0 =>
               e <= readEpoch /\ \E q \in net : q.epoch = e /\ q.seq = s
         /\ \A q \in net : (q.type = "app" /\ times'[q.epoch][q.seq] > 0)
                              => q.epoch <= finished
         /\ w \in RecSlidWindow
         /\ window' = w /\ readEpoch' = readEpoch => WindowInv'
<1> USE ReadBounds, WindowSizeAssumption
<1> DEFINE w == RecAntiReplayUpdate(window, r.seq)
           A == Accepted(readEpoch)
<1>0. r \in Record /\ readEpoch \in Epochs
      /\ times \in [Epochs -> [Seqs -> Nat]] /\ window \in RecSlidWindow
  BY DEF CoreInv, CoreType
<1>1. r.epoch \in Epochs /\ r.seq \in Seqs /\ readEpoch \in Epochs /\ Seqs \subseteq Nat
      /\ times \in [Epochs -> [Seqs -> Nat]] /\ window \in RecSlidWindow
  BY <1>0 DEF Record, Seqs
<1>2. /\ times' \in [Epochs -> [Seqs -> Nat]]
      /\ \A e \in Epochs, s \in Seqs :
            times'[e][s] = IF e = r.epoch /\ s = r.seq THEN times[e][s] + 1 ELSE times[e][s]
      /\ \A e \in Epochs : e # readEpoch => times'[e] = times[e]
  <2>1. times' = [times EXCEPT ![r.epoch] = [times[r.epoch] EXCEPT ![r.seq] = times[r.epoch][r.seq] + 1]]
    OBVIOUS
  <2>2a. times[r.epoch] \in [Seqs -> Nat]
    BY <1>1
  <2>2b. times[r.epoch][r.seq] \in Nat
    BY <1>1, <2>2a
  <2>2. times[r.epoch][r.seq] + 1 \in Nat
    BY <2>2b
  <2>3. times'[r.epoch] = [times[r.epoch] EXCEPT ![r.seq] = times[r.epoch][r.seq] + 1]
    BY <1>1, <2>1
  <2> QED BY <1>1, <2>1, <2>2, <2>2a, <2>3
<1>3. r.seq \notin A /\ WindowTracks(w, A \cup {r.seq})
  <2>1. A \subseteq Nat /\ WindowTracks(window, A) /\ r.seq \in Nat
    BY <1>1 DEF CoreInv, WindowInv, Accepted
  <2> QED BY <1>1, <2>1, UpdateTracks
<1>4. w \in RecSlidWindow /\ w.top \in Seqs
  BY <1>1, UpdateType DEF CoreInv, WindowInv
<1>5. NoReplay'
  BY <1>1, <1>2, <1>3 DEF NoReplay, CoreInv, Accepted
<1>6. \A e \in Epochs, s \in Seqs : times'[e][s] > 0 =>
         e <= readEpoch /\ \E q \in net : q.epoch = e /\ q.seq = s
  BY <1>1, <1>2 DEF CoreInv, OnlyAuthentic, Epochs
<1>7. \A q \in net : (q.type = "app" /\ times'[q.epoch][q.seq] > 0) => q.epoch <= finished
  <2> TAKE q \in net
  <2>1. q.epoch \in Epochs /\ q.seq \in Seqs
    BY DEF CoreInv, CoreType, Record
  <2>2. CASE q.epoch = r.epoch /\ q.seq = r.seq
    BY <2>2, <1>1 DEF CoreInv, NetInv, Epochs
  <2>3. CASE ~(q.epoch = r.epoch /\ q.seq = r.seq)
    BY <2>1, <2>3, <1>2 DEF CoreInv, AppAfterFinished
  <2> QED BY <2>2, <2>3
<1>8. window' = w /\ readEpoch' = readEpoch => WindowInv'
  <2> HAVE window' = w /\ readEpoch' = readEpoch
  <2>1. Accepted(readEpoch)' = A \cup {r.seq}
    <3>1. \A s \in Seqs : times'[readEpoch][s] > 0 <=> times[readEpoch][s] > 0 \/ s = r.seq
      <4> TAKE s \in Seqs
      <4>1. times[readEpoch][s] \in Nat
        BY <1>1
      <4> QED BY <1>1, <1>2, <4>1
    <3> QED BY <1>1, <3>1 DEF Accepted
  <2>2. \A e \in Epochs : e > readEpoch => Accepted(e)' = {}
    BY <1>1, <1>2 DEF Accepted, CoreInv, WindowInv, Epochs
  <2> QED BY <1>3, <1>4, <2>1, <2>2 DEF WindowInv, WindowTracks
<1> QED BY <1>1, <1>2, <1>4, <1>5, <1>6, <1>7, <1>8 DEF Epochs

\* Processing a record, from the network or from a cache, keeps the core.
LEMMA ProcessRecordStep ==
  ASSUME CoreInv, NEW recordType \in {"handshake", "app"}, NEW r \in Record,
         r.auth => r \in net,
         recordType = "handshake" => hsCtx = "running",
         r.type = "app" /\ r.epoch = readEpoch => finished = readEpoch,
         ProcessRecord(recordType, r), UNCHANGED peer
  PROVE  CoreInv'
<1> USE ReadBounds, WindowSizeAssumption
<1> DEFINE w == RecAntiReplayUpdate(window, r.seq)
<1>1. CASE RecAntiReplayCheck(window, r.seq) \/ ~RecConnDecrypt(r)
  BY <1>1, CoreStutter DEF ProcessRecord, vars_, peer, keys, lists
<1>2. CASE ~(RecAntiReplayCheck(window, r.seq) \/ ~RecConnDecrypt(r))
  <2>1. /\ r \in net /\ r.epoch = readEpoch /\ ~RecAntiReplayCheck(window, r.seq)
        /\ times' = [times EXCEPT ![r.epoch][r.seq] = @ + 1]
        /\ IF r.type # recordType THEN RecordUnexpectedMsg(r, w)
           ELSE /\ window' = w
                /\ IF r.type = "handshake" THEN HandshakeMsg(r.epoch)
                   ELSE UNCHANGED <<hsCtx, finished, ccs>>
                /\ UNCHANGED <<readEpoch, pendingState, lists, fatal>>
    BY <1>2 DEF ProcessRecord, RecConnDecrypt
  <2>2. /\ times' \in [Epochs -> [Seqs -> Nat]]
        /\ \A e \in Epochs : e > readEpoch => times'[e] = times[e]
        /\ NoReplay'
        /\ \A e \in Epochs, s \in Seqs : times'[e][s] > 0 =>
              e <= readEpoch /\ \E q \in net : q.epoch = e /\ q.seq = s
        /\ \A q \in net : (q.type = "app" /\ times'[q.epoch][q.seq] > 0)
                             => q.epoch <= finished
        /\ w \in RecSlidWindow
        /\ window' = w /\ readEpoch' = readEpoch => WindowInv'
    BY <2>1, AcceptCounts
  <2>3. CoreType /\ NetInv /\ HandshakeInv /\ EpochNotAhead
    BY DEF CoreInv
  <2>4. net' = net /\ wEpoch' = wEpoch /\ wSeq' = wSeq /\ NetInv'
    BY <2>3 DEF peer, NetInv
  <2> SUFFICES /\ readEpoch' \in Epochs /\ readEpoch <= readEpoch' /\ window' \in RecSlidWindow
               /\ pendingState' \in BOOLEAN /\ ccs' \in CcsCtx
               /\ hsCtx' \in {"none", "running", "finished"}
               /\ hsRecList' \in Seq(Record) /\ appRecList' \in Seq(Record)
               /\ fatal' \in BOOLEAN /\ finished' \in Epochs /\ finished <= finished'
               /\ WindowInv' /\ EpochNotAhead' /\ HandshakeInv'
    <3>1. CoreType' /\ EpochNotAhead' /\ WindowInv' /\ HandshakeInv'
      BY <2>2, <2>3, <2>4 DEF CoreType
    <3>a. /\ Epochs \subseteq Nat /\ readEpoch \in Nat /\ readEpoch' \in Nat
          /\ readEpoch <= readEpoch' /\ finished \in Nat /\ finished' \in Nat
          /\ finished <= finished' /\ \A q \in net : q.epoch \in Nat
      BY <2>3 DEF CoreType, Epochs, Record
    <3>2. OnlyAuthentic'
      BY <2>2, <2>4, <3>a DEF OnlyAuthentic
    <3>3. AppAfterFinished'
      BY <2>2, <2>4, <3>a DEF AppAfterFinished
    <3> QED BY <2>2, <2>4, <3>1, <3>2, <3>3 DEF CoreInv
  <2>5. CASE UNCHANGED <<readEpoch, pendingState, ccs, hsCtx, finished>> /\ window' = w
             /\ hsRecList' \in Seq(Record) /\ appRecList' \in Seq(Record) /\ fatal' \in BOOLEAN
    BY <2>5, <2>2, <2>3, <2>4 DEF CoreType, EpochNotAhead, HandshakeInv, Epochs
  <2>6. CASE r.type = recordType /\ r.type = "handshake" /\ ccs.activeCipherFlag
    <3>1. hsCtx' = "finished" /\ finished' = readEpoch /\ ccs' \in {ccs, CcsIdle}
          /\ window' = w /\ UNCHANGED <<readEpoch, pendingState, lists, fatal>>
      BY <2>1, <2>6 DEF HandshakeMsg
    <3>2. ccs' \in CcsCtx /\ (ccs' = ccs \/ ccs' = CcsIdle)
      BY <3>1, <2>3, CcsIdleType DEF CoreType
    <3>3. HandshakeInv'
      <4>1. finished' <= readEpoch' /\ (pendingState' => readEpoch' < MaxEpoch)
        BY <2>3, <3>1 DEF HandshakeInv, CoreType, Epochs
      <4>2. ~(ccs'.ccsRecvflag /\ ~ccs'.activeCipherFlag)
            /\ ~(ccs'.isAllowActiveCipher /\ ~ccs'.activeCipherFlag)
        BY <2>6, <3>2, CcsIdleType
      <4> QED BY <3>1, <4>1, <4>2 DEF HandshakeInv
    <3> QED BY <2>2, <2>3, <2>4, <3>1, <3>2, <3>3 DEF CoreType, EpochNotAhead, HandshakeInv, lists
  <2>7. CASE r.type = "ccs"
    <3>1. ProcessPlainCCS(w) /\ UNCHANGED <<hsCtx, lists, finished>> /\ r.epoch < wEpoch
      BY <2>1, <2>3, <2>7 DEF RecordUnexpectedMsg, NetInv
    <3>2. CASE window' = w /\ UNCHANGED <<readEpoch, pendingState, ccs>> /\ fatal' \in BOOLEAN
      BY <2>5, <3>1, <3>2, <2>3 DEF lists, CoreType
    <3>3. CASE /\ ccs' = [ccs EXCEPT !.ccsRecvflag = TRUE] /\ window' = w
               /\ UNCHANGED <<readEpoch, pendingState, fatal>>
      <4>1. ccs' \in CcsCtx /\ ccs'.ccsRecvflag /\ ccs'.activeCipherFlag = ccs.activeCipherFlag
        BY <3>3, <2>3 DEF CcsCtx, CoreType
      <4> QED BY <2>1, <2>2, <2>3, <2>4, <3>1, <3>3, <4>1
          DEF CoreType, EpochNotAhead, HandshakeInv, lists, Epochs
    <3>4. CASE /\ CanActivate /\ REC_ActivePendingState
               /\ ccs.isAllowActiveCipher /\ ~ccs.activeCipherFlag
               /\ ccs' = [ccs EXCEPT !.activeCipherFlag = TRUE, !.ccsRecvflag = TRUE]
               /\ UNCHANGED fatal
      <4>1. ccs' \in CcsCtx /\ ccs'.ccsRecvflag /\ ccs'.activeCipherFlag
        BY <3>4, <2>3 DEF CcsCtx, CoreType
      <4>2. /\ readEpoch' = readEpoch + 1 /\ readEpoch' \in Epochs /\ readEpoch' <= wEpoch
            /\ window' \in RecSlidWindow /\ pendingState' = FALSE /\ WindowInv'
        BY <2>1, <2>2, <3>1, <3>4, FreshWindow DEF CanActivate
      <4>3. hsCtx = "running"
        BY <2>3, <3>4 DEF HandshakeInv
      <4>4. finished' <= readEpoch' /\ finished' \in Epochs /\ finished <= finished'
            /\ readEpoch <= readEpoch'
        BY <2>3, <3>1, <4>2 DEF HandshakeInv, CoreType, Epochs
      <4>5. HandshakeInv'
        BY <3>1, <4>1, <4>2, <4>3, <4>4 DEF HandshakeInv
      <4>6. EpochNotAhead'
        BY <2>4, <4>2 DEF EpochNotAhead
      <4>7. hsRecList' \in Seq(Record) /\ appRecList' \in Seq(Record) /\ fatal' \in BOOLEAN
            /\ hsCtx' \in {"none", "running", "finished"}
        BY <2>3, <3>1, <3>4 DEF CoreType, lists
      <4> QED BY <4>1, <4>2, <4>4, <4>5, <4>6, <4>7
    <3> QED BY <2>3, <3>1, <3>2, <3>3, <3>4 DEF ProcessPlainCCS, CoreType
  <2>8. CASE r.type = recordType /\ ~(r.type = "handshake" /\ ccs.activeCipherFlag)
    BY <2>1, <2>3, <2>5, <2>8 DEF HandshakeMsg, CoreType, lists
  <2>9. CASE r.type # recordType /\ r.type # "ccs"
    <3>1. r.type \in {"handshake", "app", "alert"}
      BY <2>9, TypesAssumption DEF Record
    <3>2. CASE r.type = "handshake"
      <4>1. /\ hsRecList' = Append(hsRecList, r) /\ window' = w
            /\ UNCHANGED <<readEpoch, pendingState, ccs, hsCtx, appRecList, fatal, finished>>
        BY <2>1, <2>9, <3>2 DEF RecordUnexpectedMsg
      <4>2. hsRecList' \in Seq(Record) /\ appRecList' \in Seq(Record) /\ fatal' \in BOOLEAN
        BY <2>3, <4>1 DEF CoreType
      <4> QED BY <2>5, <4>1, <4>2
    <3>3. CASE r.type = "app"
      <4>1. /\ appRecList' = Append(appRecList, r) /\ window' = w
            /\ fatal' \in IF finished > 0 /\ ~pendingState THEN BOOLEAN ELSE {TRUE}
            /\ UNCHANGED <<readEpoch, pendingState, ccs, hsCtx, hsRecList, finished>>
        BY <2>1, <2>9, <3>3 DEF RecordUnexpectedMsg
      <4>2. hsRecList' \in Seq(Record) /\ appRecList' \in Seq(Record)
        BY <2>3, <4>1 DEF CoreType
      <4>3. fatal' \in BOOLEAN
        BY <4>1
      <4> QED BY <2>5, <4>1, <4>2, <4>3
    <3>4. CASE r.type = "alert"
      BY <2>1, <2>3, <2>5, <2>9, <3>4 DEF RecordUnexpectedMsg, CoreType, lists
    <3> QED BY <3>1, <3>2, <3>3, <3>4
  <2> QED BY <2>6, <2>7, <2>8, <2>9
<1> QED BY <1>1, <1>2

\* A record the peer writes is new, and nothing was accepted under its number.
LEMMA WriteStep ==
  ASSUME IInv, NEW e \in Epochs, NEW type \in RecTypes,
         DtlsRecordWrite(e, type), wEpoch' \in {wEpoch, wEpoch + 1}, wEpoch' \in Epochs,
         type = "ccs" => e < wEpoch',
         UNCHANGED <<keys, hsCtx, caches, lists, fatal, times, finished>>
  PROVE  IInv'
<1> USE ReadBounds
<1> DEFINE n == [epoch |-> e, seq |-> wSeq[e], type |-> type, auth |-> TRUE]
<1>1. CoreType /\ NetInv /\ OnlyAuthentic /\ AppAfterFinished /\ HandshakeInv /\ EpochNotAhead
      /\ CacheType /\ CacheInv
  BY DEF IInv, CoreInv
<1>2. wSeq[e] \in Seqs /\ n \in Record /\ n.auth /\ net' = net \cup {n}
  BY <1>1 DEF DtlsRecordWrite, CoreType, Seqs, Record
<1>3. wSeq' \in [Epochs -> 0 .. MaxSeq + 1] /\ wSeq'[e] = wSeq[e] + 1
      /\ \A f \in Epochs : f # e => wSeq'[f] = wSeq[f]
  <2>1. wSeq[e] + 1 \in 0 .. MaxSeq + 1
    BY <1>2 DEF Seqs
  <2>2. wSeq' = [wSeq EXCEPT ![e] = wSeq[e] + 1] /\ wSeq \in [Epochs -> 0 .. MaxSeq + 1]
    BY <1>1 DEF DtlsRecordWrite, CoreType
  <2> QED BY <2>1, <2>2
<1>4. CoreType' /\ CacheType'
  BY <1>1, <1>2, <1>3 DEF CoreType, CacheType, keys, caches, lists
<1>5. \A q \in net : q.epoch \in Epochs /\ q.seq \in Seqs
  BY <1>1 DEF CoreType, Record
<1>6. NetInv'
  <2>1. \A q \in net : ~(q.epoch = n.epoch /\ q.seq = n.seq)
    BY <1>1, <1>2, <1>5 DEF NetInv, Seqs
  <2>2. \A q \in net' : q.seq < wSeq'[q.epoch]
    BY <1>1, <1>2, <1>3, <1>5 DEF NetInv, Seqs
  <2>3. \A q \in net' : q.type = "ccs" => q.epoch < wEpoch'
    BY <1>1, <1>2, <1>5, SMTT(30) DEF NetInv, CoreType, Epochs
  <2> QED BY <1>2, <1>1, <2>1, <2>2, <2>3 DEF NetInv
<1>7. OnlyAuthentic'
  BY <1>1, <1>2 DEF OnlyAuthentic, keys
<1>8. AppAfterFinished'
  <2>1. times[e][wSeq[e]] = 0
    <3>1. times[e] \in [Seqs -> Nat]
      BY <1>1 DEF CoreType
    <3>2. times[e][wSeq[e]] \in Nat
      BY <1>2, <3>1
    <3>3. ~(times[e][wSeq[e]] > 0)
      BY <1>1, <1>2, <1>5 DEF OnlyAuthentic, NetInv, Seqs
    <3> QED BY <3>2, <3>3
  <2> QED BY <1>1, <1>2, <2>1 DEF AppAfterFinished
<1>9. EpochNotAhead' /\ HandshakeInv'
  BY <1>1 DEF EpochNotAhead, HandshakeInv, CoreType, Epochs, keys
<1>10. WindowInv' /\ NoReplay'
  BY DEF IInv, CoreInv, WindowInv, WindowTracks, Accepted, NoReplay, keys
<1>11. CacheInv'
  BY <1>1, <1>2 DEF CacheInv, caches
<1> QED BY <1>4, <1>6, <1>7, <1>8, <1>9, <1>10, <1>11 DEF IInv, CoreInv

\* Steps that leave the peer, the window, the counts and the caches alone.
LEMMA ControlStep ==
  ASSUME IInv, CoreType', HandshakeInv', finished' = finished,
         UNCHANGED <<peer, readEpoch, window, caches, times>>
  PROVE  IInv'
<1>1. CacheType' /\ CacheInv'
  BY DEF IInv, CacheType, CacheInv, caches, peer
<1>2. NoReplay' /\ OnlyAuthentic' /\ EpochNotAhead' /\ AppAfterFinished' /\ NetInv'
  BY DEF IInv, CoreInv, NoReplay, OnlyAuthentic, EpochNotAhead, AppAfterFinished, NetInv, peer
<1>3. WindowInv'
  BY DEF IInv, CoreInv, WindowInv, WindowTracks, Accepted
<1> QED BY <1>1, <1>2, <1>3 DEF IInv, CoreInv

\* Removing a position leaves elements that were there before.
LEMMA RemoveAtType ==
  ASSUME NEW S, NEW q \in Seq(S), NEW i \in DOMAIN q
  PROVE  /\ RemoveAt(q, i) \in Seq(S)
         /\ \A k \in DOMAIN RemoveAt(q, i) : \E j \in DOMAIN q : RemoveAt(q, i)[k] = q[j]
<1> DEFINE a == SubSeq(q, 1, i - 1)
           b == SubSeq(q, i + 1, Len(q))
<1>1. i \in 1 .. Len(q) /\ Len(q) \in Nat
  OBVIOUS
<1>2. a \in Seq(S) /\ b \in Seq(S) /\ Len(a) = i - 1 /\ Len(b) = Len(q) - i
  BY <1>1
<1>3. \A k \in 1 .. Len(a) : a[k] = q[k]
  BY <1>1
<1>4. \A k \in 1 .. Len(b) : b[k] = q[i + k]
  <2>1. \A k \in i + 1 .. Len(q) : q[k] \in S
    BY <1>1
  <2>2. \A k \in 1 .. Len(q) - (i + 1) + 1 : b[k] = q[i + 1 + k - 1]
    BY <1>1, <2>1, SubSeqProperties
  <2> HIDE DEF b
  <2> TAKE k \in 1 .. Len(b)
  <2>3. k \in 1 .. Len(q) - (i + 1) + 1 /\ i + 1 + k - 1 = i + k
    BY <1>1, <1>2
  <2> QED BY <2>2, <2>3
<1> HIDE DEF a, b
<1>5. a \o b \in Seq(S) /\ Len(a \o b) = Len(a) + Len(b)
      /\ \A k \in 1 .. Len(a) + Len(b) :
            (a \o b)[k] = IF k <= Len(a) THEN a[k] ELSE b[k - Len(a)]
  BY <1>2, ConcatProperties
<1>6. \A k \in DOMAIN (a \o b) : \E j \in DOMAIN q : (a \o b)[k] = q[j]
  <2> TAKE k \in DOMAIN (a \o b)
  <2>1. k \in 1 .. Len(a) + Len(b)
    BY <1>5
  <2>2. CASE k <= Len(a)
    BY <1>1, <1>2, <1>3, <1>5, <2>1, <2>2, SMTT(30)
  <2>3. CASE ~(k <= Len(a))
    <3>0. Len(a) \in Nat /\ Len(b) \in Nat
      BY <1>1, <1>2
    <3>1. k - Len(a) \in 1 .. Len(b)
      BY <2>1, <2>3, <3>0
    <3>2. i + (k - Len(a)) \in 1 .. Len(q)
      BY <1>1, <1>2, <3>1, SMTT(30)
    <3>3. (a \o b)[k] = q[i + (k - Len(a))]
      BY <1>4, <1>5, <2>1, <2>3, <3>1
    <3> QED BY <3>2, <3>3
  <2> QED BY <2>2, <2>3
<1> QED BY <1>5, <1>6 DEF RemoveAt, a, b

\* A record from the network, kept for later or processed at once
\* (DtlsGetRecord), preserves the inductive invariant.
LEMMA ReadStep ==
  ASSUME IInv, NEW recordType \in {"handshake", "app"}, NEW r \in net \cup Junk,
         ReadFromNet(recordType, r)
  PROVE  IInv'
<1> USE ReadBounds
<1> DEFINE hs == ExpireHsMsg(recordType)
<1>1. r \in Record /\ (r.auth => r \in net)
  BY DEF IInv, CoreInv, CoreType, Junk
<1>2. CacheType /\ CacheInv /\ CoreInv /\ UNCHANGED peer /\ net' = net
  BY DEF IInv, ReadFromNet, peer
<1>3. hs \in {unprocessedHsMsg, NoRecord}
  BY DEF ExpireHsMsg
<1>4. CASE NextEpochRecord(r) \/ AppBeforeFinished(r)
  <2>1. RecordBufferUnprocessedMsg(r, hs) /\ UNCHANGED <<keys, hsCtx, lists, fatal, times, finished>>
    BY <1>4 DEF ReadFromNet
  <2>2. CoreInv'
    BY <1>2, <2>1, CoreStutter DEF vars_, peer, keys, lists
  <2>3. CASE r.type = "handshake"
    BY <1>1, <1>2, <1>3, <2>1, <2>2, <2>3 DEF RecordBufferUnprocessedMsg, CacheType, CacheInv, IInv
  <2>4. CASE r.type # "handshake"
    <3>1. /\ unprocessedHsMsg' = hs
          /\ unprocessedAppMsgList' \in {unprocessedAppMsgList, Append(unprocessedAppMsgList, r)}
      BY <2>1, <2>4 DEF RecordBufferUnprocessedMsg
    <3>2. CacheType'
      BY <1>1, <1>2, <1>3, <3>1 DEF CacheType
    <3>3. CacheInv'
      BY <1>1, <1>2, <1>3, <3>1 DEF CacheType, CacheInv
    <3> QED BY <2>2, <3>2, <3>3 DEF IInv
  <2> QED BY <2>3, <2>4
<1>5. CASE ~(NextEpochRecord(r) \/ AppBeforeFinished(r))
  <2>1. unprocessedHsMsg' = hs /\ UNCHANGED unprocessedAppMsgList
    BY <1>5 DEF ReadFromNet
  <2>2. CacheType' /\ CacheInv'
    BY <1>2, <1>3, <2>1 DEF CacheType, CacheInv
  <2>3. CASE r.epoch = readEpoch
    <3>1. ProcessRecord(recordType, r)
      BY <1>5, <2>3 DEF ReadFromNet
    <3>2. recordType = "handshake" => hsCtx = "running"
      BY DEF ReadFromNet, CanRead
    <3>3. r.type = "app" => finished = readEpoch
      <4>1. CASE recordType = "app"
        BY <4>1, <1>2 DEF ReadFromNet, CanRead, BufList, CoreInv, HandshakeInv
      <4>2. CASE recordType = "handshake"
        BY <4>2, <1>2, <1>5, <2>3, <3>2 DEF AppBeforeFinished, CoreInv, HandshakeInv
      <4> QED BY <4>1, <4>2
    <3> QED BY <1>1, <1>2, <2>2, <3>1, <3>2, <3>3, ProcessRecordStep DEF IInv
  <2>4. CASE r.epoch # readEpoch
    <3>1. UNCHANGED <<keys, hsCtx, lists, fatal, times, finished>>
      BY <1>5, <2>4 DEF ReadFromNet
    <3> QED BY <1>2, <2>2, <3>1, CoreStutter DEF IInv, vars_, peer, keys, lists
  <2> QED BY <2>3, <2>4
<1> QED BY <1>4, <1>5

\* A record taken out of a cache (GetUnprocessedMsg) preserves the inductive
\* invariant.
LEMMA CachedStep ==
  ASSUME IInv, NEW recordType \in {"handshake", "app"}, ReadCached(recordType)
  PROVE  IInv'
<1>1. CacheType /\ CacheInv /\ CoreInv /\ UNCHANGED peer /\ net' = net
  BY DEF IInv, ReadCached, peer
<1>2. CASE recordType = "handshake"
  <2>1. /\ unprocessedHsMsg \in Record /\ unprocessedHsMsg.type = "handshake"
        /\ (unprocessedHsMsg.auth => unprocessedHsMsg \in net)
    BY <1>1, <1>2 DEF ReadCached, Cached, IsExistUnprocessedHsMsg, CacheType, CacheInv
  <2>2. /\ ProcessRecord(recordType, unprocessedHsMsg) /\ hsCtx = "running"
        /\ unprocessedHsMsg' = NoRecord /\ UNCHANGED unprocessedAppMsgList
    BY <1>2 DEF ReadCached, CanRead
  <2>3. CoreInv'
    BY <1>1, <1>2, <2>1, <2>2, ProcessRecordStep
  <2> QED BY <1>1, <2>2, <2>3 DEF IInv, CacheType, CacheInv
<1>3. CASE recordType = "app"
  <2>1. PICK i \in DOMAIN unprocessedAppMsgList :
          /\ ProcessRecord(recordType, unprocessedAppMsgList[i])
          /\ unprocessedAppMsgList' = RemoveAt(unprocessedAppMsgList, i)
          /\ UNCHANGED unprocessedHsMsg
    BY <1>3 DEF ReadCached
  <2>2. hsCtx = "none"
    BY <1>3 DEF ReadCached, CanRead, BufList
  <2>3. unprocessedAppMsgList[i] \in Record
        /\ (unprocessedAppMsgList[i].auth => unprocessedAppMsgList[i] \in net)
    BY <1>1, <2>1 DEF CacheType, CacheInv
  <2>4. CoreInv'
    <3>1. finished = readEpoch
      BY <1>1, <2>2 DEF CoreInv, HandshakeInv
    <3> QED BY <1>1, <1>3, <2>1, <2>3, <3>1, ProcessRecordStep
  <2>5. unprocessedAppMsgList \in Seq(Record)
    BY <1>1 DEF CacheType
  <2>6. /\ RemoveAt(unprocessedAppMsgList, i) \in Seq(Record)
        /\ \A k \in DOMAIN RemoveAt(unprocessedAppMsgList, i) :
              \E j \in DOMAIN unprocessedAppMsgList :
                 RemoveAt(unprocessedAppMsgList, i)[k] = unprocessedAppMsgList[j]
    BY <2>5, RemoveAtType
  <2>7. CacheType' /\ CacheInv'
    BY <1>1, <2>1, <2>6 DEF CacheType, CacheInv
  <2> QED BY <2>4, <2>7 DEF IInv
<1> QED BY <1>2, <1>3

\* Every step of the reader preserves the inductive invariant.
LEMMA NextIInv == IInv /\ [Next]_vars => IInv'
<1> SUFFICES ASSUME IInv, [Next]_vars PROVE IInv'
  OBVIOUS
<1> USE ReadBounds
<1>0. CoreType /\ HandshakeInv /\ EpochNotAhead
  BY DEF IInv, CoreInv
<1>1. CASE PeerWrites
  <2>1. PICK type \in RecTypes \ {"ccs"} : DtlsRecordWrite(wEpoch, type)
    BY <1>1 DEF PeerWrites
  <2> QED BY <1>0, <1>1, <2>1, WriteStep DEF PeerWrites, CoreType
<1>2. CASE PeerSendsCcs
  <2>1. wEpoch' = wEpoch + 1 /\ wEpoch' \in Epochs /\ wEpoch < wEpoch'
    BY <1>0, <1>2 DEF PeerSendsCcs, CoreType, Epochs
  <2> QED BY <1>0, <1>2, <2>1, WriteStep DEF PeerSendsCcs, CoreType
<1>3. CASE PeerRetransmits
  <2>1. wEpoch - 1 \in Epochs /\ wEpoch - 1 < wEpoch /\ wEpoch' = wEpoch
    BY <1>0, <1>3 DEF PeerRetransmits, CoreType, Epochs
  <2>2. PICK type \in RecTypes : DtlsRecordWrite(wEpoch - 1, type)
    BY <1>3 DEF PeerRetransmits
  <2> QED BY <1>0, <1>3, <2>1, <2>2, WriteStep DEF PeerRetransmits, CoreType
<1>4. CASE HS_Init
  <2>1. CoreType' /\ HandshakeInv'
    BY <1>0, <1>4 DEF HS_Init, CoreType, HandshakeInv, peer, keys, lists
  <2> QED BY <1>4, <2>1, ControlStep DEF HS_Init, keys
<1>5. CASE REC_InitPendingState
  <2>1. CoreType' /\ HandshakeInv'
    BY <1>0, <1>5 DEF REC_InitPendingState, CoreType, HandshakeInv, peer, lists
  <2> QED BY <1>5, <2>1, ControlStep DEF REC_InitPendingState
<1>6. CASE CcsRecvReady
  <2>1. ccs' \in CcsCtx /\ ccs'.ccsRecvflag = ccs.ccsRecvflag
        /\ ccs'.activeCipherFlag = ccs.activeCipherFlag
        /\ ccs'.isAllowActiveCipher = ccs.isAllowActiveCipher
    BY <1>0, <1>6 DEF CcsRecvReady, CoreType, CcsCtx
  <2>2. CoreType' /\ HandshakeInv'
    BY <1>0, <1>6, <2>1 DEF CcsRecvReady, CoreType, HandshakeInv, peer, lists
  <2> QED BY <1>6, <2>2, ControlStep DEF CcsRecvReady
<1>7. CASE CcsRecvExitReady
  <2>1. CoreType' /\ HandshakeInv'
    BY <1>0, <1>7, CcsIdleType DEF CcsRecvExitReady, CoreType, HandshakeInv, peer, lists
  <2> QED BY <1>7, <2>1, ControlStep DEF CcsRecvExitReady
<1>8. CASE HS_DeInit
  <2>1. finished = readEpoch
    BY <1>0, <1>8, CcsIdleType DEF HS_DeInit, HandshakeInv
  <2>2. CoreType' /\ HandshakeInv'
    BY <1>0, <1>8, <2>1, CcsIdleType DEF HS_DeInit, CoreType, HandshakeInv, peer, lists
  <2> QED BY <1>8, <2>2, ControlStep DEF HS_DeInit
<1>9. CASE CcsRecvActiveCipherSpec
  <2>1. UNCHANGED <<peer, hsCtx, caches, lists, times, finished>> /\ hsCtx = "running"
    BY <1>9 DEF CcsRecvActiveCipherSpec
  <2>2. CASE /\ ccs.ccsRecvflag /\ ~ccs.activeCipherFlag /\ CanActivate
             /\ REC_ActivePendingState
             /\ ccs' = [ccs EXCEPT !.isAllowActiveCipher = TRUE, !.activeCipherFlag = TRUE]
             /\ UNCHANGED fatal
    <3>1. ccs' \in CcsCtx /\ ccs'.ccsRecvflag /\ ccs'.activeCipherFlag
      BY <1>0, <2>2 DEF CoreType, CcsCtx
    <3>2. readEpoch < wEpoch /\ pendingState
      BY <1>0, <2>2 DEF HandshakeInv, CanActivate
    <3>3. times' \in [Epochs -> [Seqs -> Nat]]
          /\ \A e \in Epochs : e > readEpoch => times'[e] = times[e]
      BY <1>0, <2>1 DEF CoreType
    <3>4. /\ readEpoch' = readEpoch + 1 /\ readEpoch' \in Epochs /\ readEpoch' <= wEpoch
          /\ window' \in RecSlidWindow /\ pendingState' = FALSE /\ WindowInv'
      BY <2>2, <3>2, <3>3, FreshWindow DEF IInv
    <3>5. finished' <= readEpoch' /\ readEpoch <= readEpoch'
      BY <1>0, <2>1, <3>4 DEF HandshakeInv, CoreType, Epochs
    <3>6. CoreType' /\ HandshakeInv' /\ EpochNotAhead'
      BY <1>0, <2>1, <2>2, <3>1, <3>3, <3>4, <3>5
      DEF CoreType, HandshakeInv, EpochNotAhead, peer, lists
    <3>7. OnlyAuthentic'
      BY <1>0, <2>1, <3>4, <3>5 DEF IInv, CoreInv, OnlyAuthentic, peer, CoreType, Epochs
    <3>8. NoReplay' /\ AppAfterFinished' /\ NetInv' /\ CacheType' /\ CacheInv'
      BY <2>1 DEF IInv, CoreInv, NoReplay, AppAfterFinished, NetInv, CacheType, CacheInv,
                  peer, caches
    <3> QED BY <3>4, <3>6, <3>7, <3>8 DEF IInv, CoreInv
  <2>3. CASE /\ ccs' = [ccs EXCEPT !.isAllowActiveCipher = TRUE] /\ fatal' \in {fatal, TRUE}
             /\ UNCHANGED <<readEpoch, window, pendingState>>
    <3>1. ccs' \in CcsCtx /\ ccs'.ccsRecvflag = ccs.ccsRecvflag
          /\ ccs'.activeCipherFlag = ccs.activeCipherFlag
      BY <1>0, <2>3 DEF CoreType, CcsCtx
    <3>2. fatal' \in BOOLEAN
      BY <1>0, <2>3 DEF CoreType
    <3>3. CoreType' /\ HandshakeInv'
      BY <1>0, <2>1, <2>3, <3>1, <3>2 DEF CoreType, HandshakeInv, peer, lists
    <3> QED BY <2>1, <2>3, <3>3, ControlStep
  <2> QED BY <1>9, <2>2, <2>3 DEF CcsRecvActiveCipherSpec
<1>10. ASSUME NEW recordType \in {"handshake", "app"}, ReadBufList(recordType) PROVE IInv'
  <2>1. hsRecList' \in Seq(Record) /\ appRecList' \in Seq(Record)
        /\ UNCHANGED <<peer, keys, hsCtx, caches, fatal, times, finished>>
    <3>1. CASE recordType = "handshake"
      <4>1. hsRecList # <<>> /\ hsRecList' = Tail(hsRecList) /\ appRecList' = appRecList
            /\ UNCHANGED <<peer, keys, hsCtx, caches, fatal, times, finished>>
        BY <1>10, <3>1 DEF ReadBufList, BufList
      <4> QED BY <1>0, <4>1, HeadTailProperties DEF CoreType
    <3>2. CASE recordType = "app"
      <4>1. appRecList # <<>> /\ appRecList' = Tail(appRecList) /\ hsRecList' = hsRecList
            /\ UNCHANGED <<peer, keys, hsCtx, caches, fatal, times, finished>>
        BY <1>10, <3>2 DEF ReadBufList, BufList
      <4> QED BY <1>0, <4>1, HeadTailProperties DEF CoreType
    <3> QED BY <3>1, <3>2
  <2>2. CoreType' /\ HandshakeInv'
    BY <1>0, <2>1 DEF CoreType, HandshakeInv, peer, keys
  <2> QED BY <2>1, <2>2, ControlStep DEF keys
<1>11. CASE UNCHANGED vars
  <2>1. CoreInv'
    BY <1>11, CoreStutter DEF IInv, vars, vars_, peer, keys, lists
  <2> QED BY <1>11, <2>1 DEF IInv, CacheType, CacheInv, vars, peer, caches
<1> QED
  BY <1>1, <1>2, <1>3, <1>4, <1>5, <1>6, <1>7, <1>8, <1>9, <1>10, <1>11, ReadStep, CachedStep
  DEF Next

\* The inductive invariant holds in every state of every connection.
THEOREM Invariance == Spec => []IInv
<1>1. Init => IInv
  BY InitIInv
<1>2. IInv /\ [Next]_vars => IInv'
  BY NextIInv
<1> QED BY <1>1, <1>2, PTL DEF Spec

\* The variables keep their types, in every reachable state.
THEOREM TypeCorrect == Spec => []TypeOK
<1>1. IInv => TypeOK
  BY DEF IInv, CoreInv, CoreType, CacheType, TypeOK
<1> QED BY <1>1, Invariance, PTL

\* No DTLS record is accepted twice.
THEOREM NoReplayTheorem == Spec => []NoReplay
<1>1. IInv => NoReplay
  BY DEF IInv, CoreInv
<1> QED BY <1>1, Invariance, PTL

\* The window never refuses a first arrival that is in its reach.
THEOREM FreshTheorem == Spec => []FreshNotRejected
<1>1. IInv => FreshNotRejected
  <2> SUFFICES ASSUME IInv, NEW s \in Seqs, times[readEpoch][s] = 0,
                      s + WindowSize > window.top
               PROVE  ~RecAntiReplayCheck(window, s)
    BY DEF FreshNotRejected
  <2>1. s \notin Accepted(readEpoch) /\ Accepted(readEpoch) \subseteq Nat /\ s \in Nat
    BY DEF Accepted, Seqs
  <2> QED BY <2>1, FreshPasses DEF IInv, CoreInv, CoreType, WindowInv
<1> QED BY <1>1, Invariance, PTL

\* What is accepted was sent by the peer, in an epoch already entered.
THEOREM OnlyAuthenticTheorem == Spec => []OnlyAuthentic
<1>1. IInv => OnlyAuthentic
  BY DEF IInv, CoreInv
<1> QED BY <1>1, Invariance, PTL

\* The read epoch never passes the peer's write epoch.
THEOREM EpochTheorem == Spec => []EpochNotAhead
<1>1. IInv => EpochNotAhead
  BY DEF IInv, CoreInv
<1> QED BY <1>1, Invariance, PTL

\* Application data is taken only in an epoch whose Finished has been taken.
THEOREM AppAfterFinishedTheorem == Spec => []AppAfterFinished
<1>1. IInv => AppAfterFinished
  BY DEF IInv, CoreInv
<1> QED BY <1>1, Invariance, PTL

-------------------------------------------------------------------------------
(* The refinement: every step of the reader is a step of ReplaySpec. *)

Numbers == [epoch : Epochs, seq : Seqs]
SentNumbers == {[epoch |-> r.epoch, seq |-> r.seq] : r \in net}
AcceptedNumbers == {n \in Numbers : times[n.epoch][n.seq] > 0}
PromiseVars == <<SentNumbers, AcceptedNumbers, wEpoch, readEpoch>>

\* A record the peer writes has a number it has not used: PeerSends.
LEMMA WriteRefines ==
  ASSUME IInv, NEW e \in Epochs, NEW type \in RecTypes, DtlsRecordWrite(e, type),
         wEpoch' \in {wEpoch, wEpoch + 1}, UNCHANGED <<readEpoch, times>>
  PROVE  Promise!PeerSends
<1> USE ReadBounds
<1> DEFINE r == [epoch |-> e, seq |-> wSeq[e], type |-> type, auth |-> TRUE]
           n == [epoch |-> e, seq |-> wSeq[e]]
<1>1. wSeq[e] \in Seqs /\ net' = net \cup {r}
  BY DEF IInv, CoreInv, CoreType, DtlsRecordWrite, Seqs
<1>2. n \in Numbers
  BY <1>1 DEF Numbers
<1>3. n \notin SentNumbers
  <2> SUFFICES ASSUME NEW q \in net, n = [epoch |-> q.epoch, seq |-> q.seq] PROVE FALSE
    BY DEF SentNumbers
  <2>1. q.epoch = e /\ q.seq = wSeq[e]
    OBVIOUS
  <2>2. q.seq < wSeq[q.epoch] /\ wSeq[e] \in Nat
    BY <1>1 DEF IInv, CoreInv, NetInv, Seqs
  <2> QED BY <2>1, <2>2
<1>4. SentNumbers' = SentNumbers \cup {n}
  <2>1. SentNumbers' = {[epoch |-> q.epoch, seq |-> q.seq] : q \in net \cup {r}}
    BY <1>1 DEF SentNumbers
  <2>2. r.epoch = e /\ r.seq = wSeq[e]
    OBVIOUS
  <2> HIDE DEF r
  <2> QED BY <2>1, <2>2 DEF SentNumbers
<1> QED BY <1>2, <1>3, <1>4 DEF Promise!PeerSends, SentNumbers, Numbers

\* Processing a record accepts one number that the peer sent and that was not
\* accepted before, or nothing.
LEMMA ProcessRefines ==
  ASSUME CoreInv, CoreInv', NEW recordType, NEW r \in Record, r.auth => r \in net,
         ProcessRecord(recordType, r), UNCHANGED peer
  PROVE  Promise!Accepts \/ UNCHANGED PromiseVars
<1> USE ReadBounds, WindowSizeAssumption
<1> DEFINE n == [epoch |-> r.epoch, seq |-> r.seq]
           w == RecAntiReplayUpdate(window, r.seq)
<1>0. net' = net /\ wEpoch' = wEpoch
  BY DEF peer
<1>1. CASE RecAntiReplayCheck(window, r.seq) \/ ~RecConnDecrypt(r)
  BY <1>0, <1>1 DEF ProcessRecord, keys, PromiseVars, SentNumbers, AcceptedNumbers
<1>2. CASE ~(RecAntiReplayCheck(window, r.seq) \/ ~RecConnDecrypt(r))
  <2>1. /\ r \in net /\ r.epoch = readEpoch /\ ~RecAntiReplayCheck(window, r.seq)
        /\ times' = [times EXCEPT ![r.epoch][r.seq] = @ + 1]
    BY <1>2 DEF ProcessRecord, RecConnDecrypt
  <2>2. readEpoch' \in {readEpoch, readEpoch + 1}
    <3>1. CASE r.type # recordType
      <4>1. RecordUnexpectedMsg(r, w)
        BY <1>2, <3>1 DEF ProcessRecord
      <4>2. r.type \in {"handshake", "ccs", "app", "alert"}
        BY TypesAssumption DEF Record
      <4>3. CASE r.type = "ccs"
        <5>1. ProcessPlainCCS(w)
          BY <4>1, <4>3 DEF RecordUnexpectedMsg
        <5> QED BY <5>1 DEF ProcessPlainCCS, REC_ActivePendingState
      <4> QED BY <4>1, <4>2, <4>3 DEF RecordUnexpectedMsg
    <3>2. CASE r.type = recordType
      BY <1>2, <3>2 DEF ProcessRecord
    <3> QED BY <3>1, <3>2
  <2>3. readEpoch' <= wEpoch
    BY <1>0 DEF CoreInv, EpochNotAhead
  <2>4. r.epoch \in Epochs /\ r.seq \in Seqs /\ r.seq \in Nat /\ n \in Numbers
    BY DEF Record, Seqs, Numbers
  <2>5. times[r.epoch][r.seq] = 0
    <3>1. Accepted(readEpoch) \subseteq Nat /\ WindowTracks(window, Accepted(readEpoch))
          /\ window \in RecSlidWindow
      BY DEF CoreInv, CoreType, WindowInv, Accepted, Seqs
    <3>2. r.seq \notin Accepted(readEpoch)
      BY <2>1, <2>4, <3>1, UpdateTracks
    <3>3. times[r.epoch] \in [Seqs -> Nat]
      BY <2>4 DEF CoreInv, CoreType
    <3>4. times[r.epoch][r.seq] \in Nat
      BY <2>4, <3>3
    <3> QED BY <2>1, <2>4, <3>2, <3>4 DEF Accepted
  <2>6. \A m \in Numbers :
           times'[m.epoch][m.seq] > 0 <=> times[m.epoch][m.seq] > 0 \/ m = n
    <3> TAKE m \in Numbers
    <3>1. m.epoch \in Epochs /\ m.seq \in Seqs
          /\ (m = n <=> m.epoch = r.epoch /\ m.seq = r.seq)
      BY DEF Numbers
    <3>2. times \in [Epochs -> [Seqs -> Nat]]
      BY DEF CoreInv, CoreType
    <3>3. times'[m.epoch][m.seq] = IF m.epoch = r.epoch /\ m.seq = r.seq
                                   THEN times[m.epoch][m.seq] + 1 ELSE times[m.epoch][m.seq]
      <4>1. times[r.epoch] \in [Seqs -> Nat]
        BY <2>4, <3>2
      <4>2. times'[r.epoch] = [times[r.epoch] EXCEPT ![r.seq] = times[r.epoch][r.seq] + 1]
        BY <2>1, <2>4, <3>2
      <4>3. m.epoch # r.epoch => times'[m.epoch] = times[m.epoch]
        BY <2>1, <2>4, <3>1, <3>2
      <4> QED BY <2>4, <3>1, <4>1, <4>2, <4>3
    <3> QED BY <2>5, <3>1, <3>3
  <2>7. AcceptedNumbers' = AcceptedNumbers \cup {n} /\ n \notin AcceptedNumbers
    BY <2>4, <2>5, <2>6 DEF AcceptedNumbers
  <2>8. SentNumbers' = SentNumbers /\ n \in SentNumbers
    BY <1>0, <2>1 DEF SentNumbers
  <2> HIDE DEF n
  <2>9. n.epoch = readEpoch
    BY <2>1 DEF n
  <2>10. \E m \in SentNumbers \ AcceptedNumbers :
            m.epoch = readEpoch /\ AcceptedNumbers' = AcceptedNumbers \cup {m}
    BY <2>7, <2>8, <2>9
  <2> QED
    BY <1>0, <2>2, <2>3, <2>8, <2>10
    DEF Promise!Accepts, Promise!Advance, SentNumbers, AcceptedNumbers, Numbers
<1> QED BY <1>1, <1>2

\* Every step of the reader is a step of the promise, or changes none of its state.
LEMMA NextRefines ==
  ASSUME IInv, IInv', [Next]_vars
  PROVE  Promise!Next \/ UNCHANGED PromiseVars
<1> USE ReadBounds
<1>0. CoreType /\ CoreInv /\ CoreInv' /\ CacheType /\ CacheInv /\ EpochNotAhead'
  BY DEF IInv, CoreInv
<1>1. CASE PeerWrites \/ PeerSendsCcs \/ PeerRetransmits
  <2>1. PICK e \in Epochs, type \in RecTypes : DtlsRecordWrite(e, type)
    BY <1>0, <1>1 DEF PeerWrites, PeerSendsCcs, PeerRetransmits, CoreType, Epochs
  <2>2. wEpoch' \in {wEpoch, wEpoch + 1} /\ UNCHANGED <<readEpoch, times>>
    BY <1>1 DEF PeerWrites, PeerSendsCcs, PeerRetransmits, keys
  <2> QED BY <2>1, <2>2, WriteRefines DEF Promise!Next
<1>2. CASE HS_Init \/ REC_InitPendingState \/ HS_DeInit \/ CcsRecvReady \/ CcsRecvExitReady
  BY <1>2 DEF HS_Init, REC_InitPendingState, HS_DeInit, CcsRecvReady, CcsRecvExitReady,
              PromiseVars, SentNumbers, AcceptedNumbers, peer, keys
<1>3. CASE CcsRecvActiveCipherSpec
  <2>1. UNCHANGED <<net, wEpoch, times>> /\ readEpoch' \in {readEpoch, readEpoch + 1}
    BY <1>3 DEF CcsRecvActiveCipherSpec, REC_ActivePendingState, peer
  <2>2. SentNumbers' = SentNumbers /\ AcceptedNumbers' = AcceptedNumbers
    BY <2>1 DEF SentNumbers, AcceptedNumbers
  <2>3. CASE readEpoch' = readEpoch + 1
    BY <1>0, <2>1, <2>2, <2>3
    DEF EpochNotAhead, Promise!Next, Promise!NextEpoch, Promise!Advance,
        SentNumbers, AcceptedNumbers, Numbers
  <2> QED BY <2>1, <2>2, <2>3 DEF PromiseVars
<1>4. ASSUME NEW recordType \in {"handshake", "app"}, ReadBufList(recordType)
      PROVE  UNCHANGED PromiseVars
  BY <1>4 DEF ReadBufList, PromiseVars, SentNumbers, AcceptedNumbers, peer, keys
<1>5. ASSUME NEW recordType \in {"handshake", "app"}, ReadCached(recordType)
      PROVE  Promise!Accepts \/ UNCHANGED PromiseVars
  <2>1. UNCHANGED peer
    BY <1>5 DEF ReadCached
  <2>2. PICK r \in Record : (r.auth => r \in net) /\ ProcessRecord(recordType, r)
    <3>1. CASE recordType = "handshake"
      BY <1>0, <1>5, <3>1 DEF ReadCached, Cached, IsExistUnprocessedHsMsg, CacheType, CacheInv
    <3>2. CASE recordType = "app"
      <4>1. PICK i \in DOMAIN unprocessedAppMsgList :
              ProcessRecord(recordType, unprocessedAppMsgList[i])
        BY <1>5, <3>2 DEF ReadCached
      <4>2. unprocessedAppMsgList[i] \in Record
        BY <1>0, <4>1 DEF CacheType
      <4> QED BY <1>0, <4>1, <4>2 DEF CacheInv
    <3> QED BY <3>1, <3>2
  <2> QED BY <1>0, <2>1, <2>2, ProcessRefines
<1>6. ASSUME NEW recordType \in {"handshake", "app"}, NEW r \in net \cup Junk,
             ReadFromNet(recordType, r)
      PROVE  Promise!Accepts \/ UNCHANGED PromiseVars
  <2>1. UNCHANGED peer /\ r \in Record /\ (r.auth => r \in net)
    BY <1>0, <1>6 DEF ReadFromNet, CoreType, Junk
  <2>2. CASE ProcessRecord(recordType, r)
    BY <1>0, <2>1, <2>2, ProcessRefines
  <2>3. CASE UNCHANGED <<keys, hsCtx, lists, fatal, times, finished>>
    BY <2>1, <2>3 DEF PromiseVars, SentNumbers, AcceptedNumbers, peer, keys
  <2> QED BY <1>6, <2>2, <2>3 DEF ReadFromNet
<1>7. CASE UNCHANGED vars
  BY <1>7 DEF vars, PromiseVars, SentNumbers, AcceptedNumbers, peer, keys
<1> QED BY <1>1, <1>2, <1>3, <1>4, <1>5, <1>6, <1>7 DEF Next, Promise!Next

\* The reader keeps the promise of ReplaySpec: whatever the network does, each
\* number is accepted at most once, only if the peer sent it and only in its
\* epoch, and the epochs advance one by one behind the peer's.
THEOREM Refinement == Spec => ImplementsPromise
<1>1. Init => Promise!Init
  BY ReadBounds DEF Init, Promise!Init, Epochs, Seqs
<1>2. IInv /\ IInv' /\ [Next]_vars => [Promise!Next]_PromiseVars
  BY NextRefines
<1>3. Spec => []IInv
  BY Invariance
<1> QED BY <1>1, <1>2, <1>3, PTL
  DEF Spec, ImplementsPromise, Promise!Spec, PromiseVars, SentNumbers, AcceptedNumbers, Numbers
===============================================================================
