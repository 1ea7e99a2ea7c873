---------------------------- MODULE DtlsRecordRead ----------------------------
(***************************************************************************)
(* The read side of a DTLS 1.2 endpoint over UDP: header checks and epoch  *)
(* filtering, the caches of records that arrive too early, the anti-replay *)
(* window, decryption, and the ChangeCipherSpec handling that moves to the *)
(* next epoch (src/tls/record/src/rec_read.c, rec_unprocessed_msg.c,       *)
(* rec_anti_replay.c, record.c; src/tls/ccs/src/change_cipher_spec.c).     *)
(*                                                                         *)
(* The network delivers any record sent so far, any number of times, in    *)
(* any order, or never; it may also deliver records that fail the          *)
(* integrity check (auth = FALSE).  A record in epoch 0 is unprotected, so *)
(* whatever arrives there counts as sent by the peer.                      *)
(***************************************************************************)
EXTENDS AntiReplay, Sequences, SequencesExt

CONSTANTS
  MaxEpoch,       \* bound on the epochs (one per handshake)
  MaxSeq,         \* bound on the sequence numbers of an epoch
  MaxRecords,     \* bound on the records the peer writes
  AppMsgCountMax, \* UNPROCESSED_APP_MSG_COUNT_MAX, 50 in the code
  RecTypes,       \* the record types in play
  JunkTypes       \* the types of the records that fail the integrity check

ASSUME ReadBounds == MaxEpoch \in Nat /\ MaxSeq \in Nat /\ AppMsgCountMax \in Nat
                      /\ MaxRecords \in Nat
ASSUME TypesAssumption == RecTypes \subseteq {"handshake", "ccs", "app", "alert"}
                           /\ JunkTypes \subseteq RecTypes

Epochs == 0 .. MaxEpoch
Seqs == 0 .. MaxSeq
Record == [epoch : Epochs, seq : Seqs, type : RecTypes, auth : BOOLEAN]
Junk == {r \in Record : ~r.auth /\ r.epoch > 0 /\ r.type \in JunkTypes}
NoRecord == [epoch |-> 0, seq |-> 0, type |-> "none", auth |-> FALSE]

VARIABLES
  net,                    \* every record the peer has put on the wire
  wEpoch, wSeq,           \* the peer's write epoch, and its next number in each
  readEpoch, window,      \* RecCtx.readEpoch, currentState->window
  pendingState,           \* readStates.pendingState # NULL
  ccs,                    \* CcsCtx
  hsCtx,                  \* "none": hsCtx = NULL; "finished": the peer's Finished is in
  unprocessedHsMsg, unprocessedAppMsgList,
  hsRecList, appRecList,  \* decrypted records of a type nobody was reading
  fatal,                  \* a fatal alert was raised: nothing is read any more
  times,                  \* how often each [epoch, seq] was accepted
  finished                \* the last epoch whose handshake completed

peer == <<net, wEpoch, wSeq>>
keys == <<readEpoch, window, pendingState, ccs>>
caches == <<unprocessedHsMsg, unprocessedAppMsgList>>
lists == <<hsRecList, appRecList>>
vars == <<peer, keys, hsCtx, caches, lists, fatal, times, finished>>

CcsCtx == [isReady : BOOLEAN, ccsRecvflag : BOOLEAN,
           isAllowActiveCipher : BOOLEAN, activeCipherFlag : BOOLEAN]
CcsIdle == [isReady |-> FALSE, ccsRecvflag |-> FALSE,
            isAllowActiveCipher |-> FALSE, activeCipherFlag |-> FALSE]

Init ==
  /\ net = {} /\ wEpoch = 0 /\ wSeq = [e \in Epochs |-> 0]
  /\ readEpoch = 0 /\ window = RecAntiReplayReset /\ pendingState = FALSE
  /\ ccs = CcsIdle /\ hsCtx = "running"
  /\ unprocessedHsMsg = NoRecord /\ unprocessedAppMsgList = <<>>
  /\ hsRecList = <<>> /\ appRecList = <<>> /\ fatal = FALSE
  /\ times = [e \in Epochs |-> [s \in Seqs |-> 0]]
  /\ finished = 0

-------------------------------------------------------------------------------
(* The peer: DtlsRecordWrite numbers every record, retransmissions included. *)

DtlsRecordWrite(e, type) ==
  /\ wSeq[e] <= MaxSeq /\ Cardinality(net) < MaxRecords
  /\ net' = net \cup {[epoch |-> e, seq |-> wSeq[e], type |-> type, auth |-> TRUE]}
  /\ wSeq' = [wSeq EXCEPT ![e] = @ + 1]

PeerWrites ==
  /\ \E type \in RecTypes \ {"ccs"} :
        (type = "app" => wEpoch > 0) /\ DtlsRecordWrite(wEpoch, type)
  /\ UNCHANGED <<wEpoch, keys, hsCtx, caches, lists, fatal, times, finished>>

\* CCS_Send, then REC_ActivePendingState(ctx, true).  The peer needs this end
\* for the handshake, so it is never more than one epoch ahead.
PeerSendsCcs ==
  /\ "ccs" \in RecTypes /\ wEpoch < MaxEpoch /\ wEpoch = readEpoch
  /\ DtlsRecordWrite(wEpoch, "ccs")
  /\ wEpoch' = wEpoch + 1
  /\ UNCHANGED <<keys, hsCtx, caches, lists, fatal, times, finished>>

\* REC_RetransmitListFlush: the part of the flight sent before the CCS goes out
\* again under the outdated write state.
PeerRetransmits ==
  /\ wEpoch > 0
  /\ \E type \in RecTypes \cap {"handshake", "ccs"} : DtlsRecordWrite(wEpoch - 1, type)
  /\ UNCHANGED <<wEpoch, keys, hsCtx, caches, lists, fatal, times, finished>>

-------------------------------------------------------------------------------
(* Activation of the read keys. *)

CanActivate == pendingState /\ hsRecList = <<>>

\* Mutant: the window of the previous epoch is kept.
ActivateKeepsWindow ==
  /\ readEpoch' = readEpoch + 1
  /\ UNCHANGED window
  /\ pendingState' = FALSE

\* REC_ActivePendingState(ctx, false)
REC_ActivePendingState ==
  /\ readEpoch' = readEpoch + 1
  /\ window' = RecAntiReplayReset
  /\ pendingState' = FALSE

\* ProcessPlainCCS, as the record layer's callback for an accepted CCS;
\* w is the window after the CCS record itself was counted.
ProcessPlainCCS(w) ==
  IF ~ccs.isReady
  THEN window' = w /\ UNCHANGED <<readEpoch, pendingState, ccs, fatal>>
  ELSE IF ccs.isAllowActiveCipher /\ ~ccs.activeCipherFlag
  THEN IF CanActivate
       THEN /\ REC_ActivePendingState
            /\ ccs' = [ccs EXCEPT !.activeCipherFlag = TRUE, !.ccsRecvflag = TRUE]
            /\ UNCHANGED fatal
       ELSE window' = w /\ fatal' = TRUE /\ UNCHANGED <<readEpoch, pendingState, ccs>>
  ELSE /\ ccs' = [ccs EXCEPT !.ccsRecvflag = TRUE] /\ window' = w
       /\ UNCHANGED <<readEpoch, pendingState, fatal>>

-------------------------------------------------------------------------------
(* What the handshake does to the record layer. *)

HS_Init ==
  /\ hsCtx = "none" /\ ~fatal
  /\ hsCtx' = "running"
  /\ UNCHANGED <<peer, keys, caches, lists, fatal, times, finished>>

\* The key exchange is done: REC_InitPendingState installs the next keys.
REC_InitPendingState ==
  /\ hsCtx = "running" /\ ~fatal /\ readEpoch < MaxEpoch /\ ~ccs.activeCipherFlag
  /\ pendingState' = TRUE
  /\ UNCHANGED <<peer, readEpoch, window, ccs, hsCtx, caches, lists, fatal, times, finished>>

\* CCS_CMD_RECV_READY
CcsRecvReady ==
  /\ hsCtx = "running" /\ ~fatal
  /\ ccs' = [ccs EXCEPT !.isReady = TRUE]
  /\ UNCHANGED <<peer, readEpoch, window, pendingState, hsCtx, caches, lists, fatal, times, finished>>

\* Mutant: the keys are activated whether or not the peer's CCS has arrived.
ActivateWithoutCcs ==
  /\ hsCtx = "running" /\ ~fatal /\ ccs.isReady /\ pendingState /\ hsRecList = <<>>
  /\ REC_ActivePendingState
  /\ ccs' = [ccs EXCEPT !.isAllowActiveCipher = TRUE, !.activeCipherFlag = TRUE]
  /\ UNCHANGED <<peer, hsCtx, caches, lists, fatal, times, finished>>

\* CCS_CMD_RECV_ACTIVE_CIPHER_SPEC, issued once the keys are derived.
CcsRecvActiveCipherSpec ==
  /\ hsCtx = "running" /\ ~fatal /\ ccs.isReady /\ (pendingState \/ ccs.activeCipherFlag)
  /\ IF ccs.ccsRecvflag /\ ~ccs.activeCipherFlag
     THEN IF CanActivate
          THEN /\ REC_ActivePendingState
               /\ ccs' = [ccs EXCEPT !.isAllowActiveCipher = TRUE, !.activeCipherFlag = TRUE]
               /\ UNCHANGED fatal
          ELSE /\ fatal' = TRUE /\ ccs' = [ccs EXCEPT !.isAllowActiveCipher = TRUE]
               /\ UNCHANGED <<readEpoch, window, pendingState>>
     ELSE /\ ccs' = [ccs EXCEPT !.isAllowActiveCipher = TRUE]
          /\ UNCHANGED <<readEpoch, window, pendingState, fatal>>
  /\ UNCHANGED <<peer, hsCtx, caches, lists, times, finished>>

\* The server refused to resume: a CCS that came early is forgotten.
CcsRecvExitReady ==
  /\ hsCtx = "running" /\ ~fatal /\ ~pendingState /\ ~ccs.activeCipherFlag
  /\ ccs' = CcsIdle
  /\ UNCHANGED <<peer, readEpoch, window, pendingState, hsCtx, caches, lists, fatal, times, finished>>

\* Mutant: the end of a handshake leaves the CCS of that handshake recorded as received.
DeInitKeepsCcs ==
  /\ ~fatal
  /\ \/ hsCtx = "finished"
     \/ hsCtx = "running" /\ readEpoch > 0 /\ ~pendingState /\ ccs = CcsIdle
  /\ hsCtx' = "none" /\ ccs' = [ccs EXCEPT !.isReady = FALSE, !.activeCipherFlag = FALSE]
  /\ UNCHANGED <<peer, readEpoch, window, pendingState, caches, lists, fatal, times, finished>>

\* The end of a handshake, or of a message handled while transporting, which
\* derived no keys: CCS_CMD_RECV_EXIT_READY and HS_DeInit.
HS_DeInit ==
  /\ ~fatal
  /\ \/ hsCtx = "finished"
     \/ hsCtx = "running" /\ readEpoch > 0 /\ ~pendingState /\ ccs = CcsIdle
  /\ hsCtx' = "none" /\ ccs' = CcsIdle
  /\ UNCHANGED <<peer, readEpoch, window, pendingState, caches, lists, fatal, times, finished>>

-------------------------------------------------------------------------------
(* DtlsRecordRead(ctx, recordType, ...). *)

CanRead(recordType) ==
  /\ ~fatal
  /\ IF recordType = "handshake" THEN hsCtx = "running"
     ELSE hsCtx = "none" \/ (hsCtx = "running" /\ appRecList # <<>>)

BufList(recordType) == IF recordType = "handshake" THEN hsRecList ELSE appRecList

\* A Finished taken in the new epoch completes the peer's half of the handshake;
\* the client, or a resuming server, forgets the CCS at once.
HandshakeMsg(e) ==
  IF ccs.activeCipherFlag
  THEN /\ hsCtx' = "finished" /\ finished' = e
       /\ ccs' \in {ccs, CcsIdle}
  ELSE UNCHANGED <<hsCtx, finished, ccs>>

\* RecBufListGetBuffer: a record decrypted earlier is handed out first.
ReadBufList(recordType) ==
  /\ CanRead(recordType) /\ BufList(recordType) # <<>>
  /\ IF recordType = "handshake"
     THEN hsRecList' = Tail(hsRecList) /\ UNCHANGED appRecList
     ELSE appRecList' = Tail(appRecList) /\ UNCHANGED hsRecList
  /\ UNCHANGED <<peer, keys, hsCtx, caches, fatal, times, finished>>

\* Mutant: the integrity check is skipped.
DecryptUnchecked(r) == r.epoch = readEpoch

RecConnDecrypt(r) == r.auth /\ r.epoch = readEpoch

\* RecordUnexpectedMsg: a record of another type than the one being read.  An
\* application record stops the handshake, except in a renegotiation that has
\* not left its hello state.
RecordUnexpectedMsg(r, w) ==
  CASE r.type = "ccs" ->
         ProcessPlainCCS(w) /\ UNCHANGED <<hsCtx, lists, finished>>
    [] r.type = "handshake" ->
         /\ hsRecList' = Append(hsRecList, r) /\ window' = w
         /\ UNCHANGED <<readEpoch, pendingState, ccs, hsCtx, appRecList, fatal, finished>>
    [] r.type = "app" ->
         /\ appRecList' = Append(appRecList, r) /\ window' = w
         /\ fatal' \in IF finished > 0 /\ ~pendingState THEN BOOLEAN ELSE {TRUE}
         /\ UNCHANGED <<readEpoch, pendingState, ccs, hsCtx, hsRecList, finished>>
    [] r.type = "alert" ->
         /\ window' = w
         /\ UNCHANGED <<readEpoch, pendingState, ccs, hsCtx, lists, fatal, finished>>

\* AntiReplay, RecordDecrypt, RecAntiReplayUpdate and the dispatch on the type.
ProcessRecord(recordType, r) ==
  IF RecAntiReplayCheck(window, r.seq) \/ ~RecConnDecrypt(r)
  THEN UNCHANGED <<keys, hsCtx, lists, fatal, times, finished>>
  ELSE LET w == RecAntiReplayUpdate(window, r.seq) IN
       /\ times' = [times EXCEPT ![r.epoch][r.seq] = @ + 1]
       /\ IF r.type # recordType THEN RecordUnexpectedMsg(r, w)
          ELSE /\ window' = w
               /\ IF r.type = "handshake" THEN HandshakeMsg(r.epoch)
                  ELSE UNCHANGED <<hsCtx, finished, ccs>>
               /\ UNCHANGED <<readEpoch, pendingState, lists, fatal>>

IsExistUnprocessedHsMsg ==
  unprocessedHsMsg # NoRecord /\ unprocessedHsMsg.epoch = readEpoch

CurrentAppMsgs == {i \in DOMAIN unprocessedAppMsgList : unprocessedAppMsgList[i].epoch = readEpoch}

\* UnprocessedAppMsgGet stops at the first record of the current epoch.
IsFirstAppMsg(i) == i \in CurrentAppMsgs /\ \A j \in CurrentAppMsgs : i <= j

Cached(recordType) ==
  IF recordType = "handshake" THEN IsExistUnprocessedHsMsg ELSE CurrentAppMsgs # {}

\* GetUnprocessedMsg found a record of the current epoch.
ReadCached(recordType) ==
  /\ CanRead(recordType) /\ BufList(recordType) = <<>> /\ Cached(recordType)
  /\ IF recordType = "handshake"
     THEN /\ ProcessRecord(recordType, unprocessedHsMsg)
          /\ unprocessedHsMsg' = NoRecord
          /\ UNCHANGED unprocessedAppMsgList
     ELSE \E i \in DOMAIN unprocessedAppMsgList :
          /\ IsFirstAppMsg(i)
          /\ ProcessRecord(recordType, unprocessedAppMsgList[i])
          /\ unprocessedAppMsgList' = RemoveAt(unprocessedAppMsgList, i)
          /\ UNCHANGED unprocessedHsMsg
  /\ UNCHANGED peer

\* The handshake cache once GetUnprocessedMsg has looked at it: an expired
\* record is freed.
ExpireHsMsg(recordType) ==
  IF recordType = "handshake" /\ unprocessedHsMsg # NoRecord /\ unprocessedHsMsg.epoch < readEpoch
  THEN NoRecord ELSE unprocessedHsMsg

RecordBufferUnprocessedMsg(r, hs) ==
  IF r.type = "handshake"
  THEN /\ unprocessedHsMsg' = IF hs = NoRecord THEN r ELSE hs
       /\ UNCHANGED unprocessedAppMsgList
  ELSE /\ unprocessedAppMsgList' = IF Len(unprocessedAppMsgList) >= AppMsgCountMax
                                   THEN unprocessedAppMsgList
                                   ELSE Append(unprocessedAppMsgList, r)
       /\ unprocessedHsMsg' = hs

\* The two reasons of DtlsRecordHeaderProcess to keep a record for later.
NextEpochRecord(r) == r.epoch = readEpoch + 1
\* Mutant: nothing of the current epoch is kept for later.
NeverEarly(r) == FALSE
AppBeforeFinished(r) ==
  /\ r.epoch = readEpoch /\ hsCtx # "none" /\ ccs.ccsRecvflag
  /\ r.type \in {"app", "alert"}

\* A record from the network; one of neither the current nor the next epoch is
\* discarded.
ReadFromNet(recordType, r) ==
  /\ CanRead(recordType) /\ BufList(recordType) = <<>> /\ ~Cached(recordType)
  /\ LET hs == ExpireHsMsg(recordType) IN
     IF NextEpochRecord(r) \/ AppBeforeFinished(r)
     THEN /\ RecordBufferUnprocessedMsg(r, hs)
          /\ UNCHANGED <<keys, hsCtx, lists, fatal, times, finished>>
     ELSE /\ unprocessedHsMsg' = hs /\ UNCHANGED unprocessedAppMsgList
          /\ IF r.epoch = readEpoch THEN ProcessRecord(recordType, r)
             ELSE UNCHANGED <<keys, hsCtx, lists, fatal, times, finished>>
  /\ UNCHANGED peer

Next ==
  \/ PeerWrites \/ PeerSendsCcs \/ PeerRetransmits
  \/ HS_Init \/ REC_InitPendingState \/ HS_DeInit
  \/ CcsRecvReady \/ CcsRecvActiveCipherSpec \/ CcsRecvExitReady
  \/ \E recordType \in {"handshake", "app"} :
       \/ ReadBufList(recordType)
       \/ ReadCached(recordType)
       \/ \E r \in net \cup Junk : ReadFromNet(recordType, r)

Spec == Init /\ [][Next]_vars

-------------------------------------------------------------------------------
(* Properties. *)

\* The variables keep their types and bounds.
TypeOK ==
  /\ net \subseteq {r \in Record : r.auth}
  /\ wEpoch \in Epochs /\ wSeq \in [Epochs -> 0 .. MaxSeq + 1]
  /\ readEpoch \in Epochs /\ window \in RecSlidWindow /\ pendingState \in BOOLEAN
  /\ ccs \in CcsCtx /\ hsCtx \in {"none", "running", "finished"}
  /\ unprocessedHsMsg \in Record \cup {NoRecord}
  /\ unprocessedAppMsgList \in Seq(Record)
  /\ hsRecList \in Seq(Record) /\ appRecList \in Seq(Record) /\ fatal \in BOOLEAN
  /\ times \in [Epochs -> [Seqs -> Nat]] /\ finished \in Epochs

\* No record is taken twice, whatever the network duplicates, the peer
\* retransmits, or the caches held across a change of keys (AntiReplay and
\* RecAntiReplayUpdate in rec_read.c).
NoReplay == \A e \in Epochs, s \in Seqs : times[e][s] <= 1

\* The window refuses only what was taken or has fallen out of it: a first
\* arrival within WindowSize of the newest record passes RecAntiReplayCheck.
FreshNotRejected ==
  \A s \in Seqs : (times[readEpoch][s] = 0 /\ s + WindowSize > window.top)
                    => ~RecAntiReplayCheck(window, s)

\* What is accepted was sent by the peer in that epoch, so no record that
\* fails the integrity check moves the window (rec_read.c:711-720).
OnlyAuthentic ==
  \A e \in Epochs, s \in Seqs :
     times[e][s] > 0 => e <= readEpoch /\ \E r \in net : r.epoch = e /\ r.seq = s

\* The reader never runs ahead of the peer's keys: one CCS moves it one epoch,
\* although the CCS may arrive early, twice, or be retransmitted.
EpochNotAhead == readEpoch <= wEpoch

\* "App messages arrive earlier than finished messages and need to be cached"
\* (rec_read.c:564): no application record is taken in an epoch before the
\* Finished of that epoch.
AppAfterFinished ==
  \A r \in net : (r.type = "app" /\ times[r.epoch][r.seq] > 0) => r.epoch <= finished

\* The reader meets the promise of ReplaySpec.
Promise == INSTANCE ReplaySpec WITH
  Records <- [epoch : Epochs, seq : Seqs],
  sent <- {[epoch |-> r.epoch, seq |-> r.seq] : r \in net},
  accepted <- {n \in [epoch : Epochs, seq : Seqs] : times[n.epoch][n.seq] > 0},
  peerEpoch <- wEpoch, epoch <- readEpoch

\* Every step of the reader is a step ReplaySpec allows.
ImplementsPromise == Promise!Spec
===============================================================================
