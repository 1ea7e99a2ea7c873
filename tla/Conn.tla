--------------------------------- MODULE Conn ---------------------------------
(***************************************************************************)
(* One TLS connection over a stream transport, as its user drives it:      *)
(* HITLS_Connect/Accept, Read, Write, Close, KeyUpdate, Renegotiate,       *)
(* VerifyClientPostHandshake, Flush and Clear (src/tls/cm), the alerts     *)
(* (src/tls/alert), application data (src/tls/app) and the one output      *)
(* buffer all of them share (src/tls/record/src/rec_write.c).              *)
(*                                                                         *)
(* ctx is the HITLS_Ctx.  Every C function that changes it is an operator  *)
(* from a ctx to a ctx, or to a result [ctx, ret] when it can fail; what   *)
(* the transport answers is an argument.  A call of the API is a sequence  *)
(* of steps, one per iteration of the loops that handle one message: call  *)
(* holds the API function, the event loop it is in, and the last return    *)
(* code.  The handshake itself is the order of its sends and receives.     *)
(* The peer may send any message at any time.                              *)
(***************************************************************************)
EXTENDS Naturals

CONSTANTS
  Configs,         \* the configurations and negotiated versions in play
  MayClear,        \* the user may reuse the handle with HITLS_Clear
  MaxAlertCount    \* MAX_ALERT_COUNT, 5 in the code

\* isClient; the negotiated version; no close_notify wanted; secure renegotiation
\* negotiated and supported; a client may renegotiate; the post-handshake
\* authentication extension is configured; and, of the environment, REC_Write may
\* fail before a record is built.
Config == [isClient : BOOLEAN, isTls13 : BOOLEAN, isQuietShutdown : BOOLEAN,
           supportRenego : BOOLEAN, allowClientRenego : BOOLEAN, supportPha : BOOLEAN,
           writeErrors : BOOLEAN]

ASSUME ConfigsAssumption == Configs \subseteq Config /\ MayClear \in BOOLEAN
ASSUME AlertCountAssumption == MaxAlertCount \in Nat \ {0}

VARIABLES config, ctx, call

States == {"IDLE", "HANDSHAKING", "TRANSPORTING", "RENEGOTIATION", "ALERTING", "ALERTED", "CLOSED"}
Shutdown == {"SENT", "RECEIVED"}
AlertKinds == {"close", "no_reneg", "warn", "fatal"}   \* fatal is a level, the rest warnings
AlertCtx == [flag : {"NO", "SEND", "RECV"}, kind : AlertKinds \cup {"none"}, isFlush : BOOLEAN]
PhaStates == {"PHA_NONE", "PHA_EXTENSION", "PHA_PENDING", "PHA_REQUESTED"}

\* hsCtx->state: the hello a side waits for, the other sends and receives, and
\* the messages that may follow a handshake.
SendStates == {"send", "sendHelloRequest", "sendKeyUpdate", "sendCertRequest"}
RecvStates == {"hello", "recv", "recvHelloRequest", "recvKeyUpdate"}
HsStates == {"none", "connected"} \cup SendStates \cup RecvStates

\* What the properties remember of the connection; the code does not read it.
Log == [encoded : SUBSET {"close", "fatal"},    \* alerts that were built as a record
        wire : SUBSET {"close", "fatal"},       \* alerts the transport has taken
        afterClose : SUBSET {"app", "hs", "close"},  \* built after a close_notify
        afterFatal : SUBSET {"app", "read"},    \* built or delivered after a fatal alert
        fatal : BOOLEAN,                        \* a fatal alert was raised or received
        gotClose : BOOLEAN,                     \* the peer's close_notify was received
        from : States,                          \* the state ALERTING was entered from
        copies : 0 .. 2,                        \* records built for the data being written
        writing : BOOLEAN,                      \* a HITLS_Write has yet to succeed
        disturbed : BOOLEAN,                    \* its record and another were confused
        lost : BOOLEAN,                         \* REC_Write reported another record as this one
        pha : BOOLEAN]                          \* this connection negotiated the extension

Ctx == [state : States, preState : States, shutdownState : SUBSET Shutdown,
        userShutDown : BOOLEAN, userRenego : BOOLEAN, isRenegotiation : BOOLEAN,
        phaState : PhaStates, hs : HsStates, alert : AlertCtx, warnCount : 0 .. MaxAlertCount,
        outBuf : {"none", "app", "hs", "close", "no_reneg", "fatal"}, pendingData : BOOLEAN,
        log : Log]

APIs == {"Connect", "Accept", "Read", "Write", "Close"}
Rets == {"SUCCESS", "IO_BUSY", "BUF_EMPTY", "LINK_CLOSED", "FATAL_ALERTED", "UNESTABLISHED", "ERROR"}
Loops == {"user", "Dispatch", "Handshaking", "Renegotiation", "Reading", "Writing"}

NoAlert == [flag |-> "NO", kind |-> "none", isFlush |-> FALSE]
NoLog == [encoded |-> {}, wire |-> {}, afterClose |-> {}, afterFatal |-> {}, fatal |-> FALSE,
          gotClose |-> FALSE, from |-> "IDLE", copies |-> 0, writing |-> FALSE,
          disturbed |-> FALSE, lost |-> FALSE, pha |-> FALSE]

\* HITLS_New, and CONN_Init at the first HITLS_Connect or HITLS_Accept.
NewCtx == [state |-> "IDLE", preState |-> "IDLE", shutdownState |-> {},
           userShutDown |-> FALSE, userRenego |-> FALSE, isRenegotiation |-> FALSE,
           phaState |-> "PHA_NONE", hs |-> "none", alert |-> NoAlert, warnCount |-> 0,
           outBuf |-> "none", pendingData |-> FALSE, log |-> NoLog]

NoCall == [api |-> "Connect", at |-> "user", ret |-> "SUCCESS"]

Init == config \in Configs /\ ctx = NewCtx /\ call = NoCall

Result(c, r) == [ctx |-> c, ret |-> r]

-------------------------------------------------------------------------------
(* The record layer's output buffer.  The transport takes a whole record     *)
(* ("ok") or not ("busy"); "fail" is an error before the record is built.    *)

BuildOutcomes == IF config.writeErrors THEN {"ok", "busy", "fail"} ELSE {"ok", "busy"}
IO == [flush : {"ok", "busy"}, write : BuildOutcomes]

Built(c, kind) ==
  [c EXCEPT !.log.encoded = @ \cup ({kind} \cap {"close", "fatal"}),
            !.log.afterClose = IF "close" \in c.log.encoded
                               THEN @ \cup ({kind} \cap {"app", "hs", "close"}) ELSE @,
            !.log.afterFatal = IF c.log.fatal THEN @ \cup ({kind} \cap {"app"}) ELSE @,
            !.log.copies = IF kind = "app" /\ @ < 2 THEN @ + 1 ELSE @]

Taken(c, kind) == [c EXCEPT !.outBuf = "none", !.log.wire = @ \cup ({kind} \cap {"close", "fatal"})]

\* Mutant: the flush does not forget the data that was pending.
FlushKeepsPending(c, io) ==
  IF c.outBuf = "none" THEN Result(c, "SUCCESS")
  ELSE IF io = "ok" THEN Result(Taken(c, c.outBuf), "SUCCESS") ELSE Result(c, "IO_BUSY")

\* REC_OutBufFlush
REC_OutBufFlush(c, io) ==
  IF c.outBuf = "none" THEN Result(c, "SUCCESS")
  ELSE IF io = "ok"
  THEN Result([Taken(c, c.outBuf) EXCEPT !.pendingData = FALSE,
                                         !.log.disturbed = @ \/ c.outBuf = "app"], "SUCCESS")
  ELSE Result(c, "IO_BUSY")

\* Mutant: a record is built although one is in the buffer.
WriteBuildsAgain(c, kind, io) ==
  CASE io = "ok" -> Result(Taken(Built(c, kind), kind), "SUCCESS")
    [] io = "busy" -> Result([Built(c, kind) EXCEPT !.outBuf = kind], "IO_BUSY")
    [] io = "fail" -> Result(c, "ERROR")

\* TlsRecordWrite: a record still in the buffer is sent in place of the new one.
REC_Write(c, kind, io) ==
  IF c.outBuf # "none"
  THEN IF io = "ok"
       THEN Result([Taken(c, c.outBuf) EXCEPT !.log.lost = @ \/ kind # c.outBuf,
                                              !.log.disturbed = @ \/ (kind # c.outBuf /\ "app" \in {kind, c.outBuf})],
                   "SUCCESS")
       ELSE Result(c, "IO_BUSY")
  ELSE CASE io = "ok" -> Result(Taken(Built(c, kind), kind), "SUCCESS")
         [] io = "busy" -> Result([Built(c, kind) EXCEPT !.outBuf = kind], "IO_BUSY")
         [] io = "fail" -> Result(c, "ERROR")

-------------------------------------------------------------------------------
(* src/tls/alert/src/alert.c *)

\* A pending fatal alert is never replaced, nor a close_notify by a warning.
AlertIsAbnormalInput(a, kind) ==
  a.flag # "NO" /\ (a.kind = "fatal" \/ (a.kind = "close" /\ kind # "fatal"))

ALERT_Send(c, kind) ==
  IF AlertIsAbnormalInput(c.alert, kind) THEN c
  ELSE [c EXCEPT !.alert = [flag |-> "SEND", kind |-> kind, isFlush |-> FALSE],
                 !.log.fatal = @ \/ kind = "fatal"]

ALERT_CleanInfo(c) == [c EXCEPT !.alert = NoAlert]

\* Mutant: an alert that was handed to the record layer counts as sent.
FlushTrustsFlag(c, io) ==
  LET f == REC_OutBufFlush(c, io.flush)
      w == REC_Write(f.ctx, c.alert.kind, io.write)
  IN IF c.alert.flag # "SEND" THEN Result(c, "ERROR")
     ELSE IF c.alert.isFlush THEN Result(c, "SUCCESS")
     ELSE IF f.ret # "SUCCESS" THEN f
     ELSE IF f.ctx.pendingData /\ c.alert.kind = "close" THEN Result(f.ctx, "IO_BUSY")
     ELSE [w EXCEPT !.ctx.alert.isFlush = TRUE]

ALERT_Flush(c, io) ==
  LET f == REC_OutBufFlush(c, io.flush)
      w == REC_Write(f.ctx, c.alert.kind, io.write)
  IN IF c.alert.flag # "SEND" THEN Result(c, "ERROR")
     ELSE IF f.ret # "SUCCESS" \/ c.alert.isFlush THEN f
     ELSE IF f.ctx.pendingData /\ c.alert.kind = "close" THEN Result(f.ctx, "IO_BUSY")
     ELSE [w EXCEPT !.ctx.alert.isFlush = TRUE]

\* ProcessDecryptedAlert: in TLS 1.3 every alert but close_notify is fatal.
ProcessDecryptedAlert(c, kind) ==
  LET k == IF config.isTls13 /\ kind # "close" THEN "fatal" ELSE kind
  IN IF AlertIsAbnormalInput(c.alert, kind) THEN c
     ELSE [c EXCEPT !.alert = [flag |-> "RECV", kind |-> k, isFlush |-> c.alert.isFlush],
                    !.log.fatal = @ \/ k = "fatal"]

\* ALERT_HaveExceeded, with the fatal alert its callers then raise.
ALERT_HaveExceeded(c) ==
  LET d == [c EXCEPT !.warnCount = @ + 1]
  IN IF d.warnCount >= MaxAlertCount THEN ALERT_Send(d, "fatal") ELSE d

ALERT_ClearWarnCount(c) == [c EXCEPT !.warnCount = 0]

-------------------------------------------------------------------------------
(* src/tls/cm/src/conn_common.c *)

ChangeConnState(c, s) ==
  IF c.state = s THEN c
  ELSE [c EXCEPT !.preState = c.state, !.state = s,
                 !.log.from = IF s = "ALERTING" THEN c.state ELSE @]

SetShutdown(c, flags) == [c EXCEPT !.shutdownState = @ \cup flags]

\* CommonEventInAlertingState: the pending alert goes out, then the state changes.
\* preState is read after ChangeConnState has set it.
CommonEventInAlertingState(c, io) ==
  LET f == ALERT_Flush(c, io)
      d == ChangeConnState(f.ctx, IF c.userShutDown THEN "CLOSED" ELSE "ALERTED")
  IN IF f.ret # "SUCCESS" THEN f
     ELSE CASE c.alert.kind = "fatal" -> Result(ChangeConnState(f.ctx, "ALERTED"), "SUCCESS")
            [] c.alert.kind = "close" ->
                 Result(SetShutdown(d, {"SENT"} \cup IF d.preState # "TRANSPORTING"
                                                     THEN {"RECEIVED"} ELSE {}), "SUCCESS")
            [] OTHER -> Result(ALERT_CleanInfo([f.ctx EXCEPT !.state = f.ctx.preState]), "SUCCESS")

\* The answer to the peer's close_notify.  While transporting the user may still
\* send, so only the state changes.
AlertRecvClose(c, io) ==
  LET r == [SetShutdown(ALERT_CleanInfo(c), {"RECEIVED"}) EXCEPT !.log.gotClose = TRUE]
      s == ALERT_Flush(ChangeConnState(ALERT_Send(r, "close"), "ALERTING"), io)
  IN CASE config.isQuietShutdown ->
            Result(ChangeConnState(SetShutdown(r, {"SENT"}), "ALERTED"), "SUCCESS")
       [] ~config.isQuietShutdown /\ "SENT" \in r.shutdownState ->
            Result(IF r.state = "CLOSED" THEN r ELSE ChangeConnState(r, "ALERTED"), "LINK_CLOSED")
       [] ~config.isQuietShutdown /\ "SENT" \notin r.shutdownState /\ r.state = "TRANSPORTING" ->
            Result(ChangeConnState(r, "CLOSED"), "LINK_CLOSED")
       [] OTHER ->
            IF s.ret # "SUCCESS" THEN s
            ELSE Result(ChangeConnState(SetShutdown(s.ctx, {"SENT"}), "ALERTED"), "LINK_CLOSED")

\* Mutant: a fatal alert of the peer is handled like its close_notify.
FatalOnlyCloses(c, io) ==
  CASE c.alert.kind = "fatal" ->
         Result(SetShutdown(ChangeConnState(c, "CLOSED"), {"RECEIVED"}), "SUCCESS")
    [] c.alert.kind = "close" -> AlertRecvClose(c, io)
    [] OTHER -> Result(ALERT_CleanInfo(c), "SUCCESS")

AlertRecvProcess(c, io) ==
  CASE c.alert.kind = "fatal" ->
         Result(SetShutdown(ChangeConnState(c, "ALERTED"), {"RECEIVED"}), "SUCCESS")
    [] c.alert.kind = "close" -> AlertRecvClose(c, io)
    [] OTHER -> Result(ALERT_CleanInfo(c), "SUCCESS")

AlertEventProcess(c, io) ==
  CASE c.alert.flag = "RECV" -> AlertRecvProcess(c, io)
    [] c.alert.flag = "SEND" -> CommonEventInAlertingState(ChangeConnState(c, "ALERTING"), io)
    [] c.alert.flag = "NO" -> Result(c, "SUCCESS")

\* A refused renegotiation that this end asked for ends the connection.
InnerRenegotiationProcess(c) == IF c.alert.kind = "no_reneg" THEN ALERT_Send(c, "fatal") ELSE c

\* HsInitChangeState
HS_Init(c) ==
  [c EXCEPT !.hs = IF config.isClient THEN "send" ELSE IF c.isRenegotiation THEN "sendHelloRequest" ELSE "hello"]

HS_DeInit(c) == [c EXCEPT !.hs = "none"]

-------------------------------------------------------------------------------
(* The event loops.  A call returns to the user, or goes on in a loop. *)

Return(r) == call' = [call EXCEPT !.at = "user", !.ret = r]
Continue(loop) == call' = [call EXCEPT !.at = loop]

\* The loop that handles a connection in state s for the API call in progress.
LoopFor(s) == CASE s = "HANDSHAKING" -> "Handshaking" [] s = "RENEGOTIATION" -> "Renegotiation"

\* What a loop does once an alert is pending in c: ret is the code that the
\* function which met it returned.  A warning lets the loop go on.
AlertInLoop(c, ret, io) ==
  LET a == AlertEventProcess(ALERT_HaveExceeded(c), io)
  IN /\ ctx' = a.ctx
     /\ IF a.ret # "SUCCESS" THEN Return(a.ret)
        ELSE IF a.ctx.state \in {"ALERTED", "CLOSED"} THEN Return(ret)
        ELSE UNCHANGED call

\* CommonEventInHandshakingState and CommonEventInRenegotiationState.
AlertInHandshake(c, io) ==
  AlertInLoop(IF call.at = "Renegotiation" THEN InnerRenegotiationProcess(c) ELSE c, "ERROR", io)

InHandshake == call.at \in {"Handshaking", "Renegotiation"}

\* The extension is offered in the client's hello, which the server sees.
OfferPha(c, pha) ==
  IF pha /\ config.isTls13 /\ config.supportPha
  THEN [c EXCEPT !.log.pha = TRUE,
                 !.phaState = IF @ = "PHA_NONE" THEN "PHA_EXTENSION" ELSE @]
  ELSE c

\* The last message of a post-handshake authentication allows the next one.
Finish(c, next) ==
  [c EXCEPT !.hs = next,
            !.phaState = IF next = "connected" /\ @ = "PHA_REQUESTED" THEN "PHA_EXTENSION" ELSE @]

\* A handshake message was written; next is where the handshake stands then.
SentMsg(c, next, pha) ==
  CASE c.hs = "sendHelloRequest" -> [c EXCEPT !.hs = "connected", !.isRenegotiation = FALSE]
    [] c.hs = "sendKeyUpdate" -> [c EXCEPT !.hs = "connected"]
    [] c.hs = "sendCertRequest" -> [c EXCEPT !.hs = "connected", !.phaState = "PHA_REQUESTED"]
    [] c.hs = "send" -> Finish(IF next = "hello" THEN OfferPha(c, pha) ELSE c, next)

\* HS_SendMsgProcess in HS_DoHandshake
HsSend(next, pha, io) ==
  /\ InHandshake /\ ctx.hs \in SendStates
  /\ config.isClient \/ next # "hello"
  /\ LET w == REC_Write(ctx, "hs", io) IN
     IF w.ret = "SUCCESS" THEN ctx' = SentMsg(w.ctx, next, pha) /\ UNCHANGED call
     ELSE ctx' = w.ctx /\ Return(w.ret)

\* A handshake message was received and accepted.
ReceivedMsg(c, next, pha) ==
  CASE c.hs = "recvHelloRequest" -> [c EXCEPT !.hs = "send", !.isRenegotiation = TRUE]
    [] c.hs = "recvKeyUpdate" ->
         [c EXCEPT !.hs = IF next = "send" THEN "sendKeyUpdate" ELSE "connected"]
    [] c.hs = "hello" ->
         [(IF config.isClient THEN c ELSE OfferPha(c, pha))
            EXCEPT !.hs = IF next = "recv" THEN "recv" ELSE "send",
                   !.isRenegotiation = @ \/ (~config.isClient /\ c.state = "RENEGOTIATION")]
    [] c.hs = "recv" -> Finish(c, next)

IsUnexpectedHandshaking(c) == c.state = "HANDSHAKING" /\ c.preState = "TRANSPORTING"

\* HS_RecvMsgProcess in HS_DoHandshake.  A ClientHello that was not wanted is
\* answered by a warning and ends the exchange.
HsRecv(next, pha, io) ==
  /\ InHandshake /\ ctx.hs \in RecvStates /\ next # "hello"
  /\ LET c == ALERT_ClearWarnCount(ctx) IN
     IF ~config.isClient /\ ~config.isTls13 /\ c.hs = "hello" /\ IsUnexpectedHandshaking(c)
     THEN AlertInHandshake([ALERT_Send(c, "no_reneg") EXCEPT !.hs = "connected"], io)
     ELSE ctx' = ReceivedMsg(c, next, pha) /\ UNCHANGED call

\* The message was rejected: every rejection raises a fatal alert.
HsRejects(io) ==
  /\ InHandshake /\ ctx.hs \in RecvStates
  /\ AlertInHandshake(ALERT_Send(ALERT_ClearWarnCount(ctx), "fatal"), io)

HsAlert(kind, io) ==
  /\ InHandshake /\ ctx.hs \in RecvStates
  /\ AlertInHandshake(ProcessDecryptedAlert(ctx, kind), io)

\* Nothing to read.  A writer whose peer has not begun the renegotiation writes.
HsWaits ==
  /\ InHandshake /\ ctx.hs \in RecvStates
  /\ IF call.at = "Renegotiation" /\ call.api = "Write" /\ ~ctx.isRenegotiation
     THEN Continue("Writing") ELSE Return("BUF_EMPTY")
  /\ UNCHANGED ctx

Delivered(c) == [c EXCEPT !.log.afterFatal = IF c.log.fatal THEN @ \cup {"read"} ELSE @]

\* Application data during a handshake: fatal, but a reader who waits for the
\* peer's hello in a renegotiation gets the data.
HsApp(io) ==
  /\ InHandshake /\ ctx.hs \in RecvStates
  /\ LET c == ALERT_ClearWarnCount(ctx) IN
     IF call.at = "Renegotiation" /\ call.api = "Read" /\ ctx.hs = "hello"
     THEN ctx' = Delivered(c) /\ Return("SUCCESS")
     ELSE AlertInHandshake(ALERT_Send(c, "fatal"), io)

\* The handshake is complete: the connection transports, and the call goes on.
HsDone ==
  /\ InHandshake /\ ctx.hs = "connected"
  /\ LET c == HS_DeInit(ChangeConnState(ctx, "TRANSPORTING")) IN
     ctx' = IF call.at = "Renegotiation" /\ c.isRenegotiation
            THEN [c EXCEPT !.userRenego = FALSE, !.isRenegotiation = FALSE] ELSE c
  /\ CASE call.api \in {"Connect", "Accept"} -> Return("SUCCESS")
       [] call.api = "Read" -> Continue("Reading")
       [] call.api = "Write" -> Continue("Writing")

-------------------------------------------------------------------------------
(* src/tls/cm/src/conn_read.c *)

\* PreprocessUnexpectHsMsg: a handshake message while transporting starts an
\* exchange, is refused by a warning, or is an error.
Exchange(c, state, hs) == Result([ChangeConnState(c, state) EXCEPT !.hs = hs], "SUCCESS")
Unexpected(c) == Result(ALERT_Send(c, "fatal"), "ERROR")

PreprocessUnexpectHsMsg(c, msg) ==
  CASE msg \in {"hello_request", "client_hello"} ->
         IF config.isTls13 \/ (config.isClient <=> msg = "client_hello") THEN Unexpected(c)
         ELSE IF config.supportRenego /\ (msg = "client_hello" => config.allowClientRenego \/ c.userRenego)
              THEN Exchange(c, "RENEGOTIATION", IF msg = "client_hello" THEN "hello" ELSE "recvHelloRequest")
         ELSE IF msg = "client_hello" THEN Exchange(c, "HANDSHAKING", "hello")
         ELSE Result(ALERT_Send(c, "no_reneg"), "BUF_EMPTY")
    [] msg = "key_update" ->
         IF config.isTls13 THEN Exchange(c, "HANDSHAKING", "recvKeyUpdate") ELSE Unexpected(c)
    [] msg = "certificate_request" ->
         IF config.isTls13 /\ config.isClient /\ c.phaState = "PHA_EXTENSION"
         THEN Exchange([c EXCEPT !.phaState = "PHA_REQUESTED"], "HANDSHAKING", "recv") ELSE Unexpected(c)
    [] msg = "certificate" ->
         IF config.isTls13 /\ ~config.isClient /\ c.phaState = "PHA_REQUESTED"
         THEN Exchange(c, "HANDSHAKING", "recv") ELSE Unexpected(c)
    [] msg = "new_session_ticket" ->
         IF config.isTls13 /\ config.isClient THEN Exchange(c, "HANDSHAKING", "recv") ELSE Unexpected(c)
    [] msg = "other" -> Unexpected(c)

HsMsgs == {"hello_request", "client_hello", "key_update", "certificate_request", "certificate",
           "new_session_ticket", "other"}

\* APP_Read in a closed connection: the record read, and the alert it leaves.
Records == AlertKinds \cup {"app", "nothing", "bad"}
APP_Read(c, record) ==
  CASE record \in AlertKinds -> ProcessDecryptedAlert(c, record)
    [] record = "bad" -> ALERT_Send(c, "fatal")
    [] record = "app" -> ALERT_ClearWarnCount(c)
    [] record = "nothing" -> c

\* ReadEventInTransportingState, one iteration for each kind of record.
ReadApp ==
  /\ call.at = "Reading"
  /\ ctx' = Delivered(ALERT_ClearWarnCount(ctx)) /\ Return("SUCCESS")

ReadNothing == call.at = "Reading" /\ Return("BUF_EMPTY") /\ UNCHANGED ctx

\* With HITLS_MODE_AUTO_RETRY off the call returns BUF_EMPTY after a warning.
AlertInRead(c, ret, io) ==
  AlertInLoop(IF c.userRenego THEN InnerRenegotiationProcess(c) ELSE c, ret, io)

ReadAlert(kind, io) ==
  call.at = "Reading" /\ AlertInRead(ProcessDecryptedAlert(ctx, kind), "ERROR", io)

ReadError(io) ==
  call.at = "Reading" /\ AlertInRead(ALERT_Send(ctx, "fatal"), "ERROR", io)

ReadHsMsg(msg, io) ==
  /\ call.at = "Reading"
  /\ LET p == PreprocessUnexpectHsMsg(ALERT_ClearWarnCount(ctx), msg) IN
     IF p.ret = "SUCCESS" THEN ctx' = p.ctx /\ Continue(LoopFor(p.ctx.state))
     ELSE AlertInRead(HS_DeInit(p.ctx), p.ret, io)

\* ReadEventInClosedState: what the peer still sends is read until its
\* close_notify.
ClosedForReading == ctx.state = "CLOSED" /\ "RECEIVED" \in ctx.shutdownState

ReadEventInClosedState(record, io) ==
  /\ call.api = "Read" /\ call.at = "Dispatch" /\ ctx.state = "CLOSED" /\ ~ClosedForReading
  /\ LET c == APP_Read(ALERT_CleanInfo(ctx), record)
         a == AlertEventProcess(c, io)
     IN IF c.alert.flag = "NO"
        THEN /\ ctx' = IF record = "app" THEN Delivered(c) ELSE c
             /\ Return(IF record = "app" THEN "SUCCESS" ELSE "BUF_EMPTY")
        ELSE /\ ctx' = a.ctx
             /\ Return(IF a.ret # "SUCCESS" THEN a.ret
                       ELSE IF "RECEIVED" \in a.ctx.shutdownState THEN "LINK_CLOSED" ELSE "ERROR")

-------------------------------------------------------------------------------
(* src/tls/cm/src/conn_write.c and src/tls/app/src/app.c *)

\* APP_Write; pendingData keeps the data of a write that did not succeed.
APP_Write(c, io) ==
  LET w == REC_Write([c EXCEPT !.pendingData = TRUE], "app", io)
  IN IF w.ret = "SUCCESS" THEN [w EXCEPT !.ctx.pendingData = FALSE, !.ctx.log.writing = FALSE] ELSE w

WriteApp(io) ==
  /\ call.at = "Writing"
  /\ LET w == APP_Write(ctx, io) IN ctx' = w.ctx /\ Return(w.ret)

\* CheckDataLen: a retry with other data than what is pending.
WriteBadRetry(io) ==
  /\ call.at = "Writing" /\ ctx.pendingData
  /\ AlertInLoop(ALERT_Send(ctx, "fatal"), "ERROR", io)

\* WriteEventInClosedState: after the peer's close_notify this end may still write.
ClosedForWriting == ctx.state = "CLOSED" /\ "SENT" \in ctx.shutdownState
InClosedWrite ==
  call.api = "Write" /\ call.at = "Dispatch" /\ ctx.state = "CLOSED" /\ ~ClosedForWriting

WriteEventInClosedState(io) ==
  /\ InClosedWrite
  /\ LET w == APP_Write(ALERT_CleanInfo(ctx), io) IN ctx' = w.ctx /\ Return(w.ret)

WriteBadRetryInClosedState(io) ==
  /\ InClosedWrite /\ ctx.pendingData
  /\ LET a == AlertEventProcess(ALERT_Send(ALERT_CleanInfo(ctx), "fatal"), io)
     IN ctx' = a.ctx /\ Return(IF a.ret # "SUCCESS" THEN a.ret ELSE "ERROR")

-------------------------------------------------------------------------------
(* src/tls/cm/src/conn_establish.c: closing *)

\* Mutant: a close_notify that is still in the buffer leaves the state alone.
CloseKeepsState(c, io, failState) ==
  LET f == ALERT_Flush(ALERT_Send(c, "close"), io)
  IN IF "SENT" \in c.shutdownState THEN Result(c, "SUCCESS")
     ELSE IF f.ret # "SUCCESS" THEN f ELSE [f EXCEPT !.ctx = SetShutdown(@, {"SENT"})]

\* close_notify goes out unless it has already; failState is entered if it cannot.
SendCloseNotify(c, io, failState) ==
  LET f == ALERT_Flush(ALERT_Send(c, "close"), io)
  IN IF "SENT" \in c.shutdownState THEN Result(c, "SUCCESS")
     ELSE IF f.ret # "SUCCESS" THEN [f EXCEPT !.ctx = ChangeConnState(@, failState)]
     ELSE [f EXCEPT !.ctx = SetShutdown(@, {"SENT"})]

Closed(r, flags) ==
  IF r.ret # "SUCCESS" THEN r
  ELSE Result(ChangeConnState(SetShutdown(r.ctx, flags), "CLOSED"), "SUCCESS")

\* The handler of HITLS_Close in each state; record is what the peer sent, for
\* a second HITLS_Close that waits for the peer's close_notify.
CloseEventInClosedState(c, record, io) ==
  LET r == APP_Read(ALERT_CleanInfo(c), record)
      a == AlertEventProcess(r, io)
  IN IF "RECEIVED" \in c.shutdownState THEN Closed(SendCloseNotify(c, io, "ALERTING"), {})
     ELSE IF r.alert.flag = "NO"
     THEN Result(r, IF record = "app" THEN "SUCCESS" ELSE "BUF_EMPTY")
     ELSE CASE a.ret = "LINK_CLOSED" -> Result(a.ctx, "SUCCESS")
            [] a.ret = "SUCCESS" -> Result(a.ctx, "ERROR")
            [] OTHER -> a

CloseEvent(c, record, io) ==
  CASE config.isQuietShutdown \/ c.state \in {"IDLE", "ALERTED"} ->
         Closed(Result(c, "SUCCESS"), Shutdown)
    [] ~config.isQuietShutdown /\ c.state \in {"HANDSHAKING", "RENEGOTIATION"} ->
         Closed(SendCloseNotify(c, io, "ALERTED"), {"RECEIVED"})
    [] ~config.isQuietShutdown /\ c.state = "TRANSPORTING" -> Closed(SendCloseNotify(c, io, "ALERTING"), {})
    [] ~config.isQuietShutdown /\ c.state = "ALERTING" ->
         CommonEventInAlertingState(ALERT_Send(c, "close"), io)
    [] ~config.isQuietShutdown /\ c.state = "CLOSED" -> CloseEventInClosedState(c, record, io)

\* The loop of HITLS_Close, until the connection is closed or a handler fails.
CloseStep(record, io) ==
  /\ call.api = "Close" /\ call.at = "Dispatch"
  /\ LET r == CloseEvent(ctx, record, io) IN
     /\ ctx' = r.ctx
     /\ IF r.ret # "SUCCESS" \/ r.ctx.state = "CLOSED" THEN Return(r.ret) ELSE UNCHANGED call

-------------------------------------------------------------------------------
(* The calls. *)

\* CommonCheckPostHandshakeAuth, for HITLS_Accept and HITLS_Write.
CommonCheckPostHandshakeAuth(c) ==
  IF ~config.isClient /\ c.phaState = "PHA_PENDING" /\ c.state = "TRANSPORTING"
  THEN [ChangeConnState(c, "HANDSHAKING") EXCEPT !.hs = "sendCertRequest"] ELSE c

\* The user begins to write new data, or repeats a write that failed.
BeginWrite(c) ==
  IF c.log.writing THEN c
  ELSE [c EXCEPT !.log.writing = TRUE, !.log.copies = 0, !.log.disturbed = FALSE]

\* Every call first sends a pending alert; HITLS_Close has a handler for that.
Call(api, io) ==
  LET p == CommonEventInAlertingState(ctx, io)
      q == IF api # "Close" /\ ctx.state = "ALERTING" THEN p ELSE Result(ctx, "SUCCESS")
      c == CASE api = "Close" -> [q.ctx EXCEPT !.userShutDown = TRUE]
             [] api = "Accept" -> CommonCheckPostHandshakeAuth(q.ctx)
             [] api = "Write" -> CommonCheckPostHandshakeAuth(BeginWrite(q.ctx))
             [] OTHER -> q.ctx
  IN /\ call.at = "user" /\ api # IF config.isClient THEN "Accept" ELSE "Connect"
     /\ IF q.ret # "SUCCESS"
        THEN ctx' = q.ctx /\ call' = [api |-> api, at |-> "user", ret |-> q.ret]
        ELSE ctx' = c /\ call' = [call EXCEPT !.api = api, !.at = "Dispatch"]

Dispatched(api, s) == call.at = "Dispatch" /\ call.api \in api /\ ctx.state = s

\* HITLS_Connect and HITLS_Accept in an idle connection: CONN_Init.
EstablishEventInIdle ==
  /\ Dispatched({"Connect", "Accept"}, "IDLE")
  /\ ctx' = HS_Init(ChangeConnState(ctx, "HANDSHAKING")) /\ Continue("Handshaking")

\* The loops, from any of the calls; a write that is pending goes out first.
DispatchLoop ==
  /\ \/ \E s \in {"HANDSHAKING", "RENEGOTIATION"} :
          /\ Dispatched({"Connect", "Accept", "Read", "Write"}, s)
          /\ Continue(IF s = "RENEGOTIATION" /\ call.api = "Write" /\ ctx.pendingData
                      THEN "Writing" ELSE LoopFor(s))
     \/ Dispatched({"Read"}, "TRANSPORTING") /\ Continue("Reading")
     \/ Dispatched({"Write"}, "TRANSPORTING") /\ Continue("Writing")
  /\ UNCHANGED ctx

\* The handlers that only return a code.
DispatchReturn ==
  /\ \/ Dispatched({"Connect", "Accept"}, "TRANSPORTING") /\ Return("SUCCESS")
     \/ Dispatched({"Read", "Write"}, "IDLE") /\ Return("UNESTABLISHED")
     \/ Dispatched(APIs \ {"Close"}, "ALERTED") /\ Return("FATAL_ALERTED")
     \/ Dispatched({"Connect", "Accept"}, "CLOSED") /\ Return("LINK_CLOSED")
     \/ Dispatched({"Read"}, "CLOSED") /\ ClosedForReading /\ Return("LINK_CLOSED")
     \/ Dispatched({"Write"}, "CLOSED") /\ ClosedForWriting /\ Return("LINK_CLOSED")
  /\ UNCHANGED ctx

HITLS_KeyUpdate ==
  /\ call.at = "user" /\ config.isTls13 /\ ctx.state = "TRANSPORTING"
  /\ ctx' = [ChangeConnState(ctx, "HANDSHAKING") EXCEPT !.hs = "sendKeyUpdate"]
  /\ UNCHANGED call

HITLS_Renegotiate ==
  /\ call.at = "user" /\ ~config.isTls13 /\ config.supportRenego /\ ctx.state \in {"TRANSPORTING", "RENEGOTIATION"}
  /\ ~ctx.isRenegotiation
  /\ ctx' = ChangeConnState(HS_Init([ctx EXCEPT !.isRenegotiation = TRUE, !.userRenego = TRUE]),
                            "RENEGOTIATION")
  /\ UNCHANGED call

HITLS_VerifyClientPostHandshake ==
  /\ call.at = "user" /\ ~config.isClient /\ ctx.state = "TRANSPORTING" /\ ctx.phaState = "PHA_EXTENSION"
  /\ ctx' = [ctx EXCEPT !.phaState = "PHA_PENDING"]
  /\ UNCHANGED call

\* The user sees that the buffer is empty, so the write it held is complete.
HITLS_Flush(io) ==
  /\ call.at = "user" /\ ctx.outBuf # "none"
  /\ LET f == REC_OutBufFlush(ctx, io) IN
     ctx' = IF f.ret = "SUCCESS" /\ ctx.outBuf = "app"
            THEN [f.ctx EXCEPT !.log.writing = FALSE, !.log.disturbed = FALSE] ELSE f.ctx
  /\ UNCHANGED call

\* HITLS_Clear resets all but phaState.
HITLS_Clear ==
  /\ call.at = "user" /\ MayClear /\ ctx.state # "IDLE"
  /\ ctx' = [NewCtx EXCEPT !.phaState = ctx.phaState]
  /\ call' = NoCall

-------------------------------------------------------------------------------
Handshake ==
  \/ \E next \in {"send", "hello", "recv", "connected"}, pha \in BOOLEAN :
       \/ \E io \in BuildOutcomes : HsSend(next, pha, io)
       \/ \E io \in IO : HsRecv(next, pha, io)
  \/ HsWaits
  \/ HsDone
  \/ \E io \in IO : HsRejects(io) \/ HsApp(io) \/ \E kind \in AlertKinds : HsAlert(kind, io)

Transport ==
  \/ ReadApp
  \/ ReadNothing
  \/ \E io \in IO : \/ ReadError(io) \/ WriteBadRetry(io) \/ WriteBadRetryInClosedState(io)
                    \/ \E kind \in AlertKinds : ReadAlert(kind, io)
                    \/ \E msg \in HsMsgs : ReadHsMsg(msg, io)
                    \/ \E record \in Records : ReadEventInClosedState(record, io)
  \/ \E io \in BuildOutcomes : WriteApp(io) \/ WriteEventInClosedState(io)

Dispatch == EstablishEventInIdle \/ DispatchLoop \/ DispatchReturn

Step ==
  \/ \E api \in APIs, io \in IO : Call(api, io)
  \/ \E record \in Records, io \in IO : CloseStep(record, io)
  \/ Dispatch \/ Handshake \/ Transport
  \/ HITLS_KeyUpdate \/ HITLS_Renegotiate \/ HITLS_VerifyClientPostHandshake
  \/ HITLS_Clear \/ \E io \in {"ok", "busy"} : HITLS_Flush(io)

Next == Step /\ UNCHANGED config

vars == <<config, ctx, call>>
Spec == Init /\ [][Next]_vars

\* The code runs to the end of a call; the user repeats HITLS_Close; the
\* transport is not blocked for ever.
Unblocked == [flush |-> "ok", write |-> "ok"]
Fairness ==
  /\ WF_vars(call.at # "user" /\ Next)
  /\ SF_vars(ctx.userShutDown /\ \E io \in IO : Call("Close", io) /\ UNCHANGED config)
  /\ SF_vars(\E record \in Records : CloseStep(record, Unblocked) /\ UNCHANGED config)
FairSpec == Spec /\ Fairness

-------------------------------------------------------------------------------
(* Properties. *)

\* The variables keep their types; in particular the 8-bit warnCount never
\* passes MAX_ALERT_COUNT, whatever the peer sends.
TypeOK ==
  /\ ctx \in Ctx
  /\ call \in [api : APIs, at : Loops, ret : Rets]

\* close_notify is the last thing said: once it was built no application data,
\* no handshake message and no second close_notify is (SENT is set only when
\* the transport has taken it, so ALERTING must protect the gap).
CloseIsLast == ctx.log.afterClose = {}

\* After a fatal alert was raised or received no data is sent or delivered on
\* this connection, whatever the user calls (conn_common.c:137 and 179).
FatalIsFinal == ctx.log.afterFatal = {}

\* A fatal alert that ended the connection was given to the transport, unless no
\* record could be built for it.
FatalIsSent ==
  (~config.writeErrors /\ ctx.state = "ALERTED" /\ ctx.alert.flag = "SEND" /\ ctx.alert.kind = "fatal") => "fatal" \in ctx.log.wire

\* Data reported as written was put in exactly one record, if no other function
\* emptied the buffer between the attempts (TlsRecordWrite's cache).
WriteOnce ==
  (call.at = "user" /\ call.api = "Write" /\ call.ret = "SUCCESS" /\ ~ctx.log.disturbed)
    => ctx.log.copies = 1

\* Once the user has called HITLS_Close, and repeats the call while it fails, the
\* connection is closed, if the transport lets records through now and then.
CloseCompletes == ctx.userShutDown ~> ctx.state = "CLOSED"

-------------------------------------------------------------------------------
(* What comments and the API's documentation say, and the code does not do. *)

\* "If the previous state of alerting is not transporting, the link should be
\* directly closed and read and write are not allowed" (conn_common.c:154): when
\* it is transporting, RECEIVED is the peer's to set and the user may read on.
ClosingStillReads ==
  (ctx.state = "CLOSED" /\ ctx.log.from = "TRANSPORTING" /\ ctx.alert.kind = "close"
   /\ ~ctx.log.fatal /\ ~ctx.log.gotClose) => "RECEIVED" \notin ctx.shutdownState

\* "When the local end sends a closed notify message, the HiTLS sets the
\* HITLS_SENT_SHUTDOWN flag bit" (hitls.h:291).
SentMeansSent ==
  ("SENT" \in ctx.shutdownState /\ ctx.preState # "IDLE" /\ ~config.isQuietShutdown /\ ~ctx.log.fatal)
    => "close" \in ctx.log.wire

\* A HITLS_Write that returned HITLS_REC_NORMAL_IO_BUSY and is repeated until it
\* succeeds "packs data ... into a single record" (hitls.h:221).
WrittenOnce ==
  (call.at = "user" /\ call.api = "Write" /\ call.ret = "SUCCESS") => ctx.log.copies = 1

\* "After the key update message is sent, the local application traffic key is
\* updated" (hs_state_send.c:52): a message that REC_Write reports as written
\* was written.
ReportedMeansWritten == ~ctx.log.lost

\* "Reset the TLS handle to allow it to be used for another connection"
\* (hitls.h:56): a post-handshake CertificateRequest goes only to a client that
\* offered the extension on this connection.
PhaWasOffered == ctx.hs = "sendCertRequest" => ctx.log.pha
===============================================================================
